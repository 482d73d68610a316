----------------------------- MODULE StackProofs ------------------------------
(* What is proved of a stack of windows (Stack), for any windows and any     *)
(* number of changes and waiting callbacks: its indices stay sound, keys     *)
(* reach a window that has the keyboard, and the shell's list of tabs        *)
(* catches up.                                                               *)
EXTENDS Stack, TLAPS, SequenceTheorems, FiniteSetTheorems

-----------------------------------------------------------------------------
(* Tabs that come and go.                                                    *)

\* insert moves what is at the index, and everything behind it, one further.
LEMMA InsertGives ==
  ASSUME NEW S, NEW s \in Seq(S), NEW i \in 1..(Len(s) + 1), NEW w \in S
  PROVE  /\ InsertAt(s, i, w) \in Seq(S)
         /\ Len(InsertAt(s, i, w)) = Len(s) + 1
         /\ \A k \in 1..(i - 1) : InsertAt(s, i, w)[k] = s[k]
         /\ InsertAt(s, i, w)[i] = w
         /\ \A k \in (i + 1)..(Len(s) + 1) : InsertAt(s, i, w)[k] = s[k - 1]
<1> DEFINE front == SubSeq(s, 1, i - 1)
           back == SubSeq(s, i, Len(s))
<1>1. Len(s) \in Nat /\ \A k \in 1..Len(s) : s[k] \in S
  BY LenProperties, ElementOfSeq
<1>2. /\ front \in Seq(S) /\ Len(front) = i - 1
      /\ \A k \in 1..(i - 1) : front[k] = s[k]
  BY <1>1, SubSeqProperties
<1>3. /\ back \in Seq(S) /\ Len(back) = Len(s) - i + 1
      /\ \A k \in 1..(Len(s) - i + 1) : back[k] = s[i + k - 1]
  BY <1>1, SubSeqProperties
<1>4. <<w>> \in Seq(S) /\ Len(<<w>>) = 1 /\ <<w>>[1] = w
  OBVIOUS
<1> HIDE DEF front, back
<1>5. /\ front \o <<w>> \in Seq(S) /\ Len(front \o <<w>>) = i
      /\ \A k \in 1..i : (front \o <<w>>)[k] = IF k < i THEN s[k] ELSE w
  BY <1>2, <1>4, ConcatProperties
<1>6. /\ (front \o <<w>>) \o back \in Seq(S)
      /\ Len((front \o <<w>>) \o back) = Len(s) + 1
      /\ \A k \in 1..(i - 1) : ((front \o <<w>>) \o back)[k] = s[k]
      /\ ((front \o <<w>>) \o back)[i] = w
      /\ \A k \in (i + 1)..(Len(s) + 1) : ((front \o <<w>>) \o back)[k] = s[k - 1]
  <2>1. /\ (front \o <<w>>) \o back \in Seq(S)
        /\ Len((front \o <<w>>) \o back) = Len(s) + 1
        /\ \A k \in 1..(Len(s) + 1) :
             ((front \o <<w>>) \o back)[k] =
               IF k <= i THEN (front \o <<w>>)[k] ELSE back[k - i]
    BY <1>1, <1>3, <1>5, ConcatProperties
  <2>2. ASSUME NEW k \in (i + 1)..(Len(s) + 1) PROVE back[k - i] = s[k - 1]
    BY <1>1, <1>3
  <2> QED BY <1>1, <1>5, <2>1, <2>2
<1> QED BY <1>6 DEF InsertAt, front, back

\* remove moves everything behind the index one nearer.
LEMMA RemoveGives ==
  ASSUME NEW S, NEW s \in Seq(S), NEW i \in 1..Len(s)
  PROVE  /\ RemoveAt(s, i) \in Seq(S)
         /\ Len(RemoveAt(s, i)) = Len(s) - 1
         /\ \A k \in 1..(Len(s) - 1) :
              RemoveAt(s, i)[k] = IF k < i THEN s[k] ELSE s[k + 1]
<1> DEFINE front == SubSeq(s, 1, i - 1)
           back == SubSeq(s, i + 1, Len(s))
<1>1. Len(s) \in Nat /\ \A k \in 1..Len(s) : s[k] \in S
  BY LenProperties, ElementOfSeq
<1>2. /\ front \in Seq(S) /\ Len(front) = i - 1
      /\ \A k \in 1..(i - 1) : front[k] = s[k]
  BY <1>1, SubSeqProperties
<1>3. /\ back \in Seq(S) /\ Len(back) = Len(s) - i
      /\ \A k \in 1..(Len(s) - i) : back[k] = s[i + k]
  BY <1>1, SubSeqProperties
<1> HIDE DEF front, back
<1>4. /\ front \o back \in Seq(S) /\ Len(front \o back) = Len(s) - 1
      /\ \A k \in 1..(Len(s) - 1) :
           (front \o back)[k] = IF k <= i - 1 THEN front[k] ELSE back[k - (i - 1)]
  <2>1. Len(front) + Len(back) = Len(s) - 1
    BY <1>1, <1>2, <1>3
  <2>2. /\ front \o back \in Seq(S) /\ Len(front \o back) = Len(front) + Len(back)
        /\ \A k \in 1..(Len(front) + Len(back)) :
             (front \o back)[k] = IF k <= Len(front) THEN front[k]
                                 ELSE back[k - Len(front)]
    BY <1>2, <1>3, ConcatProperties
  <2> QED BY <1>2, <2>1, <2>2
<1>5. ASSUME NEW k \in i..(Len(s) - 1) PROVE back[k - (i - 1)] = s[k + 1]
  BY <1>1, <1>3
<1>6. \A k \in 1..(Len(s) - 1) :
        (front \o back)[k] = IF k < i THEN s[k] ELSE s[k + 1]
  BY <1>1, <1>2, <1>4, <1>5
<1> QED BY <1>4, <1>6 DEF RemoveAt, front, back

\* A window that comes to tabs it was not among is there once.
LEMMA InsertKeepsOnce ==
  ASSUME NEW s \in Seq(Windows), NEW i \in 1..(Len(s) + 1), NEW w \in Windows,
         IsInjective(s), w \notin Range(s)
  PROVE  /\ IsInjective(InsertAt(s, i, w))
         /\ Range(s) \subseteq Range(InsertAt(s, i, w))
<1> DEFINE t == InsertAt(s, i, w)
<1>1. Len(s) \in Nat /\ DOMAIN s = 1..Len(s)
  BY LenProperties
<1>2. /\ DOMAIN t = 1..(Len(s) + 1)
      /\ \A k \in 1..(i - 1) : t[k] = s[k]
      /\ t[i] = w
      /\ \A k \in (i + 1)..(Len(s) + 1) : t[k] = s[k - 1]
  <2>1. /\ t \in Seq(Windows) /\ Len(t) = Len(s) + 1
        /\ \A k \in 1..(i - 1) : t[k] = s[k]
        /\ t[i] = w
        /\ \A k \in (i + 1)..(Len(s) + 1) : t[k] = s[k - 1]
    BY InsertGives
  <2>2. DOMAIN t = 1..Len(t)
    BY <2>1, LenProperties
  <2> QED BY <2>1, <2>2
<1> HIDE DEF t
<1>3. ASSUME NEW k \in 1..Len(s) PROVE s[k] # w
  BY <1>1, <1>3 DEF Range
<1>4. ASSUME NEW a \in 1..(Len(s) + 1), NEW b \in 1..(Len(s) + 1), t[a] = t[b]
      PROVE  a = b
  <2>1. \A k, l \in 1..Len(s) : s[k] = s[l] => k = l
    BY <1>1 DEF IsInjective
  <2> DEFINE At(k) == IF k < i THEN k ELSE k - 1
  <2>2. \A k \in 1..(Len(s) + 1) :
          k # i => At(k) \in 1..Len(s) /\ t[k] = s[At(k)]
    BY <1>1, <1>2
  <2>3. t[i] = w
    BY <1>1, <1>2
  <2>4. CASE a = i \/ b = i
    BY <1>3, <1>4, <2>2, <2>3, <2>4
  <2>5. CASE a # i /\ b # i
    <3>1. At(a) = At(b)
      BY <1>4, <2>1, <2>2, <2>5
    <3> QED BY <2>5, <3>1, <1>1
  <2> QED BY <2>4, <2>5
<1>5. ASSUME NEW x \in Range(s) PROVE x \in Range(t)
  <2>1. PICK k \in 1..Len(s) : s[k] = x
    BY <1>1 DEF Range
  <2>2. CASE k < i
    BY <1>1, <1>2, <2>1, <2>2 DEF Range
  <2>3. CASE ~(k < i)
    <3>1. k + 1 \in 1..(Len(s) + 1) /\ t[k + 1] = s[k]
      BY <1>1, <1>2, <2>3
    <3> QED BY <1>2, <2>1, <3>1 DEF Range
  <2> QED BY <2>2, <2>3
<1> QED BY <1>2, <1>4, <1>5 DEF IsInjective, t

\* Without one tab the others are there, once each, and it is not.
LEMMA RemoveKeepsOnce ==
  ASSUME NEW s \in Seq(Windows), NEW i \in 1..Len(s), IsInjective(s)
  PROVE  /\ IsInjective(RemoveAt(s, i))
         /\ Range(s) \ {s[i]} \subseteq Range(RemoveAt(s, i))
<1> DEFINE t == RemoveAt(s, i)
<1>1. Len(s) \in Nat /\ DOMAIN s = 1..Len(s)
  BY LenProperties
<1>2. /\ DOMAIN t = 1..(Len(s) - 1)
      /\ \A k \in 1..(Len(s) - 1) : t[k] = IF k < i THEN s[k] ELSE s[k + 1]
  <2>1. /\ t \in Seq(Windows) /\ Len(t) = Len(s) - 1
        /\ \A k \in 1..(Len(s) - 1) : t[k] = IF k < i THEN s[k] ELSE s[k + 1]
    BY RemoveGives
  <2>2. DOMAIN t = 1..Len(t)
    BY <2>1, LenProperties
  <2> QED BY <2>1, <2>2
<1> HIDE DEF t
<1>3. ASSUME NEW a \in 1..(Len(s) - 1), NEW b \in 1..(Len(s) - 1), t[a] = t[b]
      PROVE  a = b
  <2>1. \A k, l \in 1..Len(s) : s[k] = s[l] => k = l
    BY <1>1 DEF IsInjective
  <2> QED BY <1>1, <1>2, <1>3, <2>1
<1>4. ASSUME NEW x \in Range(s) \ {s[i]} PROVE x \in Range(t)
  <2>1. PICK k \in 1..Len(s) : s[k] = x
    BY <1>1 DEF Range
  <2>2. CASE k < i
    BY <1>1, <1>2, <2>1, <2>2 DEF Range
  <2>3. CASE k > i
    <3>1. k - 1 \in 1..(Len(s) - 1) /\ t[k - 1] = s[k]
      BY <1>1, <1>2, <2>3
    <3> QED BY <1>2, <2>1, <3>1 DEF Range
  <2> QED BY <1>1, <2>1, <2>2, <2>3
<1> QED BY <1>2, <1>3, <1>4 DEF IsInjective, t

-----------------------------------------------------------------------------
(* The invariant.                                                            *)

Events ==
  [kind : {"tab_added"}, idx : Nat \ {0}, win : Windows, on : BOOLEAN]
    \cup [kind : {"tab_removed", "tab_activated"}, idx : Nat \ {0}]

StackTypes ==
  /\ wins \in Seq(Windows) /\ wins # <<>> /\ IsInjective(wins)
  /\ active \in Nat \ {0} /\ previous \in Nat \ {0} /\ mods \in Nat
  /\ remembered \in [serial : Nat, idx : Nat] /\ remembered.serial <= mods
  /\ remembered.serial # 0 => remembered.idx # 0
  /\ remembered.serial = 0 => remembered.idx = 0
  /\ grouped \in BOOLEAN /\ focused \in BOOLEAN /\ reenter \in BOOLEAN
  /\ alive \in BOOLEAN /\ unwrapped \in BOOLEAN
  /\ strayed \in BOOLEAN /\ unannounced \in BOOLEAN /\ unshown \in BOOLEAN
  /\ entered \subseteq Range(wins)
  /\ queue \in Seq(Events) /\ tabs \in Seq(Windows) /\ shown \in Nat

\* While nothing went in handle_move or refresh, there is a tab at the index
\* that focus goes back to.
IndicesInv ==
  unannounced \/ (active \in 1..Len(wins) /\ remembered.idx <= Len(wins))

\* The windows that may have the keyboard: the one it was last at, and the
\* active one where handle_move or remove_window brought it there.
KeyboardInv ==
  Going /\ ~strayed =>
    /\ ~focused => entered = {}
    /\ focused /\ previous = active =>
         /\ entered \subseteq {wins[active]}
         /\ ~reenter => entered = {wins[active]}
    /\ focused /\ previous # active =>
         \/ entered = {} \/ entered = {wins[active]}
         \/ previous \in 1..Len(wins) /\ entered = {wins[previous]}

StackInv == StackTypes /\ IndicesInv /\ KeyboardInv

-----------------------------------------------------------------------------
(* Every step keeps it.                                                      *)

\* A stack begins with the windows of a group, told to the shell one by one.
LEMMA InitSound == StackInit => StackInv
<1> SUFFICES ASSUME StackInit PROVE StackInv
  OBVIOUS
<1>1. PICK n \in 1..Cardinality(Windows) : wins \in [1..n -> Windows]
  BY DEF StackInit
<1>2. n \in Nat /\ n > 0
  BY <1>1
<1>3. wins \in Seq(Windows) /\ Len(wins) = n /\ DOMAIN wins = 1..n
  BY <1>1, <1>2
<1>4. wins # <<>>
  BY <1>2, <1>3
<1>5. queue \in Seq(Events)
  <2>1. CASE ~listening
    BY <2>1 DEF StackInit
  <2>2. CASE listening
    <3>1. \A i \in 1..n : Added(i, wins[i], i = 1) \in Events
      BY <1>1, <1>2 DEF Added, Events
    <3>2. queue = [i \in 1..n |-> Added(i, wins[i], i = 1)]
      BY <1>3, <2>2 DEF StackInit
    <3> QED BY <1>2, <3>1, <3>2
  <2> QED BY <2>1, <2>2
<1>6. StackTypes
  <2>1. /\ remembered = [serial |-> 0, idx |-> 0] /\ mods = 0 /\ active = 1
        /\ previous = 1 /\ entered = {} /\ tabs = <<>> /\ shown = 0
        /\ IsInjective(wins)
    BY DEF StackInit, NoIndex
  <2>2. tabs \in Seq(Windows) /\ entered \subseteq Range(wins)
    BY <2>1
  <2>3. /\ grouped \in BOOLEAN /\ focused \in BOOLEAN /\ reenter \in BOOLEAN
        /\ alive \in BOOLEAN /\ unwrapped \in BOOLEAN
        /\ strayed \in BOOLEAN /\ unannounced \in BOOLEAN /\ unshown \in BOOLEAN
    BY DEF StackInit
  <2>4. /\ remembered \in [serial : Nat, idx : Nat] /\ remembered.serial <= mods
        /\ remembered.serial # 0 => remembered.idx # 0
        /\ remembered.serial = 0 => remembered.idx = 0
    BY <2>1
  <2> QED BY <1>3, <1>4, <1>5, <2>1, <2>2, <2>3, <2>4 DEF StackTypes
<1>7. IndicesInv
  BY <1>2, <1>3 DEF IndicesInv, StackInit, NoIndex
<1>8. KeyboardInv
  BY DEF KeyboardInv, StackInit
<1> QED BY <1>6, <1>7, <1>8 DEF StackInv

\* The index to go back to is one of the tabs there are now.
LEMMA RememberingSound ==
  ASSUME StackInv, Going
  PROVE  /\ Remembering \in [serial : Nat, idx : Nat]
         /\ Remembering.serial <= mods
         /\ Remembering.serial # 0 => Remembering.idx # 0
         /\ Remembering.serial = 0 => Remembering.idx = 0
         /\ unannounced \/ Remembering.idx <= Len(wins)
BY DEF StackInv, StackTypes, IndicesInv, Remembering, NoIndex, Going

\* keyboard_leave_if_previous leaves the keyboard with the active window alone.
LEMMA FollowedIsActive ==
  ASSUME StackInv, Going, ~strayed, focused
  PROVE  Followed(wins, active) = {wins[active]}
<1>1. DOMAIN wins = 1..Len(wins) /\ Len(wins) \in Nat
  BY LenProperties DEF StackInv, StackTypes
<1>2. CASE previous = active
  BY <1>2 DEF StackInv, KeyboardInv, Followed
<1>3. CASE previous # active
  <2>1. CASE entered = {} \/ entered = {wins[active]}
    BY <1>3, <2>1 DEF Followed
  <2>2. CASE previous \in 1..Len(wins) /\ entered = {wins[previous]}
    <3>1. {wins[i] : i \in {previous} \cap DOMAIN wins} = {wins[previous]}
      BY <1>1, <2>2
    <3> QED BY <1>3, <2>2, <3>1 DEF Followed
  <2> QED BY <1>3, <2>1, <2>2 DEF StackInv, KeyboardInv
<1> QED BY <1>2, <1>3

\* It takes the keyboard from windows of the stack and gives it to one.
LEMMA FollowedIsInside ==
  ASSUME StackInv, Going
  PROVE  Followed(wins, active) \subseteq Range(wins)
BY DEF StackInv, StackTypes, Followed, Range, Going

\* Keyboard events go to the active window and keep the invariant.
LEMMA KeyboardKeepsIt ==
  ASSUME StackInv, Enter \/ Leave \/ Key \/ Modifiers
  PROVE  StackInv'
<1>1. Going /\ wins[active] \in Range(wins)
  BY DEF Enter, Leave, Key, Modifiers, Going, Range
<1>2. Followed(wins, active) \subseteq Range(wins)
  BY <1>1, FollowedIsInside
<1>3. StackTypes'
  <2>1. CASE Enter
    BY <2>1, <1>1 DEF StackInv, StackTypes, Enter, shell
  <2>2. CASE Leave
    BY <2>2, <1>2 DEF StackInv, StackTypes, Leave, Follow, shell
  <2>3. CASE Key
    BY <2>3, <1>2 DEF StackInv, StackTypes, Key, Follow, shell
  <2>4. CASE Modifiers
    <3>1. \A n \in Nat : n <= mods => n <= mods + 1
      BY DEF StackInv, StackTypes
    <3>2. remembered'.serial <= mods' /\ mods' \in Nat
      BY <2>4, <3>1 DEF StackInv, StackTypes, Modifiers
    <3>3. previous' \in Nat \ {0} /\ reenter' \in BOOLEAN /\ entered' \subseteq Range(wins)
      BY <2>4, <1>2 DEF StackInv, StackTypes, Modifiers, Follow
    <3> QED BY <2>4, <3>2, <3>3 DEF StackInv, StackTypes, Modifiers, shell
  <2> QED BY <2>1, <2>2, <2>3, <2>4
<1>4. IndicesInv'
  BY DEF StackInv, IndicesInv, Enter, Leave, Key, Modifiers
<1>5. KeyboardInv'
  <2> SUFFICES ASSUME Going', ~strayed' PROVE KeyboardInv'
    BY DEF KeyboardInv
  <2>1. ~strayed
    BY DEF Enter, Leave, Key, Modifiers
  <2>2. CASE Enter
    <3>1. entered = {}
      BY <1>1, <2>1, <2>2 DEF StackInv, KeyboardInv, Enter
    <3> QED BY <2>2, <3>1 DEF KeyboardInv, Enter
  <2>3. CASE Leave
    BY <1>1, <2>1, <2>3, FollowedIsActive DEF KeyboardInv, Leave
  <2>4. CASE Key
    BY <1>1, <2>1, <2>4, FollowedIsActive DEF KeyboardInv, Key, Follow
  <2>5. CASE Modifiers /\ focused
    BY <1>1, <2>1, <2>5, FollowedIsActive DEF KeyboardInv, Modifiers, Follow
  <2>6. CASE Modifiers /\ ~focused
    BY <1>1, <2>1, <2>6 DEF StackInv, KeyboardInv, Modifiers
  <2> QED BY <2>2, <2>3, <2>4, <2>5, <2>6
<1> QED BY <1>3, <1>4, <1>5 DEF StackInv

\* Another index is active: the keyboard stays where it is until a key comes.
LEMMA SwitchKeepsKeyboard ==
  ASSUME StackInv, Going, NEW i, Switch(i), wins' = wins
  PROVE  KeyboardInv'
<1> SUFFICES ASSUME Going', ~strayed' PROVE KeyboardInv'
  BY DEF KeyboardInv
<1>1. CASE i = active
  BY <1>1 DEF Switch, StackInv, KeyboardInv
<1>2. CASE i # active
  <2>1. /\ active' = i /\ previous' = active /\ ~strayed /\ ~(focused /\ Behind)
        /\ focused' = focused /\ reenter' = reenter /\ entered' = entered
    BY <1>2 DEF Switch
  <2>2. active \in 1..Len(wins)
    BY LenProperties DEF StackInv, StackTypes, Going
  <2>3. CASE ~focused
    BY <2>1, <2>3 DEF StackInv, KeyboardInv
  <2>4. CASE focused
    <3>1. previous = active
      BY <2>1, <2>4 DEF Behind
    <3>2. entered = {} \/ entered = {wins[active]}
      BY <2>1, <2>4, <3>1 DEF StackInv, KeyboardInv
    <3> QED BY <1>2, <2>1, <2>2, <2>4, <3>2 DEF KeyboardInv
  <2> QED BY <2>3, <2>4
<1> QED BY <1>1, <1>2

\* Moving the focus inside the stack or out of it keeps the invariant.
LEMMA HandleFocusKeepsIt ==
  ASSUME StackInv, HandleFocusOut \/ \E d \in {"Left", "Right", "Up"} : HandleFocus(d)
  PROVE  StackInv'
<1>1. Going /\ remembered' = Remembering /\ wins' = wins /\ mods' = mods
      /\ unannounced' = unannounced
  BY DEF HandleFocusOut, HandleFocus
<1>2. DOMAIN wins = 1..Len(wins) /\ Len(wins) \in Nat
  BY LenProperties DEF StackInv, StackTypes
<1>3. active \in 1..Len(wins)
  BY <1>1, <1>2 DEF Going
<1>4. \/ UNCHANGED <<active, keyboard>>
      \/ /\ \E i \in Nat \ {0} :
              /\ i \in 1..Len(wins) \/ i = Remembering.idx
              /\ Switch(i)
  <2>1. CASE HandleFocusOut
    BY <2>1 DEF HandleFocusOut
  <2>2. ASSUME NEW d \in {"Left", "Right", "Up"}, HandleFocus(d) PROVE <1>4!:
    <3> DEFINE next == IF d = "Left" THEN active - 1 ELSE active + 1
    <3>1. \/ UNCHANGED <<active, keyboard>>
          \/ next \in DOMAIN wins /\ Switch(next)
          \/ Remembering # NoIndex /\ Switch(Remembering.idx)
      BY <2>2 DEF HandleFocus
    <3>2. CASE next \in DOMAIN wins /\ Switch(next)
      BY <3>2, <1>2
    <3>3. CASE Remembering # NoIndex /\ Switch(Remembering.idx)
      <4>1. Remembering.idx \in Nat \ {0}
        <5>1. PICK r \in [serial : Nat, idx : Nat] : r = Remembering
          BY <1>1, RememberingSound
        <5>2. r.serial = 0 => r.idx = 0
          BY <1>1, <5>1, RememberingSound
        <5>3. r.serial # 0 => r.idx # 0
          BY <1>1, <5>1, RememberingSound
        <5>4. r # NoIndex
          BY <3>3, <5>1
        <5> QED BY <5>1, <5>2, <5>3, <5>4 DEF NoIndex
      <4> QED BY <3>3, <4>1
    <3> QED BY <3>1, <3>2, <3>3
  <2> QED BY <2>1, <2>2
<1>5. StackTypes'
  <2>1. /\ active' \in Nat \ {0} /\ previous' \in Nat \ {0}
        /\ focused' = focused /\ reenter' = reenter /\ entered' = entered
        /\ strayed' \in BOOLEAN
    BY <1>4, <1>2, <1>3 DEF StackInv, StackTypes, Switch, keyboard
  <2>2. /\ grouped' \in BOOLEAN /\ unshown' \in BOOLEAN /\ unwrapped' \in BOOLEAN
        /\ UNCHANGED <<alive, queue, tabs, shown>>
    BY DEF StackInv, StackTypes, HandleFocusOut, HandleFocus, Untold, shell
  <2> QED BY <1>1, <2>1, <2>2, RememberingSound DEF StackInv, StackTypes
<1>6. IndicesInv'
  <2>1. unannounced \/ Remembering.idx <= Len(wins)
    BY <1>1, RememberingSound
  <2>2. unannounced \/ active' \in 1..Len(wins)
    BY <1>2, <1>3, <1>4, <2>1 DEF Switch
  <2> QED BY <1>1, <2>1, <2>2 DEF IndicesInv
<1>7. KeyboardInv'
  <2>1. CASE UNCHANGED <<active, keyboard>>
    BY <1>1, <2>1 DEF StackInv, KeyboardInv, Going, keyboard
  <2>2. ASSUME NEW i \in Nat \ {0}, Switch(i) PROVE KeyboardInv'
    BY <1>1, <2>2, SwitchKeepsKeyboard
  <2> QED BY <1>4, <2>1, <2>2
<1> QED BY <1>5, <1>6, <1>7 DEF StackInv

\* What the shell lists, and what it shows, after an event.
LEMMA AfterTypes ==
  ASSUME NEW t \in Seq(Windows), NEW n \in Nat, NEW e \in Events
  PROVE  ListAfter(t, e) \in Seq(Windows) /\ ShownAfter(n, e) \in Nat
<1>1. e.idx \in Nat \ {0} /\ Len(t) \in Nat
  BY LenProperties DEF Events
<1>2. ShownAfter(n, e) \in Nat
  BY <1>1 DEF ShownAfter
<1>3. ASSUME e.kind = "tab_added" PROVE ListAfter(t, e) \in Seq(Windows)
  <2>1. e.win \in Windows
    BY <1>3 DEF Events
  <2>2. CASE e.idx > Len(t)
    BY <1>3, <2>1, <2>2 DEF ListAfter
  <2>3. CASE ~(e.idx > Len(t))
    <3>1. e.idx \in 1..(Len(t) + 1)
      BY <1>1, <2>3
    <3>2. InsertAt(t, e.idx, e.win) \in Seq(Windows)
      BY <2>1, <3>1, InsertGives
    <3> QED BY <1>3, <2>3, <3>2 DEF ListAfter
  <2> QED BY <2>2, <2>3
<1>4. ASSUME e.kind = "tab_removed" PROVE ListAfter(t, e) \in Seq(Windows)
  <2>1. CASE e.idx > Len(t)
    BY <1>4, <2>1 DEF ListAfter
  <2>2. CASE ~(e.idx > Len(t))
    <3>1. e.idx \in 1..Len(t)
      BY <1>1, <2>2
    <3>2. RemoveAt(t, e.idx) \in Seq(Windows)
      BY <3>1, RemoveGives
    <3> QED BY <1>4, <2>2, <3>2 DEF ListAfter
  <2> QED BY <2>1, <2>2
<1>5. ASSUME e.kind # "tab_added", e.kind # "tab_removed"
      PROVE  ListAfter(t, e) \in Seq(Windows)
  BY <1>5 DEF ListAfter
<1> QED BY <1>2, <1>3, <1>4, <1>5

\* Delivering the event at the head of the queue keeps the invariant.
LEMMA DeliverKeepsIt ==
  ASSUME StackInv, Deliver
  PROVE  StackInv'
<1>1. Head(queue) \in Events /\ queue' \in Seq(Events)
  BY HeadTailProperties DEF StackInv, StackTypes, Deliver
<1>2. tabs' \in Seq(Windows) /\ shown' \in Nat
  BY <1>1, AfterTypes DEF StackInv, StackTypes, Deliver
<1>3. UNCHANGED <<wins, active, remembered, mods, grouped, keyboard, alive,
                  unannounced, unshown, unwrapped>>
  BY DEF Deliver
<1> QED BY <1>1, <1>2, <1>3 DEF StackInv, StackTypes, IndicesInv, KeyboardInv, Going,
           keyboard

\* The shell will be told.
LEMMA SentTypes ==
  ASSUME StackInv, NEW e \in Events, Sent(e)
  PROVE  queue' \in Seq(Events) /\ tabs' = tabs /\ shown' = shown
<1>1. queue \in Seq(Events)
  BY DEF StackInv, StackTypes
<1>2. Append(queue, e) \in Seq(Events)
  BY <1>1
<1> QED BY <1>1, <1>2 DEF Sent, shell

\* Choosing a tab keeps the invariant.
LEMMA SetActiveKeepsIt ==
  ASSUME StackInv, NEW i, SetActive(i)
  PROVE  StackInv'
<1>1. /\ Going /\ i \in 1..Len(wins) /\ Switch(i) /\ wins' = wins
      /\ UNCHANGED <<remembered, mods, grouped, alive, unannounced, unwrapped>>
  BY LenProperties DEF StackInv, StackTypes, SetActive
<1>2. queue' \in Seq(Events) /\ tabs' = tabs /\ shown' = shown /\ unshown' \in BOOLEAN
  <2>1. Activated(i) \in Events
    BY <1>1 DEF Activated, Events
  <2> QED BY <2>1, SentTypes DEF SetActive, shell, StackInv, StackTypes
<1>3. /\ active' \in 1..Len(wins) /\ previous' \in Nat \ {0}
      /\ UNCHANGED <<focused, reenter, entered>> /\ strayed' \in BOOLEAN
  BY <1>1 DEF Switch, StackInv, StackTypes
<1>4. active' \in Nat \ {0}
  BY <1>3
<1>5. StackTypes'
  BY <1>1, <1>2, <1>3, <1>4 DEF StackInv, StackTypes
<1>6. IndicesInv'
  BY <1>1, <1>3 DEF StackInv, IndicesInv
<1> QED BY <1>1, <1>5, <1>6, SwitchKeepsKeyboard DEF StackInv

\* Two tabs change places, and the keyboard goes with the active one.
LEMMA MoveTabKeepsIt ==
  ASSUME StackInv, NEW d \in {"Left", "Right"}, MoveTab(d)
  PROVE  StackInv'
<1> DEFINE next == IF d = "Left" THEN active - 1 ELSE active + 1
<1>1. DOMAIN wins = 1..Len(wins) /\ Len(wins) \in Nat
  BY LenProperties DEF StackInv, StackTypes
<1>2. /\ Going /\ focused /\ next \in 1..Len(wins) /\ next # active
      /\ active \in 1..Len(wins)
      /\ wins' = [wins EXCEPT ![active] = wins[next], ![next] = wins[active]]
      /\ Switch(next) /\ unannounced' = TRUE
      /\ UNCHANGED <<remembered, mods, grouped, alive, queue, tabs, shown,
                     unshown, unwrapped>>
  BY <1>1 DEF MoveTab, Going, shell, StackInv, StackTypes
<1> HIDE DEF next
<1>3. /\ wins' \in Seq(Windows) /\ Len(wins') = Len(wins)
      /\ DOMAIN wins' = 1..Len(wins)
      /\ \A k \in 1..Len(wins) : wins'[k] = IF k = active THEN wins[next]
                                            ELSE IF k = next THEN wins[active]
                                            ELSE wins[k]
  <2>1. wins \in [1..Len(wins) -> Windows]
    BY LenProperties DEF StackInv, StackTypes
  <2>2. wins' \in [1..Len(wins) -> Windows]
    BY <1>2, <2>1
  <2> QED BY <1>1, <1>2, <2>1, <2>2
<1>4. IsInjective(wins')
  <2>1. \A k, l \in 1..Len(wins) : wins[k] = wins[l] => k = l
    BY <1>1 DEF StackInv, StackTypes, IsInjective
  <2> DEFINE At(k) == IF k = active THEN next ELSE IF k = next THEN active ELSE k
  <2>2. \A k \in 1..Len(wins) : At(k) \in 1..Len(wins) /\ wins'[k] = wins[At(k)]
    BY <1>2, <1>3
  <2>3. ASSUME NEW k \in 1..Len(wins), NEW l \in 1..Len(wins), wins'[k] = wins'[l]
        PROVE  k = l
    <3>1. At(k) = At(l)
      BY <2>1, <2>2, <2>3
    <3> QED BY <3>1, <1>2
  <2> QED BY <1>3, <2>3 DEF IsInjective
<1>5. Range(wins) \subseteq Range(wins')
  <2> SUFFICES ASSUME NEW x \in Range(wins) PROVE x \in Range(wins')
    OBVIOUS
  <2>1. PICK k \in 1..Len(wins) : wins[k] = x
    BY <1>1 DEF Range
  <2>2. PICK l \in 1..Len(wins) : wins'[l] = x
    <3>1. CASE k = active
      BY <1>2, <1>3, <2>1, <3>1
    <3>2. CASE k = next
      BY <1>2, <1>3, <2>1, <3>2
    <3>3. CASE k # active /\ k # next
      BY <1>3, <2>1, <3>3
    <3> QED BY <3>1, <3>2, <3>3
  <2> QED BY <1>3, <2>2 DEF Range
<1>6. /\ active' = next /\ previous' = active /\ UNCHANGED <<focused, reenter, entered>>
      /\ strayed' = (strayed \/ (focused /\ Behind))
  BY <1>2 DEF Switch
<1>7. StackTypes'
  <2>1. wins' # <<>>
    BY <1>2, <1>3
  <2>2. active' \in Nat \ {0} /\ previous' \in Nat \ {0} /\ strayed' \in BOOLEAN
    BY <1>1, <1>2, <1>6 DEF StackInv, StackTypes
  <2>3. entered' \subseteq Range(wins')
    BY <1>5, <1>6 DEF StackInv, StackTypes
  <2> QED BY <1>2, <1>3, <1>4, <1>6, <2>1, <2>2, <2>3 DEF StackInv, StackTypes
<1>8. IndicesInv'
  BY <1>2 DEF IndicesInv
<1>9. KeyboardInv'
  <2> SUFFICES ASSUME ~strayed' PROVE KeyboardInv'
    BY DEF KeyboardInv
  <2>1. previous = active /\ ~strayed
    BY <1>2, <1>6 DEF Behind
  <2>2. entered = {} \/ entered = {wins[active]}
    BY <1>2, <2>1 DEF StackInv, KeyboardInv
  <2>3. wins'[active'] = wins[active]
    BY <1>2, <1>3, <1>6
  <2> QED BY <1>2, <1>6, <2>2, <2>3 DEF KeyboardInv
<1> QED BY <1>7, <1>8, <1>9 DEF StackInv

\* The active window leaves the stack, which leaves no window with the keyboard.
LEMMA MoveOutKeepsIt ==
  ASSUME StackInv, MoveOut
  PROVE  StackInv'
<1> DEFINE rest == RemoveAt(wins, active)
           a == IF remembered.idx \in DOMAIN rest THEN remembered.idx
                ELSE IF active > Len(rest) THEN active - 1 ELSE active
<1>1. DOMAIN wins = 1..Len(wins) /\ Len(wins) \in Nat /\ wins \in Seq(Windows)
  BY LenProperties DEF StackInv, StackTypes
<1>2. /\ Going /\ focused /\ active \in 1..Len(wins) /\ Len(wins) > 1
      /\ wins' = rest /\ active' = a /\ focused' = FALSE /\ Follow(a)
      /\ entered' = Followed(rest, a) \ {rest[a], wins[active]}
      /\ strayed' = (strayed \/ Behind) /\ unannounced' = TRUE
      /\ UNCHANGED <<remembered, mods, grouped, alive, queue, tabs, shown,
                     unshown, unwrapped>>
  BY <1>1 DEF MoveOut, Going, shell
<1>3. rest \in Seq(Windows) /\ Len(rest) = Len(wins) - 1
  BY <1>1, <1>2, RemoveGives
<1>4. IsInjective(rest) /\ Range(wins) \ {wins[active]} \subseteq Range(rest)
  BY <1>1, <1>2, RemoveKeepsOnce DEF StackInv, StackTypes
<1>5. DOMAIN rest = 1..Len(rest)
  BY <1>3, LenProperties
<1> HIDE DEF rest
<1>6. a \in 1..Len(rest)
  BY <1>1, <1>2, <1>3, <1>5
<1> HIDE DEF a
<1>7. Followed(rest, a) \subseteq entered \cup {rest[a]}
  BY DEF Followed
<1>8. StackTypes'
  <2>1. rest # <<>>
    BY <1>6
  <2>2. active' \in Nat \ {0} /\ previous' \in Nat \ {0}
    BY <1>2, <1>3, <1>6 DEF Follow
  <2>3. reenter' \in BOOLEAN /\ strayed' \in BOOLEAN
    BY <1>2 DEF Follow, StackInv, StackTypes
  <2>4. entered' \subseteq Range(rest)
    BY <1>2, <1>4, <1>7 DEF StackInv, StackTypes
  <2> QED BY <1>2, <1>3, <1>4, <2>1, <2>2, <2>3, <2>4 DEF StackInv, StackTypes
<1>9. IndicesInv'
  BY <1>2 DEF IndicesInv
<1>10. KeyboardInv'
  <2> SUFFICES ASSUME ~strayed' PROVE KeyboardInv'
    BY DEF KeyboardInv
  <2>1. previous = active /\ ~strayed
    BY <1>2 DEF Behind
  <2>2. entered \subseteq {wins[active]}
    BY <1>2, <2>1 DEF StackInv, KeyboardInv
  <2>3. entered' = {}
    BY <1>2, <1>7, <2>2
  <2> QED BY <1>2, <2>3 DEF KeyboardInv
<1> QED BY <1>8, <1>9, <1>10 DEF StackInv

\* Appending is inserting behind the last tab.
LEMMA AppendIsInsert ==
  ASSUME NEW S, NEW s \in Seq(S), NEW w \in S
  PROVE  Append(s, w) = InsertAt(s, Len(s) + 1, w)
<1>1. Len(s) \in Nat
  BY LenProperties
<1>2. PICK i \in 1..(Len(s) + 1) : i = Len(s) + 1
  BY <1>1
<1> DEFINE t == InsertAt(s, i, w)
<1>3. /\ t \in Seq(S) /\ Len(t) = Len(s) + 1 /\ t[i] = w
      /\ \A k \in 1..(i - 1) : t[k] = s[k]
  BY InsertGives
<1> HIDE DEF t
<1>4. /\ Append(s, w) \in Seq(S) /\ Len(Append(s, w)) = Len(s) + 1
      /\ \A k \in 1..(Len(s) + 1) :
           Append(s, w)[k] = IF k <= Len(s) THEN s[k] ELSE w
  BY <1>1
<1>5. \A k \in 1..(Len(s) + 1) : Append(s, w)[k] = t[k]
  BY <1>1, <1>2, <1>3, <1>4
<1>6. Append(s, w) = t
  BY <1>3, <1>4, <1>5, SeqEqual
<1> QED BY <1>2, <1>6 DEF t

\* The ways a window comes: at an index, or behind the last tab.
LEMMA AddingIsInserting ==
  ASSUME StackInv, NEW w \in Windows, NEW moved \in BOOLEAN, AddWindow(w, moved)
  PROVE  \E i \in 1..(Len(wins) + 1) :
           /\ wins' = InsertAt(wins, i, w) /\ active' = i
           /\ Sent(Added(i, w, TRUE))
           /\ strayed' = (strayed \/ (focused /\ (Behind \/ i <= active)))
           /\ \/ i # active /\ UNCHANGED <<previous, reenter>>
              \/ i = active /\ previous' = active /\ reenter' = TRUE
<1>1. wins \in Seq(Windows) /\ Len(wins) \in Nat
  BY LenProperties DEF StackInv, StackTypes
<1>2. reenter \in BOOLEAN /\ active \in 1..Len(wins) /\ strayed \in BOOLEAN
  BY LenProperties DEF StackInv, StackTypes, AddWindow, Going
<1>3. CASE \E i \in 1..(Len(wins) + 1) :
             /\ wins' = InsertAt(wins, i, w) /\ active' = i
             /\ reenter' = (reenter \/ i = active)
             /\ previous' = IF i = active THEN active ELSE previous
             /\ strayed' = (strayed \/ (focused /\ (Behind \/ i <= active)))
             /\ Sent(Added(i, w, TRUE))
  <2>1. PICK i \in 1..(Len(wins) + 1) :
             /\ wins' = InsertAt(wins, i, w) /\ active' = i
             /\ reenter' = (reenter \/ i = active)
             /\ previous' = IF i = active THEN active ELSE previous
             /\ strayed' = (strayed \/ (focused /\ (Behind \/ i <= active)))
             /\ Sent(Added(i, w, TRUE))
    BY <1>3
  <2>2. \/ i # active /\ UNCHANGED <<previous, reenter>>
        \/ i = active /\ previous' = active /\ reenter' = TRUE
    BY <1>2, <2>1
  <2> QED BY <2>1, <2>2
<1>4. CASE /\ wins' = Append(wins, w) /\ active' = Len(wins) + 1
           /\ Sent(Added(Len(wins) + 1, w, TRUE))
           /\ strayed' = (strayed \/ (focused /\ Behind))
           /\ UNCHANGED <<previous, reenter>>
  <2>1. Len(wins) + 1 \in 1..(Len(wins) + 1) /\ Len(wins) + 1 # active
    BY <1>1, <1>2
  <2>2. wins' = InsertAt(wins, Len(wins) + 1, w)
    BY <1>1, <1>4, AppendIsInsert
  <2>3. strayed' = (strayed \/ (focused /\ (Behind \/ Len(wins) + 1 <= active)))
    BY <1>1, <1>2, <1>4
  <2> QED BY <1>4, <2>1, <2>2, <2>3
<1> QED BY <1>3, <1>4 DEF AddWindow

\* Adding a window keeps the invariant: indices move with the windows.
LEMMA AddWindowKeepsIt ==
  ASSUME StackInv, NEW w \in Windows, NEW moved \in BOOLEAN, AddWindow(w, moved)
  PROVE  StackInv'
<1>1. DOMAIN wins = 1..Len(wins) /\ Len(wins) \in Nat /\ wins \in Seq(Windows)
  BY LenProperties DEF StackInv, StackTypes
<1>2. /\ Going /\ w \notin Range(wins) /\ unshown' = FALSE
      /\ remembered' = IF moved THEN Remembering ELSE NoIndex
      /\ UNCHANGED <<mods, grouped, focused, entered, alive, unannounced, unwrapped>>
  BY DEF AddWindow
<1>3. PICK i \in 1..(Len(wins) + 1) :
           /\ wins' = InsertAt(wins, i, w) /\ active' = i
           /\ Sent(Added(i, w, TRUE))
           /\ strayed' = (strayed \/ (focused /\ (Behind \/ i <= active)))
           /\ \/ i # active /\ UNCHANGED <<previous, reenter>>
              \/ i = active /\ previous' = active /\ reenter' = TRUE
  BY AddingIsInserting
<1>4. /\ wins' \in Seq(Windows) /\ Len(wins') = Len(wins) + 1
      /\ \A k \in 1..(i - 1) : wins'[k] = wins[k]
  BY <1>1, <1>3, InsertGives
<1>5. IsInjective(wins') /\ Range(wins) \subseteq Range(wins')
  BY <1>1, <1>2, <1>3, InsertKeepsOnce DEF StackInv, StackTypes
<1>6. queue' \in Seq(Events) /\ tabs' = tabs /\ shown' = shown
  <2>1. Added(i, w, TRUE) \in Events
    BY <1>1 DEF Added, Events
  <2> QED BY <1>3, <2>1, SentTypes
<1>7. /\ remembered' \in [serial : Nat, idx : Nat]
      /\ remembered'.serial <= mods
      /\ remembered'.serial # 0 => remembered'.idx # 0
      /\ remembered'.serial = 0 => remembered'.idx = 0
      /\ unannounced \/ remembered'.idx <= Len(wins)
  <2>1. CASE moved
    BY <1>2, <2>1, RememberingSound
  <2>2. CASE ~moved
    BY <1>1, <1>2, <2>2 DEF NoIndex, StackInv, StackTypes
  <2> QED BY <2>1, <2>2
<1>8. StackTypes'
  <2>1. wins' # <<>> /\ active' \in Nat \ {0}
    BY <1>1, <1>3, <1>4
  <2>2. previous' \in Nat \ {0} /\ reenter' \in BOOLEAN /\ strayed' \in BOOLEAN
    BY <1>3 DEF StackInv, StackTypes
  <2>3. entered' \subseteq Range(wins')
    BY <1>2, <1>5 DEF StackInv, StackTypes
  <2> QED BY <1>2, <1>4, <1>5, <1>6, <1>7, <2>1, <2>2, <2>3 DEF StackInv, StackTypes
<1>9. IndicesInv'
  <2>1. \A n \in Nat : n <= Len(wins) => n <= Len(wins) + 1
    BY <1>1
  <2>2. unannounced \/ remembered'.idx <= Len(wins) + 1
    <3>1. PICK n \in Nat : n = remembered'.idx
      BY <1>7
    <3> QED BY <1>7, <2>1, <3>1
  <2> QED BY <1>2, <1>3, <1>4, <2>2 DEF IndicesInv
<1>10. KeyboardInv'
  <2> SUFFICES ASSUME ~strayed' PROVE KeyboardInv'
    BY DEF KeyboardInv
  <2>1. ~strayed /\ (focused => previous = active /\ ~(i <= active))
    BY <1>3 DEF Behind
  <2>2. CASE ~focused
    BY <1>2, <2>1, <2>2 DEF StackInv, KeyboardInv
  <2>3. CASE focused
    <3>1. active \in 1..Len(wins) /\ active < i
      BY <1>1, <1>2, <2>1, <2>3 DEF Going
    <3>2. previous' = active /\ active' # active /\ wins'[active] = wins[active]
      BY <1>1, <1>3, <1>4, <2>1, <2>3, <3>1
    <3>3. entered = {} \/ entered = {wins[active]}
      BY <1>2, <2>1, <2>3 DEF StackInv, KeyboardInv
    <3>4. active \in 1..Len(wins')
      BY <1>1, <1>4, <3>1
    <3> QED BY <1>2, <2>3, <3>2, <3>3, <3>4 DEF KeyboardInv
  <2> QED BY <2>2, <2>3
<1> QED BY <1>8, <1>9, <1>10 DEF StackInv

\* Removing a window keeps the invariant: the active index stays in range.
LEMMA RemoveWindowKeepsIt ==
  ASSUME StackInv, NEW i \in DOMAIN wins, RemoveWindow(i)
  PROVE  StackInv'
<1> DEFINE rest == RemoveAt(wins, i)
<1>1. DOMAIN wins = 1..Len(wins) /\ Len(wins) \in Nat /\ wins \in Seq(Windows)
  BY LenProperties DEF StackInv, StackTypes
<1>2. /\ Going /\ i \in 1..Len(wins) /\ Len(wins) > 1 /\ active \in 1..Len(wins)
      /\ wins' = rest
      /\ active' = IF active > Len(rest) THEN Len(rest) ELSE active
      /\ reenter' = (reenter \/ i = active)
      /\ remembered' = IF remembered.idx > Len(rest) THEN NoIndex ELSE remembered
      /\ entered' = entered \ {wins[i]}
      /\ strayed' = (strayed \/ (focused /\ (Behind \/ i < active')))
      /\ Sent(Removed(i)) /\ unshown' \in BOOLEAN
      /\ UNCHANGED <<mods, grouped, focused, previous, alive, unannounced, unwrapped>>
  BY <1>1 DEF RemoveWindow, Going, Untold, StackInv, StackTypes
<1>3. /\ rest \in Seq(Windows) /\ Len(rest) = Len(wins) - 1
      /\ \A k \in 1..(Len(wins) - 1) : rest[k] = IF k < i THEN wins[k] ELSE wins[k + 1]
  BY <1>1, <1>2, RemoveGives
<1>4. IsInjective(rest) /\ Range(wins) \ {wins[i]} \subseteq Range(rest)
  BY <1>1, <1>2, RemoveKeepsOnce DEF StackInv, StackTypes
<1> HIDE DEF rest
<1>5. active' \in 1..Len(rest) /\ active' <= active /\ active <= active' + 1
  BY <1>1, <1>2, <1>3
<1>6. queue' \in Seq(Events) /\ tabs' = tabs /\ shown' = shown
  <2>1. Removed(i) \in Events
    BY <1>1 DEF Removed, Events
  <2> QED BY <1>2, <2>1, SentTypes
<1>7. /\ remembered' \in [serial : Nat, idx : Nat] /\ remembered'.serial <= mods
      /\ remembered'.serial # 0 => remembered'.idx # 0
      /\ remembered'.serial = 0 => remembered'.idx = 0
      /\ remembered'.idx <= Len(rest)
  <2>1. CASE remembered.idx > Len(rest)
    BY <1>1, <1>2, <1>3, <2>1 DEF NoIndex, StackInv, StackTypes
  <2>2. CASE ~(remembered.idx > Len(rest))
    <3>1. PICK n \in Nat : n = remembered.idx
      BY DEF StackInv, StackTypes
    <3>2. n <= Len(rest)
      BY <1>1, <1>3, <2>2, <3>1
    <3> QED BY <1>2, <2>2, <3>1, <3>2 DEF StackInv, StackTypes
  <2> QED BY <2>1, <2>2
<1>8. StackTypes'
  <2>1. rest # <<>> /\ active' \in Nat \ {0}
    BY <1>1, <1>5
  <2>2. previous' \in Nat \ {0} /\ reenter' \in BOOLEAN /\ strayed' \in BOOLEAN
    BY <1>2 DEF StackInv, StackTypes
  <2>3. entered' \subseteq Range(rest)
    BY <1>2, <1>4 DEF StackInv, StackTypes
  <2> QED BY <1>2, <1>3, <1>4, <1>6, <1>7, <2>1, <2>2, <2>3 DEF StackInv, StackTypes
<1>9. IndicesInv'
  BY <1>2, <1>5, <1>7 DEF IndicesInv
<1>10. KeyboardInv'
  <2> SUFFICES ASSUME ~strayed' PROVE KeyboardInv'
    BY DEF KeyboardInv
  <2>1. ~strayed /\ (focused => previous = active /\ ~(i < active'))
    BY <1>2 DEF Behind
  <2>2. CASE ~focused
    BY <1>2, <2>1, <2>2 DEF StackInv, KeyboardInv
  <2>3. CASE focused
    <3>1. previous = active /\ i >= active'
      BY <1>1, <1>2, <1>5, <2>1, <2>3
    <3>2. entered \subseteq {wins[active]} /\ (~reenter => entered = {wins[active]})
      BY <1>2, <2>1, <2>3 DEF StackInv, KeyboardInv
    <3>3. CASE i = active
      <4>1. entered' = {} /\ reenter' = TRUE
        BY <1>2, <3>2, <3>3
      <4> QED BY <1>2, <2>3, <4>1 DEF KeyboardInv
    <3>4. CASE i > active
      <4>1. active' = active /\ wins'[active] = wins[active]
        BY <1>1, <1>2, <1>3, <3>4
      <4>2. wins[i] # wins[active]
        BY <1>1, <1>2, <3>4 DEF StackInv, StackTypes, IsInjective
      <4>3. entered' = entered /\ reenter' = reenter
        BY <1>1, <1>2, <3>2, <3>4, <4>2 DEF StackInv, StackTypes
      <4> QED BY <1>2, <2>3, <3>1, <3>2, <4>1, <4>3 DEF KeyboardInv
    <3>5. CASE i < active
      <4>1. active' = active - 1 /\ i = active - 1
        BY <1>1, <1>2, <1>5, <3>1, <3>5
      <4>2. wins'[active'] = wins[active]
        <5>1. active' \in 1..(Len(wins) - 1) /\ ~(active' < i) /\ active' + 1 = active
          <6>1. active \in Int /\ Len(rest) = Len(wins) - 1
            BY <1>2, <1>3
          <6>2. active' \in 1..(Len(wins) - 1)
            BY <1>5, <6>1
          <6> QED BY <4>1, <6>1, <6>2
        <5>2. rest[active'] = wins[active' + 1]
          BY <1>3, <5>1
        <5> QED BY <1>2, <5>1, <5>2
      <4>3. entered' = {} \/ entered' = {wins[active]}
        BY <1>2, <3>2
      <4>4. active' # previous'
        BY <1>1, <1>2, <3>1, <4>1
      <4> QED BY <1>2, <2>3, <4>2, <4>3, <4>4 DEF KeyboardInv
    <3> QED BY <1>1, <1>2, <3>3, <3>4, <3>5
  <2> QED BY <2>2, <2>3
<1> QED BY <1>8, <1>9, <1>10 DEF StackInv

\* What a disconnected client leaves: the other windows, or else the active one.
LEMMA RefreshKeepsIt ==
  ASSUME StackInv, NEW gone \in SUBSET Range(wins), Refresh(gone)
  PROVE  StackInv'
<1> DEFINE stay == {i \in DOMAIN wins : wins[i] \notin gone}
<1>1. DOMAIN wins = 1..Len(wins) /\ Len(wins) \in Nat /\ wins \in Seq(Windows)
  BY LenProperties DEF StackInv, StackTypes
<1>2. /\ Going /\ active \in 1..Len(wins) /\ strayed' = (strayed \/ focused)
      /\ unannounced' = TRUE /\ entered' = entered \ gone
      /\ active' = IF active > Len(wins') THEN Len(wins') ELSE active
      /\ UNCHANGED <<remembered, mods, grouped, focused, previous, reenter,
                     alive, queue, tabs, shown, unshown, unwrapped>>
  BY <1>1 DEF Refresh, Going, shell
<1>3. PICK from \in Bijection(1..Cardinality(stay), stay) :
        wins' = IF stay = {} THEN <<wins[active]>>
                ELSE [i \in DOMAIN from |-> wins[from[i]]]
  BY DEF Refresh
<1>4. IsFiniteSet(stay) /\ Cardinality(stay) \in Nat
  <2>1. IsFiniteSet(1..Len(wins)) /\ stay \subseteq 1..Len(wins)
    BY <1>1, FS_Interval
  <2>2. IsFiniteSet(stay)
    BY <2>1, FS_Subset
  <2> QED BY <2>2, FS_CardinalityType
<1>5. /\ wins' \in Seq(Windows) /\ wins' # <<>> /\ IsInjective(wins')
      /\ Range(wins) \ gone \subseteq Range(wins')
  <2>1. CASE stay = {}
    <3>1. wins' = <<wins[active]>> /\ wins[active] \in Windows
      BY <1>1, <1>2, <1>3, <2>1, ElementOfSeq
    <3>2. Range(wins) \ gone = {}
      BY <2>1 DEF Range
    <3> QED BY <3>1, <3>2 DEF IsInjective
  <2>2. CASE stay # {}
    <3> DEFINE n == Cardinality(stay)
    <3>1. n \in Nat /\ n # 0
      BY <1>4, <2>2, FS_EmptySet
    <3> HIDE DEF n
    <3>2. /\ from \in [1..n -> stay]
          /\ \A k, l \in 1..n : from[k] = from[l] => k = l
          /\ \A i \in stay : \E k \in 1..n : from[k] = i
      BY <1>3 DEF Bijection, Injection, Surjection, IsInjective, n
    <3>3. wins' = [i \in 1..n |-> wins[from[i]]]
      BY <1>3, <2>2, <3>2
    <3>4. \A i \in stay : i \in 1..Len(wins) /\ wins[i] \in Windows
      BY <1>1, ElementOfSeq
    <3>5. wins' \in [1..n -> Windows]
      BY <3>2, <3>3, <3>4
    <3>6. wins' \in Seq(Windows) /\ wins' # <<>> /\ DOMAIN wins' = 1..n
      BY <3>1, <3>5
    <3>7. \A k, l \in 1..Len(wins) : wins[k] = wins[l] => k = l
      BY <1>1 DEF StackInv, StackTypes, IsInjective
    <3>8. IsInjective(wins')
      BY <3>2, <3>3, <3>4, <3>6, <3>7 DEF IsInjective
    <3>9. ASSUME NEW x \in Range(wins) \ gone PROVE x \in Range(wins')
      <4>1. PICK i \in DOMAIN wins : wins[i] = x
        BY <3>9 DEF Range
      <4>2. i \in stay
        BY <3>9, <4>1
      <4>3. PICK k \in 1..n : from[k] = i
        BY <3>2, <4>2
      <4>4. wins'[k] = x
        BY <3>3, <4>1, <4>3
      <4> QED BY <3>6, <4>4 DEF Range
    <3> QED BY <3>6, <3>8, <3>9
  <2> QED BY <2>1, <2>2
<1>6. Len(wins') \in Nat \ {0}
  BY <1>5, EmptySeq
<1>7. StackTypes'
  <2>1. active' \in Nat \ {0} /\ strayed' \in BOOLEAN
    BY <1>1, <1>2, <1>6 DEF StackInv, StackTypes
  <2>2. entered' \subseteq Range(wins')
    BY <1>2, <1>5 DEF StackInv, StackTypes
  <2> QED BY <1>2, <1>5, <2>1, <2>2 DEF StackInv, StackTypes
<1>8. IndicesInv'
  BY <1>2 DEF IndicesInv
<1>9. KeyboardInv'
  <2> SUFFICES ASSUME ~strayed' PROVE KeyboardInv'
    BY DEF KeyboardInv
  <2>1. entered = {} /\ ~focused
    BY <1>2 DEF StackInv, KeyboardInv
  <2> QED BY <1>2, <2>1 DEF KeyboardInv
<1> QED BY <1>7, <1>8, <1>9 DEF StackInv

\* A stack that loses its last window has ended.
LEMMA RemoveLastKeepsIt ==
  ASSUME StackInv, RemoveLast
  PROVE  StackInv'
<1>1. ~Going'
  BY DEF RemoveLast, Going
<1>2. StackTypes'
  BY DEF StackInv, StackTypes, RemoveLast, keyboard, shell
<1>3. IndicesInv'
  BY DEF StackInv, IndicesInv, RemoveLast
<1> QED BY <1>1, <1>2, <1>3 DEF StackInv, KeyboardInv

\* Every step of the stack keeps the invariant.
LEMMA StackStepKeepsIt == StackInv /\ [StackNext]_stackVars => StackInv'
<1> SUFFICES ASSUME StackInv, [StackNext]_stackVars PROVE StackInv'
  OBVIOUS
<1>1. CASE Enter \/ Leave \/ Key \/ Modifiers
  BY <1>1, KeyboardKeepsIt
<1>2. CASE HandleFocusOut \/ \E d \in {"Left", "Right", "Up"} : HandleFocus(d)
  BY <1>2, HandleFocusKeepsIt
<1>3. CASE MoveOut
  BY <1>3, MoveOutKeepsIt
<1>4. CASE \E d \in {"Left", "Right"} : MoveTab(d)
  BY <1>4, MoveTabKeepsIt
<1>5. CASE \E i \in DOMAIN wins : SetActive(i)
  BY <1>5, SetActiveKeepsIt
<1>6. CASE \E i \in DOMAIN wins : RemoveWindow(i)
  BY <1>6, RemoveWindowKeepsIt
<1>7. CASE \E w \in Windows, moved \in BOOLEAN : AddWindow(w, moved)
  BY <1>7, AddWindowKeepsIt
<1>8. CASE \E gone \in SUBSET Range(wins) : Refresh(gone)
  BY <1>8, RefreshKeepsIt
<1>9. CASE RemoveLast
  BY <1>9, RemoveLastKeepsIt
<1>10. CASE Deliver
  BY <1>10, DeliverKeepsIt
<1>11. CASE UNCHANGED stackVars
  BY <1>11 DEF StackInv, StackTypes, IndicesInv, KeyboardInv, Going, stackVars, keyboard, shell
<1> QED BY <1>1, <1>2, <1>3, <1>4, <1>5, <1>6, <1>7, <1>8, <1>9, <1>10, <1>11 DEF StackNext, StackStep

\* The invariant holds in every state of every behaviour.
LEMMA StackInvariant == StackSpec => []StackInv
<1>1. StackInit => StackInv
  BY InitSound
<1>2. StackInv /\ [StackNext]_stackVars => StackInv'
  BY StackStepKeepsIt
<1> QED BY <1>1, <1>2, PTL DEF StackSpec

\* A stack is never empty and holds a window once, and while nothing went in
\* handle_move or refresh its active index is that of a tab, so that no reader
\* of CosmicStack::active panics.
THEOREM StackAlwaysSound == StackSpec => [](StackTypeOK /\ ActiveInRange)
<1>1. StackInv => StackTypeOK /\ ActiveInRange
  <2> SUFFICES ASSUME StackInv PROVE StackTypeOK /\ ActiveInRange
    OBVIOUS
  <2>1. wins \in Seq(Windows)
    BY DEF StackInv, StackTypes
  <2>2. DOMAIN wins = 1..Len(wins) /\ Range(wins) \subseteq Windows
    BY <2>1, LenProperties, ElementOfSeq DEF Range
  <2> QED BY <2>2 DEF StackInv, StackTypes, IndicesInv, StackTypeOK, ActiveInRange
<1> QED BY <1>1, StackInvariant, PTL

\* Keys go to a window that was told it has the keyboard, and to no other.
THEOREM KeyboardAlwaysFollows == StackSpec => []KeyboardFollows
<1>1. StackInv => KeyboardFollows
  <2> SUFFICES ASSUME StackInv, Going, ~strayed
               PROVE  /\ Cardinality(entered) <= 1
                      /\ focused /\ previous = active /\ ~reenter
                         => entered = {wins[active]}
                      /\ ~focused => entered = {}
    BY DEF KeyboardFollows
  <2>1. PICK x : entered = {} \/ entered = {x}
    BY DEF StackInv, KeyboardInv, StackTypes
  <2>2. Cardinality(entered) <= 1
    <3>1. Cardinality({}) = 0 /\ Cardinality({x}) = 1
      BY FS_EmptySet, FS_Singleton
    <3> QED BY <2>1, <3>1
  <2> QED BY <2>2 DEF StackInv, KeyboardInv
<1> QED BY <1>1, StackInvariant, PTL

-----------------------------------------------------------------------------
(* The shell's list.                                                         *)

\* `lists` and `shows` are what the shell will have, event by event; it arrives
\* at the list `goal` and shows the tab `on`.
Foretold(q, now, at, lists, shows) ==
  /\ lists[1] = now /\ shows[1] = at
  /\ \A k \in 1..Len(q) :
       /\ lists[k + 1] = ListAfter(lists[k], q[k])
       /\ shows[k + 1] = ShownAfter(shows[k], q[k])

Arrives(q, now, at, goal, on) ==
  \E lists \in [1..(Len(q) + 1) -> Seq(Windows)], shows \in [1..(Len(q) + 1) -> Nat] :
    /\ Foretold(q, now, at, lists, shows)
    /\ lists[Len(q) + 1] = goal /\ shows[Len(q) + 1] = on

\* What waits brings the shell to the tabs there are, and to the active one
\* unless it is not told of that.
ListInv ==
  listening /\ ~unannounced =>
    \E n \in Nat : /\ Arrives(queue, tabs, shown, wins, n)
                   /\ unshown \/ n = active

\* The shell applies the first event, and the rest still brings it there.
LEMMA DeliveryArrives ==
  ASSUME NEW q \in Seq(Events), q # <<>>, NEW now, NEW at, NEW goal, NEW on,
         Arrives(q, now, at, goal, on)
  PROVE  Arrives(Tail(q), ListAfter(now, Head(q)), ShownAfter(at, Head(q)), goal, on)
<1>1. /\ Len(q) \in Nat /\ Len(q) > 0 /\ Head(q) = q[1] /\ Len(Tail(q)) = Len(q) - 1
      /\ \A k \in 1..(Len(q) - 1) : Tail(q)[k] = q[k + 1]
  BY LenProperties, HeadTailProperties, EmptySeq
<1>2. PICK lists \in [1..(Len(q) + 1) -> Seq(Windows)],
           shows \in [1..(Len(q) + 1) -> Nat] :
             /\ Foretold(q, now, at, lists, shows)
             /\ lists[Len(q) + 1] = goal /\ shows[Len(q) + 1] = on
  BY DEF Arrives
<1> DEFINE later == [k \in 1..Len(q) |-> lists[k + 1]]
           thens == [k \in 1..Len(q) |-> shows[k + 1]]
<1>3. later \in [1..Len(q) -> Seq(Windows)] /\ thens \in [1..Len(q) -> Nat]
  BY <1>1
<1>4. /\ later[1] = ListAfter(now, Head(q)) /\ thens[1] = ShownAfter(at, Head(q))
      /\ later[Len(q)] = goal /\ thens[Len(q)] = on
  BY <1>1, <1>2 DEF Foretold
<1>5. ASSUME NEW k \in 1..(Len(q) - 1)
      PROVE  /\ later[k + 1] = ListAfter(later[k], Tail(q)[k])
             /\ thens[k + 1] = ShownAfter(thens[k], Tail(q)[k])
  <2>1. k + 1 \in 1..Len(q) /\ k \in 1..Len(q)
    BY <1>1
  <2>2. /\ lists[(k + 1) + 1] = ListAfter(lists[k + 1], q[k + 1])
        /\ shows[(k + 1) + 1] = ShownAfter(shows[k + 1], q[k + 1])
    BY <1>2, <2>1 DEF Foretold
  <2> QED BY <1>1, <2>1, <2>2
<1> HIDE DEF later, thens
<1>6. Len(Tail(q)) + 1 = Len(q)
  BY <1>1
<1>7. Foretold(Tail(q), ListAfter(now, Head(q)), ShownAfter(at, Head(q)), later, thens)
  BY <1>1, <1>4, <1>5 DEF Foretold
<1> QED BY <1>3, <1>4, <1>6, <1>7 DEF Arrives

\* One more event brings it to where that event leads.
LEMMA SendingArrives ==
  ASSUME NEW q \in Seq(Events), NEW e \in Events, NEW now, NEW at, NEW goal,
         NEW on, Arrives(q, now, at, goal, on)
  PROVE  Arrives(Append(q, e), now, at, ListAfter(goal, e), ShownAfter(on, e))
<1>1. /\ Len(q) \in Nat /\ Len(Append(q, e)) = Len(q) + 1
      /\ \A k \in 1..Len(q) : Append(q, e)[k] = q[k]
      /\ Append(q, e)[Len(q) + 1] = e
  BY LenProperties
<1>2. PICK lists \in [1..(Len(q) + 1) -> Seq(Windows)],
           shows \in [1..(Len(q) + 1) -> Nat] :
             /\ Foretold(q, now, at, lists, shows)
             /\ lists[Len(q) + 1] = goal /\ shows[Len(q) + 1] = on
  BY DEF Arrives
<1> DEFINE later == [k \in 1..((Len(q) + 1) + 1) |->
                       IF k <= Len(q) + 1 THEN lists[k] ELSE ListAfter(goal, e)]
           thens == [k \in 1..((Len(q) + 1) + 1) |->
                       IF k <= Len(q) + 1 THEN shows[k] ELSE ShownAfter(on, e)]
<1>3. goal \in Seq(Windows) /\ on \in Nat
  BY <1>1, <1>2
<1>4. ListAfter(goal, e) \in Seq(Windows) /\ ShownAfter(on, e) \in Nat
  BY <1>3, AfterTypes
<1>5. /\ later \in [1..((Len(q) + 1) + 1) -> Seq(Windows)]
      /\ thens \in [1..((Len(q) + 1) + 1) -> Nat]
  BY <1>1, <1>2, <1>4
<1>6. /\ later[1] = now /\ thens[1] = at
      /\ later[(Len(q) + 1) + 1] = ListAfter(goal, e)
      /\ thens[(Len(q) + 1) + 1] = ShownAfter(on, e)
  BY <1>1, <1>2 DEF Foretold
<1>7. ASSUME NEW k \in 1..(Len(q) + 1)
      PROVE  /\ later[k + 1] = ListAfter(later[k], Append(q, e)[k])
             /\ thens[k + 1] = ShownAfter(thens[k], Append(q, e)[k])
  <2>1. CASE k <= Len(q)
    <3>1. k \in 1..Len(q) /\ Append(q, e)[k] = q[k]
      BY <1>1, <2>1
    <3>2. /\ lists[k + 1] = ListAfter(lists[k], q[k])
          /\ shows[k + 1] = ShownAfter(shows[k], q[k])
      BY <1>2, <3>1 DEF Foretold
    <3>3. later[k + 1] = lists[k + 1] /\ later[k] = lists[k]
      BY <1>1, <3>1
    <3>4. thens[k + 1] = shows[k + 1] /\ thens[k] = shows[k]
      BY <1>1, <3>1
    <3> QED BY <3>1, <3>2, <3>3, <3>4
  <2>2. CASE k = Len(q) + 1
    <3>1. later[k] = goal /\ thens[k] = on
      BY <1>1, <1>2, <2>2
    <3> QED BY <1>1, <1>6, <2>2, <3>1
  <2> QED BY <1>1, <2>1, <2>2
<1> HIDE DEF later, thens
<1>8. Foretold(Append(q, e), now, at, later, thens)
  BY <1>1, <1>6, <1>7 DEF Foretold
<1> QED BY <1>1, <1>5, <1>6, <1>8 DEF Arrives

\* A group's windows are told one by one: after k events the shell has k tabs.
LEMMA InitArrives == StackInit => ListInv
<1> SUFFICES ASSUME StackInit, listening
             PROVE  Arrives(queue, tabs, shown, wins, 1)
  BY DEF ListInv, StackInit
<1>1. /\ wins \in Seq(Windows) /\ Len(wins) \in Nat \ {0} /\ DOMAIN wins = 1..Len(wins)
  BY InitSound, LenProperties, EmptySeq DEF StackInv, StackTypes
<1>2. listening
  OBVIOUS
<1>3. /\ queue = [i \in 1..Len(wins) |-> Added(i, wins[i], i = 1)]
      /\ tabs = <<>> /\ shown = 0 /\ active = 1
  BY <1>1, <1>2 DEF StackInit
<1>4. Len(queue) = Len(wins) /\ \A i \in 1..Len(wins) : queue[i] = Added(i, wins[i], i = 1)
  BY <1>1, <1>3
<1> DEFINE lists == [k \in 1..(Len(wins) + 1) |-> SubSeq(wins, 1, k - 1)]
           shows == [k \in 1..(Len(wins) + 1) |-> IF k = 1 THEN 0 ELSE 1]
<1>5. ASSUME NEW n \in 0..Len(wins)
      PROVE  /\ SubSeq(wins, 1, n) \in Seq(Windows) /\ Len(SubSeq(wins, 1, n)) = n
             /\ \A i \in 1..n : SubSeq(wins, 1, n)[i] = wins[i]
  <2>1. \A i \in 1..Len(wins) : wins[i] \in Windows
    BY <1>1, ElementOfSeq
  <2>2. n \in Int /\ \A i \in 1..n : wins[i] \in Windows
    BY <1>1, <2>1
  <2>3. SubSeq(wins, 1, n) \in Seq(Windows) /\ Len(SubSeq(wins, 1, n)) = n
    BY <1>1, <2>2, SubSeqProperties
  <2>4. \A i \in 1..n : SubSeq(wins, 1, n)[i] = wins[i]
    BY <1>1, <2>2, SubSeqProperties
  <2> QED BY <2>3, <2>4
<1>6. lists \in [1..(Len(wins) + 1) -> Seq(Windows)]
      /\ shows \in [1..(Len(wins) + 1) -> Nat]
  <2>1. \A k \in 1..(Len(wins) + 1) : k - 1 \in 0..Len(wins)
    BY <1>1
  <2> QED BY <1>5, <2>1
<1>7. lists[1] = <<>> /\ shows[1] = 0
  <2>1. SubSeq(wins, 1, 0) = <<>>
    BY <1>1, <1>5, EmptySeq
  <2> QED BY <1>1, <2>1
<1>8. lists[Len(wins) + 1] = wins /\ shows[Len(wins) + 1] = 1
  <2>1. SubSeq(wins, 1, Len(wins)) = wins
    BY <1>1, SubSeqFull
  <2> QED BY <1>1, <2>1
<1>9. ASSUME NEW k \in 1..Len(wins)
      PROVE  /\ lists[k + 1] = ListAfter(lists[k], queue[k])
             /\ shows[k + 1] = ShownAfter(shows[k], queue[k])
  <2>1. queue[k] = [kind |-> "tab_added", idx |-> k, win |-> wins[k], on |-> k = 1]
    BY <1>4 DEF Added
  <2>2. k \in 1..(Len(wins) + 1) /\ k + 1 \in 1..(Len(wins) + 1) /\ k - 1 \in 0..Len(wins)
        /\ k \in 0..Len(wins) /\ wins[k] \in Windows /\ (k + 1) - 1 = k
    BY <1>1, ElementOfSeq
  <2>3. lists[k] = SubSeq(wins, 1, k - 1) /\ lists[k + 1] = SubSeq(wins, 1, k)
    BY <2>2
  <2>4. /\ SubSeq(wins, 1, k - 1) \in Seq(Windows) /\ Len(SubSeq(wins, 1, k - 1)) = k - 1
        /\ \A i \in 1..(k - 1) : SubSeq(wins, 1, k - 1)[i] = wins[i]
    BY <1>5, <2>2
  <2>5. /\ SubSeq(wins, 1, k) \in Seq(Windows) /\ Len(SubSeq(wins, 1, k)) = k
        /\ \A i \in 1..k : SubSeq(wins, 1, k)[i] = wins[i]
    BY <1>5, <2>2
  <2>6. Append(SubSeq(wins, 1, k - 1), wins[k]) = SubSeq(wins, 1, k)
    <3> DEFINE a == SubSeq(wins, 1, k - 1)
               b == SubSeq(wins, 1, k)
    <3>1. a \in Seq(Windows) /\ Len(a) = k - 1 /\ \A i \in 1..(k - 1) : a[i] = wins[i]
      BY <2>4
    <3>2. b \in Seq(Windows) /\ Len(b) = k /\ \A i \in 1..k : b[i] = wins[i]
      BY <2>5
    <3> HIDE DEF a, b
    <3>3. /\ Append(a, wins[k]) \in Seq(Windows) /\ Len(Append(a, wins[k])) = k
          /\ \A i \in 1..k : Append(a, wins[k])[i] = wins[i]
      BY <2>2, <3>1, AppendProperties
    <3>4. Append(a, wins[k]) = b
      BY <3>2, <3>3, SeqEqual
    <3> QED BY <3>4 DEF a, b
  <2>7. ListAfter(lists[k], queue[k]) = Append(SubSeq(wins, 1, k - 1), wins[k])
    <3>1. k > Len(SubSeq(wins, 1, k - 1))
      BY <2>2, <2>4
    <3> QED BY <2>1, <2>3, <3>1 DEF ListAfter
  <2>8. ShownAfter(shows[k], queue[k]) = IF k = 1 THEN 1 ELSE shows[k]
    <3>1. queue[k].kind = "tab_added" /\ queue[k].idx = k
      BY <2>1
    <3>2. k = 1 <=> queue[k].on
      <4>1. PICK first : first = (k = 1)
        OBVIOUS
      <4>2. queue[k] = [kind |-> "tab_added", idx |-> k, win |-> wins[k], on |-> first]
        BY <2>1, <4>1, Zenon
      <4>3. queue[k].on = first
        BY <4>2
      <4> QED BY <4>1, <4>3, Zenon
    <3>3. queue[k].kind # "tab_activated"
      BY <3>1
    <3> HIDE DEF shows
    <3>4. CASE k = 1
      BY <3>1, <3>2, <3>4 DEF ShownAfter
    <3>5. CASE k # 1
      BY <3>1, <3>2, <3>3, <3>5 DEF ShownAfter
    <3> QED BY <3>4, <3>5
  <2>9. shows[k + 1] = 1 /\ (k # 1 => shows[k] = 1)
    BY <2>2
  <2> QED BY <2>3, <2>6, <2>7, <2>8, <2>9
<1> HIDE DEF lists, shows
<1>10. Foretold(queue, tabs, shown, lists, shows)
  BY <1>3, <1>4, <1>7, <1>9 DEF Foretold
<1> QED BY <1>3, <1>4, <1>6, <1>8, <1>10 DEF Arrives

\* A change that is sent leads from the tabs there were to the tabs there are.
LEMMA ToldArrives ==
  ASSUME StackInv, ListInv, NEW e \in Events, Sent(e),
         ListAfter(wins, e) = wins',
         \A n \in Nat : unshown \/ n = active => unshown' \/ ShownAfter(n, e) = active',
         UNCHANGED <<listening, unannounced>>
  PROVE  ListInv'
<1> SUFFICES ASSUME listening, ~unannounced
             PROVE  (\E n \in Nat : /\ Arrives(queue, tabs, shown, wins, n)
                                    /\ unshown \/ n = active)'
  BY DEF ListInv
<1>1. listening
  OBVIOUS
<1>2. queue' = Append(queue, e) /\ tabs' = tabs /\ shown' = shown
  BY <1>1 DEF Sent
<1>3. queue \in Seq(Events)
  BY DEF StackInv, StackTypes
<1>4. PICK n \in Nat : Arrives(queue, tabs, shown, wins, n) /\ (unshown \/ n = active)
  BY DEF ListInv
<1>5. Arrives(Append(queue, e), tabs, shown, ListAfter(wins, e), ShownAfter(n, e))
  BY <1>3, <1>4, SendingArrives
<1>6. Arrives(queue', tabs', shown', wins', ShownAfter(n, e))
  BY <1>2, <1>5
<1>7. ShownAfter(n, e) \in Nat
  BY AfterTypes DEF StackInv, StackTypes
<1>8. unshown' \/ ShownAfter(n, e) = active'
  BY <1>4
<1> QED BY <1>6, <1>7, <1>8 DEF Arrives, Foretold

\* What is not sent changes neither the tabs nor, unnoticed, the active one.
LEMMA UntoldArrives ==
  ASSUME ListInv, UNCHANGED listening,
         UNCHANGED <<queue, tabs, shown, wins, unannounced>>,
         \/ UNCHANGED <<active, unshown>>
         \/ Untold
  PROVE  ListInv'
<1>1. CASE UNCHANGED <<active, unshown>>
  BY <1>1 DEF ListInv, Arrives, Foretold
<1>2. CASE Untold
  <2>1. listening => unshown' \/ (~unshown /\ active' = active)
    BY <1>2 DEF Untold
  <2> QED BY <2>1 DEF ListInv, Arrives, Foretold
<1> QED BY <1>1, <1>2

\* Every step keeps the agreement of the list of tabs with the windows.
LEMMA ListStepKeepsIt == StackInv /\ ListInv /\ [StackNext]_stackVars => ListInv'
<1> SUFFICES ASSUME StackInv, ListInv, [StackNext]_stackVars PROVE ListInv'
  OBVIOUS
<1>0. UNCHANGED listening
  BY DEF StackNext, stackVars
<1>1. wins \in Seq(Windows) /\ DOMAIN wins = 1..Len(wins) /\ Len(wins) \in Nat
  BY LenProperties DEF StackInv, StackTypes
<1>2. CASE \/ Enter \/ Leave \/ Key \/ Modifiers \/ HandleFocusOut \/ RemoveLast
           \/ UNCHANGED stackVars
  <2>1. UNCHANGED <<queue, tabs, shown, wins, unannounced, active, unshown>>
    BY <1>2 DEF Enter, Leave, Key, Modifiers, HandleFocusOut, RemoveLast, stackVars, shell
  <2> QED BY <2>1, <1>0, UntoldArrives
<1>3. CASE \E d \in {"Left", "Right", "Up"} : HandleFocus(d)
  <2>1. UNCHANGED <<queue, tabs, shown, wins, unannounced>> /\ Untold
    BY <1>3 DEF HandleFocus, shell
  <2> QED BY <2>1, <1>0, UntoldArrives
<1>4. CASE \/ MoveOut \/ \E d \in {"Left", "Right"} : MoveTab(d)
           \/ \E gone \in SUBSET Range(wins) : Refresh(gone)
  BY <1>4 DEF MoveOut, MoveTab, Refresh, ListInv
<1>5. ASSUME NEW i \in DOMAIN wins, SetActive(i) PROVE ListInv'
  <2>1. CASE i = active
    <3>1. UNCHANGED <<queue, tabs, shown, wins, unannounced, active, unshown>>
      BY <1>5, <2>1 DEF SetActive, Switch, shell
    <3> QED BY <3>1, <1>0, UntoldArrives
  <2>2. CASE i # active
    <3>1. /\ Sent(Activated(i)) /\ wins' = wins /\ active' = i
          /\ unannounced' = unannounced
      BY <1>5, <2>2 DEF SetActive, Switch
    <3>2. Activated(i) \in Events
      BY <1>1 DEF Activated, Events
    <3>3. ListAfter(wins, Activated(i)) = wins
      BY DEF ListAfter, Activated
    <3>4. \A n \in Nat : ShownAfter(n, Activated(i)) = i
      BY DEF ShownAfter, Activated
    <3> QED BY <3>1, <3>2, <3>3, <3>4, <1>0, ToldArrives
  <2> QED BY <2>1, <2>2
<1>6. ASSUME NEW w \in Windows, NEW moved \in BOOLEAN, AddWindow(w, moved)
      PROVE  ListInv'
  <2>1. PICK i \in 1..(Len(wins) + 1) :
          wins' = InsertAt(wins, i, w) /\ active' = i /\ Sent(Added(i, w, TRUE))
    BY <1>6, AddingIsInserting
  <2>2. Added(i, w, TRUE) \in Events
    BY <1>1 DEF Added, Events
  <2>3. ListAfter(wins, Added(i, w, TRUE)) = InsertAt(wins, i, w)
    <3>1. CASE i > Len(wins)
      <4>1. i = Len(wins) + 1
        BY <1>1, <3>1
      <4>2. Append(wins, w) = InsertAt(wins, i, w)
        BY <1>1, <4>1, AppendIsInsert
      <4> QED BY <3>1, <4>2 DEF ListAfter, Added
    <3>2. CASE ~(i > Len(wins))
      BY <3>2 DEF ListAfter, Added
    <3> QED BY <3>1, <3>2
  <2>4. \A n \in Nat : ShownAfter(n, Added(i, w, TRUE)) = i
    BY DEF ShownAfter, Added
  <2>5. unannounced' = unannounced
    BY <1>6 DEF AddWindow
  <2> QED BY <2>1, <2>2, <2>3, <2>4, <2>5, <1>0, ToldArrives
<1>7. ASSUME NEW i \in DOMAIN wins, RemoveWindow(i) PROVE ListInv'
  <2>1. /\ wins' = RemoveAt(wins, i) /\ Sent(Removed(i)) /\ Untold
        /\ unannounced' = unannounced
    BY <1>7 DEF RemoveWindow
  <2>2. CASE ~listening
    BY <1>0, <2>2 DEF ListInv
  <2>3. CASE listening
    <3>1. Removed(i) \in Events
      BY <1>1 DEF Removed, Events
    <3>2. ListAfter(wins, Removed(i)) = RemoveAt(wins, i)
      BY <1>1 DEF ListAfter, Removed
    <3>3. \A n \in Nat : ShownAfter(n, Removed(i)) = n
      BY DEF ShownAfter, Removed
    <3>4. unshown' \/ (~unshown /\ active' = active)
      BY <2>1, <2>3 DEF Untold
    <3> QED BY <2>1, <3>1, <3>2, <3>3, <3>4, <1>0, ToldArrives
  <2> QED BY <2>2, <2>3
<1>8. CASE Deliver
  <2> SUFFICES ASSUME listening, ~unannounced
               PROVE  (\E n \in Nat : /\ Arrives(queue, tabs, shown, wins, n)
                                      /\ unshown \/ n = active)'
    BY <1>0, <1>8 DEF ListInv, Deliver
  <2>1. /\ queue # <<>> /\ queue' = Tail(queue)
        /\ tabs' = ListAfter(tabs, Head(queue))
        /\ shown' = ShownAfter(shown, Head(queue))
        /\ UNCHANGED <<wins, active, unshown, unannounced>>
    BY <1>8 DEF Deliver
  <2>2. PICK n \in Nat : Arrives(queue, tabs, shown, wins, n) /\ (unshown \/ n = active)
    BY <2>1 DEF ListInv
  <2>3. queue \in Seq(Events)
    BY DEF StackInv, StackTypes
  <2>4. Arrives(Tail(queue), ListAfter(tabs, Head(queue)),
                ShownAfter(shown, Head(queue)), wins, n)
    BY <2>1, <2>2, <2>3, DeliveryArrives
  <2>5. Arrives(queue', tabs', shown', wins', n)
    BY <2>1, <2>4
  <2> QED BY <2>1, <2>2, <2>5 DEF Arrives, Foretold
<1> QED BY <1>0, <1>2, <1>3, <1>4, <1>5, <1>6, <1>7, <1>8 DEF StackNext, StackStep

\* When everything is sent the shell lists the tabs there are, in their order.
THEOREM TabsAlwaysCatchUp == StackSpec => []TabsCatchUp
<1>1. StackInit => StackInv /\ ListInv
  BY InitSound, InitArrives
<1>2. StackInv /\ ListInv /\ [StackNext]_stackVars => StackInv' /\ ListInv'
  BY StackStepKeepsIt, ListStepKeepsIt
<1>3. StackInv /\ ListInv => TabsCatchUp
  <2> SUFFICES ASSUME StackInv, ListInv, listening, queue = <<>>, ~unannounced
               PROVE  tabs = wins /\ (shown = active \/ unshown)
    BY DEF TabsCatchUp
  <2>1. PICK n \in Nat : Arrives(queue, tabs, shown, wins, n) /\ (unshown \/ n = active)
    BY DEF ListInv
  <2>2. Len(queue) + 1 = 1
    OBVIOUS
  <2>3. tabs = wins /\ shown = n
    BY <2>1, <2>2 DEF Arrives, Foretold
  <2> QED BY <2>1, <2>3
<1> QED BY <1>1, <1>2, <1>3, PTL DEF StackSpec
=============================================================================
