--------------------------- MODULE SessionLockProofs ---------------------------
(***************************************************************************)
(* Proofs about SessionLock: for any outputs, lock clients and bounds,     *)
(* `locked` means that the desktop is gone and the lock screen is there.   *)
(***************************************************************************)
EXTENDS SessionLock, SequenceTheorems, TLAPS

Messages == {SendFrames} \cup {RenderStates(f) : f \in Frames}

\* What is in a mailbox, in whatever order.
Said(s) == {s[i] : i \in 1 .. Len(s)}

LockTypes ==
  /\ client \in [Clients -> {"idle", "locking", "locked", "gone"}]
  /\ lock \in [client : Clients \cup {None}, surfaces : SUBSET Outputs,
               waiting : SUBSET Outputs, locker : BOOLEAN]
  /\ lock.surfaces \subseteq plugged
  /\ committed \subseteq Clients \X Outputs
  /\ primary \subseteq Clients \X Outputs
  /\ presented \subseteq Clients \X Outputs

ThreadTypes ==
  /\ shown \subseteq Clients \X Outputs
  /\ drawn \in [Outputs -> Frames \cup {"nothing"}]
  /\ panel \in [Outputs -> Frames]
  /\ mail \in [Outputs -> Seq(Messages)]
  /\ \A o \in Outputs : /\ Len(mail[o]) <= MaxMail + 2
                        /\ drawn[o] # "nothing" => Len(mail[o]) <= MaxMail

OutputTypes ==
  /\ plugged \subseteq Outputs /\ outputs \subseteq plugged
  /\ mirroring \in [Outputs -> Outputs \cup {None}]
  /\ \A o \in Outputs : mirroring[o] # None => o \in plugged \ outputs
  /\ dark \subseteq plugged /\ changes \in 0 .. MaxChanges
  /\ wanted \subseteq Lit /\ stayed \subseteq outputs /\ apart \subseteq plugged

\* A thread without an output to drive shows nothing and is between two frames.
Undriven ==
  \A o \in Outputs \ Driven : panel[o] = "off" /\ drawn[o] = "nothing"

Live(c) == client[c] \in {"locking", "locked"}

\* The lock is that of the client that holds it, and of nobody who never asked.
OneHolder ==
  \A c \in Clients : /\ Live(c) => lock.client = c
                     /\ client[c] = "idle" => lock.client # c

\* A message with a frame of client c is under way from output o.
MailSays(c, o) == \E m \in Said(mail[o]) : m.frame = c

\* Who does not hold the lock has no surfaces, and who never did has left no
\* trace.
NoTraces ==
  \A c \in Clients, o \in Outputs :
    /\ ~Live(c) => <<c, o>> \notin committed \cup primary \cup presented
    /\ client[c] = "idle" => /\ <<c, o>> \notin shown
                             /\ drawn[o] # c /\ ~MailSays(c, o)

\* What the main loop knows of a lock surface was on the panel first.
SeenIsShown ==
  \A c \in Clients, o \in Outputs :
    Live(c) /\ (<<c, o>> \in primary \cup presented \/ MailSays(c, o))
      => <<c, o>> \in shown

\* Neither the panel nor the frame that comes next has the desktop.
Clean(o) == panel[o] # "desktop" /\ drawn[o] # "desktop"

\* The desktop is still to be seen only where the lock waits, or where it never
\* looked.
Covered ==
  lock.client # None =>
    \A o \in Outputs : /\ <<lock.client, o>> \in shown => Clean(o)
                       /\ Clean(o) \/ o \in lock.waiting \/ o \in apart

WaitedOrShown ==
  LockIsValid =>
    \A o \in stayed : o \in lock.waiting \/ <<lock.client, o>> \in shown

LockInv ==
  /\ LockTypes /\ ThreadTypes /\ OutputTypes /\ Undriven /\ OneHolder /\ NoTraces
  /\ SeenIsShown /\ Covered /\ OwedWhileWaiting /\ WaitedOrShown

-----------------------------------------------------------------------------
(* Mailboxes.                                                                *)

\* A thread adds two messages at the end of its channel.
LEMMA MailAppended ==
  ASSUME NEW s \in Seq(Messages), NEW m \in Messages, NEW n \in Messages
  PROVE  /\ s \o <<m, n>> \in Seq(Messages)
         /\ Len(s \o <<m, n>>) = Len(s) + 2
         /\ Said(s \o <<m, n>>) = Said(s) \cup {m, n}
<1>1. <<m, n>> \in Seq(Messages) /\ Len(<<m, n>>) = 2
      /\ <<m, n>>[1] = m /\ <<m, n>>[2] = n
  OBVIOUS
<1>2. /\ s \o <<m, n>> \in Seq(Messages)
      /\ Len(s \o <<m, n>>) = Len(s) + 2 /\ Len(s) \in Nat
      /\ \A i \in 1 .. Len(s) + 2 :
           (s \o <<m, n>>)[i] = IF i <= Len(s) THEN s[i] ELSE <<m, n>>[i - Len(s)]
  BY <1>1, ConcatProperties, LenProperties
<1> DEFINE t == s \o <<m, n>>
<1>3. ASSUME NEW x \in Said(t) PROVE x \in Said(s) \cup {m, n}
  <2>1. PICK i \in 1 .. Len(s) + 2 : x = t[i]
    BY <1>2, <1>3 DEF Said
  <2>2. CASE i <= Len(s)
    BY <1>2, <2>1, <2>2 DEF Said
  <2>3. CASE i = Len(s) + 1
    BY <1>1, <1>2, <2>1, <2>3
  <2>4. CASE i = Len(s) + 2
    BY <1>1, <1>2, <2>1, <2>4
  <2> QED BY <1>2, <2>1, <2>2, <2>3, <2>4
<1>4. Said(s) \subseteq Said(t)
  BY <1>2 DEF Said
<1>5. t[Len(s) + 1] = m /\ t[Len(s) + 2] = n
  BY <1>1, <1>2
<1>6. m \in Said(t) /\ n \in Said(t)
  BY <1>2, <1>5 DEF Said
<1> QED BY <1>2, <1>3, <1>4, <1>6

\* The main loop takes the first message of a channel.
LEMMA MailTaken ==
  ASSUME NEW s \in Seq(Messages), s # <<>>
  PROVE  /\ Tail(s) \in Seq(Messages) /\ Len(Tail(s)) <= Len(s)
         /\ Head(s) \in Said(s) /\ Said(Tail(s)) \subseteq Said(s)
<1>1. /\ Tail(s) \in Seq(Messages) /\ Len(Tail(s)) = Len(s) - 1
      /\ \A i \in 1 .. Len(Tail(s)) : Tail(s)[i] = s[i + 1]
      /\ Len(s) \in Nat \ {0}
  BY HeadTailProperties, EmptySeq
<1>2. Head(s) = s[1]
  BY <1>1
<1> QED BY <1>1, <1>2 DEF Said

\* An empty sequence says nothing.
LEMMA NothingSaid == Said(<<>>) = {}
BY DEF Said

-----------------------------------------------------------------------------
(* What a frame shows, and who is told.                                      *)

\* A frame shows the desktop only if there is no lock, and no lock screen but
\* that of the lock.
LEMMA ContentIsOfTheLock ==
  ASSUME LockTypes, NEW o
  PROVE  /\ Content(o) \in Frames
         /\ lock.client # None => Content(o) # "desktop"
         /\ Content(o) \in Clients => Content(o) = lock.client
BY ConstantsAssumption DEF Content, Frames, LockTypes

\* Hearing of the event changes neither who holds the lock nor who asked.
LEMMA ToldTypes ==
  ASSUME LockTypes, NEW l, client' = Told(l), l.client = lock.client
  PROVE  /\ client' \in [Clients -> {"idle", "locking", "locked", "gone"}]
         /\ \A c \in Clients : /\ Live(c)' <=> Live(c)
                               /\ client'[c] = "idle" <=> client[c] = "idle"
BY DEF LockTypes, Told, Live

\* stop_waiting_on: the lock stays whose it is, and the event is owed as long as
\* an output is waited on.
LEMMA StopWaitingKeepsTheDebt ==
  ASSUME LockTypes, OwedWhileWaiting, NEW o \in Outputs, lock.client # None
  PROVE  /\ StopWaitingOn(lock, o) \in [client : Clients \cup {None}, surfaces : SUBSET Outputs,
                                        waiting : SUBSET Outputs, locker : BOOLEAN]
         /\ StopWaitingOn(lock, o).client = lock.client
         /\ StopWaitingOn(lock, o).surfaces = lock.surfaces
         /\ StopWaitingOn(lock, o).waiting = lock.waiting \ {o}
         /\ StopWaitingOn(lock, o).locker <=> StopWaitingOn(lock, o).waiting # {}
<1>1. CASE o \notin lock.waiting
  BY <1>1 DEF StopWaitingOn, LockTypes, OwedWhileWaiting
<1>2. CASE o \in lock.waiting
  <2>1. StopWaitingOn(lock, o) =
          [lock EXCEPT !.waiting = @ \ {o}, !.locker = @ /\ lock.waiting # {o}]
    BY <1>2 DEF StopWaitingOn
  <2> QED BY <1>2, <2>1 DEF LockTypes, OwedWhileWaiting
<1> QED BY <1>1, <1>2

\* Without a lock there is nothing to stop.
LEMMA NoLockNoDebt ==
  ASSUME LockTypes, NEW o \in Outputs
  PROVE  /\ StopWaitingOn(lock, o) \in [client : Clients \cup {None}, surfaces : SUBSET Outputs,
                                        waiting : SUBSET Outputs, locker : BOOLEAN]
         /\ StopWaitingOn(lock, o).client = lock.client
         /\ StopWaitingOn(lock, o).surfaces = lock.surfaces
         /\ StopWaitingOn(lock, o).waiting = lock.waiting \ {o}
BY DEF StopWaitingOn, LockTypes

-----------------------------------------------------------------------------
(* The session lock.                                                         *)

LEMMA ScheduledIsLit ==
  ASSUME OutputTypes, NEW S
  PROVE  Scheduled(S) \subseteq Lit
BY DEF OutputTypes, Scheduled

\* A lock starts with every output waited on, and mirroring outputs apart.
LEMMA LockHolds ==
  ASSUME LockInv, NEW c \in Clients, Lock(c)
  PROVE  LockInv'
<1> USE DEF LockInv
<1>1. /\ client[c] = "idle" /\ ~LockIsValid
      /\ lock'.client = c /\ lock'.surfaces = {} /\ lock'.waiting = outputs
      /\ lock'.locker <=> outputs # {}
      /\ lock' \in [client : Clients \cup {None}, surfaces : SUBSET Outputs,
                    waiting : SUBSET Outputs, locker : BOOLEAN]
      /\ client' = [client EXCEPT ![c] = IF lock'.locker THEN "locking" ELSE "locked"]
      /\ stayed' = outputs /\ apart' = {o \in Outputs : mirroring[o] # None}
      /\ wanted' = Scheduled(outputs)
      /\ UNCHANGED <<outputVars, committed, primary, presented, drawn, panel, mail, shown>>
  <2>1. {o \in outputs : mirroring[o] = None} = outputs
    BY DEF OutputTypes
  <2> QED BY <2>1 DEF Lock, OutputTypes
<1>2. \A d \in Clients : ~Live(d)
  BY <1>1, ConstantsAssumption DEF LockIsValid, OneHolder, Live
<1>3. LockTypes' /\ ThreadTypes'
  BY <1>1 DEF LockTypes, ThreadTypes, outputVars
<1>4. OutputTypes'
  <2>1. Lit' = Lit
    BY <1>1 DEF Lit, Driven, outputVars
  <2> QED BY <1>1, <2>1, ScheduledIsLit DEF OutputTypes, outputVars
<1>5. Undriven'
  BY <1>1 DEF Undriven, Driven, outputVars
<1>6. OneHolder'
  BY <1>1, <1>2 DEF OneHolder, Live, LockTypes
<1>7. NoTraces' /\ SeenIsShown'
  BY <1>1, <1>2 DEF NoTraces, SeenIsShown, Live, MailSays, LockTypes
<1>8. Covered'
  BY <1>1 DEF Covered, Clean, NoTraces, Undriven, Driven, OutputTypes
<1>9. OwedWhileWaiting' /\ WaitedOrShown'
  BY <1>1 DEF OwedWhileWaiting, WaitedOrShown
<1> QED BY <1>3, <1>4, <1>5, <1>6, <1>7, <1>8, <1>9

\* New lock surfaces and their commits keep the invariant.
LEMMA SurfacesHold ==
  ASSUME LockInv, NEW c \in Clients, NEW o \in Outputs, NewSurface(c, o) \/ Commit(c, o)
  PROVE  LockInv'
<1> USE DEF LockInv
<1>1. /\ Live(c) /\ lock.client = c
      /\ lock' \in [client : Clients \cup {None}, surfaces : SUBSET Outputs,
                    waiting : SUBSET Outputs, locker : BOOLEAN]
      /\ lock'.client = lock.client /\ lock'.surfaces \subseteq plugged
      /\ lock'.waiting = lock.waiting /\ lock'.locker = lock.locker
      /\ committed' \in SUBSET (committed \cup {<<c, o>>})
      /\ wanted' = wanted \/ wanted' = Scheduled({o})
      /\ UNCHANGED <<outputVars, client, primary, presented, drawn, panel, mail, shown,
                     history>>
  BY DEF NewSurface, Commit, Live, LockTypes, OutputTypes, threadVars
<1>2. LockTypes' /\ ThreadTypes'
  BY <1>1 DEF LockTypes, ThreadTypes, outputVars
<1>3. OutputTypes'
  <2>1. Lit' = Lit
    BY <1>1 DEF Lit, Driven, outputVars
  <2> QED BY <1>1, <2>1, ScheduledIsLit DEF OutputTypes, outputVars, history
<1>4. Undriven' /\ OneHolder' /\ Covered' /\ OwedWhileWaiting' /\ WaitedOrShown'
  BY <1>1 DEF Undriven, Driven, OneHolder, Live, Covered, Clean, OwedWhileWaiting,
              WaitedOrShown, LockIsValid, outputVars, history
<1>5. NoTraces' /\ SeenIsShown'
  BY <1>1 DEF NoTraces, SeenIsShown, Live, MailSays
<1> QED BY <1>2, <1>3, <1>4, <1>5

\* Unlocked, or its holder is gone: no other client ever holds this lock.
LEMMA LockEndsHold ==
  ASSUME LockInv, NEW c \in Clients, Unlock(c) \/ LockObjectDies(c)
  PROVE  LockInv'
<1> USE DEF LockInv
<1>1. /\ Live(c) /\ lock.client = c /\ \A d \in Clients : Live(d) => d = c
      /\ client' = [client EXCEPT ![c] = "gone"]
      /\ committed' = {p \in committed : p[1] # c} /\ primary' = {p \in primary : p[1] # c}
      /\ presented' = {p \in presented : p[1] # c} /\ shown' = {p \in shown : p[1] # c}
      /\ \/ lock' = NoLock /\ stayed' = {} /\ apart' = {} /\ wanted' = Scheduled(outputs)
         \/ lock' = lock /\ UNCHANGED <<history, wanted>>
      /\ UNCHANGED <<outputVars, drawn, panel, mail>>
  BY DEF Unlock, LockObjectDies, Forget, Live, OneHolder
<1>2. LockTypes' /\ ThreadTypes'
  <2>1. lock' \in [client : Clients \cup {None}, surfaces : SUBSET Outputs,
                  waiting : SUBSET Outputs, locker : BOOLEAN]
        /\ lock'.surfaces \subseteq plugged
    <3>1. CASE lock' = lock
      BY <3>1 DEF LockTypes
    <3>2. CASE lock' = NoLock
      BY <3>2 DEF NoLock
    <3> QED BY <1>1, <3>1, <3>2
  <2>2. LockTypes'
    BY <1>1, <2>1 DEF LockTypes, outputVars
  <2>3. ThreadTypes'
    BY <1>1 DEF ThreadTypes
  <2> QED BY <2>2, <2>3
<1>3. OutputTypes'
  <2>1. Lit' = Lit
    BY <1>1 DEF Lit, Driven, outputVars
  <2> QED BY <1>1, <2>1, ScheduledIsLit DEF OutputTypes, outputVars, history
<1>4. Undriven'
  BY <1>1 DEF Undriven, Driven, outputVars
<1>5. \A d \in Clients : /\ ~Live(d)'
                         /\ client'[d] = "idle" <=> client[d] = "idle"
  BY <1>1 DEF LockTypes, Live
<1>6. OneHolder'
  BY <1>1, <1>5, ConstantsAssumption DEF OneHolder, NoLock
<1>7. NoTraces'
  BY <1>1, <1>5 DEF NoTraces, MailSays
<1>8. SeenIsShown'
  BY <1>5 DEF SeenIsShown
<1>9. Covered' /\ OwedWhileWaiting'
  BY <1>1 DEF Covered, Clean, OwedWhileWaiting, NoLock, history
<1>10. WaitedOrShown'
  BY <1>2, <1>5 DEF WaitedOrShown, LockIsValid, Live, LockTypes
<1> QED BY <1>2, <1>3, <1>4, <1>6, <1>7, <1>8, <1>9, <1>10

-----------------------------------------------------------------------------
(* The surface threads.                                                      *)

\* Damage, and a frame collected: with a lock it is clean, and nobody but the
\* holder is in it.
LEMMA CollectHolds ==
  ASSUME LockInv, NEW o \in Outputs, Damage(o) \/ Collect(o)
  PROVE  LockInv'
<1> USE DEF LockInv
<1> DEFINE f == Content(Source(o))
<1>1. /\ \/ drawn' = drawn
         \/ o \in Lit /\ Len(mail[o]) <= MaxMail /\ drawn' = [drawn EXCEPT ![o] = f]
      /\ wanted' \subseteq Lit
      /\ UNCHANGED <<outputVars, lockVars, panel, mail, shown, history>>
  BY ScheduledIsLit DEF Damage, Collect, OutputTypes
<1>2. /\ f \in Frames /\ (lock.client # None => f # "desktop")
      /\ f \in Clients => f = lock.client
  BY ContentIsOfTheLock
<1>3. LockTypes' /\ OneHolder' /\ OwedWhileWaiting' /\ WaitedOrShown'
  BY <1>1 DEF LockTypes, OneHolder, Live, OwedWhileWaiting, WaitedOrShown, LockIsValid,
              lockVars, outputVars, history
<1>4. ThreadTypes'
  BY <1>1, <1>2 DEF ThreadTypes
<1>5. OutputTypes'
  BY <1>1 DEF OutputTypes, Lit, Driven, outputVars, history
<1>6. Undriven'
  BY <1>1 DEF Undriven, Driven, Lit, outputVars, ThreadTypes
<1>7. NoTraces' /\ SeenIsShown'
  BY <1>1, <1>2 DEF NoTraces, SeenIsShown, Live, MailSays, OneHolder, lockVars, ThreadTypes
<1>8. Covered'
  BY <1>1, <1>2 DEF Covered, Clean, lockVars, history, ThreadTypes
<1> QED BY <1>3, <1>4, <1>5, <1>6, <1>7, <1>8

\* What the main loop is told of a frame, it is told once the frame is out.
LEMMA SubmitHolds ==
  ASSUME LockInv, NEW o \in Outputs, Submit(o)
  PROVE  LockInv'
<1> USE DEF LockInv
<1>1. /\ drawn[o] # "nothing" /\ drawn[o] \in Frames
      /\ panel' = [panel EXCEPT ![o] = drawn[o]]
      /\ drawn' = [drawn EXCEPT ![o] = "nothing"]
      /\ \/ mail' = mail
         \/ mail' = [mail EXCEPT ![o] = @ \o <<RenderStates(drawn[o]), SendFrames>>]
      /\ shown' = shown \cup ({drawn[o]} \cap Clients) \X {o}
      /\ UNCHANGED <<outputVars, lockVars, wanted, history>>
  BY DEF Submit, Sends, ThreadTypes
<1>2. "nothing" \notin Clients /\ "desktop" \notin Clients
  BY ConstantsAssumption
<1>3. /\ mail'[o] \in Seq(Messages) /\ Len(mail'[o]) <= MaxMail + 2
      /\ Said(mail'[o]) \subseteq Said(mail[o]) \cup {RenderStates(drawn[o]), SendFrames}
      /\ \A p \in Outputs \ {o} : mail'[p] = mail[p]
  <2>1. mail[o] \in Seq(Messages) /\ Len(mail[o]) <= MaxMail /\ MaxMail \in Nat
        /\ Len(mail[o]) \in Nat
    BY <1>1, LenProperties, ConstantsAssumption DEF ThreadTypes
  <2>2. RenderStates(drawn[o]) \in Messages /\ SendFrames \in Messages
    BY <1>1 DEF Messages
  <2>3. CASE mail' = mail
    BY <2>1, <2>3
  <2>4. CASE mail' = [mail EXCEPT ![o] = @ \o <<RenderStates(drawn[o]), SendFrames>>]
    <3>1. /\ mail'[o] = mail[o] \o <<RenderStates(drawn[o]), SendFrames>>
          /\ \A p \in Outputs \ {o} : mail'[p] = mail[p]
      BY <2>4 DEF ThreadTypes
    <3> QED BY <3>1, <2>1, <2>2, MailAppended
  <2> QED BY <1>1, <2>3, <2>4
<1>4. \A c \in Clients, p \in Outputs :
        MailSays(c, p)' => MailSays(c, p) \/ (p = o /\ drawn[o] = c)
  <2>1. RenderStates(drawn[o]).frame = drawn[o] /\ SendFrames.frame = "nothing"
    BY DEF RenderStates, SendFrames
  <2> QED BY <2>1, <1>2, <1>3 DEF MailSays
<1>5. LockTypes' /\ OneHolder' /\ OwedWhileWaiting' /\ OutputTypes'
  BY <1>1 DEF LockTypes, OneHolder, Live, OwedWhileWaiting, OutputTypes, Lit, Driven,
              lockVars, outputVars, history
<1>6. ThreadTypes'
  <2>1. mail' \in [Outputs -> Seq(Messages)]
    BY <1>1, <1>3 DEF ThreadTypes
  <2>2. shown' \subseteq Clients \X Outputs
    BY <1>1 DEF ThreadTypes
  <2>3. panel' \in [Outputs -> Frames] /\ drawn' \in [Outputs -> Frames \cup {"nothing"}]
        /\ drawn'[o] = "nothing" /\ \A p \in Outputs \ {o} : drawn'[p] = drawn[p]
    BY <1>1 DEF ThreadTypes
  <2>4. \A p \in Outputs : /\ Len(mail'[p]) <= MaxMail + 2
                           /\ drawn'[p] # "nothing" => Len(mail'[p]) <= MaxMail
    BY <2>3, <1>3 DEF ThreadTypes
  <2> QED BY <2>1, <2>2, <2>3, <2>4 DEF ThreadTypes
<1>7. Undriven'
  BY <1>1 DEF Undriven, Driven, outputVars, ThreadTypes
<1>8. NoTraces'
  <2>1. \A c \in Clients, p \in Outputs :
          <<c, p>> \in shown' => <<c, p>> \in shown \/ (c = drawn[o] /\ p = o)
    BY <1>1
  <2> QED BY <1>1, <1>2, <1>4, <2>1 DEF NoTraces, Live, lockVars, ThreadTypes
<1>9. SeenIsShown'
  <2>1. \A c \in Clients : c = drawn[o] => <<c, o>> \in shown'
    BY <1>1
  <2> QED BY <1>1, <1>4, <2>1 DEF SeenIsShown, Live, lockVars
<1>10. Covered'
  <2>1. \A c \in Clients, p \in Outputs :
          <<c, p>> \in shown' => <<c, p>> \in shown \/ (c = drawn[o] /\ p = o)
    BY <1>1
  <2>2. \A p \in Outputs : /\ Clean(p) => Clean(p)'
                           /\ p = o /\ drawn[o] # "desktop" => Clean(p)'
    BY <1>1 DEF Clean, ThreadTypes
  <2> QED BY <1>1, <1>2, <2>1, <2>2 DEF Covered, lockVars, history, LockTypes
<1>11. WaitedOrShown'
  BY <1>1 DEF WaitedOrShown, LockIsValid, lockVars, history
<1> QED BY <1>5, <1>6, <1>7, <1>8, <1>9, <1>10, <1>11

-----------------------------------------------------------------------------
(* The main loop.                                                            *)

\* The next message of a channel is read: nothing new is under way.
LEMMA ReceiveTakes ==
  ASSUME ThreadTypes, NEW o \in Outputs, NEW kind, Receive(o, kind)
  PROVE  /\ mail' \in [Outputs -> Seq(Messages)]
         /\ \A p \in Outputs : Len(mail'[p]) <= Len(mail[p])
         /\ Head(mail[o]) \in Said(mail[o])
         /\ \A c \in Clients, p \in Outputs : MailSays(c, p)' => MailSays(c, p)
<1>1. mail[o] \in Seq(Messages) /\ mail[o] # <<>> /\ mail' = [mail EXCEPT ![o] = Tail(@)]
  BY DEF Receive, ThreadTypes
<1>2. /\ Tail(mail[o]) \in Seq(Messages) /\ Len(Tail(mail[o])) <= Len(mail[o])
      /\ Head(mail[o]) \in Said(mail[o]) /\ Said(Tail(mail[o])) \subseteq Said(mail[o])
  BY <1>1, MailTaken
<1>3. /\ mail'[o] = Tail(mail[o]) /\ \A p \in Outputs \ {o} : mail'[p] = mail[p]
      /\ mail' \in [Outputs -> Seq(Messages)]
  BY <1>1, <1>2 DEF ThreadTypes
<1>4. \A p \in Outputs : Len(mail[p]) \in Nat
  BY LenProperties DEF ThreadTypes
<1>5. \A p \in Outputs : /\ Len(mail'[p]) <= Len(mail[p])
                         /\ Said(mail'[p]) \subseteq Said(mail[p])
  <2> SUFFICES ASSUME NEW p \in Outputs
               PROVE  Len(mail'[p]) <= Len(mail[p]) /\ Said(mail'[p]) \subseteq Said(mail[p])
    OBVIOUS
  <2>1. CASE p = o
    BY <1>2, <1>3, <2>1
  <2>2. CASE p # o
    <3>1. mail'[p] = mail[p] /\ Len(mail[p]) \in Nat
      BY <1>3, <1>4, <2>2
    <3> QED BY <3>1
  <2> QED BY <2>1, <2>2
<1>6. \A c \in Clients, p \in Outputs : MailSays(c, p)' => MailSays(c, p)
  BY <1>5 DEF MailSays
<1> QED BY <1>2, <1>3, <1>5, <1>6

\* A lock surface is the output's only once it was shown there.
LEMMA OnRenderStatesHolds ==
  ASSUME LockInv, NEW o \in Outputs, OnRenderStates(o)
  PROVE  LockInv'
<1> USE DEF LockInv
<1>1. /\ \/ primary' \subseteq primary
         \/ /\ LockSurface(o) \in committed /\ Head(mail[o]).frame = lock.client
            /\ primary' = primary \cup {LockSurface(o)}
      /\ UNCHANGED <<outputVars, lock, client, committed, presented, wanted, drawn, panel,
                     shown, history>>
  BY DEF OnRenderStates
<1>2. /\ mail' \in [Outputs -> Seq(Messages)]
      /\ \A p \in Outputs : Len(mail'[p]) <= Len(mail[p])
      /\ Head(mail[o]) \in Said(mail[o])
      /\ \A c \in Clients, p \in Outputs : MailSays(c, p)' => MailSays(c, p)
  BY ReceiveTakes DEF OnRenderStates
<1>3. LockSurface(o) \in committed => lock.client \in Clients /\ Live(lock.client)
  BY DEF LockSurface, LockTypes, NoTraces
<1>4. primary' \subseteq Clients \X Outputs
  BY <1>1 DEF LockTypes
<1>5. LockTypes' /\ OneHolder' /\ OwedWhileWaiting' /\ WaitedOrShown'
  BY <1>1, <1>4 DEF LockTypes, OneHolder, Live, OwedWhileWaiting, WaitedOrShown,
                    LockIsValid, outputVars, history
<1>6. ThreadTypes'
  <2>1. \A p \in Outputs : Len(mail[p]) \in Nat /\ Len(mail'[p]) \in Nat
    BY <1>2, LenProperties DEF ThreadTypes
  <2> QED BY <1>1, <1>2, <2>1, ConstantsAssumption DEF ThreadTypes
<1>7. OutputTypes' /\ Undriven' /\ Covered'
  BY <1>1 DEF OutputTypes, Undriven, Lit, Driven, Covered, Clean, outputVars, history
<1>8. NoTraces'
  BY <1>1, <1>2, <1>3 DEF NoTraces, Live, LockSurface
<1>9. SeenIsShown'
  <2>1. CASE primary' \subseteq primary
    BY <2>1, <1>1, <1>2 DEF SeenIsShown, Live
  <2>2. CASE /\ LockSurface(o) \in committed /\ Head(mail[o]).frame = lock.client
             /\ primary' = primary \cup {LockSurface(o)}
    <3>1. <<lock.client, o>> \in shown
      BY <2>2, <1>2, <1>3 DEF SeenIsShown, MailSays
    <3> QED BY <2>2, <3>1, <1>1, <1>2 DEF SeenIsShown, Live, LockSurface
  <2> QED BY <1>1, <2>1, <2>2
<1> QED BY <1>5, <1>6, <1>7, <1>8, <1>9

\* An output the lock stops waiting on has shown the lock screen.
LEMMA OnSendFramesHolds ==
  ASSUME LockInv, NEW o \in Outputs, OnSendFrames(o)
  PROVE  LockInv'
<1> USE DEF LockInv
<1>1. /\ mail' \in [Outputs -> Seq(Messages)]
      /\ \A p \in Outputs : Len(mail'[p]) <= Len(mail[p])
      /\ \A c \in Clients, p \in Outputs : MailSays(c, p)' => MailSays(c, p)
  BY ReceiveTakes DEF OnSendFrames
<1>2. /\ presented' \subseteq presented \cup ({LockSurface(o)} \cap primary)
      /\ \/ UNCHANGED <<lock, client>>
         \/ lock' = lock /\ client' = Told(lock')
         \/ /\ LockSurface(o) \in presented' /\ lock' = StopWaitingOn(lock, o)
            /\ client' = Told(lock')
      /\ UNCHANGED <<outputVars, committed, primary, wanted, drawn, panel, shown, history>>
  BY DEF OnSendFrames, NoteLockedFrame
<1>3. LockSurface(o) \in presented' =>
        lock.client \in Clients /\ Live(lock.client) /\ <<lock.client, o>> \in shown
  BY <1>2 DEF LockSurface, LockTypes, NoTraces, SeenIsShown
<1>4. /\ lock'.client = lock.client /\ lock'.surfaces = lock.surfaces
      /\ lock' \in [client : Clients \cup {None}, surfaces : SUBSET Outputs,
                    waiting : SUBSET Outputs, locker : BOOLEAN]
      /\ \/ lock'.waiting = lock.waiting
         \/ /\ lock'.waiting = lock.waiting \ {o} /\ <<lock.client, o>> \in shown
      /\ OwedWhileWaiting'
  <2>1. CASE lock' = lock
    BY <2>1 DEF LockTypes, OwedWhileWaiting
  <2>2. CASE LockSurface(o) \in presented' /\ lock' = StopWaitingOn(lock, o)
    <3>1. lock.client # None
      BY <1>3, <2>2, ConstantsAssumption
    <3>2. /\ lock' \in [client : Clients \cup {None}, surfaces : SUBSET Outputs,
                        waiting : SUBSET Outputs, locker : BOOLEAN]
          /\ lock'.client = lock.client /\ lock'.surfaces = lock.surfaces
          /\ lock'.waiting = lock.waiting \ {o}
          /\ lock'.locker <=> lock'.waiting # {}
      BY <2>2, <3>1, StopWaitingKeepsTheDebt
    <3> QED BY <1>3, <2>2, <3>2 DEF OwedWhileWaiting
  <2> QED BY <1>2, <2>1, <2>2
<1>5. /\ client' \in [Clients -> {"idle", "locking", "locked", "gone"}]
      /\ \A c \in Clients : /\ Live(c)' <=> Live(c)
                            /\ client'[c] = "idle" <=> client[c] = "idle"
  <2>1. CASE client' = client
    BY <2>1 DEF LockTypes, Live
  <2>2. CASE client' = Told(lock')
    BY <2>2, <1>4, ToldTypes
  <2> QED BY <1>2, <2>1, <2>2
<1>6. LockTypes'
  BY <1>2, <1>4, <1>5 DEF LockTypes, outputVars
<1>7. ThreadTypes'
  <2>1. \A p \in Outputs : Len(mail[p]) \in Nat /\ Len(mail'[p]) \in Nat
    BY <1>1, LenProperties DEF ThreadTypes
  <2> QED BY <1>1, <1>2, <2>1, ConstantsAssumption DEF ThreadTypes
<1>8. OutputTypes' /\ Undriven'
  BY <1>2 DEF OutputTypes, Undriven, Lit, Driven, outputVars, history
<1>9. OneHolder'
  BY <1>4, <1>5 DEF OneHolder
<1>10. NoTraces' /\ SeenIsShown'
  BY <1>1, <1>2, <1>5 DEF NoTraces, SeenIsShown
<1>11. Covered'
  BY <1>2, <1>4 DEF Covered, Clean, history
<1>12. WaitedOrShown'
  <2>1. LockIsValid' => LockIsValid
    BY <1>4, <1>5, ConstantsAssumption DEF LockIsValid, Live, LockTypes
  <2> QED BY <1>2, <1>4, <2>1 DEF WaitedOrShown, history
<1> QED BY <1>4, <1>6, <1>7, <1>8, <1>9, <1>10, <1>11, <1>12

-----------------------------------------------------------------------------
(* Outputs come and go.                                                      *)

\* The output is gone with all that was known of it, and is no longer waited on.
LEMMA UnplugHolds ==
  ASSUME LockInv, NEW o \in Outputs, Unplug(o)
  PROVE  LockInv'
<1> USE DEF LockInv
<1>1. /\ o \in plugged /\ drawn[o] = "nothing" /\ changes' \in 0 .. MaxChanges
      /\ plugged' = plugged \ {o} /\ outputs' = outputs \ {o}
      /\ mirroring' = [mirroring EXCEPT ![o] = None] /\ dark' = dark \ {o}
      /\ lock' = [StopWaitingOn(lock, o) EXCEPT !.surfaces = @ \ {o}]
      /\ client' = Told(lock')
      /\ committed' = {p \in committed : p[2] # o} /\ primary' = {p \in primary : p[2] # o}
      /\ presented' = {p \in presented : p[2] # o} /\ shown' = {p \in shown : p[2] # o}
      /\ wanted' = wanted \ {o} /\ apart' = apart \ {o} /\ stayed' = stayed \ {o}
      /\ panel' = [panel EXCEPT ![o] = "off"] /\ mail' = [mail EXCEPT ![o] = <<>>]
      /\ drawn' = drawn
  BY ConstantsAssumption DEF Unplug, Change, Idle, GoDark, OutputTypes
<1>2. /\ lock' \in [client : Clients \cup {None}, surfaces : SUBSET Outputs,
                    waiting : SUBSET Outputs, locker : BOOLEAN]
      /\ lock'.client = lock.client /\ lock'.surfaces = lock.surfaces \ {o}
      /\ lock'.waiting = lock.waiting \ {o}
      /\ OwedWhileWaiting'
  <2> DEFINE l == StopWaitingOn(lock, o)
  <2>1. /\ l \in [client : Clients \cup {None}, surfaces : SUBSET Outputs,
                  waiting : SUBSET Outputs, locker : BOOLEAN]
        /\ l.client = lock.client /\ l.surfaces = lock.surfaces
        /\ l.waiting = lock.waiting \ {o}
        /\ lock.client # None => (l.locker <=> l.waiting # {})
    BY NoLockNoDebt, StopWaitingKeepsTheDebt
  <2> HIDE DEF l
  <2>2. lock' = [l EXCEPT !.surfaces = @ \ {o}]
    BY <1>1 DEF l
  <2>3. /\ lock' \in [client : Clients \cup {None}, surfaces : SUBSET Outputs,
                      waiting : SUBSET Outputs, locker : BOOLEAN]
        /\ lock'.client = l.client /\ lock'.surfaces = l.surfaces \ {o}
        /\ lock'.waiting = l.waiting /\ lock'.locker = l.locker
    BY <2>1, <2>2
  <2> QED BY <2>1, <2>3 DEF OwedWhileWaiting
<1>3. /\ client' \in [Clients -> {"idle", "locking", "locked", "gone"}]
      /\ \A c \in Clients : /\ Live(c)' <=> Live(c)
                            /\ client'[c] = "idle" <=> client[c] = "idle"
  BY <1>1, <1>2, ToldTypes
<1>4. LockTypes'
  BY <1>1, <1>2, <1>3 DEF LockTypes
<1>5. ThreadTypes'
  <2>1. <<>> \in Seq(Messages) /\ Len(<<>>) = 0
    OBVIOUS
  <2>2. "off" \in Frames
    BY DEF Frames
  <2>3. shown' \subseteq Clients \X Outputs
    BY <1>1 DEF ThreadTypes
  <2> QED BY <1>1, <2>1, <2>2, <2>3, ConstantsAssumption DEF ThreadTypes
<1>6. /\ Lit' = Lit \ {o} /\ Driven' = Driven \ {o}
  BY <1>1 DEF Lit, Driven, OutputTypes
<1>7. OutputTypes'
  <2>1. mirroring' \in [Outputs -> Outputs \cup {None}]
        /\ \A p \in Outputs : mirroring'[p] # None => p # o /\ mirroring[p] # None
    BY <1>1 DEF OutputTypes
  <2> QED BY <1>1, <1>6, <2>1 DEF OutputTypes
<1>8. Undriven'
  BY <1>1, <1>6 DEF Undriven, ThreadTypes
<1>9. OneHolder'
  BY <1>2, <1>3 DEF OneHolder
<1>10. \A c \in Clients, p \in Outputs :
         MailSays(c, p)' => p # o /\ MailSays(c, p)
  BY <1>1, NothingSaid DEF MailSays, ThreadTypes
<1>11. NoTraces' /\ SeenIsShown'
  BY <1>1, <1>3, <1>10 DEF NoTraces, SeenIsShown
<1>12. Covered'
  <2>1. \A p \in Outputs : Clean(p)' <=> Clean(p) \/ p = o
    BY <1>1 DEF Clean, ThreadTypes
  <2> QED BY <1>1, <1>2, <2>1 DEF Covered
<1>13. WaitedOrShown'
  <2>1. LockIsValid' => LockIsValid
    BY <1>2, <1>3, ConstantsAssumption DEF LockIsValid, Live, LockTypes
  <2> QED BY <1>1, <1>2, <2>1 DEF WaitedOrShown, OutputTypes
<1> QED BY <1>2, <1>4, <1>5, <1>7, <1>8, <1>9, <1>11, <1>12, <1>13

\* An output that comes shows what the lock allows, from its first frame.
LEMMA OutputComesHolds ==
  ASSUME LockInv, NEW o \in Outputs, Plug(o) \/ Enable(o)
  PROVE  LockInv'
<1> USE DEF LockInv
<1>1. /\ changes' \in 0 .. MaxChanges /\ outputs' = outputs \cup {o}
      /\ mirroring' = [mirroring EXCEPT ![o] = None]
      /\ plugged' = plugged \cup {o}
      /\ \/ dark' = dark \ {o} /\ panel' = [panel EXCEPT ![o] = Content(o)]
         \/ dark' = dark /\ panel' = panel /\ o \in Driven
      /\ wanted' \subseteq wanted \cup ({o} \ dark')
      /\ UNCHANGED <<lockVars, drawn, mail, shown, history>>
  <2>1. CASE Plug(o)
    BY <2>1, ConstantsAssumption DEF Plug, Change, OutputTypes
  <2>2. CASE Enable(o)
    BY <2>2, ConstantsAssumption DEF Enable, Change, OutputTypes, Driven
  <2> QED BY <2>1, <2>2
<1>2. Content(o) \in Frames /\ (lock.client # None => Content(o) # "desktop")
  BY ContentIsOfTheLock
<1>3. /\ mirroring' \in [Outputs -> Outputs \cup {None}] /\ mirroring'[o] = None
      /\ \A p \in Outputs \ {o} : mirroring'[p] = mirroring[p]
  BY <1>1 DEF OutputTypes
<1>4. Driven' = Driven \cup {o} /\ Lit' = (Lit \cup {o}) \ dark'
  BY <1>1, <1>3 DEF Driven, Lit, OutputTypes
<1>5. LockTypes' /\ ThreadTypes'
  <2>1. panel' \in [Outputs -> Frames]
    BY <1>1, <1>2 DEF ThreadTypes
  <2> QED BY <1>1, <2>1 DEF LockTypes, ThreadTypes, lockVars
<1>6. OutputTypes'
  BY <1>1, <1>3, <1>4 DEF OutputTypes, Lit, Driven, history
<1>7. Undriven'
  BY <1>1, <1>4 DEF Undriven, ThreadTypes
<1>8. NoTraces' /\ SeenIsShown' /\ OneHolder' /\ OwedWhileWaiting' /\ WaitedOrShown'
  BY <1>1 DEF NoTraces, SeenIsShown, Live, MailSays, OneHolder, OwedWhileWaiting,
              WaitedOrShown, LockIsValid, lockVars, history
<1>9. Covered'
  BY <1>1, <1>2 DEF Covered, Clean, lockVars, history, ThreadTypes
<1> QED BY <1>5, <1>6, <1>7, <1>8, <1>9

\* An output that goes dark is nowhere seen: disabled, or off with its mirrors.
LEMMA OutputGoesHolds ==
  ASSUME LockInv, NEW o \in Outputs, Disable(o) \/ DpmsOff(o)
  PROVE  LockInv'
<1> USE DEF LockInv
<1> DEFINE Goes(S) ==
        /\ changes' \in 0 .. MaxChanges
        /\ \A p \in S : drawn[p] = "nothing"
        /\ panel' = [p \in Outputs |-> IF p \in S THEN "off" ELSE panel[p]]
        /\ wanted' = wanted \ S /\ apart' = apart \ S
        /\ \/ outputs' = outputs \ S /\ dark' = dark /\ S = {o} /\ o \in outputs
              /\ stayed' = stayed \ S
           \/ outputs' = outputs /\ dark' = dark \cup S /\ S \subseteq plugged
              /\ stayed' = stayed
        /\ UNCHANGED <<plugged, mirroring, lockVars, drawn, mail, shown>>
<1>1. PICK S \in SUBSET Outputs : Goes(S)
  <2>1. CASE Disable(o)
    <3>1. panel' = [p \in Outputs |-> IF p \in {o} THEN "off" ELSE panel[p]]
      BY <2>1 DEF Disable, GoDark, ThreadTypes
    <3>2. changes' \in 0 .. MaxChanges
      BY <2>1, ConstantsAssumption DEF Disable, Change, OutputTypes
    <3>3. Goes({o})
      BY <2>1, <3>1, <3>2 DEF Disable, GoDark, Idle
    <3>4. {o} \in SUBSET Outputs
      OBVIOUS
    <3> HIDE DEF Goes
    <3> QED BY <3>3, <3>4
  <2>2. CASE DpmsOff(o)
    <3>1. Group(o) \in SUBSET Outputs /\ Group(o) \subseteq plugged
      BY DEF Group, OutputTypes
    <3>2. Goes(Group(o))
      BY <2>2, <3>1, ConstantsAssumption DEF DpmsOff, Change, Idle, OutputTypes
    <3> HIDE DEF Goes
    <3> QED BY <3>1, <3>2
  <2> QED BY <2>1, <2>2
<1>2. Lit' = Lit \ S /\ \A p \in Outputs \ S : p \in Driven => p \in Driven'
  BY <1>1 DEF Lit, Driven, OutputTypes
<1>3. LockTypes' /\ ThreadTypes'
  <2>1. panel' \in [Outputs -> Frames]
    BY <1>1 DEF ThreadTypes, Frames
  <2> QED BY <1>1, <2>1 DEF LockTypes, ThreadTypes, lockVars
<1>4. OutputTypes'
  BY <1>1, <1>2 DEF OutputTypes
<1>5. Undriven'
  BY <1>1, <1>2 DEF Undriven
<1>6. NoTraces' /\ SeenIsShown' /\ OneHolder' /\ OwedWhileWaiting' /\ WaitedOrShown'
  BY <1>1 DEF NoTraces, SeenIsShown, Live, MailSays, OneHolder, OwedWhileWaiting,
              WaitedOrShown, LockIsValid, lockVars
<1>7. Covered'
  BY <1>1, ConstantsAssumption DEF Covered, Clean, lockVars
<1> QED BY <1>3, <1>4, <1>5, <1>6, <1>7

\* An output set to mirror another, or on again, keeps what its panel shows.
LEMMA OutputTurnsHolds ==
  ASSUME LockInv, NEW o \in Outputs,
         DpmsOn(o) \/ \E s \in Outputs : Mirror(o, s)
  PROVE  LockInv'
<1> USE DEF LockInv
<1>1. /\ changes' \in 0 .. MaxChanges
      /\ plugged' = plugged /\ Driven' = Driven /\ wanted' \subseteq Lit'
      /\ outputs' \subseteq plugged' /\ dark' \subseteq plugged
      /\ mirroring' \in [Outputs -> Outputs \cup {None}]
      /\ \A p \in Outputs : mirroring'[p] # None => p \in plugged' \ outputs'
      /\ stayed' \subseteq stayed /\ stayed' \subseteq outputs'
      /\ UNCHANGED <<lockVars, drawn, panel, mail, shown, apart>>
  <2>1. CASE DpmsOn(o)
    <3>1. /\ changes' \in 0 .. MaxChanges /\ dark' = dark \ Group(o)
          /\ wanted' = wanted \cup Group(o)
          /\ UNCHANGED <<plugged, outputs, mirroring, lockVars, drawn, panel, mail, shown,
                         history>>
      BY <2>1, ConstantsAssumption DEF DpmsOn, Change, OutputTypes
    <3>2. Group(o) \subseteq Driven
      BY <2>1, ConstantsAssumption DEF DpmsOn, Group, Driven, Source, OutputTypes
    <3>3. Driven' = Driven /\ Lit' = Lit \cup Group(o)
      BY <3>1, <3>2 DEF Driven, Lit
    <3> QED BY <3>1, <3>3 DEF OutputTypes, history
  <2>2. CASE \E s \in Outputs : Mirror(o, s)
    <3>1. PICK s \in Outputs : Mirror(o, s)
      BY <2>2
    <3>2. /\ changes' \in 0 .. MaxChanges /\ o \in outputs /\ s # None
          /\ outputs' = outputs \ {o} /\ mirroring' = [mirroring EXCEPT ![o] = s]
          /\ wanted' = wanted \cup ({o} \ dark) /\ stayed' = stayed \ {o}
          /\ UNCHANGED <<plugged, dark, lockVars, drawn, panel, mail, shown, apart>>
      BY <3>1, ConstantsAssumption DEF Mirror, Change, OutputTypes
    <3>3. /\ mirroring' \in [Outputs -> Outputs \cup {None}] /\ mirroring'[o] = s
          /\ \A p \in Outputs \ {o} : mirroring'[p] = mirroring[p]
      BY <3>2 DEF OutputTypes
    <3>4. Driven' = Driven /\ Lit' = Lit /\ o \in Driven
      BY <3>2, <3>3 DEF Driven, Lit, OutputTypes
    <3> QED BY <3>2, <3>3, <3>4 DEF OutputTypes, Lit
  <2> QED BY <2>1, <2>2
<1>2. LockTypes' /\ ThreadTypes' /\ OutputTypes'
  BY <1>1 DEF LockTypes, ThreadTypes, OutputTypes, lockVars
<1>3. NoTraces' /\ SeenIsShown' /\ OneHolder' /\ OwedWhileWaiting' /\ WaitedOrShown'
  BY <1>1 DEF NoTraces, SeenIsShown, Live, MailSays, OneHolder, OwedWhileWaiting,
              WaitedOrShown, LockIsValid, lockVars
<1>4. Undriven' /\ Covered'
  BY <1>1 DEF Undriven, Covered, Clean, lockVars
<1> QED BY <1>2, <1>3, <1>4

-----------------------------------------------------------------------------
(* The invariant.                                                            *)

LEMMA LockInitHolds == Init => LockInv
<1> SUFFICES ASSUME Init PROVE LockInv
  OBVIOUS
<1> USE DEF Init
<1>1. lock.client = None /\ None \notin Clients
  BY ConstantsAssumption DEF NoLock
<1>2. LockTypes
  BY DEF LockTypes, NoLock
<1>3. ThreadTypes
  <2>1. <<>> \in Seq(Messages) /\ Len(<<>>) = 0
    OBVIOUS
  <2>2. "desktop" \in Frames
    BY DEF Frames
  <2> QED BY <2>1, <2>2, ConstantsAssumption DEF ThreadTypes
<1>4. OutputTypes /\ Undriven
  BY ConstantsAssumption DEF OutputTypes, Undriven, Driven
<1>5. OneHolder /\ Covered /\ OwedWhileWaiting /\ WaitedOrShown
  BY <1>1 DEF OneHolder, Live, Covered, OwedWhileWaiting, WaitedOrShown
<1>6. NoTraces /\ SeenIsShown
  BY NothingSaid, ConstantsAssumption DEF NoTraces, SeenIsShown, Live, MailSays
<1> QED BY <1>2, <1>3, <1>4, <1>5, <1>6 DEF LockInv

\* With nothing waited on, what is covered is clean and what stayed was shown.
LEMMA LockInvSuffices == LockInv => LockedMeansSeen
<1> SUFFICES ASSUME LockInv PROVE LockedMeansSeen
  OBVIOUS
<1> USE DEF LockInv
<1>1. TypeOK
  <2>1. \A o \in Outputs : \A i \in 1 .. Len(mail[o]) : mail[o][i] \in Messages
    BY ElementOfSeq DEF ThreadTypes
  <2>2. lock \in [client : Clients \cup {None}, surfaces : SUBSET plugged,
                  waiting : SUBSET Outputs, locker : BOOLEAN]
    BY DEF LockTypes
  <2>3. \A o \in outputs : mirroring[o] = None
    BY DEF OutputTypes
  <2> QED BY <2>1, <2>2, <2>3 DEF TypeOK, LockTypes, ThreadTypes, OutputTypes, Messages
<1>2. IsLocked => lock.waiting = {}
  BY DEF IsLocked, OwedWhileWaiting
<1>3. LockedMeansCovered
  BY <1>2 DEF LockedMeansCovered, IsLocked, Covered, Clean, OutputTypes
<1>4. LockedMeansShown
  BY <1>2 DEF LockedMeansShown, WaitedOrShown
<1> QED BY <1>1, <1>3, <1>4 DEF LockedMeansSeen

\* `locked` is sent when the desktop is gone from every output it could be on
\* and the lock screen is on those that stayed, whatever monitors, blanking,
\* configuration and clients do meanwhile (note_locked_frame, send_frames,
\* stop_waiting_on, remove_output).
THEOREM LockedMeansSeenAlways == Spec => []LockedMeansSeen
<1>1. Init => LockInv
  BY LockInitHolds
<1>2. LockInv /\ [Next]_vars => LockInv'
  <2> SUFFICES ASSUME LockInv, [Next]_vars PROVE LockInv'
    OBVIOUS
  <2>1. ASSUME NEW c \in Clients, ClientStep(c) PROVE LockInv'
    BY <2>1, LockHolds, SurfacesHold, LockEndsHold DEF ClientStep
  <2>2. ASSUME NEW o \in Outputs, ThreadStep(o) PROVE LockInv'
    BY <2>2, CollectHolds, SubmitHolds DEF ThreadStep
  <2>3. ASSUME NEW o \in Outputs, MainStep(o) PROVE LockInv'
    BY <2>3, OnRenderStatesHolds, OnSendFramesHolds DEF MainStep
  <2>4. ASSUME NEW o \in Outputs, OutputStep(o) PROVE LockInv'
    BY <2>4, UnplugHolds, OutputComesHolds, OutputGoesHolds, OutputTurnsHolds
       DEF OutputStep
  <2>5. CASE UNCHANGED vars
    <3>1. UNCHANGED <<outputVars, lockVars, threadVars, history>>
      BY <2>5 DEF vars
    <3>2. LockTypes' /\ ThreadTypes' /\ OutputTypes'
      BY <3>1 DEF LockInv, LockTypes, ThreadTypes, OutputTypes, Lit, Driven, outputVars,
                  lockVars, threadVars, history
    <3>3. NoTraces' /\ SeenIsShown' /\ OneHolder' /\ OwedWhileWaiting' /\ WaitedOrShown'
      BY <3>1 DEF LockInv, NoTraces, SeenIsShown, Live, MailSays, OneHolder,
                  OwedWhileWaiting, WaitedOrShown, LockIsValid, lockVars, threadVars, history
    <3>4. Undriven' /\ Covered'
      BY <3>1 DEF LockInv, Undriven, Driven, Covered, Clean, outputVars, lockVars,
                  threadVars, history
    <3> QED BY <3>2, <3>3, <3>4 DEF LockInv
  <2> QED BY <2>1, <2>2, <2>3, <2>4, <2>5 DEF Next
<1> QED BY <1>1, <1>2, LockInvSuffices, PTL DEF Spec
=============================================================================
