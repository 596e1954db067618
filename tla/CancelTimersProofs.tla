------------------------- MODULE CancelTimersProofs -------------------------
(***************************************************************************)
(* The properties of module CancelTimers, for every length of window and   *)
(* delay, every lag, and every way the clock is set.                       *)
(***************************************************************************)
EXTENDS CancelTimers, TLAPS

----------------------------------------------------------------------------
(* The inductive invariant.                                                *)

\* Nothing that is due waits for more than Lag ticks.
NothingLate ==
  /\ \A a \in arming : a.since <= elapsed /\ elapsed <= a.since + Lag
  /\ \A t \in timers : elapsed <= t.due + Lag
  /\ \A c \in callbacks : c.since <= elapsed /\ elapsed <= c.since + Lag

\* The open window is the latest one, under the latest id.
WindowIsLatest ==
  Open => /\ pendingAction.nth = windows
          /\ pendingAction.ID <= nextPending
          /\ pendingAction.openedAt <= elapsed
          /\ pendingAction.clockSetsThen <= clockSets

\* The two clocks have moved together while the wall clock was not set.
ClocksTogether ==
  /\ Open /\ ClockKept =>
       pendingAction.ExpiresAt - wall
         = pendingAction.openedAt + cancelWindowDuration - elapsed
  /\ clockSets = 0 => /\ wall = elapsed
                      /\ \A c \in callbacks : c.now <= wall

\* How far the timer of the open window has come, and by when.
TimerUnderWay ==
  Open /\ ClockKept =>
    LET opened == pendingAction.openedAt IN
    \/ \E a \in arming : a.window = pendingAction.nth /\ a.since = opened
    \/ \E t \in timers :
         /\ t.window = pendingAction.nth
         /\ opened + cancelWindowBroadcastDelay <= t.due
         /\ t.due <= opened + cancelWindowBroadcastDelay + Lag
    \/ \E c \in callbacks :
         /\ c.window = pendingAction.nth
         /\ c.now >= pendingAction.ExpiresAt
         /\ c.since <= opened + cancelWindowBroadcastDelay + 2 * Lag

\* Ids are given once, so a cancel that bears one is meant for its window.
CancelsKnowTheirWindow ==
  \A c \in cancels :
    c.PendingActionID # NoID =>
      /\ c.PendingActionID <= nextPending
      /\ Open /\ c.PendingActionID = pendingAction.ID
           => c.window = pendingAction.nth

TimersInv ==
  /\ TimersTypeOK
  /\ NothingLate
  /\ WindowIsLatest
  /\ ClocksTogether
  /\ TimerUnderWay
  /\ CancelsKnowTheirWindow
  /\ NamedCancelsHitTheirWindow

LEMMA TimersInvInit == TimersInit => TimersInv
BY TimesAssumption
   DEF TimersInit, TimersInv, TimersTypeOK, NothingLate, WindowIsLatest,
       ClocksTogether, TimerUnderWay, CancelsKnowTheirWindow,
       NamedCancelsHitTheirWindow, Open, NoWindow, NoID, Window

----------------------------------------------------------------------------
(* Time.                                                                   *)

LEMMA TickKeeps ==
  ASSUME TimersInv, Tick
  PROVE  TimersInv'
<1> USE TimesAssumption DEF TimersInv, TimersTypeOK, Tick, Arming, Timer, Callback, Window
<1>1. TimersTypeOK'
  OBVIOUS
<1>2. NothingLate'
  BY DEF NothingLate, OnTime
<1>3. WindowIsLatest' /\ ClocksTogether'
  BY DEF WindowIsLatest, ClocksTogether, Open, ClockKept
<1>4. TimerUnderWay'
  BY DEF TimerUnderWay, Open, ClockKept
<1>5. CancelsKnowTheirWindow' /\ NamedCancelsHitTheirWindow'
  BY DEF CancelsKnowTheirWindow, NamedCancelsHitTheirWindow, Open
<1> QED
  BY <1>1, <1>2, <1>3, <1>4, <1>5

LEMMA SetClockKeeps ==
  ASSUME TimersInv, NEW change \in ClockChanges, SetClock(change)
  PROVE  TimersInv'
<1> USE TimesAssumption DEF TimersInv, TimersTypeOK, SetClock, Arming, Timer, Callback, Window
<1>1. TimersTypeOK'
  OBVIOUS
<1>2. NothingLate' /\ WindowIsLatest'
  BY DEF NothingLate, WindowIsLatest, Open
<1>3. ClocksTogether' /\ TimerUnderWay'
  BY DEF WindowIsLatest, ClocksTogether, TimerUnderWay, Open, ClockKept
<1>4. CancelsKnowTheirWindow' /\ NamedCancelsHitTheirWindow'
  BY DEF CancelsKnowTheirWindow, NamedCancelsHitTheirWindow, Open
<1> QED
  BY <1>1, <1>2, <1>3, <1>4

----------------------------------------------------------------------------
(* Windows and timers.                                                     *)

LEMMA OpenCancelWindowKeeps ==
  ASSUME TimersInv, NEW skipped \in Nat, OpenCancelWindow(skipped)
  PROVE  TimersInv'
<1> USE TimesAssumption DEF TimersInv, TimersTypeOK, OpenCancelWindow, Arming, Timer, Callback
<1>1. TimersTypeOK'
  BY DEF Window
<1>2. NothingLate'
  BY DEF NothingLate
<1>3. WindowIsLatest' /\ ClocksTogether'
  BY DEF WindowIsLatest, ClocksTogether, Open, ClockKept
<1>4. TimerUnderWay'
  <2>1. [window |-> windows + 1, since |-> elapsed] \in arming'
    OBVIOUS
  <2>2. pendingAction'.nth = windows + 1 /\ pendingAction'.openedAt = elapsed
    OBVIOUS
  <2> QED
    BY <2>1, <2>2 DEF TimerUnderWay
<1>5. CancelsKnowTheirWindow'
  <2> SUFFICES ASSUME NEW c \in cancels, c.PendingActionID # NoID
               PROVE  /\ c.PendingActionID <= nextPending'
                      /\ c.PendingActionID # pendingAction'.ID
    BY DEF CancelsKnowTheirWindow
  <2>1. c.PendingActionID <= nextPending /\ c.PendingActionID \in Nat
    BY DEF CancelsKnowTheirWindow, Cancel
  <2> QED
    BY <2>1
<1>6. NamedCancelsHitTheirWindow'
  BY DEF NamedCancelsHitTheirWindow
<1> QED
  BY <1>1, <1>2, <1>3, <1>4, <1>5, <1>6

LEMMA ScheduleKeeps ==
  ASSUME TimersInv, NEW a \in arming, ScheduleCancelWindowExpiration(a)
  PROVE  TimersInv'
<1> USE TimesAssumption
        DEF TimersInv, TimersTypeOK, ScheduleCancelWindowExpiration, Arming, Timer, Callback, Window
<1> DEFINE timer == [window |-> a.window, due |-> elapsed + cancelWindowBroadcastDelay]
<1>1. TimersTypeOK'
  OBVIOUS
<1>2. NothingLate' /\ WindowIsLatest' /\ ClocksTogether'
  BY DEF NothingLate, WindowIsLatest, ClocksTogether, Open, ClockKept
<1>3. TimerUnderWay'
  <2> SUFFICES ASSUME Open, ClockKept
               PROVE  TimerUnderWay'
    BY DEF TimerUnderWay, Open, ClockKept
  <2>1. CASE a.window = pendingAction.nth /\ a.since = pendingAction.openedAt
    <3>1. timer \in timers' /\ timer.window = pendingAction.nth
      BY <2>1
    <3>2. /\ pendingAction.openedAt + cancelWindowBroadcastDelay <= timer.due
          /\ timer.due <= pendingAction.openedAt + cancelWindowBroadcastDelay + Lag
      BY <2>1 DEF NothingLate
    <3> QED
      BY <3>1, <3>2 DEF TimerUnderWay
  <2>2. CASE ~(a.window = pendingAction.nth /\ a.since = pendingAction.openedAt)
    BY <2>2 DEF TimerUnderWay
  <2> QED
    BY <2>1, <2>2
<1>4. CancelsKnowTheirWindow' /\ NamedCancelsHitTheirWindow'
  BY DEF CancelsKnowTheirWindow, NamedCancelsHitTheirWindow, Open
<1> QED
  BY <1>1, <1>2, <1>3, <1>4

LEMMA FireKeeps ==
  ASSUME TimersInv, NEW t \in timers, Fire(t)
  PROVE  TimersInv'
<1> USE TimesAssumption DEF TimersInv, TimersTypeOK, Fire, Arming, Timer, Callback, Window
<1> DEFINE callback == [window |-> t.window, now |-> wall, since |-> elapsed]
<1>1. TimersTypeOK'
  OBVIOUS
<1>2. NothingLate' /\ WindowIsLatest' /\ ClocksTogether'
  BY DEF NothingLate, WindowIsLatest, ClocksTogether, Open, ClockKept
<1>3. TimerUnderWay'
  <2> SUFFICES ASSUME Open, ClockKept
               PROVE  TimerUnderWay'
    BY DEF TimerUnderWay, Open, ClockKept
  <2>1. CASE /\ t.window = pendingAction.nth
             /\ pendingAction.openedAt + cancelWindowBroadcastDelay <= t.due
             /\ t.due <= pendingAction.openedAt + cancelWindowBroadcastDelay + Lag
    <3>1. callback \in callbacks' /\ callback.window = pendingAction.nth
      BY <2>1
    <3>2. callback.now >= pendingAction.ExpiresAt
      BY <2>1 DEF ClocksTogether
    <3>3. callback.since <= pendingAction.openedAt + cancelWindowBroadcastDelay + 2 * Lag
      BY <2>1 DEF NothingLate
    <3> QED
      BY <3>1, <3>2, <3>3 DEF TimerUnderWay
  <2>2. CASE ~(/\ t.window = pendingAction.nth
               /\ pendingAction.openedAt + cancelWindowBroadcastDelay <= t.due
               /\ t.due <= pendingAction.openedAt + cancelWindowBroadcastDelay + Lag)
    BY <2>2 DEF TimerUnderWay
  <2> QED
    BY <2>1, <2>2
<1>4. CancelsKnowTheirWindow' /\ NamedCancelsHitTheirWindow'
  BY DEF CancelsKnowTheirWindow, NamedCancelsHitTheirWindow, Open
<1> QED
  BY <1>1, <1>2, <1>3, <1>4

LEMMA NoWindowKeeps ==
  ASSUME TimersInv, pendingAction' = NoWindow,
         UNCHANGED <<elapsed, wall, clockSets, windows, nextPending, arming,
                     timers, cancels>>,
         callbacks' \subseteq callbacks
  PROVE  TimersInv'
BY TimesAssumption
   DEF TimersInv, TimersTypeOK, NothingLate, WindowIsLatest, ClocksTogether,
       TimerUnderWay, CancelsKnowTheirWindow, NamedCancelsHitTheirWindow, Open,
       NoWindow, NoID, Window

LEMMA ExpireCancelWindowKeeps ==
  ASSUME TimersInv, NEW c \in callbacks, ExpireCancelWindow(c)
  PROVE  TimersInv'
<1>1. CASE c.now >= pendingAction.ExpiresAt
  BY <1>1, NoWindowKeeps DEF ExpireCancelWindow
<1>2. CASE ~(c.now >= pendingAction.ExpiresAt)
  <2>1. UNCHANGED pendingAction /\ callbacks' = callbacks \ {c}
    BY <1>2 DEF ExpireCancelWindow
  <2> QED
    BY <1>2, <2>1, TimesAssumption
       DEF TimersInv, TimersTypeOK, NothingLate, WindowIsLatest, ClocksTogether,
           TimerUnderWay, CancelsKnowTheirWindow, NamedCancelsHitTheirWindow,
           Open, ClockKept, ExpireCancelWindow
<1> QED
  BY <1>1, <1>2

----------------------------------------------------------------------------
(* Cancels and new games.                                                  *)

LEMMA SendCancelKeeps ==
  ASSUME TimersInv, NEW id, SendCancel(id)
  PROVE  TimersInv'
<1> USE DEF TimersInv, SendCancel, Window
<1>1. TimersTypeOK'
  BY DEF TimersTypeOK, Cancel, NoID
<1>2. NothingLate' /\ WindowIsLatest' /\ ClocksTogether' /\ TimerUnderWay'
  BY DEF NothingLate, WindowIsLatest, ClocksTogether, TimerUnderWay, Open, ClockKept
<1>3. CancelsKnowTheirWindow' /\ NamedCancelsHitTheirWindow'
  BY DEF CancelsKnowTheirWindow, NamedCancelsHitTheirWindow, WindowIsLatest, Open
<1> QED
  BY <1>1, <1>2, <1>3

LEMMA PlayCancelKeeps ==
  ASSUME TimersInv, NEW cancel \in cancels, PlayCancel(cancel)
  PROVE  TimersInv'
<1> USE DEF TimersInv, TimersTypeOK, PlayCancel
<1>1. /\ pendingAction' \in Window
      /\ pendingAction'.ID = pendingAction.ID
      /\ pendingAction'.nth = pendingAction.nth
      /\ pendingAction'.ExpiresAt = pendingAction.ExpiresAt
      /\ pendingAction'.openedAt = pendingAction.openedAt
      /\ pendingAction'.clockSetsThen = pendingAction.clockSetsThen
  BY DEF Window
<1>2. NothingLate' /\ WindowIsLatest' /\ ClocksTogether' /\ TimerUnderWay'
  BY <1>1 DEF NothingLate, WindowIsLatest, ClocksTogether, TimerUnderWay, Open, ClockKept
<1>3. CancelsKnowTheirWindow'
  BY <1>1 DEF CancelsKnowTheirWindow, Open
<1>4. NamedCancelsHitTheirWindow'
  BY <1>1 DEF CancelsKnowTheirWindow, NamedCancelsHitTheirWindow, Open, Window
<1> QED
  BY <1>1, <1>2, <1>3, <1>4

LEMMA StartGameKeeps ==
  ASSUME TimersInv, StartGame
  PROVE  TimersInv'
BY NoWindowKeeps DEF StartGame

----------------------------------------------------------------------------
LEMMA TimersInvStep == TimersInv /\ [TimersNext]_timerVars => TimersInv'
<1> SUFFICES ASSUME TimersInv, [TimersNext]_timerVars
             PROVE  TimersInv'
  OBVIOUS
<1>1. CASE Tick
  BY <1>1, TickKeeps
<1>2. ASSUME NEW change \in ClockChanges, SetClock(change)
      PROVE  TimersInv'
  BY <1>2, SetClockKeeps
<1>3. ASSUME NEW skipped \in Nat, OpenCancelWindow(skipped)
      PROVE  TimersInv'
  BY <1>3, OpenCancelWindowKeeps
<1>4. CASE ServerStep
  BY <1>4, ScheduleKeeps, FireKeeps, ExpireCancelWindowKeeps DEF ServerStep
<1>5. ASSUME NEW id \in Nat, SendCancel(id)
      PROVE  TimersInv'
  BY <1>5, SendCancelKeeps
<1>6. ASSUME NEW cancel \in cancels, PlayCancel(cancel)
      PROVE  TimersInv'
  BY <1>6, PlayCancelKeeps
<1>7. CASE StartGame
  BY <1>7, StartGameKeeps
<1>8. CASE UNCHANGED timerVars
  BY <1>8
     DEF timerVars, TimersInv, TimersTypeOK, NothingLate, WindowIsLatest,
         ClocksTogether, TimerUnderWay, CancelsKnowTheirWindow,
         NamedCancelsHitTheirWindow, Open, ClockKept
<1> QED
  BY <1>1, <1>2, <1>3, <1>4, <1>5, <1>6, <1>7, <1>8 DEF TimersNext

LEMMA TimersInvariant == TimersSpec => []TimersInv
<1> QED
  BY TimersInvInit, TimersInvStep, PTL DEF TimersSpec

\* TimersTypeOK: however late the timers and however the clock is set, the
\* times the server keeps are numbers of their types.
THEOREM TimersTyped == TimersSpec => []TimersTypeOK
<1>1. TimersInv => TimersTypeOK
  BY DEF TimersInv
<1> QED
  BY <1>1, TimersInvariant, PTL

\* OpenWindowWillEnd: an open window always has the timer that ends it, unless
\* the clock has been set since.
THEOREM TimersLeftForWindows == TimersSpec => []OpenWindowWillEnd
<1>1. TimersInv => OpenWindowWillEnd
  BY DEF TimersInv, TimerUnderWay, OpenWindowWillEnd
<1> QED
  BY <1>1, TimersInvariant, PTL

\* WindowEndsInTime: with the clock kept no window outlasts its timer by more
\* than three steps of the scheduler.
THEOREM WindowsEndInTime == TimersSpec => []WindowEndsInTime
<1>1. TimersInv => WindowEndsInTime
  BY TimesAssumption
     DEF TimersInv, TimersTypeOK, TimerUnderWay, NothingLate, WindowEndsInTime,
         Arming, Timer, Callback, Window
<1> QED
  BY <1>1, TimersInvariant, PTL

\* NamedCancelsHitTheirWindow: a cancel that names its window counts for no
\* other, in any number of games played one after another in a room.
THEOREM CancelsCorrect == TimersSpec => []NamedCancelsHitTheirWindow
<1>1. TimersInv => NamedCancelsHitTheirWindow
  BY DEF TimersInv
<1> QED
  BY <1>1, TimersInvariant, PTL

\* NoWindowEndsEarly: with a clock that is never set no timer, whatever window
\* it was armed for, ends a window before its time.
THEOREM NoWindowCutShort == TimersSpec => NoWindowEndsEarly
<1> DEFINE A == /\ Open /\ pendingAction' = NoWindow
                /\ \E c \in callbacks : ExpireCancelWindow(c)
                /\ clockSets = 0
                => elapsed >= pendingAction.openedAt + cancelWindowDuration
<1>1. TimersInv => A
  <2> SUFFICES ASSUME TimersInv, Open, pendingAction' = NoWindow, clockSets = 0,
                      NEW c \in callbacks, ExpireCancelWindow(c)
               PROVE  elapsed >= pendingAction.openedAt + cancelWindowDuration
    OBVIOUS
  <2>1. c.now >= pendingAction.ExpiresAt
    BY DEF ExpireCancelWindow, NoWindow, Open
  <2>2. ClockKept /\ c.now <= elapsed
    BY DEF TimersInv, TimersTypeOK, Window, WindowIsLatest, ClocksTogether, ClockKept
  <2> QED
    BY <2>1, <2>2, TimesAssumption
       DEF TimersInv, TimersTypeOK, ClocksTogether, Window, Callback
<1>2. TimersInv => [A]_timerVars
  BY <1>1
<1>3. [][A]_timerVars <=> NoWindowEndsEarly
  BY DEF NoWindowEndsEarly
<1> QED
  BY <1>2, <1>3, TimersInvariant, PTL
============================================================================
