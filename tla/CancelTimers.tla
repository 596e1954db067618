---------------------------- MODULE CancelTimers ----------------------------
(***************************************************************************)
(* The cancel windows of one room and the timers that end them.  A command *)
(* that opens a window stamps it with the time it ends, by the wall clock  *)
(* (engine.go); after the command the handler arms a timer, which counts   *)
(* elapsed time (websocket.go, scheduleCancelWindowExpiration).  When the   *)
(* timer fires, its callback reads the wall clock and then asks the room to *)
(* resolve whatever window is open.  A timer does not know its window: one  *)
(* that outlives it meets a later window, or a later game.                 *)
(*                                                                         *)
(* Time passes in ticks.  Lag bounds how many ticks the scheduler may keep *)
(* a handler or a callback waiting.  The wall clock follows the ticks,     *)
(* except when it is set.  Of the game only the windows are left: that the *)
(* actions between them take ids for their prompts, too, shows as ids that *)
(* no window gets.                                                         *)
(***************************************************************************)
EXTENDS Integers

CONSTANTS
  cancelWindowDuration,       \* ticks of a window (5 s)
  cancelWindowBroadcastDelay, \* ticks of a timer (5.1 s)
  Lag,                        \* ticks a step of the server may be late
  ClockChanges                \* by how much the wall clock may be set

ASSUME TimesAssumption ==
  /\ cancelWindowDuration \in Nat
  /\ cancelWindowBroadcastDelay \in Nat
  /\ cancelWindowDuration <= cancelWindowBroadcastDelay
  /\ Lag \in Nat
  /\ ClockChanges \subseteq Int

VARIABLES
  elapsed,       \* ticks since the start
  wall,          \* the wall clock, time.Now
  clockSets,     \* how often the wall clock has been set
  pendingAction, \* the window of the room's PendingAction, NoWindow for none
  windows,       \* how many windows have been opened, in all games
  nextPending,   \* Engine.nextPending
  arming,        \* the windows whose handlers have yet to arm a timer
  timers,        \* the timers that are armed
  callbacks,     \* the callbacks that have read the wall clock
  cancels        \* the PLAY_CANCEL commands under way

timerVars == <<elapsed, wall, clockSets, pendingAction, windows, nextPending,
               arming, timers, callbacks, cancels>>

Arming == [window : Nat, since : Nat]
Timer == [window : Nat, due : Nat]
Callback == [window : Nat, now : Int, since : Nat]

\* A cancel is meant for a window, and may name the pending action or not.
Cancel == [window : Nat, PendingActionID : Nat]
NoID == 0

\* nth and openedAt, and how often the clock had been set by then, are for
\* the properties; so is counted, the cancels behind CancelCount.
Window == [ID : Nat, ExpiresAt : Int, nth : Nat, openedAt : Nat,
           clockSetsThen : Nat, counted : SUBSET Cancel]
NoWindow == [ID |-> NoID, ExpiresAt |-> 0, nth |-> 0, openedAt |-> 0,
             clockSetsThen |-> 0, counted |-> {}]

Open == pendingAction.ID # NoID

TimersInit ==
  /\ elapsed = 0 /\ wall = 0 /\ clockSets = 0
  /\ pendingAction = NoWindow
  /\ windows = 0 /\ nextPending = 0
  /\ arming = {} /\ timers = {} /\ callbacks = {} /\ cancels = {}

----------------------------------------------------------------------------
\* Nothing that is due has been waiting for Lag ticks.
OnTime ==
  /\ \A a \in arming : elapsed < a.since + Lag
  /\ \A t \in timers : elapsed < t.due + Lag
  /\ \A c \in callbacks : elapsed < c.since + Lag

Tick ==
  /\ OnTime
  /\ elapsed' = elapsed + 1
  /\ wall' = wall + 1
  /\ UNCHANGED <<clockSets, pendingAction, windows, nextPending, arming,
                 timers, callbacks, cancels>>

SetClock(change) ==
  /\ wall' = wall + change
  /\ clockSets' = clockSets + 1
  /\ UNCHANGED <<elapsed, pendingAction, windows, nextPending, arming, timers,
                 callbacks, cancels>>

----------------------------------------------------------------------------
\* PLAY_CARD or PLAY_COMBO: the window opens under the room's lock, and the
\* handler goes on to arm the timer.  skipped ids have gone to prompts.
OpenCancelWindow(skipped) ==
  /\ ~Open
  /\ pendingAction' = [ID |-> nextPending + skipped + 1,
                       ExpiresAt |-> wall + cancelWindowDuration,
                       nth |-> windows + 1,
                       openedAt |-> elapsed,
                       clockSetsThen |-> clockSets,
                       counted |-> {}]
  /\ windows' = windows + 1
  /\ nextPending' = nextPending + skipped + 1
  /\ arming' = arming \cup {[window |-> windows + 1, since |-> elapsed]}
  /\ UNCHANGED <<elapsed, wall, clockSets, timers, callbacks, cancels>>

\* Mutant: no timer is armed while another is.
ScheduleCancelWindowExpiration_Mutant(a) ==
  /\ arming' = arming \ {a}
  /\ timers' = IF timers = {}
                 THEN {[window |-> a.window, due |-> elapsed + cancelWindowBroadcastDelay]}
                 ELSE timers
  /\ UNCHANGED <<elapsed, wall, clockSets, pendingAction, windows, nextPending,
                 callbacks, cancels>>

\* Mutant: the timer is set for the end of whatever window is open.
ScheduleCancelWindowExpiration_Mutant2(a) ==
  /\ arming' = arming \ {a}
  /\ timers' = timers \cup
       {[window |-> a.window, due |-> elapsed + pendingAction.ExpiresAt - wall]}
  /\ UNCHANGED <<elapsed, wall, clockSets, pendingAction, windows, nextPending,
                 callbacks, cancels>>

ScheduleCancelWindowExpiration(a) ==
  /\ arming' = arming \ {a}
  /\ timers' = timers \cup
       {[window |-> a.window, due |-> elapsed + cancelWindowBroadcastDelay]}
  /\ UNCHANGED <<elapsed, wall, clockSets, pendingAction, windows, nextPending,
                 callbacks, cancels>>

\* The timer fires and its callback reads time.Now.
Fire(t) ==
  /\ elapsed >= t.due
  /\ timers' = timers \ {t}
  /\ callbacks' = callbacks \cup
       {[window |-> t.window, now |-> wall, since |-> elapsed]}
  /\ UNCHANGED <<elapsed, wall, clockSets, pendingAction, windows, nextPending,
                 arming, cancels>>

\* Mutant: the time is not looked at.
ExpireCancelWindow_Mutant(c) ==
  /\ callbacks' = callbacks \ {c}
  /\ pendingAction' = NoWindow
  /\ UNCHANGED <<elapsed, wall, clockSets, windows, nextPending, arming,
                 timers, cancels>>

\* With no window open, or one that has not ended by the time read, the
\* callback gives up; there is no second try.
ExpireCancelWindow(c) ==
  /\ callbacks' = callbacks \ {c}
  /\ pendingAction' =
       IF c.now >= pendingAction.ExpiresAt THEN NoWindow ELSE pendingAction
  /\ UNCHANGED <<elapsed, wall, clockSets, windows, nextPending, arming,
                 timers, cancels>>

----------------------------------------------------------------------------
\* A client that sees the window open answers it, with the id it has been
\* shown or without.
SendCancel(id) ==
  /\ Open
  /\ id \in {NoID, pendingAction.ID}
  /\ cancels' = cancels \cup {[window |-> pendingAction.nth, PendingActionID |-> id]}
  /\ UNCHANGED <<elapsed, wall, clockSets, pendingAction, windows, nextPending,
                 arming, timers, callbacks>>

\* The expiry is not looked at here: a cancel counts as long as the window
\* has not been resolved.
PlayCancel(cancel) ==
  /\ cancels' = cancels \ {cancel}
  /\ pendingAction' =
       IF Open /\ cancel.PendingActionID \in {NoID, pendingAction.ID}
         THEN [pendingAction EXCEPT !.counted = @ \cup {cancel}]
         ELSE pendingAction
  /\ UNCHANGED <<elapsed, wall, clockSets, windows, nextPending, arming,
                 timers, callbacks>>

\* Mutant: the new game brings an engine of its own.
StartGame_Mutant ==
  /\ pendingAction' = NoWindow
  /\ nextPending' = 0
  /\ UNCHANGED <<elapsed, wall, clockSets, windows, arming, timers,
                 callbacks, cancels>>

\* START_GAME while a game is on: its window is gone with it, its timers are
\* not, and the engine that numbers the pending actions stays.
StartGame ==
  /\ Open
  /\ pendingAction' = NoWindow
  /\ UNCHANGED <<elapsed, wall, clockSets, windows, nextPending, arming,
                 timers, callbacks, cancels>>

----------------------------------------------------------------------------
ServerStep ==
  \/ \E a \in arming : ScheduleCancelWindowExpiration(a)
  \/ \E t \in timers : Fire(t)
  \/ \E c \in callbacks : ExpireCancelWindow(c)

TimersNext ==
  \/ Tick
  \/ \E change \in ClockChanges : SetClock(change)
  \/ \E skipped \in Nat : OpenCancelWindow(skipped)
  \/ ServerStep
  \/ \E id \in Nat : SendCancel(id)
  \/ \E cancel \in cancels : PlayCancel(cancel)
  \/ StartGame

TimersSpec == TimersInit /\ [][TimersNext]_timerVars

----------------------------------------------------------------------------
(* What the timers must keep to.                                           *)

\* Every variable has a value of its type.
TimersTypeOK ==
  /\ elapsed \in Nat /\ wall \in Int /\ clockSets \in Nat
  /\ pendingAction \in Window
  /\ windows \in Nat /\ nextPending \in Nat
  /\ arming \subseteq Arming /\ timers \subseteq Timer
  /\ callbacks \subseteq Callback /\ cancels \subseteq Cancel

\* The clock has not been set since the window was opened.
ClockKept == pendingAction.clockSetsThen = clockSets

\* No window is left without the callback that ends it: its own timer is
\* still to be armed, or will fire late enough, or has fired late enough and
\* is about to be heard.  This is what a clock that is set back breaks: the
\* timer gives up, and nothing arms another.
OpenWindowWillEnd ==
  Open /\ ClockKept =>
    \/ \E a \in arming : a.window = pendingAction.nth
    \/ \E t \in timers : t.window = pendingAction.nth
    \/ \E c \in callbacks : c.window = pendingAction.nth /\ c.now >= pendingAction.ExpiresAt

\* With the clock kept, a window is over at the latest when its timer has
\* come to its end and arming it, firing it and being heard have each taken
\* their time.  As cancels count until then, this is also how long a cancel
\* can come after the end the players have been shown.
WindowEndsInTime ==
  Open /\ ClockKept =>
    elapsed <= pendingAction.openedAt + cancelWindowBroadcastDelay + 3 * Lag

\* Timers of earlier windows, and of games that have been replaced, do not cut
\* a window short, unless the clock is set (the expiry kept in the pending
\* action, engine.go:318).
NoWindowEndsEarly ==
  [][/\ Open /\ pendingAction' = NoWindow
     /\ \E c \in callbacks : ExpireCancelWindow(c)
     /\ clockSets = 0
     => elapsed >= pendingAction.openedAt + cancelWindowDuration]_timerVars

\* A cancel that names the pending action it is meant for never counts
\* against another, however late it comes and whatever has been started
\* meanwhile (engine.go:273, nextPendingID).
NamedCancelsHitTheirWindow ==
  \A c \in pendingAction.counted :
    c.PendingActionID # NoID => c.window = pendingAction.nth
============================================================================
