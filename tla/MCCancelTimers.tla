--------------------------- MODULE MCCancelTimers ---------------------------
(* A few windows, and a clock that is set a few times, for TLC.            *)
EXTENDS CancelTimers, FiniteSets

CONSTANTS
  MaxWindows,   \* windows that are opened
  MaxElapsed,   \* ticks
  MaxClockSets, \* times the clock is set
  MaxCancels    \* cancels under way at a time

MCClockChanges == {-4, -1, 2}

\* A window is opened only with time enough left for it to end.  Before every
\* second window an id goes to a prompt.
MCNext ==
  \/ elapsed < MaxElapsed /\ Tick
  \/ clockSets < MaxClockSets /\ \E change \in ClockChanges : SetClock(change)
  \/ /\ windows < MaxWindows
     /\ elapsed + cancelWindowBroadcastDelay + 3 * Lag < MaxElapsed
     /\ OpenCancelWindow(windows % 2)
  \/ ServerStep
  \/ /\ Cardinality(cancels) < MaxCancels
     /\ \E id \in {NoID, pendingAction.ID} : SendCancel(id)
  \/ \E cancel \in cancels : PlayCancel(cancel)
  \/ StartGame

MCSpec == TimersInit /\ [][MCNext]_timerVars

\* Time passes, and the server takes the steps that are due.
MCFairSpec ==
  /\ MCSpec
  /\ WF_timerVars(elapsed < MaxElapsed /\ Tick)
  /\ WF_timerVars(ServerStep)

\* Every window is over some time, unless the clock is set while it is open.
WindowEnds == [](Open => <>(~Open \/ ~ClockKept))
============================================================================
