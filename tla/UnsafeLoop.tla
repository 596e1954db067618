----------------------------- MODULE UnsafeLoop -----------------------------
(***************************************************************************)
(* The loop of resolveUnsafeExplosivesFrom (internal/game/engine.go), one  *)
(* player at a time.  Module Engine says in one step what it comes to:     *)
(* ResolveUnsafeExplosivesFrom.  The lock is held until the loop returns,  *)
(* so that the variables of Engine, which are the game as others see it,   *)
(* change in the last step only; the values the loop has reached are in    *)
(* state.                                                                  *)
(***************************************************************************)
EXTENDS Engine

VARIABLES
  call,      \* the arguments, and what the caller has done by then
  at,        \* the place in playerIDs the loop has reached
  seen,      \* the players it has looked at
  state,     \* the fields of GameState it writes
  returned   \* it is over

loopVars == <<call, at, seen, state, returned>>

IdsOf(playerIDs) == {playerIDs[i] : i \in DOMAIN playerIDs}

\* The callers name first the player they want looked at first, and the
\* others in the order of their seats; naming one again is harmless.
InLookOrder(playerIDs, first) ==
  \A i, j \in DOMAIN playerIDs :
     i < j /\ playerIDs[i] # playerIDs[j] => LookedAtBefore(first, playerIDs[i], playerIDs[j])

Call ==
  {c \in [original : Player \cup {NoPlayer},
          playerIDs : Seq(Player),
          first : Player \cup {NoPlayer},
          hands : [Player -> SUBSET Card],
          discardPile : SUBSET Card,
          cleared : SUBSET Player] : InLookOrder(c.playerIDs, c.first)}

LoopInit ==
  /\ TypeOK
  /\ call \in Call
  /\ at = 1
  /\ seen = {}
  /\ state = [hands |-> call.hands,
              alive |-> alive,
              discardPile |-> call.discardPile,
              markedCards |-> ClearMarks(call.cleared, call.hands),
              unsafeExplosiveQueue |-> unsafeExplosiveQueue]
  /\ returned = FALSE

----------------------------------------------------------------------------
\* The player whose turn it is to be looked at.
Playing == call.playerIDs[at]

\* clearMarksForPlayerHand, on the marks and the hands the loop has reached.
MarksCleared(p, h) ==
  [c \in Card |-> IF state.markedCards[c] = p /\ c \notin h[p] THEN NoPlayer
                  ELSE state.markedCards[c]]

Looking ==
  /\ at \in DOMAIN call.playerIDs
  /\ at' = at + 1
  /\ seen' = seen \cup {Playing}
  /\ UNCHANGED <<call, returned, vars>>

\* Seen before, dead, or with nothing that endangers the player.
Skip ==
  /\ Looking
  /\ \/ Playing \in seen
     \/ Playing \notin state.alive
     \/ ~Unsafe(state.hands[Playing])
  /\ UNCHANGED state

Endangered ==
  /\ Looking
  /\ Playing \notin seen
  /\ Playing \in state.alive
  /\ Unsafe(state.hands[Playing])

Eliminate ==
  LET h == [state.hands EXCEPT ![Playing] = {}] IN
  /\ Endangered
  /\ ~Holds(state.hands[Playing], "SHIELD")
  /\ state' = [state EXCEPT !.hands = h,
                            !.alive = @ \ {Playing},
                            !.discardPile = @ \cup state.hands[Playing],
                            !.markedCards = MarksCleared(Playing, h)]

SaveByShield ==
  /\ Endangered
  /\ \E shield \in CardsByCode(state.hands[Playing], "SHIELD"),
        explosive \in CardsByCode(state.hands[Playing], "EXPLOSIVE") :
       LET h == [state.hands EXCEPT ![Playing] = @ \ {shield, explosive}] IN
       state' = [state EXCEPT
                   !.hands = h,
                   !.discardPile = @ \cup {shield},
                   !.markedCards = MarksCleared(Playing, h),
                   !.unsafeExplosiveQueue =
                      Append(@, [playerID |-> Playing, card |-> explosive])]

\* The first explosive of the queue is to be placed, or all is done.
Return ==
  /\ ~returned
  /\ at \notin DOMAIN call.playerIDs
  /\ hands' = state.hands
  /\ alive' = state.alive
  /\ discardPile' = state.discardPile
  /\ markedCards' = state.markedCards
  /\ IF state.unsafeExplosiveQueue # <<>>
       THEN StartNextUnsafeExplosivePlacement(state.unsafeExplosiveQueue, call.original)
       ELSE FinishUnsafeExplosiveResolution(call.original, state.alive)
  /\ returned' = TRUE
  /\ UNCHANGED <<drawPile, call, at, seen, state>>

LoopNext == Skip \/ Eliminate \/ SaveByShield \/ Return

LoopSpec == LoopInit /\ [][LoopNext]_<<vars, loopVars>>

----------------------------------------------------------------------------
\* Whoever looks at the game sees nothing, and then all at once what Engine
\* says in one step (resolveUnsafeExplosivesFrom).
ResolvesInOneStep ==
  [][ResolveUnsafeExplosivesFrom(call.original, IdsOf(call.playerIDs), call.first,
                                 call.hands, call.discardPile, call.cleared)]_vars

----------------------------------------------------------------------------
\* The players of S who are endangered, who place their explosive, who die.
UnsafeAmong(S) == {p \in S \cap alive : Unsafe(call.hands[p])}
PlacingAmong(S) == {p \in UnsafeAmong(S) : Holds(call.hands[p], "SHIELD")}
DyingAmong(S) == UnsafeAmong(S) \ PlacingAmong(S)

\* What joins the queue when the players of order place these explosives.
Placements(order, explosive) ==
  [i \in DOMAIN order |-> [playerID |-> order[i], card |-> explosive[order[i]]]]

\* Those seen have been dealt with as Engine says, and nobody else; shield and
\* explosive are the cards taken from them, order is that of the queue.
ResolvedWith(shield, explosive, order) ==
  /\ \A p \in PlacingAmong(seen) :
        /\ shield[p] \in CardsByCode(call.hands[p], "SHIELD")
        /\ explosive[p] \in CardsByCode(call.hands[p], "EXPLOSIVE")
  /\ state.hands =
       [p \in Player |->
          IF p \in DyingAmong(seen) THEN {}
          ELSE IF p \in PlacingAmong(seen) THEN call.hands[p] \ {shield[p], explosive[p]}
          ELSE call.hands[p]]
  /\ state.discardPile = call.discardPile \cup {shield[p] : p \in PlacingAmong(seen)}
                           \cup UNION {call.hands[p] : p \in DyingAmong(seen)}
  /\ state.markedCards = ClearMarks(call.cleared \cup UnsafeAmong(seen), state.hands)
  /\ state.alive = alive \ DyingAmong(seen)
  /\ state.unsafeExplosiveQueue =
       unsafeExplosiveQueue \o Placements(order, explosive)

Resolved ==
  \E shield, explosive \in [PlacingAmong(seen) -> Card],
     order \in LookOrders(PlacingAmong(seen), call.first) :
    ResolvedWith(shield, explosive, order)

LoopState ==
  [hands : [Player -> SUBSET Card],
   alive : SUBSET Player,
   discardPile : SUBSET Card,
   markedCards : [Card -> Player \cup {NoPlayer}],
   unsafeExplosiveQueue : Seq(UnsafePlacement)]

LoopInv ==
  /\ call \in Call
  /\ at \in 1..Len(call.playerIDs) + 1
  /\ seen = {call.playerIDs[i] : i \in 1..at - 1}
  /\ state \in LoopState
  /\ returned \in BOOLEAN
  /\ returned => at \notin DOMAIN call.playerIDs
  /\ ~returned => TypeOK /\ Resolved
============================================================================
