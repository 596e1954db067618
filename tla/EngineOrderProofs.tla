-------------------------- MODULE EngineOrderProofs --------------------------
(***************************************************************************)
(* Theorems about whose turn it is, who is left and what the game waits    *)
(* for, for every number of players and every deck; above all that the     *)
(* engine implements the turn order of module TurnOrder.  The last one is  *)
(* about the views: the engine takes only what they have offered.          *)
(***************************************************************************)
EXTENDS EngineCardsProofs, EngineTurnOrder

\* The invariant that carries the theorems of this module.
OrderInv ==
  /\ CardsInv
  /\ LastAliveWins
  /\ PendingMatchesPhase
  /\ phase # "GAME_OVER" => winner = NoPlayer

\* What a step does to the turn is a step of the turn order, and leaves the
\* game with a winner or with somebody at turn.
TurnGood ==
  /\ LastAliveWins'
  /\ phase' # "GAME_OVER" => winner' = NoPlayer
  /\ [Order!TurnNext]_(Order!turnVars)

----------------------------------------------------------------------------
(* The ring of players.                                                    *)

\* The player nextAlivePlayerID finds is the next one round the ring.
LEMMA NextAliveIsNext ==
  ASSUME NEW living \in SUBSET Player, NEW p \in Player, NEW q \in Player,
         IsNextAlive(p, q, living)
  PROVE  Order!IsNext(p, q, living)
<1>1. q \in living /\ \A r \in living : SeatsTo(p, q) <= SeatsTo(p, r)
  BY DEF IsNextAlive
<1>2. ASSUME q = p, NEW r \in living, r # p PROVE FALSE
  <2>1. SeatsTo(p, p) <= SeatsTo(p, r) /\ r \in 1..N /\ p \in 1..N /\ N \in Nat
    BY <1>1, <1>2, NAssumption DEF Player
  <2>2. QED BY <1>2, <2>1 DEF SeatsTo
<1>3. ASSUME q # p, NEW r \in living, r # p, r \in Order!Between(p, q) PROVE FALSE
  <2>1. /\ SeatsTo(p, q) <= SeatsTo(p, r)
        /\ r \in 1..N /\ p \in 1..N /\ q \in 1..N /\ N \in Nat
    BY <1>1, <1>3, NAssumption DEF Player
  <2>2. IF p < q THEN p < r /\ r < q ELSE p < r \/ r < q
    BY <1>3 DEF Order!Between
  <2>3. QED BY <1>3, <2>1, <2>2 DEF SeatsTo
<1>4. QED BY <1>1, <1>2, <1>3 DEF Order!IsNext

\* It is somebody else, if there is anybody else.
LEMMA NextAliveIsOther ==
  ASSUME NEW living \in SUBSET Player, NEW p \in Player, NEW q \in Player,
         IsNextAlive(p, q, living), NEW r \in living, r # p
  PROVE  q # p
<1>1. Order!IsNext(p, q, living)
  BY NextAliveIsNext
<1>2. QED BY <1>1 DEF Order!IsNext

----------------------------------------------------------------------------
(* What happens to the turn.                                               *)

\* What the invariant says about a game that is not over.
LEMMA GameGoesOn ==
  ASSUME OrderInv, phase # "GAME_OVER"
  PROVE  /\ TypeOK /\ alive \subseteq Player /\ turnDebt \in [Player -> Nat]
         /\ winner = NoPlayer
         /\ currentPlayerID \in alive
         /\ turnDebt[currentPlayerID] \in {1, 2}
         /\ \A p \in alive \ {currentPlayerID} : turnDebt[p] = 0
         /\ \E p, q \in alive : p # q
<1>1. TypeOK /\ TurnDebtDiscipline
  BY DEF OrderInv, CardsInv, HandsInv, DebtInv
<1>2. currentPlayerID \in alive
  BY DEF OrderInv, LastAliveWins
<1>3. turnDebt[currentPlayerID] \in 1..2
  BY <1>1, <1>2 DEF TurnDebtDiscipline, extraTurnDebt
<1>4. turnDebt[currentPlayerID] \in {1, 2}
  BY <1>3
<1>5. QED BY <1>1, <1>2, <1>4 DEF OrderInv, LastAliveWins, TypeOK, TurnDebtDiscipline

\* A living player at turn and two players left are all LastAliveWins asks of a
\* game that goes on.
LEMMA StillGoingOn ==
  ASSUME phase' # "GAME_OVER", currentPlayerID' \in alive',
         NEW p \in alive', NEW q \in alive', p # q
  PROVE  LastAliveWins'
BY DEF LastAliveWins

\* Nothing happens to the turn.
LEMMA StillTurn ==
  ASSUME OrderInv, phase # "GAME_OVER", phase' # "GAME_OVER",
         UNCHANGED <<alive, currentPlayerID, turnDebt, winner>>
  PROVE  TurnGood
<1>1. LastAliveWins' /\ winner' = NoPlayer
  BY GameGoesOn, StillGoingOn
<1>2. UNCHANGED Order!turnVars
  BY DEF Order!turnVars
<1>3. QED BY <1>1, <1>2 DEF TurnGood

\* The turn goes to the next player alive, who takes one.
LEMMA TurnPasses ==
  ASSUME OrderInv, phase # "GAME_OVER", NEW debt \in [Player -> Nat],
         \A p \in alive : debt[p] = 0,
         AdvanceToNextAlivePlayer(currentPlayerID, debt, alive),
         UNCHANGED <<alive, winner>>
  PROVE  TurnGood /\ phase' = "PLAYER_TURN" /\ Order!Pass
<1>1. /\ currentPlayerID \in alive /\ alive \subseteq Player /\ winner = NoPlayer
      /\ \E p, q \in alive : p # q
  BY GameGoesOn
<1>2. PICK q \in Player : IsNextAlive(currentPlayerID, q, alive) /\ AdvanceToPlayer(q, debt)
  BY <1>1 DEF AdvanceToNextAlivePlayer
<1>3. q \in alive /\ debt[q] = 0
  BY <1>2 DEF IsNextAlive
<1>4. currentPlayerID' = q /\ phase' = "PLAYER_TURN" /\ turnDebt'[q] = 1
  BY <1>2, <1>3 DEF AdvanceToPlayer
<1>5. LastAliveWins' /\ winner' = NoPlayer
  BY <1>1, <1>3, <1>4, StillGoingOn
<1>6. Order!IsNext(currentPlayerID, q, alive)
  BY <1>1, <1>2, NextAliveIsNext
<1>7. Order!Pass
  BY <1>4, <1>6 DEF Order!Pass, Order!Seat, Player
<1>8. Order!SkipAll
  BY <1>1, <1>7 DEF Order!SkipAll
<1>9. QED BY <1>4, <1>5, <1>7, <1>8 DEF TurnGood, Order!TurnNext

\* The current player has taken a turn.
LEMMA TurnEnds ==
  ASSUME OrderInv, phase # "GAME_OVER", CompleteCurrentTurnUnit,
         UNCHANGED <<alive, winner>>
  PROVE  TurnGood /\ phase' = "PLAYER_TURN"
<1> DEFINE cp == currentPlayerID
           left == IF turnDebt[cp] > 0 THEN turnDebt[cp] - 1 ELSE turnDebt[cp]
           debt == [turnDebt EXCEPT ![cp] = left]
<1>1. /\ cp \in Player /\ turnDebt \in [Player -> Nat] /\ turnDebt[cp] \in {1, 2}
      /\ \A p \in alive \ {cp} : turnDebt[p] = 0
      /\ winner = NoPlayer /\ alive \subseteq Player
  BY GameGoesOn
<1>2. left = turnDebt[cp] - 1 /\ left \in Nat
  BY <1>1
<1>3. debt \in [Player -> Nat] /\ debt[cp] = left
  BY <1>1, <1>2
<1>4. CASE left > 0
  <2>1. /\ turnDebt' = debt /\ phase' = "PLAYER_TURN" /\ currentPlayerID' = cp
    BY <1>4 DEF CompleteCurrentTurnUnit
  <2>2. LastAliveWins' /\ winner' = NoPlayer
    BY <2>1, GameGoesOn, StillGoingOn
  <2>3. turnDebt'[currentPlayerID'] = turnDebt[cp] - 1 /\ turnDebt[cp] > 1
    BY <1>1, <1>2, <1>3, <1>4, <2>1
  <2> HIDE DEF debt, left
  <2>4. Order!EndTurn
    BY <1>1, <2>1, <2>3 DEF Order!EndTurn
  <2>5. QED BY <2>1, <2>2, <2>4 DEF TurnGood, Order!TurnNext
<1>5. CASE ~(left > 0)
  <2>1. AdvanceToNextAlivePlayer(cp, debt, alive)
    BY <1>5 DEF CompleteCurrentTurnUnit
  <2>2. \A p \in alive \ {cp} : debt[p] = turnDebt[p]
    BY <1>1
  <2> HIDE DEF debt, left
  <2>3. \A p \in alive : debt[p] = 0
    BY <1>1, <1>2, <1>3, <1>5, <2>2
  <2>4. QED BY <1>3, <2>1, <2>3, TurnPasses
<1>6. QED BY <1>4, <1>5

\* Two turns go to another player.
LEMMA TurnsPutOn ==
  ASSUME OrderInv, phase # "GAME_OVER", NEW q \in alive \ {currentPlayerID},
         ResolveExtraTurns(currentPlayerID, q)
  PROVE  TurnGood /\ phase' = "PLAYER_TURN"
<1> DEFINE cp == currentPlayerID
           debt == [[turnDebt EXCEPT ![q] = @ + extraTurnDebt] EXCEPT ![cp] = 0]
<1>1. /\ cp \in Player /\ turnDebt \in [Player -> Nat] /\ q \in Player
      /\ turnDebt[q] = 0 /\ winner = NoPlayer
  BY GameGoesOn
<1>2. AdvanceToPlayer(q, debt) /\ UNCHANGED <<alive, winner>>
  BY DEF ResolveExtraTurns, OnlyTurnChanges
<1>3. debt[q] = 2
  BY <1>1 DEF extraTurnDebt
<1> HIDE DEF debt
<1>4. currentPlayerID' = q /\ phase' = "PLAYER_TURN" /\ turnDebt'[q] = 2
  BY <1>2, <1>3 DEF AdvanceToPlayer
<1>5. LastAliveWins' /\ winner' = NoPlayer
  BY <1>1, <1>2, <1>4, GameGoesOn, StillGoingOn
<1>6. Order!PutTurnsOn(q)
  BY <1>1, <1>2, <1>4 DEF Order!PutTurnsOn, extraTurnDebt
<1>7. Order!TurnNext
  BY <1>1, <1>6 DEF Order!TurnNext, Order!Seat, Player
<1>8. QED BY <1>4, <1>5, <1>7 DEF TurnGood

\* A player dies: the game ends, or the turn moves on if it was theirs, or
\* stays.
LEMMA TurnAfterDeath ==
  ASSUME OrderInv, phase # "GAME_OVER", NEW p \in alive, alive' = alive \ {p},
         \/ /\ AdvanceOrEndGame(currentPlayerID, alive')
            /\ IsGameOver(alive') \/ p = currentPlayerID
         \/ /\ ~IsGameOver(alive') /\ p # currentPlayerID
            /\ phase' = "PLAYER_TURN"
            /\ UNCHANGED <<currentPlayerID, turnDebt, winner>>
  PROVE  TurnGood /\ phase' \in {"PLAYER_TURN", "GAME_OVER"}
<1>1. /\ currentPlayerID \in alive /\ alive \subseteq Player /\ winner = NoPlayer
      /\ \E q, r \in alive : q # r
      /\ \A q \in alive \ {currentPlayerID} : turnDebt[q] = 0
      /\ turnDebt \in [Player -> Nat]
  BY GameGoesOn
<1>2. alive' # {} /\ alive' \subseteq Player /\ p \in Order!Seat
  BY <1>1 DEF Order!Seat, Player
<1>3. CASE IsGameOver(alive')
  <2>1. PICK w \in Player : alive' = {w} /\ SetWinner(w)
    BY <1>3 DEF AdvanceOrEndGame
  <2>2. winner' = w /\ currentPlayerID' = NoPlayer /\ phase' = "GAME_OVER"
    BY <2>1 DEF SetWinner
  <2>3. LastAliveWins'
    BY <2>1, <2>2 DEF LastAliveWins
  <2>4. Order!Die(p)
    BY <1>1, <2>1, <2>2 DEF Order!Die, Order!Seat, Player
  <2>5. QED BY <1>2, <2>2, <2>3, <2>4 DEF TurnGood, Order!TurnNext
<1>4. CASE ~IsGameOver(alive')
  <2>1. \E q, r \in alive' : q # r
    BY <1>2, <1>4 DEF IsGameOver
  <2>2. ~\E w \in Order!Seat : alive' = {w}
    BY <1>4 DEF IsGameOver, Order!Seat, Player
  <2>3. CASE p = currentPlayerID
    <3>1. AdvanceToNextAlivePlayer(p, turnDebt, alive') /\ UNCHANGED winner
      BY <1>4, <2>3 DEF AdvanceOrEndGame, IsGameOver
    <3>2. PICK q \in Player : IsNextAlive(p, q, alive') /\ AdvanceToPlayer(q, turnDebt)
      BY <1>2, <3>1 DEF AdvanceToNextAlivePlayer
    <3>3. q \in alive' /\ turnDebt[q] = 0
      BY <1>1, <2>3, <3>2 DEF IsNextAlive
    <3>4. currentPlayerID' = q /\ phase' = "PLAYER_TURN" /\ turnDebt'[q] = 1
      BY <1>1, <3>2, <3>3 DEF AdvanceToPlayer
    <3>5. LastAliveWins'
      BY <2>1, <3>3, <3>4, StillGoingOn
    <3>6. Order!IsNext(p, q, alive')
      BY <1>1, <1>2, <3>2, NextAliveIsNext
    <3>7. Order!Die(p)
      BY <1>1, <2>2, <2>3, <3>1, <3>4, <3>6 DEF Order!Die, Order!Seat, Player
    <3>8. QED BY <1>1, <1>2, <3>1, <3>4, <3>5, <3>7 DEF TurnGood, Order!TurnNext
  <2>4. CASE p # currentPlayerID
    <3>1. phase' = "PLAYER_TURN" /\ UNCHANGED <<currentPlayerID, turnDebt, winner>>
      BY <1>4, <2>4
    <3>2. LastAliveWins'
      BY <1>1, <2>1, <2>4, <3>1, StillGoingOn
    <3>3. Order!Die(p)
      BY <1>1, <2>2, <2>4, <3>1 DEF Order!Die
    <3>4. QED BY <1>1, <1>2, <3>1, <3>2, <3>3 DEF TurnGood, Order!TurnNext
  <2>5. QED BY <2>3, <2>4
<1>5. QED BY <1>3, <1>4

----------------------------------------------------------------------------
(* What the game waits for.                                                *)

\* Nothing, and the game goes on or is over.
LEMMA NothingPending ==
  ASSUME phase' \in {"PLAYER_TURN", "GAME_OVER"}, pendingAction' = NoPendingAction
  PROVE  PendingMatchesPhase'
BY DEF PendingMatchesPhase, NoPendingAction, Pending, IsCancelable, Targeted

\* No pending action has the type of none.
LEMMA NoneIsNoAction == NoPendingAction.type = "NONE"
BY DEF NoPendingAction, Pending

\* The phases that wait for an answer, each with the pending action it is for.
Waiting(ph, type) ==
  \/ ph = "WAITING_REQUEST_CARD_CHOICE" /\ type = "REQUEST_CARD_CHOICE"
  \/ ph = "WAITING_MARKED_CARD_CHOICE" /\ type = "MARKED_CARD_CHOICE"
  \/ ph = "WAITING_DECK_REORDER" /\ type = "DECK_REORDER"
  \/ ph = "WAITING_RECYCLE_CHOICES" /\ type = "RECYCLE_CHOICES"
  \/ ph = "WAITING_DISCARD_RECOVERY" /\ type = "DISCARD_RECOVERY"
  \/ ph = "WAITING_EXPLOSIVE_PLACEMENT" /\ type = "EXPLOSIVE_PLACEMENT"

\* Who and what a pending action is about.
PendingAbout(pending, living, cp) ==
  /\ pending.sourcePlayerID \in living
  /\ cp = IF pending.reactiveExplosive
            THEN pending.originalCurrentPlayerID ELSE pending.sourcePlayerID
  /\ Targeted(pending) =>
       pending.targetPlayerID \in living \ {pending.sourcePlayerID}

\* An answer.
LEMMA AnswerPending ==
  ASSUME Waiting(phase', pendingAction'.type),
         PendingAbout(pendingAction', alive', currentPlayerID')
  PROVE  PendingMatchesPhase'
<1>1. pendingAction' # NoPendingAction
  BY NoneIsNoAction DEF Waiting
<1>2. ~IsCancelable(pendingAction')
  BY DEF Waiting, IsCancelable
<1>3. QED BY <1>1, <1>2 DEF PendingMatchesPhase, PendingAbout, Waiting, Targeted

\* A cancel, or the end of the window.
LEMMA WindowPending ==
  ASSUME phase' = "CANCEL_WINDOW", IsCancelable(pendingAction'),
         PendingAbout(pendingAction', alive', currentPlayerID')
  PROVE  PendingMatchesPhase'
<1>1. pendingAction' # NoPendingAction
  BY NoneIsNoAction DEF IsCancelable
<1>2. QED BY <1>1 DEF PendingMatchesPhase, PendingAbout, IsCancelable, Targeted

\* What the invariant says about something that is pending.
LEMMA SomethingPending ==
  ASSUME OrderInv, phase \notin {"PLAYER_TURN", "GAME_OVER"}
  PROVE  PendingAbout(pendingAction, alive, currentPlayerID)
<1>1. PendingMatchesPhase /\ TypeOK
  BY DEF OrderInv, CardsInv, HandsInv
<1>2. pendingAction.type # "NONE"
  <2>1. pendingAction # NoPendingAction
    BY <1>1 DEF PendingMatchesPhase
  <2>2. pendingAction \in PendingAction
    BY <1>1, <2>1 DEF TypeOK
  <2>3. QED BY <2>2 DEF PendingAction, PendingActionType
<1>3. QED BY <1>1, <1>2 DEF PendingMatchesPhase, PendingAbout

----------------------------------------------------------------------------
(* The steps.                                                              *)

\* What every step has to keep.
OrderStep == TurnGood /\ PendingMatchesPhase'

\* The explosives shaken loose interrupt the turn, or kill somebody, or
\* neither.
LEMMA ResolveUnsafeExplosivesOrder ==
  ASSUME OrderInv, phase # "GAME_OVER", OneDeathAtMost,
         NEW ids, NEW first, NEW h, NEW discard, NEW cleared,
         ResolveUnsafeExplosivesFrom(currentPlayerID, ids, first, h, discard, cleared)
  PROVE  OrderStep
<1> DEFINE unsafe == {p \in ids \cap alive : Unsafe(h[p])}
           placing == {p \in unsafe : Holds(h[p], "SHIELD")}
           dying == unsafe \ placing
           queueOf(order, explosive) ==
             unsafeExplosiveQueue \o
               [i \in DOMAIN order |->
                  [playerID |-> order[i], card |-> explosive[order[i]]]]
<1>1. PICK explosive \in [placing -> Card], order \in LookOrders(placing, first) :
        /\ alive' = alive \ dying
        /\ IF queueOf(order, explosive) # <<>>
             THEN StartNextUnsafeExplosivePlacement(queueOf(order, explosive),
                                                    currentPlayerID)
             ELSE FinishUnsafeExplosiveResolution(currentPlayerID, alive \ dying)
  BY DEF ResolveUnsafeExplosivesFrom
<1>2. unsafeExplosiveQueue = <<>>
  BY DEF OrderInv, CardsInv, CardsApart
<1>3. currentPlayerID \in alive
  BY GameGoesOn
<1>4. CASE queueOf(order, explosive) # <<>>
  <2>1. order[1] \in placing /\ queueOf(order, explosive)[1].playerID = order[1]
    <3>1. PICK n \in 0..N : order \in [1..n -> placing]
      BY DEF LookOrders
    <3>2. n \in Nat /\ DOMAIN order = 1..n
      BY <3>1, NAssumption
    <3> DEFINE rest == [i \in 1..n |->
                          [playerID |-> order[i], card |-> explosive[order[i]]]]
    <3>3. queueOf(order, explosive) = rest
      BY <1>2, <3>2
    <3>4. n # 0
      BY <1>4, <3>3
    <3>5. 1 \in 1..n
      BY <3>2, <3>4
    <3>6. rest[1].playerID = order[1]
      BY <3>5
    <3>7. QED BY <3>1, <3>3, <3>5, <3>6
  <2>2. /\ phase' = "WAITING_EXPLOSIVE_PLACEMENT"
        /\ pendingAction'.type = "EXPLOSIVE_PLACEMENT"
        /\ pendingAction'.sourcePlayerID = order[1]
        /\ pendingAction'.targetPlayerID = NoPlayer
        /\ pendingAction'.reactiveExplosive
        /\ pendingAction'.originalCurrentPlayerID = currentPlayerID
        /\ UNCHANGED <<currentPlayerID, turnDebt, winner>>
    BY <1>1, <1>4, <2>1 DEF StartNextUnsafeExplosivePlacement, Pending
  <2>3. alive' = alive
    BY <2>2 DEF OneDeathAtMost
  <2>4. PendingAbout(pendingAction', alive', currentPlayerID')
    BY <2>1, <2>2, <2>3 DEF PendingAbout, Targeted
  <2>5. PendingMatchesPhase'
    BY <2>2, <2>4, AnswerPending DEF Waiting
  <2>6. QED BY <2>2, <2>3, <2>5, StillTurn DEF OrderStep
<1>5. CASE queueOf(order, explosive) = <<>>
  <2>1. FinishUnsafeExplosiveResolution(currentPlayerID, alive')
    BY <1>1, <1>5
  <2>2. alive' \subseteq alive
    BY <1>1
  <2> HIDE DEF queueOf, dying
  <2>3. pendingAction' = NoPendingAction
    BY <2>1 DEF FinishUnsafeExplosiveResolution
  <2>4. TurnGood /\ phase' \in {"PLAYER_TURN", "GAME_OVER"}
    <3>1. CASE alive' = alive
      <4>1. ~IsGameOver(alive')
        BY <3>1, GameGoesOn DEF IsGameOver
      <4>2. phase' = "PLAYER_TURN" /\ UNCHANGED <<currentPlayerID, turnDebt, winner>>
        BY <1>3, <2>1, <3>1, <4>1 DEF FinishUnsafeExplosiveResolution
      <4>3. QED BY <3>1, <4>2, StillTurn
    <3>2. CASE alive' # alive
      <4>1. PICK p \in alive : p \notin alive'
        BY <2>2, <3>2
      <4>2. alive' = alive \ {p}
        BY <2>2, <4>1 DEF OneDeathAtMost
      <4>3. CASE currentPlayerID \in alive' /\ ~IsGameOver(alive')
        <5>1. phase' = "PLAYER_TURN" /\ UNCHANGED <<currentPlayerID, turnDebt, winner>>
          BY <2>1, <4>3 DEF FinishUnsafeExplosiveResolution
        <5>2. p # currentPlayerID
          BY <4>1, <4>3
        <5>3. QED BY <4>2, <4>3, <5>1, <5>2, TurnAfterDeath
      <4>4. CASE ~(currentPlayerID \in alive' /\ ~IsGameOver(alive'))
        <5>1. AdvanceOrEndGame(currentPlayerID, alive')
          BY <2>1, <4>4 DEF FinishUnsafeExplosiveResolution
        <5>2. IsGameOver(alive') \/ p = currentPlayerID
          BY <1>3, <4>2, <4>4
        <5>3. QED BY <4>2, <5>1, <5>2, TurnAfterDeath
      <4>5. QED BY <4>3, <4>4
    <3>3. QED BY <3>1, <3>2
  <2>5. QED BY <2>3, <2>4, NothingPending DEF OrderStep
<1>6. QED BY <1>4, <1>5

\* A drawn card ends a turn, waits for its placement or kills who has drawn it.
LEMMA ResolveDrawnCardOrder ==
  ASSUME OrderInv, phase # "GAME_OVER", NEW drawn, NEW rest,
         ResolveDrawnCard(currentPlayerID, drawn, rest, NoPendingAction)
  PROVE  OrderStep
<1>1. currentPlayerID \in alive
  BY GameGoesOn
<1>2. CASE KeepDrawnCard(currentPlayerID, drawn, NoPendingAction)
  <2>1. /\ CompleteCurrentTurnUnit /\ pendingAction' = NoPendingAction
        /\ UNCHANGED <<alive, winner>>
    BY <1>2 DEF KeepDrawnCard
  <2>2. QED BY <2>1, TurnEnds, NothingPending DEF OrderStep
<1>3. CASE ShieldFromDrawnExplosive(currentPlayerID, drawn)
  <2>1. /\ phase' = "WAITING_EXPLOSIVE_PLACEMENT"
        /\ pendingAction' = Pending("EXPLOSIVE_PLACEMENT", currentPlayerID,
                                    NoPlayer, <<drawn>>)
        /\ UNCHANGED <<alive, currentPlayerID, turnDebt, winner>>
    BY <1>3 DEF ShieldFromDrawnExplosive
  <2>2. /\ Waiting(phase', pendingAction'.type)
        /\ PendingAbout(pendingAction', alive', currentPlayerID')
    BY <1>1, <2>1 DEF Waiting, PendingAbout, Pending, Targeted
  <2>3. QED BY <2>1, <2>2, StillTurn, AnswerPending DEF OrderStep
<1>4. CASE EliminatedByDrawnExplosive(currentPlayerID, drawn, NoPendingAction)
  <2>1. /\ alive' = alive \ {currentPlayerID} /\ pendingAction' = NoPendingAction
        /\ AdvanceOrEndGame(currentPlayerID, alive')
    BY <1>4 DEF EliminatedByDrawnExplosive
  <2>2. QED BY <1>1, <2>1, TurnAfterDeath, NothingPending DEF OrderStep
<1>5. QED BY <1>2, <1>3, <1>4 DEF ResolveDrawnCard

\* Nothing happens to the turn, and the game waits for an answer to the current
\* player's card.
LEMMA WaitForOrder ==
  ASSUME OrderInv, phase # "GAME_OVER", NEW waiting, NEW pending,
         WaitFor(waiting, pending), Waiting(waiting, pending.type),
         PendingAbout(pending, alive, currentPlayerID)
  PROVE  OrderStep
<1>1. /\ phase' = waiting /\ pendingAction' = pending
      /\ UNCHANGED <<alive, currentPlayerID, turnDebt, winner>>
  BY DEF WaitFor
<1>2. phase' # "GAME_OVER"
  BY <1>1 DEF Waiting
<1>3. TurnGood
  BY <1>1, <1>2, StillTurn
<1>4. PendingMatchesPhase'
  BY <1>1, AnswerPending
<1>5. QED BY <1>3, <1>4 DEF OrderStep

\* The turn goes on, and nothing is pending any more.
LEMMA TurnGoesOn ==
  ASSUME OrderInv, phase # "GAME_OVER", phase' = "PLAYER_TURN",
         pendingAction' = NoPendingAction,
         UNCHANGED <<alive, currentPlayerID, turnDebt, winner>>
  PROVE  OrderStep
BY StillTurn, NothingPending DEF OrderStep

\* Rearranging the pile does not touch the turn.
LEMMA ReorderDrawPileOrder ==
  ASSUME OrderInv, phase # "GAME_OVER", NEW pile, ReorderDrawPile(pile)
  PROVE  OrderStep
BY TurnGoesOn DEF ReorderDrawPile

\* Every action card does one of these things to the turn.
LEMMA ResolvePlayedCardOrder ==
  ASSUME OrderInv, phase = "CANCEL_WINDOW", NEW code, NEW target,
         RequiresTarget(code) => target \in alive \ {currentPlayerID},
         ResolvePlayedCard(code, currentPlayerID, target)
  PROVE  OrderStep
<1> DEFINE source == currentPlayerID
<1>1. /\ source \in alive /\ source \in Player /\ turnDebt \in [Player -> Nat]
      /\ alive \subseteq Player
      /\ \A p \in alive \ {source} : turnDebt[p] = 0
      /\ \E p \in alive : p # source
  BY GameGoesOn
<1>2. CASE ResolveSkipTurn
  BY <1>2, TurnEnds, NothingPending DEF ResolveSkipTurn, OnlyTurnChanges, OrderStep
<1>3. CASE ResolveSkipAllTurns(source)
  <2> DEFINE debt == [turnDebt EXCEPT ![source] = 0]
  <2>1. debt \in [Player -> Nat] /\ \A p \in alive : debt[p] = 0
    BY <1>1
  <2>2. /\ AdvanceToNextAlivePlayer(source, debt, alive)
        /\ pendingAction' = NoPendingAction
        /\ UNCHANGED <<alive, winner>>
    BY <1>3 DEF ResolveSkipAllTurns, OnlyTurnChanges
  <2> HIDE DEF debt
  <2>3. QED BY <2>1, <2>2, TurnPasses, NothingPending DEF OrderStep
<1>4. ASSUME NEW q \in alive \ {source}, ResolveExtraTurns(source, q)
      PROVE  OrderStep
  <2>1. pendingAction' = NoPendingAction
    BY <1>4 DEF ResolveExtraTurns, OnlyTurnChanges
  <2>2. QED BY <1>4, <2>1, TurnsPutOn, NothingPending DEF OrderStep
<1>5. CASE \E q \in Player : IsNextAlive(source, q, alive) /\ ResolveExtraTurns(source, q)
  <2>1. PICK q \in Player : IsNextAlive(source, q, alive) /\ ResolveExtraTurns(source, q)
    BY <1>5
  <2>2. q \in alive \ {source}
    BY <1>1, <2>1, NextAliveIsOther DEF IsNextAlive
  <2>3. QED BY <1>4, <2>1, <2>2
<1>6. CASE code = "TARGET_EXTRA_TURNS" /\ ResolveExtraTurns(source, target)
  BY <1>4, <1>6 DEF RequiresTarget
<1>7. ASSUME NEW waiting, NEW type, NEW q, NEW cards,
             WaitFor(waiting, Pending(type, source, q, cards)), Waiting(waiting, type),
             type \in {"REQUEST_CARD_CHOICE", "MARKED_CARD_CHOICE"} => q \in alive \ {source}
      PROVE  OrderStep
  <2> DEFINE pending == Pending(type, source, q, cards)
  <2>1. /\ pending.type = type /\ pending.sourcePlayerID = source
        /\ pending.targetPlayerID = q /\ ~pending.reactiveExplosive
    BY DEF Pending
  <2>2. WaitFor(waiting, pending)
    BY <1>7
  <2> HIDE DEF pending
  <2>3. PendingAbout(pending, alive, source)
    BY <1>1, <1>7, <2>1 DEF PendingAbout, Targeted, Waiting
  <2>4. QED BY <1>7, <2>1, <2>2, <2>3, WaitForOrder
<1>8. CASE ResolveDrawFromBottom(source)
  BY <1>8, ResolveDrawnCardOrder, ReorderDrawPileOrder
     DEF ResolveDrawFromBottom, NothingMoves
<1>9. ASSUME NEW limit, ResolveReorderTop(source, limit) PROVE OrderStep
  <2>1. CASE ReorderDrawPile(drawPile)
    BY <2>1, ReorderDrawPileOrder
  <2>2. CASE WaitFor("WAITING_DECK_REORDER",
                     Pending("DECK_REORDER", source, NoPlayer, TopCards(drawPile, limit)))
    BY <1>7, <2>2 DEF Waiting
  <2>3. QED BY <1>9, <2>1, <2>2 DEF ResolveReorderTop, NothingMoves
<1>10. CASE ResolveCollectiveRecycle(source)
  <2> DEFINE pending == [Pending("RECYCLE_CHOICES", source, NoPlayer, <<>>)
                           EXCEPT !.recyclePlayerIDs = {p \in alive : hands[p] # {}}]
  <2>1. /\ pending.type = "RECYCLE_CHOICES" /\ pending.sourcePlayerID = source
        /\ pending.targetPlayerID = NoPlayer /\ ~pending.reactiveExplosive
    BY DEF Pending
  <2>2. CASE ResolveShuffleDeck
    BY <2>2, ReorderDrawPileOrder DEF ResolveShuffleDeck
  <2>3. CASE WaitFor("WAITING_RECYCLE_CHOICES", pending)
    <3> HIDE DEF pending
    <3>1. PendingAbout(pending, alive, source)
      BY <1>1, <2>1 DEF PendingAbout, Targeted
    <3>2. QED BY <2>1, <2>3, <3>1, WaitForOrder DEF Waiting
  <2>4. QED BY <1>10, <2>2, <2>3 DEF ResolveCollectiveRecycle
<1>11. CASE ResolveShuffleDeck \/ ResolvePeekDeck \/ ResolveSwapTopBottom
  BY <1>11, ReorderDrawPileOrder
     DEF ResolveShuffleDeck, ResolvePeekDeck, NothingMoves, ResolveSwapTopBottom
<1>12. CASE code = "REQUEST_CARD" /\ ResolveRequestCard(source, target)
  BY <1>7, <1>12 DEF ResolveRequestCard, Waiting, RequiresTarget
<1>13. CASE code = "REVEAL_HELD_CARD" /\ ResolveRevealHeldCard(source, target)
  BY <1>7, <1>13 DEF ResolveRevealHeldCard, Waiting, RequiresTarget
<1>14. QED BY <1>2, <1>3, <1>5, <1>6, <1>8, <1>9, <1>10, <1>11, <1>12, <1>13
           DEF ResolvePlayedCard

\* So does the end of the cancel window.
LEMMA ExpireCancelWindowOrder ==
  ASSUME OrderInv, OneDeathAtMost, ExpireCancelWindow
  PROVE  OrderStep
<1> DEFINE target == pendingAction.targetPlayerID
<1>1. phase = "CANCEL_WINDOW" /\ IsCancelable(pendingAction)
  BY DEF ExpireCancelWindow
<1>2. /\ pendingAction.sourcePlayerID = currentPlayerID
      /\ Targeted(pendingAction) => target \in alive \ {currentPlayerID}
  <2>1. PendingAbout(pendingAction, alive, currentPlayerID)
    BY <1>1, SomethingPending
  <2>2. ~pendingAction.reactiveExplosive
    BY <1>1 DEF OrderInv, CardsInv, DebtInv, IsCancelable
  <2>3. QED BY <2>1, <2>2 DEF PendingAbout
<1>3. CASE NothingMoves
  BY <1>1, <1>3, ReorderDrawPileOrder DEF NothingMoves
<1>4. CASE /\ pendingAction.type = "PLAY_CARD"
           /\ ResolvePlayedCard(Code[pendingAction.cards[1]], currentPlayerID, target)
  <2>1. RequiresTarget(Code[pendingAction.cards[1]]) => target \in alive \ {currentPlayerID}
    BY <1>2, <1>4 DEF Targeted
  <2>2. QED BY <1>1, <1>2, <1>4, <2>1, ResolvePlayedCardOrder
<1>5. CASE ResolveCombo(pendingAction.comboKind, currentPlayerID, target,
                        pendingAction.requestedCode)
  <2>1. ASSUME NEW card, TransferCard(card, target, currentPlayerID) PROVE OrderStep
    BY <1>1, <2>1, ResolveUnsafeExplosivesOrder DEF TransferCard
  <2>2. CASE ResolveFiveDifferent(currentPlayerID)
    <3> DEFINE pending == [Pending("DISCARD_RECOVERY", currentPlayerID, NoPlayer, <<>>)
                             EXCEPT !.comboKind = "FIVE_DIFFERENT"]
    <3>1. /\ pending.type = "DISCARD_RECOVERY"
          /\ pending.sourcePlayerID = currentPlayerID
          /\ pending.targetPlayerID = NoPlayer /\ ~pending.reactiveExplosive
      BY DEF Pending
    <3>2. WaitFor("WAITING_DISCARD_RECOVERY", pending)
      BY <2>2 DEF ResolveFiveDifferent
    <3> HIDE DEF pending
    <3>3. currentPlayerID \in alive
      BY <1>1, GameGoesOn
    <3>4. PendingAbout(pending, alive, currentPlayerID)
      BY <3>1, <3>3 DEF PendingAbout, Targeted
    <3>5. QED BY <1>1, <3>1, <3>2, <3>4, WaitForOrder DEF Waiting
  <2>3. QED BY <1>3, <1>5, <2>1, <2>2 DEF ResolveCombo, ResolvePair, ResolveTriple
<1>6. QED BY <1>2, <1>3, <1>4, <1>5 DEF ExpireCancelWindow, ResolveCancelWindow

\* Playing a card or a combination leaves the turn as it is.
LEMMA OpenCancelWindowOrder ==
  ASSUME OrderInv, NEW p, InTurn(p), NEW played, NEW pending,
         OpenCancelWindow(p, played, pending), IsCancelable(pending),
         ~pending.reactiveExplosive, pending.sourcePlayerID = p,
         Targeted(pending) => pending.targetPlayerID \in alive \ {p}
  PROVE  OrderStep
<1>1. /\ phase' = "CANCEL_WINDOW" /\ pendingAction' = pending
      /\ UNCHANGED <<alive, currentPlayerID, turnDebt, winner>>
  BY DEF OpenCancelWindow, InTurn
<1>2. PendingAbout(pendingAction', alive', currentPlayerID')
  BY <1>1 DEF PendingAbout, InTurn, Targeted
<1>3. TurnGood
  BY <1>1, StillTurn DEF InTurn, OpenCancelWindow
<1>4. QED BY <1>1, <1>2, <1>3, WindowPending DEF OrderStep

\* So do the commands of a player's turn, but for the draw.
LEMMA TurnCommandsOrder ==
  ASSUME OrderInv, NEW p \in Player
  PROVE  /\ DrawCard(p) => OrderStep
         /\ \A card, target : PlayCard(p, card, target) => OrderStep
         /\ \A cards, target, code : PlayCombo(p, cards, target, code) => OrderStep
<1>1. ASSUME DrawCard(p) PROVE OrderStep
  <2>1. phase = "PLAYER_TURN" /\ p = currentPlayerID /\ pendingAction = NoPendingAction
    BY <1>1 DEF DrawCard, InTurn, OrderInv, PendingMatchesPhase
  <2>2. ResolveDrawnCard(currentPlayerID, Head(drawPile), Tail(drawPile), NoPendingAction)
    BY <1>1, <2>1 DEF DrawCard
  <2>3. QED BY <2>1, <2>2, ResolveDrawnCardOrder
<1>2. ASSUME NEW card, NEW target, PlayCard(p, card, target) PROVE OrderStep
  <2> DEFINE pending == Pending("PLAY_CARD", p, target, <<card>>)
  <2>1. /\ ~pending.reactiveExplosive /\ pending.sourcePlayerID = p
        /\ pending.targetPlayerID = target /\ pending.cards = <<card>>
        /\ pending.type = "PLAY_CARD"
    BY DEF Pending
  <2>2. Targeted(pending) => target \in alive \ {p}
    BY <1>2, <2>1 DEF PlayCard, TargetOfCard, ValidTarget, Targeted, RequiresTarget,
                      PlayableAlone, SupportedBasicActions
  <2>3. OpenCancelWindow(p, {card}, pending) /\ InTurn(p)
    BY <1>2 DEF PlayCard
  <2> HIDE DEF pending
  <2>4. IsCancelable(pending)
    BY <1>2, <2>1 DEF PlayCard, PlayableAlone, IsCancelable
  <2>5. QED BY <2>1, <2>2, <2>3, <2>4, OpenCancelWindowOrder
<1>3. ASSUME NEW cards, NEW target, NEW code, PlayCombo(p, cards, target, code)
      PROVE  OrderStep
  <2> DEFINE kind == ComboKindOf(hands[p], cards, code)
             pending == [Pending("CARD_COMBO", p, target, <<>>)
                           EXCEPT !.comboKind = kind, !.requestedCode = code]
  <2>1. /\ ~pending.reactiveExplosive /\ pending.sourcePlayerID = p
        /\ pending.targetPlayerID = target /\ pending.comboKind = kind
        /\ pending.type = "CARD_COMBO"
    BY DEF Pending
  <2>2. OpenCancelWindow(p, cards, pending) /\ InTurn(p) /\ kind # ""
    BY <1>3 DEF PlayCombo
  <2>3. kind \in {"PAIR", "TRIPLE", "FIVE_DIFFERENT"}
    BY <2>2 DEF ComboKindOf
  <2> HIDE DEF pending
  <2>4. Targeted(pending) => target \in alive \ {p}
    BY <1>3, <2>1 DEF PlayCombo, TargetOfCombo, ValidTarget, Targeted
  <2>5. IsCancelable(pending)
    BY <2>1, <2>3 DEF IsCancelable
  <2>6. QED BY <2>1, <2>2, <2>4, <2>5, OpenCancelWindowOrder
<1>4. QED BY <1>1, <1>2, <1>3

\* So does a cancel.
LEMMA PlayCancelOrder ==
  ASSUME OrderInv, NEW p, NEW card, PlayCancel(p, card)
  PROVE  OrderStep
<1>1. /\ phase = "CANCEL_WINDOW" /\ IsCancelable(pendingAction)
      /\ pendingAction' = [pendingAction EXCEPT !.cancelCount = @ + 1]
      /\ UNCHANGED <<phase, alive, currentPlayerID, turnDebt, winner>>
  BY DEF PlayCancel
<1>2. pendingAction \in PendingAction
  BY <1>1, PendingActionTyped DEF IsCancelable, OrderInv, CardsInv, HandsInv
<1>3. /\ pendingAction'.type = pendingAction.type
      /\ pendingAction'.comboKind = pendingAction.comboKind
      /\ pendingAction'.cards = pendingAction.cards
      /\ pendingAction'.sourcePlayerID = pendingAction.sourcePlayerID
      /\ pendingAction'.targetPlayerID = pendingAction.targetPlayerID
      /\ pendingAction'.reactiveExplosive = pendingAction.reactiveExplosive
      /\ pendingAction'.originalCurrentPlayerID = pendingAction.originalCurrentPlayerID
  BY <1>1, <1>2 DEF PendingAction
<1>4. IsCancelable(pendingAction')
  BY <1>1, <1>3 DEF IsCancelable
<1>5. PendingAbout(pendingAction', alive', currentPlayerID')
  BY <1>1, <1>3, SomethingPending DEF PendingAbout, Targeted
<1>6. PendingMatchesPhase' /\ TurnGood
  BY <1>1, <1>4, <1>5, WindowPending, StillTurn
<1>7. QED BY <1>6 DEF OrderStep

\* The placement of an explosive ends the turn it was drawn in, and does
\* nothing to a turn it has interrupted.
LEMMA PlaceExplosiveOrder ==
  ASSUME OrderInv, OneDeathAtMost, NEW p, NEW index, PlaceExplosive(p, index)
  PROVE  OrderStep
<1>1. phase = "WAITING_EXPLOSIVE_PLACEMENT"
  BY DEF PlaceExplosive
<1>2. CASE pendingAction.reactiveExplosive
  <2>1. pendingAction.originalCurrentPlayerID = currentPlayerID
    BY <1>1, <1>2, SomethingPending DEF PendingAbout
  <2>2. ResolveUnsafeExplosivesFrom(currentPlayerID, {p}, p, hands, discardPile, {})
    BY <1>2, <2>1 DEF PlaceExplosive
  <2>3. QED BY <1>1, <2>2, ResolveUnsafeExplosivesOrder
<1>3. CASE ~pendingAction.reactiveExplosive
  <2>1. /\ pendingAction' = NoPendingAction /\ CompleteCurrentTurnUnit
        /\ UNCHANGED <<alive, winner>>
    BY <1>3 DEF PlaceExplosive
  <2>2. QED BY <1>1, <2>1, TurnEnds, NothingPending DEF OrderStep
<1>4. QED BY <1>2, <1>3

\* The other answers leave the turn as it is, unless they kill somebody.
LEMMA AnswersOrder ==
  ASSUME OrderInv, OneDeathAtMost, NEW p
  PROVE  /\ \A top : SubmitReorderedTopCards(p, top) => OrderStep
         /\ \A card :
              \/ ChooseCardForRequest(p, card)
              \/ ChooseMarkedCard(p, card)
              \/ ChooseCardForRecycle(p, card)
              \/ ChooseCardFromDiscard(p, card)
              => OrderStep
<1>1. ASSUME NEW top, SubmitReorderedTopCards(p, top) PROVE OrderStep
  <2>1. phase # "GAME_OVER"
    BY <1>1 DEF SubmitReorderedTopCards
  <2>2. \E pile : ReorderDrawPile(pile)
    BY <1>1 DEF SubmitReorderedTopCards
  <2>3. QED BY <2>1, <2>2, ReorderDrawPileOrder
<1>2. ASSUME NEW card, ChooseCardForRequest(p, card) PROVE OrderStep
  BY <1>2, ResolveUnsafeExplosivesOrder DEF ChooseCardForRequest, TransferCard
<1>3. ASSUME NEW card, ChooseMarkedCard(p, card) PROVE OrderStep
  BY <1>3, TurnGoesOn DEF ChooseMarkedCard
<1>4. ASSUME NEW card, ChooseCardFromDiscard(p, card) PROVE OrderStep
  BY <1>4, ResolveUnsafeExplosivesOrder DEF ChooseCardFromDiscard
<1>5. ASSUME NEW card, ChooseCardForRecycle(p, card) PROVE OrderStep
  <2> DEFINE selections == [pendingAction.recycleSelections EXCEPT ![p] = card]
  <2>1. phase = "WAITING_RECYCLE_CHOICES" /\ pendingAction.type = "RECYCLE_CHOICES"
    BY <1>5 DEF ChooseCardForRecycle
  <2>2. pendingAction \in PendingAction
    BY <2>1, PendingActionTyped DEF OrderInv, CardsInv, HandsInv
  <2>3. CASE /\ pendingAction' = [pendingAction EXCEPT !.recycleSelections = selections]
             /\ UNCHANGED <<phase, alive, currentPlayerID, turnDebt, winner>>
    <3>1. /\ pendingAction'.type = pendingAction.type
          /\ pendingAction'.sourcePlayerID = pendingAction.sourcePlayerID
          /\ pendingAction'.targetPlayerID = pendingAction.targetPlayerID
          /\ pendingAction'.reactiveExplosive = pendingAction.reactiveExplosive
          /\ pendingAction'.originalCurrentPlayerID =
               pendingAction.originalCurrentPlayerID
      BY <2>2, <2>3 DEF PendingAction
    <3>2. PendingAbout(pendingAction', alive', currentPlayerID')
      BY <2>1, <2>3, <3>1, SomethingPending DEF PendingAbout, Targeted
    <3>3. Waiting(phase', pendingAction'.type)
      BY <2>1, <2>3, <3>1 DEF Waiting
    <3>4. TurnGood
      BY <2>1, <2>3, StillTurn
    <3>5. QED BY <3>2, <3>3, <3>4, AnswerPending DEF OrderStep
  <2>4. ASSUME NEW ids, NEW h,
               ResolveUnsafeExplosivesFrom(currentPlayerID, ids, NoPlayer, h, discardPile, {p})
        PROVE  OrderStep
    BY <2>1, <2>4, ResolveUnsafeExplosivesOrder
  <2>5. QED BY <1>5, <2>3, <2>4 DEF ChooseCardForRecycle
<1>6. QED BY <1>1, <1>2, <1>3, <1>4, <1>5

\* Every step of the engine is a step of the turn order, or none.
LEMMA NextOrder == OrderInv /\ [Next]_vars => OrderInv' /\ OrderStep
<1> SUFFICES ASSUME OrderInv, [Next]_vars PROVE OrderInv' /\ OrderStep
  OBVIOUS
<1>1. CardsInv' /\ OneDeathAtMost
  BY NextCards DEF OrderInv
<1>2. OrderStep
  <2>1. CASE ExpireCancelWindow
    BY <1>1, <2>1, ExpireCancelWindowOrder
  <2>2. CASE \E p \in Player :
          \/ DrawCard(p)
          \/ \E card, target : PlayCard(p, card, target)
          \/ \E cards, target, code : PlayCombo(p, cards, target, code)
    BY <2>2, TurnCommandsOrder
  <2>3. CASE \E p, card : PlayCancel(p, card)
    BY <2>3, PlayCancelOrder
  <2>4. CASE \E p :
          \/ \E top : SubmitReorderedTopCards(p, top)
          \/ \E card : \/ ChooseCardForRequest(p, card)
                       \/ ChooseMarkedCard(p, card)
                       \/ ChooseCardForRecycle(p, card)
                       \/ ChooseCardFromDiscard(p, card)
    BY <1>1, <2>4, AnswersOrder
  <2>5. CASE \E p, index : PlaceExplosive(p, index)
    BY <1>1, <2>5, PlaceExplosiveOrder
  <2>6. CASE UNCHANGED vars
    <3>1. LastAliveWins' /\ PendingMatchesPhase'
      BY <2>6 DEF vars, OrderInv, LastAliveWins, PendingMatchesPhase, Targeted
    <3>2. UNCHANGED Order!turnVars
      BY <2>6 DEF vars, Order!turnVars
    <3>3. phase' # "GAME_OVER" => winner' = NoPlayer
      BY <2>6 DEF vars, OrderInv
    <3>4. QED BY <3>1, <3>2, <3>3 DEF OrderStep, TurnGood
  <2>7. QED BY <2>1, <2>2, <2>3, <2>4, <2>5, <2>6 DEF Next
<1>3. QED BY <1>1, <1>2 DEF OrderInv, OrderStep, TurnGood

\* The game begins with everybody alive and the first player at turn.
LEMMA InitOrder ==
  ASSUME Init
  PROVE  LastAliveWins /\ PendingMatchesPhase /\ winner = NoPlayer /\ Order!TurnInit
<1>1. /\ phase = "PLAYER_TURN" /\ alive = Player /\ currentPlayerID = 1
      /\ turnDebt = [p \in Player |-> IF p = 1 THEN 1 ELSE 0]
      /\ pendingAction = NoPendingAction /\ winner = NoPlayer
  BY DEF Init
<1>2. 1 \in Player /\ 2 \in Player
  BY NAssumption DEF Player
<1>3. LastAliveWins
  BY <1>1, <1>2 DEF LastAliveWins
<1>4. PendingMatchesPhase
  BY <1>1 DEF PendingMatchesPhase, NoPendingAction, Pending, IsCancelable, Targeted
<1>5. Order!TurnInit
  BY <1>1, <1>2 DEF Order!TurnInit, Order!Seat, Player
<1>6. QED BY <1>1, <1>3, <1>4, <1>5

\* The invariant holds in every game.
LEMMA OrderInvariant == Spec => []OrderInv
<1>1. Init /\ CardsInv => OrderInv
  BY InitOrder DEF OrderInv
<1>2. QED BY <1>1, CardsInvariant, NextOrder, PTL DEF Spec

\* The game is over exactly when one player is left, who has won; it never loses
\* all of them, and until then it is a living player's turn
\* (setWinnerIfGameOver, and what calls it).
THEOREM LastAliveCorrect == Spec => []LastAliveWins
<1>1. OrderInv => LastAliveWins
  BY DEF OrderInv
<1>2. QED BY <1>1, OrderInvariant, PTL

\* The phase and the pending action tell the same story, and whoever something
\* is done to is another player who is alive, whatever target was sent
\* (PlayCard, PlayCombo, and what resolves what they left pending).
THEOREM PendingCorrect == Spec => []PendingMatchesPhase
<1>1. OrderInv => PendingMatchesPhase
  BY DEF OrderInv
<1>2. QED BY <1>1, OrderInvariant, PTL

\* The placement of an explosive that was shaken loose does not use up the turn
\* it has interrupted (OriginalCurrentPlayerID).
THEOREM PlacementCorrect == Spec => ReactivePlacementKeepsTurn
<1>1. ASSUME OrderInv, [Next]_vars, pendingAction.reactiveExplosive
      PROVE  UNCHANGED <<currentPlayerID, turnDebt>>
  <2>1. /\ pendingAction.type = "EXPLOSIVE_PLACEMENT"
        /\ phase = "WAITING_EXPLOSIVE_PLACEMENT"
    BY <1>1 DEF OrderInv, CardsInv, DebtInv, PendingMatchesPhase
  <2>2. CASE \E p \in Player : \E index : PlaceExplosive(p, index)
    <3>1. PICK p \in Player : \E index : PlaceExplosive(p, index)
      BY <2>2
    <3>2. pendingAction.originalCurrentPlayerID = currentPlayerID
      BY <1>1, <2>1, SomethingPending DEF PendingAbout
    <3>3. ResolveUnsafeExplosivesFrom(currentPlayerID, {p}, p, hands, discardPile, {})
      BY <1>1, <3>1, <3>2 DEF PlaceExplosive
    <3>4. ~Unsafe(hands[p])
      BY <1>1, <2>1, SafeHands, NoSelectionsUnlessRecycling DEF OrderInv, CardsInv
    <3>5. unsafeExplosiveQueue = <<>>
      BY <1>1 DEF OrderInv, CardsInv, CardsApart
    <3>6. {q \in {p} \cap alive : Unsafe(hands[q])} = {}
      BY <3>4
    <3>7. FinishUnsafeExplosiveResolution(currentPlayerID, alive)
      <4> DEFINE unsafe == {q \in {p} \cap alive : Unsafe(hands[q])}
                 placing == {q \in unsafe : Holds(hands[q], "SHIELD")}
                 dying == unsafe \ placing
                 queueOf(order, explosive) ==
                   unsafeExplosiveQueue \o
                     [i \in DOMAIN order |->
                        [playerID |-> order[i], card |-> explosive[order[i]]]]
      <4>1. PICK explosive \in [placing -> Card], order \in LookOrders(placing, p) :
              IF queueOf(order, explosive) # <<>>
                THEN StartNextUnsafeExplosivePlacement(queueOf(order, explosive),
                                                       currentPlayerID)
                ELSE FinishUnsafeExplosiveResolution(currentPlayerID, alive \ dying)
        BY <3>3 DEF ResolveUnsafeExplosivesFrom
      <4>2. placing = {} /\ dying = {}
        BY <3>6
      <4>3. order = <<>>
        BY <4>2, LookOrdersOfFew
      <4>4. queueOf(order, explosive) = <<>>
        BY <3>5, <4>3
      <4> HIDE DEF queueOf
      <4>5. FinishUnsafeExplosiveResolution(currentPlayerID, alive \ dying)
        BY <4>1, <4>4
      <4>6. alive \ dying = alive
        BY <4>2
      <4>7. QED BY <4>5, <4>6
    <3>8. currentPlayerID \in alive /\ ~IsGameOver(alive)
      BY <1>1, <2>1, GameGoesOn DEF IsGameOver
    <3>9. QED BY <3>7, <3>8 DEF FinishUnsafeExplosiveResolution
  <2>3. CASE UNCHANGED vars
    BY <2>3 DEF vars
  <2>4. QED
    BY <1>1, <2>1, <2>2, <2>3
       DEF Next, ExpireCancelWindow, DrawCard, InTurn, PlayCard, PlayCombo, PlayCancel,
           SubmitReorderedTopCards, ChooseCardForRequest, ChooseMarkedCard,
           ChooseCardForRecycle, ChooseCardFromDiscard
<1>2. OrderInv /\ [Next]_vars =>
        [pendingAction.reactiveExplosive /\ phase' # "GAME_OVER" =>
           UNCHANGED <<currentPlayerID, turnDebt>>]_vars
  BY <1>1
<1>3. QED BY <1>2, OrderInvariant, PTL DEF Spec, ReactivePlacementKeepsTurn

\* The engine implements the turn order: all that ever happens to the turn is
\* that it ends, is skipped, is put on another player, or somebody dies.
THEOREM TurnOrderImplemented == Spec => ImplementsTurnOrder
<1>1. Init => Order!TurnInit
  BY InitOrder
<1>2. OrderInv /\ [Next]_vars => [Order!TurnNext]_(Order!turnVars)
  BY NextOrder DEF OrderStep, TurnGood
<1>3. QED BY <1>1, <1>2, OrderInvariant, PTL DEF Spec, ImplementsTurnOrder, Order!TurnSpec

----------------------------------------------------------------------------
(* Who is offered what.                                                    *)

\* A combination takes two cards at least.
LEMMA ComboTakesTwoCards ==
  ASSUME TypeOK, NEW p \in Player, NEW cards \in SUBSET hands[p], NEW target,
         NEW requestedCode, PlayCombo(p, cards, target, requestedCode)
  PROVE  HasPotentialComboCards(hands[p])
<1>1. IsFiniteSet(hands[p])
  BY DeckAssumption, FS_Subset DEF TypeOK
<1>2. Cardinality(cards) \in {2, 3, 5}
  BY DEF PlayCombo, ComboKindOf
<1>3. /\ Cardinality(cards) <= Cardinality(hands[p])
      /\ Cardinality(hands[p]) \in Nat
  BY <1>1, FS_Subset, FS_CardinalityType
<1> HIDE DEF HasPotentialComboCards
<1>4. QED BY <1>2, <1>3 DEF HasPotentialComboCards

\* A view offers whatever the engine takes.
LEMMA TakenCommandsAreOffered ==
  ASSUME TypeOK, PendingMatchesPhase, NEW p \in Player, NEW k \in CommandType, Takes(k, p)
  PROVE  k \in AvailableActions(p)
<1>1. CASE k = "DRAW_CARD"
  BY <1>1 DEF Takes, DrawCard, InTurn, AvailableActions, OfferedTo
<1>2. CASE k = "PLAY_CARD"
  <2>1. PICK c \in hands[p], t \in Player \cup {NoPlayer} : PlayCard(p, c, t)
    BY <1>2 DEF Takes
  <2>2. HasPlayableAction(hands[p])
    BY <2>1 DEF PlayCard, HasPlayableAction
  <2>3. phase = "PLAYER_TURN" /\ currentPlayerID = p /\ p \in alive
    BY <2>1 DEF PlayCard, InTurn
  <2>4. QED BY <1>2, <2>2, <2>3 DEF AvailableActions, OfferedTo
<1>3. CASE k = "PLAY_COMBO"
  <2>1. PICK cards \in SUBSET hands[p], t \in Player \cup {NoPlayer},
             requestedCode \in RequestableCode : PlayCombo(p, cards, t, requestedCode)
    BY <1>3 DEF Takes
  <2>2. HasPotentialComboCards(hands[p])
    BY <2>1, ComboTakesTwoCards
  <2>3. phase = "PLAYER_TURN" /\ currentPlayerID = p /\ p \in alive
    BY <2>1 DEF PlayCombo, InTurn
  <2>4. QED BY <1>3, <2>2, <2>3 DEF AvailableActions, OfferedTo
<1>4. CASE k = "PLAY_CANCEL"
  <2>1. PICK c \in hands[p] : PlayCancel(p, c)
    BY <1>4 DEF Takes
  <2>2. phase = "CANCEL_WINDOW" /\ p \in alive /\ Holds(hands[p], "CANCEL")
    BY <2>1 DEF PlayCancel, Holds
  <2>3. QED BY <1>4, <2>2 DEF AvailableActions
<1>5. CASE k = "PLACE_EXPLOSIVE"
  <2>1. /\ phase = "WAITING_EXPLOSIVE_PLACEMENT"
        /\ pendingAction.type = "EXPLOSIVE_PLACEMENT"
        /\ p = pendingAction.sourcePlayerID
    BY <1>5 DEF Takes, PlaceExplosive
  <2>2. p \in alive
    BY <2>1 DEF PendingMatchesPhase
  <2>3. QED BY <1>5, <2>1, <2>2 DEF AvailableActions, OfferedTo
<1>6. CASE k = "CHOOSE_CARD_FOR_REQUEST"
  BY <1>6 DEF Takes, ChooseCardForRequest, AvailableActions, OfferedTo
<1>7. CASE k = "CHOOSE_CARD_FROM_DISCARD"
  BY <1>7 DEF Takes, ChooseCardFromDiscard, AvailableActions, OfferedTo
<1>8. CASE k = "CHOOSE_CARD_FOR_RECYCLE"
  BY <1>8 DEF Takes, ChooseCardForRecycle, AvailableActions, OfferedTo
<1>9. CASE k = "CHOOSE_MARKED_CARD"
  <2>1. /\ phase = "WAITING_MARKED_CARD_CHOICE"
        /\ pendingAction.type = "MARKED_CARD_CHOICE"
        /\ p = pendingAction.sourcePlayerID
    BY <1>9 DEF Takes, ChooseMarkedCard
  <2>2. p \in alive
    BY <2>1 DEF PendingMatchesPhase
  <2>3. QED BY <1>9, <2>1, <2>2 DEF AvailableActions, OfferedTo
<1>10. CASE k = "SUBMIT_REORDERED_TOP_CARDS"
  <2>1. /\ phase = "WAITING_DECK_REORDER"
        /\ pendingAction.type = "DECK_REORDER"
        /\ p = pendingAction.sourcePlayerID
    BY <1>10 DEF Takes, SubmitReorderedTopCards
  <2>2. p \in alive
    BY <2>1 DEF PendingMatchesPhase
  <2>3. QED BY <1>10, <2>1, <2>2 DEF AvailableActions, OfferedTo
<1>11. QED
  BY <1>1, <1>2, <1>3, <1>4, <1>5, <1>6, <1>7, <1>8, <1>9, <1>10 DEF CommandType

\* A client that goes by its view misses nothing: whatever command the engine
\* takes from a player, the player's view has offered, for every number of
\* players and every deck (buildAvailableActions).
THEOREM OffersCorrect == Spec => OnlyOfferedCommandsAreTaken
<1>1. OrderInv /\ [Next]_vars =>
        [\A p \in Player, k \in CommandType :
           Takes(k, p) => k \in AvailableActions(p)]_vars
  BY TakenCommandsAreOffered DEF OrderInv, CardsInv, HandsInv
<1>2. QED BY <1>1, OrderInvariant, PTL DEF Spec, OnlyOfferedCommandsAreTaken
============================================================================
