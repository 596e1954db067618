---------------------------- MODULE EngineProofs ----------------------------
(***************************************************************************)
(* Theorems about the rules of the game, for every number of players and   *)
(* every deck: the state is always well typed, and the turns the players   *)
(* owe are in order.                                                       *)
(***************************************************************************)
EXTENDS Engine, FiniteSetTheorems, TLAPS

----------------------------------------------------------------------------
(* Types of the operators the engine is built from.                        *)

\* A function on 1..n is a sequence.
LEMMA FunctionIsSequence ==
  ASSUME NEW S, NEW n \in Nat, NEW f \in [1..n -> S]
  PROVE  f \in Seq(S)
OBVIOUS

\* A pending action made of parts of the right types is well typed.
LEMMA PendingTyped ==
  ASSUME NEW type \in PendingActionType,
         NEW source \in Player,
         NEW target \in Player \cup {NoPlayer},
         NEW cards \in Seq(Card)
  PROVE  Pending(type, source, target, cards) \in PendingAction
BY DEF Pending, PendingAction, ComboKind

\* What is pending, if anything is, is well typed.
LEMMA PendingActionTyped ==
  ASSUME TypeOK
  PROVE  /\ pendingAction.type # "NONE" => pendingAction \in PendingAction
         /\ pendingAction.originalCurrentPlayerID \in Player \cup {NoPlayer}
         /\ pendingAction.cards \in Seq(Card)
<1>1. CASE pendingAction \in PendingAction
  <2>1. pendingAction.originalCurrentPlayerID \in Player \cup {NoPlayer}
    BY <1>1 DEF PendingAction
  <2>2. pendingAction.cards \in Seq(Card)
    BY <1>1 DEF PendingAction
  <2>3. QED BY <1>1, <2>1, <2>2
<1>2. CASE pendingAction = NoPendingAction
  <2>1. /\ pendingAction.type = "NONE"
        /\ pendingAction.originalCurrentPlayerID = NoPlayer
        /\ pendingAction.cards = <<>>
    BY <1>2 DEF NoPendingAction, Pending
  <2>2. QED BY <2>1
<1>3. QED BY <1>1, <1>2 DEF TypeOK

\* Shuffling a pile of cards gives a pile of cards.
LEMMA ShufflesTyped ==
  ASSUME NEW pile \in Seq(Card), NEW shuffled \in Shuffles(pile)
  PROVE  shuffled \in Seq(Card)
<1>1. PICK pi \in [DOMAIN pile -> DOMAIN pile] :
         shuffled = [i \in DOMAIN pile |-> pile[pi[i]]]
  BY DEF Shuffles, Rearrangements
<1>2. DOMAIN pile = 1..Len(pile) /\ \A i \in DOMAIN pile : pile[i] \in Card
  OBVIOUS
<1>3. QED BY <1>1, <1>2

\* Putting a card into a pile (insertCardAt) gives a pile of cards.
LEMMA InsertCardAtTyped ==
  ASSUME NEW pile \in Seq(Card), NEW card \in Card, NEW index \in 0..Len(pile)
  PROVE  InsertCardAt(pile, card, index) \in Seq(Card)
<1>1. SubSeq(pile, 1, index) \in Seq(Card)
  OBVIOUS
<1>2. SubSeq(pile, index + 1, Len(pile)) \in Seq(Card)
  OBVIOUS
<1>3. <<card>> \in Seq(Card)
  OBVIOUS
<1>4. QED BY <1>1, <1>2, <1>3 DEF InsertCardAt

\* The top of a pile (topCards) is a pile of cards.
LEMMA TopCardsTyped ==
  ASSUME NEW pile \in Seq(Card), NEW count \in Nat
  PROVE  TopCards(pile, count) \in Seq(Card)
<1>1. CASE count > Len(pile)
  BY <1>1 DEF TopCards
<1>2. CASE ~(count > Len(pile))
  BY <1>2 DEF TopCards
<1>3. QED BY <1>1, <1>2

\* Sweeping marks keeps the marks well typed.
LEMMA ClearMarksTyped ==
  ASSUME TypeOK, NEW players, NEW h
  PROVE  ClearMarks(players, h) \in [Card -> Player \cup {NoPlayer}]
BY DEF TypeOK, ClearMarks

----------------------------------------------------------------------------
(* Types of the parts of the steps.                                        *)

\* The part of the type invariant the turn operators determine.
TurnTyped ==
  /\ phase \in GamePhase
  /\ currentPlayerID \in Player \cup {NoPlayer}
  /\ turnDebt \in [Player -> Nat]

\* Handing the turn to a player (advanceToPlayer) keeps it well typed.
LEMMA AdvanceToPlayerTyped ==
  ASSUME NEW q \in Player \cup {NoPlayer}, NEW debt \in [Player -> Nat],
         AdvanceToPlayer(q, debt)
  PROVE  TurnTyped'
BY DEF AdvanceToPlayer, TurnTyped, GamePhase

\* Handing it to the next one alive (advanceToNextAlivePlayer) does.
LEMMA AdvanceToNextAlivePlayerTyped ==
  ASSUME NEW from \in Player \cup {NoPlayer}, NEW debt \in [Player -> Nat],
         NEW living, AdvanceToNextAlivePlayer(from, debt, living)
  PROVE  TurnTyped'
<1>1. CASE living = {}
  BY <1>1 DEF AdvanceToNextAlivePlayer, TurnTyped, GamePhase
<1>2. CASE living # {}
  BY <1>2, AdvanceToPlayerTyped DEF AdvanceToNextAlivePlayer
<1>3. QED BY <1>1, <1>2

\* Counting a turn as taken (completeCurrentTurnUnit) does.
LEMMA CompleteCurrentTurnUnitTyped ==
  ASSUME TypeOK, CompleteCurrentTurnUnit
  PROVE  TurnTyped'
<1> DEFINE left == IF turnDebt[currentPlayerID] > 0
                     THEN turnDebt[currentPlayerID] - 1
                     ELSE turnDebt[currentPlayerID]
           debt == [turnDebt EXCEPT ![currentPlayerID] = left]
<1>1. debt \in [Player -> Nat]
  <2>1. CASE currentPlayerID \in Player
    <3>1. turnDebt[currentPlayerID] \in Nat
      BY <2>1 DEF TypeOK
    <3>2. left \in Nat
      BY <3>1
    <3>3. QED BY <2>1, <3>2 DEF TypeOK
  <2>2. CASE currentPlayerID \notin Player
    BY <2>2 DEF TypeOK
  <2>3. QED BY <2>1, <2>2
<1>2. CASE left > 0
  BY <1>1, <1>2 DEF CompleteCurrentTurnUnit, TypeOK, TurnTyped, GamePhase
<1>3. CASE ~(left > 0)
  <2>1. AdvanceToNextAlivePlayer(currentPlayerID, debt, alive)
    BY <1>3 DEF CompleteCurrentTurnUnit
  <2>2. QED BY <1>1, <2>1, AdvanceToNextAlivePlayerTyped DEF TypeOK
<1>4. QED BY <1>2, <1>3

\* Moving on after a death, or ending the game, does, and names a winner.
LEMMA AdvanceOrEndGameTyped ==
  ASSUME TypeOK, NEW from \in Player \cup {NoPlayer}, NEW living,
         AdvanceOrEndGame(from, living)
  PROVE  TurnTyped' /\ winner' \in Player \cup {NoPlayer}
<1>1. CASE \E w \in Player : living = {w} /\ SetWinner(w)
  BY <1>1 DEF SetWinner, TypeOK, TurnTyped, GamePhase
<1>2. CASE /\ AdvanceToNextAlivePlayer(from, turnDebt, living)
           /\ UNCHANGED winner
  BY <1>2, AdvanceToNextAlivePlayerTyped DEF TypeOK
<1>3. QED BY <1>1, <1>2 DEF AdvanceOrEndGame

\* A drawn card, kept, shielded against or deadly (resolveDrawnCard), keeps
\* the state well typed.
LEMMA ResolveDrawnCardTyped ==
  ASSUME TypeOK, NEW p \in Player, NEW drawn \in Card, NEW rest \in Seq(Card),
         NEW pending \in PendingAction \cup {NoPendingAction},
         ResolveDrawnCard(p, drawn, rest, pending)
  PROVE  TypeOK'
<1>1. drawPile' \in Seq(Card) /\ unsafeExplosiveQueue' \in Seq(UnsafePlacement)
  BY DEF ResolveDrawnCard, TypeOK
<1>2. CASE KeepDrawnCard(p, drawn, pending)
  <2>1. TurnTyped'
    BY <1>2, CompleteCurrentTurnUnitTyped DEF KeepDrawnCard
  <2>2. QED BY <1>1, <1>2, <2>1 DEF KeepDrawnCard, TypeOK, TurnTyped
<1>3. CASE ShieldFromDrawnExplosive(p, drawn)
  <2>1. PICK shield \in CardsByCode(hands[p], "SHIELD") :
          /\ hands' = [hands EXCEPT ![p] = @ \ {shield}]
          /\ discardPile' = discardPile \cup {shield}
    BY <1>3 DEF ShieldFromDrawnExplosive
  <2>2. shield \in Card
    BY <2>1 DEF CardsByCode, TypeOK
  <2>3. hands' \in [Player -> SUBSET Card] /\ discardPile' \subseteq Card
    BY <2>1, <2>2 DEF TypeOK
  <2>4. markedCards' \in [Card -> Player \cup {NoPlayer}]
    BY <1>3, ClearMarksTyped DEF ShieldFromDrawnExplosive
  <2>5. pendingAction' \in PendingAction
    <3>1. "EXPLOSIVE_PLACEMENT" \in PendingActionType /\ <<drawn>> \in Seq(Card)
      BY DEF PendingActionType
    <3>2. QED BY <1>3, <3>1, PendingTyped DEF ShieldFromDrawnExplosive
  <2>6. QED BY <1>1, <1>3, <2>3, <2>4, <2>5
            DEF ShieldFromDrawnExplosive, TypeOK, GamePhase
<1>4. CASE EliminatedByDrawnExplosive(p, drawn, pending)
  <2>1. TurnTyped' /\ winner' \in Player \cup {NoPlayer}
    BY <1>4, AdvanceOrEndGameTyped DEF EliminatedByDrawnExplosive, TypeOK
  <2>2. markedCards' \in [Card -> Player \cup {NoPlayer}]
    BY <1>4, ClearMarksTyped DEF EliminatedByDrawnExplosive
  <2>3. hands' \in [Player -> SUBSET Card] /\ discardPile' \subseteq Card
    BY <1>4 DEF EliminatedByDrawnExplosive, TypeOK
  <2>4. QED BY <1>1, <1>4, <2>1, <2>2, <2>3
            DEF EliminatedByDrawnExplosive, TypeOK, TurnTyped
<1>5. QED BY <1>2, <1>3, <1>4 DEF ResolveDrawnCard

\* The next placement of the queue (startNextUnsafeExplosivePlacement) is well
\* typed.
LEMMA StartNextUnsafeExplosivePlacementTyped ==
  ASSUME TypeOK, NEW queue \in Seq(UnsafePlacement), queue # <<>>,
         NEW original \in Player \cup {NoPlayer},
         StartNextUnsafeExplosivePlacement(queue, original)
  PROVE  /\ TurnTyped'
         /\ winner' \in Player \cup {NoPlayer}
         /\ pendingAction' \in PendingAction \cup {NoPendingAction}
         /\ unsafeExplosiveQueue' \in Seq(UnsafePlacement)
<1> DEFINE placement == Pending("EXPLOSIVE_PLACEMENT", queue[1].playerID,
                                NoPlayer, <<queue[1].card>>)
<1>1. queue[1].playerID \in Player /\ queue[1].card \in Card
  <2>1. queue[1] \in UnsafePlacement
    OBVIOUS
  <2>2. QED BY <2>1 DEF UnsafePlacement
<1>2. placement \in PendingAction
  <2>1. "EXPLOSIVE_PLACEMENT" \in PendingActionType /\ <<queue[1].card>> \in Seq(Card)
    BY <1>1 DEF PendingActionType
  <2>2. QED BY <1>1, <2>1, PendingTyped
<1>3. pendingAction' \in PendingAction
  BY <1>2 DEF StartNextUnsafeExplosivePlacement, PendingAction
<1>4. QED BY <1>3 DEF StartNextUnsafeExplosivePlacement, TypeOK, TurnTyped, GamePhase

\* The end of the placements (finishUnsafeExplosiveResolution) is.
LEMMA FinishUnsafeExplosiveResolutionTyped ==
  ASSUME TypeOK, NEW original \in Player \cup {NoPlayer}, NEW living,
         FinishUnsafeExplosiveResolution(original, living)
  PROVE  /\ TurnTyped'
         /\ winner' \in Player \cup {NoPlayer}
         /\ pendingAction' \in PendingAction \cup {NoPendingAction}
         /\ unsafeExplosiveQueue' \in Seq(UnsafePlacement)
<1>1. pendingAction' = NoPendingAction /\ unsafeExplosiveQueue' \in Seq(UnsafePlacement)
  BY DEF FinishUnsafeExplosiveResolution
<1>2. CASE original \in living /\ ~IsGameOver(living)
  BY <1>1, <1>2 DEF FinishUnsafeExplosiveResolution, TypeOK, TurnTyped, GamePhase
<1>3. CASE ~(original \in living /\ ~IsGameOver(living))
  BY <1>1, <1>3, AdvanceOrEndGameTyped DEF FinishUnsafeExplosiveResolution
<1>4. QED BY <1>2, <1>3

\* Resolving the explosives of some players (resolveUnsafeExplosivesFrom)
\* keeps the state well typed, whatever has been done to the hands and piles.
LEMMA ResolveUnsafeExplosivesTyped ==
  ASSUME TypeOK, NEW original \in Player \cup {NoPlayer},
         NEW ids, NEW first, NEW h \in [Player -> SUBSET Card],
         NEW discard \in SUBSET Card, NEW cleared,
         ResolveUnsafeExplosivesFrom(original, ids, first, h, discard, cleared),
         drawPile' \in Seq(Card)
  PROVE  TypeOK'
<1> DEFINE unsafe == {p \in ids \cap alive : Unsafe(h[p])}
           placing == {p \in unsafe : Holds(h[p], "SHIELD")}
           dying == unsafe \ placing
           queueOf(order, explosive) ==
             unsafeExplosiveQueue \o
               [i \in DOMAIN order |->
                  [playerID |-> order[i], card |-> explosive[order[i]]]]
<1>1. PICK shield \in [placing -> Card], explosive \in [placing -> Card],
           order \in LookOrders(placing, first) :
        /\ \A p \in placing :
              /\ shield[p] \in CardsByCode(h[p], "SHIELD")
              /\ explosive[p] \in CardsByCode(h[p], "EXPLOSIVE")
        /\ hands' = [p \in Player |->
                       IF p \in dying THEN {}
                       ELSE IF p \in placing THEN h[p] \ {shield[p], explosive[p]}
                       ELSE h[p]]
        /\ discardPile' = discard \cup {shield[p] : p \in placing}
                                  \cup UNION {h[p] : p \in dying}
        /\ markedCards' = ClearMarks(cleared \cup unsafe, hands')
        /\ alive' = alive \ dying
        /\ IF queueOf(order, explosive) # <<>>
             THEN StartNextUnsafeExplosivePlacement(queueOf(order, explosive), original)
             ELSE FinishUnsafeExplosiveResolution(original, alive \ dying)
  BY DEF ResolveUnsafeExplosivesFrom
<1>2. placing \subseteq Player /\ dying \subseteq Player
  BY DEF TypeOK
<1>3. hands' \in [Player -> SUBSET Card]
  BY <1>1
<1>4. discardPile' \subseteq Card
  BY <1>1, <1>2
<1>5. alive' \subseteq Player
  BY <1>1 DEF TypeOK
<1>6. markedCards' \in [Card -> Player \cup {NoPlayer}]
  BY <1>1, ClearMarksTyped
<1>7. queueOf(order, explosive) \in Seq(UnsafePlacement)
  <2>1. PICK n \in 0..N : order \in [1..n -> placing]
    BY DEF LookOrders
  <2>2. [i \in DOMAIN order |->
           [playerID |-> order[i], card |-> explosive[order[i]]]]
          \in [1..n -> UnsafePlacement]
    BY <1>2, <2>1 DEF UnsafePlacement
  <2>3. [i \in DOMAIN order |->
           [playerID |-> order[i], card |-> explosive[order[i]]]]
          \in Seq(UnsafePlacement)
    BY <2>2, NAssumption
  <2>4. QED BY <2>3 DEF TypeOK
<1>8. /\ TurnTyped'
      /\ winner' \in Player \cup {NoPlayer}
      /\ pendingAction' \in PendingAction \cup {NoPendingAction}
      /\ unsafeExplosiveQueue' \in Seq(UnsafePlacement)
  <2>1. CASE queueOf(order, explosive) # <<>>
    BY <1>1, <1>7, <2>1, StartNextUnsafeExplosivePlacementTyped
  <2>2. CASE queueOf(order, explosive) = <<>>
    BY <1>1, <2>2, FinishUnsafeExplosiveResolutionTyped
  <2>3. QED BY <2>1, <2>2
<1>9. QED BY <1>3, <1>4, <1>5, <1>6, <1>8 DEF TypeOK, TurnTyped

\* So does moving a card from hand to hand.
LEMMA TransferCardTyped ==
  ASSUME TypeOK, NEW card \in Card, NEW from \in Player, NEW to \in Player,
         TransferCard(card, from, to), UNCHANGED drawPile
  PROVE  TypeOK'
<1> DEFINE h == [hands EXCEPT ![from] = @ \ {card}, ![to] = @ \cup {card}]
<1>1. h \in [Player -> SUBSET Card]
  BY DEF TypeOK
<1>2. ResolveUnsafeExplosivesFrom(currentPlayerID, {from, to}, from, h, discardPile, {from})
  BY DEF TransferCard
<1>3. /\ currentPlayerID \in Player \cup {NoPlayer}
      /\ discardPile \in SUBSET Card
      /\ drawPile' \in Seq(Card)
  BY DEF TypeOK
<1>4. QED BY <1>1, <1>2, <1>3, ResolveUnsafeExplosivesTyped

----------------------------------------------------------------------------
(* Type correctness.                                                       *)

\* The deal is well typed.
LEMMA InitTyped == Init => TypeOK
<1> SUFFICES ASSUME Init PROVE TypeOK
  OBVIOUS
<1>1. hands \in [Player -> SUBSET Card]
  BY DEF Init, OpeningHand
<1>2. drawPile \in Seq(Card)
  <2> DEFINE rest == Card \ UNION {hands[p] : p \in Player}
  <2>1. drawPile \in [1..Cardinality(rest) -> rest]
    <3>1. drawPile \in Orderings(rest)
      BY Zenon DEF Init
    <3>2. QED BY <3>1 DEF Orderings
  <2>2. IsFiniteSet(rest)
    BY DeckAssumption, FS_Subset
  <2>3. Cardinality(rest) \in Nat
    BY <2>2, FS_CardinalityType
  <2>4. drawPile \in Seq(rest)
    BY <2>1, <2>3, FunctionIsSequence
  <2>5. QED BY <2>4
<1>3. turnDebt \in [Player -> Nat]
  BY DEF Init
<1>4. currentPlayerID \in Player
  BY NAssumption DEF Init, Player
<1>5. unsafeExplosiveQueue \in Seq(UnsafePlacement)
  BY DEF Init
<1>6. QED BY <1>1, <1>2, <1>3, <1>4, <1>5
          DEF Init, TypeOK, GamePhase

\* A card or a combination on the table leaves the state well typed.
LEMMA OpenCancelWindowTyped ==
  ASSUME TypeOK, NEW p \in Player, NEW played \in SUBSET Card,
         NEW pending \in PendingAction, OpenCancelWindow(p, played, pending)
  PROVE  TypeOK'
<1>1. hands' \in [Player -> SUBSET Card]
  BY DEF OpenCancelWindow, TypeOK
<1>2. markedCards' \in [Card -> Player \cup {NoPlayer}]
  BY ClearMarksTyped DEF OpenCancelWindow
<1>3. QED BY <1>1, <1>2 DEF OpenCancelWindow, TypeOK, GamePhase

\* Only the turn changing does.
LEMMA OnlyTurnChangesTyped ==
  ASSUME TypeOK, OnlyTurnChanges, TurnTyped'
  PROVE  TypeOK'
BY DEF OnlyTurnChanges, TypeOK, TurnTyped

\* Only the order of the draw pile changing does.
LEMMA ReorderDrawPileTyped ==
  ASSUME TypeOK, NEW pile \in Seq(Card), ReorderDrawPile(pile)
  PROVE  TypeOK'
BY DEF ReorderDrawPile, TypeOK, GamePhase

\* Nothing moving does.
LEMMA NothingMovesTyped ==
  ASSUME TypeOK, NothingMoves
  PROVE  TypeOK'
BY ReorderDrawPileTyped DEF NothingMoves, TypeOK

\* Waiting for an answer does.
LEMMA WaitForTyped ==
  ASSUME TypeOK, NEW waiting \in GamePhase, NEW pending \in PendingAction,
         WaitFor(waiting, pending)
  PROVE  TypeOK'
BY DEF WaitFor, TypeOK

\* Every action card resolves (resolvePlayedCard) to a well typed state.
LEMMA ResolvePlayedCardTyped ==
  ASSUME TypeOK, NEW code, NEW source \in Player, NEW target \in Player \cup {NoPlayer},
         ResolvePlayedCard(code, source, target)
  PROVE  TypeOK'
<1>0. /\ drawPile \in Seq(Card)
      /\ turnDebt \in [Player -> Nat]
      /\ currentPlayerID \in Player \cup {NoPlayer}
  BY DEF TypeOK
<1>1. ASSUME NEW q \in Player \cup {NoPlayer}, ResolveExtraTurns(source, q)
      PROVE  TypeOK'
  <2> DEFINE debt == [[turnDebt EXCEPT ![q] = @ + extraTurnDebt] EXCEPT ![source] = 0]
  <2>1. debt \in [Player -> Nat]
    BY <1>0 DEF extraTurnDebt
  <2>2. TurnTyped'
    BY <1>1, <2>1, AdvanceToPlayerTyped DEF ResolveExtraTurns
  <2>3. QED BY <1>1, <2>2, OnlyTurnChangesTyped DEF ResolveExtraTurns
<1>2. CASE ResolveSkipTurn
  BY <1>2, CompleteCurrentTurnUnitTyped, OnlyTurnChangesTyped DEF ResolveSkipTurn
<1>3. CASE ResolveSkipAllTurns(source)
  <2>1. [turnDebt EXCEPT ![source] = 0] \in [Player -> Nat]
    BY <1>0
  <2>2. TurnTyped'
    BY <1>0, <1>3, <2>1, AdvanceToNextAlivePlayerTyped DEF ResolveSkipAllTurns
  <2>3. QED BY <1>3, <2>2, OnlyTurnChangesTyped DEF ResolveSkipAllTurns
<1>4. CASE \E q \in Player : IsNextAlive(source, q, alive) /\ ResolveExtraTurns(source, q)
  BY <1>1, <1>4
<1>5. CASE ResolveExtraTurns(source, target)
  BY <1>1, <1>5
<1>6. CASE ResolveShuffleDeck
  BY <1>0, <1>6, ShufflesTyped, ReorderDrawPileTyped DEF ResolveShuffleDeck
<1>7. CASE ResolvePeekDeck
  BY <1>7, NothingMovesTyped DEF ResolvePeekDeck
<1>8. CASE ResolveRequestCard(source, target)
  <2>1. "REQUEST_CARD_CHOICE" \in PendingActionType /\ <<>> \in Seq(Card)
    BY DEF PendingActionType
  <2>2. "WAITING_REQUEST_CARD_CHOICE" \in GamePhase
    BY DEF GamePhase
  <2>3. QED BY <1>8, <2>1, <2>2, PendingTyped, WaitForTyped DEF ResolveRequestCard
<1>9. CASE ResolveRevealHeldCard(source, target)
  <2>1. "MARKED_CARD_CHOICE" \in PendingActionType /\ <<>> \in Seq(Card)
    BY DEF PendingActionType
  <2>2. "WAITING_MARKED_CARD_CHOICE" \in GamePhase
    BY DEF GamePhase
  <2>3. QED BY <1>9, <2>1, <2>2, PendingTyped, WaitForTyped DEF ResolveRevealHeldCard
<1>10. CASE ResolveDrawFromBottom(source)
  <2>1. CASE drawPile = <<>>
    BY <1>10, <2>1, NothingMovesTyped DEF ResolveDrawFromBottom
  <2>2. CASE drawPile # <<>>
    <3>1. drawPile[Len(drawPile)] \in Card
      BY <1>0, <2>2
    <3>2. SubSeq(drawPile, 1, Len(drawPile) - 1) \in Seq(Card)
      BY <1>0, <2>2
    <3>3. QED BY <1>10, <2>2, <3>1, <3>2, ResolveDrawnCardTyped
              DEF ResolveDrawFromBottom
  <2>3. QED BY <2>1, <2>2
<1>11. CASE ResolveSwapTopBottom
  <2> DEFINE swapped == [drawPile EXCEPT ![1] = drawPile[Len(drawPile)],
                                         ![Len(drawPile)] = drawPile[1]]
  <2>1. CASE Len(drawPile) > 1
    <3>1. swapped \in [1..Len(drawPile) -> Card]
      BY <1>0, <2>1
    <3>2. swapped \in Seq(Card)
      BY <1>0, <3>1
    <3>3. QED BY <1>11, <2>1, <3>2, ReorderDrawPileTyped DEF ResolveSwapTopBottom
  <2>2. CASE ~(Len(drawPile) > 1)
    BY <1>0, <1>11, <2>2, ReorderDrawPileTyped DEF ResolveSwapTopBottom
  <2>3. QED BY <2>1, <2>2
<1>12. ASSUME NEW limit \in Nat, ResolveReorderTop(source, limit)
       PROVE  TypeOK'
  <2>1. CASE drawPile = <<>>
    BY <1>12, <2>1, NothingMovesTyped DEF ResolveReorderTop
  <2>2. CASE drawPile # <<>>
    <3>1. "DECK_REORDER" \in PendingActionType /\ "WAITING_DECK_REORDER" \in GamePhase
      BY DEF PendingActionType, GamePhase
    <3>2. Pending("DECK_REORDER", source, NoPlayer, TopCards(drawPile, limit))
            \in PendingAction
      BY <1>0, <3>1, TopCardsTyped, PendingTyped
    <3>3. QED BY <1>12, <2>2, <3>1, <3>2, WaitForTyped DEF ResolveReorderTop
  <2>3. QED BY <2>1, <2>2
<1>13. CASE ResolveCollectiveRecycle(source)
  <2> DEFINE eligible == {p \in alive : hands[p] # {}}
             pending == [Pending("RECYCLE_CHOICES", source, NoPlayer, <<>>)
                           EXCEPT !.recyclePlayerIDs = eligible]
  <2>1. CASE eligible = {}
    BY <1>0, <1>13, <2>1, ShufflesTyped, ReorderDrawPileTyped
       DEF ResolveCollectiveRecycle, ResolveShuffleDeck
  <2>2. CASE eligible # {}
    <3>1. /\ "RECYCLE_CHOICES" \in PendingActionType /\ <<>> \in Seq(Card)
          /\ "WAITING_RECYCLE_CHOICES" \in GamePhase
      BY DEF PendingActionType, GamePhase
    <3>2. Pending("RECYCLE_CHOICES", source, NoPlayer, <<>>) \in PendingAction
      BY <3>1, PendingTyped
    <3>3. eligible \subseteq Player
      BY DEF TypeOK
    <3>4. pending \in PendingAction
      BY <3>2, <3>3 DEF PendingAction
    <3>5. QED BY <1>13, <2>2, <3>1, <3>4, WaitForTyped DEF ResolveCollectiveRecycle
  <2>3. QED BY <2>1, <2>2
<1>14. QED BY <1>2, <1>3, <1>4, <1>5, <1>6, <1>7, <1>8, <1>9, <1>10, <1>11, <1>12, <1>13
           DEF ResolvePlayedCard

\* Every combination resolves (resolveCombo) to a well typed state.
LEMMA ResolveComboTyped ==
  ASSUME TypeOK, NEW kind, NEW source \in Player, NEW target \in Player \cup {NoPlayer},
         NEW requestedCode, ResolveCombo(kind, source, target, requestedCode)
  PROVE  TypeOK'
<1>1. CASE ResolvePair(source, target)
  <2>1. CASE NothingMoves
    BY <2>1, NothingMovesTyped
  <2>2. CASE /\ {source, target} \subseteq alive
             /\ \E card \in hands[target] : TransferCard(card, target, source)
             /\ UNCHANGED drawPile
    <3>1. PICK card \in hands[target] : TransferCard(card, target, source)
      BY <2>2
    <3>2. target \in Player /\ card \in Card
      BY <2>2 DEF TypeOK
    <3>3. QED BY <2>2, <3>1, <3>2, TransferCardTyped
  <2>3. QED BY <1>1, <2>1, <2>2 DEF ResolvePair
<1>2. CASE ResolveTriple(source, target, requestedCode)
  <2>1. CASE NothingMoves
    BY <2>1, NothingMovesTyped
  <2>2. CASE /\ {source, target} \subseteq alive
             /\ \E card \in CardsByCode(hands[target], requestedCode) :
                   TransferCard(card, target, source)
             /\ UNCHANGED drawPile
    <3>1. PICK card \in CardsByCode(hands[target], requestedCode) :
            TransferCard(card, target, source)
      BY <2>2
    <3>2. target \in Player /\ card \in Card
      BY <2>2 DEF TypeOK, CardsByCode
    <3>3. QED BY <2>2, <3>1, <3>2, TransferCardTyped
  <2>3. QED BY <1>2, <2>1, <2>2 DEF ResolveTriple
<1>3. CASE ResolveFiveDifferent(source)
  <2>1. /\ "DISCARD_RECOVERY" \in PendingActionType /\ <<>> \in Seq(Card)
        /\ "WAITING_DISCARD_RECOVERY" \in GamePhase
    BY DEF PendingActionType, GamePhase
  <2>2. Pending("DISCARD_RECOVERY", source, NoPlayer, <<>>) \in PendingAction
    BY <2>1, PendingTyped
  <2>3. [Pending("DISCARD_RECOVERY", source, NoPlayer, <<>>)
           EXCEPT !.comboKind = "FIVE_DIFFERENT"] \in PendingAction
    BY <2>2 DEF PendingAction, ComboKind
  <2>4. QED BY <1>3, <2>1, <2>3, WaitForTyped DEF ResolveFiveDifferent
<1>4. QED BY <1>1, <1>2, <1>3 DEF ResolveCombo

\* The end of a cancel window does.
LEMMA ExpireCancelWindowTyped ==
  ASSUME TypeOK, ExpireCancelWindow
  PROVE  TypeOK'
<1>1. pendingAction \in PendingAction
  BY PendingActionTyped DEF ExpireCancelWindow, IsCancelable
<1>2. /\ pendingAction.sourcePlayerID \in Player
      /\ pendingAction.targetPlayerID \in Player \cup {NoPlayer}
  BY <1>1 DEF PendingAction
<1>3. ResolveCancelWindow(pendingAction)
  BY DEF ExpireCancelWindow
<1>4. QED BY <1>2, <1>3, NothingMovesTyped, ResolvePlayedCardTyped, ResolveComboTyped
          DEF ResolveCancelWindow

\* The commands of a player's turn do.
LEMMA TurnCommandsTyped ==
  ASSUME TypeOK, NEW p \in Player
  PROVE  /\ DrawCard(p) => TypeOK'
         /\ \A card \in Card, target \in Player \cup {NoPlayer} :
               PlayCard(p, card, target) => TypeOK'
         /\ \A cards \in SUBSET hands[p], target \in Player \cup {NoPlayer},
               requestedCode \in RequestableCode :
               PlayCombo(p, cards, target, requestedCode) => TypeOK'
<1>1. ASSUME DrawCard(p) PROVE TypeOK'
  <2>1. /\ Head(drawPile) \in Card
        /\ Tail(drawPile) \in Seq(Card)
    BY <1>1 DEF DrawCard, TypeOK
  <2>2. QED BY <1>1, <2>1, ResolveDrawnCardTyped DEF DrawCard, TypeOK
<1>2. ASSUME NEW card \in Card, NEW target \in Player \cup {NoPlayer},
             PlayCard(p, card, target)
      PROVE  TypeOK'
  <2>1. "PLAY_CARD" \in PendingActionType /\ <<card>> \in Seq(Card)
    BY DEF PendingActionType
  <2>2. Pending("PLAY_CARD", p, target, <<card>>) \in PendingAction
    BY <2>1, PendingTyped
  <2>3. QED BY <1>2, <2>2, OpenCancelWindowTyped DEF PlayCard
<1>3. ASSUME NEW cards \in SUBSET hands[p], NEW target \in Player \cup {NoPlayer},
             NEW requestedCode \in RequestableCode,
             PlayCombo(p, cards, target, requestedCode)
      PROVE  TypeOK'
  <2> DEFINE kind == ComboKindOf(hands[p], cards, requestedCode)
             bare == Pending("CARD_COMBO", p, target, <<>>)
             pending == [bare EXCEPT !.comboKind = kind, !.requestedCode = requestedCode]
  <2>1. "CARD_COMBO" \in PendingActionType /\ <<>> \in Seq(Card)
    BY DEF PendingActionType
  <2>2. bare \in PendingAction
    BY <2>1, PendingTyped
  <2>3. kind \in ComboKind
    BY DEF ComboKindOf, ComboKind
  <2>4. requestedCode \in CardCode \cup {NoCode}
    BY RequestAssumption
  <2>5. pending \in PendingAction
    BY <2>2, <2>3, <2>4 DEF PendingAction
  <2>6. cards \in SUBSET Card
    BY DEF TypeOK
  <2>7. QED BY <1>3, <2>5, <2>6, OpenCancelWindowTyped DEF PlayCombo
<1>4. QED BY <1>1, <1>2, <1>3

\* A cancel does.
LEMMA PlayCancelTyped ==
  ASSUME TypeOK, NEW p \in Player, NEW card \in Card, PlayCancel(p, card)
  PROVE  TypeOK'
<1>1. pendingAction \in PendingAction
  BY PendingActionTyped DEF PlayCancel, IsCancelable
<1>2. pendingAction' \in PendingAction
  <2>1. pendingAction.cancelCount + 1 \in Nat
    BY <1>1 DEF PendingAction
  <2>2. pendingAction' = [pendingAction EXCEPT !.cancelCount = pendingAction.cancelCount + 1]
    BY DEF PlayCancel
  <2>3. QED BY <1>1, <2>1, <2>2 DEF PendingAction
<1>3. hands' \in [Player -> SUBSET Card] /\ discardPile' \subseteq Card
  BY DEF PlayCancel, TypeOK
<1>4. markedCards' \in [Card -> Player \cup {NoPlayer}]
  BY ClearMarksTyped DEF PlayCancel
<1>5. QED BY <1>2, <1>3, <1>4 DEF PlayCancel, TypeOK

\* The placing of an explosive does.
LEMMA PlaceExplosiveTyped ==
  ASSUME TypeOK, NEW p \in Player, NEW index \in PlacementIndex,
         PlaceExplosive(p, index)
  PROVE  TypeOK'
<1>1. drawPile' \in Seq(Card)
  <2>1. pendingAction.cards[1] \in Card
    BY PendingActionTyped DEF PlaceExplosive
  <2>2. QED BY <2>1, InsertCardAtTyped DEF PlaceExplosive, PlacementIndex, TypeOK
<1>2. CASE pendingAction.reactiveExplosive
  <2>1. /\ hands \in [Player -> SUBSET Card]
        /\ discardPile \in SUBSET Card
        /\ pendingAction.originalCurrentPlayerID \in Player \cup {NoPlayer}
    BY PendingActionTyped DEF TypeOK
  <2>2. QED BY <1>1, <1>2, <2>1, ResolveUnsafeExplosivesTyped DEF PlaceExplosive
<1>3. CASE ~pendingAction.reactiveExplosive
  <2>1. TurnTyped'
    BY <1>3, CompleteCurrentTurnUnitTyped DEF PlaceExplosive
  <2>2. QED BY <1>1, <1>3, <2>1 DEF PlaceExplosive, TypeOK, TurnTyped
<1>4. QED BY <1>2, <1>3

\* The answers to a prompt do.
LEMMA AnswersTyped ==
  ASSUME TypeOK, NEW p \in Player, NEW card \in Card
  PROVE  /\ ChooseCardForRequest(p, card) => TypeOK'
         /\ ChooseMarkedCard(p, card) => TypeOK'
         /\ ChooseCardFromDiscard(p, card) => TypeOK'
<1>1. ASSUME ChooseCardForRequest(p, card) PROVE TypeOK'
  <2>1. pendingAction.sourcePlayerID \in Player
    BY <1>1 DEF ChooseCardForRequest, TypeOK
  <2>2. QED BY <1>1, <2>1, TransferCardTyped DEF ChooseCardForRequest
<1>2. ASSUME ChooseMarkedCard(p, card) PROVE TypeOK'
  BY <1>2 DEF ChooseMarkedCard, TypeOK, GamePhase
<1>3. ASSUME ChooseCardFromDiscard(p, card) PROVE TypeOK'
  <2> DEFINE h == [hands EXCEPT ![p] = @ \cup {card}]
  <2>1. /\ h \in [Player -> SUBSET Card]
        /\ discardPile \ {card} \in SUBSET Card
        /\ drawPile' \in Seq(Card)
        /\ currentPlayerID \in Player \cup {NoPlayer}
    BY <1>3 DEF ChooseCardFromDiscard, TypeOK
  <2>2. ResolveUnsafeExplosivesFrom(currentPlayerID, {p}, p, h, discardPile \ {card}, {})
    BY <1>3 DEF ChooseCardFromDiscard
  <2>3. QED BY <2>1, <2>2, ResolveUnsafeExplosivesTyped
<1>4. QED BY <1>1, <1>2, <1>3

\* The new order of the top of the pile does.
LEMMA SubmitReorderedTopCardsTyped ==
  ASSUME TypeOK, NEW p \in Player, NEW top \in Shuffles(pendingAction.cards),
         SubmitReorderedTopCards(p, top)
  PROVE  TypeOK'
<1> DEFINE n == Len(pendingAction.cards)
<1>1. top \in Seq(Card) /\ n \in Nat
  BY PendingActionTyped, ShufflesTyped
<1>2. SubSeq(drawPile, n + 1, Len(drawPile)) \in Seq(Card)
  BY <1>1 DEF TypeOK
<1>3. top \o SubSeq(drawPile, n + 1, Len(drawPile)) \in Seq(Card)
  BY <1>1, <1>2
<1>4. QED BY <1>3, ReorderDrawPileTyped DEF SubmitReorderedTopCards

\* A card for the recycling, the last one included, does.
LEMMA ChooseCardForRecycleTyped ==
  ASSUME TypeOK, NEW p \in Player, NEW card \in Card, ChooseCardForRecycle(p, card)
  PROVE  TypeOK'
<1> DEFINE ids == pendingAction.recyclePlayerIDs
           selections == [pendingAction.recycleSelections EXCEPT ![p] = card]
           h == [hands EXCEPT ![p] = @ \ {card}]
<1>1. pendingAction \in PendingAction
  BY PendingActionTyped DEF ChooseCardForRecycle
<1>2. /\ ids \subseteq Player
      /\ selections \in [Player -> Card \cup {NoCard}]
      /\ h \in [Player -> SUBSET Card]
  BY <1>1 DEF PendingAction, TypeOK
<1>3. CASE \E q \in ids : selections[q] = NoCard
  <2>1. [pendingAction EXCEPT !.recycleSelections = selections] \in PendingAction
    BY <1>1, <1>2 DEF PendingAction
  <2>2. markedCards' \in [Card -> Player \cup {NoPlayer}]
    BY <1>3, ClearMarksTyped DEF ChooseCardForRecycle
  <2>3. QED BY <1>2, <1>3, <2>1, <2>2 DEF ChooseCardForRecycle, TypeOK
<1>4. CASE ~\E q \in ids : selections[q] = NoCard
  <2>1. PICK order \in LookOrders(ids, NoPlayer) :
          drawPile' \in Shuffles(drawPile \o
             [i \in DOMAIN order |-> selections[order[i]]])
    BY <1>4 DEF ChooseCardForRecycle
  <2>2. PICK n \in 0..N : order \in [1..n -> ids]
    BY DEF LookOrders
  <2>3. [i \in DOMAIN order |-> selections[order[i]]] \in [1..n -> Card]
    BY <1>2, <1>4, <2>2
  <2>4. [i \in DOMAIN order |-> selections[order[i]]] \in Seq(Card)
    BY <2>3, NAssumption, FunctionIsSequence
  <2>5. drawPile \o [i \in DOMAIN order |-> selections[order[i]]] \in Seq(Card)
    BY <2>4 DEF TypeOK
  <2>6. drawPile' \in Seq(Card)
    BY <2>1, <2>5, ShufflesTyped
  <2>7. ResolveUnsafeExplosivesFrom(currentPlayerID, ids, NoPlayer, h, discardPile, {p})
    BY <1>4 DEF ChooseCardForRecycle
  <2>8. QED BY <1>2, <2>6, <2>7, ResolveUnsafeExplosivesTyped DEF TypeOK
<1>5. QED BY <1>3, <1>4

\* No step of the game takes a variable out of its type.
LEMMA NextTyped == TypeOK /\ [Next]_vars => TypeOK'
<1> SUFFICES ASSUME TypeOK, [Next]_vars PROVE TypeOK'
  OBVIOUS
<1>1. CASE ExpireCancelWindow
  BY <1>1, ExpireCancelWindowTyped
<1>2. ASSUME NEW p \in Player, DrawCard(p) PROVE TypeOK'
  BY <1>2, TurnCommandsTyped
<1>3. ASSUME NEW p \in Player, NEW index \in PlacementIndex, PlaceExplosive(p, index)
      PROVE  TypeOK'
  BY <1>3, PlaceExplosiveTyped
<1>4. ASSUME NEW p \in Player, NEW top \in Shuffles(pendingAction.cards),
             SubmitReorderedTopCards(p, top)
      PROVE  TypeOK'
  BY <1>4, SubmitReorderedTopCardsTyped
<1>5. ASSUME NEW p \in Player, NEW card \in Card
      PROVE  /\ \A target \in Player \cup {NoPlayer} : PlayCard(p, card, target) => TypeOK'
             /\ PlayCancel(p, card) => TypeOK'
             /\ ChooseCardForRequest(p, card) => TypeOK'
             /\ ChooseMarkedCard(p, card) => TypeOK'
             /\ ChooseCardForRecycle(p, card) => TypeOK'
             /\ ChooseCardFromDiscard(p, card) => TypeOK'
  BY <1>5, TurnCommandsTyped, PlayCancelTyped, AnswersTyped, ChooseCardForRecycleTyped
<1>6. ASSUME NEW p \in Player, NEW cards \in SUBSET hands[p],
             NEW target \in Player \cup {NoPlayer}, NEW requestedCode \in RequestableCode,
             PlayCombo(p, cards, target, requestedCode)
      PROVE  TypeOK'
  BY <1>6, TurnCommandsTyped
<1>7. CASE UNCHANGED vars
  BY <1>7 DEF vars, TypeOK
<1>8. QED BY <1>1, <1>2, <1>3, <1>4, <1>5, <1>6, <1>7 DEF Next

\* Whatever the commands and their order, every variable of the game keeps a
\* value of its type; in particular the turn debt never becomes negative, and
\* what is pending always has an owner (Engine's methods over a GameState).
THEOREM TypeCorrect == Spec => []TypeOK
<1>1. QED BY InitTyped, NextTyped, PTL DEF Spec

----------------------------------------------------------------------------
(* The turns the players owe.                                              *)

\* What is pending belongs to the current player: it is about their card or
\* their draw, or it is a placement that has interrupted their turn.
PendingIsCurrents ==
  pendingAction.type # "NONE" =>
    currentPlayerID = IF pendingAction.reactiveExplosive
                        THEN pendingAction.originalCurrentPlayerID
                        ELSE pendingAction.sourcePlayerID

\* A TARGET_EXTRA_TURNS that is waiting is aimed at another player.
ExtraTurnsHaveTarget ==
  (/\ pendingAction.type = "PLAY_CARD"
   /\ Code[pendingAction.cards[1]] = "TARGET_EXTRA_TURNS") =>
      pendingAction.targetPlayerID \in Player \ {pendingAction.sourcePlayerID}

\* The invariant that carries TurnDebtDiscipline.
DebtInv ==
  /\ TypeOK
  /\ TurnDebtDiscipline
  /\ phase # "GAME_OVER" => PendingIsCurrents
  /\ phase = "PLAYER_TURN" => pendingAction.type = "NONE"
  /\ pendingAction.reactiveExplosive => pendingAction.type = "EXPLOSIVE_PLACEMENT"
  /\ ExtraTurnsHaveTarget

\* What a step may do to the turns: the part of TurnsChangeHands that speaks of
\* this step.
DebtStep ==
  \A p \in Player :
    /\ turnDebt'[p] < turnDebt[p] => p = currentPlayerID
    /\ turnDebt'[p] > turnDebt[p] => p # currentPlayerID /\ p = currentPlayerID'

----------------------------------------------------------------------------
(* The turn moves on.                                                      *)

\* Handing the turn to q keeps the debts in order, if the others owe nothing by
\* then and q a turn or two, or none.
LEMMA AdvanceToPlayerDebt ==
  ASSUME NEW q, NEW debt \in [Player -> Nat], AdvanceToPlayer(q, debt),
         alive' \subseteq Player,
         \A p \in alive' \ {q} : debt[p] = 0,
         q \in alive' => debt[q] <= extraTurnDebt
  PROVE  TurnDebtDiscipline'
<1>1. currentPlayerID' = q
  BY DEF AdvanceToPlayer
<1>2. ASSUME NEW p \in alive', p # q PROVE turnDebt'[p] = 0
  <2>1. p \in Player /\ debt[p] = 0
    BY <1>2
  <2>2. turnDebt'[p] = debt[p]
    BY <1>2, <2>1 DEF AdvanceToPlayer
  <2>3. QED BY <2>1, <2>2
<1>3. ASSUME q \in alive' PROVE turnDebt'[q] \in 1..extraTurnDebt
  <2>1. q \in Player /\ debt[q] \in Nat
    BY <1>3
  <2>2. CASE debt[q] <= 0
    BY <2>1, <2>2 DEF AdvanceToPlayer, extraTurnDebt
  <2>3. CASE ~(debt[q] <= 0)
    BY <1>3, <2>1, <2>3 DEF AdvanceToPlayer
  <2>4. QED BY <2>2, <2>3
<1>4. QED BY <1>1, <1>2, <1>3 DEF TurnDebtDiscipline

\* So does handing it to the next one alive, if no one alive owes anything.
LEMMA AdvanceToNextAlivePlayerDebt ==
  ASSUME NEW from, NEW debt \in [Player -> Nat], alive' \subseteq Player,
         AdvanceToNextAlivePlayer(from, debt, alive'),
         \A p \in alive' : debt[p] = 0
  PROVE  TurnDebtDiscipline'
<1>1. CASE alive' = {}
  BY <1>1 DEF TurnDebtDiscipline
<1>2. CASE alive' # {}
  <2>1. PICK q \in Player : AdvanceToPlayer(q, debt)
    BY <1>2 DEF AdvanceToNextAlivePlayer
  <2>2. QED BY <2>1, AdvanceToPlayerDebt DEF extraTurnDebt
<1>3. QED BY <1>1, <1>2

\* So does the end of a turn.
LEMMA CompleteCurrentTurnUnitDebt ==
  ASSUME DebtInv, phase # "GAME_OVER", CompleteCurrentTurnUnit, UNCHANGED alive
  PROVE  TurnDebtDiscipline'
<1> DEFINE cp == currentPlayerID
           left == IF turnDebt[cp] > 0 THEN turnDebt[cp] - 1 ELSE turnDebt[cp]
           debt == [turnDebt EXCEPT ![cp] = left]
<1>0. alive \subseteq Player /\ turnDebt \in [Player -> Nat]
  BY DEF DebtInv, TypeOK
<1>1. /\ \A p \in alive \ {cp} : turnDebt[p] = 0
      /\ cp \in alive => turnDebt[cp] \in 1..extraTurnDebt
  BY DEF DebtInv, TurnDebtDiscipline
<1>2. debt \in [Player -> Nat]
  <2>1. CASE cp \in Player
    <3>1. turnDebt[cp] \in Nat
      BY <1>0, <2>1
    <3>2. left \in Nat
      BY <3>1
    <3>3. QED BY <1>0, <3>2
  <2>2. CASE cp \notin Player
    BY <1>0, <2>2
  <2>3. QED BY <2>1, <2>2
<1>3. CASE left > 0
  <2>1. turnDebt' = debt /\ currentPlayerID' = cp
    BY <1>3 DEF CompleteCurrentTurnUnit
  <2>2. \A p \in alive \ {cp} : debt[p] = 0
    BY <1>0, <1>1
  <2>3. cp \in alive => debt[cp] \in 1..extraTurnDebt
    <3> SUFFICES ASSUME cp \in alive PROVE debt[cp] \in 1..extraTurnDebt
      OBVIOUS
    <3>1. turnDebt[cp] \in 1..extraTurnDebt
      BY <1>1
    <3>2. debt[cp] = left
      BY <1>0
    <3>3. QED BY <1>3, <3>1, <3>2 DEF extraTurnDebt
  <2>4. ASSUME NEW p \in alive'
        PROVE  turnDebt'[p] \in IF p = currentPlayerID' THEN 1..extraTurnDebt ELSE {0}
    <3>1. CASE p = cp
      BY <2>1, <2>3, <3>1
    <3>2. CASE p # cp
      BY <2>1, <2>2, <3>2
    <3>3. QED BY <3>1, <3>2
  <2>5. QED BY <2>4 DEF TurnDebtDiscipline
<1>4. CASE ~(left > 0)
  <2>1. AdvanceToNextAlivePlayer(cp, debt, alive')
    BY <1>4 DEF CompleteCurrentTurnUnit
  <2>2. \A p \in alive' : debt[p] = 0
    <3> SUFFICES ASSUME NEW p \in alive PROVE debt[p] = 0
      OBVIOUS
    <3>1. CASE p = cp
      <4>1. p \in Player /\ debt[p] \in Nat
        BY <1>0, <1>2
      <4>2. debt[p] = left
        BY <1>0, <3>1, <4>1
      <4>3. ~(debt[p] > 0)
        BY <1>4, <4>2
      <4> HIDE DEF debt
      <4>4. QED BY <4>1, <4>3
    <3>2. CASE p # cp
      BY <1>0, <1>1, <3>2
    <3>3. QED BY <3>1, <3>2
  <2>3. QED BY <1>0, <1>2, <2>1, <2>2, AdvanceToNextAlivePlayerDebt
<1>5. QED BY <1>3, <1>4

\* So does moving on after a death, or ending the game.
LEMMA AdvanceOrEndGameDebt ==
  ASSUME DebtInv, NEW from, alive' \subseteq Player,
         AdvanceOrEndGame(from, alive'),
         \A p \in alive' : turnDebt[p] = 0
  PROVE  TurnDebtDiscipline'
<1>1. CASE phase' = "GAME_OVER"
  BY <1>1 DEF TurnDebtDiscipline
<1>2. CASE AdvanceToNextAlivePlayer(from, turnDebt, alive')
  BY <1>2, AdvanceToNextAlivePlayerDebt DEF DebtInv, TypeOK
<1>3. QED BY <1>1, <1>2 DEF AdvanceOrEndGame, SetWinner

----------------------------------------------------------------------------
(* Who is given turns, and who gets rid of them.                           *)

\* Handing the turn to q takes turns from the current player only and gives
\* some to q only, if the debts the step hands on have done so.
LEMMA AdvanceToPlayerStep ==
  ASSUME turnDebt \in [Player -> Nat], NEW q, NEW debt \in [Player -> Nat],
         AdvanceToPlayer(q, debt),
         \A p \in Player \ {q, currentPlayerID} : debt[p] = turnDebt[p],
         currentPlayerID \in Player => debt[currentPlayerID] <= turnDebt[currentPlayerID],
         q \in Player /\ q = currentPlayerID => turnDebt[q] > 0,
         q \in Player /\ q # currentPlayerID => debt[q] >= turnDebt[q]
  PROVE  DebtStep
<1> SUFFICES ASSUME NEW p \in Player
             PROVE  /\ turnDebt'[p] < turnDebt[p] => p = currentPlayerID
                    /\ turnDebt'[p] > turnDebt[p] =>
                         p # currentPlayerID /\ p = currentPlayerID'
  BY DEF DebtStep
<1>1. currentPlayerID' = q /\ turnDebt[p] \in Nat /\ debt[p] \in Nat
  BY DEF AdvanceToPlayer
<1>2. CASE p # q
  <2>1. turnDebt'[p] = debt[p]
    BY <1>2 DEF AdvanceToPlayer
  <2>2. QED BY <1>1, <1>2, <2>1
<1>3. CASE p = q
  <2>1. turnDebt'[p] = IF debt[p] <= 0 THEN 1 ELSE debt[p]
    BY <1>3 DEF AdvanceToPlayer
  <2>2. QED BY <1>1, <1>3, <2>1
<1>4. QED BY <1>2, <1>3

\* So does handing it to the next one alive.
LEMMA AdvanceToNextAlivePlayerStep ==
  ASSUME DebtInv, phase # "GAME_OVER", NEW from, NEW debt \in [Player -> Nat],
         NEW living \in SUBSET alive, AdvanceToNextAlivePlayer(from, debt, living),
         \A p \in Player \ {currentPlayerID} : debt[p] = turnDebt[p],
         currentPlayerID \in Player => debt[currentPlayerID] <= turnDebt[currentPlayerID]
  PROVE  DebtStep
<1>0. turnDebt \in [Player -> Nat]
  BY DEF DebtInv, TypeOK
<1>1. CASE living = {}
  <2>1. turnDebt' = debt
    BY <1>1 DEF AdvanceToNextAlivePlayer
  <2>2. ASSUME NEW p \in Player
        PROVE  turnDebt'[p] <= turnDebt[p] /\ (p # currentPlayerID => turnDebt'[p] = turnDebt[p])
    BY <1>0, <2>1, <2>2
  <2>3. ASSUME NEW p \in Player PROVE turnDebt[p] \in Nat /\ turnDebt'[p] \in Nat
    BY <1>0, <2>1
  <2>4. QED BY <2>2, <2>3 DEF DebtStep
<1>2. CASE living # {}
  <2>1. PICK q \in Player : q \in living /\ AdvanceToPlayer(q, debt)
    BY <1>2 DEF AdvanceToNextAlivePlayer, IsNextAlive
  <2>2. q = currentPlayerID => turnDebt[q] > 0
    BY <2>1 DEF DebtInv, TurnDebtDiscipline, extraTurnDebt
  <2>3. q # currentPlayerID => debt[q] >= turnDebt[q]
    BY <1>0
  <2>4. QED BY <1>0, <2>1, <2>2, <2>3, AdvanceToPlayerStep
<1>3. QED BY <1>1, <1>2

\* So does the end of a turn.
LEMMA CompleteCurrentTurnUnitStep ==
  ASSUME DebtInv, phase # "GAME_OVER", CompleteCurrentTurnUnit
  PROVE  DebtStep
<1> DEFINE cp == currentPlayerID
           left == IF turnDebt[cp] > 0 THEN turnDebt[cp] - 1 ELSE turnDebt[cp]
           debt == [turnDebt EXCEPT ![cp] = left]
<1>0. turnDebt \in [Player -> Nat]
  BY DEF DebtInv, TypeOK
<1>1. \A p \in Player \ {cp} : debt[p] = turnDebt[p]
  BY <1>0
<1>2. ASSUME cp \in Player
      PROVE  turnDebt[cp] \in Nat /\ debt[cp] = left /\ left \in Nat /\ left <= turnDebt[cp]
  <2>1. turnDebt[cp] \in Nat /\ debt[cp] = left
    BY <1>0, <1>2
  <2>2. QED BY <2>1
<1>3. debt \in [Player -> Nat]
  BY <1>0, <1>2
<1>4. CASE left > 0
  <2>1. turnDebt' = debt
    BY <1>4 DEF CompleteCurrentTurnUnit
  <2> HIDE DEF debt
  <2>2. ASSUME NEW p \in Player
        PROVE  /\ turnDebt'[p] \in Nat /\ turnDebt[p] \in Nat
               /\ turnDebt'[p] <= turnDebt[p]
               /\ p # cp => turnDebt'[p] = turnDebt[p]
    BY <1>0, <1>1, <1>2, <1>3, <2>1
  <2>3. QED BY <2>2 DEF DebtStep
<1>5. CASE ~(left > 0)
  <2>1. AdvanceToNextAlivePlayer(cp, debt, alive)
    BY <1>5 DEF CompleteCurrentTurnUnit
  <2> HIDE DEF debt, left
  <2>2. cp \in Player => debt[cp] <= turnDebt[cp]
    BY <1>2
  <2>3. QED BY <1>1, <1>3, <2>1, <2>2, AdvanceToNextAlivePlayerStep
<1>6. QED BY <1>4, <1>5

\* A step without turns to count is right.
LEMMA StillDebtStep ==
  ASSUME TypeOK, UNCHANGED turnDebt
  PROVE  DebtStep
<1>1. \A p \in Player : turnDebt[p] \in Nat /\ turnDebt'[p] = turnDebt[p]
  BY DEF TypeOK
<1>2. QED BY <1>1 DEF DebtStep

\* So does moving on after a death, or ending the game.
LEMMA AdvanceOrEndGameStep ==
  ASSUME DebtInv, phase # "GAME_OVER", NEW from, NEW living \in SUBSET alive,
         AdvanceOrEndGame(from, living)
  PROVE  DebtStep
<1>0. TypeOK /\ turnDebt \in [Player -> Nat]
  BY DEF DebtInv, TypeOK
<1>1. CASE UNCHANGED turnDebt
  BY <1>0, <1>1, StillDebtStep
<1>2. CASE AdvanceToNextAlivePlayer(from, turnDebt, living)
  <2>1. currentPlayerID \in Player => turnDebt[currentPlayerID] <= turnDebt[currentPlayerID]
    BY <1>0
  <2>2. QED BY <1>0, <1>2, <2>1, AdvanceToNextAlivePlayerStep
<1>3. QED BY <1>1, <1>2 DEF AdvanceOrEndGame, SetWinner

----------------------------------------------------------------------------
(* The parts of the steps.                                                 *)

\* The invariant after a step that leaves nothing pending.
LEMMA NothingPendingDebt ==
  ASSUME TypeOK', TurnDebtDiscipline', pendingAction' = NoPendingAction
  PROVE  DebtInv'
BY DEF DebtInv, PendingIsCurrents, ExtraTurnsHaveTarget, NoPendingAction, Pending

\* The invariant after a step that asks the current player for something, or
\* somebody else for them.
LEMMA AskingDebt ==
  ASSUME DebtInv, TypeOK', phase # "GAME_OVER", phase' # "PLAYER_TURN",
         alive' \subseteq alive, UNCHANGED <<currentPlayerID, turnDebt>>,
         ~pendingAction'.reactiveExplosive,
         pendingAction'.sourcePlayerID = currentPlayerID,
         ExtraTurnsHaveTarget'
  PROVE  DebtInv' /\ DebtStep
<1>1. TurnDebtDiscipline'
  BY DEF DebtInv, TurnDebtDiscipline
<1>2. DebtInv'
  BY <1>1 DEF DebtInv, PendingIsCurrents
<1>3. QED BY <1>2, StillDebtStep DEF DebtInv

\* The resolution of the explosives interrupts the turn or ends it.
LEMMA ResolveUnsafeExplosivesDebt ==
  ASSUME DebtInv, TypeOK', phase # "GAME_OVER",
         NEW ids, NEW first, NEW h, NEW discard, NEW cleared,
         ResolveUnsafeExplosivesFrom(currentPlayerID, ids, first, h, discard, cleared)
  PROVE  DebtInv' /\ DebtStep
<1>1. alive' \subseteq alive
  BY DEF ResolveUnsafeExplosivesFrom
<1>2. \/ \E queue : StartNextUnsafeExplosivePlacement(queue, currentPlayerID)
      \/ FinishUnsafeExplosiveResolution(currentPlayerID, alive')
  BY Zenon DEF ResolveUnsafeExplosivesFrom
<1>3. ASSUME NEW queue, StartNextUnsafeExplosivePlacement(queue, currentPlayerID)
      PROVE  DebtInv' /\ DebtStep
  <2>1. /\ phase' = "WAITING_EXPLOSIVE_PLACEMENT"
        /\ pendingAction'.type = "EXPLOSIVE_PLACEMENT"
        /\ pendingAction'.reactiveExplosive
        /\ pendingAction'.originalCurrentPlayerID = currentPlayerID
        /\ UNCHANGED <<currentPlayerID, turnDebt>>
    BY <1>3 DEF StartNextUnsafeExplosivePlacement, Pending
  <2>2. TurnDebtDiscipline'
    BY <1>1, <2>1 DEF DebtInv, TurnDebtDiscipline
  <2>3. DebtInv'
    BY <2>1, <2>2 DEF DebtInv, PendingIsCurrents, ExtraTurnsHaveTarget
  <2>4. QED BY <2>1, <2>3, StillDebtStep DEF DebtInv
<1>4. CASE FinishUnsafeExplosiveResolution(currentPlayerID, alive')
  <2>1. CASE currentPlayerID \in alive' /\ ~IsGameOver(alive')
    <3>1. UNCHANGED <<currentPlayerID, turnDebt>> /\ pendingAction' = NoPendingAction
      BY <1>4, <2>1 DEF FinishUnsafeExplosiveResolution
    <3>2. TurnDebtDiscipline'
      BY <1>1, <3>1 DEF DebtInv, TurnDebtDiscipline
    <3>3. QED BY <3>1, <3>2, NothingPendingDebt, StillDebtStep DEF DebtInv
  <2>2. CASE ~(currentPlayerID \in alive' /\ ~IsGameOver(alive'))
    <3>1. AdvanceOrEndGame(currentPlayerID, alive') /\ pendingAction' = NoPendingAction
      BY <1>4, <2>2 DEF FinishUnsafeExplosiveResolution
    <3>2. TurnDebtDiscipline'
      <4>1. CASE IsGameOver(alive')
        BY <3>1, <4>1 DEF AdvanceOrEndGame, SetWinner, TurnDebtDiscipline
      <4>2. CASE currentPlayerID \notin alive'
        <5>1. \A p \in alive' : turnDebt[p] = 0
          BY <1>1, <4>2 DEF DebtInv, TurnDebtDiscipline
        <5>2. alive' \subseteq Player
          BY DEF TypeOK
        <5>3. QED BY <3>1, <5>1, <5>2, AdvanceOrEndGameDebt
      <4>3. QED BY <2>2, <4>1, <4>2
    <3>3. DebtStep
      BY <1>1, <3>1, AdvanceOrEndGameStep
    <3>4. QED BY <3>1, <3>2, <3>3, NothingPendingDebt
  <2>3. QED BY <2>1, <2>2
<1>5. QED BY <1>2, <1>3, <1>4

\* A drawn card ends a turn, asks for a placement or kills who has drawn it.
LEMMA ResolveDrawnCardDebt ==
  ASSUME DebtInv, TypeOK', phase # "GAME_OVER",
         NEW drawn, NEW rest, NEW pending, pending.type = "NONE",
         ~pending.reactiveExplosive,
         ResolveDrawnCard(currentPlayerID, drawn, rest, pending)
  PROVE  DebtInv' /\ DebtStep
<1>0. ASSUME pendingAction' = pending, TurnDebtDiscipline'
      PROVE  DebtInv'
  BY <1>0 DEF DebtInv, PendingIsCurrents, ExtraTurnsHaveTarget
<1>1. CASE KeepDrawnCard(currentPlayerID, drawn, pending)
  BY <1>0, <1>1, CompleteCurrentTurnUnitDebt, CompleteCurrentTurnUnitStep
     DEF KeepDrawnCard
<1>2. CASE ShieldFromDrawnExplosive(currentPlayerID, drawn)
  <2>1. /\ phase' = "WAITING_EXPLOSIVE_PLACEMENT"
        /\ UNCHANGED <<alive, currentPlayerID, turnDebt>>
        /\ pendingAction' = Pending("EXPLOSIVE_PLACEMENT", currentPlayerID,
                                    NoPlayer, <<drawn>>)
    BY <1>2 DEF ShieldFromDrawnExplosive
  <2>2. /\ ~pendingAction'.reactiveExplosive
        /\ pendingAction'.sourcePlayerID = currentPlayerID
        /\ ExtraTurnsHaveTarget'
    BY <2>1 DEF Pending, ExtraTurnsHaveTarget
  <2>3. QED BY <2>1, <2>2, AskingDebt
<1>3. CASE EliminatedByDrawnExplosive(currentPlayerID, drawn, pending)
  <2>1. /\ alive' = alive \ {currentPlayerID}
        /\ AdvanceOrEndGame(currentPlayerID, alive')
        /\ pendingAction' = pending
    BY <1>3 DEF EliminatedByDrawnExplosive
  <2>2. \A p \in alive' : turnDebt[p] = 0
    BY <2>1 DEF DebtInv, TurnDebtDiscipline
  <2>3. alive' \subseteq Player
    BY DEF TypeOK
  <2>4. TurnDebtDiscipline'
    BY <2>1, <2>2, <2>3, AdvanceOrEndGameDebt
  <2>5. DebtStep
    BY <2>1, AdvanceOrEndGameStep
  <2>6. QED BY <1>0, <2>1, <2>4, <2>5
<1>4. QED BY <1>1, <1>2, <1>3 DEF ResolveDrawnCard

\* A card or a combination on the table is the current player's.
LEMMA OpenCancelWindowDebt ==
  ASSUME DebtInv, TypeOK', phase # "GAME_OVER",
         NEW played, NEW pending, ~pending.reactiveExplosive,
         pending.sourcePlayerID = currentPlayerID,
         (pending.type = "PLAY_CARD" /\ Code[pending.cards[1]] = "TARGET_EXTRA_TURNS") =>
             pending.targetPlayerID \in Player \ {pending.sourcePlayerID},
         OpenCancelWindow(currentPlayerID, played, pending)
  PROVE  DebtInv' /\ DebtStep
<1>1. /\ pendingAction' = pending
      /\ phase' = "CANCEL_WINDOW"
      /\ UNCHANGED <<alive, currentPlayerID, turnDebt>>
  BY DEF OpenCancelWindow
<1>2. ExtraTurnsHaveTarget'
  BY <1>1 DEF ExtraTurnsHaveTarget
<1>3. QED BY <1>1, <1>2, AskingDebt

\* Every action card of the current player keeps the invariant.
LEMMA ResolvePlayedCardDebt ==
  ASSUME DebtInv, TypeOK', phase # "GAME_OVER", currentPlayerID \in Player,
         NEW code, NEW target,
         code = "TARGET_EXTRA_TURNS" => target \in Player \ {currentPlayerID},
         ResolvePlayedCard(code, currentPlayerID, target)
  PROVE  DebtInv' /\ DebtStep
<1> DEFINE source == currentPlayerID
<1>0. /\ TypeOK
      /\ turnDebt \in [Player -> Nat]
      /\ \A p \in alive \ {source} : turnDebt[p] = 0
      /\ alive \subseteq Player
  BY DEF DebtInv, TypeOK, TurnDebtDiscipline
<1>1. ASSUME pendingAction' = NoPendingAction, UNCHANGED <<alive, currentPlayerID, turnDebt>>
      PROVE  DebtInv' /\ DebtStep
  <2>1. TurnDebtDiscipline'
    BY <1>1 DEF DebtInv, TurnDebtDiscipline
  <2>2. QED BY <1>0, <1>1, <2>1, NothingPendingDebt, StillDebtStep
<1>2. ASSUME NEW pile, ReorderDrawPile(pile) PROVE DebtInv' /\ DebtStep
  BY <1>1, <1>2 DEF ReorderDrawPile
<1>3. ASSUME NEW waiting, NEW pending, waiting # "PLAYER_TURN",
             WaitFor(waiting, pending), ~pending.reactiveExplosive,
             pending.sourcePlayerID = source, pending.type # "PLAY_CARD"
      PROVE  DebtInv' /\ DebtStep
  <2>1. /\ phase' = waiting
        /\ pendingAction' = pending
        /\ UNCHANGED <<alive, currentPlayerID, turnDebt>>
    BY <1>3 DEF WaitFor
  <2>2. ExtraTurnsHaveTarget'
    BY <1>3, <2>1 DEF ExtraTurnsHaveTarget
  <2>3. QED BY <1>3, <2>1, <2>2, AskingDebt
<1>4. ASSUME NEW q \in Player, q # source \/ q \in alive, ResolveExtraTurns(source, q)
      PROVE  DebtInv' /\ DebtStep
  <2> DEFINE debt == [[turnDebt EXCEPT ![q] = @ + extraTurnDebt] EXCEPT ![source] = 0]
  <2>1. /\ debt \in [Player -> Nat]
        /\ debt[source] = 0
        /\ q # source => debt[q] = turnDebt[q] + extraTurnDebt
        /\ \A p \in Player \ {q, source} : debt[p] = turnDebt[p]
    BY <1>0 DEF extraTurnDebt
  <2>2. AdvanceToPlayer(q, debt)
    BY <1>4 DEF ResolveExtraTurns
  <2> HIDE DEF debt
  <2>3. TurnDebtDiscipline'
    <3>1. alive' = alive
      BY <1>4 DEF ResolveExtraTurns, OnlyTurnChanges
    <3>2. \A p \in alive' \ {q} : debt[p] = 0
      BY <1>0, <2>1, <3>1
    <3>3. q \in alive' => debt[q] <= extraTurnDebt
      BY <1>0, <2>1, <3>1 DEF extraTurnDebt
    <3>4. QED BY <1>0, <2>1, <2>2, <3>1, <3>2, <3>3, AdvanceToPlayerDebt
  <2>4. DebtStep
    <3>1. debt[source] <= turnDebt[source]
      BY <1>0, <2>1
    <3>2. q = source => turnDebt[q] > 0
      BY <1>4 DEF DebtInv, TurnDebtDiscipline, extraTurnDebt
    <3>3. q # source => debt[q] >= turnDebt[q]
      BY <1>0, <2>1 DEF extraTurnDebt
    <3>4. QED BY <1>0, <2>1, <2>2, <3>1, <3>2, <3>3, AdvanceToPlayerStep
  <2>5. pendingAction' = NoPendingAction
    BY <1>4 DEF ResolveExtraTurns, OnlyTurnChanges
  <2>6. QED BY <2>3, <2>4, <2>5, NothingPendingDebt
<1>5. CASE ResolveSkipTurn
  BY <1>5, CompleteCurrentTurnUnitDebt, CompleteCurrentTurnUnitStep, NothingPendingDebt
     DEF ResolveSkipTurn, OnlyTurnChanges
<1>6. CASE ResolveSkipAllTurns(source)
  <2> DEFINE debt == [turnDebt EXCEPT ![source] = 0]
  <2>1. /\ debt \in [Player -> Nat]
        /\ \A p \in Player \ {source} : debt[p] = turnDebt[p]
        /\ debt[source] = 0
    BY <1>0
  <2>2. /\ AdvanceToNextAlivePlayer(source, debt, alive)
        /\ pendingAction' = NoPendingAction
        /\ alive' = alive
    BY <1>6 DEF ResolveSkipAllTurns, OnlyTurnChanges
  <2> HIDE DEF debt
  <2>3. \A p \in alive' : debt[p] = 0
    BY <1>0, <2>1, <2>2
  <2>4. TurnDebtDiscipline'
    BY <1>0, <2>1, <2>2, <2>3, AdvanceToNextAlivePlayerDebt
  <2>5. DebtStep
    <3>1. debt[source] <= turnDebt[source]
      BY <1>0, <2>1
    <3>2. QED BY <2>1, <2>2, <3>1, AdvanceToNextAlivePlayerStep
  <2>6. QED BY <2>2, <2>4, <2>5, NothingPendingDebt
<1>7. ASSUME NEW waiting, NEW type, NEW q, NEW cards,
             waiting # "PLAYER_TURN", type # "PLAY_CARD",
             WaitFor(waiting, Pending(type, source, q, cards))
      PROVE  DebtInv' /\ DebtStep
  <2> DEFINE pending == Pending(type, source, q, cards)
  <2>1. ~pending.reactiveExplosive /\ pending.sourcePlayerID = source /\ pending.type = type
    BY DEF Pending
  <2> HIDE DEF pending
  <2>2. WaitFor(waiting, pending)
    BY <1>7 DEF pending
  <2>3. QED BY <1>3, <1>7, <2>1, <2>2
<1>8. CASE ResolveDrawFromBottom(source)
  <2>1. NoPendingAction.type = "NONE" /\ ~NoPendingAction.reactiveExplosive
    BY DEF NoPendingAction, Pending
  <2>2. QED BY <1>2, <1>8, <2>1, ResolveDrawnCardDebt DEF ResolveDrawFromBottom, NothingMoves
<1>9. ASSUME NEW limit, ResolveReorderTop(source, limit) PROVE DebtInv' /\ DebtStep
  <2>1. CASE ReorderDrawPile(drawPile)
    BY <1>2, <2>1
  <2>2. CASE WaitFor("WAITING_DECK_REORDER",
                     Pending("DECK_REORDER", source, NoPlayer, TopCards(drawPile, limit)))
    BY <1>7, <2>2
  <2>3. QED BY <1>9, <2>1, <2>2 DEF ResolveReorderTop, NothingMoves
<1>10. CASE ResolveCollectiveRecycle(source)
  <2> DEFINE pending == [Pending("RECYCLE_CHOICES", source, NoPlayer, <<>>)
                           EXCEPT !.recyclePlayerIDs = {p \in alive : hands[p] # {}}]
  <2>1. /\ ~pending.reactiveExplosive /\ pending.sourcePlayerID = source
        /\ pending.type = "RECYCLE_CHOICES"
    BY DEF Pending
  <2>2. CASE ResolveShuffleDeck
    BY <1>2, <2>2 DEF ResolveShuffleDeck
  <2>3. CASE WaitFor("WAITING_RECYCLE_CHOICES", pending)
    <3> HIDE DEF pending
    <3>1. QED BY <1>3, <2>1, <2>3
  <2>4. QED BY <1>10, <2>2, <2>3 DEF ResolveCollectiveRecycle
<1>11. CASE \E q \in Player : IsNextAlive(source, q, alive) /\ ResolveExtraTurns(source, q)
  BY <1>4, <1>11 DEF IsNextAlive
<1>12. CASE ResolveShuffleDeck \/ ResolvePeekDeck \/ ResolveSwapTopBottom
  BY <1>2, <1>12 DEF ResolveShuffleDeck, ResolvePeekDeck, NothingMoves, ResolveSwapTopBottom
<1>13. CASE code = "TARGET_EXTRA_TURNS" /\ ResolveExtraTurns(source, target)
  BY <1>4, <1>13
<1>14. CASE ResolveRequestCard(source, target)
  BY <1>7, <1>14 DEF ResolveRequestCard
<1>15. CASE ResolveRevealHeldCard(source, target)
  BY <1>7, <1>15 DEF ResolveRevealHeldCard
<1>16. QED BY <1>5, <1>6, <1>8, <1>9, <1>10, <1>11, <1>12, <1>13, <1>14, <1>15
           DEF ResolvePlayedCard

\* Every combination of the current player keeps it.
LEMMA ResolveComboDebt ==
  ASSUME DebtInv, TypeOK', phase # "GAME_OVER",
         NEW kind, NEW target, NEW requestedCode,
         ResolveCombo(kind, currentPlayerID, target, requestedCode)
  PROVE  DebtInv' /\ DebtStep
<1>1. CASE NothingMoves
  <2>1. /\ pendingAction' = NoPendingAction
        /\ UNCHANGED <<alive, currentPlayerID, turnDebt>>
    BY <1>1 DEF NothingMoves, ReorderDrawPile
  <2>2. TurnDebtDiscipline'
    BY <2>1 DEF DebtInv, TurnDebtDiscipline
  <2>3. QED BY <2>1, <2>2, NothingPendingDebt, StillDebtStep DEF DebtInv
<1>2. ASSUME NEW card, TransferCard(card, target, currentPlayerID)
      PROVE  DebtInv' /\ DebtStep
  BY <1>2, ResolveUnsafeExplosivesDebt DEF TransferCard
<1>3. CASE ResolveFiveDifferent(currentPlayerID)
  <2>1. /\ phase' = "WAITING_DISCARD_RECOVERY"
        /\ pendingAction'.type = "DISCARD_RECOVERY"
        /\ ~pendingAction'.reactiveExplosive
        /\ pendingAction'.sourcePlayerID = currentPlayerID
        /\ UNCHANGED <<alive, currentPlayerID, turnDebt>>
    BY <1>3 DEF ResolveFiveDifferent, WaitFor, Pending
  <2>2. ExtraTurnsHaveTarget'
    BY <2>1 DEF ExtraTurnsHaveTarget
  <2>3. QED BY <2>1, <2>2, AskingDebt
<1>4. QED BY <1>1, <1>2, <1>3 DEF ResolveCombo, ResolvePair, ResolveTriple

----------------------------------------------------------------------------
(* The steps of the game.                                                  *)

\* The end of the cancel window keeps the invariant.
LEMMA ExpireCancelWindowDebt ==
  ASSUME DebtInv, TypeOK', ExpireCancelWindow
  PROVE  DebtInv' /\ DebtStep
<1>1. phase # "GAME_OVER" /\ pendingAction \in PendingAction
  BY PendingActionTyped DEF ExpireCancelWindow, IsCancelable, DebtInv
<1>2. pendingAction.sourcePlayerID = currentPlayerID
  BY <1>1 DEF ExpireCancelWindow, IsCancelable, DebtInv, PendingIsCurrents
<1>3. currentPlayerID \in Player
  BY <1>1, <1>2 DEF PendingAction
<1>4. CASE NothingMoves
  <2>1. /\ pendingAction' = NoPendingAction
        /\ UNCHANGED <<alive, currentPlayerID, turnDebt>>
    BY <1>4 DEF NothingMoves, ReorderDrawPile
  <2>2. TurnDebtDiscipline'
    BY <1>1, <2>1 DEF DebtInv, TurnDebtDiscipline
  <2>3. QED BY <2>1, <2>2, NothingPendingDebt, StillDebtStep DEF DebtInv
<1>5. CASE /\ pendingAction.type = "PLAY_CARD"
           /\ ResolvePlayedCard(Code[pendingAction.cards[1]], currentPlayerID,
                                pendingAction.targetPlayerID)
  BY <1>1, <1>2, <1>3, <1>5, ResolvePlayedCardDebt DEF DebtInv, ExtraTurnsHaveTarget
<1>6. CASE ResolveCombo(pendingAction.comboKind, currentPlayerID,
                        pendingAction.targetPlayerID, pendingAction.requestedCode)
  BY <1>1, <1>6, ResolveComboDebt
<1>7. QED BY <1>2, <1>4, <1>5, <1>6 DEF ExpireCancelWindow, ResolveCancelWindow

\* So do the commands of a player's turn.
LEMMA TurnCommandsDebt ==
  ASSUME DebtInv, TypeOK', NEW p \in Player
  PROVE  /\ DrawCard(p) => DebtInv' /\ DebtStep
         /\ \A card, target : PlayCard(p, card, target) => DebtInv' /\ DebtStep
         /\ \A cards, target, code : PlayCombo(p, cards, target, code) => DebtInv' /\ DebtStep
<1>1. ASSUME InTurn(p)
      PROVE  /\ phase # "GAME_OVER" /\ p = currentPlayerID
             /\ pendingAction.type = "NONE" /\ ~pendingAction.reactiveExplosive
  BY <1>1 DEF InTurn, DebtInv
<1>2. ASSUME DrawCard(p) PROVE DebtInv' /\ DebtStep
  BY <1>1, <1>2, ResolveDrawnCardDebt DEF DrawCard
<1>3. ASSUME NEW card, NEW target, PlayCard(p, card, target)
      PROVE  DebtInv' /\ DebtStep
  <2> DEFINE pending == Pending("PLAY_CARD", p, target, <<card>>)
  <2>1. /\ ~pending.reactiveExplosive /\ pending.sourcePlayerID = p
        /\ pending.targetPlayerID = target /\ pending.cards[1] = card
    BY DEF Pending
  <2>2. Code[card] = "TARGET_EXTRA_TURNS" => target \in Player \ {p}
    BY <1>3 DEF PlayCard, TargetOfCard, ValidTarget, DebtInv, TypeOK
  <2> HIDE DEF pending
  <2>3. OpenCancelWindow(p, {card}, pending) /\ InTurn(p)
    BY <1>3 DEF PlayCard, pending
  <2>4. QED BY <1>1, <2>1, <2>2, <2>3, OpenCancelWindowDebt
<1>4. ASSUME NEW cards, NEW target, NEW code, PlayCombo(p, cards, target, code)
      PROVE  DebtInv' /\ DebtStep
  <2> DEFINE pending == [Pending("CARD_COMBO", p, target, <<>>)
                           EXCEPT !.comboKind = ComboKindOf(hands[p], cards, code),
                                  !.requestedCode = code]
  <2>1. /\ ~pending.reactiveExplosive /\ pending.sourcePlayerID = p
        /\ pending.type = "CARD_COMBO"
    BY DEF Pending
  <2> HIDE DEF pending
  <2>2. OpenCancelWindow(p, cards, pending) /\ InTurn(p)
    BY <1>4 DEF PlayCombo, pending
  <2>3. QED BY <1>1, <2>1, <2>2, OpenCancelWindowDebt
<1>5. QED BY <1>2, <1>3, <1>4

\* So does a cancel.
LEMMA PlayCancelDebt ==
  ASSUME DebtInv, TypeOK', NEW p, NEW card, PlayCancel(p, card)
  PROVE  DebtInv' /\ DebtStep
<1>1. pendingAction \in PendingAction /\ phase = "CANCEL_WINDOW"
  BY PendingActionTyped DEF PlayCancel, IsCancelable, DebtInv
<1>2. /\ pendingAction'.type = pendingAction.type
      /\ pendingAction'.sourcePlayerID = pendingAction.sourcePlayerID
      /\ pendingAction'.targetPlayerID = pendingAction.targetPlayerID
      /\ pendingAction'.cards = pendingAction.cards
      /\ pendingAction'.reactiveExplosive = pendingAction.reactiveExplosive
      /\ UNCHANGED <<phase, alive, currentPlayerID, turnDebt>>
  BY <1>1 DEF PlayCancel, PendingAction
<1>3. ~pendingAction.reactiveExplosive /\ pendingAction.sourcePlayerID = currentPlayerID
  BY <1>1 DEF PlayCancel, IsCancelable, DebtInv, PendingIsCurrents
<1>4. ExtraTurnsHaveTarget'
  BY <1>2 DEF DebtInv, ExtraTurnsHaveTarget
<1>5. QED BY <1>1, <1>2, <1>3, <1>4, AskingDebt

\* So do the answers to what is pending.
LEMMA AnswersDebt ==
  ASSUME DebtInv, TypeOK', NEW p
  PROVE  /\ \A index : PlaceExplosive(p, index) => DebtInv' /\ DebtStep
         /\ \A top : SubmitReorderedTopCards(p, top) => DebtInv' /\ DebtStep
         /\ \A card :
              \/ ChooseCardForRequest(p, card)
              \/ ChooseMarkedCard(p, card)
              \/ ChooseCardForRecycle(p, card)
              \/ ChooseCardFromDiscard(p, card)
              => DebtInv' /\ DebtStep
<1>1. ASSUME phase # "GAME_OVER", pendingAction' = NoPendingAction,
             UNCHANGED <<alive, currentPlayerID, turnDebt>>
      PROVE  DebtInv' /\ DebtStep
  <2>1. TurnDebtDiscipline'
    BY <1>1 DEF DebtInv, TurnDebtDiscipline
  <2>2. QED BY <1>1, <2>1, NothingPendingDebt, StillDebtStep DEF DebtInv
<1>2. ASSUME NEW index, PlaceExplosive(p, index) PROVE DebtInv' /\ DebtStep
  <2>1. phase = "WAITING_EXPLOSIVE_PLACEMENT" /\ pendingAction.type = "EXPLOSIVE_PLACEMENT"
    BY <1>2 DEF PlaceExplosive
  <2>2. CASE pendingAction.reactiveExplosive
    <3>1. pendingAction.originalCurrentPlayerID = currentPlayerID
      BY <2>1, <2>2 DEF DebtInv, PendingIsCurrents
    <3>2. ResolveUnsafeExplosivesFrom(currentPlayerID, {p}, p, hands, discardPile, {})
      BY <1>2, <2>2, <3>1 DEF PlaceExplosive
    <3>3. QED BY <2>1, <3>2, ResolveUnsafeExplosivesDebt
  <2>3. CASE ~pendingAction.reactiveExplosive
    BY <1>2, <2>1, <2>3, CompleteCurrentTurnUnitDebt, CompleteCurrentTurnUnitStep,
       NothingPendingDebt DEF PlaceExplosive
  <2>4. QED BY <2>2, <2>3
<1>3. ASSUME NEW top, SubmitReorderedTopCards(p, top) PROVE DebtInv' /\ DebtStep
  BY <1>1, <1>3 DEF SubmitReorderedTopCards, ReorderDrawPile
<1>4. ASSUME NEW card, ChooseCardForRequest(p, card) PROVE DebtInv' /\ DebtStep
  BY <1>4, ResolveUnsafeExplosivesDebt DEF ChooseCardForRequest, TransferCard
<1>5. ASSUME NEW card, ChooseMarkedCard(p, card) PROVE DebtInv' /\ DebtStep
  BY <1>1, <1>5 DEF ChooseMarkedCard
<1>6. ASSUME NEW card, ChooseCardFromDiscard(p, card) PROVE DebtInv' /\ DebtStep
  BY <1>6, ResolveUnsafeExplosivesDebt DEF ChooseCardFromDiscard
<1>7. ASSUME NEW card, ChooseCardForRecycle(p, card) PROVE DebtInv' /\ DebtStep
  <2> DEFINE selections == [pendingAction.recycleSelections EXCEPT ![p] = card]
  <2>1. /\ phase = "WAITING_RECYCLE_CHOICES"
        /\ pendingAction.type = "RECYCLE_CHOICES"
        /\ pendingAction \in PendingAction
    BY <1>7, PendingActionTyped DEF ChooseCardForRecycle, DebtInv
  <2>2. CASE /\ pendingAction' = [pendingAction EXCEPT !.recycleSelections = selections]
             /\ UNCHANGED <<phase, alive, currentPlayerID, turnDebt>>
    <3>1. /\ pendingAction'.type = "RECYCLE_CHOICES"
          /\ pendingAction'.sourcePlayerID = pendingAction.sourcePlayerID
          /\ pendingAction'.reactiveExplosive = pendingAction.reactiveExplosive
      BY <2>1, <2>2 DEF PendingAction
    <3>2. ~pendingAction.reactiveExplosive /\ pendingAction.sourcePlayerID = currentPlayerID
      BY <2>1 DEF DebtInv, PendingIsCurrents
    <3>3. ExtraTurnsHaveTarget'
      BY <3>1 DEF ExtraTurnsHaveTarget
    <3>4. QED BY <2>1, <2>2, <3>1, <3>2, <3>3, AskingDebt
  <2>3. ASSUME NEW ids, NEW h,
               ResolveUnsafeExplosivesFrom(currentPlayerID, ids, NoPlayer, h, discardPile, {p})
        PROVE  DebtInv' /\ DebtStep
    BY <2>1, <2>3, ResolveUnsafeExplosivesDebt
  <2>4. QED BY <1>7, <2>2, <2>3 DEF ChooseCardForRecycle
<1>8. QED BY <1>2, <1>3, <1>4, <1>5, <1>6, <1>7

\* Every step does, and takes and gives turns as it should.
LEMMA NextDebt == DebtInv /\ [Next]_vars => DebtInv' /\ DebtStep
<1> SUFFICES ASSUME DebtInv, [Next]_vars PROVE DebtInv' /\ DebtStep
  OBVIOUS
<1>0. TypeOK'
  BY NextTyped DEF DebtInv
<1>1. CASE ExpireCancelWindow
  BY <1>0, <1>1, ExpireCancelWindowDebt
<1>2. CASE \E p \in Player :
        \/ DrawCard(p)
        \/ \E card, target : PlayCard(p, card, target)
        \/ \E cards, target, code : PlayCombo(p, cards, target, code)
  BY <1>0, <1>2, TurnCommandsDebt
<1>3. CASE \E p, card : PlayCancel(p, card)
  BY <1>0, <1>3, PlayCancelDebt
<1>4. CASE \E p :
        \/ \E index : PlaceExplosive(p, index)
        \/ \E top : SubmitReorderedTopCards(p, top)
        \/ \E card : \/ ChooseCardForRequest(p, card)
                     \/ ChooseMarkedCard(p, card)
                     \/ ChooseCardForRecycle(p, card)
                     \/ ChooseCardFromDiscard(p, card)
  BY <1>0, <1>4, AnswersDebt
<1>5. CASE UNCHANGED vars
  <2>1. DebtInv'
    BY <1>5 DEF vars, DebtInv, TypeOK, TurnDebtDiscipline, PendingIsCurrents,
       ExtraTurnsHaveTarget
  <2>2. QED BY <1>5, <2>1, StillDebtStep DEF vars, DebtInv
<1>6. QED BY <1>1, <1>2, <1>3, <1>4, <1>5 DEF Next

\* The invariant holds in every game.
LEMMA DebtInvariant == Spec => []DebtInv
<1>1. Init => DebtInv
  <2> SUFFICES ASSUME Init PROVE DebtInv
    OBVIOUS
  <2>1. TurnDebtDiscipline
    BY DEF Init, TurnDebtDiscipline, extraTurnDebt
  <2>2. pendingAction.type = "NONE" /\ ~pendingAction.reactiveExplosive
    BY DEF Init, NoPendingAction, Pending
  <2>3. QED BY <2>1, <2>2, InitTyped DEF DebtInv, PendingIsCurrents, ExtraTurnsHaveTarget
<1>2. QED BY <1>1, NextDebt, PTL DEF Spec

\* Until the game is over the current player owes one or two turns and the
\* other living players none, however the cards that pass turns on, skip them
\* or interrupt them are combined (advanceToPlayer, completeCurrentTurnUnit).
THEOREM TurnDebtCorrect == Spec => []TurnDebtDiscipline
<1>1. DebtInv => TurnDebtDiscipline
  BY DEF DebtInv
<1>2. QED BY <1>1, DebtInvariant, PTL

\* In every step only the current player gets rid of turns, and turns are given
\* only to another player, who takes them at once.
THEOREM TurnsCorrect == Spec => TurnsChangeHands
<1>1. DebtInv /\ [Next]_vars =>
        [\A p \in Player :
           /\ turnDebt'[p] < turnDebt[p] => p = currentPlayerID
           /\ turnDebt'[p] > turnDebt[p] => p # currentPlayerID /\ p = currentPlayerID']_vars
  BY NextDebt DEF DebtStep
<1>2. QED BY <1>1, DebtInvariant, PTL DEF Spec, TurnsChangeHands
============================================================================
