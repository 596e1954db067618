-------------------------- MODULE EngineHandsProofs --------------------------
(***************************************************************************)
(* Theorems about what players hold: the marks on their cards and the      *)
(* explosives in their hands, for every number of players and every deck.  *)
(***************************************************************************)
EXTENDS EngineProofs

----------------------------------------------------------------------------
(* Marks follow cards.                                                     *)

\* The marks are right after a step that has swept those of every player who
\* has lost a card.
LEMMA SweptMarks ==
  ASSUME TypeOK, MarksFollowCards, NEW players,
         markedCards' = ClearMarks(players, hands'),
         \A q \in Player \ players : hands[q] \subseteq hands'[q]
  PROVE  MarksFollowCards'
<1> SUFFICES ASSUME NEW c \in Card, markedCards'[c] # NoPlayer
             PROVE  c \in hands'[markedCards'[c]]
  BY DEF MarksFollowCards
<1> DEFINE owner == markedCards[c]
<1>1. markedCards'[c] = IF owner \in players /\ c \notin hands'[owner]
                          THEN NoPlayer ELSE owner
  BY DEF ClearMarks
<1>2. owner # NoPlayer /\ markedCards'[c] = owner
  BY <1>1
<1>3. owner \in Player /\ c \in hands[owner]
  BY <1>2 DEF MarksFollowCards, TypeOK
<1>4. CASE owner \in players
  BY <1>1, <1>2, <1>4
<1>5. CASE owner \notin players
  BY <1>2, <1>3, <1>5
<1>6. QED BY <1>4, <1>5

\* And after one in which nobody has lost a card.
LEMMA KeptMarks ==
  ASSUME TypeOK, MarksFollowCards, UNCHANGED markedCards,
         \A q \in Player : hands[q] \subseteq hands'[q]
  PROVE  MarksFollowCards'
BY DEF MarksFollowCards, TypeOK

\* Resolving the explosives sweeps the marks of those who give a card, if its
\* caller has swept those of the others.
LEMMA ResolveUnsafeExplosivesMarks ==
  ASSUME TypeOK, MarksFollowCards,
         NEW original, NEW ids, NEW first, NEW h, NEW discard, NEW cleared,
         ResolveUnsafeExplosivesFrom(original, ids, first, h, discard, cleared),
         \A q \in Player \ cleared : hands[q] \subseteq h[q]
  PROVE  MarksFollowCards'
<1> DEFINE unsafe == {p \in ids \cap alive : Unsafe(h[p])}
           placing == {p \in unsafe : Holds(h[p], "SHIELD")}
           dying == unsafe \ placing
           queueOf(order, explosive) ==
             unsafeExplosiveQueue \o
               [i \in DOMAIN order |->
                  [playerID |-> order[i], card |-> explosive[order[i]]]]
<1>1. PICK shield \in [placing -> Card], explosive \in [placing -> Card],
           order \in LookOrders(placing, first) :
        /\ \A p \in placing :
              /\ shield[p] \in CardsByCode(h[p], "SHIELD")
              /\ explosive[p] \in CardsByCode(h[p], "EXPLOSIVE")
        /\ hands' = [p \in Player |->
                       IF p \in dying THEN {}
                       ELSE IF p \in placing THEN h[p] \ {shield[p], explosive[p]}
                       ELSE h[p]]
        /\ discardPile' = discard \cup {shield[p] : p \in placing}
                                  \cup UNION {h[p] : p \in dying}
        /\ markedCards' = ClearMarks(cleared \cup unsafe, hands')
        /\ alive' = alive \ dying
        /\ IF queueOf(order, explosive) # <<>>
             THEN StartNextUnsafeExplosivePlacement(queueOf(order, explosive), original)
             ELSE FinishUnsafeExplosiveResolution(original, alive \ dying)
  BY DEF ResolveUnsafeExplosivesFrom
<1>2. \A q \in Player \ (cleared \cup unsafe) : hands[q] \subseteq hands'[q]
  BY <1>1
<1>3. QED BY <1>1, <1>2, SweptMarks

\* Moving a card from hand to hand leaves the marks right.
LEMMA TransferCardMarks ==
  ASSUME TypeOK, MarksFollowCards, NEW card, NEW from, NEW to,
         TransferCard(card, from, to)
  PROVE  MarksFollowCards'
<1> DEFINE h == [hands EXCEPT ![from] = @ \ {card}, ![to] = @ \cup {card}]
<1>1. \A q \in Player \ {from} : hands[q] \subseteq h[q]
  BY DEF TypeOK
<1>2. ResolveUnsafeExplosivesFrom(currentPlayerID, {from, to}, from, h, discardPile, {from})
  BY DEF TransferCard
<1>3. QED BY <1>1, <1>2, ResolveUnsafeExplosivesMarks

\* A drawn card does.
LEMMA ResolveDrawnCardMarks ==
  ASSUME TypeOK, MarksFollowCards, NEW p \in Player, NEW drawn, NEW rest, NEW pending,
         ResolveDrawnCard(p, drawn, rest, pending)
  PROVE  MarksFollowCards'
<1>1. CASE KeepDrawnCard(p, drawn, pending)
  <2>1. \A q \in Player : hands[q] \subseteq hands'[q]
    BY <1>1 DEF KeepDrawnCard, TypeOK
  <2>2. QED BY <1>1, <2>1, KeptMarks DEF KeepDrawnCard
<1>2. CASE ShieldFromDrawnExplosive(p, drawn)
  <2>1. \A q \in Player \ {p} : hands[q] \subseteq hands'[q]
    BY <1>2 DEF ShieldFromDrawnExplosive, TypeOK
  <2>2. QED BY <1>2, <2>1, SweptMarks DEF ShieldFromDrawnExplosive
<1>3. CASE EliminatedByDrawnExplosive(p, drawn, pending)
  <2>1. \A q \in Player \ {p} : hands[q] \subseteq hands'[q]
    BY <1>3 DEF EliminatedByDrawnExplosive, TypeOK
  <2>2. QED BY <1>3, <2>1, SweptMarks DEF EliminatedByDrawnExplosive
<1>4. QED BY <1>1, <1>2, <1>3 DEF ResolveDrawnCard

\* The steps that move no card and mark none.
LEMMA StillHandsMarks ==
  ASSUME TypeOK, MarksFollowCards, UNCHANGED <<hands, markedCards>>
  PROVE  MarksFollowCards'
BY KeptMarks

\* The end of the cancel window does.
LEMMA ExpireCancelWindowMarks ==
  ASSUME TypeOK, MarksFollowCards, ExpireCancelWindow
  PROVE  MarksFollowCards'
<1> DEFINE source == pendingAction.sourcePlayerID
           target == pendingAction.targetPlayerID
<1>1. source \in Player
  BY PendingActionTyped DEF ExpireCancelWindow, IsCancelable, PendingAction
<1>2. CASE UNCHANGED <<hands, markedCards>>
  BY <1>2, StillHandsMarks
<1>3. ASSUME NEW card, TransferCard(card, target, source)
      PROVE  MarksFollowCards'
  BY <1>3, TransferCardMarks
<1>4. ASSUME NEW drawn, NEW rest, NEW pending,
             ResolveDrawnCard(source, drawn, rest, pending)
      PROVE  MarksFollowCards'
  BY <1>1, <1>4, ResolveDrawnCardMarks
<1>5. ASSUME NEW code, ResolvePlayedCard(code, source, target)
      PROVE  MarksFollowCards'
  <2>1. CASE ResolveDrawFromBottom(source)
    BY <1>2, <1>4, <2>1 DEF ResolveDrawFromBottom, NothingMoves, ReorderDrawPile
  <2>2. CASE ~ResolveDrawFromBottom(source)
    <3>1. UNCHANGED <<hands, markedCards>>
      BY <1>5, <2>2 DEF ResolvePlayedCard, ResolveSkipTurn, ResolveSkipAllTurns,
           ResolveExtraTurns, OnlyTurnChanges, ResolveShuffleDeck, ResolvePeekDeck,
           NothingMoves, ReorderDrawPile, ResolveRequestCard, ResolveRevealHeldCard,
           ResolveSwapTopBottom, ResolveReorderTop, ResolveCollectiveRecycle, WaitFor
    <3>2. QED BY <1>2, <3>1
  <2>3. QED BY <2>1, <2>2
<1>6. ASSUME NEW kind, NEW code, ResolveCombo(kind, source, target, code)
      PROVE  MarksFollowCards'
  BY <1>2, <1>3, <1>6 DEF ResolveCombo, ResolvePair, ResolveTriple,
     ResolveFiveDifferent, NothingMoves, ReorderDrawPile, WaitFor
<1>7. CASE NothingMoves
  BY <1>2, <1>7 DEF NothingMoves, ReorderDrawPile
<1>8. QED BY <1>5, <1>6, <1>7 DEF ExpireCancelWindow, ResolveCancelWindow

\* The commands of a player do.
LEMMA CommandsMarks ==
  ASSUME TypeOK, MarksFollowCards, NEW p \in Player
  PROVE  /\ DrawCard(p) => MarksFollowCards'
         /\ \A played, pending : OpenCancelWindow(p, played, pending) => MarksFollowCards'
         /\ \A index : PlaceExplosive(p, index) => MarksFollowCards'
         /\ \A card \in Card :
              /\ PlayCancel(p, card) => MarksFollowCards'
              /\ ChooseCardForRequest(p, card) => MarksFollowCards'
              /\ ChooseMarkedCard(p, card) => MarksFollowCards'
              /\ ChooseCardForRecycle(p, card) => MarksFollowCards'
              /\ ChooseCardFromDiscard(p, card) => MarksFollowCards'
<1>1. ASSUME DrawCard(p) PROVE MarksFollowCards'
  BY <1>1, ResolveDrawnCardMarks DEF DrawCard
<1>2. ASSUME NEW played, NEW pending, OpenCancelWindow(p, played, pending)
      PROVE  MarksFollowCards'
  <2>1. \A q \in Player \ {p} : hands[q] \subseteq hands'[q]
    BY <1>2 DEF OpenCancelWindow, TypeOK
  <2>2. QED BY <1>2, <2>1, SweptMarks DEF OpenCancelWindow
<1>3. ASSUME NEW index, PlaceExplosive(p, index) PROVE MarksFollowCards'
  BY <1>3, ResolveUnsafeExplosivesMarks, StillHandsMarks DEF PlaceExplosive
<1>4. ASSUME NEW card \in Card, PlayCancel(p, card) PROVE MarksFollowCards'
  <2>1. \A q \in Player \ {p} : hands[q] \subseteq hands'[q]
    BY <1>4 DEF PlayCancel, TypeOK
  <2>2. QED BY <1>4, <2>1, SweptMarks DEF PlayCancel
<1>5. ASSUME NEW card \in Card, ChooseCardForRequest(p, card) PROVE MarksFollowCards'
  BY <1>5, TransferCardMarks DEF ChooseCardForRequest
<1>6. ASSUME NEW card \in Card, ChooseMarkedCard(p, card) PROVE MarksFollowCards'
  BY <1>6 DEF ChooseMarkedCard, MarksFollowCards, TypeOK
<1>7. ASSUME NEW card \in Card, ChooseCardForRecycle(p, card) PROVE MarksFollowCards'
  <2> DEFINE h == [hands EXCEPT ![p] = @ \ {card}]
  <2>1. \A q \in Player \ {p} : hands[q] \subseteq h[q]
    BY DEF TypeOK
  <2>2. CASE hands' = h /\ markedCards' = ClearMarks({p}, h)
    BY <2>1, <2>2, SweptMarks
  <2>3. CASE ResolveUnsafeExplosivesFrom(currentPlayerID, pendingAction.recyclePlayerIDs,
                                         NoPlayer, h, discardPile, {p})
    BY <2>1, <2>3, ResolveUnsafeExplosivesMarks
  <2>4. QED BY <1>7, <2>2, <2>3 DEF ChooseCardForRecycle
<1>8. ASSUME NEW card \in Card, ChooseCardFromDiscard(p, card) PROVE MarksFollowCards'
  <2> DEFINE h == [hands EXCEPT ![p] = @ \cup {card}]
  <2>1. \A q \in Player : hands[q] \subseteq h[q]
    BY DEF TypeOK
  <2>2. ResolveUnsafeExplosivesFrom(currentPlayerID, {p}, p, h, discardPile \ {card}, {})
    BY <1>8 DEF ChooseCardFromDiscard
  <2>3. QED BY <2>1, <2>2, ResolveUnsafeExplosivesMarks
<1>9. QED BY <1>1, <1>2, <1>3, <1>4, <1>5, <1>6, <1>7, <1>8

\* No step of the game leaves a mark on a card its owner has lost.
LEMMA NextMarks == TypeOK /\ MarksFollowCards /\ [Next]_vars => MarksFollowCards'
<1> SUFFICES ASSUME TypeOK, MarksFollowCards, [Next]_vars
             PROVE  MarksFollowCards'
  OBVIOUS
<1>1. CASE ExpireCancelWindow
  BY <1>1, ExpireCancelWindowMarks
<1>2. ASSUME NEW p \in Player, NEW top, SubmitReorderedTopCards(p, top)
      PROVE  MarksFollowCards'
  BY <1>2, StillHandsMarks DEF SubmitReorderedTopCards, ReorderDrawPile
<1>3. ASSUME NEW p \in Player, NEW card, NEW target, PlayCard(p, card, target)
      PROVE  MarksFollowCards'
  BY <1>3, CommandsMarks DEF PlayCard
<1>4. ASSUME NEW p \in Player, NEW cards, NEW target, NEW requestedCode,
             PlayCombo(p, cards, target, requestedCode)
      PROVE  MarksFollowCards'
  BY <1>4, CommandsMarks DEF PlayCombo
<1>5. CASE UNCHANGED vars
  BY <1>5, StillHandsMarks DEF vars
<1>6. QED BY <1>1, <1>2, <1>3, <1>4, <1>5, CommandsMarks DEF Next

\* A mark never outlives the time its owner holds the card, on any path that
\* takes a card out of a hand: played, canceled with, given, stolen, recycled,
\* spent as a shield or lost in death (clearMarksForPlayerHand).
THEOREM MarksCorrect == Spec => []MarksFollowCards
<1>1. Init => MarksFollowCards
  BY DEF Init, MarksFollowCards
<1>2. QED BY <1>1, TypeCorrect, NextMarks, PTL DEF Spec

----------------------------------------------------------------------------
(* Explosives are held safely.                                             *)

\* A hand with one explosive at most.
OneExplosive(hand) == \A c, d \in CardsByCode(hand, "EXPLOSIVE") : c = d

\* A hand that is safe once any one explosive has been taken out of it.
Recoverable(hand) ==
  \A c \in CardsByCode(hand, "EXPLOSIVE") : ~Unsafe(hand \ {c})

\* Nobody has put a card into a recycling.
NoSelections(pending) == \A p \in Player : pending.recycleSelections[p] = NoCard

\* The invariant that carries ExplosivesHeldSafely: in a recycling, a player who
\* has put the holder into it keeps one explosive at most, and is among those
\* the last choice will look at.
HandsInv ==
  /\ TypeOK
  /\ ExplosivesHeldSafely
  /\ \A p \in Player : OneExplosive(hands[p])
  /\ \A p \in Player : pendingAction.recycleSelections[p] # NoCard =>
       /\ phase = "WAITING_RECYCLE_CHOICES"
       /\ p \in pendingAction.recyclePlayerIDs \cap alive

\* A safe hand has one explosive at most.
LEMMA SafeHandHasOneExplosive ==
  ASSUME NEW hand, ~Unsafe(hand)
  PROVE  OneExplosive(hand)
BY DEF OneExplosive, Unsafe, Holds

\* Taking a card other than the holder out of a safe hand leaves it safe.
LEMMA SafeWithoutSome ==
  ASSUME NEW hand, NEW rest \in SUBSET hand, ~Unsafe(hand),
         \A c \in hand \ rest : Code[c] # "EXPLOSIVE_HOLDER"
  PROVE  ~Unsafe(rest)
BY DEF Unsafe, Holds, CardsByCode

\* So does adding a card that is no explosive.
LEMMA SafeWithOneMore ==
  ASSUME NEW hand, NEW c, ~Unsafe(hand), Code[c] # "EXPLOSIVE"
  PROVE  ~Unsafe(hand \cup {c})
BY DEF Unsafe, Holds, CardsByCode

\* One explosive is all there is to take out.
LEMMA OneExplosiveIsRecoverable ==
  ASSUME NEW hand, OneExplosive(hand)
  PROVE  Recoverable(hand)
BY DEF OneExplosive, Recoverable, Unsafe, Holds, CardsByCode

\* A safe hand that is given a card is recoverable.
LEMMA GivenHandIsRecoverable ==
  ASSUME NEW hand, NEW c, ~Unsafe(hand)
  PROVE  Recoverable(hand \cup {c})
BY DEF Recoverable, Unsafe, Holds, CardsByCode

\* And so is one that loses a card.
LEMMA RobbedHandIsRecoverable ==
  ASSUME NEW hand, NEW rest \in SUBSET hand, OneExplosive(hand)
  PROVE  Recoverable(rest)
<1>1. OneExplosive(rest)
  BY DEF OneExplosive, CardsByCode
<1>2. QED BY <1>1, OneExplosiveIsRecoverable

\* While no recycling is on, every hand is safe.
LEMMA SafeHands ==
  ASSUME HandsInv, NoSelections(pendingAction)
  PROVE  \A p \in Player : ~Unsafe(hands[p])
BY CardAssumption DEF HandsInv, ExplosivesHeldSafely, NoSelections

\* In every other phase there are no selections.
LEMMA NoSelectionsUnlessRecycling ==
  ASSUME HandsInv, phase # "WAITING_RECYCLE_CHOICES"
  PROVE  NoSelections(pendingAction)
BY DEF HandsInv, NoSelections

\* A new pending action has none.
LEMMA NewPendingActionHasNoSelections ==
  ASSUME NEW type, NEW source, NEW target, NEW cards
  PROVE  NoSelections(Pending(type, source, target, cards))
BY DEF NoSelections, Pending

\* A step that leaves every hand safe and no recycling keeps the invariant.
LEMMA SafeStep ==
  ASSUME TypeOK', \A p \in Player : ~Unsafe(hands'[p]), NoSelections(pendingAction)'
  PROVE  HandsInv'
<1>1. \A p \in Player : OneExplosive(hands[p])'
  BY SafeHandHasOneExplosive DEF OneExplosive
<1>2. QED BY <1>1 DEF HandsInv, ExplosivesHeldSafely, NoSelections

\* After the resolution of the explosives every hand is safe, if those it has
\* looked at were recoverable and the others safe.
LEMMA ResolveUnsafeExplosivesHands ==
  ASSUME TypeOK, TypeOK',
         NEW original, NEW ids, NEW first, NEW h, NEW discard, NEW cleared,
         ResolveUnsafeExplosivesFrom(original, ids, first, h, discard, cleared),
         \A p \in Player \cap ids \cap alive : Recoverable(h[p]),
         \A p \in Player \ (ids \cap alive) : ~Unsafe(h[p])
  PROVE  HandsInv'
<1> DEFINE unsafe == {p \in ids \cap alive : Unsafe(h[p])}
           placing == {p \in unsafe : Holds(h[p], "SHIELD")}
           dying == unsafe \ placing
           queueOf(order, explosive) ==
             unsafeExplosiveQueue \o
               [i \in DOMAIN order |->
                  [playerID |-> order[i], card |-> explosive[order[i]]]]
<1>1. PICK shield \in [placing -> Card], explosive \in [placing -> Card],
           order \in LookOrders(placing, first) :
        /\ \A p \in placing :
              /\ shield[p] \in CardsByCode(h[p], "SHIELD")
              /\ explosive[p] \in CardsByCode(h[p], "EXPLOSIVE")
        /\ hands' = [p \in Player |->
                       IF p \in dying THEN {}
                       ELSE IF p \in placing THEN h[p] \ {shield[p], explosive[p]}
                       ELSE h[p]]
        /\ discardPile' = discard \cup {shield[p] : p \in placing}
                                  \cup UNION {h[p] : p \in dying}
        /\ markedCards' = ClearMarks(cleared \cup unsafe, hands')
        /\ alive' = alive \ dying
        /\ IF queueOf(order, explosive) # <<>>
             THEN StartNextUnsafeExplosivePlacement(queueOf(order, explosive), original)
             ELSE FinishUnsafeExplosiveResolution(original, alive \ dying)
  BY DEF ResolveUnsafeExplosivesFrom
<1>2. ASSUME NEW p \in Player PROVE ~Unsafe(hands'[p])
  <2>1. CASE p \in dying
    BY <1>1, <2>1 DEF Unsafe, Holds, CardsByCode
  <2>2. CASE p \in placing
    <3>1. ~Unsafe(h[p] \ {explosive[p]})
      BY <1>1, <1>2, <2>2 DEF Recoverable
    <3>2. Code[shield[p]] # "EXPLOSIVE_HOLDER"
      BY <1>1, <2>2 DEF CardsByCode
    <3>3. ~Unsafe(h[p] \ {shield[p], explosive[p]})
      BY <3>1, <3>2, SafeWithoutSome
    <3>4. hands'[p] = h[p] \ {shield[p], explosive[p]}
      BY <1>1, <2>2
    <3>5. QED BY <3>3, <3>4
  <2>3. CASE p \notin unsafe
    <3>1. ~Unsafe(h[p])
      BY <1>2, <2>3
    <3>2. QED BY <1>1, <2>3, <3>1
  <2>4. QED BY <2>1, <2>2, <2>3
<1>3. NoSelections(pendingAction)'
  <2>1. CASE pendingAction' = NoPendingAction
    BY <2>1 DEF NoSelections, NoPendingAction, Pending
  <2>2. ASSUME NEW queue, StartNextUnsafeExplosivePlacement(queue, original)
        PROVE  NoSelections(pendingAction)'
    BY <2>2 DEF StartNextUnsafeExplosivePlacement, NoSelections, Pending
  <2>3. QED BY <1>1, <2>1, <2>2 DEF FinishUnsafeExplosiveResolution
<1>4. QED BY <1>2, <1>3, SafeStep

\* So after a card has been moved from hand to hand.
LEMMA TransferCardHands ==
  ASSUME HandsInv, NoSelections(pendingAction), TypeOK',
         NEW from \in Player, NEW to \in Player, NEW card \in hands[from],
         {from, to} \subseteq alive, TransferCard(card, from, to)
  PROVE  HandsInv'
<1> DEFINE h == [hands EXCEPT ![from] = @ \ {card}, ![to] = @ \cup {card}]
<1>0. TypeOK /\ \A p \in Player : ~Unsafe(hands[p])
  BY SafeHands DEF HandsInv
<1>1. ResolveUnsafeExplosivesFrom(currentPlayerID, {from, to}, from, h, discardPile, {from})
  BY DEF TransferCard
<1>2. \A p \in Player \ ({from, to} \cap alive) : h[p] = hands[p]
  BY <1>0 DEF TypeOK
<1>3. Recoverable(h[to])
  <2>1. h[to] = hands[to] \cup {card}
    BY <1>0 DEF TypeOK
  <2>2. QED BY <1>0, <2>1, GivenHandIsRecoverable
<1>4. Recoverable(h[from])
  <2>1. CASE from = to
    BY <1>3, <2>1
  <2>2. CASE from # to
    <3>1. h[from] = hands[from] \ {card}
      BY <1>0, <2>2 DEF TypeOK
    <3>2. OneExplosive(hands[from])
      BY DEF HandsInv
    <3>3. QED BY <3>1, <3>2, RobbedHandIsRecoverable
  <2>3. QED BY <2>1, <2>2
<1>5. \A p \in Player \cap {from, to} \cap alive : Recoverable(h[p])
  BY <1>3, <1>4
<1>6. \A p \in Player \ ({from, to} \cap alive) : ~Unsafe(h[p])
  BY <1>0, <1>2
<1>7. QED BY <1>0, <1>1, <1>5, <1>6, ResolveUnsafeExplosivesHands

\* So after a card has been drawn.
LEMMA ResolveDrawnCardHands ==
  ASSUME HandsInv, NoSelections(pendingAction), TypeOK',
         NEW p \in Player, NEW drawn, NEW rest, NEW pending, NoSelections(pending),
         ResolveDrawnCard(p, drawn, rest, pending)
  PROVE  HandsInv'
<1>1. /\ hands \in [Player -> SUBSET Card]
      /\ \A q \in Player : ~Unsafe(hands[q])
  BY SafeHands DEF HandsInv, TypeOK
<1>2. CASE KeepDrawnCard(p, drawn, pending)
  <2>1. ~Unsafe(hands[p] \cup {drawn})
    BY <1>1, <1>2, SafeWithOneMore DEF KeepDrawnCard
  <2>2. \A q \in Player : ~Unsafe(hands'[q])
    BY <1>1, <1>2, <2>1 DEF KeepDrawnCard
  <2>3. QED BY <1>2, <2>2, SafeStep DEF KeepDrawnCard, NoSelections
<1>3. CASE ShieldFromDrawnExplosive(p, drawn)
  <2>1. PICK shield \in CardsByCode(hands[p], "SHIELD") :
          hands' = [hands EXCEPT ![p] = @ \ {shield}]
    BY <1>3 DEF ShieldFromDrawnExplosive
  <2>2. ~Unsafe(hands[p] \ {shield})
    <3>1. Code[shield] # "EXPLOSIVE_HOLDER"
      BY DEF CardsByCode
    <3>2. QED BY <1>1, <3>1, SafeWithoutSome
  <2>3. \A q \in Player : ~Unsafe(hands'[q])
    BY <1>1, <2>1, <2>2
  <2>4. NoSelections(pendingAction)'
    BY <1>3 DEF ShieldFromDrawnExplosive, NoSelections, Pending
  <2>5. QED BY <2>3, <2>4, SafeStep
<1>4. CASE EliminatedByDrawnExplosive(p, drawn, pending)
  <2>1. ~Unsafe({})
    BY DEF Unsafe, Holds, CardsByCode
  <2>2. \A q \in Player : ~Unsafe(hands'[q])
    BY <1>1, <1>4, <2>1 DEF EliminatedByDrawnExplosive
  <2>3. QED BY <1>4, <2>2, SafeStep DEF EliminatedByDrawnExplosive, NoSelections
<1>5. QED BY <1>2, <1>3, <1>4 DEF ResolveDrawnCard

\* The end of the cancel window keeps the invariant.
LEMMA ExpireCancelWindowHands ==
  ASSUME HandsInv, TypeOK', ExpireCancelWindow
  PROVE  HandsInv'
<1> DEFINE source == pendingAction.sourcePlayerID
           target == pendingAction.targetPlayerID
<1>1. source \in Player
  BY PendingActionTyped DEF ExpireCancelWindow, IsCancelable, PendingAction, HandsInv
<1>2. NoSelections(pendingAction)
  BY NoSelectionsUnlessRecycling DEF ExpireCancelWindow
<1>3. NoSelections(NoPendingAction)
  BY NewPendingActionHasNoSelections DEF NoPendingAction
<1>4. ASSUME UNCHANGED hands, NoSelections(pendingAction)'
      PROVE  HandsInv'
  BY <1>2, <1>4, SafeHands, SafeStep
<1>5. ASSUME NEW pile, ReorderDrawPile(pile)
      PROVE  HandsInv'
  BY <1>3, <1>4, <1>5 DEF ReorderDrawPile, NoSelections
<1>6. ASSUME NEW code, ResolvePlayedCard(code, source, target)
      PROVE  HandsInv'
  <2>1. CASE ResolveDrawFromBottom(source)
    <3>1. CASE drawPile = <<>>
      BY <1>5, <2>1, <3>1 DEF ResolveDrawFromBottom, NothingMoves
    <3>2. CASE drawPile # <<>>
      BY <1>1, <1>2, <1>3, <2>1, <3>2, ResolveDrawnCardHands DEF ResolveDrawFromBottom
    <3>3. QED BY <3>1, <3>2
  <2>2. CASE OnlyTurnChanges
    BY <1>3, <1>4, <2>2 DEF OnlyTurnChanges, NoSelections
  <2>3. CASE \E pile : ReorderDrawPile(pile)
    BY <1>5, <2>3
  <2>4. ASSUME NEW waiting, NEW pending, NoSelections(pending), WaitFor(waiting, pending)
        PROVE  HandsInv'
    BY <1>4, <2>4 DEF WaitFor, NoSelections
  <2>5. CASE ResolveRequestCard(source, target)
    BY <2>4, <2>5, NewPendingActionHasNoSelections DEF ResolveRequestCard
  <2>6. CASE ResolveRevealHeldCard(source, target)
    BY <2>4, <2>6, NewPendingActionHasNoSelections DEF ResolveRevealHeldCard
  <2>7. ASSUME NEW limit, ResolveReorderTop(source, limit) PROVE HandsInv'
    BY <1>5, <2>4, <2>7, NewPendingActionHasNoSelections
       DEF ResolveReorderTop, NothingMoves
  <2>8. CASE ResolveCollectiveRecycle(source)
    <3> DEFINE pending == [Pending("RECYCLE_CHOICES", source, NoPlayer, <<>>)
                             EXCEPT !.recyclePlayerIDs = {p \in alive : hands[p] # {}}]
    <3>1. NoSelections(pending)
      BY DEF NoSelections, Pending
    <3>2. CASE ResolveShuffleDeck
      BY <1>5, <3>2 DEF ResolveShuffleDeck
    <3>3. CASE WaitFor("WAITING_RECYCLE_CHOICES", pending)
      BY <2>4, <3>1, <3>3
    <3>4. QED BY <2>8, <3>2, <3>3 DEF ResolveCollectiveRecycle
  <2>9. QED BY <1>6, <2>1, <2>2, <2>3, <2>5, <2>6, <2>7, <2>8
            DEF ResolvePlayedCard, ResolveSkipTurn, ResolveSkipAllTurns, ResolveExtraTurns,
                ResolveShuffleDeck, ResolvePeekDeck, NothingMoves, ResolveSwapTopBottom
<1>7. ASSUME NEW kind, NEW code, ResolveCombo(kind, source, target, code)
      PROVE  HandsInv'
  <2>1. CASE NothingMoves
    BY <1>5, <2>1 DEF NothingMoves
  <2>2. ASSUME {source, target} \subseteq alive,
               NEW card \in hands[target], TransferCard(card, target, source)
        PROVE  HandsInv'
    <3>1. target \in Player
      BY <2>2 DEF HandsInv, TypeOK
    <3>2. QED BY <1>1, <1>2, <2>2, <3>1, TransferCardHands
  <2>3. CASE ResolveFiveDifferent(source)
    BY <1>4, <2>3 DEF ResolveFiveDifferent, WaitFor, NoSelections, Pending
  <2>4. QED BY <1>7, <2>1, <2>2, <2>3
            DEF ResolveCombo, ResolvePair, ResolveTriple, CardsByCode
<1>8. QED BY <1>5, <1>6, <1>7 DEF ExpireCancelWindow, ResolveCancelWindow, NothingMoves

\* The holder is in no combination: there is only one of it.
LEMMA ComboHasNoHolder ==
  ASSUME NEW hand, NEW cards \in SUBSET Card, NEW requestedCode,
         ComboKindOf(hand, cards, requestedCode) # ""
  PROVE  \A c \in cards : Code[c] # "EXPLOSIVE_HOLDER"
<1> SUFFICES ASSUME NEW c \in cards, Code[c] = "EXPLOSIVE_HOLDER" PROVE FALSE
  OBVIOUS
<1>1. ~ValidFiveDifferentCombo(hand, cards)
  BY DEF ValidFiveDifferentCombo, Holds, CardsByCode
<1>2. Cardinality(cards) # 1 /\ ValidMatchingCombo(cards)
  BY <1>1 DEF ComboKindOf
<1>3. \A d \in cards : Code[d] = "EXPLOSIVE_HOLDER"
  BY <1>2 DEF ValidMatchingCombo, Tokens
<1>4. cards = {c}
  BY <1>3, SingleHolderAssumption
<1>5. Cardinality(cards) = 1
  BY <1>4, FS_Singleton
<1>6. QED BY <1>2, <1>5

\* Cards on the table that are not the holder keep the invariant.
LEMMA OpenCancelWindowHands ==
  ASSUME HandsInv, TypeOK', NoSelections(pendingAction),
         NEW p \in Player, NEW played, NEW pending, NoSelections(pending),
         OpenCancelWindow(p, played, pending),
         \A c \in played : Code[c] # "EXPLOSIVE_HOLDER"
  PROVE  HandsInv'
<1>1. ~Unsafe(hands[p] \ played)
  BY SafeHands, SafeWithoutSome
<1>2. \A q \in Player : ~Unsafe(hands'[q])
  BY <1>1, SafeHands DEF OpenCancelWindow, HandsInv, TypeOK
<1>3. QED BY <1>2, SafeStep DEF OpenCancelWindow, NoSelections

\* The commands of a player's turn keep it.
LEMMA TurnCommandsHands ==
  ASSUME HandsInv, TypeOK', NEW p \in Player
  PROVE  /\ DrawCard(p) => HandsInv'
         /\ \A card \in Card : \A target : PlayCard(p, card, target) => HandsInv'
         /\ \A cards, target, requestedCode :
               PlayCombo(p, cards, target, requestedCode) => HandsInv'
<1>1. InTurn(p) => NoSelections(pendingAction)
  BY NoSelectionsUnlessRecycling DEF InTurn
<1>2. ASSUME DrawCard(p) PROVE HandsInv'
  BY <1>1, <1>2, ResolveDrawnCardHands DEF DrawCard
<1>3. ASSUME NEW card \in Card, NEW target, PlayCard(p, card, target)
      PROVE  HandsInv'
  <2>1. \A c \in {card} : Code[c] # "EXPLOSIVE_HOLDER"
    BY <1>3 DEF PlayCard, PlayableAlone, SupportedBasicActions
  <2>2. NoSelections(Pending("PLAY_CARD", p, target, <<card>>))
    BY NewPendingActionHasNoSelections
  <2>3. QED BY <1>1, <1>3, <2>1, <2>2, OpenCancelWindowHands DEF PlayCard
<1>4. ASSUME NEW cards, NEW target, NEW requestedCode,
             PlayCombo(p, cards, target, requestedCode)
      PROVE  HandsInv'
  <2> DEFINE kind == ComboKindOf(hands[p], cards, requestedCode)
             pending == [Pending("CARD_COMBO", p, target, <<>>)
                           EXCEPT !.comboKind = kind, !.requestedCode = requestedCode]
  <2>1. cards \in SUBSET Card
    BY <1>4 DEF PlayCombo, HandsInv, TypeOK
  <2>2. \A c \in cards : Code[c] # "EXPLOSIVE_HOLDER"
    BY <1>4, <2>1, ComboHasNoHolder DEF PlayCombo
  <2>3. NoSelections(pending)
    BY DEF NoSelections, Pending
  <2>4. QED BY <1>1, <1>4, <2>2, <2>3, OpenCancelWindowHands DEF PlayCombo
<1>5. QED BY <1>2, <1>3, <1>4

\* A cancel keeps it.
LEMMA PlayCancelHands ==
  ASSUME HandsInv, TypeOK', NEW p \in Player, NEW card \in Card, PlayCancel(p, card)
  PROVE  HandsInv'
<1>1. NoSelections(pendingAction)
  BY NoSelectionsUnlessRecycling DEF PlayCancel
<1>2. ~Unsafe(hands[p] \ {card})
  <2>1. Code[card] # "EXPLOSIVE_HOLDER"
    BY DEF PlayCancel, CardsByCode
  <2>2. QED BY <1>1, <2>1, SafeHands, SafeWithoutSome
<1>3. \A q \in Player : ~Unsafe(hands'[q])
  BY <1>1, <1>2, SafeHands DEF PlayCancel, HandsInv, TypeOK
<1>4. NoSelections(pendingAction)'
  <2>1. pendingAction \in PendingAction
    BY PendingActionTyped DEF PlayCancel, IsCancelable, HandsInv
  <2>2. pendingAction'.recycleSelections = pendingAction.recycleSelections
    BY <2>1 DEF PlayCancel, PendingAction
  <2>3. QED BY <1>1, <2>2 DEF NoSelections
<1>5. QED BY <1>3, <1>4, SafeStep

\* The answers that move no card out of a hand keep it.
LEMMA AnswersHands ==
  ASSUME HandsInv, TypeOK', NEW p \in Player
  PROVE  /\ \A index : PlaceExplosive(p, index) => HandsInv'
         /\ \A top : SubmitReorderedTopCards(p, top) => HandsInv'
         /\ \A card \in Card :
              /\ ChooseCardForRequest(p, card) => HandsInv'
              /\ ChooseMarkedCard(p, card) => HandsInv'
              /\ ChooseCardFromDiscard(p, card) => HandsInv'
<1>0. NoSelections(NoPendingAction)
  BY NewPendingActionHasNoSelections DEF NoPendingAction
<1>1. ASSUME NoSelections(pendingAction), UNCHANGED hands, pendingAction' = NoPendingAction
      PROVE  HandsInv'
  BY <1>0, <1>1, SafeHands, SafeStep DEF NoSelections
<1>2. ASSUME NEW index, PlaceExplosive(p, index) PROVE HandsInv'
  <2>1. NoSelections(pendingAction)
    BY <1>2, NoSelectionsUnlessRecycling DEF PlaceExplosive
  <2>2. CASE pendingAction.reactiveExplosive
    <3>1. ResolveUnsafeExplosivesFrom(pendingAction.originalCurrentPlayerID,
                                      {p}, p, hands, discardPile, {})
      BY <1>2, <2>2 DEF PlaceExplosive
    <3>2. \A q \in Player : ~Unsafe(hands[q]) /\ Recoverable(hands[q])
      BY <2>1, SafeHands, SafeHandHasOneExplosive, OneExplosiveIsRecoverable
    <3>3. QED BY <3>1, <3>2, ResolveUnsafeExplosivesHands DEF HandsInv
  <2>3. CASE ~pendingAction.reactiveExplosive
    BY <1>1, <1>2, <2>1, <2>3 DEF PlaceExplosive
  <2>4. QED BY <2>2, <2>3
<1>3. ASSUME NEW top, SubmitReorderedTopCards(p, top) PROVE HandsInv'
  BY <1>1, <1>3, NoSelectionsUnlessRecycling DEF SubmitReorderedTopCards, ReorderDrawPile
<1>4. ASSUME NEW card \in Card, ChooseCardForRequest(p, card) PROVE HandsInv'
  <2>1. pendingAction.sourcePlayerID \in Player
    BY <1>4 DEF ChooseCardForRequest, HandsInv, TypeOK
  <2>2. QED BY <1>4, <2>1, NoSelectionsUnlessRecycling, TransferCardHands
            DEF ChooseCardForRequest
<1>5. ASSUME NEW card \in Card, ChooseMarkedCard(p, card) PROVE HandsInv'
  BY <1>1, <1>5, NoSelectionsUnlessRecycling DEF ChooseMarkedCard
<1>6. ASSUME NEW card \in Card, ChooseCardFromDiscard(p, card) PROVE HandsInv'
  <2> DEFINE h == [hands EXCEPT ![p] = @ \cup {card}]
  <2>1. \A q \in Player : ~Unsafe(hands[q])
    BY <1>6, NoSelectionsUnlessRecycling, SafeHands DEF ChooseCardFromDiscard
  <2>2. /\ p \in alive
        /\ ResolveUnsafeExplosivesFrom(currentPlayerID, {p}, p, h, discardPile \ {card}, {})
    BY <1>6 DEF ChooseCardFromDiscard
  <2>3. \A q \in Player \ {p} : ~Unsafe(h[q])
    BY <2>1
  <2>4. Recoverable(h[p])
    <3>1. h[p] = hands[p] \cup {card}
      BY DEF HandsInv, TypeOK
    <3>2. QED BY <2>1, <3>1, GivenHandIsRecoverable
  <2>5. QED BY <2>2, <2>3, <2>4, ResolveUnsafeExplosivesHands DEF HandsInv
<1>7. QED BY <1>2, <1>3, <1>4, <1>5, <1>6

\* A card for the recycling keeps it, the last one included.
LEMMA ChooseCardForRecycleHands ==
  ASSUME HandsInv, TypeOK', NEW p \in Player, NEW card \in Card,
         ChooseCardForRecycle(p, card)
  PROVE  HandsInv'
<1> DEFINE ids == pendingAction.recyclePlayerIDs
           selections == [pendingAction.recycleSelections EXCEPT ![p] = card]
           h == [hands EXCEPT ![p] = @ \ {card}]
<1>1. pendingAction \in PendingAction
  BY PendingActionTyped DEF ChooseCardForRecycle, HandsInv
<1>2. /\ ids \subseteq Player
      /\ pendingAction.recycleSelections \in [Player -> Card \cup {NoCard}]
      /\ h \in [Player -> SUBSET Card]
      /\ h[p] = hands[p] \ {card}
      /\ \A q \in Player \ {p} : h[q] = hands[q]
  BY <1>1 DEF PendingAction, HandsInv, TypeOK
<1>3. p \in ids /\ p \in alive /\ ~Unsafe(hands[p])
  BY CardAssumption DEF ChooseCardForRecycle, HandsInv, ExplosivesHeldSafely
<1>4. \A q \in Player : OneExplosive(h[q])
  BY <1>2 DEF HandsInv, OneExplosive, CardsByCode
<1>5. CASE \E q \in ids : selections[q] = NoCard
  <2>1. /\ hands' = h
        /\ pendingAction' = [pendingAction EXCEPT !.recycleSelections = selections]
        /\ phase' = "WAITING_RECYCLE_CHOICES"
        /\ alive' = alive
    BY <1>5 DEF ChooseCardForRecycle
  <2>2. /\ pendingAction'.recycleSelections = selections
        /\ pendingAction'.recyclePlayerIDs = ids
    BY <1>1, <2>1 DEF PendingAction
  <2>3. ExplosivesHeldSafely'
    <3> SUFFICES ASSUME NEW q \in Player, Unsafe(hands'[q])
                 PROVE  \E c \in Card : /\ pendingAction'.recycleSelections[q] = c
                                        /\ Code[c] = "EXPLOSIVE_HOLDER"
      BY DEF ExplosivesHeldSafely
    <3>1. CASE q = p
      <4>1. selections[p] = card
        BY <1>2
      <4>2. Code[card] = "EXPLOSIVE_HOLDER"
        BY <1>2, <1>3, <2>1, <3>1, SafeWithoutSome
      <4>3. QED BY <2>2, <3>1, <4>1, <4>2
    <3>2. CASE q # p
      <4>1. selections[q] = pendingAction.recycleSelections[q]
        BY <1>2, <3>2
      <4>2. Unsafe(hands[q])
        BY <1>2, <2>1, <3>2
      <4>3. QED BY <2>2, <4>1, <4>2 DEF HandsInv, ExplosivesHeldSafely
    <3>3. QED BY <3>1, <3>2
  <2>4. ASSUME NEW q \in Player, selections[q] # NoCard
        PROVE  q \in ids \cap alive
    <3>1. CASE q = p
      BY <1>3, <3>1
    <3>2. CASE q # p
      BY <1>2, <2>4, <3>2 DEF HandsInv
    <3>3. QED BY <3>1, <3>2
  <2>5. QED BY <1>4, <2>1, <2>2, <2>3, <2>4 DEF HandsInv, OneExplosive
<1>6. CASE ~\E q \in ids : selections[q] = NoCard
  <2>1. ResolveUnsafeExplosivesFrom(currentPlayerID, ids, NoPlayer, h, discardPile, {p})
    BY <1>6 DEF ChooseCardForRecycle
  <2>2. \A q \in Player \cap ids \cap alive : Recoverable(h[q])
    BY <1>4, OneExplosiveIsRecoverable
  <2>3. \A q \in Player \ (ids \cap alive) : ~Unsafe(h[q])
    BY <1>2, <1>3, CardAssumption DEF HandsInv, ExplosivesHeldSafely
  <2>4. QED BY <2>1, <2>2, <2>3, ResolveUnsafeExplosivesHands DEF HandsInv
<1>7. QED BY <1>5, <1>6

\* Every step keeps it.
LEMMA NextHands == HandsInv /\ [Next]_vars => HandsInv'
<1> SUFFICES ASSUME HandsInv, [Next]_vars PROVE HandsInv'
  OBVIOUS
<1>0. TypeOK'
  BY NextTyped DEF HandsInv
<1>1. CASE ExpireCancelWindow
  BY <1>0, <1>1, ExpireCancelWindowHands
<1>2. ASSUME NEW p \in Player, NEW card \in Card, PlayCancel(p, card) PROVE HandsInv'
  BY <1>0, <1>2, PlayCancelHands
<1>3. ASSUME NEW p \in Player, NEW card \in Card, ChooseCardForRecycle(p, card)
      PROVE  HandsInv'
  BY <1>0, <1>3, ChooseCardForRecycleHands
<1>4. CASE UNCHANGED vars
  BY <1>0, <1>4 DEF vars, HandsInv, ExplosivesHeldSafely, OneExplosive
<1>5. QED BY <1>0, <1>1, <1>2, <1>3, <1>4, TurnCommandsHands, AnswersHands DEF Next

\* The invariant holds in every game: the deal gives nobody an explosive.
LEMMA HandsInvariant == Spec => []HandsInv
<1>1. Init => HandsInv
  <2> SUFFICES ASSUME Init PROVE HandsInv
    OBVIOUS
  <2>1. \A p \in Player : ~Holds(hands[p], "EXPLOSIVE")
    BY DEF Init, OpeningHand
  <2>2. \A p \in Player : ~Unsafe(hands[p]) /\ OneExplosive(hands[p])
    BY <2>1 DEF Unsafe, OneExplosive, Holds, CardsByCode
  <2>3. NoSelections(pendingAction)
    BY DEF Init, NoPendingAction, Pending, NoSelections
  <2>4. QED BY <2>2, <2>3, InitTyped DEF HandsInv, ExplosivesHeldSafely, NoSelections
<1>2. QED BY <1>1, NextHands, PTL DEF Spec

\* Nobody keeps an explosive they cannot hold beyond the command that brought
\* it: drawn, stolen, requested, recovered, or left behind by a holder that
\* was given away or recycled (resolveDrawnCard, resolveUnsafeExplosivesFrom).
THEOREM ExplosivesCorrect == Spec => []ExplosivesHeldSafely
<1>1. HandsInv => ExplosivesHeldSafely
  BY DEF HandsInv
<1>2. QED BY <1>1, HandsInvariant, PTL

----------------------------------------------------------------------------
(* Shields save.                                                           *)

\* A player the resolution eliminates had no shield before, if nothing but the
\* holder has left an endangered hand.
LEMMA ResolveUnsafeExplosivesDeaths ==
  ASSUME NEW original, NEW ids, NEW first, NEW h, NEW discard, NEW cleared,
         ResolveUnsafeExplosivesFrom(original, ids, first, h, discard, cleared),
         \A p \in ids \cap alive : Unsafe(h[p]) /\ Holds(hands[p], "SHIELD")
                                     => Holds(h[p], "SHIELD")
  PROVE  \A p \in alive \ alive' : ~Holds(hands[p], "SHIELD")
<1>1. PICK dying \in SUBSET {p \in ids \cap alive : Unsafe(h[p])} :
        /\ \A p \in dying : ~Holds(h[p], "SHIELD")
        /\ alive' = alive \ dying
  BY DEF ResolveUnsafeExplosivesFrom
<1>2. QED BY <1>1

\* Nor one that dies when a card moves from hand to hand.
LEMMA TransferCardDeaths ==
  ASSUME HandsInv, NoSelections(pendingAction),
         NEW from \in Player, NEW to \in Player, NEW card \in hands[from],
         TransferCard(card, from, to)
  PROVE  \A p \in alive \ alive' : ~Holds(hands[p], "SHIELD")
<1> DEFINE h == [hands EXCEPT ![from] = @ \ {card}, ![to] = @ \cup {card}]
<1>1. ResolveUnsafeExplosivesFrom(currentPlayerID, {from, to}, from, h, discardPile, {from})
  BY DEF TransferCard
<1>2. hands \in [Player -> SUBSET Card]
  BY DEF HandsInv, TypeOK
<1>3. CASE from = to
  <2>1. h = hands
    BY <1>2, <1>3
  <2>2. QED BY <1>1, <2>1, ResolveUnsafeExplosivesDeaths
<1>4. CASE from # to
  <2>1. h[from] = hands[from] \ {card} /\ h[to] = hands[to] \cup {card}
    BY <1>2, <1>4
  <2>2. Holds(hands[to], "SHIELD") => Holds(h[to], "SHIELD")
    BY <2>1 DEF Holds, CardsByCode
  <2>3. ASSUME Unsafe(h[from]), Holds(hands[from], "SHIELD")
        PROVE  Holds(h[from], "SHIELD")
    <3>1. Code[card] = "EXPLOSIVE_HOLDER"
      BY <2>1, <2>3, SafeHands, SafeWithoutSome
    <3>2. QED BY <2>1, <2>3, <3>1 DEF Holds, CardsByCode
  <2>4. \A p \in {from, to} \cap alive :
           Unsafe(h[p]) /\ Holds(hands[p], "SHIELD") => Holds(h[p], "SHIELD")
    BY <2>2, <2>3
  <2>5. QED BY <1>1, <2>4, ResolveUnsafeExplosivesDeaths
<1>5. QED BY <1>3, <1>4

\* Nor one that dies at the end of the cancel window.
LEMMA ExpireCancelWindowDeaths ==
  ASSUME HandsInv, ExpireCancelWindow
  PROVE  \A p \in alive \ alive' : ~Holds(hands[p], "SHIELD")
<1> DEFINE source == pendingAction.sourcePlayerID
           target == pendingAction.targetPlayerID
           NoShieldLost == \A p \in alive \ alive' : ~Holds(hands[p], "SHIELD")
<1>1. source \in Player /\ NoSelections(pendingAction)
  BY PendingActionTyped, NoSelectionsUnlessRecycling
     DEF ExpireCancelWindow, IsCancelable, PendingAction, HandsInv
<1>2. CASE UNCHANGED alive
  BY <1>2
<1>3. ASSUME NEW code, ResolvePlayedCard(code, source, target)
      PROVE  NoShieldLost
  <2>1. CASE ResolveDrawFromBottom(source)
    BY <1>2, <2>1 DEF ResolveDrawFromBottom, NothingMoves, ReorderDrawPile,
       ResolveDrawnCard, KeepDrawnCard, ShieldFromDrawnExplosive, EliminatedByDrawnExplosive
  <2>2. CASE ~ResolveDrawFromBottom(source)
    <3>1. UNCHANGED alive
      BY <1>3, <2>2 DEF ResolvePlayedCard, ResolveSkipTurn, ResolveSkipAllTurns,
           ResolveExtraTurns, OnlyTurnChanges, ResolveShuffleDeck, ResolvePeekDeck,
           NothingMoves, ReorderDrawPile, ResolveRequestCard, ResolveRevealHeldCard,
           ResolveSwapTopBottom, ResolveReorderTop, ResolveCollectiveRecycle, WaitFor
    <3>2. QED BY <1>2, <3>1
  <2>3. QED BY <2>1, <2>2
<1>4. ASSUME NEW kind, NEW code, ResolveCombo(kind, source, target, code)
      PROVE  NoShieldLost
  <2>1. CASE UNCHANGED alive
    BY <2>1
  <2>2. ASSUME target \in alive, NEW card \in hands[target],
               TransferCard(card, target, source)
        PROVE  NoShieldLost
    BY <1>1, <2>2, TransferCardDeaths DEF HandsInv, TypeOK
  <2>3. QED BY <1>4, <2>1, <2>2
            DEF ResolveCombo, ResolvePair, ResolveTriple, CardsByCode,
                ResolveFiveDifferent, NothingMoves, ReorderDrawPile, WaitFor
<1>5. CASE NothingMoves
  BY <1>2, <1>5 DEF NothingMoves, ReorderDrawPile
<1>6. QED BY <1>3, <1>4, <1>5 DEF ExpireCancelWindow, ResolveCancelWindow

\* Nor one that dies by a command of a player.
LEMMA CommandsDeaths ==
  ASSUME HandsInv, NEW p \in Player
  PROVE  /\ DrawCard(p) => \A q \in alive \ alive' : ~Holds(hands[q], "SHIELD")
         /\ \A index : PlaceExplosive(p, index) =>
              \A q \in alive \ alive' : ~Holds(hands[q], "SHIELD")
         /\ \A card \in Card :
              \/ ChooseCardForRequest(p, card)
              \/ ChooseCardForRecycle(p, card)
              \/ ChooseCardFromDiscard(p, card)
              => \A q \in alive \ alive' : ~Holds(hands[q], "SHIELD")
<1> DEFINE NoShieldLost == \A q \in alive \ alive' : ~Holds(hands[q], "SHIELD")
<1>0. hands \in [Player -> SUBSET Card] /\ alive \subseteq Player
  BY DEF HandsInv, TypeOK
<1>1. ASSUME DrawCard(p) PROVE NoShieldLost
  BY <1>1 DEF DrawCard, ResolveDrawnCard, KeepDrawnCard, ShieldFromDrawnExplosive,
     EliminatedByDrawnExplosive
<1>2. ASSUME NEW index, PlaceExplosive(p, index) PROVE NoShieldLost
  BY <1>2, ResolveUnsafeExplosivesDeaths DEF PlaceExplosive
<1>3. ASSUME NEW card \in Card, ChooseCardForRequest(p, card) PROVE NoShieldLost
  <2>1. pendingAction.sourcePlayerID \in Player /\ NoSelections(pendingAction)
    BY <1>0, <1>3, NoSelectionsUnlessRecycling DEF ChooseCardForRequest
  <2>2. QED BY <1>3, <2>1, TransferCardDeaths DEF ChooseCardForRequest
<1>4. ASSUME NEW card \in Card, ChooseCardFromDiscard(p, card) PROVE NoShieldLost
  <2> DEFINE h == [hands EXCEPT ![p] = @ \cup {card}]
  <2>1. ResolveUnsafeExplosivesFrom(currentPlayerID, {p}, p, h, discardPile \ {card}, {})
    BY <1>4 DEF ChooseCardFromDiscard
  <2>2. Holds(hands[p], "SHIELD") => Holds(h[p], "SHIELD")
    BY <1>0 DEF Holds, CardsByCode
  <2>3. \A q \in {p} \cap alive :
           Unsafe(h[q]) /\ Holds(hands[q], "SHIELD") => Holds(h[q], "SHIELD")
    BY <2>2
  <2>4. QED BY <2>1, <2>3, ResolveUnsafeExplosivesDeaths
<1>5. ASSUME NEW card \in Card, ChooseCardForRecycle(p, card) PROVE NoShieldLost
  <2> DEFINE ids == pendingAction.recyclePlayerIDs
             h == [hands EXCEPT ![p] = @ \ {card}]
  <2>1. CASE UNCHANGED alive
    BY <2>1
  <2>2. CASE ResolveUnsafeExplosivesFrom(currentPlayerID, ids, NoPlayer, h, discardPile, {p})
    <3>1. ASSUME Unsafe(h[p]), Holds(hands[p], "SHIELD")
          PROVE  Holds(h[p], "SHIELD")
      <4>1. h[p] = hands[p] \ {card}
        BY <1>0
      <4>2. ~Unsafe(hands[p])
        BY <1>5, CardAssumption DEF ChooseCardForRecycle, HandsInv, ExplosivesHeldSafely
      <4>3. Code[card] = "EXPLOSIVE_HOLDER"
        BY <3>1, <4>1, <4>2, SafeWithoutSome
      <4>4. QED BY <3>1, <4>1, <4>3 DEF Holds, CardsByCode
    <3>2. \A q \in Player \ {p} : h[q] = hands[q]
      BY <1>0
    <3>3. \A q \in ids \cap alive :
             Unsafe(h[q]) /\ Holds(hands[q], "SHIELD") => Holds(h[q], "SHIELD")
      BY <1>0, <3>1, <3>2
    <3>4. QED BY <2>2, <3>3, ResolveUnsafeExplosivesDeaths
  <2>3. QED BY <1>5, <2>1, <2>2 DEF ChooseCardForRecycle
<1>6. QED BY <1>1, <1>2, <1>3, <1>4, <1>5

\* Whoever has a shield at the beginning of a command survives it, for the
\* shield is spent before its owner dies, and no command can take the shield
\* away and endanger its owner at once (resolveUnsafeExplosivesFrom).
THEOREM ShieldsCorrect == Spec => ShieldSaves
<1>1. HandsInv /\ [Next]_vars => [\A p \in alive \ alive' : ~Holds(hands[p], "SHIELD")]_vars
  <2> SUFFICES ASSUME HandsInv, [Next]_vars
               PROVE  \A p \in alive \ alive' : ~Holds(hands[p], "SHIELD")
    OBVIOUS
  <2>1. CASE UNCHANGED alive
    BY <2>1
  <2>2. CASE ExpireCancelWindow
    BY <2>2, ExpireCancelWindowDeaths
  <2>3. CASE \E p \in Player :
          \/ DrawCard(p)
          \/ \E index : PlaceExplosive(p, index)
          \/ \E card \in Card : \/ ChooseCardForRequest(p, card)
                               \/ ChooseCardForRecycle(p, card)
                               \/ ChooseCardFromDiscard(p, card)
    BY <2>3, CommandsDeaths
  <2>4. CASE \E p \in Player :
          \/ \E top : SubmitReorderedTopCards(p, top)
          \/ \E card, target : PlayCard(p, card, target)
          \/ \E cards, target, code : PlayCombo(p, cards, target, code)
          \/ \E card : PlayCancel(p, card) \/ ChooseMarkedCard(p, card)
    <3>1. UNCHANGED alive
      BY <2>4 DEF SubmitReorderedTopCards, ReorderDrawPile, PlayCard, PlayCombo,
         OpenCancelWindow, PlayCancel, ChooseMarkedCard
    <3>2. QED BY <2>1, <3>1
  <2>5. QED BY <2>1, <2>2, <2>3, <2>4 DEF Next, vars
<1>2. QED BY <1>1, HandsInvariant, PTL DEF Spec, ShieldSaves
============================================================================
