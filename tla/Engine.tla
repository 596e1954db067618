------------------------------- MODULE Engine -------------------------------
(***************************************************************************)
(* The rules of one game: the state machine of internal/game/engine.go     *)
(* over a GameState (internal/game/state.go).  Each action is one exported *)
(* method of Engine taking effect; a command the method refuses leaves the *)
(* state as it is and is not a step.                                       *)
(*                                                                         *)
(* Abstractions.  Players are their seats 1..N.  A hand and the discard    *)
(* pile are sets: where the code takes the first card of a code in a hand, *)
(* the model takes any card of that code.  Events and their numbers, the   *)
(* ids of pending actions and the wall clock are left out, so the end of   *)
(* the cancel window is a step of its own that may come at any time.       *)
(***************************************************************************)
EXTENDS Cards, Sequences

CONSTANTS
  N,                        \* number of players (MinPlayers..MaxPlayers)
  InitialRandomHandCards,   \* cards dealt to each player besides a shield
  RequestableCode           \* the codes the clients may name in a combo

ASSUME NAssumption == N \in Nat /\ N >= 2
ASSUME DeckAssumption ==
  /\ IsFiniteSet(Card)
  /\ InitialRandomHandCards \in Nat
ASSUME RequestAssumption == RequestableCode \subseteq CardCode \cup {NoCode}

extraTurnDebt == 2

Player == 1..N
NoPlayer == 0

GamePhase ==
  {"PLAYER_TURN", "CANCEL_WINDOW", "WAITING_REQUEST_CARD_CHOICE",
   "WAITING_RECYCLE_CHOICES", "WAITING_DISCARD_RECOVERY",
   "WAITING_MARKED_CARD_CHOICE", "WAITING_DECK_REORDER",
   "WAITING_EXPLOSIVE_PLACEMENT", "GAME_OVER"}

VARIABLES
  phase,                \* Phase
  hands,                \* Players[i].Hand
  alive,                \* the players with Players[i].Alive
  drawPile,             \* DrawPile, its top first
  discardPile,          \* DiscardPile
  currentPlayerID,      \* CurrentPlayerID, NoPlayer once the game is over
  turnDebt,             \* TurnDebt: the turns a player still has to take
  pendingAction,        \* PendingAction, NoPendingAction for nil
  markedCards,          \* MarkedCards: the owner of each card that is marked
  unsafeExplosiveQueue, \* UnsafeExplosiveQueue
  winner                \* WinnerPlayerID

vars == <<phase, hands, alive, drawPile, discardPile, currentPlayerID,
          turnDebt, pendingAction, markedCards, unsafeExplosiveQueue, winner>>

----------------------------------------------------------------------------
(* Pending actions.                                                        *)

PendingActionType ==
  {"PLAY_CARD", "CARD_COMBO", "DISCARD_RECOVERY",
   "REQUEST_CARD_CHOICE", "RECYCLE_CHOICES", "MARKED_CARD_CHOICE",
   "DECK_REORDER", "EXPLOSIVE_PLACEMENT"}

ComboKind == {"", "PAIR", "TRIPLE", "FIVE_DIFFERENT"}

\* Cards is kept where the engine reads it: the card played, the explosive
\* to place, the top of the pile to reorder.
PendingAction ==
  [type : PendingActionType,
   sourcePlayerID : Player,
   targetPlayerID : Player \cup {NoPlayer},
   cards : Seq(Card),
   comboKind : ComboKind,
   requestedCode : CardCode \cup {NoCode},
   cancelCount : Nat,
   recyclePlayerIDs : SUBSET Player,
   recycleSelections : [Player -> Card \cup {NoCard}],
   reactiveExplosive : BOOLEAN,
   originalCurrentPlayerID : Player \cup {NoPlayer}]

Pending(type, source, target, cards) ==
  [type |-> type,
   sourcePlayerID |-> source,
   targetPlayerID |-> target,
   cards |-> cards,
   comboKind |-> "",
   requestedCode |-> NoCode,
   cancelCount |-> 0,
   recyclePlayerIDs |-> {},
   recycleSelections |-> [p \in Player |-> NoCard],
   reactiveExplosive |-> FALSE,
   originalCurrentPlayerID |-> NoPlayer]

NoPendingAction == Pending("NONE", NoPlayer, NoPlayer, <<>>)

\* Mutant: the third kind of combination has been forgotten.
IsCancelable_Mutant(pending) ==
  \/ pending.type = "PLAY_CARD" /\ Len(pending.cards) = 1
  \/ pending.type = "CARD_COMBO" /\ pending.comboKind \in {"PAIR", "TRIPLE"}

IsCancelable(pending) ==
  \/ /\ pending.type = "PLAY_CARD"
     /\ Len(pending.cards) = 1
     /\ Code[pending.cards[1]] \in SupportedBasicActions
  \/ /\ pending.type = "CARD_COMBO"
     /\ pending.comboKind \in {"PAIR", "TRIPLE", "FIVE_DIFFERENT"}

UnsafePlacement == [playerID : Player, card : Card]

----------------------------------------------------------------------------
(* Seats and piles.                                                        *)

\* The seats from p on to q, going round the table; N for p itself.
SeatsTo(p, q) == IF q > p THEN q - p ELSE q + N - p

\* q is the player nextAlivePlayerID finds from p.
IsNextAlive(p, q, living) ==
  q \in living /\ \A r \in living : SeatsTo(p, q) <= SeatsTo(p, r)

\* The ways to rearrange the places D.
Rearrangements(D) ==
  {pi \in [D -> D] : \A i, j \in D : pi[i] = pi[j] => i = j}

\* Every order Shuffle may leave the pile in.
Shuffles(pile) ==
  {[i \in DOMAIN pile |-> pile[pi[i]]] : pi \in Rearrangements(DOMAIN pile)}

\* The piles made by putting the cards S together in any order.
Orderings(S) ==
  {pile \in [1..Cardinality(S) -> S] :
      \A i, j \in DOMAIN pile : pile[i] = pile[j] => i = j}

PileOf(pile) == {pile[i] : i \in DOMAIN pile}

\* Mutant: the card that was at the index is overwritten.
InsertCardAt_Mutant(pile, card, index) ==
  SubSeq(pile, 1, index) \o <<card>> \o SubSeq(pile, index + 2, Len(pile))

InsertCardAt(pile, card, index) ==
  SubSeq(pile, 1, index) \o <<card>> \o SubSeq(pile, index + 1, Len(pile))

TopCards(pile, count) ==
  SubSeq(pile, 1, IF count > Len(pile) THEN Len(pile) ELSE count)

\* clearMarksForPlayerHand for each of the players: the marks on cards that
\* are no longer in their hands h are dropped.
ClearMarks(players, h) ==
  [c \in Card |->
     IF markedCards[c] \in players /\ c \notin h[markedCards[c]]
       THEN NoPlayer ELSE markedCards[c]]

----------------------------------------------------------------------------
(* Turns.  These operators give the next values of phase, currentPlayerID, *)
(* turnDebt and, where a game may end, winner.  debt and living are the    *)
(* values of turnDebt and alive the code has reached when it calls them.   *)

AdvanceToPlayer(q, debt) ==
  /\ currentPlayerID' = q
  /\ phase' = "PLAYER_TURN"
  /\ turnDebt' = IF debt[q] <= 0 THEN [debt EXCEPT ![q] = 1] ELSE debt

\* With nobody alive the turn stays where it is.
AdvanceToNextAlivePlayer(from, debt, living) ==
  IF living = {}
    THEN /\ currentPlayerID' = from
         /\ phase' = "PLAYER_TURN"
         /\ turnDebt' = debt
    ELSE \E q \in Player : IsNextAlive(from, q, living) /\ AdvanceToPlayer(q, debt)

CompleteCurrentTurnUnit ==
  LET cp == currentPlayerID
      left == IF turnDebt[cp] > 0 THEN turnDebt[cp] - 1 ELSE turnDebt[cp]
      debt == [turnDebt EXCEPT ![cp] = left]
  IN IF left > 0
       THEN /\ turnDebt' = debt
            /\ phase' = "PLAYER_TURN"
            /\ UNCHANGED currentPlayerID
       ELSE AdvanceToNextAlivePlayer(cp, debt, alive)

\* setWinnerIfGameOver, when it sets one.
SetWinner(w) ==
  /\ winner' = w
  /\ currentPlayerID' = NoPlayer
  /\ phase' = "GAME_OVER"
  /\ UNCHANGED turnDebt

IsGameOver(living) == \E w \in Player : living = {w}

\* Mutant: nobody looks whether the game is over.
AdvanceOrEndGame_Mutant(from, living) ==
  AdvanceToNextAlivePlayer(from, turnDebt, living) /\ UNCHANGED winner

\* The end of a turn cut short by the death of the player who took it.
AdvanceOrEndGame(from, living) ==
  \/ \E w \in Player : living = {w} /\ SetWinner(w)
  \/ /\ ~IsGameOver(living)
     /\ AdvanceToNextAlivePlayer(from, turnDebt, living)
     /\ UNCHANGED winner

----------------------------------------------------------------------------
(* Explosives.                                                             *)

\* resolveDrawnCard: p has taken the card drawn and left rest as the pile;
\* pending is what the caller has made of pendingAction.
KeepDrawnCard(p, drawn, pending) ==
  /\ Code[drawn] = "EXPLOSIVE" => ~Unsafe(hands[p] \cup {drawn})
  /\ hands' = [hands EXCEPT ![p] = @ \cup {drawn}]
  /\ pendingAction' = pending
  /\ CompleteCurrentTurnUnit
  /\ UNCHANGED <<alive, discardPile, markedCards, winner>>

ShieldFromDrawnExplosive(p, drawn) ==
  /\ Code[drawn] = "EXPLOSIVE"
  /\ Unsafe(hands[p] \cup {drawn})
  /\ \E shield \in CardsByCode(hands[p], "SHIELD") :
        /\ hands' = [hands EXCEPT ![p] = @ \ {shield}]
        /\ discardPile' = discardPile \cup {shield}
  /\ markedCards' = ClearMarks({p}, hands')
  /\ phase' = "WAITING_EXPLOSIVE_PLACEMENT"
  /\ pendingAction' = Pending("EXPLOSIVE_PLACEMENT", p, NoPlayer, <<drawn>>)
  /\ UNCHANGED <<alive, currentPlayerID, turnDebt, winner>>

\* Mutant: a second explosive kills the holder whatever the shields.
EliminatedByDrawnExplosive_Mutant(p, drawn, pending) ==
  /\ Code[drawn] = "EXPLOSIVE"
  /\ Unsafe(hands[p] \cup {drawn})
  /\ discardPile' = discardPile \cup {drawn} \cup hands[p]
  /\ hands' = [hands EXCEPT ![p] = {}]
  /\ markedCards' = ClearMarks({p}, hands')
  /\ alive' = alive \ {p}
  /\ pendingAction' = pending
  /\ AdvanceOrEndGame(currentPlayerID, alive \ {p})

EliminatedByDrawnExplosive(p, drawn, pending) ==
  /\ Code[drawn] = "EXPLOSIVE"
  /\ Unsafe(hands[p] \cup {drawn})
  /\ ~Holds(hands[p], "SHIELD")
  /\ discardPile' = discardPile \cup {drawn} \cup hands[p]
  /\ hands' = [hands EXCEPT ![p] = {}]
  /\ markedCards' = ClearMarks({p}, hands')
  /\ alive' = alive \ {p}
  /\ pendingAction' = pending
  /\ AdvanceOrEndGame(currentPlayerID, alive \ {p})

ResolveDrawnCard(p, drawn, rest, pending) ==
  /\ drawPile' = rest
  /\ \/ KeepDrawnCard(p, drawn, pending)
     \/ ShieldFromDrawnExplosive(p, drawn)
     \/ EliminatedByDrawnExplosive(p, drawn, pending)
  /\ UNCHANGED unsafeExplosiveQueue

\* Mutant: the placement that starts stays in the queue.
StartNextUnsafeExplosivePlacement_Mutant(queue, original) ==
  /\ phase' = "WAITING_EXPLOSIVE_PLACEMENT"
  /\ pendingAction' =
       [Pending("EXPLOSIVE_PLACEMENT", queue[1].playerID, NoPlayer,
                <<queue[1].card>>)
          EXCEPT !.reactiveExplosive = TRUE,
                 !.originalCurrentPlayerID = original]
  /\ unsafeExplosiveQueue' = queue
  /\ UNCHANGED <<currentPlayerID, turnDebt, winner>>

StartNextUnsafeExplosivePlacement(queue, original) ==
  /\ phase' = "WAITING_EXPLOSIVE_PLACEMENT"
  /\ pendingAction' =
       [Pending("EXPLOSIVE_PLACEMENT", queue[1].playerID, NoPlayer,
                <<queue[1].card>>)
          EXCEPT !.reactiveExplosive = TRUE,
                 !.originalCurrentPlayerID = original]
  /\ unsafeExplosiveQueue' = Tail(queue)
  /\ UNCHANGED <<currentPlayerID, turnDebt, winner>>

FinishUnsafeExplosiveResolution(original, living) ==
  /\ pendingAction' = NoPendingAction
  /\ unsafeExplosiveQueue' = <<>>
  /\ IF original \in living /\ ~IsGameOver(living)
       THEN /\ currentPlayerID' = original
            /\ phase' = "PLAYER_TURN"
            /\ UNCHANGED <<turnDebt, winner>>
       ELSE AdvanceOrEndGame(original, living)

\* The order the players S are looked at in: first, then by seat.
LookedAtBefore(first, p, q) == q # first /\ (p = first \/ p < q)

LookOrders(S, first) ==
  {order \in UNION {[1..n -> S] : n \in 0..N} :
     /\ S = {order[i] : i \in DOMAIN order}
     /\ \A i, j \in DOMAIN order :
           i < j => LookedAtBefore(first, order[i], order[j])}

\* Each of the players ids, first before the others, gives a shield for an
\* explosive it cannot hold, which joins the queue, or is eliminated.  h and
\* discard are the hands and the discard pile by then, and cleared is the
\* set of players whose marks the caller has swept.
ResolveUnsafeExplosivesFrom(original, ids, first, h, discard, cleared) ==
  LET unsafe == {p \in ids \cap alive : Unsafe(h[p])}
      placing == {p \in unsafe : Holds(h[p], "SHIELD")}
      dying == unsafe \ placing
  IN \E shield, explosive \in [placing -> Card], order \in LookOrders(placing, first) :
       LET queue == unsafeExplosiveQueue \o
                      [i \in DOMAIN order |->
                         [playerID |-> order[i], card |-> explosive[order[i]]]]
       IN /\ \A p \in placing :
                /\ shield[p] \in CardsByCode(h[p], "SHIELD")
                /\ explosive[p] \in CardsByCode(h[p], "EXPLOSIVE")
          /\ hands' = [p \in Player |->
                         IF p \in dying THEN {}
                         ELSE IF p \in placing THEN h[p] \ {shield[p], explosive[p]}
                         ELSE h[p]]
          /\ discardPile' = discard \cup {shield[p] : p \in placing}
                                    \cup UNION {h[p] : p \in dying}
          /\ markedCards' = ClearMarks(cleared \cup unsafe, hands')
          /\ alive' = alive \ dying
          /\ IF queue # <<>>
               THEN StartNextUnsafeExplosivePlacement(queue, original)
               ELSE FinishUnsafeExplosiveResolution(original, alive \ dying)

\* Mutant: only the player who receives the card is looked at.
TransferCard_Mutant(card, from, to) ==
  ResolveUnsafeExplosivesFrom(
    currentPlayerID, {to}, to,
    [hands EXCEPT ![from] = @ \ {card}, ![to] = @ \cup {card}],
    discardPile, {from})

\* Mutant: the marks of the wrong hand are swept.
TransferCard_Mutant2(card, from, to) ==
  ResolveUnsafeExplosivesFrom(
    currentPlayerID, {from, to}, from,
    [hands EXCEPT ![from] = @ \ {card}, ![to] = @ \cup {card}],
    discardPile, {to})

\* card moves from one hand to the other, and both are looked at.
TransferCard(card, from, to) ==
  ResolveUnsafeExplosivesFrom(
    currentPlayerID, {from, to}, from,
    [hands EXCEPT ![from] = @ \ {card}, ![to] = @ \cup {card}],
    discardPile, {from})

----------------------------------------------------------------------------
(* The game begins (DeckFactory.NewSetup): everyone has one shield and the *)
(* agreed number of other cards, none of them explosive; the rest is the   *)
(* draw pile, in any order.                                                *)

OpeningHand ==
  {hand \in SUBSET Card :
     /\ Cardinality(CardsByCode(hand, "SHIELD")) = 1
     /\ Cardinality(hand) = 1 + InitialRandomHandCards
     /\ ~Holds(hand, "EXPLOSIVE")}

Init ==
  /\ hands \in {h \in [Player -> OpeningHand] :
                  \A p, q \in Player : p # q => h[p] \cap h[q] = {}}
  /\ drawPile \in Orderings(Card \ UNION {hands[p] : p \in Player})
  /\ phase = "PLAYER_TURN"
  /\ alive = Player
  /\ discardPile = {}
  /\ currentPlayerID = 1
  /\ turnDebt = [p \in Player |-> IF p = 1 THEN 1 ELSE 0]
  /\ pendingAction = NoPendingAction
  /\ markedCards = [c \in Card |-> NoPlayer]
  /\ unsafeExplosiveQueue = <<>>
  /\ winner = NoPlayer

----------------------------------------------------------------------------
(* The turn of the current player.                                         *)

InTurn(p) == phase = "PLAYER_TURN" /\ currentPlayerID = p /\ p \in alive

DrawCard(p) ==
  /\ InTurn(p)
  /\ drawPile # <<>>
  /\ ResolveDrawnCard(p, Head(drawPile), Tail(drawPile), pendingAction)

\* validateTarget
ValidTarget(source, target, mustHaveCards) ==
  /\ target \in alive \ {source}
  /\ mustHaveCards => hands[target] # {}

\* Mutant: any target will do where there must be one.
TargetOfCard_Mutant(p, code, target) == RequiresTarget(code) => target # NoPlayer

\* What PlayCard asks of the target.  A target nothing asks for is stored as it
\* was sent; NoPlayer stands for none and for the name of nobody at the table.
TargetOfCard(p, code, target) ==
  /\ code = "TARGET_EXTRA_TURNS" => ValidTarget(p, target, FALSE)
  /\ code \in {"REQUEST_CARD", "REVEAL_HELD_CARD"} => ValidTarget(p, target, TRUE)

\* Mutant: the cards played stay in the hand.
OpenCancelWindow_Mutant(p, played, pending) ==
  /\ discardPile' = discardPile \cup played
  /\ phase' = "CANCEL_WINDOW"
  /\ pendingAction' = pending
  /\ UNCHANGED <<hands, alive, drawPile, currentPlayerID, turnDebt, markedCards,
                 unsafeExplosiveQueue, winner>>

OpenCancelWindow(p, played, pending) ==
  /\ hands' = [hands EXCEPT ![p] = @ \ played]
  /\ markedCards' = ClearMarks({p}, hands')
  /\ discardPile' = discardPile \cup played
  /\ phase' = "CANCEL_WINDOW"
  /\ pendingAction' = pending
  /\ UNCHANGED <<alive, drawPile, currentPlayerID, turnDebt,
                 unsafeExplosiveQueue, winner>>

PlayCard(p, card, target) ==
  /\ InTurn(p)
  /\ card \in hands[p]
  /\ PlayableAlone(Code[card])
  /\ RequiresTarget(Code[card]) => target # NoPlayer
  /\ TargetOfCard(p, Code[card], target)
  /\ Code[card] = "DRAW_FROM_BOTTOM" => drawPile # <<>>
  /\ OpenCancelWindow(p, {card}, Pending("PLAY_CARD", p, target, <<card>>))

\* What PlayCombo asks of the target; the code requested is looked at by
\* ComboKindOf, and both are stored whether they are asked for or not.
TargetOfCombo(p, kind, target) ==
  /\ kind = "PAIR" => ValidTarget(p, target, TRUE)
  /\ kind = "TRIPLE" => ValidTarget(p, target, FALSE)

PlayCombo(p, cards, target, requestedCode) ==
  LET kind == ComboKindOf(hands[p], cards, requestedCode) IN
  /\ InTurn(p)
  /\ cards \subseteq hands[p]
  /\ kind # ""
  /\ TargetOfCombo(p, kind, target)
  /\ OpenCancelWindow(p, cards,
       [Pending("CARD_COMBO", p, target, <<>>)
          EXCEPT !.comboKind = kind, !.requestedCode = requestedCode])

----------------------------------------------------------------------------
(* The cancel window.                                                      *)

PlayCancel(p, card) ==
  /\ phase = "CANCEL_WINDOW"
  /\ IsCancelable(pendingAction)
  /\ p \in alive
  /\ card \in CardsByCode(hands[p], "CANCEL")
  /\ hands' = [hands EXCEPT ![p] = @ \ {card}]
  /\ markedCards' = ClearMarks({p}, hands')
  /\ discardPile' = discardPile \cup {card}
  /\ pendingAction' = [pendingAction EXCEPT !.cancelCount = @ + 1]
  /\ UNCHANGED <<phase, alive, drawPile, currentPlayerID, turnDebt,
                 unsafeExplosiveQueue, winner>>

\* The cards in the hands and on the piles stay; only the turn moves on.
OnlyTurnChanges ==
  /\ pendingAction' = NoPendingAction
  /\ UNCHANGED <<hands, alive, drawPile, discardPile, markedCards,
                 unsafeExplosiveQueue, winner>>

\* Only the order of the draw pile changes, and the turn goes on.
ReorderDrawPile(pile) ==
  /\ drawPile' = pile
  /\ phase' = "PLAYER_TURN"
  /\ pendingAction' = NoPendingAction
  /\ UNCHANGED <<hands, alive, discardPile, currentPlayerID, turnDebt,
                 markedCards, unsafeExplosiveQueue, winner>>

\* Somebody has to answer before the game goes on.
WaitFor(waiting, pending) ==
  /\ phase' = waiting
  /\ pendingAction' = pending
  /\ UNCHANGED <<hands, alive, drawPile, discardPile, currentPlayerID,
                 turnDebt, markedCards, unsafeExplosiveQueue, winner>>

ResolveSkipTurn == OnlyTurnChanges /\ CompleteCurrentTurnUnit

\* Mutant: the turns of one extra-turns card are taken off.
ResolveSkipAllTurns_Mutant(source) ==
  /\ OnlyTurnChanges
  /\ AdvanceToNextAlivePlayer(currentPlayerID,
       [turnDebt EXCEPT ![source] = @ - extraTurnDebt], alive)

ResolveSkipAllTurns(source) ==
  /\ OnlyTurnChanges
  /\ AdvanceToNextAlivePlayer(currentPlayerID, [turnDebt EXCEPT ![source] = 0], alive)

\* Mutant: the source still owes the turns it has passed on.
ResolveExtraTurns_Mutant(source, target) ==
  /\ OnlyTurnChanges
  /\ AdvanceToPlayer(target, [turnDebt EXCEPT ![target] = @ + extraTurnDebt])

\* Mutant: the turn goes to the next seat, not to the target.
ResolveExtraTurns_Mutant2(source, target) ==
  /\ OnlyTurnChanges
  /\ AdvanceToNextAlivePlayer(source,
       [[turnDebt EXCEPT ![target] = @ + extraTurnDebt] EXCEPT ![source] = 0], alive)

\* The target owes two more turns, then the source none, in that order.
ResolveExtraTurns(source, target) ==
  /\ OnlyTurnChanges
  /\ AdvanceToPlayer(target,
       [[turnDebt EXCEPT ![target] = @ + extraTurnDebt] EXCEPT ![source] = 0])

ResolveShuffleDeck == \E pile \in Shuffles(drawPile) : ReorderDrawPile(pile)

\* The turn goes on and no card moves.
NothingMoves == ReorderDrawPile(drawPile)

\* The source is shown the top of the pile, in a private event.
ResolvePeekDeck == NothingMoves

ResolveRequestCard(source, target) ==
  WaitFor("WAITING_REQUEST_CARD_CHOICE",
          Pending("REQUEST_CARD_CHOICE", source, target, <<>>))

ResolveRevealHeldCard(source, target) ==
  WaitFor("WAITING_MARKED_CARD_CHOICE",
          Pending("MARKED_CARD_CHOICE", source, target, <<>>))

ResolveDrawFromBottom(source) ==
  IF drawPile = <<>>
    THEN NothingMoves
    ELSE ResolveDrawnCard(source, drawPile[Len(drawPile)],
                          SubSeq(drawPile, 1, Len(drawPile) - 1), NoPendingAction)

ResolveSwapTopBottom ==
  ReorderDrawPile(
    IF Len(drawPile) > 1
      THEN [drawPile EXCEPT ![1] = drawPile[Len(drawPile)],
                            ![Len(drawPile)] = drawPile[1]]
      ELSE drawPile)

ResolveReorderTop(source, limit) ==
  IF drawPile = <<>>
    THEN NothingMoves
    ELSE WaitFor("WAITING_DECK_REORDER",
                 Pending("DECK_REORDER", source, NoPlayer, TopCards(drawPile, limit)))

\* Mutant: players without a card are asked for one, too.
ResolveCollectiveRecycle_Mutant(source) ==
  WaitFor("WAITING_RECYCLE_CHOICES",
          [Pending("RECYCLE_CHOICES", source, NoPlayer, <<>>)
             EXCEPT !.recyclePlayerIDs = alive])

\* With no cards in any hand there is nothing to collect.
ResolveCollectiveRecycle(source) ==
  LET eligible == {p \in alive : hands[p] # {}} IN
  IF eligible = {}
    THEN ResolveShuffleDeck
    ELSE WaitFor("WAITING_RECYCLE_CHOICES",
                 [Pending("RECYCLE_CHOICES", source, NoPlayer, <<>>)
                    EXCEPT !.recyclePlayerIDs = eligible])

ResolvePlayedCard(code, source, target) ==
  \/ code = "SKIP_TURN" /\ ResolveSkipTurn
  \/ code = "SKIP_ALL_TURNS" /\ ResolveSkipAllTurns(source)
  \/ /\ code = "FORCE_EXTRA_TURNS"
     /\ \E q \in Player : IsNextAlive(source, q, alive) /\ ResolveExtraTurns(source, q)
  \/ code = "TARGET_EXTRA_TURNS" /\ ResolveExtraTurns(source, target)
  \/ code = "SHUFFLE_DECK" /\ ResolveShuffleDeck
  \/ code \in {"PEEK_DECK", "PEEK_DECK_5"} /\ ResolvePeekDeck
  \/ code = "REQUEST_CARD" /\ ResolveRequestCard(source, target)
  \/ code = "REVEAL_HELD_CARD" /\ ResolveRevealHeldCard(source, target)
  \/ code = "DRAW_FROM_BOTTOM" /\ ResolveDrawFromBottom(source)
  \/ code = "SWAP_TOP_BOTTOM" /\ ResolveSwapTopBottom
  \/ code = "REORDER_TOP_3" /\ ResolveReorderTop(source, 3)
  \/ code = "REORDER_TOP_5" /\ ResolveReorderTop(source, 5)
  \/ code = "COLLECTIVE_RECYCLE" /\ ResolveCollectiveRecycle(source)

\* transferRandomCard fails when the target has no card left: the error comes
\* after the pending action is gone, so the combination is spent for nothing.
ResolvePair(source, target) ==
  \/ /\ {source, target} \subseteq alive
     /\ \E card \in hands[target] : TransferCard(card, target, source)
     /\ UNCHANGED drawPile
  \/ /\ ~({source, target} \subseteq alive) \/ hands[target] = {}
     /\ NothingMoves

ResolveTriple(source, target, requestedCode) ==
  \/ /\ {source, target} \subseteq alive
     /\ \E card \in CardsByCode(hands[target], requestedCode) :
           TransferCard(card, target, source)
     /\ UNCHANGED drawPile
  \/ /\ ~({source, target} \subseteq alive) \/ ~Holds(hands[target], requestedCode)
     /\ NothingMoves

ResolveFiveDifferent(source) ==
  WaitFor("WAITING_DISCARD_RECOVERY",
          [Pending("DISCARD_RECOVERY", source, NoPlayer, <<>>)
             EXCEPT !.comboKind = "FIVE_DIFFERENT"])

ResolveCombo(kind, source, target, requestedCode) ==
  \/ kind = "PAIR" /\ ResolvePair(source, target)
  \/ kind = "TRIPLE" /\ ResolveTriple(source, target, requestedCode)
  \/ kind = "FIVE_DIFFERENT" /\ ResolveFiveDifferent(source)

\* Every second cancel cancels the cancel before it.
ResolveCancelWindow(pending) ==
  \/ /\ pending.cancelCount % 2 = 1
     /\ NothingMoves
  \/ /\ pending.cancelCount % 2 = 0
     /\ pending.type = "PLAY_CARD"
     /\ ResolvePlayedCard(Code[pending.cards[1]], pending.sourcePlayerID,
                          pending.targetPlayerID)
  \/ /\ pending.cancelCount % 2 = 0
     /\ pending.type = "CARD_COMBO"
     /\ ResolveCombo(pending.comboKind, pending.sourcePlayerID,
                     pending.targetPlayerID, pending.requestedCode)

\* The call whose clock has reached the end of the window.
ExpireCancelWindow ==
  /\ phase = "CANCEL_WINDOW"
  /\ IsCancelable(pendingAction)
  /\ ResolveCancelWindow(pendingAction)

----------------------------------------------------------------------------
(* The answers the game may be waiting for.                                *)

\* Mutant: the top of the pile is refused.
PlacementIndex_Mutant == 1..Len(drawPile)

\* An explosive may be put anywhere from the top to the bottom.
PlacementIndex == 0..Len(drawPile)

\* Mutant: every placement ends the turn of the current player.
PlaceExplosive_Mutant(p, index) ==
  /\ phase = "WAITING_EXPLOSIVE_PLACEMENT"
  /\ pendingAction.sourcePlayerID = p
  /\ index \in PlacementIndex
  /\ drawPile' = InsertCardAt(drawPile, pendingAction.cards[1], index)
  /\ pendingAction' = NoPendingAction
  /\ CompleteCurrentTurnUnit
  /\ UNCHANGED <<hands, alive, discardPile, markedCards,
                 unsafeExplosiveQueue, winner>>

PlaceExplosive(p, index) ==
  /\ phase = "WAITING_EXPLOSIVE_PLACEMENT"
  /\ pendingAction.type = "EXPLOSIVE_PLACEMENT"
  /\ pendingAction.sourcePlayerID = p
  /\ index \in PlacementIndex
  /\ Len(pendingAction.cards) = 1
  /\ drawPile' = InsertCardAt(drawPile, pendingAction.cards[1], index)
  /\ IF pendingAction.reactiveExplosive
       THEN ResolveUnsafeExplosivesFrom(pendingAction.originalCurrentPlayerID,
                                        {p}, p, hands, discardPile, {})
       ELSE /\ pendingAction' = NoPendingAction
            /\ CompleteCurrentTurnUnit
            /\ UNCHANGED <<hands, alive, discardPile, markedCards,
                           unsafeExplosiveQueue, winner>>

ChooseCardForRequest(p, card) ==
  /\ phase = "WAITING_REQUEST_CARD_CHOICE"
  /\ pendingAction.type = "REQUEST_CARD_CHOICE"
  /\ pendingAction.targetPlayerID = p
  /\ {p, pendingAction.sourcePlayerID} \subseteq alive
  /\ card \in hands[p]
  /\ TransferCard(card, p, pendingAction.sourcePlayerID)
  /\ UNCHANGED drawPile

ChooseMarkedCard(p, card) ==
  LET target == pendingAction.targetPlayerID IN
  /\ phase = "WAITING_MARKED_CARD_CHOICE"
  /\ pendingAction.type = "MARKED_CARD_CHOICE"
  /\ pendingAction.sourcePlayerID = p
  /\ target \in alive
  /\ card \in hands[target]
  /\ markedCards' = [markedCards EXCEPT ![card] = target]
  /\ pendingAction' = NoPendingAction
  /\ phase' = "PLAYER_TURN"
  /\ UNCHANGED <<hands, alive, drawPile, discardPile, currentPlayerID,
                 turnDebt, unsafeExplosiveQueue, winner>>

SubmitReorderedTopCards(p, top) ==
  LET n == Len(pendingAction.cards) IN
  /\ phase = "WAITING_DECK_REORDER"
  /\ pendingAction.type = "DECK_REORDER"
  /\ pendingAction.sourcePlayerID = p
  /\ Len(drawPile) >= n
  /\ SubSeq(drawPile, 1, n) = pendingAction.cards
  /\ top \in Shuffles(pendingAction.cards)
  /\ ReorderDrawPile(top \o SubSeq(drawPile, n + 1, Len(drawPile)))

ChooseCardForRecycle(p, card) ==
  LET ids == pendingAction.recyclePlayerIDs
      selections == [pendingAction.recycleSelections EXCEPT ![p] = card]
      h == [hands EXCEPT ![p] = @ \ {card}]
  IN /\ phase = "WAITING_RECYCLE_CHOICES"
     /\ pendingAction.type = "RECYCLE_CHOICES"
     /\ p \in ids
     /\ pendingAction.recycleSelections[p] = NoCard
     /\ p \in alive
     /\ card \in hands[p]
     /\ IF \E q \in ids : selections[q] = NoCard
          THEN /\ hands' = h
               /\ markedCards' = ClearMarks({p}, h)
               /\ pendingAction' = [pendingAction EXCEPT !.recycleSelections = selections]
               /\ UNCHANGED <<phase, alive, drawPile, discardPile, currentPlayerID,
                              turnDebt, unsafeExplosiveQueue, winner>>
          ELSE /\ \E order \in LookOrders(ids, NoPlayer) :
                    drawPile' \in Shuffles(drawPile \o
                       [i \in DOMAIN order |-> selections[order[i]]])
               /\ ResolveUnsafeExplosivesFrom(currentPlayerID, ids, NoPlayer,
                                              h, discardPile, {p})

ChooseCardFromDiscard(p, card) ==
  /\ phase = "WAITING_DISCARD_RECOVERY"
  /\ pendingAction.type = "DISCARD_RECOVERY"
  /\ pendingAction.sourcePlayerID = p
  /\ card \in discardPile
  /\ p \in alive
  /\ ResolveUnsafeExplosivesFrom(currentPlayerID, {p}, p,
                                 [hands EXCEPT ![p] = @ \cup {card}],
                                 discardPile \ {card}, {})
  /\ UNCHANGED drawPile

----------------------------------------------------------------------------
Next ==
  \/ ExpireCancelWindow
  \/ \E p \in Player :
       \/ DrawCard(p)
       \/ \E index \in PlacementIndex : PlaceExplosive(p, index)
       \/ \E top \in Shuffles(pendingAction.cards) : SubmitReorderedTopCards(p, top)
       \/ \E card \in Card :
            \/ \E target \in Player \cup {NoPlayer} : PlayCard(p, card, target)
            \/ PlayCancel(p, card)
            \/ ChooseCardForRequest(p, card)
            \/ ChooseMarkedCard(p, card)
            \/ ChooseCardForRecycle(p, card)
            \/ ChooseCardFromDiscard(p, card)
       \/ \E cards \in SUBSET hands[p], target \in Player \cup {NoPlayer},
             requestedCode \in RequestableCode :
            PlayCombo(p, cards, target, requestedCode)

Spec == Init /\ [][Next]_vars

\* Once its window is over, the server's timer resolves the pending action.
FairSpec == Spec /\ WF_vars(ExpireCancelWindow)

----------------------------------------------------------------------------
(* What the game must keep to.                                             *)

\* Every variable of the GameState has a value of its type.
TypeOK ==
  /\ phase \in GamePhase
  /\ hands \in [Player -> SUBSET Card]
  /\ alive \subseteq Player
  /\ drawPile \in Seq(Card)
  /\ discardPile \subseteq Card
  /\ currentPlayerID \in Player \cup {NoPlayer}
  /\ turnDebt \in [Player -> Nat]
  /\ pendingAction \in PendingAction \cup {NoPendingAction}
  /\ markedCards \in [Card -> Player \cup {NoPlayer}]
  /\ unsafeExplosiveQueue \in Seq(UnsafePlacement)
  /\ winner \in Player \cup {NoPlayer}

\* Until the game is over the current player owes at least one turn and no
\* other living player owes any, and however FORCE_EXTRA_TURNS and
\* TARGET_EXTRA_TURNS are chained nobody ever owes more than extraTurnDebt
\* (completeCurrentTurnUnit, advanceToPlayer).
TurnDebtDiscipline ==
  phase # "GAME_OVER" =>
    \A p \in alive :
      turnDebt[p] \in IF p = currentPlayerID THEN 1..extraTurnDebt ELSE {0}

\* The pending actions that do something to their target; the others may have
\* any target, which nobody reads but the view that publishes it.
Targeted(pending) ==
  \/ pending.type = "PLAY_CARD" /\ RequiresTarget(Code[pending.cards[1]])
  \/ pending.type = "CARD_COMBO" /\ pending.comboKind \in {"PAIR", "TRIPLE"}
  \/ pending.type \in {"REQUEST_CARD_CHOICE", "MARKED_CARD_CHOICE"}

\* The phase and the pending action always tell the same story: which command
\* is due, from whom, and about whom; the turn stays with the player whose
\* card or draw caused it, even while somebody else places an explosive, and
\* whoever it is done to was and still is another living player.
PendingMatchesPhase ==
  LET source == pendingAction.sourcePlayerID
      target == pendingAction.targetPlayerID
      type == pendingAction.type
  IN /\ phase \in {"PLAYER_TURN", "GAME_OVER"} <=> pendingAction = NoPendingAction
     /\ phase = "CANCEL_WINDOW" <=> IsCancelable(pendingAction)
     /\ phase = "WAITING_REQUEST_CARD_CHOICE" <=> type = "REQUEST_CARD_CHOICE"
     /\ phase = "WAITING_MARKED_CARD_CHOICE" <=> type = "MARKED_CARD_CHOICE"
     /\ phase = "WAITING_DECK_REORDER" <=> type = "DECK_REORDER"
     /\ phase = "WAITING_RECYCLE_CHOICES" <=> type = "RECYCLE_CHOICES"
     /\ phase = "WAITING_DISCARD_RECOVERY" <=> type = "DISCARD_RECOVERY"
     /\ phase = "WAITING_EXPLOSIVE_PLACEMENT" <=> type = "EXPLOSIVE_PLACEMENT"
     /\ type # "NONE" => source \in alive
     /\ type # "NONE" =>
          currentPlayerID = IF pendingAction.reactiveExplosive
                              THEN pendingAction.originalCurrentPlayerID ELSE source
     /\ Targeted(pendingAction) => target \in alive \ {source}

\* The places a card is in.
Locations(c) ==
  {<<"hand", p>> : p \in {q \in Player : c \in hands[q]}}
    \cup {<<"draw pile", i>> : i \in {j \in DOMAIN drawPile : drawPile[j] = c}}
    \cup {<<"discard pile", 0>> : x \in {c} \cap discardPile}
    \cup {<<"to be placed", 0>> : x \in {c} \cap
            IF pendingAction.type = "EXPLOSIVE_PLACEMENT"
              THEN {pendingAction.cards[1]} ELSE {}}
    \cup {<<"queue", i>> : i \in {j \in DOMAIN unsafeExplosiveQueue :
                                     unsafeExplosiveQueue[j].card = c}}
    \cup {<<"recycled", p>> : p \in {q \in Player :
                                       pendingAction.recycleSelections[q] = c}}

\* Every card of the deck is always in exactly one place: no command, and no
\* path through the explosives and the shields they cost, loses or doubles
\* one, and what is marked for placing or recycling is out of the hands.
CardConservation == \A c \in Card : \E place \in Locations(c) : Locations(c) = {place}

\* Nobody keeps an explosive they cannot hold.  The one exception is a player
\* who has put the holder itself into a recycling that is not finished.
ExplosivesHeldSafely ==
  \A p \in Player : Unsafe(hands[p]) =>
     \E c \in Card : /\ pendingAction.recycleSelections[p] = c
                     /\ Code[c] = "EXPLOSIVE_HOLDER"

\* One player at most is endangered by a command, so the placements never
\* queue up between commands (resolveUnsafeExplosivesFrom).
NoQueueBetweenCommands == unsafeExplosiveQueue = <<>>

\* The game is over exactly when one player is left, who is the winner; it
\* never loses its last player, and until then it is a living player's turn.
LastAliveWins ==
  /\ alive # {}
  /\ phase = "GAME_OVER" <=> alive = {winner}
  /\ phase # "GAME_OVER" => \E p, q \in alive : p # q
  /\ phase = "GAME_OVER" => currentPlayerID = NoPlayer
  /\ phase # "GAME_OVER" => currentPlayerID \in alive

\* A mark, which shows a card to another player, never outlives the time its
\* owner holds the card (clearMarksForPlayerHand on every way out of a hand).
MarksFollowCards ==
  \A c \in Card : markedCards[c] # NoPlayer => c \in hands[markedCards[c]]

\* A player who has a shield survives the command: the shield is spent first.
ShieldSaves ==
  [][\A p \in alive \ alive' : ~Holds(hands[p], "SHIELD")]_vars

\* Only the player whose turn it is gets rid of turns, and whoever is given
\* turns takes them at once (advanceToPlayer on every path that adds to the
\* debt).
TurnsChangeHands ==
  [][\A p \in Player :
       /\ turnDebt'[p] < turnDebt[p] => p = currentPlayerID
       /\ turnDebt'[p] > turnDebt[p] => p # currentPlayerID /\ p = currentPlayerID']_vars

\* An explosive that a card has shaken out of a hand interrupts the turn and
\* does not use it up: after its placement the same player owes as much as
\* before (OriginalCurrentPlayerID).
ReactivePlacementKeepsTurn ==
  [][pendingAction.reactiveExplosive /\ phase' # "GAME_OVER" =>
       UNCHANGED <<currentPlayerID, turnDebt>>]_vars

\* A command is always possible except in the stalls the engine has: a prompt
\* for a card of a hand that has become empty, and an empty draw pile.
OnlyKnownStalls ==
  \/ phase = "GAME_OVER"
  \/ ENABLED Next
  \/ /\ phase \in {"WAITING_REQUEST_CARD_CHOICE", "WAITING_MARKED_CARD_CHOICE"}
     /\ hands[pendingAction.targetPlayerID] = {}
  \/ phase = "PLAYER_TURN" /\ drawPile = <<>>

\* Every cancel window closes: whatever was played, it can be resolved, and
\* cancels cannot keep the window open for ever.
CancelWindowCloses == phase = "CANCEL_WINDOW" ~> phase # "CANCEL_WINDOW"

\* "two cancels should allow combo to resolve" (engine_test.go:1369): the
\* target of a pair canceled twice loses a card.
TwoCancelsAllowComboToResolve ==
  [][/\ phase = "CANCEL_WINDOW" /\ phase' # "CANCEL_WINDOW"
     /\ pendingAction.comboKind = "PAIR" /\ pendingAction.cancelCount = 2
     => hands'[pendingAction.targetPlayerID] # hands[pendingAction.targetPlayerID]]_vars
============================================================================
