------------------------------- MODULE Views -------------------------------
(***************************************************************************)
(* What a player is shown of the game (internal/game/view.go): the view    *)
(* BuildViewForPlayer makes of a GameState, and the commands it offers.    *)
(* Nothing here changes the state.                                         *)
(*                                                                         *)
(* Names and what the room adds to a player are left out, and so is the    *)
(* order of a hand.  No command blinds a player, so Blinded never hides    *)
(* anything.                                                               *)
(***************************************************************************)
EXTENDS Engine

CommandType ==
  {"DRAW_CARD", "PLAY_CARD", "PLAY_COMBO", "PLAY_CANCEL", "PLACE_EXPLOSIVE",
   "CHOOSE_CARD_FOR_REQUEST", "CHOOSE_CARD_FROM_DISCARD",
   "CHOOSE_CARD_FOR_RECYCLE", "CHOOSE_MARKED_CARD",
   "SUBMIT_REORDERED_TOP_CARDS"}

\* hasPlayableAction
HasPlayableAction(hand) == \E c \in hand : PlayableAlone(Code[c])

\* Mutant: a token is asked for.
HasPotentialComboCards_Mutant(hand) == \E c \in hand : Code[c] \in Tokens

\* hasPotentialComboCards
HasPotentialComboCards(hand) == Cardinality(hand) >= 2

\* Mutant: the target of a request is looked for where its source is.
OfferedTo_Mutant(p) ==
  CASE phase = "PLAYER_TURN" -> p = currentPlayerID
    [] phase = "WAITING_RECYCLE_CHOICES" ->
         /\ p \in pendingAction.recyclePlayerIDs
         /\ pendingAction.recycleSelections[p] = NoCard
    [] OTHER -> p = pendingAction.sourcePlayerID

\* Whom the phase is waiting for.
OfferedTo(p) ==
  CASE phase = "PLAYER_TURN" -> p = currentPlayerID
    [] phase = "WAITING_REQUEST_CARD_CHOICE" -> p = pendingAction.targetPlayerID
    [] phase = "WAITING_RECYCLE_CHOICES" ->
         /\ p \in pendingAction.recyclePlayerIDs
         /\ pendingAction.recycleSelections[p] = NoCard
    [] OTHER -> p = pendingAction.sourcePlayerID

\* buildAvailableActions.  Anybody may cancel; all the other commands are for
\* those the phase is waiting for.
AvailableActions(p) ==
  {k \in CommandType :
     /\ p \in alive
     /\ k # "PLAY_CANCEL" => OfferedTo(p)
     /\ CASE k = "DRAW_CARD" -> phase = "PLAYER_TURN"
          [] k = "PLAY_CARD" -> phase = "PLAYER_TURN" /\ HasPlayableAction(hands[p])
          [] k = "PLAY_COMBO" -> phase = "PLAYER_TURN" /\ HasPotentialComboCards(hands[p])
          [] k = "PLAY_CANCEL" -> phase = "CANCEL_WINDOW" /\ Holds(hands[p], "CANCEL")
          [] k = "PLACE_EXPLOSIVE" -> phase = "WAITING_EXPLOSIVE_PLACEMENT"
          [] k = "CHOOSE_CARD_FOR_REQUEST" -> phase = "WAITING_REQUEST_CARD_CHOICE"
          [] k = "CHOOSE_CARD_FROM_DISCARD" -> phase = "WAITING_DISCARD_RECOVERY"
          [] k = "CHOOSE_CARD_FOR_RECYCLE" -> phase = "WAITING_RECYCLE_CHOICES"
          [] k = "CHOOSE_MARKED_CARD" -> phase = "WAITING_MARKED_CARD_CHOICE"
          [] k = "SUBMIT_REORDERED_TOP_CARDS" -> phase = "WAITING_DECK_REORDER"}

\* Mutant: the cards of the pending action are shown, too.
PublicPendingAction_Mutant(pending) ==
  <<pending.type, pending.sourcePlayerID, pending.targetPlayerID,
    pending.comboKind, pending.requestedCode, pending.cancelCount, pending.cards>>

\* buildPublicPendingActionView
PublicPendingAction(pending) ==
  <<pending.type, pending.sourcePlayerID, pending.targetPlayerID,
    pending.comboKind, pending.requestedCode, pending.cancelCount>>

\* BuildViewForPlayer, if the hands were h, the draw pile was pile and the
\* pending action pending.
ViewOf(p, h, pile, pending) ==
  [you |-> h[p],
   alive |-> alive,
   handCount |-> [q \in Player |-> Cardinality(h[q])],
   drawPileCount |-> Len(pile),
   discardPile |-> discardPile,
   currentPlayerID |-> currentPlayerID,
   pendingAction |-> PublicPendingAction(pending),
   publicMarkedCards |-> markedCards]

----------------------------------------------------------------------------
\* The engine takes command k from p.
Takes(k, p) ==
  CASE k = "DRAW_CARD" -> DrawCard(p)
    [] k = "PLAY_CARD" ->
         \E c \in hands[p], t \in Player \cup {NoPlayer} : PlayCard(p, c, t)
    [] k = "PLAY_COMBO" ->
         \E cards \in SUBSET hands[p], t \in Player \cup {NoPlayer},
            requestedCode \in RequestableCode : PlayCombo(p, cards, t, requestedCode)
    [] k = "PLAY_CANCEL" -> \E c \in hands[p] : PlayCancel(p, c)
    [] k = "PLACE_EXPLOSIVE" -> \E index \in PlacementIndex : PlaceExplosive(p, index)
    [] k = "CHOOSE_CARD_FOR_REQUEST" -> \E c \in Card : ChooseCardForRequest(p, c)
    [] k = "CHOOSE_CARD_FROM_DISCARD" -> \E c \in Card : ChooseCardFromDiscard(p, c)
    [] k = "CHOOSE_CARD_FOR_RECYCLE" -> \E c \in Card : ChooseCardForRecycle(p, c)
    [] k = "CHOOSE_MARKED_CARD" -> \E c \in Card : ChooseMarkedCard(p, c)
    [] k = "SUBMIT_REORDERED_TOP_CARDS" ->
         \E top \in Shuffles(pendingAction.cards) : SubmitReorderedTopCards(p, top)

\* Whatever command the engine takes from a player, the player's view has
\* offered: the two modules decide that on their own, and a client that goes by
\* its view misses nothing (buildAvailableActions; the guards of Engine).
OnlyOfferedCommandsAreTaken ==
  [][\A p \in Player, k \in CommandType : Takes(k, p) => k \in AvailableActions(p)]_vars

\* The commands the engine would take from p now.
AcceptedCommands(p) == {k \in CommandType : ENABLED Takes(k, p)}

\* A card the engine takes only with a target, or from the bottom of a pile,
\* which it may not have.
Unplayable(c) == RequiresTarget(Code[c]) \/ Code[c] = "DRAW_FROM_BOTTOM"

\* What the view offers can be done.  The exceptions are the stalls the engine
\* has, combinations, which are only guessed at, and cards without a target or
\* a bottom card to draw.
OfferedCommandsAreAccepted ==
  \A p \in Player : \A k \in AvailableActions(p) \ AcceptedCommands(p) :
    \/ k = "DRAW_CARD" /\ drawPile = <<>>
    \/ k = "PLAY_CARD" /\ \A c \in hands[p] : PlayableAlone(Code[c]) => Unplayable(c)
    \/ k = "PLAY_COMBO"
    \/ k = "CHOOSE_CARD_FOR_REQUEST" /\ hands[p] = {}
    \/ k = "CHOOSE_MARKED_CARD" /\ hands[pendingAction.targetPlayerID] = {}

\* card with c and d changed for each other.
Swapped(card, c, d) == IF card = c THEN d ELSE IF card = d THEN c ELSE card

\* The cards nobody has shown to p.
HiddenFrom(p) == {c \in Card \ (hands[p] \cup discardPile) : markedCards[c] = NoPlayer}

\* A view tells nothing of the cards in other hands, in the draw pile, or set
\* aside for placing, reordering or recycling: had any two of them changed
\* places, the view would be the same.
ViewKeepsSecrets ==
  \A p \in Player : \A c, d \in HiddenFrom(p) :
    ViewOf(p, [q \in Player |-> {Swapped(e, c, d) : e \in hands[q]}],
              [i \in DOMAIN drawPile |-> Swapped(drawPile[i], c, d)],
              [pendingAction EXCEPT !.cards = [i \in DOMAIN @ |-> Swapped(@[i], c, d)],
                 !.recycleSelections = [q \in Player |-> Swapped(@[q], c, d)]])
      = ViewOf(p, hands, drawPile, pendingAction)
============================================================================
