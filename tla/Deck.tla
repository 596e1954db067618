-------------------------------- MODULE Deck --------------------------------
(***************************************************************************)
(* The decks and the deal (internal/game/deck.go).  A deck profile says    *)
(* how many cards of each code are played with how many players; NewSetup  *)
(* deals from it.  Which card goes where is left to chance, so the deal is *)
(* followed by counting; module Engine starts from any deal of this shape. *)
(***************************************************************************)
EXTENDS Integers, Sequences, FiniteSetsExt, Functions, TLC

CONSTANT PlayerCount   \* the numbers of players NewSetup may be asked for

ASSUME PlayerCountAssumption == PlayerCount \subseteq Nat

MinPlayers == 2
MaxPlayers == 10
InitialRandomHandCards == 7
RequiredShieldCards == 1

\* The counts of deckProfiles: one card of a code, unless they say otherwise.
CodesOfAll ==
  {"CANCEL", "FORCE_EXTRA_TURNS", "TARGET_EXTRA_TURNS", "SKIP_TURN",
   "SKIP_ALL_TURNS", "REQUEST_CARD", "SHUFFLE_DECK", "PEEK_DECK", "WILD_TOKEN",
   "EXPLOSIVE_HOLDER", "COLLECTIVE_RECYCLE", "REVEAL_HELD_CARD",
   "DRAW_FROM_BOTTOM", "SWAP_TOP_BOTTOM", "REORDER_TOP_3", "BLIND_HAND",
   "STACK_EXPLOSIVES_ON_TOP", "TOKEN_A"}

CodesOfLarge == CodesOfAll \cup {"PEEK_DECK_5", "REORDER_TOP_5"}

Counts(codes, several) == several @@ [k \in codes |-> 1]

DeckProfiles ==
  << [minPlayers |-> 2, maxPlayers |-> 3, fixedShieldCount |-> 0, extraShieldCards |-> 3,
      counts |-> Counts(CodesOfAll,
        "CANCEL" :> 4 @@ "FORCE_EXTRA_TURNS" :> 2 @@ "TARGET_EXTRA_TURNS" :> 2 @@
        "SKIP_TURN" :> 4 @@ "REQUEST_CARD" :> 2 @@ "SHUFFLE_DECK" :> 2 @@
        "PEEK_DECK" :> 3 @@ "WILD_TOKEN" :> 2 @@ "DRAW_FROM_BOTTOM" :> 3 @@
        "REORDER_TOP_3" :> 3 @@ "BLIND_HAND" :> 2 @@ "TOKEN_A" :> 3)],
     [minPlayers |-> 4, maxPlayers |-> 7, fixedShieldCount |-> 8, extraShieldCards |-> 0,
      counts |-> Counts(CodesOfLarge,
        "CANCEL" :> 5 @@ "FORCE_EXTRA_TURNS" :> 3 @@ "TARGET_EXTRA_TURNS" :> 3 @@
        "SKIP_TURN" :> 6 @@ "REQUEST_CARD" :> 4 @@ "SHUFFLE_DECK" :> 4 @@
        "PEEK_DECK" :> 3 @@ "WILD_TOKEN" :> 4 @@ "REVEAL_HELD_CARD" :> 2 @@
        "DRAW_FROM_BOTTOM" :> 4 @@ "SWAP_TOP_BOTTOM" :> 2 @@
        "REORDER_TOP_3" :> 4 @@ "BLIND_HAND" :> 2 @@ "TOKEN_A" :> 4)],
     [minPlayers |-> 8, maxPlayers |-> 10, fixedShieldCount |-> 10, extraShieldCards |-> 0,
      counts |-> Counts(CodesOfLarge,
        "CANCEL" :> 9 @@ "FORCE_EXTRA_TURNS" :> 5 @@ "TARGET_EXTRA_TURNS" :> 5 @@
        "SKIP_TURN" :> 10 @@ "REQUEST_CARD" :> 6 @@ "SHUFFLE_DECK" :> 6 @@
        "PEEK_DECK" :> 6 @@ "WILD_TOKEN" :> 6 @@ "REVEAL_HELD_CARD" :> 3 @@
        "DRAW_FROM_BOTTOM" :> 7 @@ "SWAP_TOP_BOTTOM" :> 3 @@
        "REORDER_TOP_3" :> 6 @@ "BLIND_HAND" :> 2 @@ "TOKEN_A" :> 7)] >>

\* Mutant: the smallest profile is for everybody.
ProfileForPlayerCount_Mutant(n) == DeckProfiles[1]

\* profileForPlayerCount: the first profile that fits, when n is valid.
ProfileForPlayerCount(n) ==
  DeckProfiles[Min({i \in DOMAIN DeckProfiles :
                      n \in DeckProfiles[i].minPlayers..DeckProfiles[i].maxPlayers})]

\* shieldCount
ShieldCount(profile, n) ==
  IF profile.fixedShieldCount > 0 THEN profile.fixedShieldCount
  ELSE n + profile.extraShieldCards

\* One explosive less than there are players.
DeckCardCounts(n) ==
  LET profile == ProfileForPlayerCount(n) IN
  "SHIELD" :> ShieldCount(profile, n) @@ "EXPLOSIVE" :> n - 1 @@ profile.counts

\* ExpectedDeckSize, of the codes in S.
CardsOf(n, S) == FoldFunctionOnSet(+, 0, DeckCardCounts(n), S)

CodesOf(n) == DOMAIN DeckCardCounts(n)

----------------------------------------------------------------------------
VARIABLES
  playerCount,  \* len(players)
  setup,        \* how far NewSetup has come
  dealPool,     \* the cards left of dealPool
  handSizes,    \* the sizes of the hands dealt so far
  drawPile      \* the cards on the draw pile: those left over, and the others

vars == <<playerCount, setup, dealPool, handSizes, drawPile>>

Setup == {"dealing", "shields", "explosives", "done", "refused", "panic"}

\* ValidatePlayerCount comes before anything else.
Init ==
  /\ playerCount \in PlayerCount
  /\ handSizes = <<>>
  /\ drawPile = [leftOver |-> 0, shields |-> 0, explosives |-> 0]
  /\ IF playerCount \in MinPlayers..MaxPlayers
       THEN /\ setup = "dealing"
            /\ dealPool = CardsOf(playerCount, CodesOf(playerCount) \ {"SHIELD", "EXPLOSIVE"})
       ELSE setup = "refused" /\ dealPool = 0

\* A shield, and the next cards of the pool; slicing past its end panics.
DealHand ==
  /\ setup = "dealing"
  /\ Len(handSizes) < playerCount
  /\ IF dealPool < InitialRandomHandCards
       THEN setup' = "panic" /\ UNCHANGED <<dealPool, handSizes>>
       ELSE /\ dealPool' = dealPool - InitialRandomHandCards
            /\ handSizes' = Append(handSizes, RequiredShieldCards + InitialRandomHandCards)
            /\ UNCHANGED setup
  /\ UNCHANGED <<playerCount, drawPile>>

\* Mutant: the shields that have been dealt are not counted.
RemainingShieldCount_Mutant == DeckCardCounts(playerCount)["SHIELD"]

RemainingShieldCount ==
  DeckCardCounts(playerCount)["SHIELD"] - playerCount * RequiredShieldCards

\* What is left of the pool goes to the draw pile, if there are enough shields.
LeaveOver ==
  /\ setup = "dealing"
  /\ Len(handSizes) = playerCount
  /\ IF RemainingShieldCount < 0
       THEN setup' = "refused" /\ UNCHANGED <<dealPool, drawPile>>
       ELSE /\ setup' = "shields"
            /\ drawPile' = [drawPile EXCEPT !.leftOver = dealPool]
            /\ dealPool' = 0
  /\ UNCHANGED <<playerCount, handSizes>>

AddShield ==
  /\ setup = "shields"
  /\ IF drawPile.shields < RemainingShieldCount
       THEN drawPile' = [drawPile EXCEPT !.shields = @ + 1] /\ UNCHANGED setup
       ELSE setup' = "explosives" /\ UNCHANGED drawPile
  /\ UNCHANGED <<playerCount, dealPool, handSizes>>

AddExplosive ==
  /\ setup = "explosives"
  /\ IF drawPile.explosives < DeckCardCounts(playerCount)["EXPLOSIVE"]
       THEN drawPile' = [drawPile EXCEPT !.explosives = @ + 1] /\ UNCHANGED setup
       ELSE setup' = "done" /\ UNCHANGED drawPile
  /\ UNCHANGED <<playerCount, dealPool, handSizes>>

Next == DealHand \/ LeaveOver \/ AddShield \/ AddExplosive

Spec == Init /\ [][Next]_vars

----------------------------------------------------------------------------
\* The deck is large enough for every table it is meant for: the deal does not
\* slice past the end of the pool, nor is it refused for want of shields.
EveryTableIsDealt ==
  /\ setup # "panic"
  /\ setup = "refused" => playerCount \notin MinPlayers..MaxPlayers

\* The cards dealt and those of the draw pile are the deck, no card more or
\* less (ExpectedDeckSize, NewSetup).
DealUsesTheDeck ==
  setup = "done" =>
    CardsOf(playerCount, CodesOf(playerCount)) =
      SumFunction(handSizes) + SumFunction(drawPile)
=============================================================================
