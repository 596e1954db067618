------------------------------- MODULE Cards -------------------------------
(***************************************************************************)
(* The cards of the game (internal/game/card.go) and the predicates the    *)
(* engine applies to them.  A card is an identity with a code; what a hand *)
(* is good for is decided from the codes of the cards in it.               *)
(***************************************************************************)
EXTENDS Integers, FiniteSets

CONSTANTS
  Card,     \* the identities of the cards of one game
  NoCard,   \* not a card
  Code      \* the code of each card

Tokens == {"TOKEN_A", "TOKEN_B", "TOKEN_C", "TOKEN_D", "TOKEN_E"}

\* The action cards the engine can resolve (isSupportedBasicAction).
SupportedBasicActions ==
  {"SKIP_TURN", "SKIP_ALL_TURNS", "FORCE_EXTRA_TURNS", "TARGET_EXTRA_TURNS",
   "SHUFFLE_DECK", "PEEK_DECK", "PEEK_DECK_5", "REQUEST_CARD",
   "REVEAL_HELD_CARD", "DRAW_FROM_BOTTOM", "SWAP_TOP_BOTTOM",
   "REORDER_TOP_3", "REORDER_TOP_5", "COLLECTIVE_RECYCLE"}

\* CANCEL is an action that is only played against a pending one; BLIND_HAND
\* and STACK_EXPLOSIVES_ON_TOP are in the decks but have no resolution yet.
Actions ==
  SupportedBasicActions \cup {"CANCEL", "BLIND_HAND", "STACK_EXPLOSIVES_ON_TOP"}

CardCode ==
  Actions \cup Tokens
    \cup {"EXPLOSIVE", "SHIELD", "WILD_TOKEN", "EXPLOSIVE_HOLDER"}

NoCode == ""

ASSUME CardAssumption == /\ NoCard \notin Card
                         /\ Code \in [Card -> CardCode]

\* Every deck profile has exactly one EXPLOSIVE_HOLDER.
ASSUME SingleHolderAssumption ==
  \A c, d \in Card :
     Code[c] = "EXPLOSIVE_HOLDER" /\ Code[d] = "EXPLOSIVE_HOLDER" => c = d

----------------------------------------------------------------------------
\* The cards of code k in a hand (findCardIndexByCode, countCardsByCode).
CardsByCode(hand, k) == {c \in hand : Code[c] = k}

Holds(hand, k) == CardsByCode(hand, k) # {}

\* The hand has more explosives than its holder can carry.
Unsafe(hand) ==
  IF Holds(hand, "EXPLOSIVE_HOLDER")
    THEN \E c, d \in CardsByCode(hand, "EXPLOSIVE") : c # d
    ELSE Holds(hand, "EXPLOSIVE")

RequiresTarget(code) ==
  code \in {"TARGET_EXTRA_TURNS", "REQUEST_CARD", "REVEAL_HELD_CARD",
            "BLIND_HAND"}

\* The cards a player may play on their own in their turn.
PlayableAlone(code) ==
  code \in Actions /\ code # "CANCEL" /\ code \in SupportedBasicActions

----------------------------------------------------------------------------
(* Combinations of cards.                                                  *)

\* Either cards of one code, or one token code helped by wild tokens.
ValidMatchingCombo(cards) ==
  LET codes == {Code[c] : c \in cards} IN
  /\ "EXPLOSIVE" \notin codes
  /\ \/ \E k \in codes \ {"WILD_TOKEN"} : codes = {k}
     \/ \E k \in codes \cap Tokens : codes = {k, "WILD_TOKEN"}

\* Five codes, never the holder, and an explosive only off its holder.
ValidFiveDifferentCombo(hand, cards) ==
  /\ \A c, d \in cards : Code[c] = Code[d] => c = d
  /\ ~Holds(cards, "EXPLOSIVE_HOLDER")
  /\ Holds(cards, "EXPLOSIVE") => Holds(hand, "EXPLOSIVE_HOLDER")

\* validateCombo: the kind of combination the cards make, or "" for none.
\* requestedCode is NoCode when the command carries none.
ComboKindOf(hand, cards, requestedCode) ==
  LET n == Cardinality(cards) IN
  CASE n = 2 /\ ValidMatchingCombo(cards) -> "PAIR"
    [] n = 3 /\ ValidMatchingCombo(cards) /\ requestedCode # NoCode -> "TRIPLE"
    [] n = 5 /\ ValidFiveDifferentCombo(hand, cards) -> "FIVE_DIFFERENT"
    [] OTHER -> ""
============================================================================
