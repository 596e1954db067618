----------------------------- MODULE ComboLoops -----------------------------
(***************************************************************************)
(* The loops of validMatchingCombo and validFiveDifferentCombo             *)
(* (internal/game/engine.go), one card at a time.  Module Cards says of    *)
(* the cards as a set which combinations they accept.  A loop has decided  *)
(* when over is TRUE, and valid is what it returns.                        *)
(***************************************************************************)
EXTENDS Cards, Sequences

VARIABLES
  combo, inHand,                              \* the arguments: cards, playerHand
  place,                                      \* the card that comes next
  reference, seenRealToken, usesTokenRules,   \* of validMatchingCombo
  codesSeen, includesExplosive,               \* of validFiveDifferentCombo
  over, valid

matchVars == <<combo, place, reference, seenRealToken, usesTokenRules, over, valid>>
fiveVars == <<combo, inHand, place, codesSeen, includesExplosive, over, valid>>

\* cardsByIDsInHand gives every card once.
Combo == {s \in Seq(Card) : \A i, j \in DOMAIN s : s[i] = s[j] => i = j}

CardsOf(s) == {s[i] : i \in DOMAIN s}

Here == Code[combo[place]]

Decide(result) == over' = TRUE /\ valid' = result

----------------------------------------------------------------------------
(* validMatchingCombo                                                      *)

MatchInit ==
  /\ combo \in Combo
  /\ place = 1
  /\ reference = NoCode
  /\ seenRealToken = FALSE
  /\ usesTokenRules = FALSE
  /\ valid = FALSE
  /\ over = (Len(combo) \notin {2, 3})

Matching ==
  /\ ~over
  /\ place \in DOMAIN combo
  /\ UNCHANGED combo

\* The card refutes the combination.
MatchRefused ==
  /\ Matching
  /\ \/ Here = "EXPLOSIVE"
     \/ Here \in Tokens /\ reference \notin {NoCode, Here}
     \/ /\ Here \notin Tokens \cup {"EXPLOSIVE", "WILD_TOKEN"}
        /\ usesTokenRules \/ reference \notin {NoCode, Here}
  /\ Decide(FALSE)
  /\ UNCHANGED <<place, reference, seenRealToken, usesTokenRules>>

MatchToken ==
  /\ Matching
  /\ Here \in Tokens
  /\ reference \in {NoCode, Here}
  /\ usesTokenRules' = TRUE
  /\ seenRealToken' = TRUE
  /\ reference' = Here
  /\ place' = place + 1
  /\ UNCHANGED <<over, valid>>

MatchWildToken ==
  /\ Matching
  /\ Here = "WILD_TOKEN"
  /\ usesTokenRules' = TRUE
  /\ place' = place + 1
  /\ UNCHANGED <<reference, seenRealToken, over, valid>>

MatchOther ==
  /\ Matching
  /\ Here \notin Tokens \cup {"EXPLOSIVE", "WILD_TOKEN"}
  /\ ~usesTokenRules
  /\ reference \in {NoCode, Here}
  /\ reference' = Here
  /\ place' = place + 1
  /\ UNCHANGED <<seenRealToken, usesTokenRules, over, valid>>

MatchEnd ==
  /\ ~over
  /\ place \notin DOMAIN combo
  /\ Decide(IF usesTokenRules THEN seenRealToken ELSE reference # NoCode)
  /\ UNCHANGED <<combo, place, reference, seenRealToken, usesTokenRules>>

MatchNext == MatchRefused \/ MatchToken \/ MatchWildToken \/ MatchOther \/ MatchEnd

MatchSpec == MatchInit /\ [][MatchNext]_matchVars

\* Whatever the order of the cards, the loop accepts the combinations Cards
\* describes: one code, or one token code with the help of wild tokens.
MatchingDecided ==
  over => (valid <=> Len(combo) \in {2, 3} /\ ValidMatchingCombo(CardsOf(combo)))

\* What the loop knows of the codes of the cards it has gone over.
CodesBefore == {Code[combo[i]] : i \in 1..place - 1}

MatchInv ==
  /\ combo \in Combo
  /\ place \in 1..Len(combo) + 1
  /\ MatchingDecided
  /\ ~over =>
       /\ Len(combo) \in {2, 3}
       /\ "EXPLOSIVE" \notin CodesBefore
       /\ CodesBefore \ {"WILD_TOKEN"} = IF reference = NoCode THEN {} ELSE {reference}
       /\ seenRealToken <=> CodesBefore \cap Tokens # {}
       /\ usesTokenRules <=> CodesBefore \cap (Tokens \cup {"WILD_TOKEN"}) # {}

----------------------------------------------------------------------------
(* validFiveDifferentCombo                                                 *)

FiveInit ==
  /\ combo \in Combo
  /\ inHand \in SUBSET Card
  /\ place = 1
  /\ codesSeen = {}
  /\ includesExplosive = FALSE
  /\ valid = FALSE
  /\ over = (Len(combo) # 5)

FiveRefused ==
  /\ ~over
  /\ place \in DOMAIN combo
  /\ Here \in codesSeen \cup {"EXPLOSIVE_HOLDER"}
  /\ Decide(FALSE)
  /\ UNCHANGED <<combo, inHand, place, codesSeen, includesExplosive>>

FiveNextCard ==
  /\ ~over
  /\ place \in DOMAIN combo
  /\ Here \notin codesSeen \cup {"EXPLOSIVE_HOLDER"}
  /\ codesSeen' = codesSeen \cup {Here}
  /\ includesExplosive' = (includesExplosive \/ Here = "EXPLOSIVE")
  /\ place' = place + 1
  /\ UNCHANGED <<combo, inHand, over, valid>>

FiveEnd ==
  /\ ~over
  /\ place \notin DOMAIN combo
  /\ Decide(includesExplosive => Holds(inHand, "EXPLOSIVE_HOLDER"))
  /\ UNCHANGED <<combo, inHand, place, codesSeen, includesExplosive>>

FiveSpec == FiveInit /\ [][FiveRefused \/ FiveNextCard \/ FiveEnd]_fiveVars

\* The loop accepts the combinations Cards describes: five codes, no holder,
\* and an explosive only while the holder is in the hand.
FiveDecided ==
  over => (valid <=> Len(combo) = 5 /\ ValidFiveDifferentCombo(inHand, CardsOf(combo)))

FiveInv ==
  /\ combo \in Combo
  /\ inHand \in SUBSET Card
  /\ place \in 1..Len(combo) + 1
  /\ FiveDecided
  /\ ~over =>
       /\ Len(combo) = 5
       /\ codesSeen = CodesBefore
       /\ "EXPLOSIVE_HOLDER" \notin codesSeen
       /\ includesExplosive <=> "EXPLOSIVE" \in codesSeen
       /\ \A i, j \in 1..place - 1 : Code[combo[i]] = Code[combo[j]] => i = j
============================================================================
