-------------------------- MODULE EngineCardsProofs --------------------------
(***************************************************************************)
(* Theorems about where the cards are, for every number of players and     *)
(* every deck: none is lost or doubled, the placements of explosives never *)
(* queue up, and no view tells where the hidden ones are.                  *)
(***************************************************************************)
EXTENDS EngineHandsProofs, Views, SequenceTheorems

----------------------------------------------------------------------------
(* Piles.                                                                  *)

\* No card is in the pile twice.
NoRepeats(pile) ==
  \A i, j \in DOMAIN pile : pile[i] = pile[j] => i = j

\* The places of a pile, rearranged, are all its places.
LEMMA RearrangementIsOnto ==
  ASSUME NEW n \in Nat, NEW pi \in Rearrangements(1..n)
  PROVE  \A j \in 1..n : \E i \in 1..n : pi[i] = j
<1>1. pi \in Injection(1..n, 1..n)
  BY DEF Rearrangements, Injection, IsInjective
<1>2. IsFiniteSet(1..n)
  BY FS_Interval
<1>3. pi \in Surjection(1..n, 1..n)
  BY <1>1, <1>2, FS_Injection
<1>4. QED BY <1>3 DEF Surjection

\* A shuffled pile has the same cards, once each.
LEMMA ShuffleKeepsCards ==
  ASSUME NEW pile \in Seq(Card), NoRepeats(pile), NEW shuffled \in Shuffles(pile)
  PROVE  NoRepeats(shuffled) /\ PileOf(shuffled) = PileOf(pile)
<1>1. PICK pi \in Rearrangements(DOMAIN pile) :
         shuffled = [i \in DOMAIN pile |-> pile[pi[i]]]
  BY DEF Shuffles
<1>2. pi \in [DOMAIN pile -> DOMAIN pile] /\ \A i, j \in DOMAIN pile : pi[i] = pi[j] => i = j
  BY DEF Rearrangements
<1>3. DOMAIN pile = 1..Len(pile) /\ Len(pile) \in Nat
  OBVIOUS
<1>4. \A j \in DOMAIN pile : \E i \in DOMAIN pile : pi[i] = j
  <2> DEFINE n == Len(pile)
  <2>1. n \in Nat /\ DOMAIN pile = 1..n /\ pi \in Rearrangements(1..n)
    BY <1>1, <1>3
  <2> HIDE DEF n
  <2>2. \A j \in 1..n : \E i \in 1..n : pi[i] = j
    BY <2>1, RearrangementIsOnto
  <2>3. QED BY <2>1, <2>2
<1>5. NoRepeats(shuffled)
  <2> SUFFICES ASSUME NEW i \in DOMAIN pile, NEW j \in DOMAIN pile,
                      pile[pi[i]] = pile[pi[j]]
               PROVE  i = j
    BY <1>1 DEF NoRepeats
  <2>1. pi[i] = pi[j]
    BY <1>2 DEF NoRepeats
  <2>2. QED BY <1>2, <2>1
<1>6. PileOf(shuffled) = PileOf(pile)
  BY <1>1, <1>2, <1>4 DEF PileOf
<1>7. QED BY <1>5, <1>6

\* One pile put on another.
LEMMA ConcatCards ==
  ASSUME NEW s \in Seq(Card), NEW t \in Seq(Card)
  PROVE  /\ s \o t \in Seq(Card)
         /\ PileOf(s \o t) = PileOf(s) \cup PileOf(t)
         /\ NoRepeats(s \o t) <=>
              NoRepeats(s) /\ NoRepeats(t) /\ PileOf(s) \cap PileOf(t) = {}
<1> DEFINE m == Len(s)
           n == Len(t)
           st == s \o t
<1>1. /\ m \in Nat /\ n \in Nat
      /\ DOMAIN s = 1..m /\ DOMAIN t = 1..n /\ DOMAIN st = 1..(m + n)
      /\ st \in Seq(Card)
      /\ \A i \in 1..m : st[i] = s[i]
      /\ \A i \in 1..n : st[m + i] = t[i]
  OBVIOUS
<1> HIDE DEF m, n, st
<1>2. \A k \in 1..(m + n) : k \in 1..m \/ \E i \in 1..n : k = m + i
  <2> SUFFICES ASSUME NEW k \in 1..(m + n), k \notin 1..m
               PROVE  \E i \in 1..n : k = m + i
    OBVIOUS
  <2>1. k - m \in 1..n /\ k = m + (k - m)
    BY <1>1
  <2>2. QED BY <2>1
<1>3. \A i \in 1..n : m + i \in 1..(m + n) /\ m + i \notin 1..m
  BY <1>1
<1>4. \A i \in 1..m : i \in 1..(m + n)
  BY <1>1
<1>5. PileOf(st) = PileOf(s) \cup PileOf(t)
  <2>1. PileOf(st) \subseteq PileOf(s) \cup PileOf(t)
    <3>1. \A k \in 1..(m + n) : st[k] \in PileOf(s) \cup PileOf(t)
      <4> SUFFICES ASSUME NEW k \in 1..(m + n) PROVE st[k] \in PileOf(s) \cup PileOf(t)
        OBVIOUS
      <4>1. CASE k \in 1..m
        BY <1>1, <4>1 DEF PileOf
      <4>2. CASE k \notin 1..m
        <5>1. PICK i \in 1..n : k = m + i
          BY <1>2, <4>2
        <5>2. st[k] = t[i]
          BY <1>1, <5>1
        <5>3. QED BY <1>1, <5>2 DEF PileOf
      <4>3. QED BY <4>1, <4>2
    <3>2. QED BY <1>1, <3>1 DEF PileOf
  <2>2. PileOf(s) \subseteq PileOf(st)
    BY <1>1, <1>4 DEF PileOf
  <2>3. PileOf(t) \subseteq PileOf(st)
    BY <1>1, <1>3 DEF PileOf
  <2>4. QED BY <2>1, <2>2, <2>3
<1>6. ASSUME NoRepeats(st)
      PROVE  NoRepeats(s) /\ NoRepeats(t) /\ PileOf(s) \cap PileOf(t) = {}
  <2>1. NoRepeats(s)
    BY <1>1, <1>4, <1>6 DEF NoRepeats
  <2>2. NoRepeats(t)
    <3> SUFFICES ASSUME NEW i \in 1..n, NEW j \in 1..n, t[i] = t[j] PROVE i = j
      BY <1>1 DEF NoRepeats
    <3>1. m + i = m + j
      BY <1>1, <1>3, <1>6 DEF NoRepeats
    <3>2. QED BY <1>1, <3>1
  <2>3. ASSUME NEW i \in 1..m, NEW j \in 1..n, s[i] = t[j] PROVE FALSE
    <3>1. i = m + j
      BY <1>1, <1>3, <1>4, <1>6, <2>3 DEF NoRepeats
    <3>2. QED BY <1>3, <3>1
  <2>4. QED BY <1>1, <2>1, <2>2, <2>3 DEF PileOf
<1>7. ASSUME NoRepeats(s), NoRepeats(t), PileOf(s) \cap PileOf(t) = {}
      PROVE  NoRepeats(st)
  <2> SUFFICES ASSUME NEW k \in 1..(m + n), NEW l \in 1..(m + n), st[k] = st[l]
               PROVE  k = l
    BY <1>1 DEF NoRepeats
  <2>1. \A i \in 1..m, j \in 1..n : s[i] # t[j]
    BY <1>1, <1>7 DEF PileOf
  <2>2. CASE k \in 1..m /\ l \in 1..m
    BY <1>1, <1>7, <2>2 DEF NoRepeats
  <2>3. CASE k \in 1..m /\ l \notin 1..m
    <3>1. PICK j \in 1..n : l = m + j
      BY <1>2, <2>3
    <3>2. st[k] = s[k] /\ st[l] = t[j]
      BY <1>1, <2>3, <3>1
    <3>3. QED BY <2>1, <2>3, <3>2
  <2>4. CASE k \notin 1..m /\ l \in 1..m
    <3>1. PICK j \in 1..n : k = m + j
      BY <1>2, <2>4
    <3>2. st[l] = s[l] /\ st[k] = t[j]
      BY <1>1, <2>4, <3>1
    <3>3. QED BY <2>1, <2>4, <3>2
  <2>5. CASE k \notin 1..m /\ l \notin 1..m
    <3>1. PICK i \in 1..n, j \in 1..n : k = m + i /\ l = m + j
      BY <1>2, <2>5
    <3>2. t[i] = t[j]
      BY <1>1, <3>1
    <3>3. i = j
      BY <1>1, <1>7, <3>2 DEF NoRepeats
    <3>4. QED BY <3>1, <3>3
  <2>6. QED BY <2>2, <2>3, <2>4, <2>5
<1>8. QED BY <1>1, <1>5, <1>6, <1>7 DEF st

\* A pile cut in two.
LEMMA CutPile ==
  ASSUME NEW pile \in Seq(Card), NEW k \in 0..Len(pile)
  PROVE  /\ SubSeq(pile, 1, k) \in Seq(Card)
         /\ SubSeq(pile, k + 1, Len(pile)) \in Seq(Card)
         /\ pile = SubSeq(pile, 1, k) \o SubSeq(pile, k + 1, Len(pile))
<1> DEFINE n == Len(pile)
           a == SubSeq(pile, 1, k)
           b == SubSeq(pile, k + 1, n)
<1>1. n \in Nat /\ k \in Nat /\ k <= n /\ DOMAIN pile = 1..n
      /\ \A i \in 1..n : pile[i] \in Card
  OBVIOUS
<1>2. a \in Seq(Card) /\ Len(a) = k /\ \A i \in 1..k : a[i] = pile[i]
  BY <1>1
<1>3. b \in Seq(Card) /\ Len(b) = n - k /\ \A i \in 1..(n - k) : b[i] = pile[k + i]
  <2>1. \A i \in (k + 1)..n : pile[i] \in Card
    BY <1>1
  <2>2. /\ b \in Seq(Card)
        /\ Len(b) = IF k + 1 <= n THEN n - (k + 1) + 1 ELSE 0
        /\ \A i \in 1..(n - (k + 1) + 1) : b[i] = pile[(k + 1) + i - 1]
    <3>1. k + 1 \in Int /\ n \in Int
      BY <1>1
    <3> HIDE DEF n
    <3>2. QED BY <2>1, <3>1, SubSeqProperties
  <2> HIDE DEF b, n
  <2>3. Len(b) = n - k /\ n - (k + 1) + 1 = n - k
    BY <1>1, <2>2
  <2>4. \A i \in 1..(n - k) : b[i] = pile[k + i]
    <3> SUFFICES ASSUME NEW i \in 1..(n - k) PROVE b[i] = pile[k + i]
      OBVIOUS
    <3>1. (k + 1) + i - 1 = k + i
      BY <1>1
    <3>2. QED BY <2>2, <2>3, <3>1
  <2>5. QED BY <2>2, <2>3, <2>4
<1> HIDE DEF n, a, b
<1>4. /\ a \o b \in Seq(Card) /\ Len(a \o b) = n
      /\ \A i \in 1..n : (a \o b)[i] = IF i <= k THEN a[i] ELSE b[i - k]
  <2>1. Len(a) + Len(b) = n
    BY <1>1, <1>2, <1>3
  <2>2. /\ a \o b \in Seq(Card) /\ Len(a \o b) = Len(a) + Len(b)
        /\ \A i \in 1..Len(a) + Len(b) :
              (a \o b)[i] = IF i <= Len(a) THEN a[i] ELSE b[i - Len(a)]
    BY <1>2, <1>3, ConcatProperties
  <2>3. QED BY <1>2, <2>1, <2>2
<1>5. \A i \in 1..n : (a \o b)[i] = pile[i]
  <2> SUFFICES ASSUME NEW i \in 1..n PROVE (a \o b)[i] = pile[i]
    OBVIOUS
  <2>1. CASE i <= k
    BY <1>1, <1>2, <1>4, <2>1
  <2>2. CASE ~(i <= k)
    <3>1. i - k \in 1..(n - k) /\ k + (i - k) = i
      BY <1>1, <2>2
    <3>2. QED BY <1>3, <1>4, <2>2, <3>1
  <2>3. QED BY <2>1, <2>2
<1>6. a \o b = pile
  BY <1>4, <1>5, SeqEqual DEF n
<1>7. QED BY <1>2, <1>3, <1>6 DEF a, b, n

\* A pile of one card.
LEMMA OneCardPile ==
  ASSUME NEW c \in Card
  PROVE  <<c>> \in Seq(Card) /\ PileOf(<<c>>) = {c} /\ NoRepeats(<<c>>)
BY DEF PileOf, NoRepeats

\* Inserting a card that is not there (insertCardAt) adds it and keeps the rest.
LEMMA InsertCardAtCards ==
  ASSUME NEW pile \in Seq(Card), NEW c \in Card, NEW index \in 0..Len(pile),
         NoRepeats(pile), c \notin PileOf(pile)
  PROVE  LET p == InsertCardAt(pile, c, index)
         IN  NoRepeats(p) /\ PileOf(p) = PileOf(pile) \cup {c}
<1> DEFINE a == SubSeq(pile, 1, index)
           b == SubSeq(pile, index + 1, Len(pile))
           one == <<c>>
<1>1. a \in Seq(Card) /\ b \in Seq(Card) /\ pile = a \o b
  BY CutPile
<1>0. one \in Seq(Card) /\ PileOf(one) = {c} /\ NoRepeats(one)
  BY OneCardPile
<1> HIDE DEF a, b, one
<1>2. NoRepeats(a) /\ NoRepeats(b) /\ PileOf(a) \cap PileOf(b) = {}
      /\ PileOf(pile) = PileOf(a) \cup PileOf(b)
  BY <1>1, ConcatCards
<1>3. /\ a \o one \in Seq(Card)
      /\ PileOf(a \o one) = PileOf(a) \cup {c}
      /\ NoRepeats(a \o one)
  BY <1>1, <1>2, <1>0, ConcatCards
<1>4. /\ PileOf((a \o one) \o b) = (PileOf(a) \cup {c}) \cup PileOf(b)
      /\ NoRepeats((a \o one) \o b)
  <2> DEFINE upper == a \o one
  <2>1. PileOf(upper) \cap PileOf(b) = {}
    BY <1>2, <1>3
  <2> HIDE DEF upper
  <2>2. /\ PileOf(upper \o b) = PileOf(upper) \cup PileOf(b)
        /\ NoRepeats(upper \o b)
    BY <1>1, <1>2, <1>3, <2>1, ConcatCards DEF upper
  <2>3. QED BY <1>3, <2>2 DEF upper
<1>5. InsertCardAt(pile, c, index) = (a \o one) \o b
  BY <1>1 DEF InsertCardAt, a, b, one
<1>6. QED BY <1>2, <1>4, <1>5

\* The pile without its top card.
LEMMA DrawTop ==
  ASSUME NEW pile \in Seq(Card), pile # <<>>, NoRepeats(pile)
  PROVE  /\ Head(pile) \in PileOf(pile)
         /\ NoRepeats(Tail(pile))
         /\ PileOf(Tail(pile)) = PileOf(pile) \ {Head(pile)}
<1> DEFINE top == Head(pile)
           one == <<top>>
           rest == Tail(pile)
<1>1. top \in Card /\ rest \in Seq(Card) /\ pile = one \o rest
  OBVIOUS
<1>2. one \in Seq(Card) /\ PileOf(one) = {top} /\ NoRepeats(one)
  BY <1>1, OneCardPile
<1> HIDE DEF top, one, rest
<1>3. /\ PileOf(pile) = {top} \cup PileOf(rest)
      /\ NoRepeats(rest) /\ {top} \cap PileOf(rest) = {}
  BY <1>1, <1>2, ConcatCards
<1>4. QED BY <1>3 DEF top, rest

\* The pile without its bottom card.
LEMMA DrawBottom ==
  ASSUME NEW pile \in Seq(Card), pile # <<>>, NoRepeats(pile)
  PROVE  LET bottom == pile[Len(pile)]
             rest == SubSeq(pile, 1, Len(pile) - 1)
         IN  /\ bottom \in PileOf(pile)
             /\ NoRepeats(rest)
             /\ PileOf(rest) = PileOf(pile) \ {bottom}
<1> DEFINE bottom == pile[Len(pile)]
           rest == SubSeq(pile, 1, Len(pile) - 1)
           one == SubSeq(pile, Len(pile) - 1 + 1, Len(pile))
<1>1. rest \in Seq(Card) /\ one \in Seq(Card) /\ pile = rest \o one
  <2>1. Len(pile) - 1 \in 0..Len(pile)
    OBVIOUS
  <2>2. QED BY <2>1, CutPile
<1>2. bottom \in Card /\ one = <<bottom>>
  <2> DEFINE n == Len(pile)
  <2>1. n \in Nat /\ n >= 1 /\ n - 1 + 1 = n /\ n - n + 1 = 1 /\ n + 1 - 1 = n
        /\ pile[n] \in Card
    OBVIOUS
  <2> HIDE DEF n
  <2>2. \A i \in n..n : pile[i] \in Card
    BY <2>1
  <2>3. /\ SubSeq(pile, n, n) \in Seq(Card)
        /\ Len(SubSeq(pile, n, n)) = IF n <= n THEN n - n + 1 ELSE 0
        /\ \A i \in 1..(n - n + 1) : SubSeq(pile, n, n)[i] = pile[n + i - 1]
    BY <2>1, <2>2, SubSeqProperties
  <2> DEFINE last == SubSeq(pile, n, n)
  <2>4. last \in Seq(Card) /\ Len(last) = 1 /\ last[1] = pile[n]
    BY <2>1, <2>3
  <2> HIDE DEF last
  <2>5. last = <<pile[n]>>
    BY <2>4
  <2>6. one = last
    BY <2>1 DEF last, n
  <2>7. QED BY <2>1, <2>5, <2>6 DEF n
<1>3. PileOf(one) = {bottom} /\ NoRepeats(one)
  BY <1>2, OneCardPile
<1> HIDE DEF bottom, rest, one
<1>4. /\ PileOf(pile) = PileOf(rest) \cup {bottom}
      /\ NoRepeats(rest) /\ PileOf(rest) \cap {bottom} = {}
  BY <1>1, <1>3, ConcatCards
<1>5. QED BY <1>4 DEF bottom, rest

\* The pile with its top and bottom card changed for each other.
LEMMA SwapTopBottomCards ==
  ASSUME NEW pile \in Seq(Card), NoRepeats(pile), Len(pile) > 1
  PROVE  LET p == [pile EXCEPT ![1] = pile[Len(pile)], ![Len(pile)] = pile[1]]
         IN  NoRepeats(p) /\ PileOf(p) = PileOf(pile)
<1> DEFINE n == Len(pile)
           p == [pile EXCEPT ![1] = pile[n], ![n] = pile[1]]
<1>1. /\ n \in Nat /\ n > 1 /\ DOMAIN pile = 1..n /\ DOMAIN p = 1..n
      /\ 1 \in 1..n /\ n \in 1..n
      /\ p[1] = pile[n] /\ p[n] = pile[1]
      /\ \A i \in 1..n : i # 1 /\ i # n => p[i] = pile[i]
  OBVIOUS
<1> HIDE DEF n, p
<1>2. NoRepeats(p)
  BY <1>1 DEF NoRepeats
<1>3. PileOf(p) = PileOf(pile)
  BY <1>1 DEF PileOf
<1>4. QED BY <1>2, <1>3 DEF p, n

----------------------------------------------------------------------------
(* Where the cards are.                                                    *)

InHands(h) == {c \in Card : \E p \in Player : c \in h[p]}

\* No card is in two hands.
HandsApart(h) ==
  \A p, q \in Player : \A c \in Card : c \in h[p] /\ c \in h[q] => p = q

\* The explosive to be placed, if there is one.
PlacedCards(pending) ==
  {c \in Card : pending.type = "EXPLOSIVE_PLACEMENT" /\ c = pending.cards[1]}

\* The cards put into a recycling.
RecycledCards(pending) ==
  {c \in Card : \E p \in Player : pending.recycleSelections[p] = c}

\* Every card is in exactly one of these sets.
Split(inHands, inPile, inDiscard, placed, recycled) ==
  /\ Card = inHands \cup inPile \cup inDiscard \cup placed \cup recycled
  /\ inHands \cap (inPile \cup inDiscard \cup placed \cup recycled) = {}
  /\ inPile \cap (inDiscard \cup placed \cup recycled) = {}
  /\ inDiscard \cap (placed \cup recycled) = {}
  /\ placed \cap recycled = {}

\* The part of the invariant that speaks of places.
CardsApart ==
  /\ unsafeExplosiveQueue = <<>>
  /\ HandsApart(hands)
  /\ NoRepeats(drawPile)
  /\ \A p, q \in Player :
        pendingAction.recycleSelections[p] = pendingAction.recycleSelections[q]
          => p = q \/ pendingAction.recycleSelections[p] = NoCard
  /\ Split(InHands(hands), PileOf(drawPile), discardPile,
           PlacedCards(pendingAction), RecycledCards(pendingAction))

\* The invariant that carries CardConservation and NoQueueBetweenCommands.
CardsInv == HandsInv /\ DebtInv /\ CardsApart

\* Cards taken out of a hand.
LEMMA HandLosesCards ==
  ASSUME NEW h \in [Player -> SUBSET Card], HandsApart(h),
         NEW p \in Player, NEW S, S \subseteq h[p],
         NEW g \in [Player -> SUBSET Card], g[p] = h[p] \ S,
         \A q \in Player : q # p => g[q] = h[q]
  PROVE  /\ HandsApart(g)
         /\ InHands(g) = InHands(h) \ S
<1>1. \A q \in Player : g[q] \subseteq h[q]
  OBVIOUS
<1>2. HandsApart(g)
  BY <1>1 DEF HandsApart
<1>3. InHands(g) \subseteq InHands(h) \ S
  <2> SUFFICES ASSUME NEW c \in Card, NEW q \in Player, c \in g[q]
               PROVE  c \in InHands(h) /\ c \notin S
    BY DEF InHands
  <2>1. c \in h[q]
    BY <1>1
  <2>2. CASE q = p
    BY <2>1, <2>2 DEF InHands
  <2>3. CASE q # p
    BY <2>1, <2>3 DEF InHands, HandsApart
  <2>4. QED BY <2>2, <2>3
<1>4. InHands(h) \ S \subseteq InHands(g)
  <2> SUFFICES ASSUME NEW c \in Card, NEW q \in Player, c \in h[q], c \notin S
               PROVE  c \in g[q]
    BY DEF InHands
  <2>1. QED OBVIOUS
<1>5. QED BY <1>2, <1>3, <1>4

\* S has been taken out of the hand of p: h has become g.
LostFrom(h, p, S, g) ==
  /\ g \in [Player -> SUBSET Card]
  /\ HandsApart(g)
  /\ InHands(g) = InHands(h) \ S

\* c has been put into the hand of p: h has become g.
GainedBy(h, p, c, g) ==
  /\ g \in [Player -> SUBSET Card]
  /\ HandsApart(g)
  /\ InHands(g) = InHands(h) \cup {c}

\* Taking cards out of a hand, as the commands do it.
LEMMA TakenFromHand ==
  ASSUME NEW h \in [Player -> SUBSET Card], HandsApart(h),
         NEW p \in Player
  PROVE  \A S \in SUBSET h[p] : LostFrom(h, p, S, [h EXCEPT ![p] = @ \ S])
<1> SUFFICES ASSUME NEW S \in SUBSET h[p],
                    NEW g, g = [h EXCEPT ![p] = @ \ S]
             PROVE  LostFrom(h, p, S, g)
  OBVIOUS
<1>1. /\ g \in [Player -> SUBSET Card] /\ g[p] = h[p] \ S
      /\ \A q \in Player : q # p => g[q] = h[q]
  OBVIOUS
<1>2. HandsApart(g) /\ InHands(g) = InHands(h) \ S
  BY ONLY <1>1, HandLosesCards, h \in [Player -> SUBSET Card],
          HandsApart(h), p \in Player, S \in SUBSET h[p]
<1> QED BY <1>1, <1>2 DEF LostFrom

\* A card nobody holds, put into a hand.
LEMMA HandGainsCard ==
  ASSUME NEW h \in [Player -> SUBSET Card], HandsApart(h),
         NEW p \in Player, NEW c \in Card, c \notin InHands(h),
         NEW g \in [Player -> SUBSET Card], g[p] = h[p] \cup {c},
         \A q \in Player : q # p => g[q] = h[q]
  PROVE  /\ HandsApart(g)
         /\ InHands(g) = InHands(h) \cup {c}
<1>1. \A q \in Player : c \notin h[q]
  BY DEF InHands
<1>2. HandsApart(g)
  <2> SUFFICES ASSUME NEW q \in Player, NEW r \in Player, NEW d \in Card,
                      d \in g[q], d \in g[r]
               PROVE  q = r
    BY DEF HandsApart
  <2>1. CASE d = c
    BY <1>1, <2>1
  <2>2. CASE d # c
    <3>1. d \in h[q] /\ d \in h[r]
      BY <2>2
    <3>2. QED BY <3>1 DEF HandsApart
  <2>3. QED BY <2>1, <2>2
<1>3. InHands(g) = InHands(h) \cup {c}
  <2>1. \A d \in Card : d \in InHands(g) <=> d \in InHands(h) \/ d = c
    <3> SUFFICES ASSUME NEW d \in Card
                 PROVE  (\E q \in Player : d \in g[q]) <=>
                          (\E q \in Player : d \in h[q]) \/ d = c
      BY DEF InHands
    <3>1. d = c => d \in g[p]
      OBVIOUS
    <3>2. \A q \in Player : d \in h[q] => d \in g[q]
      OBVIOUS
    <3>3. \A q \in Player : d \in g[q] => d \in h[q] \/ d = c
      OBVIOUS
    <3>4. QED BY <3>1, <3>2, <3>3
  <2>2. InHands(g) \subseteq Card /\ InHands(h) \subseteq Card
    BY DEF InHands
  <2>3. QED BY <2>1, <2>2
<1>4. QED BY <1>2, <1>3

\* Putting a card into a hand, as the commands do it.
LEMMA PutIntoHand ==
  ASSUME NEW h \in [Player -> SUBSET Card], HandsApart(h),
         NEW p \in Player, NEW c \in Card, c \notin InHands(h)
  PROVE  GainedBy(h, p, c, [h EXCEPT ![p] = @ \cup {c}])
<1> SUFFICES ASSUME NEW g, g = [h EXCEPT ![p] = @ \cup {c}]
             PROVE  GainedBy(h, p, c, g)
  OBVIOUS
<1>1. /\ g \in [Player -> SUBSET Card] /\ g[p] = h[p] \cup {c}
      /\ \A q \in Player : q # p => g[q] = h[q]
  OBVIOUS
<1>2. HandsApart(g) /\ InHands(g) = InHands(h) \cup {c}
  BY ONLY <1>1, HandGainsCard, h \in [Player -> SUBSET Card],
                HandsApart(h), p \in Player, c \in Card, c \notin InHands(h)
<1> QED BY <1>1, <1>2 DEF GainedBy

\* The order in which nobody is looked at, or one player is.
LEMMA LookOrdersOfFew ==
  ASSUME NEW S \in SUBSET Player, NEW first, NEW order \in LookOrders(S, first)
  PROVE  /\ S = {} => order = <<>>
         /\ \A p : S = {p} => order = <<p>>
<1>1. PICK n \in 0..N : order \in [1..n -> S]
  BY DEF LookOrders
<1>2. /\ n \in Nat /\ DOMAIN order = 1..n
      /\ S = {order[i] : i \in 1..n}
      /\ \A i, j \in 1..n : i < j => LookedAtBefore(first, order[i], order[j])
  BY <1>1, NAssumption DEF LookOrders
<1>3. ASSUME S = {} PROVE order = <<>>
  <2>1. n = 0
    <3>1. ASSUME n # 0 PROVE FALSE
      <4>1. 1 \in 1..n
        BY <1>2, <3>1
      <4>2. QED BY <1>2, <1>3, <4>1
    <3>2. QED BY <3>1
  <2>2. QED BY <1>1, <2>1
<1>4. ASSUME NEW p, S = {p} PROVE order = <<p>>
  <2>1. n # 0
    BY <1>2, <1>4
  <2>2. ASSUME n > 1 PROVE FALSE
    <3>1. 1 \in 1..n /\ 2 \in 1..n
      BY <1>2, <2>2
    <3>2. order[1] = p /\ order[2] = p
      BY <1>1, <1>4, <3>1
    <3>3. LookedAtBefore(first, p, p)
      BY <1>2, <3>1, <3>2
    <3>4. p # first /\ p < p
      BY <3>3 DEF LookedAtBefore
    <3>5. p \in Int
      BY <1>4, NAssumption DEF Player
    <3>6. QED BY <3>4, <3>5
  <2>3. n = 1
    BY <1>2, <2>1, <2>2
  <2>4. QED BY <1>1, <1>4, <2>3
<1>5. QED BY <1>3, <1>4

\* One player at most dies, and nobody while another places an explosive.
OneDeathAtMost ==
  /\ \A p, q \in alive \ alive' : p = q
  /\ phase' = "WAITING_EXPLOSIVE_PLACEMENT" => alive' = alive

\* After the resolution of the explosives nothing is lost and nothing is left
\* in the queue, if one player at most was endangered; and at most one died.
LEMMA ResolveUnsafeExplosivesCards ==
  ASSUME TypeOK, unsafeExplosiveQueue = <<>>,
         NEW original, NEW ids, NEW first, NEW h \in [Player -> SUBSET Card],
         NEW discard, NEW cleared,
         ResolveUnsafeExplosivesFrom(original, ids, first, h, discard, cleared),
         HandsApart(h), NoRepeats(drawPile'),
         Split(InHands(h), PileOf(drawPile'), discard, {}, {}),
         \A p, q \in ids \cap alive : Unsafe(h[p]) /\ Unsafe(h[q]) => p = q
  PROVE  CardsApart' /\ OneDeathAtMost
<1> DEFINE unsafe == {p \in ids \cap alive : Unsafe(h[p])}
           placing == {p \in unsafe : Holds(h[p], "SHIELD")}
           dying == unsafe \ placing
           queueOf(order, explosive) ==
             unsafeExplosiveQueue \o
               [i \in DOMAIN order |->
                  [playerID |-> order[i], card |-> explosive[order[i]]]]
<1>1. PICK shield \in [placing -> Card], explosive \in [placing -> Card],
           order \in LookOrders(placing, first) :
        /\ \A p \in placing :
              /\ shield[p] \in CardsByCode(h[p], "SHIELD")
              /\ explosive[p] \in CardsByCode(h[p], "EXPLOSIVE")
        /\ hands' = [p \in Player |->
                       IF p \in dying THEN {}
                       ELSE IF p \in placing THEN h[p] \ {shield[p], explosive[p]}
                       ELSE h[p]]
        /\ discardPile' = discard \cup {shield[p] : p \in placing}
                                  \cup UNION {h[p] : p \in dying}
        /\ markedCards' = ClearMarks(cleared \cup unsafe, hands')
        /\ alive' = alive \ dying
        /\ IF queueOf(order, explosive) # <<>>
             THEN StartNextUnsafeExplosivePlacement(queueOf(order, explosive), original)
             ELSE FinishUnsafeExplosiveResolution(original, alive \ dying)
  BY DEF ResolveUnsafeExplosivesFrom
<1>2. unsafe \subseteq Player /\ \A p, q \in unsafe : p = q
  BY DEF TypeOK
<1>3. alive' = alive \ dying /\ \A p, q \in dying : p = q
  BY <1>1, <1>2
<1>4. placing \in SUBSET Player /\ order \in LookOrders(placing, first)
  BY <1>2
<1>5. CASE placing = {}
  <2>1. order = <<>>
    BY <1>4, <1>5, LookOrdersOfFew
  <2>2. queueOf(order, explosive) = <<>>
    BY <2>1
  <2>3. FinishUnsafeExplosiveResolution(original, alive \ dying)
    BY <1>1, <2>2
  <2>4. /\ unsafeExplosiveQueue' = <<>> /\ NoSelections(pendingAction')
        /\ PlacedCards(pendingAction') = {} /\ RecycledCards(pendingAction') = {}
    BY <2>3, CardAssumption
       DEF FinishUnsafeExplosiveResolution, NoPendingAction, Pending, NoSelections,
           PlacedCards, RecycledCards
  <2>5. OneDeathAtMost
    <3>1. phase' # "WAITING_EXPLOSIVE_PLACEMENT"
      BY <2>3 DEF FinishUnsafeExplosiveResolution, AdvanceOrEndGame, SetWinner,
         AdvanceToNextAlivePlayer, AdvanceToPlayer
    <3>2. QED BY <1>3, <3>1 DEF OneDeathAtMost
  <2>6. CASE dying = {}
    <3>1. hands' = h
      BY <1>1, <1>5, <2>6
    <3>2. discardPile' = discard
      BY <1>1, <1>5, <2>6
    <3>3. QED BY <2>4, <2>5, <3>1, <3>2 DEF CardsApart, NoSelections
  <2>7. CASE dying # {}
    <3>1. PICK p \in dying : TRUE
      BY <2>7
    <3>2. dying = {p} /\ p \in Player
      BY <1>2, <1>3, <3>1
    <3> DEFINE g == [h EXCEPT ![p] = @ \ h[p]]
    <3>3. /\ g \in [Player -> SUBSET Card]
          /\ HandsApart(g) /\ InHands(g) = InHands(h) \ h[p]
      <4>1. h[p] \subseteq h[p] /\ p \in Player
        BY <3>2
      <4>2. \A S \in SUBSET h[p] : LostFrom(h, p, S, [h EXCEPT ![p] = @ \ S])
        BY ONLY <4>1, TakenFromHand, h \in [Player -> SUBSET Card], HandsApart(h)
      <4>3. QED BY <4>2 DEF LostFrom
    <3>4. hands' = g
      BY <1>1, <1>5, <3>2
    <3>5. discardPile' = discard \cup h[p]
      BY <1>1, <1>5, <3>2
    <3>6. h[p] \subseteq InHands(h)
      BY <3>2 DEF InHands
    <3> HIDE DEF g
    <3>7. Split(InHands(hands'), PileOf(drawPile'), discardPile', {}, {})
      BY <3>3, <3>4, <3>5, <3>6 DEF Split
    <3>8. QED BY <2>4, <2>5, <3>3, <3>4, <3>7 DEF CardsApart, NoSelections
  <2>8. QED BY <2>6, <2>7
<1>6. CASE placing # {}
  <2>1. PICK p \in placing : TRUE
    BY <1>6
  <2>2. placing = {p} /\ dying = {} /\ p \in Player
    BY <1>2, <2>1
  <2> DEFINE x == explosive[p]
             s == shield[p]
             queue == <<[playerID |-> p, card |-> x]>>
  <2>3. /\ x \in Card /\ s \in Card /\ x \in h[p] /\ s \in h[p] /\ x # s
    BY <1>1, <2>2 DEF CardsByCode
  <2>4. order = <<p>>
    BY <1>4, <2>2, LookOrdersOfFew
  <2>5. queueOf(order, explosive) = queue
    BY <2>4
  <2>6. StartNextUnsafeExplosivePlacement(queue, original)
    BY <1>1, <2>5
  <2>7. /\ unsafeExplosiveQueue' = <<>>
        /\ pendingAction'.type = "EXPLOSIVE_PLACEMENT"
        /\ pendingAction'.cards = <<x>>
        /\ NoSelections(pendingAction')
    BY <2>6 DEF StartNextUnsafeExplosivePlacement, Pending, NoSelections
  <2>8. PlacedCards(pendingAction') = {x} /\ RecycledCards(pendingAction') = {}
    BY <2>3, <2>7, CardAssumption DEF PlacedCards, RecycledCards, NoSelections
  <2> DEFINE g == [h EXCEPT ![p] = @ \ {s, x}]
  <2>9. /\ g \in [Player -> SUBSET Card]
        /\ HandsApart(g) /\ InHands(g) = InHands(h) \ {s, x}
    <3>1. {s, x} \subseteq h[p] /\ p \in Player
      BY <2>2, <2>3
    <3>2. \A S \in SUBSET h[p] : LostFrom(h, p, S, [h EXCEPT ![p] = @ \ S])
      BY ONLY <3>1, TakenFromHand, h \in [Player -> SUBSET Card], HandsApart(h)
    <3> HIDE DEF x, s
    <3>3. {s, x} \in SUBSET h[p]
      BY <3>1
    <3>4. LostFrom(h, p, {s, x}, [h EXCEPT ![p] = @ \ {s, x}])
      BY <3>2, <3>3
    <3>5. QED BY <3>4 DEF LostFrom
  <2>10. hands' = g
    BY <1>1, <2>2
  <2>11. discardPile' = discard \cup {s}
    BY <1>1, <2>2
  <2>12. s \in InHands(h) /\ x \in InHands(h)
    BY <2>2, <2>3 DEF InHands
  <2> HIDE DEF g, s, x
  <2>13. Split(InHands(hands'), PileOf(drawPile'), discardPile', {x}, {})
    BY <2>3, <2>9, <2>10, <2>11, <2>12 DEF Split
  <2>14. CardsApart'
    BY <2>7, <2>8, <2>9, <2>10, <2>13 DEF CardsApart, NoSelections
  <2>15. OneDeathAtMost
    BY <1>3, <2>2 DEF OneDeathAtMost
  <2>16. QED BY <2>14, <2>15
<1>7. QED BY <1>5, <1>6

----------------------------------------------------------------------------
(* Steps that move few cards.                                              *)

CardsStep == CardsApart' /\ OneDeathAtMost

\* A pending action that is neither a placement nor a recycling holds no card.
LEMMA NothingAside ==
  ASSUME NEW pending, NoSelections(pending), pending.type # "EXPLOSIVE_PLACEMENT"
  PROVE  PlacedCards(pending) = {} /\ RecycledCards(pending) = {}
BY CardAssumption DEF PlacedCards, RecycledCards, NoSelections

\* Every card is in a hand or on a pile.
LEMMA NoneAside ==
  ASSUME CardsInv, phase # "WAITING_RECYCLE_CHOICES",
         pendingAction.type # "EXPLOSIVE_PLACEMENT"
  PROVE  /\ NoSelections(pendingAction)
         /\ Split(InHands(hands), PileOf(drawPile), discardPile, {}, {})
<1>1. NoSelections(pendingAction)
  BY NoSelectionsUnlessRecycling DEF CardsInv
<1>2. QED BY <1>1, NothingAside DEF CardsInv, CardsApart

\* Nothing is aside in anybody's turn.
LEMMA NoPlacementInTurn ==
  ASSUME CardsInv, phase = "PLAYER_TURN"
  PROVE  pendingAction.type # "EXPLOSIVE_PLACEMENT"
BY DEF CardsInv, DebtInv

\* A step after which every card is in a hand or on a pile.
LEMMA NoneAsideNext ==
  ASSUME unsafeExplosiveQueue' = <<>>, HandsApart(hands'), NoRepeats(drawPile'),
         NoSelections(pendingAction'), pendingAction'.type # "EXPLOSIVE_PLACEMENT",
         Split(InHands(hands'), PileOf(drawPile'), discardPile', {}, {})
  PROVE  CardsApart'
<1>1. PlacedCards(pendingAction') = {} /\ RecycledCards(pendingAction') = {}
  BY NothingAside
<1>2. QED BY <1>1 DEF CardsApart, NoSelections

\* A step that moves none but those of the draw pile.
LEMMA StillCards ==
  ASSUME CardsInv, phase # "WAITING_RECYCLE_CHOICES",
         pendingAction.type # "EXPLOSIVE_PLACEMENT",
         UNCHANGED <<hands, alive, discardPile, unsafeExplosiveQueue>>,
         NoRepeats(drawPile'), PileOf(drawPile') = PileOf(drawPile),
         NoSelections(pendingAction'), pendingAction'.type # "EXPLOSIVE_PLACEMENT"
  PROVE  CardsStep
<1>1. CardsApart'
  BY NoneAside, NoneAsideNext DEF CardsInv, CardsApart
<1>2. QED BY <1>1 DEF CardsStep, OneDeathAtMost

\* Cards played go from a hand to the discard pile.
LEMMA DiscardedCards ==
  ASSUME CardsInv, phase # "WAITING_RECYCLE_CHOICES",
         pendingAction.type # "EXPLOSIVE_PLACEMENT",
         NEW p \in Player, NEW played \in SUBSET hands[p],
         hands' = [hands EXCEPT ![p] = @ \ played],
         discardPile' = discardPile \cup played,
         UNCHANGED <<alive, drawPile, unsafeExplosiveQueue>>,
         NoSelections(pendingAction'), pendingAction'.type # "EXPLOSIVE_PLACEMENT"
  PROVE  CardsStep
<1>1. hands \in [Player -> SUBSET Card] /\ HandsApart(hands)
      /\ NoRepeats(drawPile) /\ unsafeExplosiveQueue = <<>>
  BY DEF CardsInv, CardsApart, HandsInv, TypeOK
<1>2. \A S \in SUBSET hands[p] : LostFrom(hands, p, S, [hands EXCEPT ![p] = @ \ S])
  BY ONLY <1>1, p \in Player, TakenFromHand
<1>3. LostFrom(hands, p, played, hands')
  BY <1>2
<1>4. Split(InHands(hands), PileOf(drawPile), discardPile, {}, {})
  BY NoneAside
<1>5. played \subseteq InHands(hands)
  BY <1>1 DEF InHands
<1>6. Split(InHands(hands'), PileOf(drawPile'), discardPile', {}, {})
  BY <1>3, <1>4, <1>5 DEF Split, LostFrom
<1>7. CardsApart'
  BY <1>1, <1>3, <1>6, NoneAsideNext DEF LostFrom
<1>8. QED BY <1>7 DEF CardsStep, OneDeathAtMost

\* What becomes of a card x that is drawn and of the cards S it costs.
LEMMA DrawnCardSplits ==
  ASSUME NEW inHands, NEW inPile, NEW inDiscard, NEW x \in inPile,
         NEW S \in SUBSET inHands, Split(inHands, inPile, inDiscard, {}, {})
  PROVE  /\ Split(inHands \cup {x}, inPile \ {x}, inDiscard, {}, {})
         /\ Split(inHands \ S, inPile \ {x}, inDiscard \cup S, {x}, {})
         /\ Split(inHands \ S, inPile \ {x}, inDiscard \cup {x} \cup S, {}, {})
<1>1. Split(inHands \cup {x}, inPile \ {x}, inDiscard, {}, {})
  BY DEF Split
<1>2. Split(inHands \ S, inPile \ {x}, inDiscard \cup S, {x}, {})
  BY DEF Split
<1>3. Split(inHands \ S, inPile \ {x}, inDiscard \cup {x} \cup S, {}, {})
  BY DEF Split
<1>4. QED BY <1>1, <1>2, <1>3

\* The card drawn goes to the hand, or is set aside, or goes to the discard
\* pile with the hand.
LEMMA ResolveDrawnCardCards ==
  ASSUME CardsInv, phase # "WAITING_RECYCLE_CHOICES",
         pendingAction.type # "EXPLOSIVE_PLACEMENT",
         NEW p \in Player, NEW drawn \in PileOf(drawPile), NEW rest, NEW pending,
         NoRepeats(rest), PileOf(rest) = PileOf(drawPile) \ {drawn},
         NoSelections(pending), pending.type # "EXPLOSIVE_PLACEMENT",
         ResolveDrawnCard(p, drawn, rest, pending)
  PROVE  CardsStep
<1>1. /\ hands \in [Player -> SUBSET Card] /\ HandsApart(hands)
      /\ unsafeExplosiveQueue = <<>> /\ drawPile \in Seq(Card)
  BY DEF CardsInv, CardsApart, HandsInv, TypeOK
<1>2. Split(InHands(hands), PileOf(drawPile), discardPile, {}, {})
  BY NoneAside
<1>3. /\ drawPile' = rest /\ unsafeExplosiveQueue' = <<>>
      /\ drawn \in Card /\ drawn \notin InHands(hands) /\ drawn \notin discardPile
  BY <1>1, <1>2 DEF ResolveDrawnCard, Split
<1>4. \A S \in SUBSET hands[p] : LostFrom(hands, p, S, [hands EXCEPT ![p] = @ \ S])
  BY ONLY <1>1, p \in Player, TakenFromHand
<1>5. \A q \in Player : hands[q] \subseteq InHands(hands)
  BY <1>1 DEF InHands
<1>6. CASE KeepDrawnCard(p, drawn, pending)
  <2>1. GainedBy(hands, p, drawn, [hands EXCEPT ![p] = @ \cup {drawn}])
    BY ONLY <1>1, <1>3, p \in Player, PutIntoHand
  <2>2. GainedBy(hands, p, drawn, hands') /\ discardPile' = discardPile
        /\ pendingAction' = pending /\ alive' = alive
    BY <1>6, <2>1 DEF KeepDrawnCard
  <2>3. Split(InHands(hands'), PileOf(drawPile'), discardPile', {}, {})
    BY <1>2, <1>3, <2>2 DEF Split, GainedBy
  <2>4. CardsApart'
    BY <1>3, <2>2, <2>3, NoneAsideNext DEF GainedBy
  <2>5. QED BY <2>2, <2>4 DEF CardsStep, OneDeathAtMost
<1>7. CASE ShieldFromDrawnExplosive(p, drawn)
  <2>1. PICK shield \in CardsByCode(hands[p], "SHIELD") :
          /\ hands' = [hands EXCEPT ![p] = @ \ {shield}]
          /\ discardPile' = discardPile \cup {shield}
    BY <1>7 DEF ShieldFromDrawnExplosive
  <2>2. {shield} \in SUBSET hands[p]
    BY DEF CardsByCode
  <2>3. LostFrom(hands, p, {shield}, hands')
    BY <1>4, <2>1, <2>2
  <2>4. /\ pendingAction' = Pending("EXPLOSIVE_PLACEMENT", p, NoPlayer, <<drawn>>)
        /\ alive' = alive
    BY <1>7 DEF ShieldFromDrawnExplosive
  <2>5. NoSelections(pendingAction') /\ pendingAction'.cards = <<drawn>>
        /\ pendingAction'.type = "EXPLOSIVE_PLACEMENT"
    BY <2>4 DEF Pending, NoSelections
  <2>6. PlacedCards(pendingAction') = {drawn} /\ RecycledCards(pendingAction') = {}
    BY <1>3, <2>5, CardAssumption DEF PlacedCards, RecycledCards, NoSelections
  <2>7. shield \in InHands(hands)
    BY <1>5, <2>2
  <2>8. Split(InHands(hands'), PileOf(drawPile'), discardPile', {drawn}, {})
    <3>1. {shield} \in SUBSET InHands(hands)
      BY <2>7
    <3>2. Split(InHands(hands) \ {shield}, PileOf(drawPile) \ {drawn},
                discardPile \cup {shield}, {drawn}, {})
      BY <1>2, <3>1, DrawnCardSplits
    <3>3. /\ InHands(hands') = InHands(hands) \ {shield}
          /\ PileOf(drawPile') = PileOf(drawPile) \ {drawn}
      BY <1>3, <2>3 DEF LostFrom
    <3>4. QED BY <2>1, <3>2, <3>3
  <2>9. CardsApart'
    BY <1>3, <2>3, <2>5, <2>6, <2>8 DEF CardsApart, NoSelections, LostFrom
  <2>10. QED BY <2>4, <2>9 DEF CardsStep, OneDeathAtMost
<1>8. CASE EliminatedByDrawnExplosive(p, drawn, pending)
  <2>1. /\ hands' = [hands EXCEPT ![p] = {}]
        /\ discardPile' = discardPile \cup {drawn} \cup hands[p]
        /\ alive' = alive \ {p} /\ pendingAction' = pending
        /\ phase' # "WAITING_EXPLOSIVE_PLACEMENT"
    BY <1>8 DEF EliminatedByDrawnExplosive, AdvanceOrEndGame, SetWinner,
       AdvanceToNextAlivePlayer, AdvanceToPlayer
  <2>2. hands' = [hands EXCEPT ![p] = @ \ hands[p]]
    BY <1>1, <2>1
  <2>3. LostFrom(hands, p, hands[p], hands')
    BY <1>4, <2>2
  <2>4. hands[p] \subseteq InHands(hands)
    BY <1>5
  <2>5. Split(InHands(hands'), PileOf(drawPile'), discardPile', {}, {})
    <3>1. hands[p] \in SUBSET InHands(hands)
      BY <2>4
    <3>2. Split(InHands(hands) \ hands[p], PileOf(drawPile) \ {drawn},
                discardPile \cup {drawn} \cup hands[p], {}, {})
      BY <1>2, <3>1, DrawnCardSplits
    <3>3. /\ InHands(hands') = InHands(hands) \ hands[p]
          /\ PileOf(drawPile') = PileOf(drawPile) \ {drawn}
      BY <1>3, <2>3 DEF LostFrom
    <3>4. QED BY <2>1, <3>2, <3>3
  <2>6. CardsApart'
    BY <1>3, <2>1, <2>3, <2>5, NoneAsideNext DEF LostFrom
  <2>7. QED BY <2>1, <2>6 DEF CardsStep, OneDeathAtMost
<1>9. QED BY <1>6, <1>7, <1>8 DEF ResolveDrawnCard

----------------------------------------------------------------------------
(* Steps that endanger a player.                                           *)

\* A card that moves from hand to hand endangers one player at most: the one
\* who gets it if it is an explosive, or the other if it is the holder.
LEMMA TransferCardCards ==
  ASSUME CardsInv, phase # "WAITING_RECYCLE_CHOICES",
         pendingAction.type # "EXPLOSIVE_PLACEMENT",
         NEW from \in Player, NEW to \in Player, NEW card \in hands[from],
         TransferCard(card, from, to), UNCHANGED drawPile
  PROVE  CardsStep
<1> DEFINE mid == [hands EXCEPT ![from] = @ \ {card}]
           h == [mid EXCEPT ![to] = @ \cup {card}]
<1>1. /\ TypeOK /\ hands \in [Player -> SUBSET Card] /\ HandsApart(hands)
      /\ unsafeExplosiveQueue = <<>> /\ NoRepeats(drawPile) /\ drawPile' = drawPile
  BY DEF CardsInv, CardsApart, HandsInv, TypeOK
<1>2. card \in Card /\ card \in InHands(hands)
  BY <1>1 DEF InHands
<1>3. LostFrom(hands, from, {card}, mid)
  <2>1. \A S \in SUBSET hands[from] :
           LostFrom(hands, from, S, [hands EXCEPT ![from] = @ \ S])
    BY ONLY <1>1, from \in Player, TakenFromHand
  <2>2. {card} \in SUBSET hands[from]
    OBVIOUS
  <2>3. QED BY <2>1, <2>2
<1>4. GainedBy(mid, to, card, h)
  <2> HIDE DEF mid
  <2>1. mid \in [Player -> SUBSET Card] /\ HandsApart(mid) /\ card \notin InHands(mid)
    BY <1>3 DEF LostFrom
  <2>2. GainedBy(mid, to, card, [mid EXCEPT ![to] = @ \cup {card}])
    BY ONLY <1>2, <2>1, to \in Player, PutIntoHand
  <2>3. QED BY <2>2
<1>5. InHands(h) = InHands(hands)
  BY <1>2, <1>3, <1>4 DEF LostFrom, GainedBy
<1>6. \A q \in Player : ~Unsafe(hands[q])
  BY NoneAside, SafeHands DEF CardsInv
<1>7. \A p, q \in {from, to} \cap alive : Unsafe(h[p]) /\ Unsafe(h[q]) => p = q
  <2>1. ASSUME from # to, Unsafe(h[from]), Unsafe(h[to]) PROVE FALSE
    <3>1. h[from] = hands[from] \ {card} /\ h[to] = hands[to] \cup {card}
      BY <1>1, <2>1
    <3>2. Code[card] = "EXPLOSIVE"
      <4>1. ~Unsafe(hands[to]) /\ Unsafe(hands[to] \cup {card})
        BY <1>6, <2>1, <3>1
      <4>2. QED BY ONLY <4>1, SafeWithOneMore
    <3>3. Code[card] = "EXPLOSIVE_HOLDER"
      BY <1>6, <2>1, <3>1, SafeWithoutSome
    <3>4. QED BY <3>2, <3>3
  <2>2. QED BY <2>1
<1>8. ResolveUnsafeExplosivesFrom(currentPlayerID, {from, to}, from, h, discardPile, {from})
  BY DEF TransferCard
<1>9. Split(InHands(hands), PileOf(drawPile), discardPile, {}, {})
  BY NoneAside
<1> HIDE DEF h
<1>10. /\ h \in [Player -> SUBSET Card] /\ HandsApart(h) /\ NoRepeats(drawPile')
       /\ Split(InHands(h), PileOf(drawPile'), discardPile, {}, {})
  BY <1>1, <1>4, <1>5, <1>9 DEF GainedBy
<1>11. QED BY <1>1, <1>7, <1>8, <1>10, ResolveUnsafeExplosivesCards
          DEF CardsStep, OneDeathAtMost

\* The explosive set aside goes back to the pile.
LEMMA PlaceExplosiveCards ==
  ASSUME CardsInv, NEW p \in Player, NEW index, PlaceExplosive(p, index)
  PROVE  CardsStep
<1> DEFINE x == pendingAction.cards[1]
<1>1. /\ TypeOK /\ hands \in [Player -> SUBSET Card] /\ HandsApart(hands)
      /\ unsafeExplosiveQueue = <<>> /\ NoRepeats(drawPile) /\ drawPile \in Seq(Card)
  BY DEF CardsInv, CardsApart, HandsInv, TypeOK
<1>2. /\ pendingAction.type = "EXPLOSIVE_PLACEMENT" /\ Len(pendingAction.cards) = 1
      /\ index \in 0..Len(drawPile) /\ drawPile' = InsertCardAt(drawPile, x, index)
  BY DEF PlaceExplosive, PlacementIndex
<1>3. x \in Card
  BY <1>1, <1>2, PendingActionTyped
<1>4. NoSelections(pendingAction)
  BY NoSelectionsUnlessRecycling DEF PlaceExplosive, CardsInv
<1>5. PlacedCards(pendingAction) = {x} /\ RecycledCards(pendingAction) = {}
  BY <1>2, <1>3, <1>4, CardAssumption DEF PlacedCards, RecycledCards, NoSelections
<1> HIDE DEF x
<1>6. Split(InHands(hands), PileOf(drawPile), discardPile, {x}, {})
  BY <1>5 DEF CardsInv, CardsApart
<1>7. x \notin PileOf(drawPile)
  BY <1>6 DEF Split
<1>8. NoRepeats(drawPile') /\ PileOf(drawPile') = PileOf(drawPile) \cup {x}
  BY <1>1, <1>2, <1>3, <1>7, InsertCardAtCards
<1>9. Split(InHands(hands), PileOf(drawPile'), discardPile, {}, {})
  BY <1>6, <1>8 DEF Split
<1>10. CASE pendingAction.reactiveExplosive
  <2>1. ResolveUnsafeExplosivesFrom(pendingAction.originalCurrentPlayerID,
                                    {p}, p, hands, discardPile, {})
    BY <1>10 DEF PlaceExplosive
  <2>2. \A q, r \in {p} \cap alive : Unsafe(hands[q]) /\ Unsafe(hands[r]) => q = r
    OBVIOUS
  <2>3. QED BY <1>1, <1>8, <1>9, <2>1, <2>2, ResolveUnsafeExplosivesCards
            DEF CardsStep, OneDeathAtMost
<1>11. CASE ~pendingAction.reactiveExplosive
  <2>1. /\ pendingAction' = NoPendingAction
        /\ UNCHANGED <<hands, alive, discardPile, unsafeExplosiveQueue>>
    BY <1>11 DEF PlaceExplosive
  <2>2. NoSelections(pendingAction') /\ pendingAction'.type # "EXPLOSIVE_PLACEMENT"
    BY <2>1 DEF NoPendingAction, Pending, NoSelections
  <2>3. CardsApart'
    BY <1>1, <1>8, <1>9, <2>1, <2>2, NoneAsideNext
  <2>4. QED BY <2>1, <2>3 DEF CardsStep, OneDeathAtMost
<1>12. QED BY <1>10, <1>11

\* A card comes out of the discard pile.
LEMMA ChooseCardFromDiscardCards ==
  ASSUME CardsInv, NEW p \in Player, NEW card \in Card, ChooseCardFromDiscard(p, card)
  PROVE  CardsStep
<1> DEFINE h == [hands EXCEPT ![p] = @ \cup {card}]
<1>1. /\ TypeOK /\ hands \in [Player -> SUBSET Card] /\ HandsApart(hands)
      /\ unsafeExplosiveQueue = <<>> /\ NoRepeats(drawPile)
  BY DEF CardsInv, CardsApart, HandsInv, TypeOK
<1>2. /\ phase = "WAITING_DISCARD_RECOVERY" /\ pendingAction.type = "DISCARD_RECOVERY"
      /\ card \in discardPile /\ drawPile' = drawPile
      /\ ResolveUnsafeExplosivesFrom(currentPlayerID, {p}, p, h, discardPile \ {card}, {})
  BY DEF ChooseCardFromDiscard
<1>3. Split(InHands(hands), PileOf(drawPile), discardPile, {}, {})
  BY <1>2, NoneAside
<1>4. card \notin InHands(hands)
  BY <1>2, <1>3 DEF Split
<1>5. GainedBy(hands, p, card, h)
  BY ONLY <1>1, <1>4, p \in Player, card \in Card, PutIntoHand
<1> HIDE DEF h
<1>6. Split(InHands(hands) \cup {card}, PileOf(drawPile), discardPile \ {card}, {}, {})
  BY <1>2, <1>3 DEF Split
<1>7. /\ h \in [Player -> SUBSET Card] /\ HandsApart(h) /\ NoRepeats(drawPile')
      /\ Split(InHands(h), PileOf(drawPile'), discardPile \ {card}, {}, {})
  BY <1>1, <1>2, <1>5, <1>6 DEF GainedBy
<1>8. \A q, r \in {p} \cap alive : Unsafe(h[q]) /\ Unsafe(h[r]) => q = r
  OBVIOUS
<1>9. QED BY <1>1, <1>2, <1>7, <1>8, ResolveUnsafeExplosivesCards
         DEF CardsStep, OneDeathAtMost

----------------------------------------------------------------------------
(* The end of the cancel window, and the commands of the turn.             *)

\* Every resolution of a cancel window keeps the cards apart and lets at most one
\* player die.
LEMMA ExpireCancelWindowCards ==
  ASSUME CardsInv, ExpireCancelWindow
  PROVE  CardsStep
<1> DEFINE source == pendingAction.sourcePlayerID
           target == pendingAction.targetPlayerID
<1>1. /\ TypeOK /\ drawPile \in Seq(Card) /\ NoRepeats(drawPile)
      /\ unsafeExplosiveQueue = <<>> /\ alive \subseteq Player
  BY DEF CardsInv, CardsApart, HandsInv, TypeOK
<1>2. /\ phase # "WAITING_RECYCLE_CHOICES"
      /\ pendingAction.type # "EXPLOSIVE_PLACEMENT"
      /\ source \in Player
  BY <1>1, PendingActionTyped DEF ExpireCancelWindow, IsCancelable, PendingAction
<1>3. NoSelections(NoPendingAction) /\ NoPendingAction.type # "EXPLOSIVE_PLACEMENT"
  BY DEF NoPendingAction, Pending, NoSelections
<1>4. ASSUME NEW pile, ReorderDrawPile(pile), NoRepeats(pile), PileOf(pile) = PileOf(drawPile)
      PROVE  CardsStep
  BY <1>2, <1>3, <1>4, StillCards DEF ReorderDrawPile
<1>5. CASE NothingMoves
  BY <1>1, <1>4, <1>5 DEF NothingMoves
<1>6. CASE ResolveShuffleDeck
  BY <1>1, <1>4, <1>6, ShuffleKeepsCards DEF ResolveShuffleDeck
<1>7. CASE OnlyTurnChanges
  BY <1>1, <1>2, <1>3, <1>7, StillCards DEF OnlyTurnChanges
<1>8. ASSUME NEW waiting, NEW pending, NoSelections(pending),
             pending.type # "EXPLOSIVE_PLACEMENT", WaitFor(waiting, pending)
      PROVE  CardsStep
  BY <1>1, <1>2, <1>8, StillCards DEF WaitFor
<1>9. ASSUME NEW type, type # "EXPLOSIVE_PLACEMENT", NEW waiting, NEW to, NEW cards,
             WaitFor(waiting, Pending(type, source, to, cards))
      PROVE  CardsStep
  BY <1>8, <1>9 DEF Pending, NoSelections
<1>10. ASSUME NEW code, ResolvePlayedCard(code, source, target)
       PROVE  CardsStep
  <2>1. CASE ResolveDrawFromBottom(source)
    <3>1. CASE drawPile = <<>>
      BY <1>5, <2>1, <3>1 DEF ResolveDrawFromBottom
    <3>2. CASE drawPile # <<>>
      <4> DEFINE bottom == drawPile[Len(drawPile)]
                 rest == SubSeq(drawPile, 1, Len(drawPile) - 1)
      <4>1. ResolveDrawnCard(source, bottom, rest, NoPendingAction)
        BY <2>1, <3>2 DEF ResolveDrawFromBottom
      <4>2. bottom \in PileOf(drawPile) /\ NoRepeats(rest)
            /\ PileOf(rest) = PileOf(drawPile) \ {bottom}
        BY <1>1, <3>2, DrawBottom
      <4> HIDE DEF bottom, rest
      <4>3. QED BY <1>2, <1>3, <4>1, <4>2, ResolveDrawnCardCards
    <3>3. QED BY <3>1, <3>2
  <2>2. CASE ResolveSwapTopBottom
    <3>1. CASE Len(drawPile) > 1
      BY <1>1, <1>4, <2>2, <3>1, SwapTopBottomCards DEF ResolveSwapTopBottom
    <3>2. CASE ~(Len(drawPile) > 1)
      BY <1>1, <1>4, <2>2, <3>2 DEF ResolveSwapTopBottom
    <3>3. QED BY <3>1, <3>2
  <2>3. CASE ResolveRequestCard(source, target)
    BY <1>9, <2>3 DEF ResolveRequestCard
  <2>4. CASE ResolveRevealHeldCard(source, target)
    BY <1>9, <2>4 DEF ResolveRevealHeldCard
  <2>5. ASSUME NEW limit, ResolveReorderTop(source, limit) PROVE CardsStep
    BY <1>5, <1>9, <2>5 DEF ResolveReorderTop
  <2>6. CASE ResolveCollectiveRecycle(source)
    <3> DEFINE pending == [Pending("RECYCLE_CHOICES", source, NoPlayer, <<>>)
                             EXCEPT !.recyclePlayerIDs = {p \in alive : hands[p] # {}}]
    <3>1. NoSelections(pending) /\ pending.type # "EXPLOSIVE_PLACEMENT"
      BY DEF NoSelections, Pending
    <3>2. CASE WaitFor("WAITING_RECYCLE_CHOICES", pending)
      BY <1>8, <3>1, <3>2
    <3>3. QED BY <1>6, <2>6, <3>2 DEF ResolveCollectiveRecycle
  <2>7. QED BY <1>5, <1>6, <1>7, <1>10, <2>1, <2>2, <2>3, <2>4, <2>5, <2>6
            DEF ResolvePlayedCard, ResolveSkipTurn, ResolveSkipAllTurns, ResolveExtraTurns,
                ResolvePeekDeck
<1>11. ASSUME NEW kind, NEW code, ResolveCombo(kind, source, target, code)
       PROVE  CardsStep
  <2>1. ASSUME {source, target} \subseteq alive, UNCHANGED drawPile,
               NEW card \in hands[target], TransferCard(card, target, source)
        PROVE  CardsStep
    <3>1. target \in Player
      BY <1>1, <2>1
    <3>2. QED BY <1>2, <2>1, <3>1, TransferCardCards
  <2>2. CASE ResolveFiveDifferent(source)
    <3> DEFINE pending == [Pending("DISCARD_RECOVERY", source, NoPlayer, <<>>)
                             EXCEPT !.comboKind = "FIVE_DIFFERENT"]
    <3>1. NoSelections(pending) /\ pending.type # "EXPLOSIVE_PLACEMENT"
      BY DEF NoSelections, Pending
    <3>2. QED BY <1>8, <2>2, <3>1 DEF ResolveFiveDifferent
  <2>3. QED BY <1>5, <1>11, <2>1, <2>2
            DEF ResolveCombo, ResolvePair, ResolveTriple, CardsByCode
<1>12. QED BY <1>5, <1>10, <1>11 DEF ExpireCancelWindow, ResolveCancelWindow

\* So does every command of the player whose turn it is,
LEMMA TurnCommandsCards ==
  ASSUME CardsInv, NEW p \in Player
  PROVE  /\ DrawCard(p) => CardsStep
         /\ \A card, target : PlayCard(p, card, target) => CardsStep
         /\ \A cards, target, requestedCode :
               PlayCombo(p, cards, target, requestedCode) => CardsStep
<1>1. /\ TypeOK /\ drawPile \in Seq(Card) /\ NoRepeats(drawPile)
  BY DEF CardsInv, CardsApart, HandsInv, TypeOK
<1>2. InTurn(p) => /\ phase # "WAITING_RECYCLE_CHOICES"
                   /\ pendingAction.type # "EXPLOSIVE_PLACEMENT"
                   /\ NoSelections(pendingAction)
  BY NoPlacementInTurn, NoneAside DEF InTurn
<1>3. ASSUME DrawCard(p) PROVE CardsStep
  <2>1. drawPile # <<>> /\ InTurn(p)
        /\ ResolveDrawnCard(p, Head(drawPile), Tail(drawPile), pendingAction)
    BY <1>3 DEF DrawCard
  <2>2. /\ Head(drawPile) \in PileOf(drawPile) /\ NoRepeats(Tail(drawPile))
        /\ PileOf(Tail(drawPile)) = PileOf(drawPile) \ {Head(drawPile)}
    BY <1>1, <2>1, DrawTop
  <2> DEFINE top == Head(drawPile)
             rest == Tail(drawPile)
  <2> HIDE DEF top, rest
  <2>3. /\ ResolveDrawnCard(p, top, rest, pendingAction)
        /\ top \in PileOf(drawPile) /\ NoRepeats(rest)
        /\ PileOf(rest) = PileOf(drawPile) \ {top}
    BY <2>1, <2>2 DEF top, rest
  <2>4. QED BY <1>2, <2>1, <2>3, ResolveDrawnCardCards
<1>4. ASSUME NEW played \in SUBSET hands[p], NEW pending, InTurn(p),
             NoSelections(pending), pending.type # "EXPLOSIVE_PLACEMENT",
             OpenCancelWindow(p, played, pending)
      PROVE  CardsStep
  BY <1>2, <1>4, DiscardedCards DEF OpenCancelWindow
<1>5. ASSUME NEW card, NEW target, PlayCard(p, card, target) PROVE CardsStep
  <2> DEFINE pending == Pending("PLAY_CARD", p, target, <<card>>)
  <2>1. /\ {card} \in SUBSET hands[p] /\ InTurn(p)
        /\ OpenCancelWindow(p, {card}, pending)
    BY <1>5 DEF PlayCard
  <2>2. NoSelections(pending) /\ pending.type # "EXPLOSIVE_PLACEMENT"
    BY DEF NoSelections, Pending
  <2>3. QED BY <1>4, <2>1, <2>2
<1>6. ASSUME NEW cards, NEW target, NEW requestedCode,
             PlayCombo(p, cards, target, requestedCode)
      PROVE  CardsStep
  <2> DEFINE kind == ComboKindOf(hands[p], cards, requestedCode)
             pending == [Pending("CARD_COMBO", p, target, <<>>)
                           EXCEPT !.comboKind = kind, !.requestedCode = requestedCode]
  <2>1. /\ cards \in SUBSET hands[p] /\ InTurn(p)
        /\ OpenCancelWindow(p, cards, pending)
    BY <1>6 DEF PlayCombo
  <2>2. NoSelections(pending) /\ pending.type # "EXPLOSIVE_PLACEMENT"
    BY DEF NoSelections, Pending
  <2>3. QED BY <1>4, <2>1, <2>2
<1>7. QED BY <1>3, <1>5, <1>6

\* every cancel,
LEMMA PlayCancelCards ==
  ASSUME CardsInv, NEW p \in Player, NEW card, PlayCancel(p, card)
  PROVE  CardsStep
<1>1. /\ phase = "CANCEL_WINDOW" /\ pendingAction.type \in {"PLAY_CARD", "CARD_COMBO"}
      /\ {card} \in SUBSET hands[p]
  BY DEF PlayCancel, IsCancelable, CardsByCode
<1>2. pendingAction \in PendingAction /\ NoSelections(pendingAction)
  BY <1>1, PendingActionTyped, NoneAside DEF CardsInv, HandsInv
<1>3. NoSelections(pendingAction') /\ pendingAction'.type # "EXPLOSIVE_PLACEMENT"
  BY <1>1, <1>2 DEF PlayCancel, PendingAction, NoSelections
<1>4. QED BY <1>1, <1>3, DiscardedCards DEF PlayCancel

----------------------------------------------------------------------------
(* The answers.                                                            *)

\* every new order of the top cards,
LEMMA SubmitReorderedTopCardsCards ==
  ASSUME CardsInv, NEW p \in Player, NEW top, SubmitReorderedTopCards(p, top)
  PROVE  CardsStep
<1> DEFINE n == Len(pendingAction.cards)
           upper == SubSeq(drawPile, 1, n)
           rest == SubSeq(drawPile, n + 1, Len(drawPile))
<1>1. /\ TypeOK /\ drawPile \in Seq(Card) /\ NoRepeats(drawPile)
      /\ phase = "WAITING_DECK_REORDER" /\ pendingAction.type = "DECK_REORDER"
  BY DEF CardsInv, CardsApart, HandsInv, TypeOK, SubmitReorderedTopCards
<1>2. /\ n \in 0..Len(drawPile) /\ upper = pendingAction.cards
      /\ top \in Shuffles(upper) /\ ReorderDrawPile(top \o rest)
  <2>1. pendingAction.cards \in Seq(Card)
    BY <1>1, PendingActionTyped
  <2>2. n \in Nat /\ Len(drawPile) \in Nat /\ n <= Len(drawPile)
    BY <1>1, <2>1 DEF SubmitReorderedTopCards
  <2>3. upper = pendingAction.cards
    BY DEF SubmitReorderedTopCards
  <2>4. top \in Shuffles(pendingAction.cards) /\ ReorderDrawPile(top \o rest)
    BY DEF SubmitReorderedTopCards
  <2> HIDE DEF upper, rest, n
  <2>5. top \in Shuffles(upper)
    BY ONLY <2>3, <2>4
  <2>6. n \in 0..Len(drawPile)
    BY <2>2
  <2>7. QED BY <2>3, <2>4, <2>5, <2>6
<1>3. upper \in Seq(Card) /\ rest \in Seq(Card) /\ drawPile = upper \o rest
  BY <1>1, <1>2, CutPile
<1> HIDE DEF n, upper, rest
<1>4. /\ PileOf(drawPile) = PileOf(upper) \cup PileOf(rest)
      /\ NoRepeats(upper) /\ NoRepeats(rest) /\ PileOf(upper) \cap PileOf(rest) = {}
  BY <1>1, <1>3, ConcatCards
<1>5. top \in Seq(Card) /\ NoRepeats(top) /\ PileOf(top) = PileOf(upper)
  BY <1>2, <1>3, <1>4, ShufflesTyped, ShuffleKeepsCards
<1>6. NoRepeats(top \o rest) /\ PileOf(top \o rest) = PileOf(drawPile)
  BY <1>3, <1>4, <1>5, ConcatCards
<1>7. NoSelections(NoPendingAction) /\ NoPendingAction.type # "EXPLOSIVE_PLACEMENT"
  BY DEF NoPendingAction, Pending, NoSelections
<1>8. QED BY <1>1, <1>2, <1>6, <1>7, StillCards DEF ReorderDrawPile

\* and every answer of a player who has to choose.
LEMMA AnswersCards ==
  ASSUME CardsInv, NEW p \in Player, NEW card
  PROVE  /\ ChooseCardForRequest(p, card) => CardsStep
         /\ ChooseMarkedCard(p, card) => CardsStep
<1>1. ASSUME ChooseCardForRequest(p, card) PROVE CardsStep
  <2>1. pendingAction.sourcePlayerID \in Player
    BY <1>1 DEF ChooseCardForRequest, CardsInv, HandsInv, TypeOK
  <2>2. QED BY <1>1, <2>1, TransferCardCards DEF ChooseCardForRequest
<1>2. ASSUME ChooseMarkedCard(p, card) PROVE CardsStep
  <2>1. NoSelections(NoPendingAction) /\ NoPendingAction.type # "EXPLOSIVE_PLACEMENT"
    BY DEF NoPendingAction, Pending, NoSelections
  <2>2. NoRepeats(drawPile)
    BY DEF CardsInv, CardsApart
  <2>3. QED BY <1>2, <2>1, <2>2, StillCards DEF ChooseMarkedCard
<1>3. QED BY <1>1, <1>2

\* The cards of a recycling, collected in any order that names every player
\* once.
LEMMA CollectedCards ==
  ASSUME NEW ids \in SUBSET Player, NEW order \in LookOrders(ids, NoPlayer),
         NEW selections, \A q \in ids : selections[q] \in Card,
         \A q, r \in ids : selections[q] = selections[r] => q = r
  PROVE  LET t == [i \in DOMAIN order |-> selections[order[i]]]
         IN  /\ t \in Seq(Card) /\ NoRepeats(t)
             /\ PileOf(t) = {selections[q] : q \in ids}
<1> DEFINE t == [i \in DOMAIN order |-> selections[order[i]]]
<1>1. PICK n \in 0..N : order \in [1..n -> ids]
  BY DEF LookOrders
<1>2. /\ n \in Nat /\ DOMAIN order = 1..n
      /\ ids = {order[i] : i \in 1..n}
      /\ \A i, j \in 1..n : i < j => LookedAtBefore(NoPlayer, order[i], order[j])
  BY <1>1, NAssumption DEF LookOrders
<1>3. t \in [1..n -> Card]
  BY <1>1, <1>2
<1>4. t \in Seq(Card)
  BY <1>2, <1>3, FunctionIsSequence
<1>5. \A i, j \in 1..n : i < j => order[i] < order[j]
  <2> SUFFICES ASSUME NEW i \in 1..n, NEW j \in 1..n, i < j
               PROVE  order[i] < order[j]
    OBVIOUS
  <2>1. order[i] \in Player
    BY <1>1
  <2>2. order[i] # NoPlayer
    BY <2>1, NAssumption DEF Player, NoPlayer
  <2>3. QED BY <1>2, <2>2 DEF LookedAtBefore
<1>6. NoRepeats(t)
  <2> SUFFICES ASSUME NEW i \in 1..n, NEW j \in 1..n, t[i] = t[j], i # j
               PROVE  FALSE
    BY <1>2 DEF NoRepeats
  <2>1. order[i] = order[j] /\ order[i] \in Int
    <3>1. order[i] \in ids /\ order[j] \in ids
      BY <1>1
    <3>2. order[i] = order[j]
      BY <1>2, <3>1
    <3>3. order[i] \in Player
      BY <3>1
    <3>4. QED BY <3>2, <3>3, NAssumption DEF Player
  <2>2. i < j \/ j < i
    BY <1>2
  <2>3. order[i] < order[j] \/ order[j] < order[i]
    BY <1>5, <2>2
  <2>4. QED BY <2>1, <2>3
<1>7. PileOf(t) = {selections[q] : q \in ids}
  BY <1>2 DEF PileOf
<1>8. QED BY <1>4, <1>6, <1>7

\* A card goes into a recycling, and the last one takes all of them to the pile.
\* Only who has put the holder into it can be left with an explosive.
LEMMA ChooseCardForRecycleCards ==
  ASSUME CardsInv, NEW p \in Player, NEW card \in Card, ChooseCardForRecycle(p, card)
  PROVE  CardsStep
<1> DEFINE ids == pendingAction.recyclePlayerIDs
           before == pendingAction.recycleSelections
           selections == [before EXCEPT ![p] = card]
           h == [hands EXCEPT ![p] = @ \ {card}]
<1>1. /\ TypeOK /\ hands \in [Player -> SUBSET Card] /\ HandsApart(hands)
      /\ unsafeExplosiveQueue = <<>> /\ NoRepeats(drawPile) /\ drawPile \in Seq(Card)
  BY DEF CardsInv, CardsApart, HandsInv, TypeOK
<1>2. /\ pendingAction.type = "RECYCLE_CHOICES" /\ pendingAction \in PendingAction
      /\ p \in ids /\ before[p] = NoCard /\ card \in hands[p]
  BY <1>1, PendingActionTyped DEF ChooseCardForRecycle
<1>3. ids \subseteq Player /\ before \in [Player -> Card \cup {NoCard}]
  BY <1>2 DEF PendingAction
<1>4. \A q \in Player : before[q] # NoCard => q \in ids
  BY DEF CardsInv, HandsInv
<1>5. Split(InHands(hands), PileOf(drawPile), discardPile, {}, RecycledCards(pendingAction))
  <2>1. PlacedCards(pendingAction) = {}
    BY <1>2 DEF PlacedCards
  <2>2. QED BY <2>1 DEF CardsInv, CardsApart
<1>6. card \in InHands(hands) /\ card \notin RecycledCards(pendingAction)
  BY <1>2, <1>5 DEF InHands, Split
<1>7. LostFrom(hands, p, {card}, h)
  <2>1. \A S \in SUBSET hands[p] : LostFrom(hands, p, S, [hands EXCEPT ![p] = @ \ S])
    BY ONLY <1>1, p \in Player, TakenFromHand
  <2>2. {card} \in SUBSET hands[p]
    BY <1>2
  <2>3. QED BY <2>1, <2>2
<1>8. /\ selections[p] = card /\ \A q \in Player \ {p} : selections[q] = before[q]
      /\ h[p] = hands[p] \ {card} /\ \A q \in Player \ {p} : h[q] = hands[q]
  BY <1>1, <1>3
<1> DEFINE recycled == RecycledCards(pendingAction) \cup {card}
<1>9. recycled = {c \in Card : \E q \in Player : selections[q] = c}
  BY <1>2, <1>8, CardAssumption DEF RecycledCards
<1>10. \A q, r \in Player : selections[q] = selections[r] => q = r \/ selections[q] = NoCard
  <2>1. \A q, r \in Player : before[q] = before[r] => q = r \/ before[q] = NoCard
    BY DEF CardsInv, CardsApart
  <2>2. \A q \in Player : before[q] # card
    BY <1>6 DEF RecycledCards
  <2>3. QED BY <1>8, <2>1, <2>2
<1>11. Split(InHands(h), PileOf(drawPile), discardPile, {}, recycled)
  <2>1. InHands(h) = InHands(hands) \ {card}
    BY <1>7 DEF LostFrom
  <2>2. QED BY <1>5, <1>6, <2>1 DEF Split
<1>12. CASE \E q \in ids : selections[q] = NoCard
  <2>1. /\ hands' = h
        /\ pendingAction' = [pendingAction EXCEPT !.recycleSelections = selections]
        /\ UNCHANGED <<alive, drawPile, discardPile, unsafeExplosiveQueue>>
    BY <1>12 DEF ChooseCardForRecycle
  <2>2. /\ pendingAction'.recycleSelections = selections
        /\ pendingAction'.type = "RECYCLE_CHOICES"
    BY <1>2, <2>1 DEF PendingAction
  <2> HIDE DEF selections, h, recycled
  <2>3. PlacedCards(pendingAction') = {} /\ RecycledCards(pendingAction') = recycled
    BY <1>9, <2>2 DEF PlacedCards, RecycledCards
  <2>4. HandsApart(hands')
    BY <1>7, <2>1 DEF LostFrom
  <2>5. CardsApart'
    BY <1>1, <1>10, <1>11, <2>1, <2>2, <2>3, <2>4 DEF CardsApart
  <2>6. QED BY <2>1, <2>5 DEF CardsStep, OneDeathAtMost
<1>13. CASE ~\E q \in ids : selections[q] = NoCard
  <2>1. PICK order \in LookOrders(ids, NoPlayer) :
          drawPile' \in Shuffles(drawPile \o [i \in DOMAIN order |-> selections[order[i]]])
    BY <1>13 DEF ChooseCardForRecycle
  <2> DEFINE t == [i \in DOMAIN order |-> selections[order[i]]]
  <2>2. ResolveUnsafeExplosivesFrom(currentPlayerID, ids, NoPlayer, h, discardPile, {p})
    BY <1>13 DEF ChooseCardForRecycle
  <2>3. \A q \in ids : selections[q] \in Card
    BY <1>3, <1>8, <1>13
  <2>4. \A q, r \in ids : selections[q] = selections[r] => q = r
    BY <1>3, <1>10, <1>13
  <2> HIDE DEF selections, h, recycled, ids
  <2>5. t \in Seq(Card) /\ NoRepeats(t) /\ PileOf(t) = {selections[q] : q \in ids}
    BY <1>3, <2>1, <2>3, <2>4, CollectedCards
  <2>6. PileOf(t) = recycled
    <3>1. \A q \in Player : selections[q] \in Card => q \in ids
      BY <1>2, <1>4, <1>8, CardAssumption
    <3>2. QED BY <1>3, <1>9, <2>3, <2>5, <3>1
  <2>7. drawPile' \in Shuffles(drawPile \o t)
    BY <2>1
  <2> HIDE DEF t
  <2>8. PileOf(drawPile) \cap recycled = {}
    BY <1>11 DEF Split
  <2>9. /\ drawPile \o t \in Seq(Card) /\ NoRepeats(drawPile \o t)
        /\ PileOf(drawPile \o t) = PileOf(drawPile) \cup recycled
    BY <1>1, <2>5, <2>6, <2>8, ConcatCards
  <2>10. NoRepeats(drawPile') /\ PileOf(drawPile') = PileOf(drawPile) \cup recycled
    BY <2>7, <2>9, ShuffleKeepsCards
  <2>11. Split(InHands(h), PileOf(drawPile'), discardPile, {}, {})
    BY <1>11, <2>10 DEF Split
  <2>12. ASSUME NEW q \in ids, Unsafe(h[q])
         PROVE  selections[q] \in Card /\ Code[selections[q]] = "EXPLOSIVE_HOLDER"
    <3>1. CASE q = p
      <4>1. ~Unsafe(hands[p])
        BY <1>2, CardAssumption DEF CardsInv, HandsInv, ExplosivesHeldSafely
      <4>2. Unsafe(hands[p] \ {card})
        BY <1>8, <2>12, <3>1
      <4>3. Code[card] = "EXPLOSIVE_HOLDER"
        BY <4>1, <4>2, SafeWithoutSome
      <4>4. QED BY <1>8, <3>1, <4>3
    <3>2. CASE q # p
      <4>1. q \in Player /\ Unsafe(hands[q]) /\ selections[q] = before[q]
        BY <1>3, <1>8, <2>12, <3>2
      <4>2. QED BY <4>1 DEF CardsInv, HandsInv, ExplosivesHeldSafely
    <3>3. QED BY <3>1, <3>2
  <2>13. \A q, r \in ids \cap alive : Unsafe(h[q]) /\ Unsafe(h[r]) => q = r
    BY <2>4, <2>12, SingleHolderAssumption
  <2>14. h \in [Player -> SUBSET Card] /\ HandsApart(h)
    BY <1>7 DEF LostFrom
  <2>15. QED BY <1>1, <2>2, <2>10, <2>11, <2>13, <2>14, ResolveUnsafeExplosivesCards
             DEF CardsStep, OneDeathAtMost
<1>14. QED BY <1>12, <1>13

----------------------------------------------------------------------------
(* The game begins, and goes on.                                           *)

\* The deal puts every card in one place.
LEMMA InitCards == Init => CardsApart
<1> SUFFICES ASSUME Init PROVE CardsApart
  OBVIOUS
<1> DEFINE rest == Card \ UNION {hands[p] : p \in Player}
<1>1. /\ hands \in [Player -> SUBSET Card] /\ unsafeExplosiveQueue = <<>>
      /\ \A p, q \in Player : p # q => hands[p] \cap hands[q] = {}
      /\ discardPile = {} /\ pendingAction = NoPendingAction
  BY DEF Init, OpeningHand
<1>2. HandsApart(hands)
  BY <1>1 DEF HandsApart
<1>3. rest = Card \ InHands(hands)
  BY <1>1 DEF InHands
<1>4. drawPile \in Orderings(rest)
  BY Zenon DEF Init
<1> HIDE DEF rest
<1>5. IsFiniteSet(rest)
  BY <1>3, DeckAssumption, FS_Subset
<1>6. PICK n \in Nat : n = Cardinality(rest)
  BY <1>5, FS_CardinalityType
<1>7. /\ drawPile \in [1..n -> rest]
      /\ \A i, j \in 1..n : drawPile[i] = drawPile[j] => i = j
  BY <1>4, <1>6 DEF Orderings
<1>8. PileOf(drawPile) = rest
  <2>1. drawPile \in Injection(1..n, rest)
    BY <1>7 DEF Injection, IsInjective
  <2>2. Cardinality(1..n) = n
    BY FS_Interval
  <2>3. drawPile \in Surjection(1..n, rest)
    BY <1>5, <1>6, <2>1, <2>2, FS_Injection
  <2>4. \A c \in rest : \E i \in 1..n : drawPile[i] = c
    BY <2>3 DEF Surjection
  <2>5. QED BY <1>7, <2>4 DEF PileOf
<1>9. NoRepeats(drawPile)
  BY <1>7 DEF NoRepeats
<1>10. NoSelections(pendingAction) /\ pendingAction.type # "EXPLOSIVE_PLACEMENT"
  BY <1>1 DEF NoPendingAction, Pending, NoSelections
<1>11. PlacedCards(pendingAction) = {} /\ RecycledCards(pendingAction) = {}
  BY <1>10, NothingAside
<1>12. InHands(hands) \subseteq Card
  BY DEF InHands
<1>13. Split(InHands(hands), PileOf(drawPile), discardPile, {}, {})
  BY <1>1, <1>3, <1>8, <1>12 DEF Split
<1>14. QED BY <1>1, <1>2, <1>9, <1>10, <1>11, <1>13 DEF CardsApart, NoSelections

\* CardsInv is inductive, and at most one player dies in a step.
LEMMA NextCards == CardsInv /\ [Next]_vars => CardsInv' /\ OneDeathAtMost
<1> SUFFICES ASSUME CardsInv, [Next]_vars PROVE CardsInv' /\ OneDeathAtMost
  OBVIOUS
<1>1. CardsStep
  <2>1. CASE ExpireCancelWindow
    BY <2>1, ExpireCancelWindowCards
  <2>2. CASE UNCHANGED vars
    <3>1. CardsApart'
      BY <2>2 DEF vars, CardsInv, CardsApart, HandsApart, NoRepeats, InHands, PileOf,
                  PlacedCards, RecycledCards
    <3>2. QED BY <2>2, <3>1 DEF vars, CardsStep, OneDeathAtMost
  <2>3. ASSUME NEW p \in Player, NEW card \in Card, ChooseCardForRecycle(p, card)
        PROVE  CardsStep
    BY <2>3, ChooseCardForRecycleCards
  <2>4. QED BY <2>1, <2>2, <2>3, TurnCommandsCards, PlayCancelCards, PlaceExplosiveCards,
               SubmitReorderedTopCardsCards, AnswersCards, ChooseCardFromDiscardCards
            DEF Next
<1>2. HandsInv' /\ DebtInv'
  BY NextHands, NextDebt DEF CardsInv
<1>3. QED BY <1>1, <1>2 DEF CardsInv, CardsStep

\* Hence it holds in every reachable state.
LEMMA CardsInvariant == Spec => []CardsInv
<1>1. Init => CardsApart
  BY InitCards
<1>2. CardsApart /\ HandsInv /\ DebtInv => CardsInv
  BY DEF CardsInv
<1>3. CardsInv /\ [Next]_vars => CardsInv'
  BY NextCards
<1>4. QED BY <1>1, <1>2, <1>3, HandsInvariant, DebtInvariant, PTL DEF Spec

\* Between commands no explosive waits for its turn to be placed, at any table
\* and with any deck that has one holder (resolveUnsafeExplosivesFrom).
THEOREM QueueCorrect == Spec => []NoQueueBetweenCommands
<1>1. CardsInv => NoQueueBetweenCommands
  BY DEF CardsInv, CardsApart, NoQueueBetweenCommands
<1>2. QED BY <1>1, CardsInvariant, PTL

\* Every card is in one place.
LEMMA CardsAreSomewhere == CardsInv => CardConservation
<1> SUFFICES ASSUME CardsInv, NEW c \in Card
             PROVE  \E place \in Locations(c) : Locations(c) = {place}
  BY DEF CardConservation
<1> DEFINE inHand == {<<"hand", p>> : p \in {q \in Player : c \in hands[q]}}
           inPile == {<<"draw pile", i>> : i \in {j \in DOMAIN drawPile : drawPile[j] = c}}
           inDiscard == {<<"discard pile", 0>> : x \in {c} \cap discardPile}
           placed == {<<"to be placed", 0>> : x \in {c} \cap
                        IF pendingAction.type = "EXPLOSIVE_PLACEMENT"
                          THEN {pendingAction.cards[1]} ELSE {}}
           recycled == {<<"recycled", p>> : p \in {q \in Player :
                          pendingAction.recycleSelections[q] = c}}
<1>1. /\ HandsApart(hands) /\ NoRepeats(drawPile) /\ unsafeExplosiveQueue = <<>>
      /\ \A p, q \in Player :
           pendingAction.recycleSelections[p] = pendingAction.recycleSelections[q]
             => p = q \/ pendingAction.recycleSelections[p] = NoCard
      /\ Split(InHands(hands), PileOf(drawPile), discardPile,
               PlacedCards(pendingAction), RecycledCards(pendingAction))
  BY DEF CardsInv, CardsApart
<1>2. Locations(c) = inHand \cup inPile \cup inDiscard \cup placed \cup recycled
  BY <1>1 DEF Locations
<1>3. /\ c \notin InHands(hands) => inHand = {}
      /\ c \in InHands(hands) => \E x : inHand = {x}
  <2> DEFINE holders == {q \in Player : c \in hands[q]}
  <2>1. c \notin InHands(hands) => holders = {}
    BY DEF InHands
  <2>2. ASSUME c \in InHands(hands)
        PROVE  \E x : inHand = {x}
    <3>1. PICK p \in Player : c \in hands[p]
      BY <2>2 DEF InHands
    <3>2. holders = {p}
      BY <3>1, <1>1 DEF HandsApart
    <3>3. inHand = {<<"hand", q>> : q \in holders}
      OBVIOUS
    <3> HIDE DEF inHand, holders
    <3>4. inHand = {<<"hand", p>>}
      BY ONLY <3>2, <3>3
    <3>5. QED BY ONLY <3>4
  <2>3. inHand = {<<"hand", q>> : q \in holders}
    OBVIOUS
  <2> HIDE DEF inHand, holders
  <2>4. c \notin InHands(hands) => inHand = {}
    BY ONLY <2>1, <2>3
  <2>5. QED BY ONLY <2>2, <2>4
<1>4. /\ c \notin PileOf(drawPile) => inPile = {}
      /\ c \in PileOf(drawPile) => \E x : inPile = {x}
  <2> DEFINE found == {j \in DOMAIN drawPile : drawPile[j] = c}
  <2>1. c \notin PileOf(drawPile) => found = {}
    BY DEF PileOf
  <2>2. ASSUME c \in PileOf(drawPile)
        PROVE  \E x : inPile = {x}
    <3>1. PICK i \in DOMAIN drawPile : drawPile[i] = c
      BY <2>2 DEF PileOf
    <3>2. found = {i}
      BY <3>1, <1>1 DEF NoRepeats
    <3>3. inPile = {<<"draw pile", j>> : j \in found}
      OBVIOUS
    <3> HIDE DEF inPile, found
    <3>4. inPile = {<<"draw pile", i>>}
      BY ONLY <3>2, <3>3
    <3>5. QED BY ONLY <3>4
  <2>3. inPile = {<<"draw pile", j>> : j \in found}
    OBVIOUS
  <2> HIDE DEF inPile, found
  <2>4. c \notin PileOf(drawPile) => inPile = {}
    BY ONLY <2>1, <2>3
  <2>5. QED BY ONLY <2>2, <2>4
<1>5. /\ c \notin discardPile => inDiscard = {}
      /\ c \in discardPile => \E x : inDiscard = {x}
  OBVIOUS
<1>6. /\ c \notin PlacedCards(pendingAction) => placed = {}
      /\ c \in PlacedCards(pendingAction) => \E x : placed = {x}
  BY DEF PlacedCards
<1>7. /\ c \notin RecycledCards(pendingAction) => recycled = {}
      /\ c \in RecycledCards(pendingAction) => \E x : recycled = {x}
  <2> DEFINE chosen == {q \in Player : pendingAction.recycleSelections[q] = c}
  <2>0. c # NoCard
    BY CardAssumption
  <2>1. c \notin RecycledCards(pendingAction) => chosen = {}
    BY <2>0 DEF RecycledCards
  <2>2. ASSUME c \in RecycledCards(pendingAction)
        PROVE  \E x : recycled = {x}
    <3>1. PICK p \in Player : pendingAction.recycleSelections[p] = c
      BY <2>2 DEF RecycledCards
    <3>2. chosen = {p}
      BY <3>1, <2>0, <1>1
    <3>3. recycled = {<<"recycled", q>> : q \in chosen}
      OBVIOUS
    <3> HIDE DEF recycled, chosen
    <3>4. recycled = {<<"recycled", p>>}
      BY ONLY <3>2, <3>3
    <3>5. QED BY ONLY <3>4
  <2>3. recycled = {<<"recycled", q>> : q \in chosen}
    OBVIOUS
  <2> HIDE DEF recycled, chosen
  <2>4. c \notin RecycledCards(pendingAction) => recycled = {}
    BY ONLY <2>1, <2>3
  <2>5. QED BY ONLY <2>2, <2>4
<1> HIDE DEF inHand, inPile, inDiscard, placed, recycled
<1>8. \E x : Locations(c) = {x}
  BY <1>1, <1>2, <1>3, <1>4, <1>5, <1>6, <1>7 DEF Split
<1>9. QED BY <1>8

\* No card is ever lost or doubled, whatever is played, drawn, stolen, recycled,
\* recovered or placed back, for every number of players and every deck.
THEOREM CardsCorrect == Spec => []CardConservation
<1>1. QED BY CardsAreSomewhere, CardsInvariant, PTL
----------------------------------------------------------------------------
(* Who sees the cards.                                                     *)

\* Two cards that change places leave a hand as large as it was.
LEMMA SwappedHandIsAsLarge ==
  ASSUME NEW hand, IsFiniteSet(hand), NEW c, NEW d
  PROVE  Cardinality({Swapped(e, c, d) : e \in hand}) = Cardinality(hand)
<1> DEFINE swappedHand == {Swapped(e, c, d) : e \in hand}
           swap == [e \in hand |-> Swapped(e, c, d)]
<1>1. swap \in Bijection(hand, swappedHand)
  <2>1. swap \in [hand -> swappedHand]
    OBVIOUS
  <2>2. \A e, f \in hand : swap[e] = swap[f] => e = f
    BY DEF Swapped
  <2>3. \A x \in swappedHand : \E e \in hand : swap[e] = x
    OBVIOUS
  <2> HIDE DEF swap, swappedHand
  <2>4. QED BY <2>1, <2>2, <2>3 DEF Bijection, Injection, IsInjective, Surjection
<1>2. ExistsBijection(hand, swappedHand)
  BY <1>1 DEF ExistsBijection
<1> HIDE DEF swappedHand
<1>3. Cardinality(swappedHand) = Cardinality(hand)
  BY <1>2, FS_Bijection
<1>4. QED BY <1>3 DEF swappedHand

\* A view shows a player nothing that an exchange of two hidden cards changes.
LEMMA TypedViewsKeepSecrets == TypeOK => ViewKeepsSecrets
<1> SUFFICES ASSUME TypeOK, NEW p \in Player,
                    NEW c \in HiddenFrom(p), NEW d \in HiddenFrom(p)
             PROVE  LET h == [q \in Player |-> {Swapped(e, c, d) : e \in hands[q]}]
                        pile == [i \in DOMAIN drawPile |-> Swapped(drawPile[i], c, d)]
                        pending == [pendingAction EXCEPT
                          !.cards = [i \in DOMAIN @ |-> Swapped(@[i], c, d)],
                          !.recycleSelections = [q \in Player |-> Swapped(@[q], c, d)]]
                    IN ViewOf(p, h, pile, pending) =
                         ViewOf(p, hands, drawPile, pendingAction)
  BY DEF ViewKeepsSecrets
<1> DEFINE h == [q \in Player |-> {Swapped(e, c, d) : e \in hands[q]}]
           pile == [i \in DOMAIN drawPile |-> Swapped(drawPile[i], c, d)]
           pending == [pendingAction EXCEPT
             !.cards = [i \in DOMAIN @ |-> Swapped(@[i], c, d)],
             !.recycleSelections = [q \in Player |-> Swapped(@[q], c, d)]]
<1>1. h[p] = hands[p]
  <2>1. c \notin hands[p] /\ d \notin hands[p]
    BY DEF HiddenFrom
  <2>2. \A e \in hands[p] : Swapped(e, c, d) = e
    BY <2>1 DEF Swapped
  <2>3. QED BY <2>2
<1>2. [q \in Player |-> Cardinality(h[q])] = [q \in Player |-> Cardinality(hands[q])]
  <2>1. ASSUME NEW q \in Player PROVE Cardinality(h[q]) = Cardinality(hands[q])
    <3>1. IsFiniteSet(hands[q])
      BY DeckAssumption, FS_Subset DEF TypeOK
    <3>2. QED BY <3>1, SwappedHandIsAsLarge
  <2> HIDE DEF h
  <2>2. QED BY <2>1
<1>3. Len(pile) = Len(drawPile)
  <2>1. DOMAIN drawPile = 1..Len(drawPile) /\ Len(drawPile) \in Nat
    BY DEF TypeOK
  <2>2. QED BY <2>1
<1>4. PublicPendingAction(pending) = PublicPendingAction(pendingAction)
  BY DEF PublicPendingAction, TypeOK, PendingAction, NoPendingAction, Pending
<1> HIDE DEF h, pile, pending
<1>5. ViewOf(p, h, pile, pending) = ViewOf(p, hands, drawPile, pendingAction)
  BY <1>1, <1>2, <1>3, <1>4 DEF ViewOf
<1>6. QED BY <1>5 DEF h, pile, pending

\* A player's view never tells which of the cards hidden from them is where, in
\* another hand, on the draw pile or set aside, for every number of players and
\* every deck (BuildViewForPlayer, buildPublicPendingActionView).
THEOREM SecretsKept == Spec => []ViewKeepsSecrets
<1>1. QED BY TypedViewsKeepSecrets, TypeCorrect, PTL
============================================================================
