----------------------------- MODULE LoopProofs -----------------------------
(***************************************************************************)
(* Theorems about loops of the engine which other modules describe by what *)
(* they come to: that this is what they come to.                           *)
(***************************************************************************)
EXTENDS UnsafeLoop, NextAliveLoop, ComboLoops, FiniteSetTheorems, SequenceTheorems,
        TLAPS

----------------------------------------------------------------------------
(* The loop of resolveUnsafeExplosivesFrom.                                *)

\* Whoever is looked at last comes last in the order of looking.
LEMMA LookOrderExtends ==
  ASSUME NEW S \in SUBSET Player, NEW first, NEW order \in LookOrders(S, first),
         NEW p \in Player, \A q \in S : LookedAtBefore(first, q, p)
  PROVE  /\ Append(order, p) \in LookOrders(S \cup {p}, first)
         /\ \E n \in Nat : order \in [1..n -> S]
<1>1. PICK n \in 0..N : order \in [1..n -> S]
  BY DEF LookOrders
<1>2. /\ S = {order[i] : i \in 1..n}
      /\ \A i, j \in 1..n : i < j => LookedAtBefore(first, order[i], order[j])
  BY <1>1 DEF LookOrders
<1> DEFINE longer == Append(order, p)
<1>3. N \in Nat /\ n \in Nat
  BY NAssumption
<1>4. /\ longer \in [1..n + 1 -> S \cup {p}]
      /\ longer[n + 1] = p
      /\ \A i \in 1..n : longer[i] = order[i]
  <2>1. order \in Seq(S \cup {p}) /\ Len(order) = n
    <3>1. order \in [1..n -> S \cup {p}]
      BY <1>1
    <3>2. QED BY <1>3, <3>1
  <2>2. /\ longer \in Seq(S \cup {p})
        /\ Len(longer) = n + 1
        /\ \A i \in 1..n : longer[i] = order[i]
        /\ longer[n + 1] = p
    BY <2>1, AppendProperties
  <2>3. QED BY <2>2, LenProperties
<1> HIDE DEF longer
<1>5. S \cup {p} = {longer[i] : i \in 1..n + 1}
  BY <1>2, <1>3, <1>4
<1>6. ASSUME NEW i \in 1..n + 1, NEW j \in 1..n + 1, i < j
      PROVE  LookedAtBefore(first, longer[i], longer[j])
  <2>1. i \in 1..n
    BY <1>3, <1>6
  <2>2. CASE j \in 1..n
    BY <1>2, <1>4, <1>6, <2>1, <2>2
  <2>3. CASE j = n + 1
    BY <1>2, <1>4, <2>1, <2>3
  <2>4. QED BY <1>3, <2>2, <2>3
<1>7. n + 1 \in 0..N
  <2>1. ASSUME NEW i \in 1..n + 1, NEW j \in 1..n + 1, longer[i] = longer[j]
        PROVE  i = j
    <3>1. longer[i] \in 1..N
      BY <1>4 DEF Player
    <3>2. ~LookedAtBefore(first, longer[i], longer[j])
      BY <1>3, <2>1, <3>1 DEF LookedAtBefore
    <3>3. ~LookedAtBefore(first, longer[j], longer[i])
      BY <1>3, <2>1, <3>1 DEF LookedAtBefore
    <3>4. ~(i < j) /\ ~(j < i)
      BY <1>6, <3>2, <3>3
    <3>5. QED BY <1>3, <3>4
  <2>2. longer \in [1..n + 1 -> 1..N]
    BY <1>4 DEF Player
  <2>3. ASSUME n + 1 > N PROVE FALSE
    <3>1. /\ IsFiniteSet(1..n + 1) /\ Cardinality(1..n + 1) = n + 1
          /\ IsFiniteSet(1..N) /\ Cardinality(1..N) = N
      BY <1>3, NAssumption, FS_Interval
    <3>2. Cardinality(1..N) < Cardinality(1..n + 1)
      BY <1>3, <2>3, <3>1
    <3>3. \E i, j \in 1..n + 1 : i # j /\ longer[i] = longer[j]
      BY <2>2, <3>1, <3>2, FS_PigeonHole
    <3>4. QED BY <2>1, <3>3
  <2>4. QED BY <1>3, <2>3
<1>8. longer \in LookOrders(S \cup {p}, first)
  BY <1>4, <1>5, <1>6, <1>7 DEF LookOrders
<1>9. QED BY <1>1, <1>3, <1>8 DEF longer

\* One more placement at the end of the order is one more at the end of the queue.
QueueGrows(queue, order, explosive, p, x, later) ==
  Append(queue \o Placements(order, explosive), [playerID |-> p, card |-> x])
    = queue \o Placements(Append(order, p), later)

LEMMA QueueExtends ==
  ASSUME NEW queue \in Seq(UnsafePlacement), NEW order \in Seq(Player), NEW p \in Player,
         NEW explosive, NEW later, NEW x \in Card,
         \A i \in 1..Len(order) :
            explosive[order[i]] \in Card /\ later[order[i]] = explosive[order[i]],
         later[p] = x
  PROVE  QueueGrows(queue, order, explosive, p, x, later)
<1> DEFINE placements == Placements(order, explosive)
           longer == Append(order, p)
           more == Placements(longer, later)
           last == [playerID |-> p, card |-> x]
           n == Len(order)
<1>1. /\ n \in Nat /\ order \in [1..n -> Player]
      /\ \A i \in 1..n : later[order[i]] = explosive[order[i]]
  OBVIOUS
<1>2. /\ DOMAIN longer = 1..n + 1
      /\ longer[n + 1] = p
      /\ \A i \in 1..n : longer[i] = order[i]
  BY <1>1
<1>3. /\ placements \in [1..n -> UnsafePlacement]
      /\ last \in UnsafePlacement
      /\ \A i \in 1..n : placements[i] = [playerID |-> order[i], card |-> explosive[order[i]]]
  BY <1>1 DEF UnsafePlacement, Placements
<1>4. placements \in Seq(UnsafePlacement) /\ Len(placements) = n
  BY <1>1, <1>3
<1> HIDE DEF longer, placements, n
<1>5. /\ DOMAIN more = 1..n + 1
      /\ more[n + 1] = last
      /\ \A i \in 1..n : more[i] = placements[i]
  <2>1. DOMAIN more = 1..n + 1
    BY <1>2 DEF Placements
  <2>2. \A i \in 1..n + 1 : more[i] = [playerID |-> longer[i], card |-> later[longer[i]]]
    BY <1>2 DEF Placements
  <2>3. \A i \in 1..n : i \in 1..n + 1
    BY <1>1
  <2>4. n + 1 \in 1..n + 1
    BY <1>1
  <2> HIDE DEF more
  <2>5. QED BY <1>1, <1>2, <1>3, <2>1, <2>2, <2>3, <2>4
<1> HIDE DEF more, last
<1>6. more \in Seq(UnsafePlacement) /\ Len(more) = n + 1
  <2>1. \A i \in 1..n + 1 : more[i] \in UnsafePlacement
    BY <1>1, <1>3, <1>5
  <2>2. more = [i \in 1..n + 1 |-> more[i]]
    BY <1>5 DEF more, Placements
  <2>3. more \in [1..n + 1 -> UnsafePlacement]
    BY <2>1, <2>2
  <2>4. QED BY <1>1, <2>3
<1>7. more = Append(placements, last)
  <2>1. /\ Append(placements, last) \in Seq(UnsafePlacement)
        /\ Len(Append(placements, last)) = n + 1
        /\ \A i \in 1..n : Append(placements, last)[i] = placements[i]
        /\ Append(placements, last)[n + 1] = last
    BY <1>3, <1>4, AppendProperties
  <2>2. \A i \in 1..n + 1 : more[i] = Append(placements, last)[i]
    BY <1>1, <1>5, <2>1
  <2>3. QED BY <1>6, <2>1, <2>2, SeqEqual
<1>8. Append(queue \o placements, last) = queue \o Append(placements, last)
  <2>1. <<last>> \in Seq(UnsafePlacement) /\ queue \o placements \in Seq(UnsafePlacement)
    BY <1>3, <1>4
  <2>2. Append(queue \o placements, last) = (queue \o placements) \o <<last>>
    BY <1>3, <2>1, AppendIsConcat
  <2>3. Append(placements, last) = placements \o <<last>>
    BY <1>3, <1>4, AppendIsConcat
  <2>4. (queue \o placements) \o <<last>> = queue \o (placements \o <<last>>)
    BY <1>4, <2>1, ConcatAssociative
  <2>5. QED BY <2>2, <2>3, <2>4
<1>9. QED BY <1>7, <1>8 DEF longer, placements, more, last, QueueGrows

\* Sweeping the marks of one hand after those of others is sweeping them all.
LEMMA MarksClearedTogether ==
  ASSUME NEW T, NEW p \in Player, NEW h,
         markedCards \in [Card -> Player \cup {NoPlayer}],
         state.markedCards = ClearMarks(T, state.hands),
         h[p] \subseteq state.hands[p],
         \A q \in Player \ {p} : h[q] = state.hands[q]
  PROVE  MarksCleared(p, h) = ClearMarks(T \cup {p}, h)
<1>1. \A c \in Card : state.markedCards[c] =
        IF markedCards[c] \in T /\ c \notin state.hands[markedCards[c]]
          THEN NoPlayer ELSE markedCards[c]
  BY DEF ClearMarks
<1>2. p # NoPlayer
  BY DEF Player, NoPlayer
<1>3. ASSUME NEW c \in Card
      PROVE  MarksCleared(p, h)[c] = ClearMarks(T \cup {p}, h)[c]
  <2>1. CASE markedCards[c] = p
    BY <1>1, <1>2, <2>1 DEF MarksCleared, ClearMarks
  <2>2. CASE markedCards[c] # p
    BY <1>1, <1>2, <2>2 DEF MarksCleared, ClearMarks, Player, NoPlayer
  <2>3. QED BY <2>1, <2>2
<1>4. QED BY <1>3 DEF MarksCleared, ClearMarks

\* What looking at one player does, whatever comes of it.
LEMMA LookingTyped ==
  ASSUME LoopInv, Looking, state' \in LoopState,
         ~returned => Resolved'
  PROVE  LoopInv'
<1> DEFINE ids == call.playerIDs
<1>1. ids \in Seq(Player)
  BY DEF LoopInv, Call
<1>2. at \in 1..Len(ids) /\ at' = at + 1 /\ seen' = seen \cup {ids[at]}
  BY <1>1 DEF Looking, Playing
<1>3. Len(ids) \in Nat /\ seen = {ids[i] : i \in 1..at - 1}
  BY <1>1 DEF LoopInv
<1> HIDE DEF ids
<1>4. /\ at' \in 1..Len(ids) + 1
      /\ seen' = {ids[i] : i \in 1..at' - 1}
  BY <1>2, <1>3
<1>5. call' = call /\ returned' = returned /\ UNCHANGED vars
  BY DEF Looking
<1>6. TypeOK <=> TypeOK'
  BY <1>5 DEF TypeOK, vars
<1>7. ~returned
  BY <1>1, <1>2 DEF LoopInv, ids
<1>8. QED BY <1>4, <1>5, <1>6, <1>7 DEF LoopInv, ids

\* The player at the place the loop has reached, and those seen so far.
LEMMA PlayingTyped ==
  ASSUME LoopInv, Looking
  PROVE  /\ Playing \in Player
         /\ seen \subseteq Player
         /\ call.hands \in [Player -> SUBSET Card]
         /\ state \in LoopState
         /\ Playing \notin seen =>
              \A q \in seen : LookedAtBefore(call.first, q, Playing)
<1> DEFINE ids == call.playerIDs
<1>1. /\ ids \in Seq(Player)
      /\ call.hands \in [Player -> SUBSET Card]
      /\ InLookOrder(ids, call.first)
      /\ seen = {ids[i] : i \in 1..at - 1}
      /\ at \in 1..Len(ids) + 1
      /\ state \in LoopState
  BY DEF LoopInv, Call
<1>2. at \in 1..Len(ids) /\ Len(ids) \in Nat /\ DOMAIN ids = 1..Len(ids) /\ Playing = ids[at]
  BY <1>1 DEF Looking, Playing
<1> HIDE DEF ids
<1>3. \A i \in 1..at - 1 : i \in 1..Len(ids) /\ i < at /\ ids[i] \in Player
  BY <1>1, <1>2
<1>4. Playing \notin seen => \A q \in seen : LookedAtBefore(call.first, q, Playing)
  BY <1>1, <1>2, <1>3 DEF InLookOrder
<1>5. QED BY <1>1, <1>2, <1>3, <1>4

\* As long as nothing is written and nobody else is found to be endangered,
\* what has been done stays as Engine says.
LEMMA StillResolved ==
  ASSUME Resolved, UNCHANGED <<state, call, vars>>,
         UnsafeAmong(seen)' = UnsafeAmong(seen)
  PROVE  Resolved'
<1>1. PICK shield \in [PlacingAmong(seen) -> Card], explosive \in [PlacingAmong(seen) -> Card],
           order \in LookOrders(PlacingAmong(seen), call.first) :
        ResolvedWith(shield, explosive, order)
  BY DEF Resolved
<1>2. PlacingAmong(seen)' = PlacingAmong(seen) /\ DyingAmong(seen)' = DyingAmong(seen)
  BY DEF PlacingAmong, DyingAmong
<1>3. UNCHANGED <<state, call, alive, unsafeExplosiveQueue>>
  BY DEF vars
<1>4. ResolvedWith(shield, explosive, order)'
  <2>1. ClearMarks(call.cleared \cup UnsafeAmong(seen), state.hands)'
          = ClearMarks(call.cleared \cup UnsafeAmong(seen), state.hands)
    BY DEF ClearMarks, vars
  <2>2. state'.hands =
          [q \in Player |->
             IF q \in DyingAmong(seen)' THEN {}
             ELSE IF q \in PlacingAmong(seen)' THEN call.hands[q] \ {shield[q], explosive[q]}
             ELSE call.hands[q]]
    BY <1>1, <1>2, <1>3 DEF ResolvedWith
  <2>3. state'.discardPile = call.discardPile \cup {shield[q] : q \in PlacingAmong(seen)'}
                               \cup UNION {call.hands[q] : q \in DyingAmong(seen)'}
    BY <1>1, <1>2, <1>3 DEF ResolvedWith
  <2>4. state'.markedCards = ClearMarks(call.cleared \cup UnsafeAmong(seen), state.hands)'
    BY <1>1, <1>3, <2>1 DEF ResolvedWith
  <2>5. /\ state'.alive = alive \ DyingAmong(seen)'
        /\ \A q \in PlacingAmong(seen)' :
              /\ shield[q] \in CardsByCode(call.hands[q], "SHIELD")
              /\ explosive[q] \in CardsByCode(call.hands[q], "EXPLOSIVE")
        /\ state'.unsafeExplosiveQueue = unsafeExplosiveQueue \o Placements(order, explosive)
    BY <1>1, <1>2, <1>3 DEF ResolvedWith
  <2>6. QED BY <1>3, <2>2, <2>3, <2>4, <2>5 DEF ResolvedWith
<1>5. QED BY <1>2, <1>3, <1>4 DEF Resolved

\* A player who is skipped changes nothing of what has been done.
LEMMA SkipResolved ==
  ASSUME LoopInv, ~returned, Skip
  PROVE  LoopInv'
<1>1. Looking /\ state' = state /\ state \in LoopState
  BY DEF Skip, LoopInv
<1>2. /\ UNCHANGED <<call, vars>>
      /\ seen' = seen \cup {Playing}
      /\ Playing \in Player
  BY <1>1, PlayingTyped DEF Looking
<1>3. PICK shield \in [PlacingAmong(seen) -> Card], explosive \in [PlacingAmong(seen) -> Card],
           order \in LookOrders(PlacingAmong(seen), call.first) :
        ResolvedWith(shield, explosive, order)
  BY DEF LoopInv, Resolved
<1>4. UnsafeAmong(seen \cup {Playing}) = UnsafeAmong(seen)
  <2>1. CASE Playing \in seen
    BY <2>1
  <2>2. CASE Playing \notin alive
    BY <2>2 DEF UnsafeAmong
  <2>3. CASE Playing \notin seen /\ Playing \in alive
    <3>1. Playing \notin UnsafeAmong(seen)
      BY <2>3 DEF UnsafeAmong
    <3>2. Playing \in state.alive /\ state.hands[Playing] = call.hands[Playing]
      BY <1>2, <1>3, <2>3, <3>1 DEF ResolvedWith, DyingAmong, PlacingAmong
    <3>3. ~Unsafe(call.hands[Playing])
      BY <2>3, <3>2 DEF Skip
    <3>4. QED BY <3>3 DEF UnsafeAmong
  <2>4. QED BY <2>1, <2>2, <2>3
<1>5. UnsafeAmong(seen)' = UnsafeAmong(seen)
  BY <1>2, <1>4 DEF UnsafeAmong, vars
<1>6. Resolved'
  BY <1>1, <1>2, <1>5, StillResolved DEF LoopInv
<1>7. QED BY <1>1, <1>6, LookingTyped

\* A player who is endangered joins those who have been.
LEMMA EndangeredJoin ==
  ASSUME LoopInv, ~returned, Endangered
  PROVE  /\ Playing \in Player \ seen
         /\ Playing \notin UnsafeAmong(seen)
         /\ state.hands[Playing] = call.hands[Playing]
         /\ UnsafeAmong(seen)' = UnsafeAmong(seen) \cup {Playing}
         /\ UNCHANGED <<call, vars>>
<1>1. PICK shield \in [PlacingAmong(seen) -> Card], explosive \in [PlacingAmong(seen) -> Card],
           order \in LookOrders(PlacingAmong(seen), call.first) :
        ResolvedWith(shield, explosive, order)
  BY DEF LoopInv, Resolved
<1>2. /\ Playing \in Player \ seen
      /\ Playing \in state.alive
      /\ Unsafe(state.hands[Playing])
      /\ seen' = seen \cup {Playing}
      /\ UNCHANGED <<call, vars>>
  BY PlayingTyped DEF Endangered, Looking
<1>3. Playing \notin UnsafeAmong(seen)
  BY <1>2 DEF UnsafeAmong
<1>4. Playing \in alive /\ state.hands[Playing] = call.hands[Playing]
  BY <1>1, <1>2, <1>3 DEF ResolvedWith, DyingAmong, PlacingAmong
<1>5. UnsafeAmong(seen)' = UnsafeAmong(seen) \cup {Playing}
  BY <1>2, <1>4 DEF UnsafeAmong, vars
<1>6. QED BY <1>2, <1>3, <1>4, <1>5

\* A player without a shield is out.
LEMMA EliminateResolved ==
  ASSUME LoopInv, ~returned, Eliminate
  PROVE  LoopInv'
<1> DEFINE p == Playing
           h == [state.hands EXCEPT ![p] = {}]
<1>1. /\ Endangered
      /\ ~Holds(state.hands[p], "SHIELD")
      /\ state' = [state EXCEPT !.hands = h,
                                !.alive = @ \ {p},
                                !.discardPile = @ \cup state.hands[p],
                                !.markedCards = MarksCleared(p, h)]
  BY DEF Eliminate
<1>2. /\ p \in Player \ seen /\ p \notin UnsafeAmong(seen)
      /\ state.hands[p] = call.hands[p]
      /\ UnsafeAmong(seen)' = UnsafeAmong(seen) \cup {p}
      /\ UNCHANGED <<call, vars>>
  BY <1>1, EndangeredJoin
<1>3. state \in LoopState /\ call.hands \in [Player -> SUBSET Card] /\ Looking
  BY <1>1, PlayingTyped DEF Endangered
<1>4. PICK shield \in [PlacingAmong(seen) -> Card], explosive \in [PlacingAmong(seen) -> Card],
           order \in LookOrders(PlacingAmong(seen), call.first) :
        ResolvedWith(shield, explosive, order)
  BY DEF LoopInv, Resolved
<1> HIDE DEF p
<1>5. /\ PlacingAmong(seen)' = PlacingAmong(seen)
      /\ DyingAmong(seen)' = DyingAmong(seen) \cup {p}
      /\ p \notin PlacingAmong(seen) \cup DyingAmong(seen)
  BY <1>1, <1>2 DEF PlacingAmong, DyingAmong
<1>6. /\ h \in [Player -> SUBSET Card]
      /\ h[p] = {}
      /\ \A q \in Player \ {p} : h[q] = state.hands[q]
  BY <1>2, <1>3 DEF LoopState
<1> HIDE DEF h
<1>7. MarksCleared(p, h) = ClearMarks(call.cleared \cup UnsafeAmong(seen) \cup {p}, h)
  <2>1. state.markedCards = ClearMarks(call.cleared \cup UnsafeAmong(seen), state.hands)
    BY <1>4 DEF ResolvedWith
  <2>2. markedCards \in [Card -> Player \cup {NoPlayer}]
    BY DEF LoopInv, TypeOK
  <2>3. QED BY <1>2, <1>6, <2>1, <2>2, MarksClearedTogether
<1>8. /\ state'.hands = h
      /\ state'.alive = state.alive \ {p}
      /\ state'.discardPile = state.discardPile \cup call.hands[p]
      /\ state'.markedCards = ClearMarks(call.cleared \cup UnsafeAmong(seen) \cup {p}, h)
      /\ state'.unsafeExplosiveQueue = state.unsafeExplosiveQueue
  BY <1>1, <1>2, <1>3, <1>7 DEF LoopState
<1>9. state' \in LoopState
  <2>1. MarksCleared(p, h) \in [Card -> Player \cup {NoPlayer}]
    BY <1>3 DEF MarksCleared, LoopState
  <2>2. QED BY <1>1, <1>3, <1>6, <1>2, <2>1 DEF LoopState
<1>10. ResolvedWith(shield, explosive, order)'
  <2>1. state'.hands =
          [q \in Player |->
             IF q \in DyingAmong(seen)' THEN {}
             ELSE IF q \in PlacingAmong(seen)' THEN call.hands[q] \ {shield[q], explosive[q]}
             ELSE call.hands[q]]
    BY <1>4, <1>5, <1>6, <1>8 DEF ResolvedWith
  <2>2. state'.discardPile = call.discardPile \cup {shield[q] : q \in PlacingAmong(seen)'}
                               \cup UNION {call.hands[q] : q \in DyingAmong(seen)'}
    BY <1>4, <1>5, <1>8 DEF ResolvedWith
  <2>3. state'.markedCards = ClearMarks(call.cleared \cup UnsafeAmong(seen), state.hands)'
    BY <1>2, <1>8 DEF ClearMarks, vars
  <2>4. state'.alive = alive \ DyingAmong(seen)'
    BY <1>4, <1>5, <1>8 DEF ResolvedWith
  <2>5. UNCHANGED <<call, alive, unsafeExplosiveQueue>>
    BY <1>2 DEF vars
  <2>6. QED BY <1>4, <1>5, <1>8, <2>1, <2>2, <2>3, <2>4, <2>5 DEF ResolvedWith
<1>11. Resolved'
  BY <1>2, <1>5, <1>10 DEF Resolved
<1>12. QED BY <1>3, <1>9, <1>11, LookingTyped

\* A player with a shield gives it for the explosive, which joins the queue.
LEMMA SaveResolved ==
  ASSUME LoopInv, ~returned, SaveByShield
  PROVE  LoopInv'
<1> DEFINE p == Playing
<1>1. Endangered
  BY DEF SaveByShield
<1>2. /\ p \in Player \ seen /\ p \notin UnsafeAmong(seen)
      /\ state.hands[p] = call.hands[p]
      /\ UnsafeAmong(seen)' = UnsafeAmong(seen) \cup {p}
      /\ UNCHANGED <<call, vars>>
  BY <1>1, EndangeredJoin
<1>3. /\ state \in LoopState /\ call.hands \in [Player -> SUBSET Card] /\ Looking
      /\ \A q \in seen : LookedAtBefore(call.first, q, p)
      /\ seen \subseteq Player
  BY <1>1, <1>2, PlayingTyped DEF Endangered
<1>4. PICK s \in CardsByCode(call.hands[p], "SHIELD"),
           x \in CardsByCode(call.hands[p], "EXPLOSIVE") :
        LET h == [state.hands EXCEPT ![p] = @ \ {s, x}] IN
        state' = [state EXCEPT
                    !.hands = h,
                    !.discardPile = @ \cup {s},
                    !.markedCards = MarksCleared(p, h),
                    !.unsafeExplosiveQueue = Append(@, [playerID |-> p, card |-> x])]
  BY <1>2 DEF SaveByShield
<1> DEFINE h == [state.hands EXCEPT ![p] = @ \ {s, x}]
<1>5. s \in Card /\ x \in Card
  BY <1>2, <1>3 DEF CardsByCode
<1>6. PICK shield \in [PlacingAmong(seen) -> Card], explosive \in [PlacingAmong(seen) -> Card],
           order \in LookOrders(PlacingAmong(seen), call.first) :
        ResolvedWith(shield, explosive, order)
  BY DEF LoopInv, Resolved
<1> HIDE DEF p
<1>7. /\ PlacingAmong(seen)' = PlacingAmong(seen) \cup {p}
      /\ DyingAmong(seen)' = DyingAmong(seen)
      /\ p \notin PlacingAmong(seen) \cup DyingAmong(seen)
      /\ PlacingAmong(seen) \subseteq seen
  BY <1>2, <1>4 DEF PlacingAmong, DyingAmong, Holds, UnsafeAmong
<1>8. /\ h \in [Player -> SUBSET Card]
      /\ h[p] = call.hands[p] \ {s, x}
      /\ \A q \in Player \ {p} : h[q] = state.hands[q]
  BY <1>2, <1>3 DEF LoopState
<1>9. state' = [state EXCEPT
                  !.hands = h,
                  !.discardPile = @ \cup {s},
                  !.markedCards = MarksCleared(p, h),
                  !.unsafeExplosiveQueue = Append(@, [playerID |-> p, card |-> x])]
  BY <1>4
<1> HIDE DEF h
<1>10. MarksCleared(p, h) = ClearMarks(call.cleared \cup UnsafeAmong(seen) \cup {p}, h)
  <2>1. state.markedCards = ClearMarks(call.cleared \cup UnsafeAmong(seen), state.hands)
    BY <1>6 DEF ResolvedWith
  <2>2. markedCards \in [Card -> Player \cup {NoPlayer}]
    BY DEF LoopInv, TypeOK
  <2>3. h[p] \subseteq state.hands[p]
    BY <1>2, <1>8
  <2>4. QED BY <1>2, <1>8, <2>1, <2>2, <2>3, MarksClearedTogether
<1>11. /\ state'.hands = h
       /\ state'.alive = state.alive
       /\ state'.discardPile = state.discardPile \cup {s}
       /\ state'.markedCards = MarksCleared(p, h)
       /\ state'.unsafeExplosiveQueue =
            Append(state.unsafeExplosiveQueue, [playerID |-> p, card |-> x])
  BY <1>3, <1>9 DEF LoopState
<1>12. state' \in LoopState
  <2>1. MarksCleared(p, h) \in [Card -> Player \cup {NoPlayer}]
    BY <1>3 DEF MarksCleared, LoopState
  <2>2. Append(state.unsafeExplosiveQueue, [playerID |-> p, card |-> x]) \in Seq(UnsafePlacement)
    BY <1>2, <1>3, <1>5 DEF LoopState, UnsafePlacement
  <2>3. state.discardPile \cup {s} \in SUBSET Card
    BY <1>3, <1>5 DEF LoopState
  <2>4. QED BY <1>3, <1>8, <1>9, <2>1, <2>2, <2>3 DEF LoopState
<1> DEFINE placing == PlacingAmong(seen)
<1>13. PICK shields \in [placing \cup {p} -> Card], explosives \in [placing \cup {p} -> Card] :
         /\ shields[p] = s /\ explosives[p] = x
         /\ \A q \in placing : shields[q] = shield[q] /\ explosives[q] = explosive[q]
  <2>1. p \notin placing
    BY <1>7
  <2> DEFINE shields == [q \in placing \cup {p} |-> IF q = p THEN s ELSE shield[q]]
             explosives == [q \in placing \cup {p} |-> IF q = p THEN x ELSE explosive[q]]
  <2>2. /\ shields \in [placing \cup {p} -> Card]
        /\ shields[p] = s
        /\ \A q \in placing : shields[q] = shield[q]
    BY <1>5, <2>1
  <2>3. /\ explosives \in [placing \cup {p} -> Card]
        /\ explosives[p] = x
        /\ \A q \in placing : explosives[q] = explosive[q]
    BY <1>5, <2>1
  <2> HIDE DEF placing, shields, explosives
  <2>4. QED BY <2>2, <2>3
<1>14. PICK longer \in LookOrders(placing \cup {p}, call.first) : longer = Append(order, p)
  BY <1>2, <1>3, <1>7, LookOrderExtends
<1>15. state'.unsafeExplosiveQueue = unsafeExplosiveQueue \o Placements(longer, explosives)
  <2>1. PICK n \in Nat : order \in [1..n -> placing]
    BY <1>2, <1>3, <1>7, LookOrderExtends
  <2>2. state.unsafeExplosiveQueue = unsafeExplosiveQueue \o Placements(order, explosive)
    BY <1>6 DEF ResolvedWith
  <2>3. unsafeExplosiveQueue \in Seq(UnsafePlacement) /\ placing \in SUBSET Player
    BY <1>3, <1>7 DEF LoopInv, TypeOK
  <2> HIDE DEF placing
  <2>4. QueueGrows(unsafeExplosiveQueue, order, explosive, p, x, explosives)
    <3>1. order \in Seq(Player) /\ DOMAIN order = 1..Len(order)
      BY <2>1, <2>3
    <3>2. /\ \A i \in 1..Len(order) :
                explosive[order[i]] \in Card /\ explosives[order[i]] = explosive[order[i]]
          /\ explosives[p] = x
          /\ p \in Player
      BY <1>2, <1>13, <2>1, <3>1 DEF placing
    <3>3. QED BY <1>5, <2>3, <3>1, <3>2, QueueExtends
  <2>5. QED BY <1>11, <1>14, <2>2, <2>4 DEF QueueGrows
<1>16. ResolvedWith(shields, explosives, longer)'
  <2>1. \A q \in PlacingAmong(seen)' :
           /\ shields[q] \in CardsByCode(call.hands[q], "SHIELD")
           /\ explosives[q] \in CardsByCode(call.hands[q], "EXPLOSIVE")
    BY <1>4, <1>6, <1>7, <1>13 DEF ResolvedWith
  <2>2. state'.hands =
          [q \in Player |->
             IF q \in DyingAmong(seen)' THEN {}
             ELSE IF q \in PlacingAmong(seen)' THEN call.hands[q] \ {shields[q], explosives[q]}
             ELSE call.hands[q]]
    BY <1>6, <1>7, <1>8, <1>11, <1>13 DEF ResolvedWith
  <2>3. state'.discardPile = call.discardPile \cup {shields[q] : q \in PlacingAmong(seen)'}
                               \cup UNION {call.hands[q] : q \in DyingAmong(seen)'}
    <3>1. {shields[q] : q \in PlacingAmong(seen)'} = {shield[q] : q \in placing} \cup {s}
      BY <1>7, <1>13
    <3>2. state.discardPile = call.discardPile \cup {shield[q] : q \in placing}
                                \cup UNION {call.hands[q] : q \in DyingAmong(seen)}
      BY <1>6 DEF ResolvedWith
    <3>3. QED BY <1>7, <1>11, <3>1, <3>2
  <2>4. state'.markedCards = ClearMarks(call.cleared \cup UnsafeAmong(seen), state.hands)'
    BY <1>2, <1>10, <1>11 DEF ClearMarks, vars
  <2>5. state'.alive = alive \ DyingAmong(seen)'
    BY <1>6, <1>7, <1>11 DEF ResolvedWith
  <2>6. UNCHANGED <<call, alive, unsafeExplosiveQueue>>
    BY <1>2 DEF vars
  <2>7. QED BY <1>15, <2>1, <2>2, <2>3, <2>4, <2>5, <2>6 DEF ResolvedWith
<1>17. Resolved'
  BY <1>2, <1>7, <1>13, <1>14, <1>16 DEF Resolved
<1>18. QED BY <1>3, <1>12, <1>17, LookingTyped

\* All have been looked at: what has been done is what Engine says.
LEMMA ReturnResolves ==
  ASSUME LoopInv, Return
  PROVE  ResolveUnsafeExplosivesFrom(call.original, IdsOf(call.playerIDs), call.first,
                                     call.hands, call.discardPile, call.cleared)
<1>1. seen = IdsOf(call.playerIDs)
  <2> DEFINE ids == call.playerIDs
  <2>1. /\ ids \in Seq(Player)
        /\ at \in 1..Len(ids) + 1
        /\ seen = {ids[i] : i \in 1..at - 1}
    BY DEF LoopInv, Call
  <2>2. at \notin DOMAIN ids
    BY DEF Return
  <2> HIDE DEF ids
  <2>3. at - 1 = Len(ids) /\ DOMAIN ids = 1..Len(ids)
    BY <2>1, <2>2
  <2>4. seen = IdsOf(ids)
    BY <2>1, <2>3 DEF IdsOf
  <2>5. QED BY <2>4 DEF ids
<1>2. PICK shield \in [PlacingAmong(seen) -> Card], explosive \in [PlacingAmong(seen) -> Card],
           order \in LookOrders(PlacingAmong(seen), call.first) :
        ResolvedWith(shield, explosive, order)
  BY DEF LoopInv, Resolved, Return
<1>3. /\ hands' = state.hands
      /\ alive' = state.alive
      /\ discardPile' = state.discardPile
      /\ markedCards' = state.markedCards
      /\ IF state.unsafeExplosiveQueue # <<>>
           THEN StartNextUnsafeExplosivePlacement(state.unsafeExplosiveQueue, call.original)
           ELSE FinishUnsafeExplosiveResolution(call.original, state.alive)
  BY DEF Return
<1> DEFINE queue == unsafeExplosiveQueue \o Placements(order, explosive)
<1>4. /\ \A p \in PlacingAmong(seen) :
           /\ shield[p] \in CardsByCode(call.hands[p], "SHIELD")
           /\ explosive[p] \in CardsByCode(call.hands[p], "EXPLOSIVE")
      /\ hands' =
           [p \in Player |->
              IF p \in DyingAmong(seen) THEN {}
              ELSE IF p \in PlacingAmong(seen) THEN call.hands[p] \ {shield[p], explosive[p]}
              ELSE call.hands[p]]
      /\ discardPile' = call.discardPile \cup {shield[p] : p \in PlacingAmong(seen)}
                          \cup UNION {call.hands[p] : p \in DyingAmong(seen)}
      /\ markedCards' = ClearMarks(call.cleared \cup UnsafeAmong(seen), hands')
      /\ alive' = alive \ DyingAmong(seen)
      /\ IF queue # <<>>
           THEN StartNextUnsafeExplosivePlacement(queue, call.original)
           ELSE FinishUnsafeExplosiveResolution(call.original, alive \ DyingAmong(seen))
  BY <1>2, <1>3 DEF ResolvedWith
<1>5. QED
  BY <1>1, <1>4, Zenon
    DEF ResolveUnsafeExplosivesFrom, UnsafeAmong, PlacingAmong, DyingAmong, Placements

\* The loop keeps its invariant.
LEMMA LoopInvariant == LoopSpec => []LoopInv
<1>1. LoopInit => LoopInv
  <2> SUFFICES ASSUME LoopInit PROVE LoopInv
    OBVIOUS
  <2>1. /\ call \in Call /\ call.playerIDs \in Seq(Player)
        /\ call.hands \in [Player -> SUBSET Card]
        /\ call.discardPile \in SUBSET Card
    BY DEF LoopInit, Call
  <2>2. state \in LoopState
    <3>1. ClearMarks(call.cleared, call.hands) \in [Card -> Player \cup {NoPlayer}]
      BY DEF ClearMarks, LoopInit, TypeOK
    <3>2. QED BY <2>1, <3>1 DEF LoopInit, LoopState, TypeOK
  <2>3. at \in 1..Len(call.playerIDs) + 1 /\ seen = {call.playerIDs[i] : i \in 1..at - 1}
    <3>1. Len(call.playerIDs) \in Nat
      BY <2>1
    <3>2. QED BY <3>1 DEF LoopInit
  <2>4. /\ UnsafeAmong(seen) = {} /\ PlacingAmong(seen) = {} /\ DyingAmong(seen) = {}
    BY DEF LoopInit, UnsafeAmong, PlacingAmong, DyingAmong
  <2>5. <<>> \in LookOrders({}, call.first)
    BY NAssumption DEF LookOrders
  <2>6. ResolvedWith(<<>>, <<>>, <<>>)
    <3>1. Placements(<<>>, <<>>) = <<>>
      BY DEF Placements
    <3>2. unsafeExplosiveQueue \o <<>> = unsafeExplosiveQueue
      BY DEF LoopInit, TypeOK
    <3>3. state.hands = call.hands /\ call.hands = [p \in Player |-> call.hands[p]]
      BY <2>1 DEF LoopInit
    <3>4. QED BY <2>4, <3>1, <3>2, <3>3 DEF ResolvedWith, LoopInit
  <2>7. <<>> \in [PlacingAmong(seen) -> Card]
    BY <2>4
  <2>8. Resolved
    BY <2>4, <2>5, <2>6, <2>7 DEF Resolved
  <2>9. QED BY <2>1, <2>2, <2>3, <2>8 DEF LoopInv, LoopInit
<1>2. LoopInv /\ [LoopNext]_<<vars, loopVars>> => LoopInv'
  <2> SUFFICES ASSUME LoopInv, [LoopNext]_<<vars, loopVars>> PROVE LoopInv'
    OBVIOUS
  <2>1. CASE Looking /\ returned
    BY <2>1 DEF Looking, LoopInv
  <2>2. CASE Skip /\ ~returned
    BY <2>2, SkipResolved
  <2>3. CASE Eliminate /\ ~returned
    BY <2>3, EliminateResolved
  <2>4. CASE SaveByShield /\ ~returned
    BY <2>4, SaveResolved
  <2>5. CASE Return
    BY <2>5 DEF Return, LoopInv
  <2>6. CASE UNCHANGED <<vars, loopVars>>
    <3>1. UNCHANGED <<call, at, seen, state, returned>> /\ (TypeOK <=> TypeOK')
      BY <2>6 DEF loopVars, vars, TypeOK
    <3>2. Resolved => Resolved'
      BY <2>6, <3>1, StillResolved DEF loopVars, vars, UnsafeAmong
    <3>3. QED BY <3>1, <3>2 DEF LoopInv
  <2>7. QED BY <2>1, <2>2, <2>3, <2>4, <2>5, <2>6
    DEF LoopNext, Skip, Eliminate, SaveByShield, Endangered
<1>3. QED BY <1>1, <1>2, PTL DEF LoopSpec

\* Whatever the hands, the piles, the marks and the players named, the loop of
\* resolveUnsafeExplosivesFrom does to the game exactly what Engine has in one
\* step: no player's fate depends on that of the players before.
THEOREM LoopResolvesInOneStep == LoopSpec => ResolvesInOneStep
<1>1. LoopInv /\ [LoopNext]_<<vars, loopVars>> =>
        [ResolveUnsafeExplosivesFrom(call.original, IdsOf(call.playerIDs), call.first,
                                     call.hands, call.discardPile, call.cleared)]_vars
  BY ReturnResolves DEF LoopNext, Skip, Eliminate, SaveByShield, Endangered, Looking
<1>2. QED BY <1>1, LoopInvariant, PTL DEF LoopSpec, ResolvesInOneStep

----------------------------------------------------------------------------
(* The search of nextAlivePlayerID.                                        *)

\* Going on beyond the last seat is beginning again with the first.
LEMMA RoundTheTable ==
  ASSUME NEW a \in Nat, a < 2 * N
  PROVE  a % N = IF a < N THEN a ELSE a - N
<1>1. N \in Nat /\ N > 0
  BY NAssumption
<1>2. /\ a % N \in 0..N - 1
      /\ a \div N \in Int
      /\ a = (N * (a \div N)) + (a % N)
  BY <1>1
<1> DEFINE q == a \div N
           r == a % N
<1> HIDE DEF q, r
<1>3. q \in Int /\ r \in 0..N - 1 /\ a = (N * q) + r
  BY <1>2 DEF q, r
<1>4. q = 0 \/ q = 1
  <2>1. q < 2
    <3>1. ASSUME q >= 2 PROVE FALSE
      <4>1. N * q >= N * 2
        BY <1>1, <1>3, <3>1
      <4>2. QED BY <1>1, <1>3, <4>1
    <3>2. QED BY <1>3, <3>1
  <2>2. q >= 0
    <3>1. ASSUME q <= -1 PROVE FALSE
      <4>1. N * q <= N * (-1)
        BY <1>1, <1>3, <3>1
      <4>2. QED BY <1>1, <1>3, <4>1
    <3>2. QED BY <1>3, <3>1
  <2>3. QED BY <1>3, <2>1, <2>2
<1>5. CASE q = 0
  BY <1>1, <1>3, <1>5 DEF r
<1>6. CASE q = 1
  BY <1>1, <1>3, <1>6 DEF r
<1>7. QED BY <1>4, <1>5, <1>6

\* The seat the search has reached is the one step seats on.
LEMMA SeatReachedIsStepsOn ==
  ASSUME SearchInv, Searching
  PROVE  /\ SeatReached \in Player
         /\ SeatsTo(fromPlayerID, SeatReached) = step
         /\ \A r \in Player : SeatsTo(fromPlayerID, r) = step => r = SeatReached
<1>1. /\ N \in Nat /\ N > 0
      /\ fromPlayerID \in 1..N
      /\ step \in 1..N
  BY NAssumption DEF SearchInv, Searching, Player
<1>2. SeatReached = IF fromPlayerID + step <= N THEN fromPlayerID + step
                    ELSE fromPlayerID + step - N
  <2> DEFINE a == (fromPlayerID - 1) + step
  <2>1. a \in Nat /\ a < 2 * N
    BY <1>1
  <2>2. SeatReached = (a % N) + 1
    BY DEF SeatReached
  <2> HIDE DEF a
  <2>3. a % N = IF a < N THEN a ELSE a - N
    BY <2>1, RoundTheTable
  <2>4. QED BY <1>1, <2>2, <2>3 DEF a
<1>3. QED BY <1>1, <1>2 DEF SeatsTo, Player

\* Whatever the number of players and whoever is alive, the search finds the
\* next player alive, and fails only when there is none.
THEOREM SearchCorrect == SearchSpec => []SearchFindsNextAlive
<1>1. SearchInit => SearchInv
  <2> SUFFICES ASSUME SearchInit PROVE SearchInv
    OBVIOUS
  <2>1. \A r \in livingThen : SeatsTo(fromPlayerID, r) >= 1
    BY NAssumption DEF SearchInit, SeatsTo, Player
  <2>2. QED BY <2>1, NAssumption DEF SearchInit, SearchInv, NoPlayer
<1>2. SearchInv /\ [PassSeat \/ FindSeat]_searchVars => SearchInv'
  <2> SUFFICES ASSUME SearchInv, [PassSeat \/ FindSeat]_searchVars PROVE SearchInv'
    OBVIOUS
  <2>1. CASE PassSeat
    <3>1. ASSUME NEW r \in livingThen PROVE SeatsTo(fromPlayerID, r) >= step + 1
      <4>1. /\ r \in 1..N /\ fromPlayerID \in 1..N /\ N \in Nat /\ step \in 1..N
            /\ SeatsTo(fromPlayerID, r) >= step
            /\ SeatsTo(fromPlayerID, r) # step
        BY <2>1, <3>1, SeatReachedIsStepsOn, NAssumption
          DEF PassSeat, Searching, SearchInv, Player
      <4>2. SeatsTo(fromPlayerID, r) \in Int
        BY <4>1 DEF SeatsTo
      <4>3. QED BY <4>1, <4>2
    <3>2. step + 1 \in 1..N + 1
      BY <2>1, NAssumption DEF PassSeat, Searching, SearchInv
    <3>3. QED BY <2>1, <3>1, <3>2 DEF PassSeat, Searching, SearchInv, SeatsTo
  <2>2. CASE FindSeat
    BY <2>2, SeatReachedIsStepsOn DEF FindSeat, Searching, SearchInv, SeatsTo
  <2>3. CASE UNCHANGED searchVars
    BY <2>3 DEF searchVars, SearchInv, SeatsTo
  <2>4. QED BY <2>1, <2>2, <2>3
<1>3. SearchInv => SearchFindsNextAlive
  <2> SUFFICES ASSUME SearchInv PROVE SearchFindsNextAlive
    OBVIOUS
  <2>1. ASSUME ~Searching, found = NoPlayer, NEW r \in livingThen PROVE FALSE
    BY <2>1, NAssumption DEF SearchInv, Searching, SeatsTo, Player
  <2>2. QED BY <2>1 DEF SearchInv, SearchFindsNextAlive, IsNextAlive
<1>4. QED BY <1>1, <1>2, <1>3, PTL DEF SearchSpec

----------------------------------------------------------------------------
(* The loops of validMatchingCombo and validFiveDifferentCombo.            *)

\* The codes gone over are among those of the cards, with the code that comes
\* next they are those one card on, and in the end they are all of them.
LEMMA CodesGoneOver ==
  ASSUME combo \in Combo, place \in 1..Len(combo) + 1
  PROVE  /\ CodesBefore \subseteq {Code[c] : c \in CardsOf(combo)}
         /\ CodesBefore \subseteq CardCode
         /\ place \in DOMAIN combo =>
              /\ place \in 1..Len(combo)
              /\ combo[place] \in CardsOf(combo)
              /\ Here \in CardCode
              /\ {Code[combo[i]] : i \in 1..(place + 1) - 1} = CodesBefore \cup {Here}
         /\ place \notin DOMAIN combo =>
              /\ place = Len(combo) + 1
              /\ CodesBefore = {Code[c] : c \in CardsOf(combo)}
<1>1. /\ combo \in Seq(Card) /\ Len(combo) \in Nat /\ DOMAIN combo = 1..Len(combo)
      /\ \A i \in 1..Len(combo) : combo[i] \in Card /\ combo[i] \in CardsOf(combo)
  BY DEF Combo, CardsOf
<1>2. \A i \in 1..place - 1 : i \in 1..Len(combo)
  BY <1>1
<1>3. \A i \in 1..Len(combo) : Code[combo[i]] \in CardCode
  BY <1>1, CardAssumption
<1>4. /\ CodesBefore \subseteq {Code[c] : c \in CardsOf(combo)}
      /\ CodesBefore \subseteq CardCode
  BY <1>1, <1>2, <1>3 DEF CodesBefore
<1>5. ASSUME place \in DOMAIN combo
      PROVE  /\ place \in 1..Len(combo)
             /\ combo[place] \in CardsOf(combo)
             /\ Here \in CardCode
             /\ {Code[combo[i]] : i \in 1..(place + 1) - 1} = CodesBefore \cup {Here}
  <2>1. \A i : i \in 1..(place + 1) - 1 <=> i \in 1..place - 1 \/ i = place
    BY <1>1, <1>5
  <2>2. {Code[combo[i]] : i \in 1..(place + 1) - 1} = CodesBefore \cup {Here}
    BY <2>1 DEF CodesBefore, Here
  <2>3. QED BY <1>1, <1>3, <1>5, <2>2 DEF Here
<1>6. ASSUME place \notin DOMAIN combo
      PROVE  /\ place = Len(combo) + 1
             /\ CodesBefore = {Code[c] : c \in CardsOf(combo)}
  <2>1. place = Len(combo) + 1 /\ 1..place - 1 = DOMAIN combo
    BY <1>1, <1>6
  <2>2. QED BY <2>1 DEF CodesBefore, CardsOf
<1>7. QED BY <1>4, <1>5, <1>6

\* A card that is passed extends the codes gone over.
LEMMA GoneOn ==
  ASSUME combo \in Combo, place \in 1..Len(combo) + 1, place \in DOMAIN combo,
         combo' = combo, place' = place + 1
  PROVE  /\ CodesBefore' = CodesBefore \cup {Here}
         /\ place' \in 1..Len(combo) + 1
<1>1. /\ {Code[combo[i]] : i \in 1..(place + 1) - 1} = CodesBefore \cup {Here}
      /\ place \in 1..Len(combo)
  BY CodesGoneOver
<1>2. CodesBefore' = CodesBefore \cup {Here}
  BY <1>1 DEF CodesBefore
<1>3. Len(combo) \in Nat
  BY DEF Combo
<1>4. QED BY <1>1, <1>2, <1>3

\* The loop of validMatchingCombo accepts exactly what Cards says, in whatever
\* order the cards are named.
THEOREM MatchingCorrect == MatchSpec => []MatchingDecided
<1>1. MatchInit => MatchInv
  <2> SUFFICES ASSUME MatchInit PROVE MatchInv
    OBVIOUS
  <2>1. Len(combo) \in Nat /\ place \in 1..Len(combo) + 1
    BY DEF MatchInit, Combo
  <2>2. CodesBefore = {}
    BY DEF MatchInit, CodesBefore
  <2>3. QED BY <2>1, <2>2 DEF MatchInit, MatchInv, MatchingDecided
<1>2. MatchInv /\ [MatchNext]_matchVars => MatchInv'
  <2> SUFFICES ASSUME MatchInv, [MatchNext]_matchVars PROVE MatchInv'
    OBVIOUS
  <2> DEFINE codes == {Code[c] : c \in CardsOf(combo)}
  <2>1. combo \in Combo /\ place \in 1..Len(combo) + 1
    BY DEF MatchInv
  <2>2. ASSUME Matching
        PROVE  /\ Len(combo) \in {2, 3}
               /\ "EXPLOSIVE" \notin CodesBefore
               /\ CodesBefore \ {"WILD_TOKEN"} = IF reference = NoCode THEN {} ELSE {reference}
               /\ seenRealToken <=> CodesBefore \cap Tokens # {}
               /\ usesTokenRules <=> CodesBefore \cap (Tokens \cup {"WILD_TOKEN"}) # {}
               /\ CodesBefore \cup {Here} \subseteq codes
               /\ Here \in CardCode
    <3>1. place \in DOMAIN combo
      BY <2>2 DEF Matching
    <3>2. CodesBefore \subseteq codes /\ combo[place] \in CardsOf(combo) /\ Here \in CardCode
      BY <2>1, <3>1, CodesGoneOver
    <3>3. QED BY <2>2, <3>2 DEF MatchInv, Matching, Here
  <2>3. NoCode \notin CardCode /\ NoCode \notin Tokens
    BY DEF NoCode, CardCode, Actions, SupportedBasicActions, Tokens
  <2>4. CASE MatchRefused
    <3>1. Matching
      BY <2>4 DEF MatchRefused
    <3>2. ~ValidMatchingCombo(CardsOf(combo))
      <4> SUFFICES ASSUME ValidMatchingCombo(CardsOf(combo)) PROVE FALSE
        OBVIOUS
      <4>1. "EXPLOSIVE" \notin codes
        BY DEF ValidMatchingCombo
      <4>2. Here # "EXPLOSIVE"
        BY <2>2, <3>1, <4>1
      <4>3. ASSUME Here \in Tokens, reference \notin {NoCode, Here} PROVE FALSE
        BY <2>2, <3>1, <4>3 DEF ValidMatchingCombo, Tokens
      <4>4. ASSUME Here \notin Tokens \cup {"EXPLOSIVE", "WILD_TOKEN"},
                   usesTokenRules \/ reference \notin {NoCode, Here}
            PROVE  FALSE
        BY <2>2, <3>1, <4>4 DEF ValidMatchingCombo
      <4>5. QED BY <2>4, <4>2, <4>3, <4>4 DEF MatchRefused
    <3>3. QED BY <2>1, <2>4, <3>1, <3>2
            DEF MatchRefused, Matching, Decide, MatchInv, MatchingDecided
  <2>5. CASE MatchToken \/ MatchWildToken \/ MatchOther
    <3>1. Matching /\ place \in DOMAIN combo /\ combo' = combo /\ place' = place + 1 /\ ~over
      BY <2>5 DEF MatchToken, MatchWildToken, MatchOther, Matching
    <3>2. CodesBefore' = CodesBefore \cup {Here} /\ place' \in 1..Len(combo) + 1
      BY <2>1, <3>1, GoneOn
    <3>3. ~over' /\ valid' = valid
      BY <2>5, <3>1 DEF MatchToken, MatchWildToken, MatchOther
    <3>4. CASE MatchToken
      <4>1. /\ Here \in Tokens /\ reference \in {NoCode, Here}
            /\ usesTokenRules' /\ seenRealToken' /\ reference' = Here
        BY <3>4 DEF MatchToken
      <4>2. Here # "EXPLOSIVE" /\ Here # "WILD_TOKEN" /\ Here # NoCode
        BY <4>1 DEF Tokens, NoCode
      <4>3. (CodesBefore \cup {Here}) \ {"WILD_TOKEN"} = {Here}
        BY <2>2, <3>1, <4>1, <4>2
      <4>4. QED BY <2>1, <2>2, <3>1, <3>2, <3>3, <4>1, <4>2, <4>3
              DEF MatchInv, MatchingDecided
    <3>5. CASE MatchWildToken
      <4>1. /\ Here = "WILD_TOKEN" /\ usesTokenRules'
            /\ seenRealToken' = seenRealToken /\ reference' = reference
        BY <3>5 DEF MatchWildToken
      <4>2. "WILD_TOKEN" \notin Tokens
        BY DEF Tokens
      <4>3. (CodesBefore \cup {Here}) \ {"WILD_TOKEN"} = CodesBefore \ {"WILD_TOKEN"}
        BY <4>1
      <4>4. (CodesBefore \cup {Here}) \cap Tokens = CodesBefore \cap Tokens
        BY <4>1, <4>2
      <4>5. QED BY <2>1, <2>2, <3>1, <3>2, <3>3, <4>1, <4>3, <4>4
              DEF MatchInv, MatchingDecided
    <3>6. CASE MatchOther
      <4>1. /\ Here \notin Tokens \cup {"EXPLOSIVE", "WILD_TOKEN"}
            /\ ~usesTokenRules /\ reference \in {NoCode, Here} /\ reference' = Here
            /\ UNCHANGED <<seenRealToken, usesTokenRules>>
        BY <3>6 DEF MatchOther
      <4>2. Here # NoCode
        BY <2>2, <2>3, <3>1
      <4>3. (CodesBefore \cup {Here}) \ {"WILD_TOKEN"} = {Here}
        BY <2>2, <3>1, <4>1
      <4>4. /\ (CodesBefore \cup {Here}) \cap Tokens = CodesBefore \cap Tokens
            /\ (CodesBefore \cup {Here}) \cap (Tokens \cup {"WILD_TOKEN"})
                 = CodesBefore \cap (Tokens \cup {"WILD_TOKEN"})
        BY <4>1
      <4>5. QED BY <2>1, <2>2, <3>1, <3>2, <3>3, <4>1, <4>2, <4>3, <4>4
              DEF MatchInv, MatchingDecided
    <3>7. QED BY <2>5, <3>4, <3>5, <3>6
  <2>6. CASE MatchEnd
    <3>1. ~over /\ place \notin DOMAIN combo /\ combo' = combo
          /\ over' /\ valid' = (IF usesTokenRules THEN seenRealToken ELSE reference # NoCode)
      BY <2>6 DEF MatchEnd, Decide
    <3>2. CodesBefore = codes
      BY <2>1, <3>1, CodesGoneOver
    <3>3. /\ Len(combo) \in {2, 3}
          /\ "EXPLOSIVE" \notin codes
          /\ codes \ {"WILD_TOKEN"} = IF reference = NoCode THEN {} ELSE {reference}
          /\ seenRealToken <=> codes \cap Tokens # {}
          /\ usesTokenRules <=> codes \cap (Tokens \cup {"WILD_TOKEN"}) # {}
      BY <3>1, <3>2 DEF MatchInv
    <3>4. (IF usesTokenRules THEN seenRealToken ELSE reference # NoCode)
            <=> \/ \E k \in codes \ {"WILD_TOKEN"} : codes = {k}
                \/ \E k \in codes \cap Tokens : codes = {k, "WILD_TOKEN"}
      <4>1. CASE reference = NoCode
        BY <3>3, <4>1 DEF Tokens
      <4>2. CASE reference # NoCode
        <5>1. reference \in codes \ {"WILD_TOKEN"}
          BY <3>3, <4>2
        <5>2. codes = {reference} \/ codes = {reference, "WILD_TOKEN"}
          BY <3>3, <4>2
        <5>3. CASE codes = {reference}
          BY <3>3, <4>2, <5>1, <5>3
        <5>4. CASE codes = {reference, "WILD_TOKEN"}
          BY <3>3, <4>2, <5>1, <5>4 DEF Tokens
        <5>5. QED BY <5>2, <5>3, <5>4
      <4>3. QED BY <4>1, <4>2
    <3>5. ValidMatchingCombo(CardsOf(combo)) <=> valid'
      BY <3>1, <3>3, <3>4 DEF ValidMatchingCombo
    <3>6. QED BY <2>1, <2>6, <3>1, <3>3, <3>5 DEF MatchEnd, MatchInv, MatchingDecided
  <2>7. CASE UNCHANGED matchVars
    BY <2>7 DEF matchVars, MatchInv, MatchingDecided, CodesBefore
  <2>8. QED BY <2>4, <2>5, <2>6, <2>7 DEF MatchNext
<1>3. MatchInv => MatchingDecided
  BY DEF MatchInv
<1>4. QED BY <1>1, <1>2, <1>3, PTL DEF MatchSpec

\* The loop of validFiveDifferentCombo accepts exactly what Cards says.
THEOREM FiveDifferentCorrect == FiveSpec => []FiveDecided
<1>1. FiveInit => FiveInv
  <2> SUFFICES ASSUME FiveInit PROVE FiveInv
    OBVIOUS
  <2>1. Len(combo) \in Nat /\ place \in 1..Len(combo) + 1
    BY DEF FiveInit, Combo
  <2>2. CodesBefore = {} /\ 1..place - 1 = {}
    BY DEF FiveInit, CodesBefore
  <2>3. QED BY <2>1, <2>2 DEF FiveInit, FiveInv, FiveDecided
<1>2. FiveInv /\ [FiveRefused \/ FiveNextCard \/ FiveEnd]_fiveVars => FiveInv'
  <2> SUFFICES ASSUME FiveInv, [FiveRefused \/ FiveNextCard \/ FiveEnd]_fiveVars
               PROVE  FiveInv'
    OBVIOUS
  <2>1. /\ combo \in Combo /\ place \in 1..Len(combo) + 1
        /\ combo \in Seq(Card) /\ Len(combo) \in Nat /\ DOMAIN combo = 1..Len(combo)
        /\ \A i, j \in 1..Len(combo) : combo[i] = combo[j] => i = j
    BY DEF FiveInv, Combo
  <2>2. CASE FiveRefused
    <3>1. /\ ~over /\ place \in 1..Len(combo) /\ Here \in codesSeen \cup {"EXPLOSIVE_HOLDER"}
          /\ over' /\ valid' = FALSE /\ UNCHANGED <<combo, inHand, place>>
      BY <2>1, <2>2 DEF FiveRefused, Decide
    <3>2. ~ValidFiveDifferentCombo(inHand, CardsOf(combo))
      <4>1. CASE Here = "EXPLOSIVE_HOLDER"
        BY <2>1, <3>1, <4>1
          DEF ValidFiveDifferentCombo, Holds, CardsByCode, CardsOf, Here
      <4>2. CASE Here \in codesSeen
        <5>1. PICK i \in 1..place - 1 : Code[combo[i]] = Code[combo[place]]
          BY <3>1, <4>2 DEF FiveInv, CodesBefore, Here
        <5>2. i \in 1..Len(combo) /\ i # place
          BY <2>1, <3>1, <5>1
        <5>3. combo[i] # combo[place]
          BY <2>1, <3>1, <5>2
        <5>4. combo[i] \in CardsOf(combo) /\ combo[place] \in CardsOf(combo)
          BY <2>1, <3>1, <5>2 DEF CardsOf
        <5>5. QED BY <5>1, <5>3, <5>4 DEF ValidFiveDifferentCombo
      <4>3. QED BY <3>1, <4>1, <4>2
    <3>3. QED BY <2>1, <3>1, <3>2 DEF FiveInv, FiveDecided
  <2>3. CASE FiveNextCard
    <3>1. /\ ~over /\ place \in DOMAIN combo /\ place \in 1..Len(combo)
          /\ Here \notin codesSeen /\ Here # "EXPLOSIVE_HOLDER"
          /\ codesSeen' = codesSeen \cup {Here}
          /\ includesExplosive' = (includesExplosive \/ Here = "EXPLOSIVE")
          /\ place' = place + 1
          /\ UNCHANGED <<combo, inHand, over, valid>>
      BY <2>1, <2>3 DEF FiveNextCard
    <3>2. CodesBefore' = CodesBefore \cup {Here} /\ place' \in 1..Len(combo) + 1
      BY <2>1, <3>1, GoneOn
    <3>3. ASSUME NEW i \in 1..place' - 1, NEW j \in 1..place' - 1,
                 Code[combo[i]] = Code[combo[j]]
          PROVE  i = j
      <4>1. \A k \in 1..place' - 1 : k \in 1..place - 1 \/ k = place
        BY <2>1, <3>1
      <4>2. \A k \in 1..place - 1 : Code[combo[k]] # Code[combo[place]]
        BY <3>1 DEF FiveInv, CodesBefore, Here
      <4>3. QED BY <3>1, <3>3, <4>1, <4>2 DEF FiveInv
    <3>4. /\ Len(combo) = 5
          /\ codesSeen' = CodesBefore'
          /\ "EXPLOSIVE_HOLDER" \notin codesSeen'
          /\ includesExplosive' <=> "EXPLOSIVE" \in codesSeen'
      BY <3>1, <3>2 DEF FiveInv
    <3>5. inHand \in SUBSET Card
      BY DEF FiveInv
    <3>6. QED BY <2>1, <3>1, <3>2, <3>3, <3>4, <3>5 DEF FiveInv, FiveDecided
  <2>4. CASE FiveEnd
    <3>1. /\ ~over /\ place \notin DOMAIN combo /\ over'
          /\ valid' = (includesExplosive => Holds(inHand, "EXPLOSIVE_HOLDER"))
          /\ UNCHANGED <<combo, inHand, place, codesSeen, includesExplosive>>
      BY <2>4 DEF FiveEnd, Decide
    <3>2. /\ place = Len(combo) + 1
          /\ codesSeen = {Code[c] : c \in CardsOf(combo)}
      BY <2>1, <3>1, CodesGoneOver DEF FiveInv
    <3>3. \A c, d \in CardsOf(combo) : Code[c] = Code[d] => c = d
      <4>1. 1..place - 1 = 1..Len(combo)
        BY <2>1, <3>2
      <4>2. \A i, j \in 1..Len(combo) : Code[combo[i]] = Code[combo[j]] => i = j
        BY <3>1, <4>1 DEF FiveInv
      <4>3. QED BY <2>1, <4>2 DEF CardsOf
    <3>4. ~Holds(CardsOf(combo), "EXPLOSIVE_HOLDER")
      BY <3>1, <3>2 DEF FiveInv, Holds, CardsByCode
    <3>5. Holds(CardsOf(combo), "EXPLOSIVE") <=> includesExplosive
      BY <3>1, <3>2 DEF FiveInv, Holds, CardsByCode
    <3>6. ValidFiveDifferentCombo(inHand, CardsOf(combo)) <=> valid'
      BY <3>1, <3>3, <3>4, <3>5 DEF ValidFiveDifferentCombo
    <3>7. QED BY <2>1, <3>1, <3>6 DEF FiveInv, FiveDecided
  <2>5. CASE UNCHANGED fiveVars
    BY <2>5 DEF fiveVars, FiveInv, FiveDecided, CodesBefore
  <2>6. QED BY <2>2, <2>3, <2>4, <2>5
<1>3. FiveInv => FiveDecided
  BY DEF FiveInv
<1>4. QED BY <1>1, <1>2, <1>3, PTL DEF FiveSpec
=============================================================================
