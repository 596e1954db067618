# TLA+ models of the blast card game backend

The backend (`src/`, Go) runs rooms of two to ten players who play a card game
of exploding cards: draw a card to end your turn, survive an explosive with a
shield, use action cards and combinations of cards against the others, and
cancel what they play. This directory holds TLA+ models of its core, the TLC
configurations that check them and TLAPS proofs about them.

## 1. The system

| part | source | state | operations |
|---|---|---|---|
| **game engine** | `internal/game/engine.go`, `state.go`, `card.go`, `phase.go` | one `GameState`: phase, hands, who is alive, draw and discard pile, current player, turn debt, pending action, marked cards, queue of explosives to place, winner | `DrawCard`, `PlayCard`, `PlayCombo`, `PlayCancel`, `ExpireCancelWindow`, `PlaceExplosive`, `ChooseCardForRequest`, `ChooseMarkedCard`, `SubmitReorderedTopCards`, `ChooseCardForRecycle`, `ChooseCardFromDiscard` |
| **deck factory** | `internal/game/deck.go` | three deck profiles, for 2-3, 4-7 and 8-10 players | `NewSetup` (deal), `Shuffle` |
| **room** | `internal/room/room.go` | members, join order, host, readiness, kick vote, the game, its event log | join, leave, ready, transfer of the host, start of the game, kick votes, and every command of the engine |
| **room manager** | `internal/room/manager.go` | the map from codes to rooms | `CreateRoom`, `JoinRoom`, `LeaveRoom`, `GetRoom`, and each command of a room |
| **cancel window timer** | `internal/transport/websocket.go` 516-533 | one `time.AfterFunc` per window | ends a cancel window 5.1 s after it opened, and broadcasts what came of it |
| **transport hub** | `internal/transport/websocket.go` | connections by room and player | register, attach, detach, dispatch, broadcast of events and views |
| **views** | `internal/game/view.go`, `event.go` | none | what one player may see and do |
| **formats, errors, server process** | `command.go`, `messages.go`, `errors.go`, `cmd/server` | none | JSON, HTTP, start and stop |

A client's message reaches the hub on the goroutine of its connection, which
calls the manager, which finds the room, which takes its own lock and calls the
engine. After the command the hub broadcasts the new events and a view for each
player, and arms a timer if a cancel window has been opened. So:

* commands of one room are serialised by the room's lock, and an engine method
  is one atomic step;
* the manager looks a room up under its lock but uses it outside: calls of
  `JoinRoom` and `LeaveRoom` interleave;
* the timer is a call like any other and races with the players' commands.

What is hard in this system, and what makes each part right:

* **engine**: a single command may run through a chain of consequences (a card
  stolen, the explosive holder with it, an explosive that now cannot be held, a
  shield spent or a death, the end of the game). It is right if no card is ever
  lost or doubled, phase and pending action agree, nobody keeps an explosive
  they cannot hold, the turn debt is owed by the current player only and stays
  bounded, marks follow cards, whoever has a shield survives, the game ends
  with its last player, and a command is always possible. A check made when a
  card is played may be stale when it resolves five seconds later.
* **room and manager**: right if members, join order, host, readiness and vote
  agree whoever comes and goes, a kick takes a majority of those present, a room
  does not overflow, and only empty rooms are removed, in the end all of them.
* **timer**: every window closes, and a timer of an earlier window does nothing. Its
  callback tells everybody, unless it fails: then nobody hears of the change.
* **hub**: a connection stands for a member of the room it is attached to, a
  member has a connection, and whoever is left has been sent the newest state,
  whichever links went down in the middle of whichever broadcast.
* **views**: a view offers what the engine takes, and shows no card that has not
  been shown to its player.
* **deck**: each profile can deal its largest table, with explosives for all
  but one player.

`PROJECT.json` lists the hazards line by line, with the properties that cover them.

## 2. Plan

1. *(done)* `Cards`, `Engine`: the rules of the game.
2. *(done)* `Room`, `RoomManager`: the life of one room.
3. *(done)* `TurnOrder`, the abstract promise of the engine about turns, and
   `EngineTurnOrder`, in which `Engine` implements it.
4. *(done)* `CancelTimers`: two clocks, windows, their timers, late cancels.
5. *(done)* `Hub`: `Room` composed with its connections and an abstract game.
6. *(done)* `Views`: who sees what and is offered what, beside `Engine`.
7. *(done)* `Deck`: the profiles and the deal.
8. *(done)* proofs: `EngineProofs`, `EngineHandsProofs`, `EngineCardsProofs`,
   `EngineOrderProofs`, `RoomProofs`, `CancelTimersProofs`.
9. *(done)* `HubProofs`: the safety properties of the hub, all seven.
10. *(done)* `UnsafeLoop`, `NextAliveLoop`, `ComboLoops`: loops `Engine` and `Cards` describe
    by what they come to, with the proofs that they do, `LoopProofs`.
11. Left: the shuffle of `deck.go` one exchange at a time, which `Engine` has as any
    rearrangement. That it can be any takes induction over the pile.

## 3. The models

### `Cards`
Card codes, and the predicates the engine applies to hands: `Unsafe` (more
explosives than can be held: none without the holder, one with it), which cards
can be played alone, what makes a pair, a triple or five different cards. A card
is an identity with a code. `SingleHolderAssumption` states what every profile of
`deck.go` satisfies: there is one `EXPLOSIVE_HOLDER`.

### `Engine`
The variables are the fields of `GameState`. Each exported method of `Engine` is
an action; a command that is refused changes nothing and is no step. The actions
follow the methods: the guards are their early returns, and the helpers the
methods share are operators of the same names (`CompleteCurrentTurnUnit`,
`AdvanceToPlayer`, `ResolveUnsafeExplosivesFrom`, `FinishUnsafeExplosiveResolution`,
...). `ExpireCancelWindow` resolves what was played in the same step, as the
method does, into the operators `Resolve...`, one for each card or combination.

Abstractions:

* a hand and the discard pile are sets. Where the code takes the first card of a
  code from a hand, the model takes any of them, so it allows every order a hand
  may be in; the draw pile keeps its order;
* `Shuffle` is any rearrangement; the random card of a pair is any card;
* events, sequence numbers, ids of pending actions and timestamps are left out.
  Without a clock a cancel window may end at any moment, before or after any cancel;
* a target and a requested code that nothing asks for are stored as the client sent them,
  as in the code; `NoPlayer` is no target or a name nobody at the table has. The codes a client
  may ask for are the constant `RequestableCode`;
* `RecycleSelections` is a function that is `NoCard` where the map has no entry,
  and a missing pending action is the record `NoPendingAction`.

### `UnsafeLoop`, `NextAliveLoop` and `ComboLoops`
`Engine` and `Cards` say of four loops what they come to, in one formula each
that looks little like the code: `ResolveUnsafeExplosivesFrom`, `IsNextAlive`,
`ValidMatchingCombo`, `ValidFiveDifferentCombo`. These modules have the loops themselves, one
iteration a step, with the local variables of the code. `UnsafeLoop` starts from any well
typed game and any players named, repeated or not, in the order `InLookOrder` says the callers
use; `state` has the values the loop writes, and the variables of `Engine` change when it
returns. They are not instances to be run but claims to be proved: see `LoopProofs`.

### `TurnOrder` and `EngineTurnOrder`
`TurnOrder` is what a player is told about turns, in four actions without cards:
a turn ends, all of them are skipped, two are put on somebody else, somebody
dies. `EngineTurnOrder` maps the engine to it: `living` is `alive`, `turn` is
`currentPlayerID`, and `owed` is the current player's entry in `turnDebt`
(0 when the game is over). That the whole engine implements it, `ImplementsTurnOrder`,
says that nothing a card does ever amounts to more than one of the four, nor to
two of them, in one command.

### `Views`
`ViewOf` and `AvailableActions` are `BuildViewForPlayer` and
`buildAvailableActions` of `view.go`, as operators over a state of `Engine`; names,
and what the room adds, are left out. The properties compare them with the
engine: every command a step takes (`Takes`) with those the view had offered, what is
offered with the commands that are `ENABLED`, and a view with the view of the state in
which two cards that nobody has shown to the player have changed places.

### `CancelTimers`
The cancel windows of a room and the timers that end them, with both clocks of
the code: `expiresAt` is wall clock time, a `time.AfterFunc` counts elapsed time.
A handler opens a window and arms the timer later (`OpenCancelWindow`,
`ScheduleCancelWindowExpiration`); a timer fires, reads the wall clock and is
heard by the room later (`Fire`, `ExpireCancelWindow`). It does not know which window it
was set for. `Lag` bounds the delay of each of these steps; `SetClock` sets the wall
clock. `StartGame` replaces a game with a window open. Cancels name the
pending action they are meant for or not, and may come late. `Window` also has
`nth`, `openedAt`, `clockSetsThen` and `counted`, which only the properties read.

### `Room` and `RoomManager`
`Room` has an action for each method that runs under the room's lock.
`RoomManager` follows one room (rooms share nothing) and splits `JoinRoom` and
`LeaveRoom` where they let a lock go: `JoinRoomFind`, `JoinRoomJoin`;
`LeaveRoomFind`, `LeaveRoomLeave`, `LeaveRoomCount`, `LeaveRoomLook`,
`LeaveRoomDelete`. The last two hold the manager's lock, which keeps `GetRoom` out
but not a `Join` of a room found before. The game of a room is only whether it
has been started.

### `Hub`
`Hub` puts connections in front of `Room`. Each connection has a goroutine, and what
the goroutine has still to do is a sequence of steps, `todo`, that its handler writes
in the order of its calls: `HandleJoinRoom`, for instance, joins and leaves
attach, answer, tell the room. The steps of the goroutines interleave; a broadcast reads the
view, then lists the connections, then writes to them one by one (`ReadRoomView`,
`ListClients`, `Write`), and ends at the first write that fails (`GiveUp`).
`LoseLink` takes a link down at any moment; its goroutine finds out when it
reads the next command (`ReadFails`) or when a write fails, and then runs
`unregisterConnection`. CREATE_ROOM and JOIN_ROOM take a connection to another room as
well; of that room there is only its last broadcast, which may break off (`TellElsewhere`).
The game is its seats, whether a cancel window is open (`window`), and the number of
times it has changed; a view is the version of what it shows. `causes` records, for
the properties only, what has happened that the code has no answer to.

The callbacks of the windows' timers run beside the goroutines. `ExpireCancelWindow`
changes the game and goes on to broadcast, or errs after the change and says
nothing: `engine.go:343` clears the pending action before 703-705 errs, and
`websocket.go:522` returns. `CallbackReadsViews`, `CallbackListsClients` and
`CallbackWrites` are the broadcast a step at a time; `CallbackFails` breaks it off where an
event or a view cannot be written or built (525-531), which closes no connection and
undoes nothing. `callback` is where each of them is, and `causes["untold"]` has the
versions of the game that such a callback left untold. When a timer fires is the matter
of `CancelTimers`: here it may whenever a window is open.

### `Deck`
The three deck profiles with their counts, and `NewSetup` by counting: the seven
cards of each hand come off a pool, slicing past its end is a panic, then shields and
explosives are added to the draw pile. `Engine` starts from any deal of that shape.

### Model checking modules
`MCEngine` builds a deck from shields, explosives and six sets of cards of one code
each. `MCEngineTurnOrder` and `MCViews` add the refinement and the views to it.
`MCCancelTimers` bounds windows, ticks, clock changes and cancels, and keeps ids for
prompts between windows. `MCHub` bounds changes (`MaxChanges`) and unnoticed dead
links (`MaxDown`), and starts from nothing or from a room that has gathered, before or
during a game. `MCDeck` has player counts on both sides of the allowed ones.
Cards of one code are symmetric, seats are not; connections and ids of players are
symmetric in the hub. Symmetry is not used where liveness is checked.

## 4. Runs

| run | instance | properties | shows |
|---|---|---|---|
| `EngineTurns` | 3 players, 4 shields, 2 explosives, one each of cancel, skip all, force extra turns, target extra turns | `TypeOK`, `TurnDebtDiscipline`, `LastAliveWins`, `TurnsChangeHands`, `ShieldSaves`, `ImplementsTurnOrder` | the debt is owed by the current player only; only the current player's falls and only the next player's rises; whoever has a shield survives; the game ends with its last player; every command is one step of `TurnOrder` |
| `EnginePile` | 2 players, 1 explosive, one each of swap, reorder, draw from the bottom, peek, shuffle | `CardConservation` | no card is lost or doubled |
| `EngineHands` | 2 players, explosive and holder, request, reveal, recycle, cancel | `ExplosivesHeldSafely`, `NoQueueBetweenCommands`, `MarksFollowCards`, `PendingMatchesPhase`, `OnlyKnownStalls`, `OnlyOfferedCommandsAreTaken`, `OfferedCommandsAreAccepted`, `ViewKeepsSecrets` | explosives shaken loose are dealt with in the same command, at most one player at a time; marks follow cards; phase and pending action agree, and what is done to somebody is done to another living player, whatever targets are sent; the known stalls are the only ones; views offer what the engine takes and keep secrets |
| `EngineCombos` | 2 players, 2 tokens and a wild one, explosive and holder, two cancels, a reorder, a skip; hands of four; a triple asks for the holder | `ReactivePlacementKeepsTurn`, `CancelWindowCloses` | with all combinations, stealing and recovering explosive and holder: the interrupted turn is kept; every cancel window closes (liveness) |
| `EngineDoubleCancel` | 2 players, a pair, two cancels | `TwoCancelsAllowComboToResolve` | **violation**: two cancels need not let a pair resolve |
| `RoomLife` | 4 ids, 3 places | `RoomTypeOK`, `OrderMatchesPlayers`, `HostIsMember`, `VoteIsAmongMembers`, `KickTakesMajority`, `HostLostWithLastMember`, `OnlyEmptiedRoomsForgotten`, `EmptyRoomRemoved` | no overflow; members, order, host and vote agree; a kick takes a majority of those present; only rooms that have been emptied are forgotten, and an empty room is removed in the end (liveness) |
| `RoomHostless` | 2 ids, 2 places | `HostLeaveTransfersHost` | **violation**: a room with members and no host |
| `RoomOrphan` | 2 ids, 2 places | `DeletedRoomIsEmpty` | **violation**: a room removed with a member in it |
| `Timers` | windows of 2 ticks, timers of 3, lag 1, three windows, the clock set once | `TimersTypeOK`, `OpenWindowWillEnd`, `WindowEndsInTime`, `NamedCancelsHitTheirWindow`, `NoWindowEndsEarly`, `WindowEnds` | timers that outlive their window or their game cut no window short and leave none open; late cancels that name their window hit no other; windows end in time and in the end (liveness) |
| `HubGame` | 2 connections, 1 timer, 3 ids, 3 places, 4 changes, one unnoticed dead link | `HubTypeOK`, `OnePlayerOneConnection`, `AttachedArePlayers`, `MembersAreConnected`, `EveryoneSeesTheRoom`, `SeatedSeeTheGame`, `HealthyRoomKeepsItsPlayers` | players and connections agree, and everybody is told the newest state, in the end; each property names the ways in which this fails |
| `HubKicked` | the same | `KickedPlayerReceivesNotification` | **violation**: a kick before the connection is attached |
| `Deck` | 0 to 12 players | `EveryTableIsDealt`, `DealUsesTheDeck` | every table can be dealt, and the deal uses the deck |

**Bounds.** The engine runs have no state constraint: a deck is finite, every
card played ends in the discard pile and only five different cards bring one
back, so the state space is finite, and all of it is explored. What is bounded is
the deck. Each run holds the cards whose interplay its properties are about, one
of each code, and more where the count matters: two explosives and a spare shield
so that a shield can be drawn between deaths, two tokens and a wild one for
every form of pair and a triple, two cancels for a cancel of a cancel. Two players are
enough where a card has a source and a target; the run about turns has three,
the smallest table where the next player, the target and the source differ and
the game goes on after a death. In `RoomLife` the members are as many as a
vote needs to be lost by a departure and one fewer than there are clients; the states
of the manager's calls are finite, and an id that comes back stands for a new
player. `Timers` needs a window whose timer outlives it, a second one that it meets, and a
third to meet both; one change of the clock, back by more than a window, back by
a little or forward, is all a window can be hurt by. `HubGame` counts changes of the
room and the game: four are enough for a join, a start, a command and a kick, or a
command, the end of its window and another command, in one another's broadcasts. Two
connections can hold a room and a game; the third id is for the newcomer that takes a
connection over. One timer is enough, for two callbacks only meet where one is still
writing when the next window ends, 5.1 s later; the theorems are for any number of both.

`CHECK_DEADLOCK FALSE` is set in the engine runs because the game ends, and
because of the stalls named in `OnlyKnownStalls`, which says exactly where else
nothing is possible: a prompt for a card of a hand that has been emptied by a
cancel, and an empty draw pile. In the room runs a removed room is the end, in
`Deck` a finished deal, and in the others the end of what `MC...` allows.

**Fairness.** `FairSpec` of `Engine` asks weak fairness of `ExpireCancelWindow`:
`scheduleCancelWindowExpiration` arms a timer for every window, later than the
end of the window, and its call changes the state if the window is still open.
`OpenWindowWillEnd` of `CancelTimers` is what justifies it, as long as the wall clock is not
set while the window is open. `MCFairSpec` of `MCCancelTimers` asks that time passes
and that the server takes a step that is due: timers and goroutines are
scheduled. `FairSpec` of `RoomManager` asks that as long as calls are under
way one of them goes on: no lock is held for ever, and a call has a few steps
only. No client is ever assumed to send anything. `Hub` states no fairness: its
properties are about the states in which every goroutine, and for the game every
callback, has done what it had to do.

**Disagreements found.** Four runs end in a violation; the findings quote the lines.
A pair canceled twice may resolve to nothing (`EngineDoubleCancel`,
against `engine_test.go:1369`); a player may join a room that has just lost its
last member and stay in a room without a host (`RoomHostless`, against
`manager_test.go:192`); a player may join between the second look of `LeaveRoom` and
the removal (`RoomOrphan`, against `manager_test.go:111`); a player who is kicked
between joining and attaching is not told, and the connection is attached
afterwards to a room it is not in (`HubKicked`, `websocket.go:199`, against
`websocket_test.go:833`).

## 5. Proofs

The proofs about the engine hold for every number of players `N >= 2`, every
finite deck with one holder at most, and every size of the deal: the assumptions are `NAssumption`,
`DeckAssumption`, `CardAssumption` and `SingleHolderAssumption`, which TLC evaluates
on every engine run.

* **`EngineProofs`**: `TypeCorrect`, that `TypeOK` is an invariant. `TypeOK` is
  inductive as it stands. There is a lemma for each operator, and the one that
  carries the most is `ResolveUnsafeExplosivesTyped`: whatever a caller has done
  to the hands, the resolution leaves a well typed state.
  Then `TurnDebtCorrect` (`TurnDebtDiscipline`) and `TurnsCorrect`
  (`TurnsChangeHands`). `DebtInv` strengthens the former by what ties the turn to
  the pending action: it belongs to the current player, directly or through
  `OriginalCurrentPlayerID`, nothing is pending in `PLAYER_TURN`, and a
  `TARGET_EXTRA_TURNS` in the window is aimed at somebody else. Without these a
  card could resolve for somebody who is not the current player, and reset the
  wrong debt.
* **`EngineHandsProofs`**: three results about hands.
  `MarksCorrect` (`MarksFollowCards`, inductive together with `TypeOK`): a step
  which takes cards from some players sweeps the marks of exactly these
  (`SweptMarks`); each caller of the resolution owes it that for the players it
  does not look at.
  `ExplosivesCorrect` (`ExplosivesHeldSafely`): not inductive alone, because a player who
  puts the holder into a recycling is left with an explosive until the last
  choice is made. `HandsInv` adds that such a player has one explosive only and is
  among those the last choice looks at. The resolution then leaves every hand
  safe if the hands it looks at are `Recoverable` (safe once any one explosive
  is out), which a safe hand stays when it is given or loses one card. That no
  combination takes the holder out of a hand needs `SingleHolderAssumption`.
  `ShieldsCorrect` (`ShieldSaves`): a hand becomes endangered by gaining an
  explosive or losing the holder, so the shield cannot have been the card lost.
* **`EngineCardsProofs`**: `CardsCorrect` (`CardConservation`) and `QueueCorrect`
  (`NoQueueBetweenCommands`). `CardsInv` is `HandsInv`, `DebtInv` and `CardsApart`: no
  card in two hands or twice in the pile, the choices of a recycling distinct, an empty
  queue, and every card in exactly one of hands, pile, discard pile, placement and
  recycling. Sequences without repetitions are treated as sets: shuffling, cutting,
  joining and inserting keep a pile one, the first because a rearrangement of a finite
  set reaches all of it. The queue stays empty because a command endangers
  one player at most: a card that moves endangers the receiver if it is an explosive
  and the giver if it is the holder, and a recycling only endangers
  who has put in the one holder there is. Hence at most one player dies in a step,
  too, and none while an explosive is being placed (`OneDeathAtMost`).
  `SecretsKept` (`ViewKeepsSecrets`) is here, too, for want of more to prove about `Views`:
  it holds in every well typed state, since an exchange of two cards is one to one and
  leaves a hand as large as it was, and nothing else a view takes from the hidden places
  is more than a count.
* **`EngineOrderProofs`**: `LastAliveCorrect` (`LastAliveWins`), `PendingCorrect`
  (`PendingMatchesPhase`: any target may be stored, but one to whom something is done was validated
  when the card was played, and nobody dies until it is), `PlacementCorrect` (`ReactivePlacementKeepsTurn`) and the
  refinement, `TurnOrderImplemented` (`ImplementsTurnOrder`). `OrderInv` adds to
  `CardsInv` that there is no winner before the end. `TurnGood` says what a step may do to
  the turn: one action of `TurnOrder`, or nothing. A turn unit that is completed is
  `EndTurn`, `SKIP_ALL` is `SkipAll`, the cards that force extra turns are
  `PutTurnsOn`, a death is `Die`, and every other step stutters. The debts of players
  who are not on turn are 0 (`DebtInv`), or advancing to them would not owe one
  turn; `TurnOrder` has one death in a step, which needs `OneDeathAtMost`; and
  `NextAliveIsNext` shows that the search of the code for the next living player finds
  the one the abstract order means.
  `OffersCorrect` (`OnlyOfferedCommandsAreTaken`) rests on `PendingMatchesPhase`: the engine
  asks for the type of the pending action in some places where the view asks for the
  phase and for a living player.
* **`LoopProofs`**: four loops come to what `Engine` and `Cards` say of them.
  `LoopResolvesInOneStep` (`ResolvesInOneStep`): `UnsafeLoop` implements the single step
  `ResolveUnsafeExplosivesFrom`. `LoopInv` says that those seen have been dealt with as that
  step says and nobody else (`Resolved`), with some choice of shields and explosives
  and some order of the queue, which every iteration extends. It is needed that a
  player who is looked at still has the hand the loop began with, since the players seen are others,
  and that sweeping the marks of one hand after another is sweeping them together
  (`MarksClearedTogether`).
  `SearchCorrect` (`SearchFindsNextAlive`): nobody alive is at fewer seats than the search has gone
  on (`SearchInv`); the arithmetic of the code, modulo the number of players, reaches every seat
  once (`SeatReachedIsStepsOn`).
  `MatchingCorrect` and `FiveDifferentCorrect` (`MatchingDecided`, `FiveDecided`): `MatchInv` and
  `FiveInv` say what the flags of the loops know of the codes gone over. The order of the cards,
  which the code goes by and `Cards` has not, makes no difference.
* **`RoomProofs`**, for every set of players and every size of a room, from
  `RoomAssumption`, every invariant of the run `RoomLife`: `RoomTypeCorrect`
  (`RoomTypeOK`), `OrderCorrect` (`OrderMatchesPlayers`), `HostCorrect`, `HostKept`,
  `VoteCorrect` and `KicksCorrect`
  (`HostIsMember`, `HostLostWithLastMember`, `VoteIsAmongMembers`,
  `KickTakesMajority`), and `ForgottenCorrect` (`OnlyEmptiedRoomsForgotten`): a call
  that has counted the room empty has seen it without a host, and a room without a host never
  gets one again, whoever joins. `RoomInv` adds finiteness of the room, which the count of
  the majority needs, and that before `CreateRoom` there is nothing to join.
  `SeatingInv` says that the order of joining has every member once; that it is as long
  as there are members, which the limit of the room is about, follows because it
  then numbers them.
* **`CancelTimersProofs`**, for every length of window, delay, lag and change of the
  clock, from `TimesAssumption`, and without the bounds of the run: `TimersTyped`, `TimersLeftForWindows`,
  `WindowsEndInTime`, `CancelsCorrect` and `NoWindowCutShort` (`TimersTypeOK`,
  `OpenWindowWillEnd`, `WindowEndsInTime`, `NamedCancelsHitTheirWindow`,
  `NoWindowEndsEarly`). `TimersInv` follows the timer of the open window through
  its three stages with the time each may take (`TimerUnderWay`), the two clocks, which move together
  while nobody sets one (`ClocksTogether`), and ids, which are given once
  (`CancelsKnowTheirWindow`).
* **`HubProofs`**, for every set of connections, timers and players, from `RoomAssumption`,
  and without the bounds of the run: `HubTypeCorrect`, `OneConnection`, `AttachedPlay`,
  `MembersConnected`, `HealthyRoom`, `GameSeen` and `RoomSeen` (`HubTypeOK`,
  `OnePlayerOneConnection`, `AttachedArePlayers`, `MembersAreConnected`,
  `HealthyRoomKeepsItsPlayers`, `SeatedSeeTheGame`, `EveryoneSeesTheRoom`). Most of these
  speak of the states in which everything has been said, so the invariant has to
  say what holds in the middle of everything. `IInv`, `HubInvariant`, has these parts:
  * `Shaped`: what a goroutine has left is the rest of one handler. Without it a
    step could be followed by anything, and no step could be relied on to come.
  * `BearersInv`: a connection bears a player if it has him, is about to be
    attached for him, or has still to take him out of the room; nobody is borne by
    two. `OnePlayerOneConnection` alone is not inductive, for two goroutines could be about
    to attach the same player. The rest of it says when steps are due:
    a connection to be closed is detached first, who is to be attached has no seat yet,
    who is to be detached after a vote has been removed already.
  * `Accounted` and `MembersBorne`: whoever is attached plays or is about to be taken off,
    and every member is borne. They are what `AttachedArePlayers` and
    `MembersAreConnected` are between the steps.
  * `HealthInv`: while no link is lost nobody writes to a closed one, and views of the
    game are only built while there is a game in which every member has a seat. So no
    handler has a reason to give up; a handler that gives up closes its connection, which would
    make others give up, so the three parts hold together or not at all.
  * `HonestInv`: views in hand are never newer than what they show, and one of the game
    as it is now is there for everybody who has a seat.
  * `GameTold` and `RoomTold`: whoever has not seen the newest state has somebody
    who has still to tell (`TellsGame`, `TellsRoom`). That is the heart of it for the
    room, where links may go down: a goroutine which has to build a view counts as a
    teller if nothing that may fail comes before it, or if it stands for a player, for
    then `unregisterConnection` tells the room in its place. A broadcast that breaks off
    breaks off at a link that is down, and the owner of that link will leave and tell
    everybody, since every connection that is still to be written to has a player (`Sound`).
    The two exceptions of `EveryoneSeesTheRoom` are the two places where this fails. For
    the game a callback may be the teller (`CallbackTells`), and the exceptions of
    `SeatedSeeTheGame` are the handler that gives up and the callback that fails.
  * `CallbackInv`: a callback works for a change that has been made, and the views it
    has in hand show that change. So it need not be asked what came in between.

Only model-checked: the liveness properties (`CancelWindowCloses`, `EmptyRoomRemoved`,
`WindowEnds`) and what speaks of `ENABLED` (`OnlyKnownStalls`,
`OfferedCommandsAreAccepted`); and `Deck`, which is counting over three fixed profiles:
its run has every number of players the code admits, so that a proof would add nothing.
Nothing else is: every other property of a passing run is a theorem. Only proved, and in no run,
are the claims of `LoopProofs`.

## 6. Not modelled

* commands that are refused: they change nothing and get an answer only;
* events and the filter that hides their private parts (`event.go`): the models
  have no events, only the states they tell of;
* the order in which views arrive: they are written outside the room's lock, and
  the last one sent need not be the newest. `Hub` has these interleavings and checks that the
  newest view has been sent. Nothing in the repository asks for more;
* envelopes with the token of another player;
* in `Hub`, of the callbacks the events they send one by one: they show nobody the
  game, and may fail at any time before the views are built;
* what a departure means for the game that is on: the code does nothing, and the turn
  of the departed player waits for ever. Nothing in the repository says what should happen;
* a kick vote that nobody carries on blocks the next one: likewise;
* hub liveness: its properties are about quiet states, and that these are reached
  depends on writes that time out;
* the formats of commands, messages and errors, and the server process: data
  shapes and I/O with no behaviour of their own.
