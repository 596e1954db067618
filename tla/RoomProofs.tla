----------------------------- MODULE RoomProofs -----------------------------
(***************************************************************************)
(* Theorems about a room and the manager's calls on it, for every number   *)
(* of players and every size of a room.                                    *)
(***************************************************************************)
EXTENDS RoomManager, FiniteSetTheorems, SequenceTheorems, TLAPS

\* The invariant that carries the theorems.
RoomInv ==
  /\ players \subseteq RoomPlayer
  /\ IsFiniteSet(players)
  /\ leaving \in [RoomPlayer -> LeaveStage]
  /\ kickVote \in KickVote \cup {NoKickVote}
  /\ HostIsMember
  /\ VoteIsAmongMembers
  /\ ~created => ~registered /\ players = {} /\ joining = {} /\ kickVote = NoKickVote

\* What a step may do to the host: HostLostWithLastMember, of this step.
HostStep == hostPlayerID # NoOne /\ hostPlayerID' = NoOne => players' = {}

\* What a step may do to the members: KickTakesMajority, of this step.
KickStep ==
  \A p \in players \ players' :
    leaving' = leaving =>
      \E voter \in players' :
        2 * Cardinality((kickVote.Approvals \cup {voter}) \cap players')
          > Cardinality(players')

----------------------------------------------------------------------------
(* The parts of the steps.                                                 *)

\* Nobody is a target or has approved while there is no vote.
LEMMA NoVote ==
  /\ NoKickVote.TargetPlayerID = NoOne
  /\ NoKickVote.Approvals = {}
  /\ NoKickVote \notin KickVote
BY RoomAssumption DEF NoKickVote, KickVote

\* Once a member has gone the host is one of the others, or there are none.
LEMMA TransferHostIfGoneRight ==
  ASSUME RoomInv, NEW p \in players, players' = players \ {p},
         TransferHostIfGone(p, players')
  PROVE  HostIsMember' /\ HostStep
<1>0. NoOne \notin players /\ players \subseteq RoomPlayer
  BY RoomAssumption DEF RoomInv
<1>1. CASE hostPlayerID # p
  BY <1>0, <1>1 DEF TransferHostIfGone, RoomInv, HostIsMember, HostStep
<1>2. CASE hostPlayerID = p
  BY <1>0, <1>2 DEF TransferHostIfGone, SetHost, HostIsMember, HostStep
<1>3. QED BY <1>1, <1>2

\* A member who leaves takes their approval along.
LEMMA LeaveRight ==
  ASSUME RoomInv, NEW p, Leave(p)
  PROVE  /\ players' \subseteq players
         /\ kickVote' \in KickVote \cup {NoKickVote}
         /\ VoteIsAmongMembers'
         /\ kickVote = NoKickVote => kickVote' = NoKickVote
         /\ HostIsMember' /\ HostStep
<1>1. p \in players /\ players' = players \ {p}
  BY DEF Leave
<1>2. HostIsMember' /\ HostStep
  BY <1>1, TransferHostIfGoneRight DEF Leave
<1>3. CASE kickVote = NoKickVote
  <2>1. kickVote' = NoKickVote
    BY <1>3, NoVote DEF Leave, NoKickVote
  <2>2. QED BY <1>1, <1>2, <2>1 DEF VoteIsAmongMembers
<1>4. CASE kickVote # NoKickVote
  <2>1. /\ kickVote \in KickVote
        /\ kickVote.TargetPlayerID \in players
        /\ kickVote.Approvals \subseteq players \ {kickVote.TargetPlayerID}
    BY <1>4 DEF RoomInv, VoteIsAmongMembers
  <2>2. CASE kickVote.TargetPlayerID = p
    BY <1>1, <1>2, <1>4, <2>2 DEF Leave, VoteIsAmongMembers
  <2>3. CASE kickVote.TargetPlayerID # p
    <3>1. kickVote' = [kickVote EXCEPT !.Approvals = kickVote.Approvals \ {p}]
      BY <2>3 DEF Leave
    <3>2. /\ kickVote' \in KickVote
          /\ kickVote'.TargetPlayerID = kickVote.TargetPlayerID
          /\ kickVote'.Approvals = kickVote.Approvals \ {p}
      BY <2>1, <3>1 DEF KickVote
    <3>3. VoteIsAmongMembers'
      BY <1>1, <2>1, <2>3, <3>2 DEF VoteIsAmongMembers
    <3>4. QED BY <1>1, <1>2, <1>4, <3>2, <3>3
  <2>4. QED BY <2>2, <2>3
<1>5. QED BY <1>3, <1>4

\* A vote that member p has just cast or started either goes on among the
\* members or removes its target with a majority of the others.
LEMMA ResolveKickVoteRight ==
  ASSUME RoomInv, NEW vote \in KickVote, NEW p \in players,
         p # vote.TargetPlayerID, vote.TargetPlayerID \in players,
         vote.Approvals \subseteq (kickVote.Approvals \cup {p}) \cap players,
         vote.TargetPlayerID \notin vote.Approvals,
         ResolveKickVote(vote)
  PROVE  /\ players' \subseteq players
         /\ kickVote' \in KickVote \cup {NoKickVote}
         /\ VoteIsAmongMembers'
         /\ HostIsMember' /\ HostStep /\ KickStep
<1> DEFINE target == vote.TargetPlayerID
           others == players \ {target}
<1>1. CASE Cardinality(vote.Approvals) < RequiredKickApprovals(vote, players)
  <2>1. kickVote' = vote /\ UNCHANGED <<players, hostPlayerID, isHost>>
    BY <1>1 DEF ResolveKickVote
  <2>2. VoteIsAmongMembers'
    BY <2>1 DEF VoteIsAmongMembers
  <2>3. HostIsMember' /\ HostStep
    BY <2>1 DEF RoomInv, HostIsMember, HostStep
  <2>4. QED BY <2>1, <2>2, <2>3 DEF KickStep
<1>2. CASE ~(Cardinality(vote.Approvals) < RequiredKickApprovals(vote, players))
  <2>1. /\ kickVote' = NoKickVote
        /\ players' = others
        /\ TransferHostIfGone(target, players')
    BY <1>2 DEF ResolveKickVote
  <2>2. HostIsMember' /\ HostStep
    BY <2>1, TransferHostIfGoneRight
  <2>3. KickStep
    <3> DEFINE approving == (kickVote.Approvals \cup {p}) \cap others
    <3>1. IsFiniteSet(players) /\ IsFiniteSet(others) /\ IsFiniteSet(approving)
      BY FS_Subset DEF RoomInv
    <3>2. vote.Approvals \subseteq approving
      OBVIOUS
    <3>3. /\ Cardinality(others) \in Nat
          /\ Cardinality(approving) \in Nat
          /\ Cardinality(vote.Approvals) \in Nat
          /\ Cardinality(vote.Approvals) <= Cardinality(approving)
      BY <3>1, <3>2, FS_Subset, FS_CardinalityType
    <3>4. Cardinality(vote.Approvals) >= Cardinality(others) \div 2 + 1
      BY <1>2, <3>3 DEF RequiredKickApprovals
    <3>5. 2 * Cardinality(approving) > Cardinality(others)
      BY <3>3, <3>4
    <3>6. p \in others
      OBVIOUS
    <3>7. QED BY <2>1, <3>5, <3>6 DEF KickStep
  <2>4. QED BY <2>1, <2>2, <2>3 DEF VoteIsAmongMembers
<1>3. QED BY <1>1, <1>2

\* So does every command of a member.
LEMMA RoomCommandRight ==
  ASSUME RoomInv, NEW p \in RoomPlayer, RoomCommand(p)
  PROVE  /\ players' \subseteq players
         /\ kickVote' \in KickVote \cup {NoKickVote}
         /\ VoteIsAmongMembers'
         /\ HostIsMember' /\ HostStep /\ KickStep
<1>1. ASSUME UNCHANGED <<players, hostPlayerID, isHost, kickVote>>
      PROVE  /\ players' \subseteq players
             /\ kickVote' \in KickVote \cup {NoKickVote}
             /\ VoteIsAmongMembers'
             /\ HostIsMember' /\ HostStep /\ KickStep
  BY <1>1 DEF RoomInv, VoteIsAmongMembers, HostIsMember, HostStep, KickStep
<1>2. CASE (\E isReady \in BOOLEAN : SetReady(p, isReady)) \/ StartGame(p)
  BY <1>1, <1>2 DEF SetReady, StartGame
<1>3. ASSUME NEW target \in RoomPlayer, TransferHost(p, target)
      PROVE  /\ players' \subseteq players
             /\ kickVote' \in KickVote \cup {NoKickVote}
             /\ VoteIsAmongMembers'
             /\ HostIsMember' /\ HostStep /\ KickStep
  BY <1>3, RoomAssumption DEF TransferHost, SetHost, RoomInv, VoteIsAmongMembers,
     HostIsMember, HostStep, KickStep
<1>4. ASSUME NEW target \in RoomPlayer, StartKickVote(p, target)
      PROVE  /\ players' \subseteq players
             /\ kickVote' \in KickVote \cup {NoKickVote}
             /\ VoteIsAmongMembers'
             /\ HostIsMember' /\ HostStep /\ KickStep
  <2> DEFINE vote == [TargetPlayerID |-> target, Approvals |-> {p}]
  <2>1. /\ vote \in KickVote
        /\ p \in players /\ target \in players /\ p # target
        /\ ResolveKickVote(vote)
    BY <1>4 DEF StartKickVote, KickVote
  <2>2. /\ vote.TargetPlayerID = target
        /\ vote.Approvals = {p}
    OBVIOUS
  <2> HIDE DEF vote
  <2>3. QED BY <2>1, <2>2, ResolveKickVoteRight
<1>5. ASSUME NEW approve \in BOOLEAN, CastKickVote(p, approve)
      PROVE  /\ players' \subseteq players
             /\ kickVote' \in KickVote \cup {NoKickVote}
             /\ VoteIsAmongMembers'
             /\ HostIsMember' /\ HostStep /\ KickStep
  <2> DEFINE approvals == IF approve THEN kickVote.Approvals \cup {p}
                                     ELSE kickVote.Approvals \ {p}
             vote == [kickVote EXCEPT !.Approvals = approvals]
  <2>1. /\ p \in players /\ p # kickVote.TargetPlayerID
        /\ kickVote \in KickVote
        /\ kickVote.TargetPlayerID \in players
        /\ kickVote.Approvals \subseteq players \ {kickVote.TargetPlayerID}
    BY <1>5 DEF CastKickVote, RoomInv, VoteIsAmongMembers
  <2>2. ResolveKickVote(vote)
    BY <1>5 DEF CastKickVote
  <2>3. /\ vote \in KickVote
        /\ vote.TargetPlayerID = kickVote.TargetPlayerID
        /\ vote.Approvals = approvals
    BY <2>1 DEF KickVote
  <2> HIDE DEF vote
  <2>4. QED BY <2>1, <2>2, <2>3, ResolveKickVoteRight
<1>6. QED BY <1>2, <1>3, <1>4, <1>5 DEF RoomCommand

----------------------------------------------------------------------------
(* The steps of the manager.                                               *)

\* The invariant holds of the manager before the room is made.
LEMMA InitRight == Init => RoomInv
<1> SUFFICES ASSUME Init PROVE RoomInv
  OBVIOUS
<1>1. IsFiniteSet(players)
  BY FS_EmptySet DEF Init
<1>2. QED BY <1>1 DEF Init, RoomInv, LeaveStage, HostIsMember, VoteIsAmongMembers

\* A step of a LeaveRoom call goes on to another stage.
LEMMA LeaveStepRight ==
  ASSUME RoomInv, NEW p \in RoomPlayer, NEW from \in LeaveStage, NEW to \in LeaveStage,
         LeaveStep(p, from, to), from # to
  PROVE  leaving' \in [RoomPlayer -> LeaveStage] /\ leaving' # leaving
BY DEF LeaveStep, RoomInv

\* Every step keeps the invariant, the host and the rule for kicks.
LEMMA NextRight == RoomInv /\ [Next]_vars => RoomInv' /\ HostStep /\ KickStep
<1> SUFFICES ASSUME RoomInv, [Next]_vars PROVE RoomInv' /\ HostStep /\ KickStep
  OBVIOUS
<1> USE DEF roomVars
<1>1. ASSUME UNCHANGED roomVars, leaving' \in [RoomPlayer -> LeaveStage],
             created' = created, registered' => registered, created \/ joining' = {}
      PROVE  RoomInv' /\ HostStep /\ KickStep
  BY <1>1 DEF RoomInv, HostIsMember, VoteIsAmongMembers, HostStep, KickStep
<1>2. ASSUME NEW p \in RoomPlayer, CreateRoom(p)
      PROVE  RoomInv' /\ HostStep /\ KickStep
  <2>1. /\ players' = {p} /\ hostPlayerID' = p /\ isHost' = {p}
        /\ kickVote = NoKickVote /\ kickVote' = kickVote /\ leaving' = leaving /\ created'
    BY <1>2 DEF CreateRoom, NewRoom, RoomInv
  <2>2. IsFiniteSet(players')
    BY <2>1, FS_Singleton
  <2>3. players = {}
    BY <1>2 DEF CreateRoom, RoomInv
  <2>4. QED BY <2>1, <2>2, <2>3, RoomAssumption
            DEF RoomInv, HostIsMember, VoteIsAmongMembers, HostStep, KickStep
<1>3. ASSUME NEW p \in RoomPlayer, JoinRoomFind(p)
      PROVE  RoomInv' /\ HostStep /\ KickStep
  BY <1>1, <1>3 DEF JoinRoomFind, GetRoom, RoomInv
<1>4. ASSUME NEW p \in RoomPlayer, JoinRoomJoin(p)
      PROVE  RoomInv' /\ HostStep /\ KickStep
  <2>0. created
    BY <1>4 DEF JoinRoomJoin, RoomInv
  <2>1. leaving' = leaving /\ created' = created /\ registered' = registered
    BY <1>4 DEF JoinRoomJoin
  <2>2. CASE UNCHANGED roomVars
    BY <1>1, <2>0, <2>1, <2>2 DEF RoomInv
  <2>3. CASE Join(p)
    <3>1. /\ players' = players \cup {p}
          /\ UNCHANGED <<hostPlayerID, isHost, kickVote>>
      BY <2>3 DEF Join
    <3>2. IsFiniteSet(players')
      BY <3>1, FS_AddElement DEF RoomInv
    <3>3. QED BY <2>0, <2>1, <3>1, <3>2
              DEF RoomInv, HostIsMember, VoteIsAmongMembers, HostStep, KickStep
  <2>4. QED BY <1>4, <2>2, <2>3 DEF JoinRoomJoin
<1>5. ASSUME NEW p \in RoomPlayer, NEW from \in LeaveStage, NEW to \in LeaveStage,
             LeaveStep(p, from, to), from # to, UNCHANGED <<roomVars, joining>>,
             created' = created, registered' => registered
      PROVE  RoomInv' /\ HostStep /\ KickStep
  BY <1>1, <1>5, LeaveStepRight DEF RoomInv
<1>6. ASSUME NEW p \in RoomPlayer,
             LeaveRoomFind(p) \/ LeaveRoomCount(p) \/ LeaveRoomLook(p) \/ LeaveRoomDelete(p)
      PROVE  RoomInv' /\ HostStep /\ KickStep
  BY <1>5, <1>6 DEF LeaveRoomFind, LeaveRoomCount, LeaveRoomLook, LeaveRoomDelete, LeaveStage
<1>7. ASSUME NEW p \in RoomPlayer, LeaveRoomLeave(p)
      PROVE  RoomInv' /\ HostStep /\ KickStep
  <2>1. UNCHANGED <<created, registered, joining>>
    BY <1>7 DEF LeaveRoomLeave
  <2>2. CASE UNCHANGED roomVars /\ LeaveStep(p, "found", "none")
    BY <1>5, <2>1, <2>2 DEF LeaveStage
  <2>3. CASE Leave(p) /\ LeaveStep(p, "found", "left")
    <3>1. leaving' \in [RoomPlayer -> LeaveStage] /\ leaving' # leaving
      BY <2>3, LeaveStepRight DEF LeaveStage
    <3>2. /\ players' \subseteq players
          /\ kickVote' \in KickVote \cup {NoKickVote}
          /\ VoteIsAmongMembers'
          /\ kickVote = NoKickVote => kickVote' = NoKickVote
          /\ HostIsMember' /\ HostStep
      BY <2>3, LeaveRight
    <3>3. IsFiniteSet(players')
      BY <3>2, FS_Subset DEF RoomInv
    <3>4. QED BY <2>1, <3>1, <3>2, <3>3 DEF RoomInv, KickStep
  <2>4. QED BY <1>7, <2>2, <2>3 DEF LeaveRoomLeave
<1>8. ASSUME NEW p \in RoomPlayer, Command(p)
      PROVE  RoomInv' /\ HostStep /\ KickStep
  <2>1. /\ registered
        /\ UNCHANGED <<created, registered, leaving>>
    BY <1>8 DEF Command, GetRoom
  <2>2. /\ players' \subseteq players
        /\ kickVote' \in KickVote \cup {NoKickVote}
        /\ VoteIsAmongMembers'
        /\ HostIsMember' /\ HostStep /\ KickStep
    BY <1>8, RoomCommandRight DEF Command
  <2>3. IsFiniteSet(players')
    BY <2>2, FS_Subset DEF RoomInv
  <2>4. QED BY <2>1, <2>2, <2>3 DEF RoomInv
<1>9. CASE UNCHANGED vars
  BY <1>1, <1>9 DEF vars, RoomInv
<1>10. QED BY <1>2, <1>3, <1>4, <1>6, <1>7, <1>8, <1>9 DEF Next, CallStep

\* The invariant holds in every life of a room.
LEMMA RoomInvariant == Spec => []RoomInv
BY InitRight, NextRight, PTL DEF Spec

\* Whatever the interleaving of the manager's calls, the host, if there is one,
\* is a member, and nobody else has the flag (setHostLocked).
THEOREM HostCorrect == Spec => []HostIsMember
<1>1. RoomInv => HostIsMember
  BY DEF RoomInv
<1>2. QED BY <1>1, RoomInvariant, PTL

\* A room loses its host with its last member only (transferHostToAnyLocked).
THEOREM HostKept == Spec => HostLostWithLastMember
<1>1. RoomInv /\ [Next]_vars =>
        [hostPlayerID # NoOne /\ hostPlayerID' = NoOne => players' = {}]_vars
  BY NextRight DEF HostStep
<1>2. QED BY <1>1, RoomInvariant, PTL DEF Spec, HostLostWithLastMember

\* A vote to kick is about a member, and those who have approved of it are
\* others and still there, however members come and go while it is on.
THEOREM VoteCorrect == Spec => []VoteIsAmongMembers
<1>1. RoomInv => VoteIsAmongMembers
  BY DEF RoomInv
<1>2. QED BY <1>1, RoomInvariant, PTL

\* Whoever is kicked is kicked by more than half of the others present at that
\* moment, in a room of any size (resolveKickVoteIfPassedLocked).
THEOREM KicksCorrect == Spec => KickTakesMajority
<1>1. RoomInv /\ [Next]_vars =>
        [\A p \in players \ players' :
           leaving' = leaving =>
             \E voter \in players' :
               2 * Cardinality((kickVote.Approvals \cup {voter}) \cap players')
                 > Cardinality(players')]_vars
  BY NextRight DEF KickStep
<1>2. QED BY <1>1, RoomInvariant, PTL DEF Spec, KickTakesMajority

----------------------------------------------------------------------------
(* The end of a room.                                                      *)

\* A room that is about to be forgotten has lost its host.
ForgottenAreHostless ==
  \A p \in RoomPlayer : leaving[p] = "removing" => created /\ hostPlayerID = NoOne

\* A room that has lost its host never gets another.
LEMMA HostlessForEver ==
  ASSUME RoomInv, [Next]_vars, created, hostPlayerID = NoOne
  PROVE  created' /\ hostPlayerID' = NoOne
<1> USE DEF roomVars
<1>1. ASSUME NEW p \in players, NEW ps, TransferHostIfGone(p, ps)
      PROVE  hostPlayerID' = NoOne
  BY <1>1, RoomAssumption DEF TransferHostIfGone, RoomInv
<1>2. ASSUME NEW vote, vote.TargetPlayerID \in players, ResolveKickVote(vote)
      PROVE  hostPlayerID' = NoOne
  <2>1. CASE UNCHANGED hostPlayerID
    BY <2>1
  <2>2. CASE TransferHostIfGone(vote.TargetPlayerID, players \ {vote.TargetPlayerID})
    BY <1>1, <1>2, <2>2
  <2>3. QED BY <1>2, <2>1, <2>2 DEF ResolveKickVote
<1>3. ASSUME NEW p \in RoomPlayer, Command(p) PROVE created' /\ hostPlayerID' = NoOne
  <2>1. created'
    BY <1>3 DEF Command
  <2>2. CASE (\E isReady \in BOOLEAN : SetReady(p, isReady)) \/ StartGame(p)
    BY <2>1, <2>2 DEF SetReady, StartGame
  <2>3. ASSUME NEW target, TransferHost(p, target) PROVE FALSE
    BY <2>3, RoomAssumption DEF TransferHost, RoomInv
  <2>4. ASSUME NEW target, StartKickVote(p, target) PROVE hostPlayerID' = NoOne
    <3> DEFINE vote == [TargetPlayerID |-> target, Approvals |-> {p}]
    <3>1. vote.TargetPlayerID \in players /\ ResolveKickVote(vote)
      BY <2>4 DEF StartKickVote
    <3> HIDE DEF vote
    <3>2. QED BY <1>2, <3>1
  <2>5. ASSUME NEW approve, CastKickVote(p, approve) PROVE hostPlayerID' = NoOne
    <3> DEFINE vote == [kickVote EXCEPT !.Approvals =
                          IF approve THEN @ \cup {p} ELSE @ \ {p}]
    <3>1. /\ kickVote \in KickVote /\ kickVote.TargetPlayerID \in players
          /\ ResolveKickVote(vote)
      BY <2>5 DEF CastKickVote, RoomInv, VoteIsAmongMembers
    <3>2. vote.TargetPlayerID = kickVote.TargetPlayerID
      BY <3>1 DEF KickVote
    <3> HIDE DEF vote
    <3>3. QED BY <1>2, <3>1, <3>2
  <2>6. QED BY <1>3, <2>1, <2>2, <2>3, <2>4, <2>5 DEF Command, RoomCommand
<1>4. ASSUME NEW p \in RoomPlayer, LeaveRoomLeave(p) PROVE created' /\ hostPlayerID' = NoOne
  <2>1. CASE Leave(p)
    BY <1>1, <1>4, <2>1 DEF Leave, LeaveRoomLeave
  <2>2. QED BY <1>4, <2>1 DEF LeaveRoomLeave
<1>5. ASSUME NEW p \in RoomPlayer, JoinRoomJoin(p) PROVE created' /\ hostPlayerID' = NoOne
  BY <1>5 DEF JoinRoomJoin, Join
<1>6. QED
  BY <1>3, <1>4, <1>5
     DEF Next, CallStep, CreateRoom, JoinRoomFind, LeaveRoomFind, LeaveRoomCount,
         LeaveRoomLook, LeaveRoomDelete, vars

\* A room comes to be forgotten only after it has been seen empty.
LEMMA NextForgotten ==
  RoomInv /\ ForgottenAreHostless /\ [Next]_vars =>
    ForgottenAreHostless' /\ (registered /\ ~registered' => hostPlayerID = NoOne)
<1> SUFFICES ASSUME RoomInv, ForgottenAreHostless, [Next]_vars
             PROVE  /\ ForgottenAreHostless'
                    /\ registered /\ ~registered' => hostPlayerID = NoOne
  OBVIOUS
<1>1. ASSUME NEW p \in RoomPlayer, leaving'[p] = "removing", leaving[p] # "removing"
      PROVE  created /\ hostPlayerID = NoOne
  <2>1. \E q \in RoomPlayer : LeaveRoomLook(q) /\ registered /\ players = {}
    <3>1. ASSUME NEW q \in RoomPlayer, NEW from, NEW to, to # "removing",
                 LeaveStep(q, from, to)
          PROVE  FALSE
      BY <1>1, <3>1 DEF LeaveStep, RoomInv
    <3>2. leaving' # leaving
      BY <1>1
    <3>3. PICK q \in RoomPlayer : \/ LeaveRoomFind(q) \/ LeaveRoomLeave(q)
                                  \/ LeaveRoomCount(q) \/ LeaveRoomLook(q)
                                  \/ LeaveRoomDelete(q)
      BY <3>2 DEF Next, CallStep, CreateRoom, JoinRoomFind, JoinRoomJoin, Command, vars
    <3>4. ~(\/ LeaveRoomFind(q) \/ LeaveRoomLeave(q)
            \/ LeaveRoomCount(q) \/ LeaveRoomDelete(q))
      BY <3>1 DEF LeaveRoomFind, LeaveRoomLeave, LeaveRoomCount, LeaveRoomDelete
    <3>5. LeaveRoomLook(q)
      BY <3>3, <3>4
    <3>6. registered /\ players = {}
      BY <3>1, <3>5 DEF LeaveRoomLook
    <3>7. QED BY <3>5, <3>6
  <2>2. QED BY <2>1 DEF RoomInv, HostIsMember
<1>2. ForgottenAreHostless'
  <2> SUFFICES ASSUME NEW p \in RoomPlayer, leaving'[p] = "removing"
               PROVE  created' /\ hostPlayerID' = NoOne
    BY DEF ForgottenAreHostless
  <2>1. created /\ hostPlayerID = NoOne
    BY <1>1 DEF ForgottenAreHostless
  <2>2. QED BY <2>1, HostlessForEver
<1>3. ASSUME registered, ~registered' PROVE hostPlayerID = NoOne
  <2>1. PICK p \in RoomPlayer : LeaveRoomDelete(p)
    BY <1>3 DEF Next, CallStep, CreateRoom, JoinRoomFind, JoinRoomJoin, LeaveRoomFind,
       LeaveRoomLeave, LeaveRoomCount, LeaveRoomLook, Command, vars
  <2>2. QED BY <2>1 DEF LeaveRoomDelete, LeaveStep, ForgottenAreHostless
<1>4. QED BY <1>2, <1>3

\* A room is forgotten only after everybody has left it, in whatever order the
\* calls of joining and leaving overlap (both looks of LeaveRoom).
THEOREM ForgottenCorrect == Spec => OnlyEmptiedRoomsForgotten
<1>1. Init => ForgottenAreHostless
  BY DEF Init, ForgottenAreHostless
<1>2. RoomInv /\ ForgottenAreHostless /\ [Next]_vars =>
        [registered /\ ~registered' => hostPlayerID = NoOne]_vars
  BY NextForgotten
<1>3. QED BY <1>1, <1>2, NextForgotten, RoomInvariant, PTL DEF Spec, OnlyEmptiedRoomsForgotten
----------------------------------------------------------------------------
(* The order of joining.                                                   *)

\* The order lists the members of S once each.
Lists(order, S) ==
  /\ order \in Seq(RoomPlayer)
  /\ S = {order[i] : i \in DOMAIN order}
  /\ \A i, j \in DOMAIN order : order[i] = order[j] => i = j

\* A room that is not overfull, in order, and the calls under way.
SeatingInv ==
  /\ Lists(playerOrder, players)
  /\ Cardinality(players) <= MaxPlayers
  /\ ready \subseteq players
  /\ gameStarted \in BOOLEAN /\ created \in BOOLEAN /\ registered \in BOOLEAN
  /\ joining \subseteq RoomPlayer

\* What a step does to the room, as far as SeatingInv goes.
SeatsRight ==
  /\ Lists(playerOrder', players')
  /\ Cardinality(players') <= MaxPlayers
  /\ ready' \subseteq players'
  /\ gameStarted' \in BOOLEAN

\* A list of players without repetitions is as long as there are players in it.
LEMMA ListLength ==
  ASSUME NEW order, NEW S, Lists(order, S)
  PROVE  IsFiniteSet(S) /\ Cardinality(S) = Len(order)
<1>1. Len(order) \in Nat /\ DOMAIN order = 1..Len(order)
  BY DEF Lists
<1>2. order \in Bijection(1..Len(order), S)
  BY <1>1 DEF Lists, Bijection, Injection, Surjection, IsInjective
<1>3. ExistsBijection(1..Len(order), S)
  BY <1>2 DEF ExistsBijection
<1>4. IsFiniteSet(1..Len(order)) /\ Cardinality(1..Len(order)) = Len(order)
  <2>1. 1 \in Int /\ Len(order) \in Int
    BY <1>1
  <2>2. /\ IsFiniteSet(1..Len(order))
        /\ Cardinality(1..Len(order)) = IF 1 > Len(order) THEN 0 ELSE Len(order) - 1 + 1
    BY <2>1, FS_Interval
  <2>3. QED BY <1>1, <2>2
<1>5. QED BY <1>3, <1>4, FS_Bijection

\* Whoever is taken out of the order is gone from it, and nobody else is.
LEMMA RemoveFromOrderRight ==
  ASSUME Lists(playerOrder, players), NEW p \in players, RemoveFromOrder(p)
  PROVE  Lists(playerOrder', players \ {p})
<1> DEFINE s == playerOrder
           n == Len(playerOrder)
<1>1. s \in Seq(RoomPlayer) /\ n \in Nat /\ DOMAIN s = 1..n
  BY DEF Lists
<1>2. PICK k \in 1..n : s[k] = p
  BY <1>1 DEF Lists
<1>3. {i \in 1..n : s[i] = p} = {k}
  BY <1>1, <1>2 DEF Lists
<1>4. Min({k}) = k
  <2>1. \A y \in {k} : k =< y
    BY <1>2
  <2>2. QED BY <2>1 DEF Min
<1>5. SelectInSeq(s, LAMBDA v : v = p) = k
  BY <1>3, <1>4 DEF SelectInSeq
<1>6. playerOrder' = SubSeq(s, 1, k - 1) \o SubSeq(s, k + 1, n)
  BY <1>2, <1>5 DEF RemoveFromOrder, RemoveFirst, RemoveAt
<1> DEFINE a == SubSeq(s, 1, k - 1)
           b == SubSeq(s, k + 1, n)
           t == playerOrder'
<1>7. /\ a \in Seq(RoomPlayer) /\ Len(a) = k - 1
      /\ \A i \in 1..(k - 1) : a[i] = s[i]
  <2>1. k - 1 \in Int /\ \A i \in 1..(k - 1) : s[i] \in RoomPlayer
    BY <1>1, <1>2
  <2>2. QED BY <1>2, <2>1, SubSeqProperties
<1>8. /\ b \in Seq(RoomPlayer) /\ Len(b) = n - k
      /\ \A i \in 1..(n - k) : b[i] = s[k + i]
  <2>1. /\ k + 1 \in Int /\ n \in Int
        /\ \A i \in (k + 1)..n : s[i] \in RoomPlayer
    BY <1>1, <1>2
  <2>2. /\ b \in Seq(RoomPlayer) /\ Len(b) = IF k + 1 <= n THEN n - (k + 1) + 1 ELSE 0
        /\ \A i \in 1..(n - (k + 1) + 1) : b[i] = s[(k + 1) + i - 1]
    BY <2>1, SubSeqProperties
  <2>3. n \in Nat /\ k \in 1..n
    BY <1>1
  <2> HIDE DEF b, n
  <2>4. QED BY <2>2, <2>3
<1> HIDE DEF a, b, s, n, t
<1>9. /\ t \in Seq(RoomPlayer) /\ DOMAIN t = 1..(n - 1)
      /\ \A i \in 1..(n - 1) : t[i] = IF i < k THEN s[i] ELSE s[i + 1]
  <2>1. t = a \o b
    BY <1>6 DEF a, b, s, n, t
  <2>2. /\ t \in Seq(RoomPlayer) /\ Len(t) = Len(a) + Len(b)
        /\ \A i \in 1..(Len(a) + Len(b)) :
             t[i] = IF i <= Len(a) THEN a[i] ELSE b[i - Len(a)]
    BY <1>7, <1>8, <2>1, ConcatProperties
  <2>3. DOMAIN t = 1..(n - 1)
    BY <1>1, <1>2, <1>7, <1>8, <2>2
  <2>4. ASSUME NEW i \in 1..(n - 1) PROVE t[i] = IF i < k THEN s[i] ELSE s[i + 1]
    <3>1. CASE i < k
      BY <1>1, <1>2, <1>7, <1>8, <2>2, <3>1
    <3>2. CASE ~(i < k)
      <4>1. t[i] = b[i - (k - 1)] /\ i - (k - 1) \in 1..(n - k)
        BY <1>1, <1>2, <1>7, <1>8, <2>2, <3>2
      <4>2. k + (i - (k - 1)) = i + 1
        BY <1>2
      <4>3. QED BY <1>8, <3>2, <4>1, <4>2
    <3>3. QED BY <3>1, <3>2
  <2>5. QED BY <2>2, <2>3, <2>4
<1>10. /\ players = {s[i] : i \in 1..n}
       /\ \A i, j \in 1..n : s[i] = s[j] => i = j
  BY <1>1 DEF Lists, s
<1>11. \A i, j \in DOMAIN t : t[i] = t[j] => i = j
  <2> SUFFICES ASSUME NEW i \in 1..(n - 1), NEW j \in 1..(n - 1), t[i] = t[j] PROVE i = j
    BY <1>9
  <2>1. i \in 1..n /\ i + 1 \in 1..n /\ j \in 1..n /\ j + 1 \in 1..n
    BY <1>1
  <2>2. QED BY <1>2, <1>9, <1>10, <2>1
<1>12. ASSUME NEW i \in DOMAIN t PROVE t[i] \in players \ {p}
  <2>1. i \in 1..n /\ i + 1 \in 1..n /\ i \in 1..(n - 1)
    BY <1>1, <1>9
  <2>2. CASE i < k
    <3>1. t[i] = s[i] /\ i # k
      BY <1>2, <1>9, <2>1, <2>2
    <3>2. QED BY <1>2, <1>10, <2>1, <3>1
  <2>3. CASE ~(i < k)
    <3>1. t[i] = s[i + 1] /\ i + 1 # k
      BY <1>2, <1>9, <2>1, <2>3
    <3>2. QED BY <1>2, <1>10, <2>1, <3>1
  <2>4. QED BY <2>2, <2>3
<1>13. ASSUME NEW q \in players \ {p} PROVE \E i \in DOMAIN t : t[i] = q
  <2>1. PICK i \in 1..n : s[i] = q
    BY <1>10
  <2>2. i # k
    BY <1>2, <2>1
  <2>3. CASE i < k
    BY <1>1, <1>2, <1>9, <2>1, <2>3
  <2>4. CASE i > k
    <3>1. i - 1 \in 1..(n - 1) /\ ~(i - 1 < k) /\ (i - 1) + 1 = i
      BY <1>1, <1>2, <2>4
    <3>2. QED BY <1>9, <2>1, <3>1
  <2>5. QED BY <1>2, <2>2, <2>3, <2>4
<1>14. players \ {p} = {t[i] : i \in DOMAIN t}
  BY <1>12, <1>13
<1>15. QED BY <1>9, <1>11, <1>14 DEF Lists, t

\* Taking somebody out leaves the others seated.
LEMMA FewerSeats ==
  ASSUME SeatingInv, NEW p \in players, players' = players \ {p}, RemoveFromOrder(p),
         ready' = ready \ {p}, gameStarted' = gameStarted
  PROVE  SeatsRight
<1>1. Lists(playerOrder', players')
  BY RemoveFromOrderRight DEF SeatingInv
<1>2. IsFiniteSet(players)
  BY ListLength DEF SeatingInv
<1>3. /\ Cardinality(players') <= Cardinality(players)
      /\ Cardinality(players) \in Nat /\ Cardinality(players') \in Nat
  BY <1>2, FS_Subset, FS_CardinalityType
<1>4. Cardinality(players') <= MaxPlayers
  BY <1>3, RoomAssumption DEF SeatingInv
<1>5. QED BY <1>1, <1>4 DEF SeatsRight, SeatingInv

\* Whoever comes in gets the last place, if there is one left.
LEMMA JoinSeats ==
  ASSUME SeatingInv, NEW p \in RoomPlayer, Join(p)
  PROVE  SeatsRight
<1> DEFINE s == playerOrder
           t == Append(playerOrder, p)
<1>1. /\ p \notin players /\ Cardinality(players) < MaxPlayers
      /\ players' = players \cup {p} /\ playerOrder' = t
      /\ UNCHANGED <<ready, gameStarted>>
  BY DEF Join
<1>2. IsFiniteSet(players)
  BY ListLength DEF SeatingInv
<1>3. Cardinality(players') <= MaxPlayers
  <2>1. Cardinality(players') = Cardinality(players) + 1
    BY <1>1, <1>2, FS_AddElement
  <2>2. Cardinality(players) \in Nat /\ MaxPlayers \in Nat
    BY <1>2, FS_CardinalityType, RoomAssumption
  <2>3. QED BY <1>1, <2>1, <2>2
<1>4. /\ s \in Seq(RoomPlayer) /\ Len(s) \in Nat /\ DOMAIN s = 1..Len(s)
      /\ players = {s[i] : i \in 1..Len(s)}
      /\ \A i, j \in 1..Len(s) : s[i] = s[j] => i = j
  BY DEF SeatingInv, Lists
<1>5. /\ t \in Seq(RoomPlayer) /\ DOMAIN t = 1..(Len(s) + 1)
      /\ \A i \in 1..Len(s) : t[i] = s[i]
      /\ t[Len(s) + 1] = p
  <2>1. /\ t \in Seq(RoomPlayer) /\ Len(t) = Len(s) + 1
        /\ \A i \in 1..Len(s) : t[i] = s[i]
        /\ t[Len(s) + 1] = p
    BY <1>4, AppendProperties
  <2>2. QED BY <2>1
<1> HIDE DEF s, t
<1>6. 1..(Len(s) + 1) = 1..Len(s) \cup {Len(s) + 1}
  BY <1>4
<1>7. players' = {t[i] : i \in DOMAIN t}
  BY <1>1, <1>4, <1>5, <1>6
<1>8. \A i, j \in DOMAIN t : t[i] = t[j] => i = j
  <2>1. \A i \in 1..Len(s) : t[i] # p
    BY <1>1, <1>4, <1>5
  <2>2. QED BY <1>4, <1>5, <1>6, <2>1
<1>9. QED BY <1>1, <1>3, <1>5, <1>7, <1>8 DEF SeatsRight, SeatingInv, Lists

\* A vote takes out its target or nobody.
LEMMA ResolveKickVoteSeats ==
  ASSUME SeatingInv, NEW vote, vote.TargetPlayerID \in players, ResolveKickVote(vote),
         gameStarted' = gameStarted
  PROVE  SeatsRight
<1>1. CASE UNCHANGED <<players, playerOrder, ready>>
  BY <1>1 DEF SeatsRight, SeatingInv
<1>2. CASE /\ players' = players \ {vote.TargetPlayerID}
           /\ RemoveFromOrder(vote.TargetPlayerID)
           /\ ready' = ready \ {vote.TargetPlayerID}
  BY <1>2, FewerSeats
<1>3. QED BY <1>1, <1>2 DEF ResolveKickVote

\* The commands of a member take out the target of a vote or nobody.
LEMMA RoomCommandSeats ==
  ASSUME RoomInv, SeatingInv, NEW p \in RoomPlayer, RoomCommand(p)
  PROVE  SeatsRight
<1>1. ASSUME NEW isReady \in BOOLEAN, SetReady(p, isReady) PROVE SeatsRight
  BY <1>1 DEF SetReady, SeatsRight, SeatingInv
<1>2. CASE StartGame(p)
  BY <1>2 DEF StartGame, SeatsRight, SeatingInv
<1>3. ASSUME NEW target, TransferHost(p, target) PROVE SeatsRight
  BY <1>3 DEF TransferHost, SeatsRight, SeatingInv
<1>4. ASSUME NEW target, StartKickVote(p, target) PROVE SeatsRight
  <2> DEFINE vote == [TargetPlayerID |-> target, Approvals |-> {p}]
  <2>1. /\ vote.TargetPlayerID \in players /\ ResolveKickVote(vote)
        /\ gameStarted' = gameStarted
    BY <1>4 DEF StartKickVote
  <2> HIDE DEF vote
  <2>2. QED BY <2>1, ResolveKickVoteSeats
<1>5. ASSUME NEW approve, CastKickVote(p, approve) PROVE SeatsRight
  <2> DEFINE vote == [kickVote EXCEPT !.Approvals =
                        IF approve THEN @ \cup {p} ELSE @ \ {p}]
  <2>1. /\ kickVote \in KickVote /\ kickVote.TargetPlayerID \in players
        /\ ResolveKickVote(vote) /\ gameStarted' = gameStarted
    BY <1>5 DEF CastKickVote, RoomInv, VoteIsAmongMembers
  <2>2. vote.TargetPlayerID = kickVote.TargetPlayerID
    BY <2>1 DEF KickVote
  <2> HIDE DEF vote
  <2>3. QED BY <2>1, <2>2, ResolveKickVoteSeats
<1>6. QED BY <1>1, <1>2, <1>3, <1>4, <1>5 DEF RoomCommand

\* Nobody has come yet.
LEMMA InitSeating == Init => SeatingInv
<1> SUFFICES ASSUME Init PROVE SeatingInv
  OBVIOUS
<1>1. Cardinality(players) <= MaxPlayers
  BY FS_EmptySet, RoomAssumption DEF Init
<1>2. Lists(<<>>, {})
  BY DEF Lists
<1>3. QED BY <1>1, <1>2 DEF Init, SeatingInv

\* Every step keeps everyone in order.
LEMMA NextSeating == RoomInv /\ SeatingInv /\ [Next]_vars => SeatingInv'
<1> SUFFICES ASSUME RoomInv, SeatingInv, [Next]_vars PROVE SeatingInv'
  OBVIOUS
<1> USE DEF roomVars
<1>1. ASSUME SeatsRight, created' \in BOOLEAN, registered' \in BOOLEAN,
             joining' \subseteq RoomPlayer
      PROVE  SeatingInv'
  BY <1>1 DEF SeatsRight, SeatingInv
<1>2. ASSUME UNCHANGED roomVars PROVE SeatsRight
  BY <1>2 DEF SeatsRight, SeatingInv
<1>3. ASSUME NEW p \in RoomPlayer, CreateRoom(p) PROVE SeatingInv'
  <2>1. /\ players' = {p} /\ playerOrder' = <<p>>
        /\ UNCHANGED <<ready, gameStarted, joining>> /\ created' = TRUE /\ registered' = TRUE
    BY <1>3 DEF CreateRoom, NewRoom
  <2>2. ready = {}
    BY <1>3 DEF CreateRoom, RoomInv, SeatingInv
  <2>3. Cardinality(players') <= MaxPlayers
    <3>1. Cardinality({p}) = 1
      BY FS_Singleton
    <3>2. MaxPlayers \in Nat /\ 1 <= MaxPlayers
      BY RoomAssumption
    <3>3. QED BY <2>1, <3>1, <3>2
  <2>4. Lists(<<p>>, {p})
    BY DEF Lists
  <2>5. QED BY <2>1, <2>2, <2>3, <2>4 DEF SeatingInv
<1>4. ASSUME NEW p \in RoomPlayer, JoinRoomFind(p) PROVE SeatingInv'
  BY <1>1, <1>2, <1>4 DEF JoinRoomFind, SeatingInv
<1>5. ASSUME NEW p \in RoomPlayer, JoinRoomJoin(p) PROVE SeatingInv'
  <2>1. SeatsRight
    BY <1>2, <1>5, JoinSeats DEF JoinRoomJoin
  <2>2. QED BY <1>1, <1>5, <2>1 DEF JoinRoomJoin, SeatingInv
<1>6. ASSUME NEW p \in RoomPlayer,
             \/ LeaveRoomFind(p) \/ LeaveRoomCount(p)
             \/ LeaveRoomLook(p) \/ LeaveRoomDelete(p)
      PROVE  SeatingInv'
  BY <1>1, <1>2, <1>6
     DEF LeaveRoomFind, LeaveRoomCount, LeaveRoomLook, LeaveRoomDelete, SeatingInv
<1>7. ASSUME NEW p \in RoomPlayer, LeaveRoomLeave(p) PROVE SeatingInv'
  <2>1. CASE Leave(p)
    <3>1. SeatsRight
      BY <2>1, FewerSeats DEF Leave
    <3>2. QED BY <1>1, <1>7, <3>1 DEF LeaveRoomLeave, SeatingInv
  <2>2. CASE UNCHANGED roomVars
    BY <1>1, <1>2, <1>7, <2>2 DEF LeaveRoomLeave, SeatingInv
  <2>3. QED BY <1>7, <2>1, <2>2 DEF LeaveRoomLeave
<1>8. ASSUME NEW p \in RoomPlayer, Command(p) PROVE SeatingInv'
  BY <1>1, <1>8, RoomCommandSeats DEF Command, SeatingInv
<1>9. CASE UNCHANGED vars
  BY <1>1, <1>2, <1>9 DEF vars, SeatingInv
<1>10. QED BY <1>3, <1>4, <1>5, <1>6, <1>7, <1>8, <1>9 DEF Next, CallStep

\* Everyone is in order all the time.
LEMMA SeatingInvariant == Spec => []SeatingInv
BY InitSeating, NextSeating, RoomInvariant, PTL DEF Spec

\* Every variable keeps its type, and no room holds more than MaxPlayers,
\* however many calls of JoinRoom have found a place free (Room.Join).
THEOREM RoomTypeCorrect == Spec => []RoomTypeOK
<1>1. ASSUME RoomInv, SeatingInv PROVE RoomTypeOK
  BY <1>1 DEF RoomInv, SeatingInv, HostIsMember, Lists, RoomTypeOK
<1>2. QED BY <1>1, RoomInvariant, SeatingInvariant, PTL

\* The order of joining lists the members once each, in a room of any size,
\* whatever the ways they come and go (removePlayerFromOrderLocked).
THEOREM OrderCorrect == Spec => []OrderMatchesPlayers
<1>1. ASSUME SeatingInv PROVE OrderMatchesPlayers
  BY <1>1, ListLength DEF SeatingInv, Lists, OrderMatchesPlayers
<1>2. QED BY <1>1, SeatingInvariant, PTL
============================================================================
