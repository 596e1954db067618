----------------------------- MODULE HubProofs -----------------------------
(***************************************************************************)
(* Theorems about the hub, for every set of connections and players: what  *)
(* it promises of the registry, and that everybody is told.  A goroutine   *)
(* that is not idle has the rest of one handler's calls left; the proofs   *)
(* go by the set of these, Dues, of every goroutine.  The steps of the     *)
(* connections come first; the callbacks of the timers, which leave the    *)
(* registry alone, come after them.                                        *)
(***************************************************************************)
EXTENDS Hub, SequenceTheorems, TLAPS

\* The steps that broadcast something, and the notice to a kicked player.
Notice == SendKind("notice")
Events == SendKind("GAME_EVENTS")
RoomViewOf(n) == SendAll([kind |-> "ROOM_VIEW", version |-> n, to |-> RoomPlayer])
GameViewsOf(n, ps) == SendAll([kind |-> "GAME_VIEW", version |-> n, to |-> ps])
GoodbyeTo(p) == [kind |-> "KICKED_FROM_ROOM", version |-> 0, to |-> {p}]

\* What a goroutine may have left to do: of CREATE_ROOM, JOIN_ROOM and
\* SET_READY,
EnterErrand(s) ==
  \/ \E p \in drawn : s = <<DoFor("attach", p), Do("reply"), Do("roomView")>>
  \/ s = <<Do("attach"), Do("reply"), Do("elsewhere")>>
  \/ s = <<Do("reply"), Do("elsewhere")>>
  \/ s = <<Do("elsewhere")>>
  \/ s = <<Do("reply"), Do("roomView")>>

\* of the broadcast that ends most commands,
ViewErrand(s) ==
  \/ s = <<Do("roomView")>>
  \/ \E n \in Nat : s = <<RoomViewOf(n)>>

\* of START_GAME, and what TRANSFER_HOST and the votes end with,
StartErrand(s) ==
  \/ s = <<Notice, Do("roomView")>>
  \/ s = <<Notice, Do("gameViews"), Do("roomView")>>
  \/ s = <<Do("gameViews"), Do("roomView")>>
  \/ \E n \in Nat, ps \in SUBSET RoomPlayer : s = <<GameViewsOf(n, ps), Do("roomView")>>

\* of LEAVE_ROOM,
LeaveErrand(s) ==
  \E p \in drawn :
    \/ s = <<Do("detach"), DoFor("reply", p), Do("roomView")>>
    \/ s = <<DoFor("reply", p), Do("roomView")>>

\* of a vote that has removed its target,
KickErrand(s) ==
  \E p \in drawn :
    \/ s = <<DoFor("notify", p), DoFor("detachPlayer", p), Notice, Do("roomView")>>
    \/ s = <<DoFor("detachPlayer", p), Notice, Do("roomView")>>

\* of a command of the game,
GameErrand(s) ==
  \/ s = <<Do("reply"), Events, Do("gameViews")>>
  \/ s = <<Events, Do("gameViews")>>
  \/ s = <<Do("gameViews")>>
  \/ \E n \in Nat, ps \in SUBSET RoomPlayer : s = <<GameViewsOf(n, ps)>>

\* and of unregisterConnection, or of what a failed write leaves of it.
CloseErrand(s) ==
  \/ s = <<Do("detach"), Do("close")>>
  \/ \E p \in drawn :
       \/ s = <<Do("detach"), DoFor("leave", p), Do("roomView"), Do("close")>>
       \/ s = <<DoFor("leave", p), Do("roomView"), Do("close")>>
  \/ s = <<Do("roomView"), Do("close")>>
  \/ \E n \in Nat : s = <<RoomViewOf(n), Do("close")>>
  \/ s = <<Do("close")>>

\* What a goroutine between two broadcasts has left to do.
Errand(s) ==
  \/ s = <<>>
  \/ EnterErrand(s) \/ ViewErrand(s) \/ StartErrand(s) \/ LeaveErrand(s)
  \/ KickErrand(s) \/ GameErrand(s) \/ CloseErrand(s)

\* What a goroutine in the middle of sending m has left to do after it.
WritingErrand(s, m) ==
  \/ /\ \E n \in Nat : m = RoomViewOf(n).message
     /\ s = <<>> \/ s = <<Do("close")>>
  \/ /\ \E n \in Nat, ps \in SUBSET RoomPlayer : m = GameViewsOf(n, ps).message
     /\ s = <<>> \/ s = <<Do("roomView")>>
  \/ /\ m = Notice.message
     /\ s = <<Do("roomView")>> \/ s = <<Do("gameViews"), Do("roomView")>>
  \/ m = Events.message /\ s = <<Do("gameViews")>>
  \/ \E p \in drawn : m = GoodbyeTo(p) /\ s = <<DoFor("detachPlayer", p), Notice, Do("roomView")>>

\* A goroutine only ever has the rest of one handler's calls left.
ShapedAt(c) ==
  \/ writing[c] = NoBroadcast /\ Errand(todo[c])
  \/ writing[c].left # {} /\ WritingErrand(todo[c], writing[c].message)

\* That goes for all of them.
Shaped == \A c \in Conn : ShapedAt(c)

\* The steps that a goroutine has still to take, whatever their order.
Dues(c) == Range(todo[c])
\* One of them is step.
Due(c, step) == step \in Dues(c)

\* The types, with the members, seats and ready players among the ids given.
TypeInv ==
  /\ drawn \subseteq RoomPlayer
  /\ players \subseteq drawn /\ seats \subseteq drawn /\ ready \subseteq drawn
  /\ gameStarted \in BOOLEAN
  /\ link \in [Conn -> {"closed", "up", "down"}]
  /\ playerID \in [Conn -> drawn \cup {NoOne}]
  /\ attached = {c \in Conn : Player(c) # NoOne}
  /\ DOMAIN todo = Conn
  /\ writing \in [Conn -> Broadcast]
  /\ version \in [ViewKind -> Nat]
  /\ seen \in [Conn -> [ViewKind -> Nat]]
  /\ notified \subseteq drawn
  /\ DOMAIN causes = Cause

----------------------------------------------------------------------------
(* The lists, steps and messages of the handlers.                          *)

\* Lists of at most four elements.
LEMMA Lists ==
  /\ Range(<<>>) = {}
  /\ \A a : /\ <<a>> # <<>> /\ Head(<<a>>) = a /\ Tail(<<a>>) = <<>>
            /\ Range(<<a>>) = {a} /\ Last(<<a>>) = a
  /\ \A a, b : /\ <<a, b>> # <<>> /\ Head(<<a, b>>) = a /\ Tail(<<a, b>>) = <<b>>
               /\ Range(<<a, b>>) = {a, b} /\ Last(<<a, b>>) = b
  /\ \A a, b, c :
       /\ <<a, b, c>> # <<>> /\ Head(<<a, b, c>>) = a /\ Tail(<<a, b, c>>) = <<b, c>>
       /\ Range(<<a, b, c>>) = {a, b, c} /\ Last(<<a, b, c>>) = c
  /\ \A a, b, c, d :
       /\ <<a, b, c, d>> # <<>> /\ Head(<<a, b, c, d>>) = a /\ Tail(<<a, b, c, d>>) = <<b, c, d>>
       /\ Range(<<a, b, c, d>>) = {a, b, c, d} /\ Last(<<a, b, c, d>>) = d
  BY DEF Range, Last

\* The lists that the handlers put together.
LEMMA ConsNothing == \A a : <<a>> \o <<>> = <<a>>
  OBVIOUS

\* An empty list before two elements.
LEMMA NothingJoined == \A a, b : <<>> \o <<a, b>> = <<a, b>>
  OBVIOUS

\* An element before another one.
LEMMA ConsOne ==
  ASSUME NEW a, NEW b
  PROVE  <<a>> \o <<b>> = <<a, b>>
<1> DEFINE s == <<a>>  t == <<b>>  u == <<a, b>>  S == {a, b}
<1>1. s \in Seq(S) /\ t \in Seq(S) /\ u \in Seq(S)
  OBVIOUS
<1>2. Len(s) = 1 /\ Len(t) = 1 /\ Len(u) = 2
  OBVIOUS
<1>3. s \o t \in Seq(S) /\ Len(s \o t) = 2
  BY <1>1, <1>2
<1>4. \A i \in 1..2 : (s \o t)[i] = u[i]
  OBVIOUS
<1> QED BY <1>1, <1>2, <1>3, <1>4, SeqEqual

\* Two elements before two others.
LEMMA PairsJoined ==
  ASSUME NEW a, NEW b, NEW c, NEW d
  PROVE  <<a, b>> \o <<c, d>> = <<a, b, c, d>>
<1> DEFINE s == <<a, b>>  t == <<c, d>>  u == <<a, b, c, d>>  S == {a, b, c, d}
<1>1. s \in Seq(S) /\ t \in Seq(S) /\ u \in Seq(S)
  OBVIOUS
<1>2. Len(s) = 2 /\ Len(t) = 2 /\ Len(u) = 4
  OBVIOUS
<1>3. s \o t \in Seq(S) /\ Len(s \o t) = 4
  BY <1>1, <1>2
<1>4. \A i \in 1..4 : (s \o t)[i] = u[i]
  OBVIOUS
<1> QED BY <1>1, <1>2, <1>3, <1>4, SeqEqual

\* The fields of the steps.
LEMMA StepFields ==
  /\ \A w : Do(w).do = w /\ Do(w).player = NoOne /\ Do(w).message = NoMessage
  /\ \A w, p : /\ DoFor(w, p).do = w /\ DoFor(w, p).player = p
               /\ DoFor(w, p).message = NoMessage
  /\ \A m : SendAll(m).do = "broadcast" /\ SendAll(m).message = m
  /\ \A k : SendKind(k).do = "broadcast" /\ SendKind(k).message = [NoMessage EXCEPT !.kind = k]
  /\ \A n : RoomViewOf(n).do = "broadcast"
  /\ \A n, ps : GameViewsOf(n, ps).do = "broadcast"
  /\ Notice.do = "broadcast" /\ Events.do = "broadcast"
  BY DEF Do, DoFor, SendAll, SendKind, RoomViewOf, GameViewsOf, Notice, Events

\* The messages that the broadcasts send.
LEMMA MessageFields ==
  /\ NoMessage.kind = "none"
  /\ \A n : RoomViewOf(n).message = [kind |-> "ROOM_VIEW", version |-> n, to |-> RoomPlayer]
  /\ \A n, ps : GameViewsOf(n, ps).message = [kind |-> "GAME_VIEW", version |-> n, to |-> ps]
  /\ Notice.message = [kind |-> "notice", version |-> 0, to |-> {}]
  /\ Events.message = [kind |-> "GAME_EVENTS", version |-> 0, to |-> {}]
  BY DEF Do, SendAll, SendKind, RoomViewOf, GameViewsOf, Notice, Events, NoMessage

\* The kinds and versions of the messages, field by field.
LEMMA MessageKinds ==
  /\ \A w : Do(w).message.kind = "none"
  /\ \A w, p : DoFor(w, p).message.kind = "none"
  /\ \A n : RoomViewOf(n).message.kind = "ROOM_VIEW"
  /\ \A n : RoomViewOf(n).message.version = n
  /\ \A n, ps : GameViewsOf(n, ps).message.kind = "GAME_VIEW"
  /\ \A n, ps : GameViewsOf(n, ps).message.version = n
  /\ \A n, ps : GameViewsOf(n, ps).message.to = ps
  /\ Notice.message.kind = "notice" /\ Events.message.kind = "GAME_EVENTS"
  /\ \A p : GoodbyeTo(p).kind = "KICKED_FROM_ROOM"
  /\ NoBroadcast.message.kind = "none" /\ NoBroadcast.left = {}
  BY DEF Do, DoFor, SendAll, SendKind, RoomViewOf, GameViewsOf, Notice, Events, GoodbyeTo,
         NoMessage, NoBroadcast

\* A goroutine that is not sending has the rest of some handler left.
LEMMA AtHome ==
  ASSUME Shaped, NEW c \in Conn, writing[c] = NoBroadcast
  PROVE  Errand(todo[c])
  BY DEF Shaped, ShapedAt, NoBroadcast

\* The first step tells which handler it is, as far as that is needed.
LEMMA Heads ==
  ASSUME NEW s, Errand(s), s # <<>>
  PROVE
    /\ Head(s).do = "attach" =>
         \/ \E p \in drawn : s = <<DoFor("attach", p), Do("reply"), Do("roomView")>>
         \/ s = <<Do("attach"), Do("reply"), Do("elsewhere")>>
    /\ Head(s).do = "elsewhere" => s = <<Do("elsewhere")>>
    /\ Head(s).do = "detach" =>
         \/ s = <<Do("detach"), Do("close")>>
         \/ \E p \in drawn :
              \/ s = <<Do("detach"), DoFor("reply", p), Do("roomView")>>
              \/ s = <<Do("detach"), DoFor("leave", p), Do("roomView"), Do("close")>>
    /\ Head(s).do = "detachPlayer" =>
         \E p \in drawn : s = <<DoFor("detachPlayer", p), Notice, Do("roomView")>>
    /\ Head(s).do = "notify" =>
         \E p \in drawn :
           s = <<DoFor("notify", p), DoFor("detachPlayer", p), Notice, Do("roomView")>>
    /\ Head(s).do = "leave" =>
         \E p \in drawn : s = <<DoFor("leave", p), Do("roomView"), Do("close")>>
    /\ Head(s).do = "close" => s = <<Do("close")>>
    /\ Head(s).do = "reply" =>
         \/ s = <<Do("reply"), Do("elsewhere")>>
         \/ s = <<Do("reply"), Do("roomView")>>
         \/ \E p \in drawn : s = <<DoFor("reply", p), Do("roomView")>>
         \/ s = <<Do("reply"), Events, Do("gameViews")>>
    /\ Head(s).do = "roomView" => s = <<Do("roomView")>> \/ s = <<Do("roomView"), Do("close")>>
    /\ Head(s).do = "gameViews" => s = <<Do("gameViews")>> \/ s = <<Do("gameViews"), Do("roomView")>>
    /\ Head(s).do = "broadcast" =>
         \/ \E n \in Nat : s = <<RoomViewOf(n)>> \/ s = <<RoomViewOf(n), Do("close")>>
         \/ \E n \in Nat, ps \in SUBSET RoomPlayer :
              s = <<GameViewsOf(n, ps)>> \/ s = <<GameViewsOf(n, ps), Do("roomView")>>
         \/ s = <<Notice, Do("roomView")>> \/ s = <<Notice, Do("gameViews"), Do("roomView")>>
         \/ s = <<Events, Do("gameViews")>>
<1> USE Lists, StepFields
<1>1. CASE EnterErrand(s)
  BY <1>1 DEF EnterErrand
<1>2. CASE ViewErrand(s)
  BY <1>2 DEF ViewErrand
<1>3. CASE StartErrand(s)
  BY <1>3 DEF StartErrand
<1>4. CASE LeaveErrand(s)
  BY <1>4 DEF LeaveErrand
<1>5. CASE KickErrand(s)
  BY <1>5 DEF KickErrand
<1>6. CASE GameErrand(s)
  BY <1>6 DEF GameErrand
<1>7. CASE CloseErrand(s)
  BY <1>7 DEF CloseErrand
<1> QED
  BY <1>1, <1>2, <1>3, <1>4, <1>5, <1>6, <1>7 DEF Errand

----------------------------------------------------------------------------
(* What each step does to what its goroutine has left to do.               *)

\* A step of c leaves the other goroutines where they are.
Apart(c) ==
  /\ DOMAIN todo' = Conn
  /\ \A d \in Conn \ {c} : todo'[d] = todo[d] /\ Dues(d)' = Dues(d) /\ writing'[d] = writing[d]

\* What unregisterConnection does, as a set.
UnregisterDues(c) ==
  IF Player(c) = NoOne
    THEN {Do("detach"), Do("close")}
    ELSE {Do("detach"), DoFor("leave", Player(c)), Do("roomView"), Do("close")}

\* A step of c that sets what c has left to do.
LEMMA Continued ==
  ASSUME TypeInv, NEW c \in Conn, NEW s, Continue(c, s),
         \A d \in Conn \ {c} : writing'[d] = writing[d]
  PROVE  Apart(c) /\ todo'[c] = s /\ Dues(c)' = Range(s)
  BY DEF TypeInv, Continue, Apart, Dues

\* attachClientToRoom is followed by the answer, and by the view of a room that
\* was joined.
LEMMA AttachEffect ==
  ASSUME TypeInv, Shaped, NEW c \in Conn, Attach(c)
  PROVE  /\ Apart(c) /\ ShapedAt(c)'
         /\ \E p \in drawn \cup {NoOne} :
              /\ Current(c).player = p
              /\ \/ /\ p # NoOne
                    /\ Dues(c) = {DoFor("attach", p), Do("reply"), Do("roomView")}
                    /\ Dues(c)' = {Do("reply"), Do("roomView")}
                 \/ /\ p = NoOne
                    /\ Dues(c) = {Do("attach"), Do("reply"), Do("elsewhere")}
                    /\ Dues(c)' = {Do("reply"), Do("elsewhere")}
<1>1. writing[c] = NoBroadcast /\ todo[c] # <<>> /\ Errand(todo[c]) /\ Head(todo[c]).do = "attach"
  BY AtHome DEF Attach, At
<1>2. /\ Apart(c) /\ todo'[c] = Tail(todo[c]) /\ Dues(c)' = Range(Tail(todo[c]))
      /\ writing' = writing /\ drawn' = drawn
  BY Continued DEF Attach, Later, RoomStill
<1>3. NoOne \notin drawn
  BY RoomAssumption DEF TypeInv
<1>4. CASE \E p \in drawn : todo[c] = <<DoFor("attach", p), Do("reply"), Do("roomView")>>
  BY <1>1, <1>2, <1>3, <1>4, Lists, StepFields DEF Dues, Current, ShapedAt, Errand, EnterErrand
<1>5. CASE todo[c] = <<Do("attach"), Do("reply"), Do("elsewhere")>>
  BY <1>1, <1>2, <1>5, Lists, StepFields DEF Dues, Current, ShapedAt, Errand, EnterErrand
<1> QED BY <1>1, <1>4, <1>5, Heads

\* detachClientFromRoom comes first in LEAVE_ROOM and in unregisterConnection.
LEMMA DetachEffect ==
  ASSUME TypeInv, Shaped, NEW c \in Conn, Detach(c)
  PROVE  /\ Apart(c) /\ ShapedAt(c)'
         /\ \/ Dues(c) = {Do("detach"), Do("close")} /\ Dues(c)' = {Do("close")}
            \/ \E p \in drawn :
                 \/ /\ Dues(c) = {Do("detach"), DoFor("reply", p), Do("roomView")}
                    /\ Dues(c)' = {DoFor("reply", p), Do("roomView")}
                 \/ /\ Dues(c) = {Do("detach"), DoFor("leave", p), Do("roomView"), Do("close")}
                    /\ Dues(c)' = {DoFor("leave", p), Do("roomView"), Do("close")}
<1>1. writing[c] = NoBroadcast /\ todo[c] # <<>> /\ Errand(todo[c]) /\ Head(todo[c]).do = "detach"
  BY AtHome DEF Detach, At
<1>2. /\ Apart(c) /\ todo'[c] = Tail(todo[c]) /\ Dues(c)' = Range(Tail(todo[c]))
      /\ writing' = writing /\ drawn' = drawn
  BY Continued DEF Detach, Later, RoomStill
<1>3. CASE todo[c] = <<Do("detach"), Do("close")>>
  BY <1>1, <1>2, <1>3, Lists DEF Dues, ShapedAt, Errand, CloseErrand
<1>4. CASE \E p \in drawn : todo[c] = <<Do("detach"), DoFor("reply", p), Do("roomView")>>
  BY <1>1, <1>2, <1>4, Lists DEF Dues, ShapedAt, Errand, LeaveErrand
<1>5. CASE \E p \in drawn :
             todo[c] = <<Do("detach"), DoFor("leave", p), Do("roomView"), Do("close")>>
  BY <1>1, <1>2, <1>5, Lists DEF Dues, ShapedAt, Errand, CloseErrand
<1> QED BY <1>1, <1>3, <1>4, <1>5, Heads

\* detachRoomPlayer comes after the goodbye and before the notice.
LEMMA DetachPlayerEffect ==
  ASSUME TypeInv, Shaped, NEW c \in Conn, DetachPlayer(c)
  PROVE  /\ Apart(c) /\ ShapedAt(c)'
         /\ \E p \in drawn :
              /\ Current(c).player = p
              /\ Dues(c) = {DoFor("detachPlayer", p), Notice, Do("roomView")}
              /\ Dues(c)' = {Notice, Do("roomView")}
<1>1. writing[c] = NoBroadcast /\ todo[c] # <<>> /\ Errand(todo[c]) /\ Head(todo[c]).do = "detachPlayer"
  BY AtHome DEF DetachPlayer, At
<1>2. /\ Apart(c) /\ todo'[c] = Tail(todo[c]) /\ Dues(c)' = Range(Tail(todo[c]))
      /\ writing' = writing /\ drawn' = drawn
  BY Continued DEF DetachPlayer, Later, RoomStill
<1>3. PICK p \in drawn : todo[c] = <<DoFor("detachPlayer", p), Notice, Do("roomView")>>
  BY <1>1, Heads
<1> QED BY <1>1, <1>2, <1>3, Lists, StepFields DEF Dues, Current, ShapedAt, Errand, StartErrand

\* The steps of unregisterConnection.
LEMMA UnregisterList ==
  ASSUME TypeInv, NEW c \in Conn
  PROVE  /\ Range(Unregister(c)) = UnregisterDues(c)
         /\ CloseErrand(Unregister(c))
<1>1. CASE Player(c) = NoOne
  BY <1>1, Lists DEF Unregister, UnregisterDues, CloseErrand
<1>2. CASE Player(c) # NoOne
  <2>1. Player(c) \in drawn
    BY <1>2 DEF TypeInv, Player
  <2> QED BY <1>2, <2>1, Lists DEF Unregister, UnregisterDues, CloseErrand
<1> QED BY <1>1, <1>2

\* A handler whose write fails goes on with unregisterConnection; in
\* unregisterConnection itself only the close is left.
LEMMA GivesUp ==
  ASSUME TypeInv, NEW c \in Conn, GiveUp(c), UNCHANGED drawn
  PROVE  /\ Apart(c) /\ writing'[c] = NoBroadcast
         /\ ~Closing(c) => Dues(c)' = UnregisterDues(c) /\ ShapedAt(c)'
         /\ Closing(c) => Dues(c)' = {Do("close")} /\ ShapedAt(c)'
<1>1. CASE Closing(c)
  BY <1>1, Lists DEF GiveUp, TypeInv, Apart, Dues, ShapedAt, Errand, CloseErrand
<1>2. CASE ~Closing(c)
  <2>1. Apart(c) /\ writing'[c] = NoBroadcast /\ todo'[c] = Unregister(c)
    BY <1>2 DEF GiveUp, TypeInv, Apart, Dues
  <2>2. CloseErrand(todo[c])'
    BY <2>1, UnregisterList DEF CloseErrand
  <2> QED
    BY <1>2, <2>1, <2>2, UnregisterList DEF Dues, ShapedAt, Errand
<1> QED BY <1>1, <1>2

\* What is left to do where an answer comes first.
ReplyDues(c) ==
  \/ Dues(c) = {Do("reply"), Do("elsewhere")} /\ Current(c).player = NoOne
  \/ Dues(c) = {Do("reply"), Do("roomView")} /\ Current(c).player = NoOne
  \/ \E p \in drawn : Dues(c) = {DoFor("reply", p), Do("roomView")} /\ Current(c).player = p
  \/ Dues(c) = {Do("reply"), Events, Do("gameViews")} /\ Current(c).player = NoOne

\* An answer is never part of unregisterConnection.
LEMMA AtReply ==
  ASSUME TypeInv, Shaped, NEW c \in Conn, At(c, "reply")
  PROVE  ~Closing(c) /\ ReplyDues(c)
<1>1. todo[c] # <<>> /\ Errand(todo[c]) /\ Head(todo[c]).do = "reply"
  BY AtHome DEF At
<1> QED BY <1>1, Heads, Lists, StepFields DEF Dues, ReplyDues, Closing, Current

\* After the answer comes what the handler has to tell the others.
LEMMA ReplyWorksEffect ==
  ASSUME TypeInv, Shaped, NEW c \in Conn, At(c, "reply"), Continue(c, Later(c)),
         UNCHANGED <<drawn, writing>>
  PROVE  /\ Apart(c) /\ ShapedAt(c)'
         /\ \/ /\ Dues(c) = {Do("reply"), Do("elsewhere")}
               /\ Dues(c)' = {Do("elsewhere")} /\ todo'[c] = <<Do("elsewhere")>>
            \/ /\ Dues(c) = {Do("reply"), Do("roomView")}
               /\ Dues(c)' = {Do("roomView")} /\ todo'[c] = <<Do("roomView")>>
            \/ \E p \in drawn : /\ Dues(c) = {DoFor("reply", p), Do("roomView")}
                                /\ Dues(c)' = {Do("roomView")} /\ todo'[c] = <<Do("roomView")>>
            \/ /\ Dues(c) = {Do("reply"), Events, Do("gameViews")}
               /\ Dues(c)' = {Events, Do("gameViews")}
<1>1. writing[c] = NoBroadcast /\ todo[c] # <<>> /\ Errand(todo[c]) /\ Head(todo[c]).do = "reply"
  BY AtHome DEF At
<1>2. /\ Apart(c) /\ todo'[c] = Tail(todo[c]) /\ Dues(c)' = Range(Tail(todo[c]))
      /\ writing' = writing /\ drawn' = drawn
  BY Continued DEF Later
<1>3. CASE todo[c] = <<Do("reply"), Do("elsewhere")>>
  BY <1>1, <1>2, <1>3, Lists DEF Dues, ShapedAt, Errand, EnterErrand
<1>4. ASSUME NEW first, todo[c] = <<first, Do("roomView")>>
      PROVE  /\ Dues(c) = {first, Do("roomView")} /\ todo'[c] = <<Do("roomView")>>
             /\ Dues(c)' = {Do("roomView")} /\ ShapedAt(c)'
  <2>1. Dues(c) = {first, Do("roomView")} /\ Tail(todo[c]) = <<Do("roomView")>>
    BY <1>4, Lists DEF Dues
  <2> QED BY <1>1, <1>2, <2>1, Lists DEF ShapedAt, Errand, ViewErrand
<1>5. CASE todo[c] = <<Do("reply"), Events, Do("gameViews")>>
  BY <1>1, <1>2, <1>5, Lists DEF Dues, ShapedAt, Errand, GameErrand
<1>6. CASE todo[c] = <<Do("reply"), Do("roomView")>>
  BY <1>2, <1>4, <1>6
<1>7. CASE \E p \in drawn : todo[c] = <<DoFor("reply", p), Do("roomView")>>
  <2>1. PICK p \in drawn : todo[c] = <<DoFor("reply", p), Do("roomView")>>
    BY <1>7
  <2> QED BY <1>2, <1>4, <2>1
<1> QED BY <1>1, <1>3, <1>5, <1>6, <1>7, Heads

\* The view of another room comes last, and is not part of unregisterConnection.
LEMMA AtElsewhere ==
  ASSUME TypeInv, Shaped, NEW c \in Conn, At(c, "elsewhere")
  PROVE  /\ ~Closing(c) /\ writing[c] = NoBroadcast
         /\ todo[c] = <<Do("elsewhere")>> /\ Dues(c) = {Do("elsewhere")}
<1>1. /\ writing[c] = NoBroadcast /\ todo[c] # <<>> /\ Errand(todo[c])
      /\ Head(todo[c]).do = "elsewhere"
  BY AtHome DEF At
<1>2. todo[c] = <<Do("elsewhere")>>
  BY <1>1, Heads
<1> QED BY <1>1, <1>2, Lists, StepFields DEF Dues, Closing

\* Nothing is left to do when the other room has been told,
LEMMA TellElsewhereWorksEffect ==
  ASSUME TypeInv, Shaped, NEW c \in Conn, At(c, "elsewhere"), Continue(c, Later(c)),
         UNCHANGED <<drawn, writing>>
  PROVE  /\ Apart(c) /\ ShapedAt(c)' /\ Dues(c) = {Do("elsewhere")}
         /\ Dues(c)' = {} /\ todo'[c] = <<>>
<1>1. writing[c] = NoBroadcast /\ todo[c] = <<Do("elsewhere")>> /\ Dues(c) = {Do("elsewhere")}
  BY AtElsewhere
<1>2. Apart(c) /\ todo'[c] = <<>> /\ Dues(c)' = Range(<<>>)
  BY <1>1, Lists, Continued DEF Later
<1> QED BY <1>1, <1>2, Lists DEF ShapedAt, Errand

\* and unregisterConnection when that has failed.
LEMMA TellElsewhereFailsEffect ==
  ASSUME TypeInv, Shaped, NEW c \in Conn, At(c, "elsewhere"), GiveUp(c), UNCHANGED drawn
  PROVE  /\ Apart(c) /\ ShapedAt(c)'
         /\ writing[c] = NoBroadcast /\ writing'[c] = NoBroadcast
         /\ Dues(c) = {Do("elsewhere")} /\ Dues(c)' = UnregisterDues(c)
  BY AtElsewhere, GivesUp

\* manager.LeaveRoom is followed by the view of the room and the close.
LEMMA LeaveRoomEffect ==
  ASSUME TypeInv, Shaped, NEW c \in Conn, LeaveRoom(c)
  PROVE  /\ Apart(c) /\ ShapedAt(c)'
         /\ \E p \in drawn :
              /\ Current(c).player = p
              /\ Dues(c) = {DoFor("leave", p), Do("roomView"), Do("close")}
              /\ Dues(c)' = {Do("roomView"), Do("close")}
<1>1. writing[c] = NoBroadcast /\ todo[c] # <<>> /\ Errand(todo[c]) /\ Head(todo[c]).do = "leave"
  BY AtHome DEF LeaveRoom, At
<1>2. /\ Apart(c) /\ todo'[c] = Tail(todo[c]) /\ Dues(c)' = Range(Tail(todo[c]))
      /\ writing' = writing /\ drawn' = drawn
  BY Continued DEF LeaveRoom, Later
<1>3. PICK p \in drawn : todo[c] = <<DoFor("leave", p), Do("roomView"), Do("close")>>
  BY <1>1, Heads
<1> QED BY <1>1, <1>2, <1>3, Lists, StepFields DEF Dues, Current, ShapedAt, Errand, CloseErrand

\* The close is the last step.
LEMMA CloseEffect ==
  ASSUME TypeInv, Shaped, NEW c \in Conn, Close(c)
  PROVE  /\ Apart(c) /\ ShapedAt(c)'
         /\ Dues(c) = {Do("close")} /\ Dues(c)' = {} /\ todo'[c] = <<>>
         /\ writing[c] = NoBroadcast /\ writing'[c] = NoBroadcast
<1>1. writing[c] = NoBroadcast /\ todo[c] # <<>> /\ Errand(todo[c]) /\ Head(todo[c]).do = "close"
  BY AtHome DEF Close, At
<1>2. /\ Apart(c) /\ todo'[c] = <<>> /\ Dues(c)' = Range(<<>>)
      /\ writing' = writing /\ drawn' = drawn
  BY Continued DEF Close, RoomStill
<1>3. todo[c] = <<Do("close")>>
  BY <1>1, Heads
<1> QED BY <1>1, <1>2, <1>3, Lists DEF Dues, ShapedAt, Errand

\* A view of the room that is built is a view of the room as it is now; nothing
\* is sent for a room that nobody is in.
LEMMA ReadRoomViewEffect ==
  ASSUME TypeInv, Shaped, NEW c \in Conn, ReadRoomView(c)
  PROVE  LET view == RoomViewOf(version["ROOM_VIEW"]) IN
         /\ Apart(c) /\ ShapedAt(c)'
         /\ \/ Dues(c) = {Do("roomView")} /\ Dues(c)' = IF players = {} THEN {} ELSE {view}
            \/ /\ Dues(c) = {Do("roomView"), Do("close")}
               /\ Dues(c)' = IF players = {} THEN {Do("close")} ELSE {view, Do("close")}
<1> DEFINE view == RoomViewOf(version["ROOM_VIEW"])
<1>1. writing[c] = NoBroadcast /\ todo[c] # <<>> /\ Errand(todo[c]) /\ Head(todo[c]).do = "roomView"
  BY AtHome DEF ReadRoomView, At
<1>2. Continue(c, IF players = {} THEN Tail(todo[c]) ELSE <<view>> \o Tail(todo[c]))
  BY DEF ReadRoomView, Later, RoomViewOf
<1>3. /\ Apart(c) /\ todo'[c] = IF players = {} THEN Tail(todo[c]) ELSE <<view>> \o Tail(todo[c])
      /\ Dues(c)' = Range(todo'[c])
      /\ writing' = writing /\ drawn' = drawn
  BY <1>2, Continued DEF ReadRoomView, RoomStill
<1>4. version["ROOM_VIEW"] \in Nat
  BY DEF TypeInv, ViewKind
<1>5. CASE todo[c] = <<Do("roomView")>>
  <2>1. Tail(todo[c]) = <<>> /\ <<view>> \o Tail(todo[c]) = <<view>> /\ Dues(c) = {Do("roomView")}
    BY <1>5, Lists, ConsNothing DEF Dues
  <2>2. todo'[c] = <<>> \/ todo'[c] = <<view>>
    BY <2>1, <1>3
  <2>3. ShapedAt(c)'
    BY <2>2, <1>1, <1>3, <1>4 DEF ShapedAt, Errand, ViewErrand
  <2> QED BY <2>1, <2>3, <1>3, Lists
<1>6. CASE todo[c] = <<Do("roomView"), Do("close")>>
  <2>1. /\ Tail(todo[c]) = <<Do("close")>> /\ <<view>> \o Tail(todo[c]) = <<view, Do("close")>>
        /\ Dues(c) = {Do("roomView"), Do("close")}
    BY <1>6, Lists, ConsOne DEF Dues
  <2>2. todo'[c] = <<Do("close")>> \/ todo'[c] = <<view, Do("close")>>
    BY <2>1, <1>3
  <2>3. ShapedAt(c)'
    BY <2>2, <1>1, <1>3, <1>4 DEF ShapedAt, Errand, CloseErrand
  <2>4. Range(<<Do("close")>>) = {Do("close")} /\ Range(<<view, Do("close")>>) = {view, Do("close")}
    BY Lists
  <2> HIDE DEF view
  <2>5. Dues(c)' = IF players = {} THEN {Do("close")} ELSE {view, Do("close")}
    BY <2>1, <2>4, <1>3
  <2> USE DEF view
  <2> QED BY <2>1, <2>3, <2>5, <1>3
<1> QED BY <1>1, <1>5, <1>6, Heads

\* The views of the game come last, or before the view of the room at the
\* start.
LEMMA AtGameViews ==
  ASSUME TypeInv, Shaped, NEW c \in Conn, At(c, "gameViews")
  PROVE  /\ ~Closing(c)
         /\ Dues(c) = {Do("gameViews")} \/ Dues(c) = {Do("gameViews"), Do("roomView")}
<1>1. todo[c] # <<>> /\ Errand(todo[c]) /\ Head(todo[c]).do = "gameViews"
  BY AtHome DEF At
<1> QED BY <1>1, Heads, Lists, StepFields DEF Dues, Closing

\* The views of the game are built,
ShowsGame(c) ==
  /\ At(c, "gameViews")
  /\ Continue(c, <<SendAll(GameViews)>> \o Later(c))
  /\ UNCHANGED <<writing, causes>>
  /\ RoomStill
  /\ UNCHANGED <<link, attached, playerID, seen, notified>>

\* or that fails.
LEMMA GameViewsCases ==
  ASSUME NEW c, ReadGameViews(c)
  PROVE  \/ GameViewsFail /\ GiveUp(c) /\ Blame("gaveUp", {c})
         \/ ShowsGame(c)
  BY DEF ReadGameViews, ShowsGame

\* The views of the game that are built show the game as it is now to every
\* member.
LEMMA ReadGameViewsEffect ==
  ASSUME TypeInv, Shaped, NEW c \in Conn, ShowsGame(c)
  PROVE  LET views == GameViewsOf(version["GAME_VIEW"], players) IN
         /\ Apart(c) /\ ShapedAt(c)'
         /\ \/ Dues(c) = {Do("gameViews")} /\ Dues(c)' = {views}
            \/ /\ Dues(c) = {Do("gameViews"), Do("roomView")}
               /\ Dues(c)' = {views, Do("roomView")}
<1> DEFINE views == GameViewsOf(version["GAME_VIEW"], players)
<1>1. writing[c] = NoBroadcast /\ todo[c] # <<>> /\ Errand(todo[c]) /\ Head(todo[c]).do = "gameViews"
  BY AtHome DEF ShowsGame, At
<1>2. Continue(c, <<views>> \o Tail(todo[c]))
  BY DEF ShowsGame, Later, GameViews, GameViewsOf
<1>3. /\ Apart(c) /\ todo'[c] = <<views>> \o Tail(todo[c]) /\ Dues(c)' = Range(todo'[c])
      /\ writing' = writing /\ drawn' = drawn
  BY <1>2, Continued DEF ShowsGame, RoomStill
<1>4. version["GAME_VIEW"] \in Nat /\ players \in SUBSET RoomPlayer
  BY DEF TypeInv, ViewKind
<1>5. CASE todo[c] = <<Do("gameViews")>>
  <2>1. <<views>> \o Tail(todo[c]) = <<views>> /\ Dues(c) = {Do("gameViews")}
    BY <1>5, Lists, ConsNothing DEF Dues
  <2>2. ShapedAt(c)'
    BY <2>1, <1>1, <1>3, <1>4 DEF ShapedAt, Errand, GameErrand
  <2> QED BY <2>1, <2>2, <1>3, Lists
<1>6. CASE todo[c] = <<Do("gameViews"), Do("roomView")>>
  <2>1. /\ <<views>> \o Tail(todo[c]) = <<views, Do("roomView")>>
        /\ Dues(c) = {Do("gameViews"), Do("roomView")}
    BY <1>6, Lists, ConsOne DEF Dues
  <2>2. ShapedAt(c)'
    BY <2>1, <1>1, <1>3, <1>4 DEF ShapedAt, Errand, StartErrand
  <2>3. Dues(c)' = {views, Do("roomView")}
    <3>1. Range(<<views, Do("roomView")>>) = {views, Do("roomView")}
      BY Lists
    <3> HIDE DEF views
    <3> QED BY <2>1, <3>1, <1>3
  <2> QED BY <2>1, <2>2, <2>3, <1>3
<1> QED BY <1>1, <1>5, <1>6, Heads

\* What is sent is a message.
LEMMA MessagesTyped ==
  ASSUME TypeInv
  PROVE  /\ \A n \in Nat : RoomViewOf(n).message \in Message
         /\ \A n \in Nat, ps \in SUBSET RoomPlayer : GameViewsOf(n, ps).message \in Message
         /\ Notice.message \in Message /\ Events.message \in Message
         /\ \A p \in drawn : GoodbyeTo(p) \in Message
<1>1. ASSUME NEW n \in Nat PROVE RoomViewOf(n).message \in Message
  <2>1. [kind |-> "ROOM_VIEW", version |-> n, to |-> RoomPlayer] \in Message
    BY DEF Message, ViewKind
  <2> QED BY <2>1, MessageFields
<1>2. ASSUME NEW n \in Nat, NEW ps \in SUBSET RoomPlayer PROVE GameViewsOf(n, ps).message \in Message
  <2>1. [kind |-> "GAME_VIEW", version |-> n, to |-> ps] \in Message
    BY DEF Message, ViewKind
  <2> QED BY <2>1, MessageFields
<1>3. Notice.message \in Message /\ Events.message \in Message
  BY MessageFields DEF Message, ViewKind
<1>4. \A p \in drawn : GoodbyeTo(p) \in Message
  <2>1. \A p \in drawn : {p} \in SUBSET RoomPlayer
    BY DEF TypeInv
  <2> QED BY <2>1 DEF GoodbyeTo, Message
<1> QED BY <1>1, <1>2, <1>3, <1>4

\* What is sent when s begins with a broadcast of m, and what is left to do.
Sends(s, m) ==
  \/ \E n \in Nat :
       /\ m = RoomViewOf(n).message
       /\ \/ Range(s) = {RoomViewOf(n)} /\ Range(Tail(s)) = {}
          \/ Range(s) = {RoomViewOf(n), Do("close")} /\ Range(Tail(s)) = {Do("close")}
  \/ \E n \in Nat, ps \in SUBSET RoomPlayer :
       /\ m = GameViewsOf(n, ps).message
       /\ \/ Range(s) = {GameViewsOf(n, ps)} /\ Range(Tail(s)) = {}
          \/ /\ Range(s) = {GameViewsOf(n, ps), Do("roomView")}
             /\ Range(Tail(s)) = {Do("roomView")}
  \/ /\ m = Notice.message
     /\ \/ Range(s) = {Notice, Do("roomView")} /\ Range(Tail(s)) = {Do("roomView")}
        \/ /\ Range(s) = {Notice, Do("gameViews"), Do("roomView")}
           /\ Range(Tail(s)) = {Do("gameViews"), Do("roomView")}
  \/ /\ m = Events.message
     /\ Range(s) = {Events, Do("gameViews")} /\ Range(Tail(s)) = {Do("gameViews")}

\* A handler that begins with a broadcast has a known rest.
LEMMA BroadcastHead ==
  ASSUME NEW s, Errand(s), s # <<>>, Head(s).do = "broadcast", TypeInv
  PROVE  /\ Errand(Tail(s)) /\ WritingErrand(Tail(s), Head(s).message)
         /\ Head(s).message \in Message
         /\ Sends(s, Head(s).message)
<1> USE Lists
<1>1. ASSUME NEW n \in Nat, s = <<RoomViewOf(n)>>
      PROVE  /\ Errand(Tail(s)) /\ WritingErrand(Tail(s), Head(s).message)
             /\ Sends(s, Head(s).message)
  <2>1. Head(s) = RoomViewOf(n) /\ Tail(s) = <<>> /\ Range(s) = {RoomViewOf(n)}
    BY <1>1
  <2> QED BY <2>1 DEF Errand, WritingErrand, Sends
<1>2. ASSUME NEW n \in Nat, s = <<RoomViewOf(n), Do("close")>>
      PROVE  /\ Errand(Tail(s)) /\ WritingErrand(Tail(s), Head(s).message)
             /\ Sends(s, Head(s).message)
  <2>1. /\ Head(s) = RoomViewOf(n) /\ Tail(s) = <<Do("close")>>
        /\ Range(s) = {RoomViewOf(n), Do("close")} /\ Range(Tail(s)) = {Do("close")}
    BY <1>2
  <2> QED BY <2>1 DEF Errand, CloseErrand, WritingErrand, Sends
<1>3. ASSUME NEW n \in Nat, NEW ps \in SUBSET RoomPlayer, s = <<GameViewsOf(n, ps)>>
      PROVE  /\ Errand(Tail(s)) /\ WritingErrand(Tail(s), Head(s).message)
             /\ Sends(s, Head(s).message)
  <2>1. Head(s) = GameViewsOf(n, ps) /\ Tail(s) = <<>> /\ Range(s) = {GameViewsOf(n, ps)}
    BY <1>3
  <2> QED BY <2>1 DEF Errand, WritingErrand, Sends
<1>4. ASSUME NEW n \in Nat, NEW ps \in SUBSET RoomPlayer, s = <<GameViewsOf(n, ps), Do("roomView")>>
      PROVE  /\ Errand(Tail(s)) /\ WritingErrand(Tail(s), Head(s).message)
             /\ Sends(s, Head(s).message)
  <2>1. /\ Head(s) = GameViewsOf(n, ps) /\ Tail(s) = <<Do("roomView")>>
        /\ Range(s) = {GameViewsOf(n, ps), Do("roomView")} /\ Range(Tail(s)) = {Do("roomView")}
    BY <1>4
  <2> QED BY <2>1 DEF Errand, ViewErrand, WritingErrand, Sends
<1>5. CASE s = <<Notice, Do("roomView")>>
  <2>1. /\ Head(s) = Notice /\ Tail(s) = <<Do("roomView")>>
        /\ Range(s) = {Notice, Do("roomView")} /\ Range(Tail(s)) = {Do("roomView")}
    BY <1>5
  <2> QED BY <2>1, MessagesTyped DEF Errand, ViewErrand, WritingErrand, Sends
<1>6. CASE s = <<Notice, Do("gameViews"), Do("roomView")>>
  <2>1. /\ Head(s) = Notice /\ Tail(s) = <<Do("gameViews"), Do("roomView")>>
        /\ Range(s) = {Notice, Do("gameViews"), Do("roomView")}
        /\ Range(Tail(s)) = {Do("gameViews"), Do("roomView")}
    BY <1>6
  <2> QED BY <2>1, MessagesTyped DEF Errand, StartErrand, WritingErrand, Sends
<1>7. CASE s = <<Events, Do("gameViews")>>
  <2>1. /\ Head(s) = Events /\ Tail(s) = <<Do("gameViews")>>
        /\ Range(s) = {Events, Do("gameViews")} /\ Range(Tail(s)) = {Do("gameViews")}
    BY <1>7
  <2> QED BY <2>1, MessagesTyped DEF Errand, GameErrand, WritingErrand, Sends
<1>8. Head(s).message \in Message
  BY Heads, MessagesTyped
<1> QED BY <1>1, <1>2, <1>3, <1>4, <1>5, <1>6, <1>7, <1>8, Heads

\* roomClients: the message goes to every connection attached at that moment.
LEMMA ListClientsEffect ==
  ASSUME TypeInv, Shaped, NEW c \in Conn, ListClients(c)
  PROVE  /\ Apart(c) /\ ShapedAt(c)' /\ Current(c).message \in Message
         /\ writing[c] = NoBroadcast
         /\ writing'[c] = IF attached = {} THEN NoBroadcast
                          ELSE [message |-> Current(c).message, left |-> attached]
         /\ Dues(c)' = Range(Tail(todo[c]))
         /\ Sends(todo[c], Current(c).message)
<1> DEFINE m == Current(c).message
<1>1. /\ writing[c] = NoBroadcast /\ todo[c] # <<>> /\ Errand(todo[c])
      /\ Head(todo[c]).do = "broadcast"
  BY AtHome DEF ListClients, At
<1>2. /\ writing' = [writing EXCEPT ![c] =
             IF attached = {} THEN NoBroadcast ELSE [message |-> m, left |-> attached]]
      /\ Continue(c, Tail(todo[c])) /\ drawn' = drawn
  BY DEF ListClients, StartWriting, Later, RoomStill
<1>3. /\ Errand(Tail(todo[c])) /\ WritingErrand(Tail(todo[c]), m)
      /\ m \in Message /\ Sends(todo[c], m)
  BY <1>1, BroadcastHead DEF Current
<1> HIDE DEF m
<1>4. /\ Apart(c) /\ todo'[c] = Tail(todo[c]) /\ Dues(c)' = Range(Tail(todo[c]))
      /\ writing'[c] = IF attached = {} THEN NoBroadcast ELSE [message |-> m, left |-> attached]
  <2>1. DOMAIN writing = Conn
    BY DEF TypeInv
  <2>2. \A d \in Conn \ {c} : writing'[d] = writing[d]
    BY <1>2, <2>1
  <2> QED BY <1>2, <2>1, <2>2, Continued
<1>5. ShapedAt(c)'
  <2>1. CASE attached = {}
    BY <1>2, <1>3, <1>4, <2>1
    DEF ShapedAt, Errand, EnterErrand, ViewErrand, StartErrand, LeaveErrand, KickErrand,
        GameErrand, CloseErrand
  <2>2. CASE attached # {}
    <3>1. writing'[c].message = m /\ writing'[c].left # {}
      BY <1>4, <2>2
    <3> QED BY <1>2, <1>3, <1>4, <3>1 DEF ShapedAt, WritingErrand
  <2> QED BY <2>1, <2>2
<1> QED BY <1>1, <1>3, <1>4, <1>5 DEF m

\* roomPlayerClients: the goodbye goes to the connections of the kicked player.
LEMMA ListKickedEffect ==
  ASSUME TypeInv, Shaped, NEW c \in Conn, ListKicked(c)
  PROVE  /\ Apart(c) /\ ShapedAt(c)'
         /\ writing[c] = NoBroadcast
         /\ \E p \in drawn :
              /\ writing'[c] = IF {d \in attached : Player(d) = p} = {} THEN NoBroadcast
                               ELSE [message |-> GoodbyeTo(p), left |-> {d \in attached : Player(d) = p}]
              /\ GoodbyeTo(p) \in Message
              /\ Dues(c) = {DoFor("notify", p), DoFor("detachPlayer", p), Notice, Do("roomView")}
              /\ Dues(c)' = {DoFor("detachPlayer", p), Notice, Do("roomView")}
<1>1. /\ writing[c] = NoBroadcast /\ todo[c] # <<>> /\ Errand(todo[c])
      /\ Head(todo[c]).do = "notify"
  BY AtHome DEF ListKicked, At
<1>2. PICK p \in drawn :
        todo[c] = <<DoFor("notify", p), DoFor("detachPlayer", p), Notice, Do("roomView")>>
  BY <1>1, Heads
<1> DEFINE theirs == {d \in attached : Player(d) = p}
<1>3. Current(c).player = p /\ Later(c) = <<DoFor("detachPlayer", p), Notice, Do("roomView")>>
  BY <1>2, Lists, StepFields DEF Current, Later
<1>4. /\ writing' = [writing EXCEPT ![c] =
             IF theirs = {} THEN NoBroadcast ELSE [message |-> GoodbyeTo(p), left |-> theirs]]
      /\ Continue(c, <<DoFor("detachPlayer", p), Notice, Do("roomView")>>)
      /\ drawn' = drawn
  BY <1>3 DEF ListKicked, StartWriting, GoodbyeTo, RoomStill
<1>5. DOMAIN writing = Conn
  BY DEF TypeInv
<1> HIDE DEF theirs
<1>6. /\ Apart(c) /\ todo'[c] = <<DoFor("detachPlayer", p), Notice, Do("roomView")>>
      /\ Dues(c)' = {DoFor("detachPlayer", p), Notice, Do("roomView")}
      /\ writing'[c] = IF theirs = {} THEN NoBroadcast ELSE [message |-> GoodbyeTo(p), left |-> theirs]
  <2>1. \A d \in Conn \ {c} : writing'[d] = writing[d]
    BY <1>4, <1>5
  <2> QED BY <1>4, <1>5, <2>1, Continued, Lists
<1>7. ShapedAt(c)'
  <2>1. CASE theirs = {}
    BY <1>4, <1>6, <2>1 DEF ShapedAt, Errand, KickErrand
  <2>2. CASE theirs # {}
    <3>1. writing'[c].message = GoodbyeTo(p) /\ writing'[c].left # {}
      BY <1>6, <2>2
    <3> QED BY <1>4, <1>6, <3>1 DEF ShapedAt, WritingErrand, GoodbyeTo
  <2> QED BY <2>1, <2>2
<1>8. Dues(c) = {DoFor("notify", p), DoFor("detachPlayer", p), Notice, Do("roomView")}
  BY <1>2, Lists DEF Dues
<1> QED BY <1>1, <1>6, <1>7, <1>8, MessagesTyped DEF theirs

\* The kicked player has been given an id.
LEMMA ListKickedPlayer ==
  ASSUME TypeInv, Shaped, NEW c \in Conn, ListKicked(c)
  PROVE  Current(c).player \in drawn
<1>1. todo[c] # <<>> /\ Errand(todo[c]) /\ Head(todo[c]).do = "notify"
  BY AtHome DEF ListKicked, At
<1> QED BY <1>1, Heads, Lists, StepFields DEF Current

\* What is left to do in the middle of a broadcast, as sets.
WritingDues(c) ==
  \/ /\ \E n \in Nat : writing[c].message = RoomViewOf(n).message
     /\ Dues(c) = {} \/ Dues(c) = {Do("close")}
  \/ /\ \E n \in Nat, ps \in SUBSET RoomPlayer : writing[c].message = GameViewsOf(n, ps).message
     /\ Dues(c) = {} \/ Dues(c) = {Do("roomView")}
  \/ /\ writing[c].message = Notice.message
     /\ Dues(c) = {Do("roomView")} \/ Dues(c) = {Do("gameViews"), Do("roomView")}
  \/ writing[c].message = Events.message /\ Dues(c) = {Do("gameViews")}
  \/ \E p \in drawn : /\ writing[c].message = GoodbyeTo(p)
                      /\ Dues(c) = {DoFor("detachPlayer", p), Notice, Do("roomView")}

\* A goroutine that is sending has a known rest, and only the last view of
\* unregisterConnection is sent while closing.
LEMMA AtWriting ==
  ASSUME TypeInv, Shaped, NEW c \in Conn, writing[c].left # {}
  PROVE  /\ WritingErrand(todo[c], writing[c].message) /\ Errand(todo[c])
         /\ WritingDues(c)
         /\ \/ /\ Closing(c) /\ Dues(c) = {Do("close")}
               /\ \E n \in Nat : writing[c].message = RoomViewOf(n).message
            \/ /\ ~Closing(c)
               /\ Dues(c) \in {{}, {Do("roomView")}, {Do("gameViews"), Do("roomView")}, {Do("gameViews")}}
            \/ \E p \in drawn : writing[c].message = GoodbyeTo(p)
<1>1. WritingErrand(todo[c], writing[c].message)
  BY DEF Shaped, ShapedAt, NoBroadcast
<1> DEFINE s == todo[c]  m == writing[c].message
<1>2. /\ s = <<>> => Errand(s) /\ ~Closing(c) /\ Dues(c) = {}
      /\ s = <<Do("close")>> => Errand(s) /\ Closing(c) /\ Dues(c) = {Do("close")}
  <2>1. CASE s = <<>>
    BY <2>1, Lists DEF Closing, Dues, Errand
  <2>2. CASE s = <<Do("close")>>
    BY <2>2, Lists, StepFields DEF Closing, Dues, Errand, CloseErrand
  <2> QED BY <2>1, <2>2
<1>3. s = <<Do("roomView")>> => Errand(s) /\ ~Closing(c) /\ Dues(c) = {Do("roomView")}
  BY Lists, StepFields DEF Closing, Dues, Errand, ViewErrand
<1>4. s = <<Do("gameViews"), Do("roomView")>> =>
        Errand(s) /\ ~Closing(c) /\ Dues(c) = {Do("gameViews"), Do("roomView")}
  BY Lists, StepFields DEF Closing, Dues, Errand, StartErrand
<1>5. s = <<Do("gameViews")>> => Errand(s) /\ ~Closing(c) /\ Dues(c) = {Do("gameViews")}
  BY Lists, StepFields DEF Closing, Dues, Errand, GameErrand
<1>6. \A p \in drawn : s = <<DoFor("detachPlayer", p), Notice, Do("roomView")>> =>
        Errand(s) /\ Dues(c) = {DoFor("detachPlayer", p), Notice, Do("roomView")}
  BY Lists DEF Dues, Errand, KickErrand
<1> HIDE DEF s, m
<1>7. CASE /\ \E n \in Nat : m = RoomViewOf(n).message
           /\ s = <<>> \/ s = <<Do("close")>>
  BY <1>1, <1>2, <1>7 DEF WritingDues, s, m
<1>8. CASE /\ \E n \in Nat, ps \in SUBSET RoomPlayer : m = GameViewsOf(n, ps).message
           /\ s = <<>> \/ s = <<Do("roomView")>>
  BY <1>1, <1>2, <1>3, <1>8 DEF WritingDues, s, m
<1>9. CASE /\ m = Notice.message
           /\ s = <<Do("roomView")>> \/ s = <<Do("gameViews"), Do("roomView")>>
  BY <1>1, <1>3, <1>4, <1>9 DEF WritingDues, s, m
<1>10. CASE m = Events.message /\ s = <<Do("gameViews")>>
  BY <1>1, <1>5, <1>10 DEF WritingDues, s, m
<1>11. CASE \E p \in drawn : /\ m = GoodbyeTo(p)
                             /\ s = <<DoFor("detachPlayer", p), Notice, Do("roomView")>>
  BY <1>1, <1>6, <1>11 DEF WritingDues, s, m
<1> QED BY <1>1, <1>7, <1>8, <1>9, <1>10, <1>11 DEF WritingErrand, s, m

\* The next write of a broadcast works, or is passed over,
WriteGoesOn(c, d) ==
  LET left == writing[c].left \ {d} IN
  /\ Skip(writing[c].message, d) \/ Send(writing[c].message, d)
  /\ writing' = [writing EXCEPT ![c] =
       IF left = {} THEN NoBroadcast ELSE [@ EXCEPT !.left = left]]
  /\ UNCHANGED <<todo, causes>>
  /\ RoomStill
  /\ UNCHANGED <<link, attached, playerID>>

\* or it fails.
WriteBreaksOff(c, d) ==
  /\ WriteFails(c, d)
  /\ RoomStill
  /\ UNCHANGED <<link, attached, playerID>>

\* A write works, is passed over or fails.
LEMMA WriteCases ==
  ASSUME NEW c, Write(c)
  PROVE  \E d \in writing[c].left : WriteGoesOn(c, d) \/ WriteBreaksOff(c, d)
  BY DEF Write, WriteGoesOn, WriteBreaksOff

\* A write that works takes one connection off the list.
LEMMA WriteGoesOnEffect ==
  ASSUME TypeInv, Shaped, NEW c \in Conn, NEW d \in writing[c].left, WriteGoesOn(c, d)
  PROVE  /\ Apart(c) /\ ShapedAt(c)' /\ todo' = todo
         /\ Dues(c)' = Dues(c)
         /\ \/ writing'[c] = NoBroadcast /\ writing[c].left = {d}
            \/ /\ writing'[c] = [message |-> writing[c].message, left |-> writing[c].left \ {d}]
               /\ writing[c].left \ {d} # {}
<1> DEFINE left == writing[c].left \ {d}
<1>1. WritingErrand(todo[c], writing[c].message) /\ Errand(todo[c])
  BY AtWriting
<1>2. /\ DOMAIN writing = Conn /\ DOMAIN todo = Conn
      /\ writing[c] = [message |-> writing[c].message, left |-> writing[c].left]
  BY DEF TypeInv, Broadcast
<1>3. /\ writing' = [writing EXCEPT ![c] = IF left = {} THEN NoBroadcast ELSE [@ EXCEPT !.left = left]]
      /\ todo' = todo /\ drawn' = drawn
  BY DEF WriteGoesOn, RoomStill
<1>4. Apart(c) /\ Dues(c)' = Dues(c)
  BY <1>2, <1>3 DEF Apart, Dues
<1>5. CASE left = {}
  <2>1. writing'[c] = NoBroadcast /\ writing[c].left = {d}
    BY <1>2, <1>3, <1>5
  <2> QED
    BY <1>1, <1>3, <1>4, <2>1
    DEF ShapedAt, Errand, EnterErrand, ViewErrand, StartErrand, LeaveErrand, KickErrand,
        GameErrand, CloseErrand
<1>6. CASE left # {}
  <2>1. writing'[c] = [message |-> writing[c].message, left |-> left]
    BY <1>2, <1>3, <1>6
  <2> QED
    BY <1>1, <1>3, <1>4, <1>6, <2>1 DEF ShapedAt, WritingErrand
<1> QED BY <1>5, <1>6

\* A write that fails ends the broadcast; the goodbye to a kicked player never
\* fails.
LEMMA WriteBreaksOffEffect ==
  ASSUME TypeInv, Shaped, NEW c \in Conn, NEW d \in writing[c].left, WriteBreaksOff(c, d)
  PROVE  /\ Apart(c) /\ ShapedAt(c)' /\ writing'[c] = NoBroadcast
         /\ WritingDues(c)
         /\ \/ /\ Dues(c) = {Do("close")} /\ Dues(c)' = {Do("close")}
               /\ \E n \in Nat : writing[c].message = RoomViewOf(n).message
            \/ /\ Dues(c) \in {{}, {Do("roomView")}, {Do("gameViews"), Do("roomView")}, {Do("gameViews")}}
               /\ Dues(c)' = UnregisterDues(c)
<1>1. /\ WritingDues(c)
      /\ \/ /\ Closing(c) /\ Dues(c) = {Do("close")}
            /\ \E n \in Nat : writing[c].message = RoomViewOf(n).message
         \/ /\ ~Closing(c)
            /\ Dues(c) \in {{}, {Do("roomView")}, {Do("gameViews"), Do("roomView")}, {Do("gameViews")}}
         \/ \E p \in drawn : writing[c].message = GoodbyeTo(p)
  BY AtWriting
<1>2. /\ GiveUp(c) /\ UNCHANGED drawn
      /\ writing[c].message.kind # "KICKED_FROM_ROOM"
  BY DEF WriteBreaksOff, WriteFails, RoomStill
<1>3. /\ Apart(c) /\ writing'[c] = NoBroadcast
      /\ ~Closing(c) => Dues(c)' = UnregisterDues(c) /\ ShapedAt(c)'
      /\ Closing(c) => Dues(c)' = {Do("close")} /\ ShapedAt(c)'
  BY <1>2, GivesUp
<1>4. \A p : GoodbyeTo(p).kind = "KICKED_FROM_ROOM"
  BY DEF GoodbyeTo
<1> QED BY <1>1, <1>2, <1>3, <1>4

\* An answer that fails is followed by unregisterConnection.
LEMMA ReplyFailsEffect ==
  ASSUME TypeInv, Shaped, NEW c \in Conn, At(c, "reply"), GiveUp(c), UNCHANGED drawn
  PROVE  /\ Apart(c) /\ ShapedAt(c)'
         /\ writing[c] = NoBroadcast /\ writing'[c] = NoBroadcast
         /\ ReplyDues(c) /\ Dues(c)' = UnregisterDues(c)
  BY AtReply, GivesUp DEF At

\* So are views of the game that cannot be built,
LEMMA GameViewsFailEffect ==
  ASSUME TypeInv, Shaped, NEW c \in Conn, At(c, "gameViews"), GiveUp(c), UNCHANGED drawn
  PROVE  /\ Apart(c) /\ ShapedAt(c)'
         /\ writing[c] = NoBroadcast /\ writing'[c] = NoBroadcast
         /\ Dues(c) = {Do("gameViews")} \/ Dues(c) = {Do("gameViews"), Do("roomView")}
         /\ Dues(c)' = UnregisterDues(c)
  BY AtGameViews, GivesUp DEF At

\* and a read that fails.
LEMMA ReadFailsEffect ==
  ASSUME TypeInv, Shaped, NEW c \in Conn, ReadFails(c)
  PROVE  /\ Apart(c) /\ ShapedAt(c)'
         /\ writing[c] = NoBroadcast /\ writing'[c] = NoBroadcast
         /\ Dues(c) = {} /\ Dues(c)' = UnregisterDues(c)
<1>1. /\ writing' = writing /\ drawn' = drawn /\ todo[c] = <<>> /\ writing[c] = NoBroadcast
      /\ Continue(c, Unregister(c))
  BY DEF ReadFails, Idle, RoomStill
<1>2. Apart(c) /\ todo'[c] = Unregister(c) /\ Dues(c)' = UnregisterDues(c)
  BY <1>1, Continued, UnregisterList
<1>3. CloseErrand(todo[c])'
  BY <1>1, <1>2, UnregisterList DEF CloseErrand
<1> QED BY <1>1, <1>2, <1>3, Lists DEF Dues, ShapedAt, Errand

\* A goroutine takes a command when it has nothing left to do.
LEMMA TakesEffect ==
  ASSUME TypeInv, NEW c \in Conn, NEW s, Takes(c, s)
  PROVE  /\ Apart(c) /\ todo'[c] = s /\ Dues(c) = {} /\ Dues(c)' = Range(s)
         /\ writing[c] = NoBroadcast /\ writing'[c] = NoBroadcast
  BY Continued, Lists DEF Takes, Idle, Dues

\* CREATE_ROOM and JOIN_ROOM leave attaching, answering and the view of the
\* room to do,
LEMMA EnteringEffect ==
  ASSUME TypeInv, NEW c \in Conn, NEW p, p \in drawn', Takes(c, Entering(p))
  PROVE  /\ Apart(c) /\ ShapedAt(c)' /\ Dues(c) = {}
         /\ Dues(c)' = {DoFor("attach", p), Do("reply"), Do("roomView")}
         /\ writing[c] = NoBroadcast /\ writing'[c] = NoBroadcast
<1>1. /\ Apart(c) /\ todo'[c] = <<DoFor("attach", p), Do("reply"), Do("roomView")>>
      /\ Dues(c) = {} /\ Dues(c)' = {DoFor("attach", p), Do("reply"), Do("roomView")}
      /\ writing[c] = NoBroadcast /\ writing'[c] = NoBroadcast
  BY TakesEffect, Lists DEF Entering
<1> QED BY <1>1 DEF ShapedAt, Errand, EnterErrand

\* the same for another room leaves attaching, answering and telling those there,
LEMMA EnterOtherEffect ==
  ASSUME TypeInv, NEW c \in Conn, HandleEnterOtherRoom(c)
  PROVE  /\ Apart(c) /\ ShapedAt(c)' /\ Dues(c) = {}
         /\ Dues(c)' = {Do("attach"), Do("reply"), Do("elsewhere")}
         /\ writing[c] = NoBroadcast /\ writing'[c] = NoBroadcast
<1>1. /\ Apart(c) /\ todo'[c] = <<Do("attach"), Do("reply"), Do("elsewhere")>>
      /\ Dues(c) = {} /\ Dues(c)' = {Do("attach"), Do("reply"), Do("elsewhere")}
      /\ writing[c] = NoBroadcast /\ writing'[c] = NoBroadcast
  BY TakesEffect, Lists DEF HandleEnterOtherRoom, RoomStill
<1> QED BY <1>1 DEF ShapedAt, Errand, EnterErrand

\* SET_READY the answer and the view of the room,
LEMMA SetReadyEffect ==
  ASSUME TypeInv, NEW c \in Conn, NEW isReady, HandleSetReady(c, isReady)
  PROVE  /\ Apart(c) /\ ShapedAt(c)' /\ Dues(c) = {}
         /\ Dues(c)' = {Do("reply"), Do("roomView")}
         /\ writing[c] = NoBroadcast /\ writing'[c] = NoBroadcast
<1>1. /\ Apart(c) /\ todo'[c] = <<Do("reply"), Do("roomView")>>
      /\ Dues(c) = {} /\ Dues(c)' = {Do("reply"), Do("roomView")}
      /\ writing[c] = NoBroadcast /\ writing'[c] = NoBroadcast
  BY TakesEffect, Lists DEF HandleSetReady
<1> QED BY <1>1 DEF ShapedAt, Errand, EnterErrand

\* TRANSFER_HOST a notice and the view of the room,
LEMMA TransferHostEffect ==
  ASSUME TypeInv, NEW c \in Conn, NEW target, HandleTransferHost(c, target)
  PROVE  /\ Apart(c) /\ ShapedAt(c)' /\ Dues(c) = {}
         /\ Dues(c)' = {Notice, Do("roomView")}
         /\ writing[c] = NoBroadcast /\ writing'[c] = NoBroadcast
<1>1. /\ Apart(c) /\ todo'[c] = <<Notice, Do("roomView")>>
      /\ Dues(c) = {} /\ Dues(c)' = {Notice, Do("roomView")}
      /\ writing[c] = NoBroadcast /\ writing'[c] = NoBroadcast
  BY TakesEffect, Lists DEF HandleTransferHost, Notice
<1> QED BY <1>1 DEF ShapedAt, Errand, StartErrand

\* START_GAME a notice and both views,
LEMMA StartGameEffect ==
  ASSUME TypeInv, NEW c \in Conn, HandleStartGame(c)
  PROVE  /\ Apart(c) /\ ShapedAt(c)' /\ Dues(c) = {}
         /\ Dues(c)' = {Notice, Do("gameViews"), Do("roomView")}
         /\ writing[c] = NoBroadcast /\ writing'[c] = NoBroadcast
<1>1. /\ Apart(c) /\ todo'[c] = <<Notice, Do("gameViews"), Do("roomView")>>
      /\ Dues(c) = {} /\ Dues(c)' = {Notice, Do("gameViews"), Do("roomView")}
      /\ writing[c] = NoBroadcast /\ writing'[c] = NoBroadcast
  BY TakesEffect, Lists DEF HandleStartGame, Notice
<1> QED BY <1>1 DEF ShapedAt, Errand, StartErrand

\* LEAVE_ROOM detaching, answering and the view of the room,
LEMMA HandleLeaveEffect ==
  ASSUME TypeInv, NEW c \in Conn, HandleLeaveRoom(c)
  PROVE  /\ Apart(c) /\ ShapedAt(c)' /\ Dues(c) = {}
         /\ Player(c) \in players
         /\ Dues(c)' = {Do("detach"), DoFor("reply", Player(c)), Do("roomView")}
         /\ writing[c] = NoBroadcast /\ writing'[c] = NoBroadcast
<1>1. /\ Apart(c) /\ todo'[c] = <<Do("detach"), DoFor("reply", Player(c)), Do("roomView")>>
      /\ Dues(c) = {} /\ Dues(c)' = {Do("detach"), DoFor("reply", Player(c)), Do("roomView")}
      /\ writing[c] = NoBroadcast /\ writing'[c] = NoBroadcast
  BY TakesEffect, Lists DEF HandleLeaveRoom
<1>2. Player(c) \in players /\ Player(c) \in drawn'
  BY DEF HandleLeaveRoom, Leave, TypeInv
<1> QED BY <1>1, <1>2 DEF ShapedAt, Errand, LeaveErrand

\* a command of the game the answer, the events and the views of the game,
LEMMA GameCommandEffect ==
  ASSUME TypeInv, NEW c \in Conn, HandleGameCommand(c)
  PROVE  /\ Apart(c) /\ ShapedAt(c)' /\ Dues(c) = {}
         /\ Dues(c)' = {Do("reply"), Events, Do("gameViews")}
         /\ writing[c] = NoBroadcast /\ writing'[c] = NoBroadcast
<1>1. /\ Apart(c) /\ todo'[c] = <<Do("reply"), Events, Do("gameViews")>>
      /\ Dues(c) = {} /\ Dues(c)' = {Do("reply"), Events, Do("gameViews")}
      /\ writing[c] = NoBroadcast /\ writing'[c] = NoBroadcast
  BY TakesEffect, Lists DEF HandleGameCommand, Events
<1> QED BY <1>1 DEF ShapedAt, Errand, GameErrand

\* A vote leaves the game alone and removes one member at most,
LEMMA VoteEffect ==
  ASSUME NEW c, \/ \E target \in RoomPlayer : StartKickVote(Player(c), target)
                \/ \E approve \in BOOLEAN : CastKickVote(Player(c), approve)
  PROVE  /\ gameStarted' = gameStarted
         /\ Player(c) \in players
         /\ \/ players' = players /\ ready' \subseteq ready
            \/ \E t \in players : players' = players \ {t} /\ ready' = ready \ {t}
<1>1. ASSUME NEW vote, ResolveKickVote(vote)
      PROVE  \/ players' = players /\ ready' \subseteq ready
             \/ \E t \in players : players' = players \ {t} /\ ready' = ready \ {t}
  BY <1>1 DEF ResolveKickVote
<1>2. ASSUME NEW target \in RoomPlayer, StartKickVote(Player(c), target)
      PROVE  /\ gameStarted' = gameStarted
             /\ Player(c) \in players
             /\ \/ players' = players /\ ready' \subseteq ready
                \/ \E t \in players : players' = players \ {t} /\ ready' = ready \ {t}
  BY <1>1, <1>2 DEF StartKickVote
<1>3. ASSUME NEW approve \in BOOLEAN, CastKickVote(Player(c), approve)
      PROVE  /\ gameStarted' = gameStarted
             /\ Player(c) \in players
             /\ \/ players' = players /\ ready' \subseteq ready
                \/ \E t \in players : players' = players \ {t} /\ ready' = ready \ {t}
  BY <1>1, <1>3 DEF CastKickVote
<1> QED BY <1>2, <1>3

\* and it leaves the goodbye and the detaching of whoever it has removed to do.
LEMMA KickVoteEffect ==
  ASSUME TypeInv, NEW c \in Conn, HandleKickVote(c)
  PROVE  /\ Apart(c) /\ ShapedAt(c)' /\ Dues(c) = {}
         /\ writing[c] = NoBroadcast /\ writing'[c] = NoBroadcast
         /\ gameStarted' = gameStarted /\ Player(c) \in players
         /\ \/ /\ players' = players /\ ready' \subseteq ready
               /\ Dues(c)' = {Notice, Do("roomView")}
            \/ \E t \in players :
                 /\ players' = players \ {t} /\ ready' = ready \ {t}
                 /\ Dues(c)' = {DoFor("notify", t), DoFor("detachPlayer", t), Notice, Do("roomView")}
<1>1. /\ gameStarted' = gameStarted /\ Player(c) \in players
      /\ \/ players' = players /\ ready' \subseteq ready
         \/ \E t \in players : players' = players \ {t} /\ ready' = ready \ {t}
  BY VoteEffect DEF HandleKickVote
<1>2. /\ Apart(c) /\ Dues(c) = {} /\ todo'[c] = AfterVote(players \ players')
      /\ Dues(c)' = Range(AfterVote(players \ players'))
      /\ writing[c] = NoBroadcast /\ writing'[c] = NoBroadcast /\ drawn' = drawn
  BY TakesEffect DEF HandleKickVote
<1> DEFINE kicked == players \ players'
<1>3. CASE players' = players /\ ready' \subseteq ready
  <2>1. kicked = {}
    BY <1>3
  <2>2. AfterVote(kicked) = <<Notice, Do("roomView")>>
    <3> HIDE DEF kicked
    <3> QED BY <2>1, NothingJoined DEF AfterVote, Notice
  <2>3. todo'[c] = <<Notice, Do("roomView")>> /\ Dues(c)' = {Notice, Do("roomView")}
    <3>1. todo'[c] = <<Notice, Do("roomView")>>
      BY <1>2, <2>2, Zenon
    <3>2. Dues(c)' = Range(<<Notice, Do("roomView")>>)
      BY <3>1 DEF Dues
    <3> QED BY <3>1, <3>2, Lists
  <2> QED BY <1>1, <1>2, <1>3, <2>3 DEF ShapedAt, Errand, StartErrand
<1>4. ASSUME NEW t \in players, players' = players \ {t}, ready' = ready \ {t}
      PROVE  /\ ShapedAt(c)'
             /\ Dues(c)' = {DoFor("notify", t), DoFor("detachPlayer", t), Notice, Do("roomView")}
  <2>1. kicked = {t}
    BY <1>4
  <2>2. kicked # {} /\ (CHOOSE q \in kicked : TRUE) = t
    <3>1. kicked # {} /\ \A q \in kicked : q = t
      BY <2>1
    <3> HIDE DEF kicked
    <3> QED BY <3>1
  <2>3. AfterVote(kicked) = <<DoFor("notify", t), DoFor("detachPlayer", t), Notice, Do("roomView")>>
    <3>1. AfterVote(kicked) = <<DoFor("notify", t), DoFor("detachPlayer", t)>> \o <<Notice, Do("roomView")>>
      <4> HIDE DEF kicked
      <4> QED BY <2>2, Zenon DEF AfterVote, Notice
    <3> QED BY <3>1, PairsJoined, Zenon
  <2>4. /\ todo'[c] = <<DoFor("notify", t), DoFor("detachPlayer", t), Notice, Do("roomView")>>
        /\ Dues(c)' = {DoFor("notify", t), DoFor("detachPlayer", t), Notice, Do("roomView")}
    <3>1. todo'[c] = <<DoFor("notify", t), DoFor("detachPlayer", t), Notice, Do("roomView")>>
      BY <1>2, <2>3, Zenon
    <3>2. Dues(c)' = Range(<<DoFor("notify", t), DoFor("detachPlayer", t), Notice, Do("roomView")>>)
      BY <3>1 DEF Dues
    <3> QED BY <3>1, <3>2, Lists
  <2>5. t \in drawn'
    BY <1>2 DEF TypeInv
  <2> QED BY <1>2, <2>4, <2>5 DEF ShapedAt, Errand, KickErrand
<1> QED BY <1>1, <1>2, <1>3, <1>4

----------------------------------------------------------------------------
(* The types, and that a goroutine has the rest of one handler left.       *)

\* New player ids do not change what a goroutine has left.
LEMMA StillShaped ==
  ASSUME NEW d, ShapedAt(d), todo'[d] = todo[d], writing'[d] = writing[d], drawn \subseteq drawn'
  PROVE  ShapedAt(d)'
<1>1. CASE writing[d] = NoBroadcast /\ Errand(todo[d])
  BY <1>1
  DEF ShapedAt, Errand, EnterErrand, ViewErrand, StartErrand, LeaveErrand, KickErrand,
      GameErrand, CloseErrand
<1>2. CASE writing[d].left # {} /\ WritingErrand(todo[d], writing[d].message)
  BY <1>2 DEF ShapedAt, WritingErrand
<1> QED BY <1>1, <1>2 DEF ShapedAt

\* A step of c keeps the shapes if it keeps that of c.
LEMMA ShapedStep ==
  ASSUME Shaped, NEW c \in Conn, Apart(c), ShapedAt(c)', drawn \subseteq drawn'
  PROVE  Shaped'
<1>1. ASSUME NEW d \in Conn PROVE ShapedAt(d)'
  <2>1. CASE d = c
    BY <2>1
  <2>2. CASE d # c
    <3>1. todo'[d] = todo[d] /\ writing'[d] = writing[d]
      BY <2>2 DEF Apart
    <3> QED BY <3>1, StillShaped DEF Shaped
  <2> QED BY <2>1, <2>2
<1> QED BY <1>1 DEF Shaped

\* So does a step that no goroutine takes.
LEMMA ShapedStands ==
  ASSUME Shaped, UNCHANGED <<todo, writing, drawn>>
  PROVE  Shaped'
<1>1. ASSUME NEW d \in Conn PROVE ShapedAt(d)'
  BY StillShaped DEF Shaped
<1> QED BY <1>1 DEF Shaped

\* attachClientToRoom keeps the types and the shapes.
LEMMA AttachTyped ==
  ASSUME TypeInv, Shaped, NEW c \in Conn, Attach(c)
  PROVE  TypeInv' /\ Shaped'
<1>1. PICK p \in drawn \cup {NoOne} : Current(c).player = p
  BY AttachEffect
<1>2. Apart(c) /\ Shaped'
  BY AttachEffect, ShapedStep DEF Attach, RoomStill
<1> QED BY <1>1, <1>2 DEF TypeInv, Apart, Attach, RoomStill, roomVars, Player, Blame

\* detachClientFromRoom keeps the types and the shapes.
LEMMA DetachTyped ==
  ASSUME TypeInv, Shaped, NEW c \in Conn, Detach(c)
  PROVE  TypeInv' /\ Shaped'
<1>1. Apart(c) /\ Shaped'
  BY DetachEffect, ShapedStep DEF Detach, RoomStill
<1> QED BY <1>1 DEF TypeInv, Apart, Detach, RoomStill, roomVars, Player

\* detachRoomPlayer keeps the types and the shapes.
LEMMA DetachPlayerTyped ==
  ASSUME TypeInv, Shaped, NEW c \in Conn, DetachPlayer(c)
  PROVE  TypeInv' /\ Shaped'
<1>1. Apart(c) /\ Shaped'
  BY DetachPlayerEffect, ShapedStep DEF DetachPlayer, RoomStill
<1>2. PICK p \in drawn : Current(c).player = p
  BY DetachPlayerEffect
<1> QED BY <1>1, <1>2 DEF TypeInv, Apart, DetachPlayer, RoomStill, roomVars, Player, Blame

\* A handler that gives up keeps the types and the shapes.
LEMMA GiveUpTyped ==
  ASSUME TypeInv, Shaped, NEW c \in Conn, GiveUp(c), Apart(c), ShapedAt(c)', RoomStill,
         UNCHANGED <<link, attached, playerID, seen, notified>>, DOMAIN causes' = Cause
  PROVE  TypeInv' /\ Shaped'
<1>1. Shaped'
  BY ShapedStep DEF RoomStill
<1>2. writing' \in [Conn -> Broadcast]
  BY DEF GiveUp, TypeInv, NoBroadcast, Broadcast, NoMessage, Message
<1> QED BY <1>1, <1>2 DEF TypeInv, Apart, RoomStill, roomVars, Player

\* An answer keeps the types and the shapes.
LEMMA ReplyTyped ==
  ASSUME TypeInv, Shaped, NEW c \in Conn, Reply(c)
  PROVE  TypeInv' /\ Shaped'
<1>1. CASE Continue(c, Later(c)) /\ UNCHANGED <<writing, causes>>
  <2>1. Apart(c) /\ Shaped'
    BY <1>1, ReplyWorksEffect, ShapedStep DEF Reply, RoomStill
  <2> QED BY <1>1, <2>1 DEF TypeInv, Apart, Reply, RoomStill, roomVars, Player
<1>2. CASE GiveUp(c) /\ DOMAIN causes' = DOMAIN causes
  BY <1>2, ReplyFailsEffect, GiveUpTyped DEF Reply, RoomStill, TypeInv
<1> QED BY <1>1, <1>2 DEF Reply

\* Telling another room keeps the types and the shapes.
LEMMA TellElsewhereTyped ==
  ASSUME TypeInv, Shaped, NEW c \in Conn, TellElsewhere(c)
  PROVE  TypeInv' /\ Shaped'
<1>1. CASE Continue(c, Later(c)) /\ UNCHANGED <<writing, causes>>
  <2>1. Apart(c) /\ Shaped'
    BY <1>1, TellElsewhereWorksEffect, ShapedStep DEF TellElsewhere, RoomStill
  <2> QED BY <1>1, <2>1 DEF TypeInv, Apart, TellElsewhere, RoomStill, roomVars, Player
<1>2. CASE GiveUp(c) /\ Blame("lost", {c})
  <2>1. DOMAIN causes' = Cause
    BY <1>2 DEF Blame, TypeInv
  <2> QED BY <1>2, <2>1, TellElsewhereFailsEffect, GiveUpTyped DEF TellElsewhere, RoomStill
<1> QED BY <1>1, <1>2 DEF TellElsewhere

\* manager.LeaveRoom keeps the types and the shapes.
LEMMA LeaveRoomTyped ==
  ASSUME TypeInv, Shaped, NEW c \in Conn, LeaveRoom(c)
  PROVE  TypeInv' /\ Shaped'
<1>1. Apart(c) /\ Shaped'
  BY LeaveRoomEffect, ShapedStep DEF LeaveRoom
<1>2. /\ players' \subseteq players /\ ready' \subseteq ready /\ gameStarted' = gameStarted
      /\ version' \in [ViewKind -> Nat]
  BY DEF LeaveRoom, Leave, roomVars, TypeInv, ViewKind
<1> QED BY <1>1, <1>2 DEF TypeInv, Apart, LeaveRoom, Player

\* The close keeps the types and the shapes.
LEMMA CloseTyped ==
  ASSUME TypeInv, Shaped, NEW c \in Conn, Close(c)
  PROVE  TypeInv' /\ Shaped'
<1>1. Apart(c) /\ Shaped'
  BY CloseEffect, ShapedStep DEF Close, RoomStill
<1>2. link' \in [Conn -> {"closed", "up", "down"}] /\ seen' \in [Conn -> [ViewKind -> Nat]]
  BY DEF TypeInv, Close
<1> QED BY <1>1, <1>2 DEF TypeInv, Apart, Close, RoomStill, roomVars, Player

\* Building the view of the room keeps the types and the shapes.
LEMMA ReadRoomViewTyped ==
  ASSUME TypeInv, Shaped, NEW c \in Conn, ReadRoomView(c)
  PROVE  TypeInv' /\ Shaped'
<1>1. Apart(c) /\ Shaped'
  BY ReadRoomViewEffect, ShapedStep DEF ReadRoomView, RoomStill
<1> QED BY <1>1 DEF TypeInv, Apart, ReadRoomView, RoomStill, roomVars, Player

\* Building the views of the game keeps the types and the shapes.
LEMMA ReadGameViewsTyped ==
  ASSUME TypeInv, Shaped, NEW c \in Conn, ReadGameViews(c)
  PROVE  TypeInv' /\ Shaped'
<1>1. CASE GiveUp(c) /\ Blame("gaveUp", {c})
  <2>1. GiveUp(c) /\ DOMAIN causes' = Cause /\ At(c, "gameViews") /\ RoomStill
    BY <1>1 DEF ReadGameViews, Blame, TypeInv
  <2> QED BY <2>1, GameViewsFailEffect, GiveUpTyped DEF ReadGameViews, RoomStill
<1>2. CASE ShowsGame(c)
  <2>1. Apart(c) /\ Shaped'
    BY <1>2, ReadGameViewsEffect, ShapedStep DEF ShowsGame, RoomStill
  <2> QED BY <1>2, <2>1 DEF TypeInv, Apart, ShowsGame, ReadGameViews, RoomStill, roomVars, Player
<1> QED BY <1>1, <1>2, GameViewsCases

\* The start of a broadcast keeps the types and the shapes.
LEMMA StartWritingTyped ==
  ASSUME TypeInv, Shaped, NEW c \in Conn, NEW m \in Message, NEW clients \in SUBSET Conn,
         StartWriting(c, m, clients), Apart(c), ShapedAt(c)'
  PROVE  TypeInv' /\ Shaped'
<1>1. Shaped'
  BY ShapedStep DEF StartWriting, RoomStill
<1>2. writing' \in [Conn -> Broadcast]
  BY DEF StartWriting, TypeInv, NoBroadcast, Broadcast, NoMessage, Message
<1> QED BY <1>1, <1>2 DEF TypeInv, Apart, StartWriting, RoomStill, roomVars, Player

\* Listing the connections keeps the types and the shapes.
LEMMA ListTyped ==
  ASSUME TypeInv, Shaped, NEW c \in Conn, ListClients(c) \/ ListKicked(c)
  PROVE  TypeInv' /\ Shaped'
<1>1. CASE ListClients(c)
  <2>1. attached \in SUBSET Conn
    BY DEF TypeInv
  <2> QED BY <1>1, <2>1, ListClientsEffect, StartWritingTyped DEF ListClients
<1>2. CASE ListKicked(c)
  <2>1. {d \in attached : Player(d) = Current(c).player} \in SUBSET Conn
    BY DEF TypeInv
  <2>2. Current(c).player \in drawn
    BY <1>2, ListKickedPlayer
  <2>3. GoodbyeTo(Current(c).player) \in Message
    BY <2>2, MessagesTyped
  <2> QED BY <1>2, <2>1, <2>3, ListKickedEffect, StartWritingTyped DEF ListKicked, GoodbyeTo
<1> QED BY <1>1, <1>2

\* A write of a broadcast keeps the types and the shapes.
LEMMA WriteTyped ==
  ASSUME TypeInv, Shaped, NEW c \in Conn, Write(c)
  PROVE  TypeInv' /\ Shaped'
<1>1. PICK d \in writing[c].left : WriteGoesOn(c, d) \/ WriteBreaksOff(c, d)
  BY WriteCases
<1>2. d \in Conn
  BY DEF TypeInv, Broadcast
<1>3. CASE WriteGoesOn(c, d)
  <2>1. Apart(c) /\ Shaped'
    BY <1>3, WriteGoesOnEffect, ShapedStep DEF WriteGoesOn, RoomStill
  <2>2. writing[c].message \in Message /\ writing[c].left \in SUBSET Conn
    BY DEF TypeInv, Broadcast
  <2>3. NoBroadcast \in Broadcast
    BY DEF NoBroadcast, Broadcast, NoMessage, Message
  <2>4. writing'[c] \in Broadcast
    <3>1. writing[c].left \ {d} \in SUBSET Conn
      BY <2>2
    <3>2. [message |-> writing[c].message, left |-> writing[c].left \ {d}] \in Broadcast
      BY <2>2, <3>1 DEF Broadcast
    <3> QED BY <1>3, <2>3, <3>2, WriteGoesOnEffect
  <2>5. writing' \in [Conn -> Broadcast]
    BY <1>3, <2>4 DEF TypeInv, WriteGoesOn
  <2>6. seen' \in [Conn -> [ViewKind -> Nat]]
    <3> DEFINE m == writing[c].message
    <3>1. m.version \in Nat /\ seen \in [Conn -> [ViewKind -> Nat]]
      BY <2>2 DEF Message, TypeInv
    <3>2. CASE seen' = seen
      BY <3>1, <3>2
    <3>3. CASE m.kind \in ViewKind /\ seen' = [seen EXCEPT ![d][m.kind] = m.version]
      <4> HIDE DEF m
      <4> QED BY <1>2, <3>1, <3>3
    <3> QED BY <1>3, <3>2, <3>3 DEF WriteGoesOn, Skip, Send
  <2>7. notified' \subseteq drawn
    <3>1. writing[c].message.kind = "KICKED_FROM_ROOM" => writing[c].message.to \subseteq drawn
      <4>1. WritingDues(c)
        BY AtWriting
      <4>2. \A p : GoodbyeTo(p).to = {p}
        BY DEF GoodbyeTo
      <4> QED BY <4>1, <4>2, MessageKinds DEF WritingDues
    <3> QED BY <1>3, <3>1 DEF TypeInv, WriteGoesOn, Skip, Send
  <2> QED BY <1>3, <2>1, <2>5, <2>6, <2>7 DEF TypeInv, Apart, WriteGoesOn, RoomStill, roomVars, Player
<1>4. CASE WriteBreaksOff(c, d)
  <2>1. GiveUp(c) /\ DOMAIN causes' = Cause /\ RoomStill
    BY <1>4 DEF WriteBreaksOff, WriteFails, Blame, TypeInv
  <2> QED BY <1>4, <2>1, WriteBreaksOffEffect, GiveUpTyped DEF WriteBreaksOff, WriteFails
<1> QED BY <1>1, <1>3, <1>4

\* A connection that comes up or goes down keeps the types and the shapes.
LEMMA LinkTyped ==
  ASSUME TypeInv, Shaped, NEW c \in Conn, Connect(c) \/ LoseLink(c)
  PROVE  TypeInv' /\ Shaped'
<1>1. Shaped'
  BY ShapedStands DEF Connect, LoseLink, RoomStill
<1> QED BY <1>1 DEF TypeInv, Connect, LoseLink, RoomStill, roomVars, Player, Blame

\* A read that fails keeps the types and the shapes.
LEMMA ReadFailsTyped ==
  ASSUME TypeInv, Shaped, NEW c \in Conn, ReadFails(c)
  PROVE  TypeInv' /\ Shaped'
<1>1. Apart(c) /\ Shaped'
  BY ReadFailsEffect, ShapedStep DEF ReadFails, RoomStill
<1> QED BY <1>1 DEF TypeInv, Apart, ReadFails, RoomStill, roomVars, Player

\* The versions count up.
LEMMA ChangesTyped ==
  ASSUME TypeInv, NEW kinds, Changes(kinds)
  PROVE  /\ version' \in [ViewKind -> Nat]
         /\ \A k \in ViewKind : version'[k] = version[k] + IF k \in kinds THEN 1 ELSE 0
  BY DEF TypeInv, Changes

\* A command keeps the types and the shapes.
LEMMA MessageTyped ==
  ASSUME TypeInv, Shaped, NEW c \in Conn, HandleMessage(c)
  PROVE  TypeInv' /\ Shaped'
<1>1. ASSUME Apart(c), ShapedAt(c)', drawn \subseteq drawn', drawn' \subseteq RoomPlayer,
             players' \subseteq drawn', seats' \subseteq drawn', ready' \subseteq drawn',
             gameStarted' \in BOOLEAN, version' \in [ViewKind -> Nat], DOMAIN causes' = Cause,
             UNCHANGED <<link, attached, playerID, writing, seen, notified>>
      PROVE  TypeInv' /\ Shaped'
  <2>1. Shaped'
    BY <1>1, ShapedStep
  <2> QED BY <1>1, <2>1 DEF TypeInv, Apart, Player
<1>2. ASSUME NEW p \in RoomPlayer, HandleCreateRoom(c, p) \/ HandleJoinRoom(c, p)
      PROVE  TypeInv' /\ Shaped'
  <2>1. p \in drawn' /\ Takes(c, Entering(p))
    BY <1>2 DEF HandleCreateRoom, HandleJoinRoom
  <2>2. Apart(c) /\ ShapedAt(c)'
    BY <2>1, EnteringEffect
  <2>3. version' \in [ViewKind -> Nat]
    BY <1>2, ChangesTyped DEF HandleCreateRoom, HandleJoinRoom
  <2> QED
    BY <1>1, <1>2, <2>2, <2>3
    DEF HandleCreateRoom, HandleJoinRoom, NewRoom, Join, Takes, TypeInv, Blame
<1>3. CASE HandleEnterOtherRoom(c)
  BY <1>1, <1>3, EnterOtherEffect DEF HandleEnterOtherRoom, RoomStill, Takes, TypeInv, roomVars
<1>4. ASSUME NEW isReady \in BOOLEAN, HandleSetReady(c, isReady)
      PROVE  TypeInv' /\ Shaped'
  <2>1. version' \in [ViewKind -> Nat]
    BY <1>4, ChangesTyped DEF HandleSetReady
  <2> QED BY <1>1, <1>4, <2>1, SetReadyEffect DEF HandleSetReady, SetReady, Takes, TypeInv
<1>5. ASSUME NEW target \in RoomPlayer, HandleTransferHost(c, target)
      PROVE  TypeInv' /\ Shaped'
  <2>1. version' \in [ViewKind -> Nat]
    BY <1>5, ChangesTyped DEF HandleTransferHost
  <2> QED BY <1>1, <1>5, <2>1, TransferHostEffect DEF HandleTransferHost, TransferHost, Takes, TypeInv
<1>6. CASE HandleStartGame(c)
  <2>1. version' \in [ViewKind -> Nat]
    BY <1>6, ChangesTyped DEF HandleStartGame
  <2> QED BY <1>1, <1>6, <2>1, StartGameEffect DEF HandleStartGame, StartGame, Takes, TypeInv
<1>7. CASE HandleLeaveRoom(c)
  <2>1. version' \in [ViewKind -> Nat]
    BY <1>7, ChangesTyped DEF HandleLeaveRoom
  <2> QED BY <1>1, <1>7, <2>1, HandleLeaveEffect DEF HandleLeaveRoom, Leave, Takes, TypeInv
<1>8. CASE HandleKickVote(c)
  <2>1. version' \in [ViewKind -> Nat]
    BY <1>8, ChangesTyped DEF HandleKickVote
  <2>2. players' \subseteq players /\ ready' \subseteq ready /\ gameStarted' = gameStarted
    BY <1>8, KickVoteEffect
  <2>3. /\ drawn' = drawn /\ seats' = seats /\ causes' = causes
        /\ UNCHANGED <<link, attached, playerID, writing, seen, notified>>
    BY <1>8 DEF HandleKickVote, Takes
  <2> QED BY <1>1, <1>8, <2>1, <2>2, <2>3, KickVoteEffect DEF TypeInv
<1>9. CASE HandleGameCommand(c)
  <2>1. version' \in [ViewKind -> Nat]
    BY <1>9, ChangesTyped DEF HandleGameCommand
  <2> QED BY <1>1, <1>9, <2>1, GameCommandEffect DEF HandleGameCommand, Takes, TypeInv, roomVars
<1> QED BY <1>2, <1>3, <1>4, <1>5, <1>6, <1>7, <1>8, <1>9 DEF HandleMessage

\* Every step of a connection keeps the types and the shapes.
LEMMA NextTyped ==
  ASSUME TypeInv, Shaped, [ConnStep]_vars
  PROVE  TypeInv' /\ Shaped'
<1>1. ASSUME NEW c \in Conn, GoroutineStep(c)
      PROVE  TypeInv' /\ Shaped'
  BY <1>1, AttachTyped, DetachTyped, DetachPlayerTyped, ReplyTyped, LeaveRoomTyped,
     TellElsewhereTyped, CloseTyped, ReadRoomViewTyped, ReadGameViewsTyped, ListTyped, WriteTyped
  DEF GoroutineStep
<1>2. CASE UNCHANGED vars
  <2>1. Shaped'
    BY <1>2, ShapedStands DEF vars, hubVars
  <2> QED BY <1>2, <2>1 DEF TypeInv, vars, hubVars, roomVars, Player
<1> QED BY <1>1, <1>2, LinkTyped, ReadFailsTyped, MessageTyped DEF ConnStep

\* Both hold at the start.
LEMMA InitTyped ==
  ASSUME Init
  PROVE  TypeInv /\ Shaped
<1>1. NoBroadcast \in Broadcast
  BY DEF NoBroadcast, Broadcast, NoMessage, Message
<1> QED BY <1>1 DEF Init, TypeInv, Shaped, ShapedAt, Errand, Player

----------------------------------------------------------------------------
(* Who stands for whom.                                                    *)

\* c stands for p, is about to, or has still to take p out of the room.
Bears(c, p) == Player(c) = p \/ Due(c, DoFor("attach", p)) \/ Due(c, DoFor("leave", p))

\* No player has two connections to stand for him.
OneBearer == \A c, d \in Conn, p \in RoomPlayer : Bears(c, p) /\ Bears(d, p) => c = d

\* Who is about to be attached has just joined: not ready, without a seat, and
\* nobody's player yet.
ComingAreNew ==
  \A c \in Conn, p \in RoomPlayer :
    Due(c, DoFor("attach", p)) => p \notin ready /\ p \notin seats /\ Player(c) # p

\* A connection to be closed gives up its player first, and one to be detached
\* by LEAVE_ROOM has none in the room.
GoingHaveGone ==
  \A c \in Conn :
    /\ Player(c) # NoOne /\ Due(c, Do("close")) =>
         Due(c, Do("detach")) /\ Due(c, DoFor("leave", Player(c)))
    /\ Due(c, Do("detach")) /\ ~Due(c, Do("close")) => Player(c) \notin players

\* Who is about to be detached after a vote has been removed.
KickedHaveGone ==
  \A c \in Conn, p \in RoomPlayer : Due(c, DoFor("detachPlayer", p)) => p \notin players

\* A closed connection has no player, and its goroutine has ended.
ClosedAreIdle ==
  \A c \in Conn : link[c] = "closed" => Idle(c) /\ Player(c) = NoOne

\* Who stands for whom, together.
BearersInv == OneBearer /\ ComingAreNew /\ GoingHaveGone /\ KickedHaveGone /\ ClosedAreIdle

\* Whoever a connection stands for, or is about to, plays in the room, or is
\* about to be taken off it, or the kick came before the attaching.
Accounted ==
  \A c \in Conn, p \in RoomPlayer :
    Player(c) = p \/ Due(c, DoFor("attach", p)) =>
      \/ p \in players \cup causes["kickedEarly"]
      \/ \E d \in Conn : Due(d, DoFor("detachPlayer", p))
      \/ Player(c) = p /\ Due(c, Do("detach"))

\* Every member has a connection that stands for him, is about to, or has still
\* to take him out, unless it has joined again as somebody else.
MembersBorne == \A p \in players \ causes["abandoned"] : \E c \in Conn : Bears(c, p)

\* The steps that say who stands for whom.
Matters == {"attach", "detach", "detachPlayer", "leave", "close"}

\* A step that only talks,
TalkStep(c) ==
  /\ Apart(c) /\ RoomStill /\ ~Idle(c)
  /\ UNCHANGED <<link, attached, playerID>>
  /\ \A s : s.do \in Matters => (Due(c, s)' <=> Due(c, s))

\* and one that gives the connection up.
UnregisterStep(c) ==
  /\ Apart(c) /\ RoomStill
  /\ ~Idle(c) \/ link[c] = "down"
  /\ UNCHANGED <<link, attached, playerID>>
  /\ \A s \in Dues(c) : s.do \notin Matters
  /\ Dues(c)' = UnregisterDues(c)

\* Answers, views, broadcasts and failed reads are of these two kinds.
LEMMA TalkCases ==
  ASSUME TypeInv, Shaped, NEW c \in Conn,
         \/ Reply(c) \/ TellElsewhere(c) \/ ReadRoomView(c) \/ ReadGameViews(c)
         \/ ListClients(c) \/ ListKicked(c) \/ Write(c) \/ ReadFails(c)
  PROVE  TalkStep(c) \/ UnregisterStep(c)
<1> USE DEF Matters
<1>1. CASE Reply(c)
  <2>1. ~Idle(c)
    BY <1>1 DEF Reply, At, Idle
  <2>2. CASE Continue(c, Later(c)) /\ UNCHANGED <<writing, causes>>
    <3>1. Apart(c) /\ RoomStill /\ UNCHANGED <<link, attached, playerID>>
      BY <1>1, <2>2, ReplyWorksEffect DEF Reply, RoomStill
    <3>2. \A s : s.do \in Matters => (Due(c, s)' <=> Due(c, s))
      BY <1>1, <2>2, ReplyWorksEffect, StepFields DEF Reply, RoomStill, Due
    <3> QED BY <2>1, <3>1, <3>2 DEF TalkStep
  <2>3. CASE GiveUp(c)
    <3>1. Apart(c) /\ RoomStill /\ UNCHANGED <<link, attached, playerID>>
      BY <1>1, <2>3, ReplyFailsEffect DEF Reply, RoomStill
    <3>2. /\ \A s \in Dues(c) : s.do \notin Matters
          /\ Dues(c)' = UnregisterDues(c)
      BY <1>1, <2>3, ReplyFailsEffect, StepFields DEF Reply, RoomStill, ReplyDues
    <3> QED BY <2>1, <3>1, <3>2 DEF UnregisterStep
  <2> QED BY <1>1, <2>2, <2>3 DEF Reply
<1>2. CASE ReadRoomView(c)
  <2>1. ~Idle(c) /\ Apart(c) /\ RoomStill /\ UNCHANGED <<link, attached, playerID>>
    BY <1>2, ReadRoomViewEffect DEF ReadRoomView, At, Idle
  <2>2. \A s : s.do \in Matters => (Due(c, s)' <=> Due(c, s))
    BY <1>2, ReadRoomViewEffect, StepFields DEF Due
  <2> QED BY <2>1, <2>2 DEF TalkStep
<1>3. CASE ReadGameViews(c)
  <2>1. ~Idle(c) /\ RoomStill /\ UNCHANGED <<link, attached, playerID>>
    BY <1>3 DEF ReadGameViews, At, Idle
  <2>2. CASE GiveUp(c)
    <3>1. /\ Apart(c) /\ Dues(c)' = UnregisterDues(c)
          /\ \A s \in Dues(c) : s.do \notin Matters
      BY <1>3, <2>2, GameViewsFailEffect, StepFields DEF ReadGameViews, RoomStill
    <3> QED BY <2>1, <3>1 DEF UnregisterStep
  <2>3. CASE ShowsGame(c)
    <3>1. Apart(c) /\ \A s : s.do \in Matters => (Due(c, s)' <=> Due(c, s))
      BY <2>3, ReadGameViewsEffect, StepFields DEF Due
    <3> QED BY <2>1, <3>1 DEF TalkStep
  <2> QED BY <1>3, <2>2, <2>3, GameViewsCases
<1>4. CASE ListClients(c)
  <2>1. ~Idle(c) /\ Apart(c) /\ RoomStill /\ UNCHANGED <<link, attached, playerID>>
    BY <1>4, ListClientsEffect DEF ListClients, StartWriting, At, Idle
  <2>2. \A s : s.do \in Matters => (Due(c, s)' <=> Due(c, s))
    <3>1. /\ Sends(todo[c], Current(c).message)
          /\ Dues(c) = Range(todo[c]) /\ Dues(c)' = Range(Tail(todo[c]))
      BY <1>4, ListClientsEffect DEF Dues
    <3>2. \A s : s.do \in Matters => (s \in Range(todo[c]) <=> s \in Range(Tail(todo[c])))
      BY <3>1, StepFields DEF Sends
    <3> QED BY <3>1, <3>2 DEF Due
  <2> QED BY <2>1, <2>2 DEF TalkStep
<1>5. CASE ListKicked(c)
  <2>1. ~Idle(c) /\ Apart(c) /\ RoomStill /\ UNCHANGED <<link, attached, playerID>>
    BY <1>5, ListKickedEffect DEF ListKicked, StartWriting, At, Idle
  <2>2. \A s : s.do \in Matters => (Due(c, s)' <=> Due(c, s))
    <3>1. PICK p \in drawn :
             /\ Dues(c) = {DoFor("notify", p), DoFor("detachPlayer", p), Notice, Do("roomView")}
             /\ Dues(c)' = {DoFor("detachPlayer", p), Notice, Do("roomView")}
      BY <1>5, ListKickedEffect
    <3> QED BY <3>1, StepFields DEF Due
  <2> QED BY <2>1, <2>2 DEF TalkStep
<1>6. CASE Write(c)
  <2>1. PICK d \in writing[c].left : WriteGoesOn(c, d) \/ WriteBreaksOff(c, d)
    BY <1>6, WriteCases
  <2>2. ~Idle(c)
    BY DEF Idle, NoBroadcast
  <2>3. CASE WriteGoesOn(c, d)
    <3>1. Apart(c) /\ RoomStill /\ UNCHANGED <<link, attached, playerID>> /\ Dues(c)' = Dues(c)
      BY <2>3, WriteGoesOnEffect DEF WriteGoesOn
    <3> QED BY <2>2, <3>1 DEF TalkStep, Due
  <2>4. CASE WriteBreaksOff(c, d)
    <3>1. Apart(c) /\ RoomStill /\ UNCHANGED <<link, attached, playerID>>
      BY <2>4, WriteBreaksOffEffect DEF WriteBreaksOff
    <3>2. CASE Dues(c)' = Dues(c)
      BY <2>2, <3>1, <3>2 DEF TalkStep, Due
    <3>3. CASE /\ Dues(c) \in {{}, {Do("roomView")}, {Do("gameViews"), Do("roomView")}, {Do("gameViews")}}
               /\ Dues(c)' = UnregisterDues(c)
      <4>1. \A s \in Dues(c) : s.do \notin Matters
        BY <3>3, StepFields
      <4> QED BY <2>2, <3>1, <3>3, <4>1 DEF UnregisterStep
    <3> QED BY <2>4, <3>2, <3>3, WriteBreaksOffEffect
  <2> QED BY <2>1, <2>3, <2>4
<1>7. CASE ReadFails(c)
  BY <1>7, ReadFailsEffect DEF ReadFails, RoomStill, UnregisterStep
<1>8. CASE TellElsewhere(c)
  <2>1. ~Idle(c) /\ RoomStill /\ UNCHANGED <<link, attached, playerID>>
    BY <1>8 DEF TellElsewhere, At, Idle
  <2>2. CASE Continue(c, Later(c)) /\ UNCHANGED writing
    <3>1. Apart(c) /\ \A s : s.do \in Matters => (Due(c, s)' <=> Due(c, s))
      BY <1>8, <2>2, TellElsewhereWorksEffect, StepFields DEF TellElsewhere, RoomStill, Due
    <3> QED BY <2>1, <3>1 DEF TalkStep
  <2>3. CASE GiveUp(c)
    <3>1. /\ Apart(c) /\ Dues(c)' = UnregisterDues(c)
          /\ \A s \in Dues(c) : s.do \notin Matters
      BY <1>8, <2>3, TellElsewhereFailsEffect, StepFields DEF TellElsewhere, RoomStill
    <3> QED BY <2>1, <3>1 DEF UnregisterStep
  <2> QED BY <1>8, <2>2, <2>3 DEF TellElsewhere
<1> QED BY <1>1, <1>2, <1>3, <1>4, <1>5, <1>6, <1>7, <1>8

\* What has gone wrong stays on record.
LEMMA CausesGrow ==
  ASSUME TypeInv, [ConnStep]_vars
  PROVE  \A k \in Cause : causes[k] \subseteq causes'[k]
<1>1. ASSUME NEW kind, NEW S, Blame(kind, S) PROVE \A k \in Cause : causes[k] \subseteq causes'[k]
  BY <1>1 DEF TypeInv, Blame
<1>2. ASSUME NEW c \in Conn, Write(c) PROVE \A k \in Cause : causes[k] \subseteq causes'[k]
  BY <1>1, <1>2 DEF Write, WriteFails
<1>3. ASSUME NEW c \in Conn, Reply(c) PROVE \A k \in Cause : causes[k] \subseteq causes'[k]
  BY <1>3 DEF TypeInv, Reply
<1>4. ASSUME NEW c \in Conn, GoroutineStep(c) PROVE \A k \in Cause : causes[k] \subseteq causes'[k]
  BY <1>1, <1>2, <1>3, <1>4
  DEF GoroutineStep, Attach, Detach, DetachPlayer, LeaveRoom, TellElsewhere, Close,
      ReadRoomView, ReadGameViews, ListClients, ListKicked, StartWriting
<1>5. ASSUME NEW c \in Conn, HandleMessage(c) PROVE \A k \in Cause : causes[k] \subseteq causes'[k]
  BY <1>1, <1>5
  DEF HandleMessage, HandleCreateRoom, HandleJoinRoom, HandleEnterOtherRoom, HandleSetReady,
      HandleTransferHost, HandleStartGame, HandleLeaveRoom, HandleKickVote, HandleGameCommand
<1>6. ASSUME NEW c \in Conn, Connect(c) \/ LoseLink(c) \/ ReadFails(c)
      PROVE  \A k \in Cause : causes[k] \subseteq causes'[k]
  BY <1>1, <1>6 DEF Connect, LoseLink, ReadFails, RoomStill
<1> QED BY <1>4, <1>5, <1>6 DEF ConnStep, vars, hubVars

\* A step of c changes nothing of what the others have to do.
LEMMA ApartDue ==
  ASSUME NEW c \in Conn, Apart(c)
  PROVE  \A d \in Conn \ {c} : (Idle(d)' <=> Idle(d)) /\ \A s : Due(d, s)' <=> Due(d, s)
  BY DEF Apart, Due, Idle

\* The steps of a handler are for players who have been given an id.
LEMMA ErrandPlayers ==
  ASSUME NEW s, Errand(s)
  PROVE  \A x \in Range(s) : x.player \in drawn \cup {NoOne}
<1> USE Lists, StepFields
<1>1. /\ \A n : RoomViewOf(n).player = NoOne
      /\ \A n, ps : GameViewsOf(n, ps).player = NoOne
      /\ Notice.player = NoOne /\ Events.player = NoOne
  BY DEF RoomViewOf, GameViewsOf, Notice, Events, SendKind, SendAll, Do
<1>2. CASE s = <<>>
  BY <1>2
<1>3. CASE EnterErrand(s)
  BY <1>3 DEF EnterErrand
<1>4. CASE ViewErrand(s)
  BY <1>1, <1>4 DEF ViewErrand
<1>5. CASE StartErrand(s)
  BY <1>1, <1>5 DEF StartErrand
<1>6. CASE LeaveErrand(s)
  BY <1>6 DEF LeaveErrand
<1>7. CASE KickErrand(s)
  BY <1>1, <1>7 DEF KickErrand
<1>8. CASE GameErrand(s)
  BY <1>1, <1>8 DEF GameErrand
<1>9. CASE CloseErrand(s)
  BY <1>1, <1>9 DEF CloseErrand
<1> QED BY <1>2, <1>3, <1>4, <1>5, <1>6, <1>7, <1>8, <1>9 DEF Errand

\* So are the steps that any goroutine has left.
LEMMA DuesPlayers ==
  ASSUME TypeInv, Shaped, NEW c \in Conn
  PROVE  \A s \in Dues(c) : s.player \in drawn \cup {NoOne}
<1>1. Errand(todo[c])
  BY AtWriting DEF Shaped, ShapedAt
<1> QED BY <1>1, ErrandPlayers DEF Dues

\* A step that gives no player another connection keeps OneBearer.
LEMMA BearersStay ==
  ASSUME OneBearer, \A d \in Conn, p \in RoomPlayer : Bears(d, p)' => Bears(d, p)
  PROVE  OneBearer'
  BY DEF OneBearer

\* attachClientToRoom keeps BearersInv.
LEMMA AttachBearers ==
  ASSUME TypeInv, Shaped, BearersInv, NEW c \in Conn, Attach(c)
  PROVE  BearersInv'
<1>1. PICK p \in drawn \cup {NoOne} :
        /\ Current(c).player = p
        /\ \/ /\ p # NoOne
              /\ Dues(c) = {DoFor("attach", p), Do("reply"), Do("roomView")}
              /\ Dues(c)' = {Do("reply"), Do("roomView")}
           \/ /\ p = NoOne
              /\ Dues(c) = {Do("attach"), Do("reply"), Do("elsewhere")}
              /\ Dues(c)' = {Do("reply"), Do("elsewhere")}
  BY AttachEffect
<1>2. /\ Apart(c) /\ ~Idle(c)
      /\ \A d \in Conn : Player(d)' = IF d = c THEN p ELSE Player(d)
      /\ UNCHANGED <<players, ready, seats, link>>
  BY <1>1, AttachEffect DEF Attach, At, Idle, Player, TypeInv, RoomStill, roomVars
<1>3. \A d \in Conn \ {c} : (Idle(d)' <=> Idle(d)) /\ \A s : Due(d, s)' <=> Due(d, s)
  BY <1>2, ApartDue
<1>4. p # NoOne => Due(c, DoFor("attach", p))
  BY <1>1 DEF Due
<1>5. \A s : Due(c, s)' => s.do \notin Matters
  BY <1>1, StepFields DEF Due, Matters
<1>6. OneBearer'
  <2>1. ASSUME NEW d \in Conn, NEW q \in RoomPlayer, Bears(d, q)' PROVE Bears(d, q)
    BY <1>2, <1>3, <1>4, <1>5, <2>1, StepFields, RoomAssumption DEF Bears, Matters
  <2> QED BY <2>1, BearersStay DEF BearersInv
<1>7. ComingAreNew'
  BY <1>2, <1>3, <1>5, StepFields DEF BearersInv, ComingAreNew, Matters
<1>8. GoingHaveGone'
  BY <1>2, <1>3, <1>5, StepFields DEF BearersInv, GoingHaveGone, Matters
<1>9. KickedHaveGone'
  BY <1>2, <1>3, <1>5, StepFields DEF BearersInv, KickedHaveGone, Matters
<1>10. ClosedAreIdle'
  BY <1>2, <1>3 DEF BearersInv, ClosedAreIdle
<1> QED BY <1>6, <1>7, <1>8, <1>9, <1>10 DEF BearersInv

\* detachClientFromRoom keeps BearersInv.
LEMMA DetachBearers ==
  ASSUME TypeInv, Shaped, BearersInv, NEW c \in Conn, Detach(c)
  PROVE  BearersInv'
<1>1. /\ Apart(c) /\ ~Idle(c)
      /\ \A d \in Conn : Player(d)' = IF d = c THEN NoOne ELSE Player(d)
      /\ UNCHANGED <<players, ready, seats, link>>
  BY DetachEffect DEF Detach, At, Idle, Player, TypeInv, RoomStill, roomVars
<1>2. \A d \in Conn \ {c} : (Idle(d)' <=> Idle(d)) /\ \A s : Due(d, s)' <=> Due(d, s)
  BY <1>1, ApartDue
<1>3. /\ \A s : Due(c, s)' => Due(c, s)
      /\ ~Due(c, Do("detach"))'
      /\ \A p : ~Due(c, DoFor("attach", p))'
      /\ \A p : ~Due(c, DoFor("detachPlayer", p))'
  BY DetachEffect, StepFields DEF Due
<1>4. OneBearer'
  <2>1. ASSUME NEW d \in Conn, NEW q \in RoomPlayer, Bears(d, q)' PROVE Bears(d, q)
    BY <1>1, <1>2, <1>3, <2>1, RoomAssumption DEF Bears
  <2> QED BY <2>1, BearersStay DEF BearersInv
<1>5. ComingAreNew'
  BY <1>1, <1>2, <1>3 DEF BearersInv, ComingAreNew
<1>6. GoingHaveGone'
  BY <1>1, <1>2, <1>3 DEF BearersInv, GoingHaveGone
<1>7. KickedHaveGone'
  BY <1>1, <1>2, <1>3 DEF BearersInv, KickedHaveGone
<1>8. ClosedAreIdle'
  BY <1>1, <1>2 DEF BearersInv, ClosedAreIdle
<1> QED BY <1>4, <1>5, <1>6, <1>7, <1>8 DEF BearersInv

\* detachRoomPlayer keeps BearersInv.
LEMMA DetachPlayerBearers ==
  ASSUME TypeInv, Shaped, BearersInv, NEW c \in Conn, DetachPlayer(c)
  PROVE  BearersInv'
<1>1. PICK p \in drawn :
        /\ Current(c).player = p
        /\ Dues(c) = {DoFor("detachPlayer", p), Notice, Do("roomView")}
        /\ Dues(c)' = {Notice, Do("roomView")}
  BY DetachPlayerEffect
<1>2. /\ Apart(c) /\ ~Idle(c)
      /\ \A d \in Conn : Player(d)' = IF Player(d) = p THEN NoOne ELSE Player(d)
      /\ UNCHANGED <<players, ready, seats, link>>
  <2>1. p # NoOne
    BY RoomAssumption DEF TypeInv
  <2> QED
    BY <1>1, <2>1, DetachPlayerEffect
    DEF DetachPlayer, At, Idle, Player, TypeInv, RoomStill, roomVars
<1>3. \A d \in Conn \ {c} : (Idle(d)' <=> Idle(d)) /\ \A s : Due(d, s)' <=> Due(d, s)
  BY <1>2, ApartDue
<1>4. \A s : Due(c, s)' => s.do \notin Matters
  BY <1>1, StepFields DEF Due, Matters
<1>5. NoOne \notin players
  BY RoomAssumption DEF TypeInv
<1>6. OneBearer'
  <2>1. ASSUME NEW d \in Conn, NEW q \in RoomPlayer, Bears(d, q)' PROVE Bears(d, q)
    BY <1>2, <1>3, <1>4, <2>1, StepFields, RoomAssumption DEF Bears, Matters
  <2> QED BY <2>1, BearersStay DEF BearersInv
<1>7. ComingAreNew'
  BY <1>2, <1>3, <1>4, StepFields, RoomAssumption DEF BearersInv, ComingAreNew, Matters
<1>8. GoingHaveGone'
  BY <1>2, <1>3, <1>4, <1>5, StepFields DEF BearersInv, GoingHaveGone, Matters
<1>9. KickedHaveGone'
  BY <1>2, <1>3, <1>4, StepFields DEF BearersInv, KickedHaveGone, Matters
<1>10. ClosedAreIdle'
  BY <1>2, <1>3 DEF BearersInv, ClosedAreIdle
<1> QED BY <1>6, <1>7, <1>8, <1>9, <1>10 DEF BearersInv

\* manager.LeaveRoom keeps BearersInv.
LEMMA LeaveRoomBearers ==
  ASSUME TypeInv, Shaped, BearersInv, NEW c \in Conn, LeaveRoom(c)
  PROVE  BearersInv'
<1>1. PICK p \in drawn :
        /\ Current(c).player = p
        /\ Dues(c) = {DoFor("leave", p), Do("roomView"), Do("close")}
        /\ Dues(c)' = {Do("roomView"), Do("close")}
  BY LeaveRoomEffect
<1>2. /\ Apart(c) /\ ~Idle(c)
      /\ players' \subseteq players /\ ready' \subseteq ready
      /\ UNCHANGED <<playerID, seats, link>>
  BY <1>1, LeaveRoomEffect DEF LeaveRoom, Leave, At, Idle, roomVars
<1>3. \A d \in Conn \ {c} : (Idle(d)' <=> Idle(d)) /\ \A s : Due(d, s)' <=> Due(d, s)
  BY <1>2, ApartDue
<1>4. \A s : Due(c, s)' => Due(c, s)
  BY <1>1 DEF Due
<1>5. ~Due(c, Do("detach"))
  BY <1>1, StepFields DEF Due
<1>6. Player(c) = NoOne
  BY <1>1, <1>5 DEF BearersInv, GoingHaveGone, Due
<1>7. \A d \in Conn : Player(d)' = Player(d)
  BY <1>2 DEF Player
<1>8. OneBearer'
  <2>1. ASSUME NEW d \in Conn, NEW q \in RoomPlayer, Bears(d, q)' PROVE Bears(d, q)
    BY <1>3, <1>4, <1>7, <2>1 DEF Bears
  <2> QED BY <2>1, BearersStay DEF BearersInv
<1>9. ComingAreNew'
  BY <1>2, <1>3, <1>4, <1>7 DEF BearersInv, ComingAreNew
<1>10. GoingHaveGone'
  BY <1>2, <1>3, <1>4, <1>5, <1>6, <1>7 DEF BearersInv, GoingHaveGone
<1>11. KickedHaveGone'
  BY <1>2, <1>3, <1>4 DEF BearersInv, KickedHaveGone
<1>12. ClosedAreIdle'
  BY <1>2, <1>3, <1>7 DEF BearersInv, ClosedAreIdle
<1> QED BY <1>8, <1>9, <1>10, <1>11, <1>12 DEF BearersInv

\* The close keeps BearersInv.
LEMMA CloseBearers ==
  ASSUME TypeInv, Shaped, BearersInv, NEW c \in Conn, Close(c)
  PROVE  BearersInv'
<1>1. /\ Apart(c) /\ Dues(c) = {Do("close")} /\ Dues(c)' = {} /\ Idle(c)'
      /\ UNCHANGED <<players, ready, seats, playerID>>
      /\ \A d \in Conn \ {c} : link'[d] = link[d]
  BY CloseEffect DEF Close, Idle, RoomStill, roomVars, TypeInv, NoBroadcast, NoMessage
<1>2. \A d \in Conn \ {c} : (Idle(d)' <=> Idle(d)) /\ \A s : Due(d, s)' <=> Due(d, s)
  BY <1>1, ApartDue
<1>3. \A s : ~Due(c, s)'
  BY <1>1 DEF Due
<1>4. Player(c) = NoOne /\ \A d \in Conn : Player(d)' = Player(d)
  BY <1>1, StepFields DEF BearersInv, GoingHaveGone, Due, Player
<1>5. OneBearer'
  <2>1. ASSUME NEW d \in Conn, NEW q \in RoomPlayer, Bears(d, q)' PROVE Bears(d, q)
    BY <1>2, <1>3, <1>4, <2>1 DEF Bears
  <2> QED BY <2>1, BearersStay DEF BearersInv
<1>6. ComingAreNew'
  BY <1>1, <1>2, <1>3, <1>4 DEF BearersInv, ComingAreNew
<1>7. GoingHaveGone'
  BY <1>1, <1>2, <1>3, <1>4 DEF BearersInv, GoingHaveGone
<1>8. KickedHaveGone'
  BY <1>1, <1>2, <1>3 DEF BearersInv, KickedHaveGone
<1>9. ClosedAreIdle'
  BY <1>1, <1>2, <1>4 DEF BearersInv, ClosedAreIdle
<1> QED BY <1>5, <1>6, <1>7, <1>8, <1>9 DEF BearersInv

\* A step that only talks keeps BearersInv.
LEMMA TalkBearers ==
  ASSUME TypeInv, BearersInv, NEW c \in Conn, TalkStep(c)
  PROVE  BearersInv'
<1>1. /\ Apart(c) /\ ~Idle(c) /\ UNCHANGED <<players, ready, seats, playerID, link>>
      /\ \A d \in Conn : Player(d)' = Player(d)
  BY DEF TalkStep, RoomStill, roomVars, Player
<1>2. \A d \in Conn : \A s : s.do \in Matters => (Due(d, s)' <=> Due(d, s))
  BY <1>1, ApartDue DEF TalkStep
<1>3. \A d \in Conn : /\ Due(d, Do("detach"))' <=> Due(d, Do("detach"))
                      /\ Due(d, Do("close"))' <=> Due(d, Do("close"))
  BY <1>2, StepFields DEF Matters
<1>4. \A d \in Conn : \A p :
        /\ Due(d, DoFor("attach", p))' <=> Due(d, DoFor("attach", p))
        /\ Due(d, DoFor("leave", p))' <=> Due(d, DoFor("leave", p))
        /\ Due(d, DoFor("detachPlayer", p))' <=> Due(d, DoFor("detachPlayer", p))
  BY <1>2, StepFields DEF Matters
<1>5. OneBearer'
  BY <1>1, <1>4 DEF BearersInv, OneBearer, Bears
<1>6. ComingAreNew'
  BY <1>1, <1>4 DEF BearersInv, ComingAreNew
<1>7. GoingHaveGone'
  BY <1>1, <1>3, <1>4 DEF BearersInv, GoingHaveGone
<1>8. KickedHaveGone'
  BY <1>1, <1>4 DEF BearersInv, KickedHaveGone
<1>9. ClosedAreIdle'
  BY <1>1, ApartDue DEF BearersInv, ClosedAreIdle
<1> QED BY <1>5, <1>6, <1>7, <1>8, <1>9 DEF BearersInv

\* Giving the connection up keeps BearersInv.
LEMMA UnregisterBearers ==
  ASSUME TypeInv, BearersInv, NEW c \in Conn, UnregisterStep(c)
  PROVE  BearersInv'
<1>1. /\ Apart(c)
      /\ ~Idle(c) \/ link[c] = "down"
      /\ UNCHANGED <<players, ready, seats, playerID, link>>
      /\ \A d \in Conn : Player(d)' = Player(d)
  BY DEF UnregisterStep, RoomStill, roomVars, Player
<1>2. \A d \in Conn \ {c} : (Idle(d)' <=> Idle(d)) /\ \A s : Due(d, s)' <=> Due(d, s)
  BY <1>1, ApartDue
<1>3. /\ \A p : ~Due(c, DoFor("attach", p))' /\ ~Due(c, DoFor("detachPlayer", p))'
      /\ \A p \in RoomPlayer : Due(c, DoFor("leave", p))' => p = Player(c)
      /\ Due(c, Do("detach"))' /\ Due(c, Do("close"))'
      /\ Player(c) # NoOne => Due(c, DoFor("leave", Player(c)))'
  <2>1. CASE Player(c) = NoOne
    BY <2>1, StepFields, RoomAssumption DEF UnregisterStep, UnregisterDues, Due
  <2>2. CASE Player(c) # NoOne
    <3> DEFINE q == Player(c)
    <3>1. Dues(c)' = {Do("detach"), DoFor("leave", q), Do("roomView"), Do("close")}
      BY <2>2 DEF UnregisterStep, UnregisterDues
    <3> HIDE DEF q
    <3>2. \A s : Due(c, s)' <=> s \in {Do("detach"), DoFor("leave", q), Do("roomView"), Do("close")}
      BY <3>1 DEF Due
    <3> QED BY <1>1, <3>2, StepFields, RoomAssumption DEF q
  <2> QED BY <2>1, <2>2
<1>4. OneBearer'
  <2>1. ASSUME NEW d \in Conn, NEW q \in RoomPlayer, Bears(d, q)' PROVE Bears(d, q)
    BY <1>1, <1>2, <1>3, <2>1 DEF Bears
  <2> QED BY <2>1, BearersStay DEF BearersInv
<1>5. ComingAreNew'
  BY <1>1, <1>2, <1>3 DEF BearersInv, ComingAreNew
<1>6. GoingHaveGone'
  BY <1>1, <1>2, <1>3 DEF BearersInv, GoingHaveGone
<1>7. KickedHaveGone'
  BY <1>1, <1>2, <1>3 DEF BearersInv, KickedHaveGone
<1>8. ClosedAreIdle'
  BY <1>1, <1>2 DEF BearersInv, ClosedAreIdle
<1> QED BY <1>4, <1>5, <1>6, <1>7, <1>8 DEF BearersInv

\* A command is taken;
TakeStep(c) ==
  /\ Apart(c) /\ link[c] # "closed" /\ Dues(c) = {}
  /\ UNCHANGED <<link, attached, playerID>>

\* p joins,
EnterTake(c, p) ==
  /\ TakeStep(c)
  /\ p \notin drawn /\ drawn' = drawn \cup {p} /\ players' = players \cup {p}
  /\ UNCHANGED <<ready, seats>>
  /\ Dues(c)' = {DoFor("attach", p), Do("reply"), Do("roomView")}

\* the members stay the same,
PlainTake(c) ==
  /\ TakeStep(c)
  /\ UNCHANGED <<players, drawn>>
  /\ ready' \subseteq ready \cup {Player(c)} /\ seats' \subseteq seats \cup ready
  /\ \A s : Due(c, s)' /\ s.do \in Matters => s = Do("attach")

\* the player of c leaves,
LeaveTake(c) ==
  /\ TakeStep(c)
  /\ Player(c) \in players /\ players' = players \ {Player(c)}
  /\ ready' \subseteq ready /\ UNCHANGED <<drawn, seats>>
  /\ Dues(c)' = {Do("detach"), DoFor("reply", Player(c)), Do("roomView")}

\* or t is removed.
KickTake(c, t) ==
  /\ TakeStep(c)
  /\ t \in players /\ players' = players \ {t}
  /\ ready' \subseteq ready /\ UNCHANGED <<drawn, seats>>
  /\ Dues(c)' = {DoFor("notify", t), DoFor("detachPlayer", t), Notice, Do("roomView")}

\* Every command is one of these.
LEMMA MessageCases ==
  ASSUME TypeInv, NEW c \in Conn, HandleMessage(c)
  PROVE  \/ \E p \in RoomPlayer : EnterTake(c, p)
         \/ PlainTake(c) \/ LeaveTake(c)
         \/ \E t \in players : KickTake(c, t)
<1>1. ASSUME NEW p \in RoomPlayer, HandleCreateRoom(c, p) \/ HandleJoinRoom(c, p)
      PROVE  EnterTake(c, p)
  <2>1. /\ p \notin drawn /\ drawn' = drawn \cup {p} /\ players' = players \cup {p}
        /\ UNCHANGED <<ready, seats, link, attached, playerID>>
        /\ Takes(c, Entering(p)) /\ link[c] # "closed"
    BY <1>1 DEF HandleCreateRoom, HandleJoinRoom, NewRoom, Join, Takes, TypeInv
  <2> QED BY <2>1, EnteringEffect DEF EnterTake, TakeStep
<1>2. CASE HandleEnterOtherRoom(c)
  <2>1. \A s : Due(c, s)' /\ s.do \in Matters => s = Do("attach")
    BY <1>2, EnterOtherEffect, StepFields DEF Due, Matters
  <2> QED
    BY <1>2, <2>1, EnterOtherEffect
    DEF HandleEnterOtherRoom, Takes, roomVars, PlainTake, TakeStep, RoomStill
<1>3. ASSUME NEW isReady \in BOOLEAN, HandleSetReady(c, isReady)
      PROVE  PlainTake(c)
  <2>1. \A s : Due(c, s)' /\ s.do \in Matters => s = Do("attach")
    BY <1>3, SetReadyEffect, StepFields DEF Due, Matters
  <2> QED
    BY <1>3, <2>1, SetReadyEffect
    DEF HandleSetReady, SetReady, Takes, PlainTake, TakeStep
<1>4. ASSUME NEW target \in RoomPlayer, HandleTransferHost(c, target)
      PROVE  PlainTake(c)
  <2>1. \A s : Due(c, s)' /\ s.do \in Matters => s = Do("attach")
    BY <1>4, TransferHostEffect, StepFields DEF Due, Matters
  <2> QED
    BY <1>4, <2>1, TransferHostEffect
    DEF HandleTransferHost, TransferHost, Takes, PlainTake, TakeStep
<1>5. CASE HandleStartGame(c)
  <2>1. \A s : Due(c, s)' /\ s.do \in Matters => s = Do("attach")
    BY <1>5, StartGameEffect, StepFields DEF Due, Matters
  <2> QED
    BY <1>5, <2>1, StartGameEffect
    DEF HandleStartGame, StartGame, CanStart, Takes, PlainTake, TakeStep
<1>6. CASE HandleLeaveRoom(c)
  BY <1>6, HandleLeaveEffect DEF HandleLeaveRoom, Leave, Takes, LeaveTake, TakeStep
<1>7. CASE HandleKickVote(c)
  <2>1. /\ TakeStep(c) /\ UNCHANGED <<drawn, seats>>
    BY <1>7, KickVoteEffect DEF HandleKickVote, Takes, TakeStep
  <2>2. CASE players' = players /\ ready' \subseteq ready /\ Dues(c)' = {Notice, Do("roomView")}
    <3>1. \A s : Due(c, s)' /\ s.do \in Matters => s = Do("attach")
      BY <2>2, StepFields DEF Due, Matters
    <3> QED BY <2>1, <2>2, <3>1 DEF PlainTake
  <2>3. ASSUME NEW t \in players, players' = players \ {t}, ready' = ready \ {t},
               Dues(c)' = {DoFor("notify", t), DoFor("detachPlayer", t), Notice, Do("roomView")}
        PROVE  KickTake(c, t)
    BY <2>1, <2>3 DEF KickTake
  <2> QED BY <1>7, <2>2, <2>3, KickVoteEffect
<1>8. CASE HandleGameCommand(c)
  <2>1. \A s : Due(c, s)' /\ s.do \in Matters => s = Do("attach")
    BY <1>8, GameCommandEffect, StepFields DEF Due, Matters
  <2> QED
    BY <1>8, <2>1, GameCommandEffect
    DEF HandleGameCommand, Takes, roomVars, PlainTake, TakeStep
<1> QED BY <1>1, <1>2, <1>3, <1>4, <1>5, <1>6, <1>7, <1>8 DEF HandleMessage

\* Taking a command moves no connection.
LEMMA TakeFrame ==
  ASSUME TypeInv, NEW c \in Conn, TakeStep(c)
  PROVE  /\ \A d \in Conn : Player(d)' = Player(d)
         /\ UNCHANGED link /\ link[c] # "closed"
         /\ \A s : ~Due(c, s)
         /\ \A d \in Conn \ {c} : (Idle(d)' <=> Idle(d)) /\ \A s : Due(d, s)' <=> Due(d, s)
  BY ApartDue DEF TakeStep, Player, Due

\* Joining, with an id that nobody has had, keeps BearersInv.
LEMMA EnterBearers ==
  ASSUME TypeInv, Shaped, BearersInv, NEW c \in Conn, NEW p \in RoomPlayer, EnterTake(c, p)
  PROVE  BearersInv'
<1>1. /\ \A d \in Conn : Player(d)' = Player(d)
      /\ UNCHANGED link /\ link[c] # "closed"
      /\ \A s : ~Due(c, s)
      /\ \A d \in Conn \ {c} : (Idle(d)' <=> Idle(d)) /\ \A s : Due(d, s)' <=> Due(d, s)
  BY TakeFrame DEF EnterTake
<1>2. \A d \in Conn : ~Bears(d, p)
  <2>1. p \notin drawn /\ p # NoOne
    BY RoomAssumption DEF EnterTake
  <2>2. \A d \in Conn : \A s : Due(d, s) => s.player # p
    BY <2>1, DuesPlayers DEF Due
  <2>3. \A d \in Conn : Player(d) # p
    BY <2>1 DEF TypeInv, Player
  <2>4. DoFor("attach", p).player = p /\ DoFor("leave", p).player = p
    BY StepFields
  <2> QED BY <2>2, <2>3, <2>4 DEF Bears
<1>3. \A s : Due(c, s)' /\ s.do \in Matters => s = DoFor("attach", p)
  BY StepFields DEF EnterTake, Due, Matters
<1>4. /\ \A q : Due(c, DoFor("attach", q))' => q = p
      /\ \A q : ~Due(c, DoFor("leave", q))' /\ ~Due(c, DoFor("detachPlayer", q))'
      /\ ~Due(c, Do("detach"))' /\ ~Due(c, Do("close"))'
  BY <1>3, StepFields DEF Matters
<1>5. /\ p \notin ready /\ p \notin seats /\ UNCHANGED <<ready, seats>>
      /\ players' = players \cup {p}
  BY DEF EnterTake, TypeInv
<1>6. OneBearer'
  <2>1. \A d \in Conn, q \in RoomPlayer : Bears(d, q)' => Bears(d, q) \/ (d = c /\ q = p)
    BY <1>1, <1>4 DEF Bears
  <2> QED BY <1>2, <2>1 DEF BearersInv, OneBearer
<1>7. ComingAreNew'
  BY <1>1, <1>2, <1>4, <1>5 DEF BearersInv, ComingAreNew, Bears
<1>8. GoingHaveGone'
  BY <1>1, <1>2, <1>4, <1>5 DEF BearersInv, GoingHaveGone, Bears
<1>9. KickedHaveGone'
  <2>1. ASSUME NEW d \in Conn, Due(d, DoFor("detachPlayer", p)) PROVE FALSE
    BY <2>1, DuesPlayers, StepFields, RoomAssumption DEF Due, EnterTake
  <2> QED BY <1>1, <1>4, <1>5, <2>1 DEF BearersInv, KickedHaveGone
<1>10. ClosedAreIdle'
  BY <1>1 DEF BearersInv, ClosedAreIdle
<1> QED BY <1>6, <1>7, <1>8, <1>9, <1>10 DEF BearersInv

\* A command that leaves the members alone keeps BearersInv.
LEMMA PlainTakeBearers ==
  ASSUME TypeInv, BearersInv, NEW c \in Conn, PlainTake(c)
  PROVE  BearersInv'
<1>1. /\ \A d \in Conn : Player(d)' = Player(d)
      /\ UNCHANGED link /\ link[c] # "closed"
      /\ \A s : ~Due(c, s)
      /\ \A d \in Conn \ {c} : (Idle(d)' <=> Idle(d)) /\ \A s : Due(d, s)' <=> Due(d, s)
  BY TakeFrame DEF PlainTake
<1>2. /\ \A q \in RoomPlayer : /\ ~Due(c, DoFor("attach", q))' /\ ~Due(c, DoFor("leave", q))'
                               /\ ~Due(c, DoFor("detachPlayer", q))'
      /\ ~Due(c, Do("detach"))' /\ ~Due(c, Do("close"))'
  BY StepFields, RoomAssumption DEF PlainTake, Matters
<1>3. /\ UNCHANGED players
      /\ ready' \subseteq ready \cup {Player(c)} /\ seats' \subseteq seats \cup ready
  BY DEF PlainTake
<1>4. OneBearer'
  <2>1. ASSUME NEW d \in Conn, NEW q \in RoomPlayer, Bears(d, q)' PROVE Bears(d, q)
    BY <1>1, <1>2, <2>1 DEF Bears
  <2> QED BY <2>1, BearersStay DEF BearersInv
<1>5. ComingAreNew'
  <2>1. ASSUME NEW d \in Conn, NEW q \in RoomPlayer, Due(d, DoFor("attach", q))'
        PROVE  q \notin ready' /\ q \notin seats' /\ Player(d)' # q
    <3>1. d # c /\ Due(d, DoFor("attach", q))
      BY <1>1, <1>2, <2>1
    <3>2. Player(c) # q
      BY <3>1 DEF BearersInv, OneBearer, Bears
    <3> QED BY <1>1, <1>3, <3>1, <3>2 DEF BearersInv, ComingAreNew
  <2> QED BY <2>1 DEF ComingAreNew
<1>6. GoingHaveGone'
  BY <1>1, <1>2, <1>3 DEF BearersInv, GoingHaveGone
<1>7. KickedHaveGone'
  BY <1>1, <1>2, <1>3 DEF BearersInv, KickedHaveGone
<1>8. ClosedAreIdle'
  BY <1>1 DEF BearersInv, ClosedAreIdle
<1> QED BY <1>4, <1>5, <1>6, <1>7, <1>8 DEF BearersInv

\* LEAVE_ROOM keeps BearersInv.
LEMMA LeaveTakeBearers ==
  ASSUME TypeInv, BearersInv, NEW c \in Conn, LeaveTake(c)
  PROVE  BearersInv'
<1>1. /\ \A d \in Conn : Player(d)' = Player(d)
      /\ UNCHANGED link /\ link[c] # "closed"
      /\ \A s : ~Due(c, s)
      /\ \A d \in Conn \ {c} : (Idle(d)' <=> Idle(d)) /\ \A s : Due(d, s)' <=> Due(d, s)
  BY TakeFrame DEF LeaveTake
<1>2. /\ \A q : /\ ~Due(c, DoFor("attach", q))' /\ ~Due(c, DoFor("leave", q))'
                /\ ~Due(c, DoFor("detachPlayer", q))'
      /\ ~Due(c, Do("close"))'
  BY StepFields DEF LeaveTake, Due
<1>3. UNCHANGED seats /\ ready' \subseteq ready /\ players' = players \ {Player(c)}
  BY DEF LeaveTake
<1>4. OneBearer'
  <2>1. ASSUME NEW d \in Conn, NEW q \in RoomPlayer, Bears(d, q)' PROVE Bears(d, q)
    BY <1>1, <1>2, <2>1 DEF Bears
  <2> QED BY <2>1, BearersStay DEF BearersInv
<1>5. ComingAreNew'
  BY <1>1, <1>2, <1>3 DEF BearersInv, ComingAreNew
<1>6. GoingHaveGone'
  BY <1>1, <1>2, <1>3 DEF BearersInv, GoingHaveGone
<1>7. KickedHaveGone'
  BY <1>1, <1>2, <1>3 DEF BearersInv, KickedHaveGone
<1>8. ClosedAreIdle'
  BY <1>1 DEF BearersInv, ClosedAreIdle
<1> QED BY <1>4, <1>5, <1>6, <1>7, <1>8 DEF BearersInv

\* A vote that removes its target keeps BearersInv.
LEMMA KickTakeBearers ==
  ASSUME TypeInv, BearersInv, NEW c \in Conn, NEW t \in players, KickTake(c, t)
  PROVE  BearersInv'
<1>1. /\ \A d \in Conn : Player(d)' = Player(d)
      /\ UNCHANGED link /\ link[c] # "closed"
      /\ \A s : ~Due(c, s)
      /\ \A d \in Conn \ {c} : (Idle(d)' <=> Idle(d)) /\ \A s : Due(d, s)' <=> Due(d, s)
  BY TakeFrame DEF KickTake
<1>2. /\ \A q : /\ ~Due(c, DoFor("attach", q))' /\ ~Due(c, DoFor("leave", q))'
                /\ Due(c, DoFor("detachPlayer", q))' => q = t
      /\ ~Due(c, Do("detach"))' /\ ~Due(c, Do("close"))'
  BY StepFields DEF KickTake, Due
<1>3. UNCHANGED seats /\ ready' \subseteq ready /\ players' = players \ {t}
  BY DEF KickTake
<1>4. OneBearer'
  <2>1. ASSUME NEW d \in Conn, NEW q \in RoomPlayer, Bears(d, q)' PROVE Bears(d, q)
    BY <1>1, <1>2, <2>1 DEF Bears
  <2> QED BY <2>1, BearersStay DEF BearersInv
<1>5. ComingAreNew'
  BY <1>1, <1>2, <1>3 DEF BearersInv, ComingAreNew
<1>6. GoingHaveGone'
  BY <1>1, <1>2, <1>3 DEF BearersInv, GoingHaveGone
<1>7. KickedHaveGone'
  BY <1>1, <1>2, <1>3 DEF BearersInv, KickedHaveGone
<1>8. ClosedAreIdle'
  BY <1>1 DEF BearersInv, ClosedAreIdle
<1> QED BY <1>4, <1>5, <1>6, <1>7, <1>8 DEF BearersInv

\* A connection that comes up or goes down keeps BearersInv.
LEMMA LinkBearers ==
  ASSUME TypeInv, BearersInv, NEW c \in Conn, Connect(c) \/ LoseLink(c)
  PROVE  BearersInv'
<1>1. /\ UNCHANGED <<players, ready, seats, playerID, todo, writing>>
      /\ \A d \in Conn : link'[d] = "closed" => link[d] = "closed"
  BY DEF Connect, LoseLink, TypeInv, roomVars, RoomStill
<1> QED
  BY <1>1
  DEF BearersInv, OneBearer, ComingAreNew, GoingHaveGone, KickedHaveGone, ClosedAreIdle,
      Bears, Due, Dues, Player, Idle

\* Every step of a connection keeps BearersInv.
LEMMA BearersStep ==
  ASSUME TypeInv, Shaped, BearersInv, [ConnStep]_vars
  PROVE  BearersInv'
<1>1. ASSUME NEW c \in Conn, GoroutineStep(c) \/ ReadFails(c)
      PROVE  BearersInv'
  BY <1>1, AttachBearers, DetachBearers, DetachPlayerBearers, LeaveRoomBearers, CloseBearers,
     TalkCases, TalkBearers, UnregisterBearers
  DEF GoroutineStep
<1>2. ASSUME NEW c \in Conn, HandleMessage(c)
      PROVE  BearersInv'
  BY <1>2, MessageCases, EnterBearers, PlainTakeBearers, LeaveTakeBearers, KickTakeBearers
<1>3. CASE UNCHANGED vars
  BY <1>3
  DEF BearersInv, OneBearer, ComingAreNew, GoingHaveGone, KickedHaveGone, ClosedAreIdle,
      Bears, Due, Dues, Player, Idle, vars, hubVars, roomVars
<1> QED BY <1>1, <1>2, <1>3, LinkBearers DEF ConnStep

----------------------------------------------------------------------------
(* Whoever is attached plays, and whoever plays is attached.               *)

\* The steps of a goroutine, and of the links, keep Accounted.
LEMMA AccountedFor ==
  ASSUME TypeInv, Shaped, BearersInv, Accounted, NEW c \in Conn,
         \/ Attach(c) \/ Detach(c) \/ DetachPlayer(c) \/ LeaveRoom(c) \/ Close(c)
         \/ TalkStep(c) \/ UnregisterStep(c)
         \/ Connect(c) \/ LoseLink(c),
         \A k \in Cause : causes[k] \subseteq causes'[k]
  PROVE  Accounted'
<1>1. "kickedEarly" \in Cause /\ causes["kickedEarly"] \subseteq causes'["kickedEarly"]
  BY DEF Cause
<1>2. CASE Attach(c)
  <2>1. PICK p \in drawn \cup {NoOne} :
          /\ \/ /\ p # NoOne
                /\ Dues(c) = {DoFor("attach", p), Do("reply"), Do("roomView")}
                /\ Dues(c)' = {Do("reply"), Do("roomView")}
             \/ /\ p = NoOne
                /\ Dues(c) = {Do("attach"), Do("reply"), Do("elsewhere")}
                /\ Dues(c)' = {Do("reply"), Do("elsewhere")}
          /\ Current(c).player = p
    BY <1>2, AttachEffect
  <2>2. /\ Apart(c) /\ players' = players
        /\ \A d \in Conn : Player(d)' = IF d = c THEN p ELSE Player(d)
    BY <1>2, <2>1, AttachEffect DEF Attach, Player, TypeInv, RoomStill, roomVars
  <2>3. \A d \in Conn \ {c} : \A s : Due(d, s)' <=> Due(d, s)
    BY <2>2, ApartDue
  <2>4. p # NoOne => Due(c, DoFor("attach", p))
    BY <2>1 DEF Due
  <2>5. \A s : Due(c, s) \/ Due(c, s)' => s.do \in {"attach", "reply", "roomView", "elsewhere"}
    BY <2>1, StepFields DEF Due
  <2>6. /\ \A q : ~Due(c, DoFor("detachPlayer", q)) /\ ~Due(c, DoFor("attach", q))'
        /\ ~Due(c, Do("detach"))
    <3>1. \A q : ~Due(c, DoFor("detachPlayer", q)) /\ ~Due(c, Do("detach"))
      BY <2>5, StepFields
    <3>2. \A q : ~Due(c, DoFor("attach", q))'
      BY <2>1, StepFields DEF Due
    <3> QED BY <3>1, <3>2
  <2>7. p \in RoomPlayer => Player(c) # p
    BY <2>4, RoomAssumption DEF BearersInv, ComingAreNew
  <2> QED
    BY <1>1, <2>2, <2>3, <2>4, <2>6, <2>7, RoomAssumption DEF Accounted
<1>3. CASE Detach(c)
  <2>1. /\ Apart(c) /\ players' = players
        /\ \A d \in Conn : Player(d)' = IF d = c THEN NoOne ELSE Player(d)
    BY <1>3, DetachEffect DEF Detach, Player, TypeInv, RoomStill, roomVars
  <2>2. \A d \in Conn \ {c} : \A s : Due(d, s)' <=> Due(d, s)
    BY <2>1, ApartDue
  <2>3. \A p : ~Due(c, DoFor("attach", p))' /\ ~Due(c, DoFor("detachPlayer", p))
    BY <1>3, DetachEffect, StepFields DEF Due
  <2> QED BY <1>1, <2>1, <2>2, <2>3, RoomAssumption DEF Accounted
<1>4. CASE DetachPlayer(c)
  <2>1. PICK p \in drawn :
          /\ Current(c).player = p
          /\ Dues(c) = {DoFor("detachPlayer", p), Notice, Do("roomView")}
          /\ Dues(c)' = {Notice, Do("roomView")}
    BY <1>4, DetachPlayerEffect
  <2>2. /\ Apart(c) /\ players' = players
        /\ \A d \in Conn : Player(d)' = IF Player(d) = p THEN NoOne ELSE Player(d)
        /\ p \in causes'["kickedEarly"] \/ \E d \in Conn : Player(d) = p
    <3>1. p # NoOne
      BY RoomAssumption DEF TypeInv
    <3> QED
      BY <1>1, <1>4, <2>1, <3>1, DetachPlayerEffect
      DEF DetachPlayer, Player, TypeInv, RoomStill, roomVars, Blame
  <2>3. \A d \in Conn \ {c} : \A s : Due(d, s)' <=> Due(d, s)
    BY <2>2, ApartDue
  <2>4. /\ \A q : ~Due(c, DoFor("attach", q))'
        /\ \A q : Due(c, DoFor("detachPlayer", q)) => q = p
        /\ ~Due(c, Do("detach"))
    BY <2>1, StepFields DEF Due
  <2>5. ASSUME NEW d \in Conn, NEW q \in RoomPlayer, Player(d)' = q \/ Due(d, DoFor("attach", q))'
        PROVE  \/ q \in players' \cup causes'["kickedEarly"]
               \/ \E e \in Conn : Due(e, DoFor("detachPlayer", q))'
               \/ Player(d)' = q /\ Due(d, Do("detach"))'
    <3>1. Player(d) = q \/ (d # c /\ Due(d, DoFor("attach", q)))
      BY <2>2, <2>3, <2>4, <2>5, RoomAssumption
    <3>2. CASE q = p
      <4>1. Player(d) # p
        BY <2>2, <2>3, <2>4, <2>5, <3>2, RoomAssumption DEF BearersInv, ComingAreNew
      <4>2. Due(d, DoFor("attach", p))
        BY <3>1, <3>2, <4>1
      <4>3. \A e \in Conn : Player(e) # p
        BY <3>2, <4>1, <4>2 DEF BearersInv, OneBearer, Bears
      <4> QED BY <2>2, <3>2, <4>3
    <3>3. CASE q # p
      BY <1>1, <2>2, <2>3, <2>4, <3>1, <3>3 DEF Accounted
    <3> QED BY <3>2, <3>3
  <2> QED BY <2>5 DEF Accounted
<1>5. CASE LeaveRoom(c)
  <2>1. PICK p \in drawn :
          /\ Current(c).player = p
          /\ Dues(c) = {DoFor("leave", p), Do("roomView"), Do("close")}
          /\ Dues(c)' = {Do("roomView"), Do("close")}
    BY <1>5, LeaveRoomEffect
  <2>2. /\ Apart(c) /\ players \ {p} \subseteq players' /\ p \in RoomPlayer
        /\ \A d \in Conn : Player(d)' = Player(d)
    BY <1>5, <2>1, LeaveRoomEffect DEF LeaveRoom, Leave, roomVars, Player, TypeInv
  <2>3. \A d \in Conn \ {c} : \A s : Due(d, s)' <=> Due(d, s)
    BY <2>2, ApartDue
  <2>4. /\ \A q : ~Due(c, DoFor("attach", q))' /\ ~Due(c, DoFor("detachPlayer", q))
        /\ \A q : ~Due(c, DoFor("attach", q))
        /\ ~Due(c, Do("detach")) /\ Due(c, Do("close")) /\ Due(c, DoFor("leave", p))
    BY <2>1, StepFields DEF Due
  <2>5. Player(c) = NoOne
    BY <2>4 DEF BearersInv, GoingHaveGone
  <2>6. \A d \in Conn : Player(d) # p /\ ~Due(d, DoFor("attach", p))
    BY <2>2, <2>4, <2>5, RoomAssumption DEF BearersInv, OneBearer, Bears
  <2> QED BY <1>1, <2>2, <2>3, <2>4, <2>6 DEF Accounted
<1>6. CASE Close(c)
  <2>1. /\ Apart(c) /\ players' = players /\ Dues(c) = {Do("close")} /\ Dues(c)' = {}
        /\ \A d \in Conn : Player(d)' = Player(d)
    BY <1>6, CloseEffect DEF Close, RoomStill, roomVars, Player
  <2>2. \A d \in Conn \ {c} : \A s : Due(d, s)' <=> Due(d, s)
    BY <2>1, ApartDue
  <2>3. /\ \A s : ~Due(c, s)'
        /\ \A q : ~Due(c, DoFor("detachPlayer", q)) /\ ~Due(c, Do("detach"))
    BY <2>1, StepFields DEF Due
  <2> QED BY <1>1, <2>1, <2>2, <2>3 DEF Accounted
<1>7. CASE TalkStep(c)
  <2>1. players' = players /\ \A d \in Conn : Player(d)' = Player(d)
    BY <1>7 DEF TalkStep, RoomStill, roomVars, Player
  <2>2. \A d \in Conn : \A s : s.do \in Matters => (Due(d, s)' <=> Due(d, s))
    BY <1>7, ApartDue DEF TalkStep
  <2>3. \A d \in Conn : /\ Due(d, Do("detach"))' <=> Due(d, Do("detach"))
                        /\ \A p : /\ Due(d, DoFor("attach", p))' <=> Due(d, DoFor("attach", p))
                                  /\ Due(d, DoFor("detachPlayer", p))' <=> Due(d, DoFor("detachPlayer", p))
    BY <2>2, StepFields DEF Matters
  <2> QED BY <1>1, <2>1, <2>3 DEF Accounted
<1>8. CASE UnregisterStep(c)
  <2>1. Apart(c) /\ players' = players /\ \A d \in Conn : Player(d)' = Player(d)
    BY <1>8 DEF UnregisterStep, RoomStill, roomVars, Player
  <2>2. \A d \in Conn \ {c} : \A s : Due(d, s)' <=> Due(d, s)
    BY <2>1, ApartDue
  <2>3. \A q : ~Due(c, DoFor("detachPlayer", q))
    BY <1>8, StepFields DEF UnregisterStep, Due, Matters
  <2>4. Due(c, Do("detach"))' /\ \A q : ~Due(c, DoFor("attach", q))'
    BY <1>8, StepFields DEF UnregisterStep, UnregisterDues, Due
  <2> QED BY <1>1, <2>1, <2>2, <2>3, <2>4 DEF Accounted
<1>9. CASE Connect(c) \/ LoseLink(c)
  <2>1. UNCHANGED <<players, playerID, todo>>
    BY <1>9 DEF Connect, LoseLink, roomVars, RoomStill
  <2> QED BY <1>1, <2>1 DEF Accounted, Due, Dues, Player
<1> QED BY <1>2, <1>3, <1>4, <1>5, <1>6, <1>7, <1>8, <1>9

\* So do the commands.
LEMMA AccountedOnTake ==
  ASSUME TypeInv, Shaped, BearersInv, Accounted, NEW c \in Conn, HandleMessage(c),
         \A k \in Cause : causes[k] \subseteq causes'[k]
  PROVE  Accounted'
<1>1. "kickedEarly" \in Cause /\ causes["kickedEarly"] \subseteq causes'["kickedEarly"]
  BY DEF Cause
<1>2. ASSUME NEW p \in RoomPlayer, EnterTake(c, p) PROVE Accounted'
  <2>1. \A q : Due(c, DoFor("attach", q))' => q = p
    BY <1>2, StepFields DEF EnterTake, Due
  <2> QED BY <1>1, <1>2, <2>1, TakeFrame DEF EnterTake, Accounted
<1>3. CASE PlainTake(c)
  <2>1. \A q \in RoomPlayer : ~Due(c, DoFor("attach", q))'
    BY <1>3, StepFields, RoomAssumption DEF PlainTake, Matters
  <2> QED BY <1>1, <1>3, <2>1, TakeFrame DEF PlainTake, Accounted
<1>4. CASE LeaveTake(c)
  <2>1. Due(c, Do("detach"))' /\ \A q : ~Due(c, DoFor("attach", q))'
    BY <1>4, StepFields DEF LeaveTake, Due
  <2>2. Player(c) \in RoomPlayer
    BY <1>4 DEF LeaveTake, TypeInv
  <2>3. \A d \in Conn \ {c} : Player(d) # Player(c) /\ ~Due(d, DoFor("attach", Player(c)))
    BY <2>2 DEF BearersInv, OneBearer, Bears
  <2> QED BY <1>1, <1>4, <2>1, <2>3, TakeFrame DEF LeaveTake, Accounted
<1>5. ASSUME NEW t \in players, KickTake(c, t) PROVE Accounted'
  <2>1. Due(c, DoFor("detachPlayer", t))' /\ \A q : ~Due(c, DoFor("attach", q))'
    BY <1>5, StepFields DEF KickTake, Due
  <2> QED BY <1>1, <1>5, <2>1, TakeFrame DEF KickTake, Accounted
<1> QED BY <1>2, <1>3, <1>4, <1>5, MessageCases

\* Every step of a connection keeps Accounted.
LEMMA AccountedStep ==
  ASSUME TypeInv, Shaped, BearersInv, Accounted, [ConnStep]_vars
  PROVE  Accounted'
<1>1. \A k \in Cause : causes[k] \subseteq causes'[k]
  BY CausesGrow
<1>2. CASE UNCHANGED vars
  BY <1>2 DEF Accounted, Due, Dues, Player, vars, hubVars, roomVars
<1> QED BY <1>1, <1>2, AccountedFor, AccountedOnTake, TalkCases DEF ConnStep, GoroutineStep

\* Members stay borne if no bearer lets go of one, and new ones have a bearer.
LEMMA BorneStill ==
  ASSUME MembersBorne, \A k \in Cause : causes[k] \subseteq causes'[k],
         \A p \in players' : \/ p \in causes'["abandoned"]
                             \/ p \in players /\ \A d \in Conn : Bears(d, p) => Bears(d, p)'
                             \/ \E d \in Conn : Bears(d, p)'
  PROVE  MembersBorne'
<1>1. causes["abandoned"] \subseteq causes'["abandoned"]
  BY DEF Cause
<1> QED BY <1>1 DEF MembersBorne

\* The steps of a goroutine, and of the links, keep MembersBorne.
LEMMA BorneOnStep ==
  ASSUME TypeInv, Shaped, BearersInv, MembersBorne, NEW c \in Conn,
         \/ Attach(c) \/ Detach(c) \/ DetachPlayer(c) \/ LeaveRoom(c) \/ Close(c)
         \/ TalkStep(c) \/ UnregisterStep(c) \/ Connect(c) \/ LoseLink(c),
         \A k \in Cause : causes[k] \subseteq causes'[k]
  PROVE  MembersBorne'
<1>1. NoOne \notin players
  BY RoomAssumption DEF TypeInv
<1>2. CASE Attach(c)
  <2>1. PICK p \in drawn \cup {NoOne} :
          /\ \/ /\ p # NoOne
                /\ Dues(c) = {DoFor("attach", p), Do("reply"), Do("roomView")}
             \/ /\ p = NoOne
                /\ Dues(c) = {Do("attach"), Do("reply"), Do("elsewhere")}
          /\ Current(c).player = p
    BY <1>2, AttachEffect
  <2>2. /\ Apart(c) /\ players' = players
        /\ \A d \in Conn : Player(d)' = IF d = c THEN p ELSE Player(d)
        /\ Player(c) # NoOne => Player(c) \in causes'["abandoned"]
    BY <1>2, <2>1, AttachEffect DEF Attach, Player, TypeInv, RoomStill, roomVars, Blame, Cause
  <2>3. \A d \in Conn \ {c} : \A s : Due(d, s)' <=> Due(d, s)
    BY <2>2, ApartDue
  <2>4. \A q : ~Due(c, DoFor("leave", q)) /\ (Due(c, DoFor("attach", q)) => q = p)
    BY <2>1, StepFields DEF Due
  <2> QED BY <1>1, <2>2, <2>3, <2>4, BorneStill DEF Bears
<1>3. CASE Detach(c)
  <2>1. /\ Apart(c) /\ players' = players
        /\ \A d \in Conn : Player(d)' = IF d = c THEN NoOne ELSE Player(d)
    BY <1>3, DetachEffect DEF Detach, Player, TypeInv, RoomStill, roomVars
  <2>2. \A d \in Conn \ {c} : \A s : Due(d, s)' <=> Due(d, s)
    BY <2>1, ApartDue
  <2>3. /\ Due(c, Do("detach"))
        /\ \A p : /\ ~Due(c, DoFor("attach", p))
                  /\ Due(c, DoFor("leave", p))' <=> Due(c, DoFor("leave", p))
    BY <1>3, DetachEffect, StepFields DEF Due
  <2>4. Player(c) \in players => Due(c, DoFor("leave", Player(c)))
    BY <1>1, <2>3 DEF BearersInv, GoingHaveGone
  <2> QED BY <2>1, <2>2, <2>3, <2>4, BorneStill DEF Bears
<1>4. CASE DetachPlayer(c)
  <2>1. PICK p \in drawn :
          /\ Current(c).player = p
          /\ Dues(c) = {DoFor("detachPlayer", p), Notice, Do("roomView")}
    BY <1>4, DetachPlayerEffect
  <2>2. /\ Apart(c) /\ players' = players
        /\ \A d \in Conn : Player(d)' = IF Player(d) = p THEN NoOne ELSE Player(d)
    <3>1. p # NoOne
      BY RoomAssumption DEF TypeInv
    <3> QED
      BY <1>4, <2>1, <3>1, DetachPlayerEffect
      DEF DetachPlayer, Player, TypeInv, RoomStill, roomVars
  <2>3. \A d \in Conn \ {c} : \A s : Due(d, s)' <=> Due(d, s)
    BY <2>2, ApartDue
  <2>4. \A q : ~Due(c, DoFor("attach", q)) /\ ~Due(c, DoFor("leave", q))
    BY <2>1, StepFields DEF Due
  <2>5. p \notin players
    BY <2>1 DEF BearersInv, KickedHaveGone, Due, TypeInv
  <2> QED BY <2>2, <2>3, <2>4, <2>5, BorneStill DEF Bears
<1>5. CASE LeaveRoom(c)
  <2>1. PICK p \in drawn :
          /\ Current(c).player = p
          /\ Dues(c) = {DoFor("leave", p), Do("roomView"), Do("close")}
          /\ Apart(c)
    BY <1>5, LeaveRoomEffect
  <2>2. /\ players' \subseteq players /\ p \notin players'
        /\ \A d \in Conn : Player(d)' = Player(d)
    BY <1>5, <2>1 DEF LeaveRoom, Leave, roomVars, Player
  <2>3. \A d \in Conn \ {c} : \A s : Due(d, s)' <=> Due(d, s)
    BY <2>1, ApartDue
  <2>4. \A q : ~Due(c, DoFor("attach", q)) /\ (Due(c, DoFor("leave", q)) => q = p)
    BY <2>1, StepFields DEF Due
  <2> QED BY <2>2, <2>3, <2>4, BorneStill DEF Bears
<1>6. CASE Close(c)
  <2>1. /\ Apart(c) /\ players' = players /\ Dues(c) = {Do("close")}
        /\ \A d \in Conn : Player(d)' = Player(d)
    BY <1>6, CloseEffect DEF Close, RoomStill, roomVars, Player
  <2>2. \A d \in Conn \ {c} : \A s : Due(d, s)' <=> Due(d, s)
    BY <2>1, ApartDue
  <2>3. \A q : ~Due(c, DoFor("attach", q)) /\ ~Due(c, DoFor("leave", q))
    BY <2>1, StepFields DEF Due
  <2> QED BY <2>1, <2>2, <2>3, BorneStill DEF Bears
<1>7. CASE TalkStep(c)
  <2>1. players' = players /\ \A d \in Conn : Player(d)' = Player(d)
    BY <1>7 DEF TalkStep, RoomStill, roomVars, Player
  <2>2. \A d \in Conn : \A s : s.do \in Matters => (Due(d, s)' <=> Due(d, s))
    BY <1>7, ApartDue DEF TalkStep
  <2>3. \A d \in Conn : \A p : /\ Due(d, DoFor("attach", p))' <=> Due(d, DoFor("attach", p))
                               /\ Due(d, DoFor("leave", p))' <=> Due(d, DoFor("leave", p))
    BY <2>2, StepFields DEF Matters
  <2>4. \A d \in Conn : \A p : Bears(d, p) => Bears(d, p)'
    BY <2>1, <2>3 DEF Bears
  <2> QED BY <2>1, <2>4, BorneStill
<1>8. CASE UnregisterStep(c)
  <2>1. Apart(c) /\ players' = players /\ \A d \in Conn : Player(d)' = Player(d)
    BY <1>8 DEF UnregisterStep, RoomStill, roomVars, Player
  <2>2. \A d \in Conn \ {c} : \A s : Due(d, s)' <=> Due(d, s)
    BY <2>1, ApartDue
  <2>3. \A q : ~Due(c, DoFor("attach", q)) /\ ~Due(c, DoFor("leave", q))
    BY <1>8, StepFields DEF UnregisterStep, Due, Matters
  <2> QED BY <2>1, <2>2, <2>3, BorneStill DEF Bears
<1>9. CASE Connect(c) \/ LoseLink(c)
  <2>1. UNCHANGED <<players, playerID, todo>>
    BY <1>9 DEF Connect, LoseLink, roomVars, RoomStill
  <2> QED BY <2>1, BorneStill DEF Bears, Due, Dues, Player
<1> QED BY <1>2, <1>3, <1>4, <1>5, <1>6, <1>7, <1>8, <1>9

\* So do the commands.
LEMMA BorneOnTake ==
  ASSUME TypeInv, Shaped, BearersInv, MembersBorne, NEW c \in Conn, HandleMessage(c),
         \A k \in Cause : causes[k] \subseteq causes'[k]
  PROVE  MembersBorne'
<1>1. ASSUME TakeStep(c)
      PROVE  \A d \in Conn : \A p : Bears(d, p) => Bears(d, p)'
  BY <1>1, TakeFrame DEF Bears
<1>2. ASSUME NEW p \in RoomPlayer, EnterTake(c, p) PROVE MembersBorne'
  <2>1. Bears(c, p)'
    BY <1>2 DEF EnterTake, Bears, Due
  <2> QED BY <1>1, <1>2, <2>1, BorneStill DEF EnterTake
<1>3. CASE PlainTake(c)
  BY <1>1, <1>3, BorneStill DEF PlainTake
<1>4. CASE LeaveTake(c)
  BY <1>1, <1>4, BorneStill DEF LeaveTake
<1>5. ASSUME NEW t \in players, KickTake(c, t) PROVE MembersBorne'
  BY <1>1, <1>5, BorneStill DEF KickTake
<1> QED BY <1>2, <1>3, <1>4, <1>5, MessageCases

\* Every step of a connection keeps MembersBorne.
LEMMA BorneStep ==
  ASSUME TypeInv, Shaped, BearersInv, MembersBorne, [ConnStep]_vars
  PROVE  MembersBorne'
<1>1. \A k \in Cause : causes[k] \subseteq causes'[k]
  BY CausesGrow
<1>2. CASE UNCHANGED vars
  BY <1>2 DEF MembersBorne, Bears, Due, Dues, Player, vars, hubVars, roomVars
<1> QED BY <1>1, <1>2, BorneOnStep, BorneOnTake, TalkCases DEF ConnStep, GoroutineStep

----------------------------------------------------------------------------
(* A healthy room keeps its players.                                       *)

\* The views of a game are only sent while there is one, and while everybody
\* who joined has a seat every member has.
GameInv ==
  /\ gameStarted => drawn # {}
  /\ \A c \in Conn : Due(c, Do("gameViews")) => gameStarted
  /\ gameStarted /\ causes["unseated"] = {} => players \subseteq seats

\* While no connection is lost and no handler has given up, none is closed, and
\* nobody writes to a closed one.
LinksInv ==
  /\ causes["lost"] = {} => \A c \in Conn : link[c] # "down"
  /\ causes["lost"] = {} /\ causes["gaveUp"] = {} =>
       \A c \in Conn : ~Due(c, Do("close")) /\ \A d \in writing[c].left : link[d] # "closed"

\* HealthyRoomKeepsItsPlayers, and the same before the room is there.
GaveUpInv ==
  /\ causes["lost"] = {} /\ drawn = {} => causes["gaveUp"] = {}
  /\ HealthyRoomKeepsItsPlayers

\* The three together.
HealthInv == GameInv /\ LinksInv /\ GaveUpInv

\* The kinds of causes.
LEMMA CausesAre ==
  {"lost", "gaveUp", "abandoned", "unseated", "kickedEarly", "leftUnseen", "untold"} = Cause
  BY DEF Cause

\* Only a command makes a goroutine send the views of the game.
LEMMA NoNewGameViews ==
  ASSUME TypeInv, Shaped, NEW c \in Conn, GoroutineStep(c) \/ ReadFails(c)
  PROVE  \A d \in Conn : Due(d, Do("gameViews"))' => Due(d, Do("gameViews"))
<1>1. ASSUME Apart(c), Due(c, Do("gameViews"))' => Due(c, Do("gameViews"))
      PROVE  \A d \in Conn : Due(d, Do("gameViews"))' => Due(d, Do("gameViews"))
  BY <1>1, ApartDue
<1> USE StepFields DEF Due
<1>2. CASE Attach(c)
  BY <1>1, <1>2, AttachEffect
<1>3. CASE Detach(c)
  BY <1>1, <1>3, DetachEffect
<1>4. CASE DetachPlayer(c)
  BY <1>1, <1>4, DetachPlayerEffect
<1>5. CASE LeaveRoom(c)
  BY <1>1, <1>5, LeaveRoomEffect
<1>6. CASE Close(c)
  BY <1>1, <1>6, CloseEffect
<1>7. CASE Reply(c)
  <2>1. CASE Continue(c, Later(c)) /\ UNCHANGED <<writing, causes>>
    BY <1>1, <1>7, <2>1, ReplyWorksEffect DEF Reply, RoomStill
  <2>2. CASE GiveUp(c)
    BY <1>1, <1>7, <2>2, ReplyFailsEffect DEF Reply, RoomStill, UnregisterDues
  <2> QED BY <1>7, <2>1, <2>2 DEF Reply
<1>8. CASE ReadRoomView(c)
  <2>1. Do("gameViews") # RoomViewOf(version["ROOM_VIEW"])
    OBVIOUS
  <2> QED BY <1>1, <1>8, <2>1, ReadRoomViewEffect
<1>9. CASE ReadGameViews(c)
  BY <1>1, <1>9, GameViewsCases, ReadGameViewsEffect, GameViewsFailEffect
  DEF ReadGameViews, RoomStill, UnregisterDues
<1>10. CASE ListClients(c)
  <2>1. /\ Sends(todo[c], Current(c).message) /\ Apart(c)
        /\ Dues(c) = Range(todo[c]) /\ Dues(c)' = Range(Tail(todo[c]))
    BY <1>10, ListClientsEffect DEF Dues
  <2>2. Do("gameViews") \in Range(Tail(todo[c])) => Do("gameViews") \in Range(todo[c])
    BY <2>1 DEF Sends
  <2> QED BY <1>1, <2>1, <2>2
<1>11. CASE ListKicked(c)
  BY <1>1, <1>11, ListKickedEffect
<1>12. CASE Write(c)
  <2>1. PICK d \in writing[c].left : WriteGoesOn(c, d) \/ WriteBreaksOff(c, d)
    BY <1>12, WriteCases
  <2>2. CASE WriteGoesOn(c, d)
    BY <1>1, <2>2, WriteGoesOnEffect
  <2>3. CASE WriteBreaksOff(c, d)
    <3>1. Apart(c) /\ (Dues(c)' = {Do("close")} \/ Dues(c)' = UnregisterDues(c))
      BY <2>3, WriteBreaksOffEffect
    <3>2. Do("gameViews") \notin UnregisterDues(c) /\ Do("gameViews") # Do("close")
      BY DEF UnregisterDues
    <3> QED BY <1>1, <3>1, <3>2
  <2> QED BY <2>1, <2>2, <2>3
<1>13. CASE ReadFails(c)
  BY <1>1, <1>13, ReadFailsEffect DEF UnregisterDues
<1>14. CASE TellElsewhere(c)
  BY <1>1, <1>14, TellElsewhereWorksEffect, TellElsewhereFailsEffect
  DEF TellElsewhere, RoomStill, UnregisterDues
<1> QED
  BY <1>2, <1>3, <1>4, <1>5, <1>6, <1>7, <1>8, <1>9, <1>10, <1>11, <1>12, <1>13, <1>14
  DEF GoroutineStep

\* A step of a goroutine may take a member out and does nothing else to the
\* room.
LEMMA RoomOfStep ==
  ASSUME NEW c, GoroutineStep(c) \/ ReadFails(c) \/ Connect(c) \/ LoseLink(c)
  PROVE  /\ UNCHANGED <<drawn, seats, gameStarted>>
         /\ players' \subseteq players
  BY DEF GoroutineStep, Attach, Detach, DetachPlayer, Reply, LeaveRoom, Leave, TellElsewhere, Close,
         ReadRoomView, ReadGameViews, ListClients, ListKicked, StartWriting, Write, ReadFails, Connect, LoseLink,
         RoomStill, roomVars

\* Every step of a connection keeps GameInv.
LEMMA GameInvStep ==
  ASSUME TypeInv, Shaped, GameInv, [ConnStep]_vars
  PROVE  GameInv'
<1>1. \A k \in Cause : causes[k] \subseteq causes'[k]
  BY CausesGrow
<1>2. causes["unseated"] \subseteq causes'["unseated"]
  BY <1>1, CausesAre
<1>3. ASSUME NEW c \in Conn, GoroutineStep(c) \/ ReadFails(c)
      PROVE  GameInv'
  BY <1>2, <1>3, RoomOfStep, NoNewGameViews DEF GameInv
<1>4. ASSUME NEW c \in Conn, Connect(c) \/ LoseLink(c)
      PROVE  GameInv'
  <2>1. UNCHANGED todo
    BY <1>4 DEF Connect, LoseLink, RoomStill
  <2> QED BY <1>2, <1>4, <2>1, RoomOfStep DEF GameInv, Due, Dues
<1>5. ASSUME NEW c \in Conn, HandleMessage(c)
      PROVE  GameInv'
  <2>1. ASSUME Apart(c), Due(c, Do("gameViews"))' => gameStarted', gameStarted => gameStarted'
        PROVE  \A d \in Conn : Due(d, Do("gameViews"))' => gameStarted'
    BY <2>1, ApartDue DEF GameInv
  <2>2. ASSUME NEW p \in RoomPlayer, HandleCreateRoom(c, p)
        PROVE  GameInv'
    <3>1. Apart(c) /\ ~Due(c, Do("gameViews"))'
      BY <2>2, EnteringEffect, StepFields DEF HandleCreateRoom, Due
    <3> QED BY <1>2, <2>1, <2>2, <3>1 DEF HandleCreateRoom, NewRoom, GameInv
  <2>3. ASSUME NEW p \in RoomPlayer, HandleJoinRoom(c, p)
        PROVE  GameInv'
    <3>1. Apart(c) /\ ~Due(c, Do("gameViews"))'
      BY <2>3, EnteringEffect, StepFields DEF HandleJoinRoom, Due
    <3>2. gameStarted => causes'["unseated"] # {}
      BY <2>3 DEF HandleJoinRoom, Blame, TypeInv, Cause
    <3> QED BY <1>2, <2>1, <2>3, <3>1, <3>2 DEF HandleJoinRoom, Join, GameInv
  <2>4. CASE HandleEnterOtherRoom(c)
    <3>1. Apart(c) /\ ~Due(c, Do("gameViews"))'
      BY <2>4, EnterOtherEffect, StepFields DEF Due
    <3> QED BY <1>2, <2>1, <2>4, <3>1 DEF HandleEnterOtherRoom, GameInv, roomVars, RoomStill
  <2>5. ASSUME NEW isReady \in BOOLEAN, HandleSetReady(c, isReady)
        PROVE  GameInv'
    <3>1. Apart(c) /\ ~Due(c, Do("gameViews"))'
      BY <2>5, SetReadyEffect, StepFields DEF Due
    <3> QED BY <1>2, <2>1, <2>5, <3>1 DEF HandleSetReady, SetReady, GameInv
  <2>6. ASSUME NEW target \in RoomPlayer, HandleTransferHost(c, target)
        PROVE  GameInv'
    <3>1. Apart(c) /\ ~Due(c, Do("gameViews"))'
      BY <2>6, TransferHostEffect, StepFields DEF Due
    <3> QED BY <1>2, <2>1, <2>6, <3>1 DEF HandleTransferHost, TransferHost, GameInv
  <2>7. CASE HandleStartGame(c)
    BY <1>2, <2>1, <2>7, StartGameEffect DEF HandleStartGame, StartGame, GameInv, TypeInv
  <2>8. CASE HandleLeaveRoom(c)
    <3>1. Apart(c) /\ ~Due(c, Do("gameViews"))'
      BY <2>8, HandleLeaveEffect, StepFields DEF Due
    <3> QED BY <1>2, <2>1, <2>8, <3>1 DEF HandleLeaveRoom, Leave, GameInv
  <2>9. CASE HandleKickVote(c)
    <3>1. Apart(c) /\ ~Due(c, Do("gameViews"))'
      BY <2>9, KickVoteEffect, StepFields DEF Due
    <3>2. gameStarted' = gameStarted /\ players' \subseteq players
      BY <2>9, KickVoteEffect
    <3>3. UNCHANGED <<drawn, seats>>
      BY <2>9 DEF HandleKickVote
    <3> QED BY <1>2, <2>1, <2>9, <3>1, <3>2, <3>3 DEF GameInv
  <2>10. CASE HandleGameCommand(c)
    BY <1>2, <2>1, <2>10, GameCommandEffect
    DEF HandleGameCommand, MayCommandGame, GameInv, roomVars
  <2> QED BY <1>5, <2>2, <2>3, <2>4, <2>5, <2>6, <2>7, <2>8, <2>9, <2>10 DEF HandleMessage
<1>6. CASE UNCHANGED vars
  BY <1>6 DEF GameInv, Due, Dues, vars, hubVars, roomVars
<1> QED BY <1>3, <1>4, <1>5, <1>6 DEF ConnStep

\* A step of c leaves the other goroutines where they are.
LEMMA StepsApart ==
  ASSUME TypeInv, Shaped, NEW c \in Conn, GoroutineStep(c) \/ ReadFails(c)
  PROVE  Apart(c)
  BY AttachEffect, DetachEffect, DetachPlayerEffect, LeaveRoomEffect, CloseEffect, TalkCases
  DEF GoroutineStep, TalkStep, UnregisterStep

\* A connection is only closed because its link went down, it was lost to another
\* room or its handler gave up.
LEMMA CloseIsForced ==
  ASSUME TypeInv, Shaped, NEW c \in Conn, GoroutineStep(c) \/ ReadFails(c), Due(c, Do("close"))'
  PROVE  \/ Due(c, Do("close")) \/ c \in causes'["gaveUp"] \cup causes'["lost"]
         \/ link[c] = "down"
<1>1. \A kind : Blame(kind, {c}) /\ kind \in Cause => c \in causes'[kind]
  BY DEF Blame, TypeInv
<1> USE StepFields DEF Due
<1>2. CASE Attach(c)
  BY <1>2, AttachEffect
<1>3. CASE Detach(c)
  BY <1>3, DetachEffect
<1>4. CASE DetachPlayer(c)
  BY <1>4, DetachPlayerEffect
<1>5. CASE LeaveRoom(c)
  BY <1>5, LeaveRoomEffect
<1>6. CASE Close(c)
  BY <1>6, CloseEffect
<1>7. CASE Reply(c)
  <2>1. CASE Continue(c, Later(c)) /\ UNCHANGED <<writing, causes>>
    BY <1>7, <2>1, ReplyWorksEffect DEF Reply, RoomStill
  <2>2. CASE causes' = [causes EXCEPT !["gaveUp"] = @ \cup {c},
                                      !["leftUnseen"] = @ \cup ({Current(c).player} \ {NoOne})]
    BY <2>2 DEF TypeInv, Cause
  <2> QED BY <1>7, <2>1, <2>2 DEF Reply
<1>8. CASE ReadRoomView(c)
  <2>1. Do("close") # RoomViewOf(version["ROOM_VIEW"])
    OBVIOUS
  <2> QED BY <1>8, <2>1, ReadRoomViewEffect
<1>9. CASE ReadGameViews(c)
  <2>1. CASE Blame("gaveUp", {c})
    BY <1>1, <2>1, CausesAre
  <2>2. CASE ShowsGame(c)
    BY <2>2, ReadGameViewsEffect
  <2> QED BY <1>9, <2>1, <2>2, GameViewsCases
<1>10. CASE ListClients(c)
  <2>1. /\ Sends(todo[c], Current(c).message)
        /\ Dues(c) = Range(todo[c]) /\ Dues(c)' = Range(Tail(todo[c]))
    BY <1>10, ListClientsEffect DEF Dues
  <2>2. Do("close") \in Range(Tail(todo[c])) => Do("close") \in Range(todo[c])
    BY <2>1 DEF Sends
  <2> QED BY <2>1, <2>2
<1>11. CASE ListKicked(c)
  <2>1. PICK p \in drawn : Dues(c)' = {DoFor("detachPlayer", p), Notice, Do("roomView")}
    BY <1>11, ListKickedEffect
  <2> QED BY <2>1
<1>12. CASE Write(c)
  <2>1. PICK d \in writing[c].left : WriteGoesOn(c, d) \/ WriteBreaksOff(c, d)
    BY <1>12, WriteCases
  <2> QED
    BY <1>1, <2>1, WriteGoesOnEffect, CausesAre DEF WriteBreaksOff, WriteFails
<1>13. CASE ReadFails(c)
  BY <1>13 DEF ReadFails, RoomStill
<1>14. CASE TellElsewhere(c)
  <2>1. CASE Continue(c, Later(c)) /\ UNCHANGED <<writing, causes>>
    BY <1>14, <2>1, TellElsewhereWorksEffect DEF TellElsewhere, RoomStill
  <2>2. CASE Blame("lost", {c})
    BY <1>1, <2>2, CausesAre
  <2> QED BY <1>14, <2>1, <2>2 DEF TellElsewhere
<1> QED
  BY <1>2, <1>3, <1>4, <1>5, <1>6, <1>7, <1>8, <1>9, <1>10, <1>11, <1>12, <1>13, <1>14
  DEF GoroutineStep

\* A broadcast goes to connections that were attached when it listed them.
LEMMA LeftAreAttached ==
  ASSUME TypeInv, Shaped, NEW c \in Conn, GoroutineStep(c) \/ ReadFails(c)
  PROVE  writing'[c].left \subseteq writing[c].left \cup attached
<1>1. DOMAIN writing = Conn
  BY DEF TypeInv
<1>2. NoBroadcast.left = {}
  BY DEF NoBroadcast
<1>3. CASE GiveUp(c)
  BY <1>1, <1>2, <1>3 DEF GiveUp
<1>4. CASE ListClients(c)
  <2>1. \/ writing'[c] = NoBroadcast
        \/ writing'[c] = [message |-> Current(c).message, left |-> attached]
    BY <1>4, ListClientsEffect, Zenon
  <2> QED BY <1>2, <2>1
<1>5. CASE ListKicked(c)
  <2>1. PICK p \in drawn :
          \/ writing'[c] = NoBroadcast
          \/ writing'[c] = [message |-> GoodbyeTo(p), left |-> {d \in attached : Player(d) = p}]
    BY <1>5, ListKickedEffect
  <2> QED BY <1>2, <2>1
<1>6. CASE Write(c)
  <2>1. PICK d \in writing[c].left : WriteGoesOn(c, d) \/ WriteBreaksOff(c, d)
    BY <1>6, WriteCases
  <2>2. CASE WriteGoesOn(c, d)
    <3>1. \/ writing'[c] = NoBroadcast
          \/ writing'[c] = [message |-> writing[c].message, left |-> writing[c].left \ {d}]
      BY <2>2, WriteGoesOnEffect
    <3> QED BY <1>2, <3>1
  <2> QED BY <1>3, <2>1, <2>2 DEF WriteBreaksOff, WriteFails
<1>7. CASE UNCHANGED writing
  BY <1>7
<1> QED
  BY <1>3, <1>4, <1>5, <1>6, <1>7
  DEF GoroutineStep, Attach, Detach, DetachPlayer, Reply, LeaveRoom, TellElsewhere, Close,
      ReadRoomView, ReadGameViews, ReadFails, RoomStill

\* A link goes down when it is lost, and is closed by its own goroutine.
LEMMA LinkMoves ==
  ASSUME TypeInv, Shaped, [ConnStep]_vars, NEW d \in Conn
  PROVE  /\ link'[d] = "down" => link[d] = "down" \/ causes'["lost"] # {}
         /\ link'[d] = "closed" => link[d] = "closed" \/ (Close(d) /\ Due(d, Do("close")))
<1>1. CASE UNCHANGED link
  BY <1>1
<1>2. ASSUME NEW c \in Conn, Connect(c)
      PROVE  (link'[d] = "down" => link[d] = "down") /\ (link'[d] = "closed" => link[d] = "closed")
  BY <1>2 DEF Connect, TypeInv, RoomStill
<1>3. ASSUME NEW c \in Conn, LoseLink(c)
      PROVE  causes'["lost"] # {} /\ (link'[d] = "closed" => link[d] = "closed")
  BY <1>3, CausesAre DEF LoseLink, Blame, TypeInv
<1>4. ASSUME NEW c \in Conn, Close(c)
      PROVE  /\ link'[d] = "down" => link[d] = "down"
             /\ link'[d] = "closed" => link[d] = "closed" \/ (Close(d) /\ Due(d, Do("close")))
  <2>1. Due(c, Do("close"))
    BY <1>4, CloseEffect DEF Due
  <2> QED BY <1>4, <2>1 DEF Close, TypeInv
<1>5. ASSUME NEW c \in Conn, HandleMessage(c) PROVE UNCHANGED link
  BY <1>5, MessageCases DEF EnterTake, PlainTake, LeaveTake, KickTake, TakeStep
<1>6. ASSUME NEW c \in Conn, GoroutineStep(c), ~Close(c) PROVE UNCHANGED link
  BY <1>6
  DEF GoroutineStep, Attach, Detach, DetachPlayer, Reply, LeaveRoom, TellElsewhere,
      ReadRoomView, ReadGameViews, ListClients, ListKicked, StartWriting, Write
<1>7. ASSUME NEW c \in Conn, ReadFails(c) PROVE UNCHANGED link
  BY <1>7 DEF ReadFails, RoomStill
<1> QED
  BY <1>1, <1>2, <1>3, <1>4, <1>5, <1>6, <1>7 DEF ConnStep, vars, hubVars

\* Taking a command writes nothing.
LEMMA TakesWriteNothing ==
  ASSUME NEW c, HandleMessage(c)
  PROVE  UNCHANGED <<writing, seen>>
  BY DEF HandleMessage, HandleCreateRoom, HandleJoinRoom, HandleEnterOtherRoom, HandleSetReady,
         HandleTransferHost, HandleStartGame, HandleLeaveRoom, HandleKickVote, HandleGameCommand,
         Takes, RoomStill

\* Every step of a connection keeps LinksInv.
LEMMA LinksInvStep ==
  ASSUME TypeInv, Shaped, BearersInv, LinksInv, [ConnStep]_vars
  PROVE  LinksInv'
<1>1. causes["lost"] \subseteq causes'["lost"] /\ causes["gaveUp"] \subseteq causes'["gaveUp"]
  BY CausesGrow, CausesAre
<1>2. causes'["lost"] = {} => \A c \in Conn : link'[c] # "down"
  BY <1>1, LinkMoves DEF LinksInv
<1>3. ASSUME causes'["lost"] = {}, causes'["gaveUp"] = {}
      PROVE  \A c \in Conn : ~Due(c, Do("close"))' /\ \A d \in writing'[c].left : link'[d] # "closed"
  <2>1. /\ \A c \in Conn : ~Due(c, Do("close")) /\ \A d \in writing[c].left : link[d] # "closed"
        /\ \A c \in Conn : link[c] # "down"
    BY <1>1, <1>3 DEF LinksInv
  <2>2. \A d \in Conn : link'[d] = "closed" => link[d] = "closed"
    BY <2>1, LinkMoves
  <2>3. \A d \in attached : link[d] # "closed"
    BY DEF BearersInv, ClosedAreIdle, TypeInv
  <2>4. \A c \in Conn : writing[c].left \subseteq Conn
    BY DEF TypeInv, Broadcast
  <2>5. attached \subseteq Conn
    BY DEF TypeInv
  <2>6. ASSUME NEW c \in Conn, Apart(c), ~Due(c, Do("close"))',
               writing'[c].left \subseteq writing[c].left \cup attached
        PROVE  \A e \in Conn : ~Due(e, Do("close"))' /\ \A d \in writing'[e].left : link'[d] # "closed"
    <3>1. \A e \in Conn \ {c} : (Due(e, Do("close"))' <=> Due(e, Do("close"))) /\ writing'[e] = writing[e]
      BY <2>6, ApartDue DEF Apart
    <3> QED BY <2>1, <2>2, <2>3, <2>4, <2>5, <2>6, <3>1
  <2>7. ASSUME NEW c \in Conn, GoroutineStep(c) \/ ReadFails(c)
        PROVE  \A e \in Conn : ~Due(e, Do("close"))' /\ \A d \in writing'[e].left : link'[d] # "closed"
    <3>1. ~Due(c, Do("close"))'
      BY <1>3, <2>1, <2>7, CloseIsForced
    <3> QED BY <2>6, <2>7, <3>1, StepsApart, LeftAreAttached
  <2>8. ASSUME NEW c \in Conn, HandleMessage(c)
        PROVE  \A e \in Conn : ~Due(e, Do("close"))' /\ \A d \in writing'[e].left : link'[d] # "closed"
    <3>1. Apart(c) /\ ~Due(c, Do("close"))'
      BY <2>8, MessageCases, StepFields
      DEF EnterTake, PlainTake, LeaveTake, KickTake, TakeStep, Matters, Due
    <3>2. writing' = writing
      BY <2>8, TakesWriteNothing
    <3> QED BY <2>6, <3>1, <3>2
  <2>9. CASE UNCHANGED <<todo, writing>>
    BY <2>1, <2>2, <2>4, <2>9 DEF Due, Dues
  <2> QED BY <2>7, <2>8, <2>9 DEF ConnStep, Connect, LoseLink, vars, hubVars, RoomStill
<1> QED BY <1>2, <1>3 DEF LinksInv

\* A handler gives up where a link is not up, or where the views of the game
\* cannot be built.
LEMMA GivingUp ==
  ASSUME TypeInv, Shaped, [ConnStep]_vars
  PROVE  \/ causes'["gaveUp"] = causes["gaveUp"]
         \/ /\ RoomStill
            /\ \E c \in Conn :
                 \/ At(c, "reply") /\ link[c] # "up"
                 \/ At(c, "gameViews") /\ GameViewsFail
                 \/ \E d \in writing[c].left : link[d] # "up"
<1>1. ASSUME NEW kind, NEW S, kind # "gaveUp", Blame(kind, S)
      PROVE  causes'["gaveUp"] = causes["gaveUp"]
  BY <1>1, CausesAre DEF TypeInv, Blame
<1>2. ASSUME NEW c \in Conn, GoroutineStep(c) \/ ReadFails(c) \/ Connect(c) \/ LoseLink(c)
      PROVE  \/ causes'["gaveUp"] = causes["gaveUp"]
             \/ /\ RoomStill
                /\ \/ At(c, "reply") /\ link[c] # "up"
                   \/ At(c, "gameViews") /\ GameViewsFail
                   \/ \E d \in writing[c].left : link[d] # "up"
  BY <1>1, <1>2
  DEF GoroutineStep, Attach, Detach, DetachPlayer, Reply, LeaveRoom, TellElsewhere, Close,
      ReadRoomView, ReadGameViews, ListClients, ListKicked, StartWriting, Write, WriteFails, ReadFails, Connect,
      LoseLink, RoomStill
<1>3. ASSUME NEW c \in Conn, HandleMessage(c)
      PROVE  causes'["gaveUp"] = causes["gaveUp"]
  BY <1>1, <1>3
  DEF HandleMessage, HandleCreateRoom, HandleJoinRoom, HandleEnterOtherRoom, HandleSetReady,
      HandleTransferHost, HandleStartGame, HandleLeaveRoom, HandleKickVote, HandleGameCommand
<1> QED BY <1>2, <1>3 DEF ConnStep, vars, hubVars

\* Neither happens while no link is lost and every member has a seat.
LEMMA NobodyGivesUp ==
  ASSUME TypeInv, Shaped, BearersInv, GameInv, LinksInv, [ConnStep]_vars,
         causes["lost"] = {}, causes["gaveUp"] = {},
         drawn = {} \/ (players # {} /\ causes["unseated"] = {})
  PROVE  causes'["gaveUp"] = {}
<1> SUFFICES ASSUME causes'["gaveUp"] # causes["gaveUp"] PROVE FALSE
  OBVIOUS
<1>1. PICK c \in Conn :
        \/ At(c, "reply") /\ link[c] # "up"
        \/ At(c, "gameViews") /\ GameViewsFail
        \/ \E d \in writing[c].left : link[d] # "up"
  BY GivingUp
<1>2. \A d \in Conn : link[d] = "up" \/ link[d] = "closed"
  BY DEF LinksInv, TypeInv
<1>3. CASE At(c, "reply") /\ link[c] # "up"
  BY <1>2, <1>3 DEF BearersInv, ClosedAreIdle, Idle, At
<1>4. CASE At(c, "gameViews") /\ GameViewsFail
  <2>1. gameStarted
    BY <1>4, AtGameViews DEF GameInv, Due
  <2>2. players \subseteq drawn
    BY DEF TypeInv
  <2> QED BY <1>4, <2>1, <2>2 DEF GameInv, GameViewsFail
<1>5. CASE \E d \in writing[c].left : link[d] # "up"
  <2>1. writing[c].left \subseteq Conn
    BY DEF TypeInv, Broadcast
  <2> QED BY <1>2, <1>5, <2>1 DEF LinksInv
<1> QED BY <1>1, <1>3, <1>4, <1>5

\* A room that has members had some before, or is new.
LEMMA Enters ==
  ASSUME TypeInv, [ConnStep]_vars
  PROVE  /\ drawn \subseteq drawn'
         /\ players' # {} => players # {} \/ drawn = {}
<1>1. ASSUME NEW c \in Conn, HandleMessage(c)
      PROVE  /\ drawn \subseteq drawn'
             /\ players' # {} => players # {} \/ drawn = {}
  <2>1. CASE \E p \in RoomPlayer : HandleCreateRoom(c, p) \/ HandleJoinRoom(c, p)
    BY <2>1 DEF HandleCreateRoom, HandleJoinRoom, TypeInv
  <2>2. CASE HandleKickVote(c)
    BY <2>2, KickVoteEffect DEF HandleKickVote
  <2>3. CASE players' \subseteq players /\ UNCHANGED drawn
    BY <2>3
  <2> QED
    BY <1>1, <2>1, <2>2, <2>3
    DEF HandleMessage, HandleEnterOtherRoom, HandleSetReady, HandleTransferHost, HandleStartGame,
        HandleLeaveRoom, HandleGameCommand, SetReady, TransferHost, StartGame, Leave, roomVars, RoomStill
<1> QED BY <1>1, RoomOfStep DEF ConnStep, vars, roomVars, hubVars

\* Every step of a connection keeps HealthInv.
LEMMA HealthStep ==
  ASSUME TypeInv, Shaped, BearersInv, HealthInv, [ConnStep]_vars
  PROVE  HealthInv'
<1>1. GameInv' /\ LinksInv'
  BY GameInvStep, LinksInvStep DEF HealthInv
<1>2. /\ causes["lost"] \subseteq causes'["lost"]
      /\ causes["unseated"] \subseteq causes'["unseated"]
  BY CausesGrow, CausesAre
<1>3. ASSUME causes'["lost"] = {}, drawn' = {}
      PROVE  causes'["gaveUp"] = {}
  <2>1. causes["lost"] = {} /\ drawn = {}
    BY <1>2, <1>3, Enters
  <2> QED BY <2>1, NobodyGivesUp DEF HealthInv, GaveUpInv
<1>4. ASSUME causes'["lost"] = {}, causes'["unseated"] = {}, players' # {}
      PROVE  causes'["gaveUp"] = {}
  <2>1. causes["lost"] = {} /\ causes["unseated"] = {} /\ (players # {} \/ drawn = {})
    BY <1>2, <1>4, Enters
  <2> QED BY <2>1, NobodyGivesUp DEF HealthInv, GaveUpInv, HealthyRoomKeepsItsPlayers
<1>5. GaveUpInv'
  BY <1>3, <1>4 DEF GaveUpInv, HealthyRoomKeepsItsPlayers
<1> QED BY <1>1, <1>5 DEF HealthInv

----------------------------------------------------------------------------
(* The views in hand.                                                      *)

\* A view is of no later state than there is, and one of the game as it is now
\* is there for every member with a seat.
Honest(m) ==
  m.kind \in ViewKind =>
    /\ m.version <= version[m.kind]
    /\ m.kind = "GAME_VIEW" /\ m.version = version["GAME_VIEW"] => seats \cap players \subseteq m.to

\* So are the views that are sent or will be, and nobody has been sent a later
\* one.
HonestInv ==
  /\ \A c \in Conn, k \in ViewKind : seen[c][k] <= version[k]
  /\ \A c \in Conn : Honest(writing[c].message) /\ \A s \in Dues(c) : Honest(s.message)

\* A view of the room or of the game as it is now.
ViewOfNow(s) ==
  s = RoomViewOf(version["ROOM_VIEW"]) \/ s = GameViewsOf(version["GAME_VIEW"], players)

\* The other messages are no views.
LEMMA NoViews ==
  /\ \A w : Do(w).message.kind \notin ViewKind
  /\ \A w, p : DoFor(w, p).message.kind \notin ViewKind
  /\ Notice.message.kind \notin ViewKind /\ Events.message.kind \notin ViewKind
  /\ \A p : GoodbyeTo(p).kind \notin ViewKind
  /\ NoBroadcast.message.kind \notin ViewKind
  BY MessageKinds DEF ViewKind

\* unregisterConnection has no view in hand at first.
LEMMA UnregisterSendsNothing ==
  ASSUME NEW c
  PROVE  \A s \in UnregisterDues(c) : s.message.kind \notin ViewKind
  BY NoViews DEF UnregisterDues

\* A goroutine only gets hold of a view when it builds one.
LEMMA NewDues ==
  ASSUME TypeInv, Shaped, NEW c \in Conn, GoroutineStep(c) \/ ReadFails(c)
  PROVE  \A s \in Dues(c)' : s \in Dues(c) \/ s.message.kind \notin ViewKind \/ (RoomStill /\ ViewOfNow(s))
<1>1. CASE Attach(c)
  BY <1>1, AttachEffect
<1>2. CASE Detach(c)
  BY <1>2, DetachEffect
<1>3. CASE DetachPlayer(c)
  BY <1>3, DetachPlayerEffect
<1>4. CASE LeaveRoom(c)
  BY <1>4, LeaveRoomEffect
<1>5. CASE Close(c)
  BY <1>5, CloseEffect
<1>6. CASE Reply(c)
  <2>1. CASE Continue(c, Later(c)) /\ UNCHANGED <<writing, causes>>
    BY <1>6, <2>1, ReplyWorksEffect, NoViews DEF Reply, RoomStill
  <2>2. CASE GiveUp(c)
    BY <1>6, <2>2, ReplyFailsEffect, UnregisterSendsNothing DEF Reply, RoomStill
  <2> QED BY <1>6, <2>1, <2>2 DEF Reply
<1>7. CASE ReadRoomView(c)
  <2>1. \/ Dues(c)' \subseteq Dues(c)
        \/ \A s \in Dues(c)' : s = RoomViewOf(version["ROOM_VIEW"]) \/ s = Do("close")
    BY <1>7, ReadRoomViewEffect
  <2> QED BY <1>7, <2>1, NoViews DEF ReadRoomView, ViewOfNow
<1>8. CASE ReadGameViews(c)
  <2>1. CASE GiveUp(c)
    BY <1>8, <2>1, GameViewsFailEffect, UnregisterSendsNothing DEF ReadGameViews, RoomStill
  <2>2. CASE ShowsGame(c)
    <3>1. \A s \in Dues(c)' : s = GameViewsOf(version["GAME_VIEW"], players) \/ s = Do("roomView")
      BY <2>2, ReadGameViewsEffect
    <3> QED BY <2>2, <3>1, NoViews DEF ShowsGame, ViewOfNow
  <2> QED BY <1>8, <2>1, <2>2, GameViewsCases
<1>9. CASE ListClients(c)
  <2>1. /\ Sends(todo[c], Current(c).message)
        /\ Dues(c) = Range(todo[c]) /\ Dues(c)' = Range(Tail(todo[c]))
    BY <1>9, ListClientsEffect DEF Dues
  <2>2. Range(Tail(todo[c])) \subseteq Range(todo[c])
    BY <2>1 DEF Sends
  <2> QED BY <2>1, <2>2
<1>10. CASE ListKicked(c)
  <2>1. PICK p \in drawn : Dues(c)' = {DoFor("detachPlayer", p), Notice, Do("roomView")}
    BY <1>10, ListKickedEffect
  <2> QED BY <2>1, NoViews
<1>11. CASE Write(c)
  <2>1. PICK d \in writing[c].left : WriteGoesOn(c, d) \/ WriteBreaksOff(c, d)
    BY <1>11, WriteCases
  <2>2. CASE WriteGoesOn(c, d)
    BY <2>2, WriteGoesOnEffect
  <2>3. CASE WriteBreaksOff(c, d)
    <3>1. Dues(c)' = {Do("close")} \/ Dues(c)' = UnregisterDues(c)
      BY <2>3, WriteBreaksOffEffect
    <3> QED BY <3>1, NoViews, UnregisterSendsNothing
  <2> QED BY <2>1, <2>2, <2>3
<1>12. CASE ReadFails(c)
  BY <1>12, ReadFailsEffect, UnregisterSendsNothing
<1>13. CASE TellElsewhere(c)
  <2>1. CASE Continue(c, Later(c)) /\ UNCHANGED <<writing, causes>>
    BY <1>13, <2>1, TellElsewhereWorksEffect DEF TellElsewhere, RoomStill
  <2>2. CASE GiveUp(c)
    BY <1>13, <2>2, TellElsewhereFailsEffect, UnregisterSendsNothing DEF TellElsewhere, RoomStill
  <2> QED BY <1>13, <2>1, <2>2 DEF TellElsewhere
<1> QED
  BY <1>1, <1>2, <1>3, <1>4, <1>5, <1>6, <1>7, <1>8, <1>9, <1>10, <1>11, <1>12, <1>13
  DEF GoroutineStep

\* What a goroutine sends it had to send before.
LEMMA NewWriting ==
  ASSUME TypeInv, Shaped, NEW c \in Conn, GoroutineStep(c) \/ ReadFails(c)
  PROVE  \/ writing'[c].message = writing[c].message
         \/ writing'[c].message.kind \notin ViewKind
         \/ \E s \in Dues(c) : writing'[c].message = s.message
<1>1. DOMAIN writing = Conn
  BY DEF TypeInv
<1>2. CASE GiveUp(c)
  BY <1>1, <1>2, NoViews DEF GiveUp
<1>3. CASE ListClients(c)
  <2>1. \/ writing'[c] = NoBroadcast
        \/ writing'[c] = [message |-> Current(c).message, left |-> attached]
    BY <1>3, ListClientsEffect, Zenon
  <2>2. \E s \in Range(todo[c]) : Current(c).message = s.message
    BY <1>3, ListClientsEffect DEF Sends
  <2> QED BY <2>1, <2>2, NoViews DEF Dues
<1>4. CASE ListKicked(c)
  <2>1. PICK p \in drawn :
          \/ writing'[c] = NoBroadcast
          \/ writing'[c] = [message |-> GoodbyeTo(p), left |-> {d \in attached : Player(d) = p}]
    BY <1>4, ListKickedEffect
  <2> QED BY <2>1, NoViews
<1>5. CASE Write(c)
  <2>1. PICK d \in writing[c].left : WriteGoesOn(c, d) \/ WriteBreaksOff(c, d)
    BY <1>5, WriteCases
  <2>2. CASE WriteGoesOn(c, d)
    <3>1. \/ writing'[c] = NoBroadcast
          \/ writing'[c] = [message |-> writing[c].message, left |-> writing[c].left \ {d}]
      BY <2>2, WriteGoesOnEffect
    <3> QED BY <3>1, NoViews
  <2> QED BY <1>2, <2>1, <2>2 DEF WriteBreaksOff, WriteFails
<1>6. CASE UNCHANGED writing
  BY <1>6
<1> QED
  BY <1>2, <1>3, <1>4, <1>5, <1>6
  DEF GoroutineStep, Attach, Detach, DetachPlayer, Reply, LeaveRoom, TellElsewhere, Close,
      ReadRoomView, ReadGameViews, ReadFails, RoomStill

\* A command puts no view in its goroutine's hands.
LEMMA TakesNewDues ==
  ASSUME TypeInv, NEW c \in Conn, HandleMessage(c)
  PROVE  Apart(c) /\ \A s \in Dues(c)' : s.message.kind \notin ViewKind
<1> USE NoViews
<1>1. ASSUME NEW p \in RoomPlayer, HandleCreateRoom(c, p) \/ HandleJoinRoom(c, p)
      PROVE  Apart(c) /\ \A s \in Dues(c)' : s.message.kind \notin ViewKind
  <2>1. p \in drawn'
    BY <1>1 DEF HandleCreateRoom, HandleJoinRoom
  <2> QED BY <1>1, <2>1, EnteringEffect DEF HandleCreateRoom, HandleJoinRoom
<1>2. CASE HandleKickVote(c)
  BY <1>2, KickVoteEffect
<1> QED
  BY <1>1, <1>2, EnterOtherEffect, SetReadyEffect, TransferHostEffect, StartGameEffect,
     HandleLeaveEffect, GameCommandEffect
  DEF HandleMessage

\* Versions never go back, and while that of the game stays, seats and members
\* with a seat are not added to.
LEMMA VersionsGrow ==
  ASSUME TypeInv, [ConnStep]_vars
  PROVE  /\ \A k \in ViewKind : version[k] \in Nat /\ version'[k] \in Nat /\ version[k] <= version'[k]
         /\ version'["GAME_VIEW"] = version["GAME_VIEW"] =>
              /\ seats' = seats /\ gameStarted' = gameStarted
              /\ seats' \cap players' \subseteq seats \cap players
<1>1. /\ \A k \in ViewKind : version[k] \in Nat
      /\ "GAME_VIEW" \in ViewKind /\ "ROOM_VIEW" \in ViewKind
  BY DEF TypeInv, ViewKind
<1>2. ASSUME NEW kinds, Changes(kinds)
      PROVE  /\ \A k \in ViewKind : version'[k] \in Nat /\ version[k] <= version'[k]
             /\ "GAME_VIEW" \in kinds => version'["GAME_VIEW"] # version["GAME_VIEW"]
  BY <1>1, <1>2 DEF Changes
<1>3. ASSUME NEW c \in Conn, GoroutineStep(c) \/ ReadFails(c) \/ Connect(c) \/ LoseLink(c)
      PROVE  \A k \in ViewKind : version'[k] \in Nat /\ version[k] <= version'[k]
  <2>1. CASE version' = [version EXCEPT !["ROOM_VIEW"] = @ + 1]
    BY <1>1, <2>1 DEF TypeInv
  <2>2. CASE UNCHANGED version
    BY <1>1, <2>2
  <2> QED
    BY <1>3, <2>1, <2>2
    DEF GoroutineStep, Attach, Detach, DetachPlayer, Reply, LeaveRoom, TellElsewhere, Close,
        ReadRoomView, ReadGameViews, ListClients, ListKicked, StartWriting, Write, ReadFails, Connect, LoseLink,
        RoomStill
<1>4. ASSUME NEW c \in Conn, HandleMessage(c)
      PROVE  /\ \A k \in ViewKind : version'[k] \in Nat /\ version[k] <= version'[k]
             /\ version'["GAME_VIEW"] = version["GAME_VIEW"] =>
                  /\ seats' = seats /\ gameStarted' = gameStarted
                  /\ seats' \cap players' \subseteq seats \cap players
  <2>1. ASSUME NEW p \in RoomPlayer, HandleCreateRoom(c, p) \/ HandleJoinRoom(c, p)
        PROVE  /\ Changes({"ROOM_VIEW"}) /\ UNCHANGED <<seats, gameStarted>>
               /\ players' \subseteq players \cup {p} /\ p \notin seats
    BY <2>1 DEF HandleCreateRoom, HandleJoinRoom, NewRoom, Join, TypeInv
  <2>2. CASE HandleStartGame(c) \/ HandleGameCommand(c)
    <3>1. Changes(ViewKind) \/ Changes({"GAME_VIEW"})
      BY <2>2 DEF HandleStartGame, HandleGameCommand
    <3> QED BY <1>1, <1>2, <3>1
  <2>3. CASE HandleKickVote(c)
    <3>1. Changes({"ROOM_VIEW"}) /\ UNCHANGED <<seats, gameStarted>> /\ players' \subseteq players
      BY <2>3, KickVoteEffect DEF HandleKickVote
    <3> QED BY <1>2, <3>1
  <2>4. CASE HandleEnterOtherRoom(c)
    BY <1>1, <2>4 DEF HandleEnterOtherRoom, roomVars, RoomStill
  <2>5. ASSUME Changes({"ROOM_VIEW"}), UNCHANGED <<seats, gameStarted>>, players' \subseteq players
        PROVE  /\ \A k \in ViewKind : version'[k] \in Nat /\ version[k] <= version'[k]
               /\ version'["GAME_VIEW"] = version["GAME_VIEW"] =>
                    /\ seats' = seats /\ gameStarted' = gameStarted
                    /\ seats' \cap players' \subseteq seats \cap players
    BY <1>2, <2>5
  <2>6. CASE \E p \in RoomPlayer : HandleCreateRoom(c, p) \/ HandleJoinRoom(c, p)
    BY <1>2, <2>1, <2>6
  <2> QED
    BY <1>4, <2>2, <2>3, <2>4, <2>5, <2>6
    DEF HandleMessage, HandleSetReady, HandleTransferHost, HandleLeaveRoom, SetReady, TransferHost,
        Leave
<1>5. CASE UNCHANGED vars
  BY <1>1, <1>5 DEF vars, roomVars, hubVars
<1> QED BY <1>1, <1>3, <1>4, <1>5, RoomOfStep DEF ConnStep

\* An honest view stays honest.
LEMMA HonestStays ==
  ASSUME TypeInv, [ConnStep]_vars, NEW m, m.kind \in ViewKind => m.version \in Nat, Honest(m)
  PROVE  Honest(m)'
<1>1. "GAME_VIEW" \in ViewKind
  BY DEF ViewKind
<1>2. CASE m.kind \in ViewKind
  <2>1. version[m.kind] \in Nat /\ version'[m.kind] \in Nat /\ version[m.kind] <= version'[m.kind]
        /\ m.version \in Nat /\ m.version <= version[m.kind]
    BY <1>2, VersionsGrow DEF Honest
  <2>2. m.version <= version'[m.kind]
    BY <2>1
  <2>3. ASSUME m.kind = "GAME_VIEW", m.version = version'["GAME_VIEW"]
        PROVE  seats' \cap players' \subseteq m.to
    <3>1. version'["GAME_VIEW"] = version["GAME_VIEW"]
      BY <2>1, <2>3
    <3> QED BY <1>2, <2>3, <3>1, VersionsGrow DEF Honest
  <2> QED BY <2>2, <2>3 DEF Honest
<1> QED BY <1>2 DEF Honest

\* The views of a handler have a version.
LEMMA ErrandMessages ==
  ASSUME NEW s, Errand(s)
  PROVE  \A x \in Range(s) : x.message.kind \in ViewKind => x.message.version \in Nat
<1> USE Lists, NoViews, MessageKinds
<1>1. CASE s = <<>>
  BY <1>1
<1>2. CASE EnterErrand(s)
  BY <1>2 DEF EnterErrand
<1>3. CASE ViewErrand(s)
  BY <1>3 DEF ViewErrand
<1>4. CASE StartErrand(s)
  BY <1>4 DEF StartErrand
<1>5. CASE LeaveErrand(s)
  BY <1>5 DEF LeaveErrand
<1>6. CASE KickErrand(s)
  BY <1>6 DEF KickErrand
<1>7. CASE GameErrand(s)
  BY <1>7 DEF GameErrand
<1>8. CASE CloseErrand(s)
  BY <1>8 DEF CloseErrand
<1> QED BY <1>1, <1>2, <1>3, <1>4, <1>5, <1>6, <1>7, <1>8 DEF Errand

\* So have the views that any goroutine has in hand.
LEMMA NumberedMessages ==
  ASSUME TypeInv, Shaped, NEW c \in Conn
  PROVE  /\ \A s \in Dues(c) : s.message.kind \in ViewKind => s.message.version \in Nat
         /\ writing[c].message.version \in Nat
<1>1. Errand(todo[c])
  BY AtWriting DEF Shaped, ShapedAt
<1> QED BY <1>1, ErrandMessages DEF Dues, TypeInv, Broadcast, Message

\* What a connection has seen changes with a newer view, and goes with the
\* connection.
LEMMA SeenMoves ==
  ASSUME TypeInv, [ConnStep]_vars, NEW d \in Conn
  PROVE  \/ seen'[d] = seen[d]
         \/ Close(d) /\ \A k \in ViewKind : seen'[d][k] = 0
         \/ \E c \in Conn :
              /\ Send(writing[c].message, d) /\ writing[c].message.kind \in ViewKind
              /\ seen[d][writing[c].message.kind] < writing[c].message.version
              /\ seen'[d] = [seen[d] EXCEPT ![writing[c].message.kind] = writing[c].message.version]
<1>1. DOMAIN seen = Conn
  BY DEF TypeInv
<1>2. ASSUME NEW c \in Conn, Close(c)
      PROVE  seen'[d] = seen[d] \/ (Close(d) /\ \A k \in ViewKind : seen'[d][k] = 0)
  BY <1>1, <1>2 DEF Close
<1>3. ASSUME NEW c \in Conn, Write(c)
      PROVE  \/ seen'[d] = seen[d]
             \/ /\ Send(writing[c].message, d) /\ writing[c].message.kind \in ViewKind
                /\ seen[d][writing[c].message.kind] < writing[c].message.version
                /\ seen'[d] = [seen[d] EXCEPT ![writing[c].message.kind] = writing[c].message.version]
  <2>1. PICK e \in writing[c].left :
          \/ Skip(writing[c].message, e) \/ Send(writing[c].message, e)
          \/ WriteFails(c, e)
    BY <1>3 DEF Write
  <2>2. CASE Send(writing[c].message, e)
    BY <1>1, <2>2 DEF Send
  <2> QED BY <2>1, <2>2 DEF Skip, WriteFails
<1>4. ASSUME NEW c \in Conn, HandleMessage(c) PROVE seen' = seen
  BY <1>4, TakesWriteNothing
<1> QED
  BY <1>2, <1>3, <1>4
  DEF ConnStep, GoroutineStep, Attach, Detach, DetachPlayer, Reply, LeaveRoom, TellElsewhere,
      ReadRoomView, ReadGameViews, ListClients, ListKicked, StartWriting, ReadFails, Connect,
      LoseLink, vars, hubVars, RoomStill

\* Every step of a connection keeps HonestInv.
LEMMA HonestStep ==
  ASSUME TypeInv, Shaped, HonestInv, [ConnStep]_vars
  PROVE  HonestInv'
<1>1. ASSUME NEW d \in Conn, NEW k \in ViewKind
      PROVE  seen'[d][k] <= version'[k]
  <2>1. /\ seen[d][k] \in Nat /\ seen[d][k] <= version[k]
        /\ version[k] \in Nat /\ version'[k] \in Nat /\ version[k] <= version'[k]
    BY VersionsGrow DEF HonestInv, TypeInv
  <2>2. CASE seen'[d] = seen[d]
    BY <2>1, <2>2
  <2>3. CASE seen'[d][k] = 0
    BY <2>1, <2>3
  <2>4. ASSUME NEW c \in Conn, writing[c].message.kind \in ViewKind,
               seen'[d] = [seen[d] EXCEPT ![writing[c].message.kind] = writing[c].message.version]
        PROVE  seen'[d][k] <= version'[k]
    <3>1. /\ writing[c].message.version \in Nat
          /\ writing[c].message.version <= version[writing[c].message.kind]
      BY <2>4, NumberedMessages DEF HonestInv, Honest
    <3>2. DOMAIN seen[d] = ViewKind
      BY DEF TypeInv
    <3> QED BY <2>1, <2>4, <3>1, <3>2
  <2> QED BY <2>2, <2>3, <2>4, SeenMoves
<1>2. ASSUME NEW m, m.kind \notin ViewKind PROVE Honest(m)'
  BY <1>2 DEF Honest
<1>3. ASSUME NEW c \in Conn, NEW m,
             m = writing[c].message \/ \E s \in Dues(c) : m = s.message
      PROVE  Honest(m)'
  <2>1. Honest(m) /\ (m.kind \in ViewKind => m.version \in Nat)
    BY <1>3, NumberedMessages DEF HonestInv
  <2> QED BY <2>1, HonestStays
<1>4. ASSUME NEW m, RoomStill, \E s : ViewOfNow(s) /\ m = s.message PROVE Honest(m)'
  <2>1. /\ version' = version /\ seats' = seats /\ players' = players
        /\ version["ROOM_VIEW"] \in Nat /\ version["GAME_VIEW"] \in Nat
    BY <1>4 DEF RoomStill, roomVars, TypeInv, ViewKind
  <2>2. CASE m = RoomViewOf(version["ROOM_VIEW"]).message
    <3>1. m.kind = "ROOM_VIEW" /\ m.version = version["ROOM_VIEW"]
      BY <2>2, MessageKinds
    <3> QED BY <2>1, <3>1 DEF Honest
  <2>3. CASE m = GameViewsOf(version["GAME_VIEW"], players).message
    <3>1. m.kind = "GAME_VIEW" /\ m.version = version["GAME_VIEW"] /\ m.to = players
      BY <2>3, MessageKinds
    <3> QED BY <2>1, <3>1 DEF Honest
  <2> QED BY <1>4, <2>2, <2>3 DEF ViewOfNow
<1>5. ASSUME NEW d \in Conn, NEW m,
             m = writing'[d].message \/ \E s \in Dues(d)' : m = s.message
      PROVE  Honest(m)'
  <2>1. ASSUME NEW c \in Conn, GoroutineStep(c) \/ ReadFails(c) PROVE Honest(m)'
    <3>1. Apart(c)
      BY <2>1, StepsApart
    <3>2. CASE d = c
      <4>1. CASE m = writing'[c].message
        BY <1>2, <1>3, <2>1, <4>1, NewWriting
      <4>2. CASE \E s \in Dues(c)' : m = s.message
        <5>1. PICK s \in Dues(c)' : m = s.message
          BY <4>2
        <5>2. s \in Dues(c) \/ s.message.kind \notin ViewKind \/ (RoomStill /\ ViewOfNow(s))
          BY <2>1, NewDues
        <5> QED BY <1>2, <1>3, <1>4, <5>1, <5>2
      <4> QED BY <1>5, <3>2, <4>1, <4>2
    <3>3. CASE d # c
      BY <1>3, <1>5, <3>1, <3>3 DEF Apart
    <3> QED BY <3>2, <3>3
  <2>2. ASSUME NEW c \in Conn, HandleMessage(c) PROVE Honest(m)'
    <3>1. Apart(c) /\ (\A s \in Dues(c)' : s.message.kind \notin ViewKind) /\ writing' = writing
      BY <2>2, TakesNewDues, TakesWriteNothing
    <3>2. CASE m = writing[d].message
      BY <1>3, <3>2
    <3>3. CASE \E s \in Dues(d)' : m = s.message
      BY <1>2, <1>3, <3>1, <3>3 DEF Apart
    <3> QED BY <1>5, <3>1, <3>2, <3>3
  <2>3. CASE UNCHANGED <<todo, writing>>
    BY <1>3, <1>5, <2>3 DEF Dues
  <2> QED BY <2>1, <2>2, <2>3 DEF ConnStep, Connect, LoseLink, vars, hubVars, RoomStill
<1>6. ASSUME NEW d \in Conn
      PROVE  Honest(writing[d].message)' /\ \A s \in Dues(d)' : Honest(s.message)'
  BY <1>5 DEF Honest
<1> QED BY <1>1, <1>6 DEF HonestInv

----------------------------------------------------------------------------
(* The game is told.                                                       *)

\* d has still to send c the game as it is now.
TellsGame(d, c) ==
  \/ Due(d, Do("gameViews"))
  \/ \E s \in Dues(d) :
       s.message.kind = "GAME_VIEW" /\ s.message.version = version["GAME_VIEW"]
  \/ /\ writing[d].message.kind = "GAME_VIEW"
     /\ writing[d].message.version = version["GAME_VIEW"]
     /\ c \in writing[d].left

\* The callback of t has: it made the last change.
CallbackTells(t, c) ==
  /\ callback[t].change = version["GAME_VIEW"]
  /\ \/ callback[t].at \in {"events", "views"}
     \/ callback[t].at = "writing" /\ c \in callback[t].left

\* Whoever has a seat has seen the game as it is now, or somebody has still to
\* send it, unless a callback has left the game as it is now untold.
GameTold ==
  causes["gaveUp"] = {} /\ version["GAME_VIEW"] \notin causes["untold"] /\ gameStarted =>
    \A c \in Conn :
      Player(c) \in seats \cap players =>
        \/ seen[c]["GAME_VIEW"] = version["GAME_VIEW"]
        \/ \E d \in Conn : TellsGame(d, c)
        \/ \E t \in Timer : CallbackTells(t, c)

\* A handler that gives up is on record.
LEMMA GivingUpShows ==
  ASSUME TypeInv, NEW c \in Conn
  PROVE  /\ Blame("gaveUp", {c}) => c \in causes'["gaveUp"]
         /\ Reply(c) => \/ Continue(c, Later(c)) /\ UNCHANGED <<writing, causes>>
                        \/ GiveUp(c) /\ c \in causes'["gaveUp"]
<1> USE DEF TypeInv, Cause
<1>1. Blame("gaveUp", {c}) => c \in causes'["gaveUp"]
  BY DEF Blame
<1>2. ASSUME NEW S, causes' = [causes EXCEPT !["gaveUp"] = @ \cup {c}, !["leftUnseen"] = @ \cup S]
      PROVE  c \in causes'["gaveUp"]
  BY <1>2
<1>3. Reply(c) =>
        \/ Continue(c, Later(c)) /\ UNCHANGED <<writing, causes>>
        \/ GiveUp(c) /\ c \in causes'["gaveUp"]
  BY <1>2 DEF Reply
<1> QED BY <1>1, <1>3

\* Whoever has to tell c goes on having to until c has been sent the view.
LEMMA TellerGoesOn ==
  ASSUME TypeInv, Shaped, HonestInv, NEW d \in Conn, GoroutineStep(d), causes'["gaveUp"] = {},
         NEW c \in Conn, Player(c) \in seats \cap players, TellsGame(d, c)
  PROVE  TellsGame(d, c)' \/ seen'[c]["GAME_VIEW"] = version["GAME_VIEW"]
<1>1. version'["GAME_VIEW"] = version["GAME_VIEW"]
  <2>1. CASE version' = [version EXCEPT !["ROOM_VIEW"] = @ + 1]
    BY <2>1 DEF TypeInv, ViewKind
  <2>2. CASE UNCHANGED version
    BY <2>2
  <2> QED
    BY <2>1, <2>2
    DEF GoroutineStep, Attach, Detach, DetachPlayer, Reply, LeaveRoom, TellElsewhere, Close,
        ReadRoomView, ReadGameViews, ListClients, ListKicked, StartWriting, Write, RoomStill
<1>2. ASSUME Due(d, Do("gameViews"))' PROVE TellsGame(d, c)'
  BY <1>2 DEF TellsGame
<1>3. ASSUME NEW s \in Dues(d)', s.message.kind = "GAME_VIEW", s.message.version = version["GAME_VIEW"]
      PROVE  TellsGame(d, c)'
  BY <1>1, <1>3 DEF TellsGame
<1>4. ASSUME writing'[d].message.kind = "GAME_VIEW", c \in writing'[d].left,
             writing'[d].message.version = version["GAME_VIEW"]
      PROVE  TellsGame(d, c)'
  BY <1>1, <1>4 DEF TellsGame
<1>5. ASSUME writing[d] = NoBroadcast
      PROVE  \/ Due(d, Do("gameViews"))
             \/ \E s \in Dues(d) :
                  s.message.kind = "GAME_VIEW" /\ s.message.version = version["GAME_VIEW"]
  BY <1>5, MessageKinds DEF TellsGame
<1>6. ASSUME \A s \in Dues(d) : s # Do("gameViews") /\ s.message.kind # "GAME_VIEW",
             writing[d] = NoBroadcast
      PROVE  FALSE
  BY <1>5, <1>6 DEF Due
<1> USE MessageKinds
<1>7. CASE Attach(d)
  <2>1. PICK p \in drawn \cup {NoOne} :
          \/ Dues(d) = {DoFor("attach", p), Do("reply"), Do("roomView")}
          \/ Dues(d) = {Do("attach"), Do("reply"), Do("elsewhere")}
    BY <1>7, AttachEffect
  <2>2. \A s \in Dues(d) : s # Do("gameViews") /\ s.message.kind # "GAME_VIEW"
    BY <2>1, StepFields
  <2> QED BY <1>6, <1>7, <2>2 DEF Attach, At
<1>8. CASE Detach(d)
  <2>1. \/ Dues(d) = {Do("detach"), Do("close")}
        \/ \E p \in drawn :
             \/ Dues(d) = {Do("detach"), DoFor("reply", p), Do("roomView")}
             \/ Dues(d) = {Do("detach"), DoFor("leave", p), Do("roomView"), Do("close")}
    BY <1>8, DetachEffect
  <2>2. \A s \in Dues(d) : s # Do("gameViews") /\ s.message.kind # "GAME_VIEW"
    BY <2>1, StepFields
  <2> QED BY <1>6, <1>8, <2>2 DEF Detach, At
<1>9. CASE DetachPlayer(d)
  <2>1. PICK p \in drawn : Dues(d) = {DoFor("detachPlayer", p), Notice, Do("roomView")}
    BY <1>9, DetachPlayerEffect
  <2>2. \A s \in Dues(d) : s # Do("gameViews") /\ s.message.kind # "GAME_VIEW"
    BY <2>1, StepFields
  <2> QED BY <1>6, <1>9, <2>2 DEF DetachPlayer, At
<1>10. CASE LeaveRoom(d)
  <2>1. PICK p \in drawn : Dues(d) = {DoFor("leave", p), Do("roomView"), Do("close")}
    BY <1>10, LeaveRoomEffect
  <2>2. \A s \in Dues(d) : s # Do("gameViews") /\ s.message.kind # "GAME_VIEW"
    BY <2>1, StepFields
  <2> QED BY <1>6, <1>10, <2>2 DEF LeaveRoom, At
<1>11. CASE Close(d)
  <2>1. \A s \in Dues(d) : s # Do("gameViews") /\ s.message.kind # "GAME_VIEW"
    BY <1>11, CloseEffect, StepFields
  <2> QED BY <1>6, <1>11, <2>1, CloseEffect
<1>12. CASE Reply(d)
  <2>1. At(d, "reply") /\ writing[d] = NoBroadcast
    BY <1>12 DEF Reply, At
  <2>2. ReplyDues(d)
    BY <2>1, AtReply
  <2>3. Continue(d, Later(d)) /\ UNCHANGED <<writing, drawn>>
    <3>1. UNCHANGED drawn
      BY <1>12 DEF Reply, RoomStill
    <3> QED BY <1>12, <3>1, GivingUpShows
  <2>4. CASE Due(d, Do("gameViews"))
    BY <1>2, <2>1, <2>3, <2>4, ReplyWorksEffect, StepFields DEF Due
  <2>5. CASE ~Due(d, Do("gameViews"))
    <3>1. \A s \in Dues(d) : s.message.kind # "GAME_VIEW"
      BY <2>2 DEF ReplyDues
    <3> QED BY <1>6, <2>1, <2>5, <3>1 DEF Due
  <2> QED BY <2>4, <2>5
<1>13. CASE ReadRoomView(d)
  <2>1. \A s \in Dues(d) : s # Do("gameViews") /\ s.message.kind # "GAME_VIEW"
    BY <1>13, ReadRoomViewEffect, StepFields
  <2> QED BY <1>6, <1>13, <2>1 DEF ReadRoomView, At
<1>14. CASE ReadGameViews(d)
  <2>1. ShowsGame(d)
    BY <1>14, GivingUpShows, GameViewsCases
  <2>2. GameViewsOf(version["GAME_VIEW"], players) \in Dues(d)'
    BY <2>1, ReadGameViewsEffect
  <2> QED BY <1>3, <2>2
<1>15. CASE ListClients(d)
  <2>1. /\ Sends(todo[d], Current(d).message) /\ writing[d] = NoBroadcast
        /\ Dues(d) = Range(todo[d]) /\ Dues(d)' = Range(Tail(todo[d]))
    BY <1>15, ListClientsEffect DEF Dues
  <2>2. CASE Due(d, Do("gameViews"))
    <3>1. Do("gameViews") \in Range(Tail(todo[d]))
      BY <2>1, <2>2, StepFields DEF Sends, Due
    <3> QED BY <1>2, <2>1, <3>1 DEF Due
  <2>3. CASE ~Due(d, Do("gameViews"))
    <3>1. PICK s \in Range(todo[d]) :
            s.message.kind = "GAME_VIEW" /\ s.message.version = version["GAME_VIEW"]
      BY <1>5, <2>1, <2>3
    <3>2. Current(d).message = s.message
      BY <2>1, <3>1 DEF Sends
    <3>3. c \in attached
      BY RoomAssumption DEF TypeInv
    <3>4. writing'[d] = [message |-> Current(d).message, left |-> attached]
      <4>1. attached # {}
        BY <3>3
      <4> QED BY <1>15, <4>1, ListClientsEffect, Zenon
    <3> QED BY <1>4, <3>1, <3>2, <3>3, <3>4
  <2> QED BY <2>2, <2>3
<1>16. CASE ListKicked(d)
  <2>1. PICK p \in drawn :
          Dues(d) = {DoFor("notify", p), DoFor("detachPlayer", p), Notice, Do("roomView")}
    BY <1>16, ListKickedEffect
  <2>2. \A s \in Dues(d) : s # Do("gameViews") /\ s.message.kind # "GAME_VIEW"
    BY <2>1, StepFields
  <2> QED BY <1>6, <1>16, <2>2, ListKickedEffect
<1>17. CASE Write(d)
  <2>1. PICK f \in writing[d].left : WriteGoesOn(d, f) \/ WriteBreaksOff(d, f)
    BY <1>17, WriteCases
  <2>2. WriteGoesOn(d, f)
    BY <2>1, GivingUpShows DEF WriteBreaksOff, WriteFails
  <2>3. Dues(d)' = Dues(d)
    BY <2>2, WriteGoesOnEffect
  <2>4. CASE /\ writing[d].message.kind = "GAME_VIEW"
             /\ writing[d].message.version = version["GAME_VIEW"]
             /\ c \in writing[d].left
    <3>1. CASE f = c
      <4>1. ~NotFor(writing[d].message, c)
        BY <2>4 DEF HonestInv, Honest, NotFor, ViewKind
      <4>2. Send(writing[d].message, c)
        BY <2>2, <2>4, <3>1, <4>1 DEF WriteGoesOn, Skip
      <4>3. /\ DOMAIN seen = Conn /\ DOMAIN seen[c] = ViewKind
            /\ seen[c]["GAME_VIEW"] \in Nat /\ version["GAME_VIEW"] \in Nat
            /\ seen[c]["GAME_VIEW"] <= version["GAME_VIEW"]
        BY DEF TypeInv, HonestInv, ViewKind
      <4> QED BY <2>4, <4>2, <4>3 DEF Send, ViewKind
    <3>2. CASE f # c
      <4>1. writing[d].left # {f}
        BY <2>4, <3>2
      <4>2. writing'[d] = [message |-> writing[d].message, left |-> writing[d].left \ {f}]
        BY <2>2, <4>1, WriteGoesOnEffect
      <4> QED BY <1>4, <2>4, <3>2, <4>2
    <3> QED BY <3>1, <3>2
  <2>5. CASE Due(d, Do("gameViews"))
    BY <1>2, <2>3, <2>5 DEF Due
  <2>6. CASE \E s \in Dues(d) :
               s.message.kind = "GAME_VIEW" /\ s.message.version = version["GAME_VIEW"]
    BY <1>3, <2>3, <2>6
  <2> QED BY <2>4, <2>5, <2>6 DEF TellsGame
<1>18. CASE TellElsewhere(d)
  <2>1. writing[d] = NoBroadcast /\ Dues(d) = {Do("elsewhere")}
    BY <1>18, AtElsewhere DEF TellElsewhere
  <2> QED BY <1>6, <2>1, StepFields
<1> QED
  BY <1>7, <1>8, <1>9, <1>10, <1>11, <1>12, <1>13, <1>14, <1>15, <1>16, <1>17, <1>18
  DEF GoroutineStep

\* A goroutine with nothing left to do has nobody to tell.
LEMMA IdleTellsNobody ==
  ASSUME NEW d, NEW c, Idle(d)
  PROVE  ~TellsGame(d, c)
  BY Lists, MessageKinds DEF Idle, TellsGame, Due, Dues

\* The steps of the others do not change that.
LEMMA OthersTellOn ==
  ASSUME NEW e \in Conn, Apart(e), NEW d \in Conn \ {e}, NEW c, TellsGame(d, c),
         version'["GAME_VIEW"] = version["GAME_VIEW"]
  PROVE  TellsGame(d, c)'
<1>1. Dues(d)' = Dues(d) /\ writing'[d] = writing[d]
  BY DEF Apart
<1> QED BY <1>1 DEF TellsGame, Due

\* A connection only gets a player who has no seat yet.
LEMMA PlayersMove ==
  ASSUME TypeInv, Shaped, BearersInv, [ConnStep]_vars, NEW c \in Conn
  PROVE  Player(c)' \in {Player(c), NoOne} \/ (Attach(c) /\ Player(c)' \notin seats)
<1>1. ASSUME NEW e \in Conn, Attach(e)
      PROVE  Player(c)' \in {Player(c), NoOne} \/ (Attach(c) /\ Player(c)' \notin seats)
  <2>1. PICK p \in drawn \cup {NoOne} :
          /\ Current(e).player = p
          /\ p = NoOne \/ Due(e, DoFor("attach", p))
    BY <1>1, AttachEffect DEF Due
  <2>2. Player(c)' = IF c = e THEN p ELSE Player(c)
    BY <1>1, <2>1 DEF Attach, Player, TypeInv
  <2>3. p # NoOne => p \notin seats
    BY <2>1 DEF BearersInv, ComingAreNew, TypeInv
  <2> QED BY <1>1, <2>2, <2>3
<1>2. ASSUME NEW e \in Conn, HandleMessage(e) PROVE playerID' = playerID
  BY <1>2, MessageCases DEF EnterTake, PlainTake, LeaveTake, KickTake, TakeStep
<1>3. ASSUME NEW e \in Conn, Detach(e) PROVE Player(c)' \in {Player(c), NoOne}
  BY <1>3 DEF Detach, Player, TypeInv
<1>4. ASSUME NEW e \in Conn, DetachPlayer(e) PROVE Player(c)' \in {Player(c), NoOne}
  BY <1>4 DEF DetachPlayer, Player, TypeInv
<1>5. ASSUME NEW e \in Conn,
             \/ Reply(e) \/ LeaveRoom(e) \/ TellElsewhere(e) \/ Close(e) \/ ReadRoomView(e)
             \/ ReadGameViews(e) \/ ListClients(e) \/ ListKicked(e) \/ Write(e) \/ ReadFails(e)
             \/ Connect(e) \/ LoseLink(e)
      PROVE  playerID' = playerID
  BY <1>5
  DEF Reply, LeaveRoom, TellElsewhere, Close, ReadRoomView, ReadGameViews, ListClients, ListKicked, StartWriting,
      Write, ReadFails, Connect, LoseLink, RoomStill
<1>6. CASE playerID' = playerID
  BY <1>6 DEF Player
<1> QED
  BY <1>1, <1>2, <1>3, <1>4, <1>5, <1>6 DEF ConnStep, GoroutineStep, vars, hubVars

\* A command is taken by a goroutine with nothing left to do.
LEMMA TakesWhenIdle ==
  ASSUME NEW c, HandleMessage(c)
  PROVE  Idle(c)
  BY DEF HandleMessage, HandleCreateRoom, HandleJoinRoom, HandleEnterOtherRoom, HandleSetReady,
         HandleTransferHost, HandleStartGame, HandleLeaveRoom, HandleKickVote, HandleGameCommand,
         Takes, RoomStill

\* Of the connections' steps only START_GAME and the commands of the game change
\* the game.
LEMMA GameVersionMoves ==
  ASSUME TypeInv, [ConnStep]_vars, version'["GAME_VIEW"] # version["GAME_VIEW"]
  PROVE  \E e \in Conn : HandleStartGame(e) \/ HandleGameCommand(e)
<1>1. version["GAME_VIEW"] \in Nat
  BY DEF TypeInv, ViewKind
<1>2. ~Changes({"ROOM_VIEW"})
  BY <1>1 DEF Changes, ViewKind
<1>3. version' # version /\ version' # [version EXCEPT !["ROOM_VIEW"] = @ + 1]
  BY DEF TypeInv, ViewKind
<1>4. ASSUME NEW e \in Conn, HandleMessage(e)
      PROVE  HandleStartGame(e) \/ HandleGameCommand(e)
  BY <1>2, <1>3, <1>4
  DEF HandleMessage, HandleCreateRoom, HandleJoinRoom, HandleEnterOtherRoom, HandleSetReady,
      HandleTransferHost, HandleLeaveRoom, HandleKickVote, RoomStill
<1>5. ASSUME NEW e \in Conn, GoroutineStep(e) \/ ReadFails(e) \/ Connect(e) \/ LoseLink(e)
      PROVE  FALSE
  BY <1>3, <1>5
  DEF GoroutineStep, Attach, Detach, DetachPlayer, Reply, LeaveRoom, TellElsewhere, Close,
      ReadRoomView, ReadGameViews, ListClients, ListKicked, StartWriting, Write, ReadFails, Connect, LoseLink,
      RoomStill
<1> QED BY <1>3, <1>4, <1>5 DEF ConnStep, vars, hubVars

\* Every step of a connection keeps GameTold.
LEMMA GameToldStep ==
  ASSUME TypeInv, Shaped, BearersInv, HonestInv, GameTold, [ConnStep]_vars, UNCHANGED callback
  PROVE  GameTold'
<1> SUFFICES ASSUME causes'["gaveUp"] = {}, version'["GAME_VIEW"] \notin causes'["untold"],
                    gameStarted', NEW c \in Conn, Player(c)' \in seats' \cap players'
             PROVE  \/ seen'[c]["GAME_VIEW"] = version'["GAME_VIEW"]
                    \/ \E d \in Conn : TellsGame(d, c)'
                    \/ \E t \in Timer : CallbackTells(t, c)'
  BY DEF GameTold
<1>1. causes["gaveUp"] = {} /\ causes["untold"] \subseteq causes'["untold"]
  BY CausesGrow, CausesAre
<1>2. CASE version'["GAME_VIEW"] # version["GAME_VIEW"]
  <2>1. PICK e \in Conn : HandleStartGame(e) \/ HandleGameCommand(e)
    BY <1>2, GameVersionMoves
  <2>2. Due(e, Do("gameViews"))'
    BY <2>1, StartGameEffect, GameCommandEffect DEF Due
  <2> QED BY <2>2 DEF TellsGame
<1>3. CASE version'["GAME_VIEW"] = version["GAME_VIEW"]
  <2>1. /\ seats' = seats /\ gameStarted /\ Player(c)' \in seats \cap players
        /\ NoOne \notin seats
    BY <1>3, VersionsGrow, RoomAssumption DEF TypeInv
  <2>2. Player(c)' = Player(c)
    BY <2>1, PlayersMove
  <2>3. Player(c) \in seats \cap players
    BY <2>1, <2>2
  <2>4. CASE seen[c]["GAME_VIEW"] = version["GAME_VIEW"]
    <3>1. ~Close(c)
      <4>1. Close(c) => Dues(c) = {Do("close")}
        BY CloseEffect
      <4>2. Player(c) # NoOne
        BY <2>1, <2>3
      <4> QED BY <4>1, <4>2, StepFields DEF BearersInv, GoingHaveGone, Due
    <3>2. ASSUME NEW e \in Conn, writing[e].message.kind \in ViewKind,
                 seen[c][writing[e].message.kind] < writing[e].message.version,
                 seen'[c] = [seen[c] EXCEPT ![writing[e].message.kind] = writing[e].message.version]
          PROVE  seen'[c]["GAME_VIEW"] = seen[c]["GAME_VIEW"]
      <4>1. CASE writing[e].message.kind = "GAME_VIEW"
        <5>1. /\ writing[e].message.version \in Nat /\ version["GAME_VIEW"] \in Nat
              /\ writing[e].message.version <= version["GAME_VIEW"]
          BY <3>2, <4>1, NumberedMessages DEF HonestInv, Honest, TypeInv
        <5> QED BY <2>4, <3>2, <4>1, <5>1
      <4>2. CASE writing[e].message.kind # "GAME_VIEW"
        BY <3>2, <4>2
      <4> QED BY <4>1, <4>2
    <3>3. seen'[c]["GAME_VIEW"] = seen[c]["GAME_VIEW"]
      BY <3>1, <3>2, SeenMoves
    <3> QED BY <1>3, <2>4, <3>3
  <2>5. ASSUME NEW d \in Conn, TellsGame(d, c)
        PROVE  \/ seen'[c]["GAME_VIEW"] = version'["GAME_VIEW"]
               \/ TellsGame(d, c)'
    <3>1. ASSUME NEW e \in Conn, GoroutineStep(e)
          PROVE  seen'[c]["GAME_VIEW"] = version'["GAME_VIEW"] \/ TellsGame(d, c)'
      <4>1. CASE d = e
        BY <1>3, <2>3, <2>5, <3>1, <4>1, TellerGoesOn
      <4>2. CASE d # e
        BY <1>3, <2>5, <3>1, <4>2, StepsApart, OthersTellOn
      <4> QED BY <4>1, <4>2
    <3>2. ASSUME NEW e \in Conn, HandleMessage(e) \/ ReadFails(e)
          PROVE  TellsGame(d, c)'
      <4>1. Apart(e) /\ Idle(e)
        BY <3>2, TakesNewDues, StepsApart, TakesWhenIdle DEF ReadFails, RoomStill
      <4>2. d # e
        BY <2>5, <4>1, IdleTellsNobody
      <4> QED BY <1>3, <2>5, <4>1, <4>2, OthersTellOn
    <3>3. CASE UNCHANGED <<todo, writing>>
      BY <1>3, <2>5, <3>3 DEF TellsGame, Due, Dues
    <3> QED BY <3>1, <3>2, <3>3 DEF ConnStep, Connect, LoseLink, vars, hubVars, RoomStill
  <2>6. ASSUME NEW t \in Timer, CallbackTells(t, c)
        PROVE  CallbackTells(t, c)'
    BY <1>3, <2>6 DEF CallbackTells
  <2> QED BY <1>1, <1>3, <2>1, <2>3, <2>4, <2>5, <2>6 DEF GameTold
<1> QED BY <1>2, <1>3

----------------------------------------------------------------------------
(* The room is told.                                                       *)

\* None of the connections that d has still to write to has left the room, so
\* that its writes fail only where somebody else will tell.
Sound(d) == \A f \in writing[d].left : Player(f) # NoOne

\* d stands for a player and will tell the room, or will find its link down,
\* leave, and tell it then.
Speaks(d) == Player(d) # NoOne /\ (Due(d, Do("roomView")) \/ link[d] = "down")

\* d will build a view of the room: it speaks, or nothing that may fail comes
\* before that.
WillTell(d) ==
  \/ Speaks(d)
  \/ /\ Due(d, Do("roomView"))
     /\ \/ Due(d, Do("close"))
        \/ \E p \in RoomPlayer : Due(d, DoFor("attach", p)) \/ Due(d, DoFor("reply", p))
        \/ Dues(d) \subseteq {Do("roomView")} /\ writing[d] = NoBroadcast
        \/ Dues(d) \subseteq {Notice, Do("roomView")} /\ Due(d, Notice)
        \/ /\ Dues(d) \subseteq {Do("roomView")}
           /\ writing[d].message.kind = "notice" /\ Sound(d)

\* d has still to send c the room as it is now.
TellsRoom(d, c) ==
  \/ WillTell(d)
  \/ \E s \in Dues(d) :
       s.message.kind = "ROOM_VIEW" /\ s.message.version = version["ROOM_VIEW"]
  \/ /\ writing[d].message.kind = "ROOM_VIEW"
     /\ writing[d].message.version = version["ROOM_VIEW"]
     /\ c \in writing[d].left /\ Sound(d)

\* Every connection attached has seen the room as it is now, or somebody has
\* still to send it, unless the news of a leave was lost or a connection went
\* elsewhere.
RoomTold ==
  players # {} /\ causes["leftUnseen"] = {} /\ causes["abandoned"] = {} =>
    \A c \in Conn :
      Player(c) # NoOne =>
        \/ seen[c]["ROOM_VIEW"] = version["ROOM_VIEW"]
        \/ \E d \in Conn : TellsRoom(d, c)

\* Whoever speaks goes on speaking; if the handler gives up,
\* unregisterConnection tells the room.
LEMMA SpeakerSpeaks ==
  ASSUME NEW d, NEW c, Speaks(d), Player(d)' = Player(d), link'[d] = link[d],
         (Due(d, Do("roomView")) => Due(d, Do("roomView"))') \/ Dues(d)' = UnregisterDues(d)
  PROVE  TellsRoom(d, c)'
<1>1. Dues(d)' = UnregisterDues(d) => Due(d, Do("roomView"))'
  BY DEF UnregisterDues, Due, Speaks
<1>2. Speaks(d)'
  BY <1>1 DEF Speaks
<1> QED BY <1>2 DEF TellsRoom, WillTell

\* unregisterConnection tells the room before it closes.
LEMMA ClosersTell ==
  ASSUME NEW d, NEW c, Due(d, Do("roomView"))', Due(d, Do("close"))'
  PROVE  TellsRoom(d, c)'
  BY DEF TellsRoom, WillTell

\* Where a write may fail, only one who stands for a player has to tell.
LEMMA OnlySpeakers ==
  ASSUME NEW d, NEW c, TellsRoom(d, c),
         writing[d] = NoBroadcast \/ writing[d].message.kind \notin {"ROOM_VIEW", "notice"},
         \A s \in Dues(d) : s.message.kind # "ROOM_VIEW",
         ~Due(d, Do("close")) \/ ~Due(d, Do("roomView")),
         \A p \in RoomPlayer : ~Due(d, DoFor("attach", p)) /\ ~Due(d, DoFor("reply", p)),
         \/ ~Due(d, Do("roomView"))
         \/ \E s \in Dues(d) : s # Do("roomView") /\ s # Notice
         \/ ~Due(d, Notice) /\ writing[d] # NoBroadcast
  PROVE  Speaks(d)
<1>1. writing[d].message.kind # "ROOM_VIEW" /\ writing[d].message.kind # "notice"
  BY MessageKinds
<1> QED BY <1>1 DEF TellsRoom, WillTell

\* An answer leaves the telling to do, unless the news of a leave is lost with
\* it.
LEMMA ReplyTells ==
  ASSUME TypeInv, Shaped, NEW d \in Conn, Reply(d), causes'["leftUnseen"] = {},
         NEW c, TellsRoom(d, c)
  PROVE  TellsRoom(d, c)'
<1>1. /\ At(d, "reply") /\ writing[d] = NoBroadcast /\ Player(d)' = Player(d) /\ link'[d] = link[d]
      /\ UNCHANGED drawn
  BY DEF Reply, At, Player, RoomStill
<1>2. ReplyDues(d)
  BY <1>1, AtReply
<1>3. CASE \E p \in drawn : Dues(d) = {DoFor("reply", p), Do("roomView")} /\ Current(d).player = p
  <2>1. PICK p \in drawn : Dues(d) = {DoFor("reply", p), Do("roomView")} /\ Current(d).player = p
    BY <1>3
  <2>2. p # NoOne
    BY RoomAssumption DEF TypeInv
  <2>3. ASSUME causes' = [causes EXCEPT !["gaveUp"] = @ \cup {d},
                                        !["leftUnseen"] = @ \cup ({Current(d).player} \ {NoOne})]
        PROVE  FALSE
    <3>1. p \in causes'["leftUnseen"]
      BY <2>1, <2>2, <2>3 DEF TypeInv, Cause
    <3> QED BY <3>1
  <2>4. Continue(d, Later(d)) /\ UNCHANGED writing
    BY <2>3 DEF Reply
  <2>5. Dues(d)' = {Do("roomView")}
    <3>1. DoFor("reply", p) \in Dues(d)
      BY <2>1
    <3> QED BY <1>1, <2>2, <2>4, <3>1, ReplyWorksEffect, StepFields
  <2>6. writing'[d] = NoBroadcast
    BY <1>1, <2>4
  <2> QED BY <2>5, <2>6 DEF TellsRoom, WillTell, Due
<1>4. CASE Dues(d) = {Do("reply"), Do("roomView")}
  <2>1. Speaks(d)
    BY <1>1, <1>4, OnlySpeakers, StepFields, MessageKinds, RoomAssumption DEF Due
  <2>2. CASE Continue(d, Later(d)) /\ UNCHANGED writing
    <3>1. Do("roomView") \in Dues(d)'
      BY <1>1, <1>4, <2>2, ReplyWorksEffect, StepFields
    <3> QED BY <1>1, <2>1, <3>1, SpeakerSpeaks DEF Due
  <2>3. CASE GiveUp(d)
    BY <1>1, <2>1, <2>3, ReplyFailsEffect, SpeakerSpeaks
  <2> QED BY <2>2, <2>3 DEF Reply
<1>5. CASE Dues(d) = {Do("reply"), Do("elsewhere")} \/ Dues(d) = {Do("reply"), Events, Do("gameViews")}
  <2>1. ~Due(d, Do("roomView"))
    BY <1>5, StepFields DEF Due
  <2>2. Speaks(d)
    BY <1>1, <1>5, <2>1, OnlySpeakers, StepFields, MessageKinds, RoomAssumption DEF Due
  <2> QED BY <1>1, <2>1, <2>2, SpeakerSpeaks
<1> QED BY <1>2, <1>3, <1>4, <1>5 DEF ReplyDues

\* Building a view of the room puts it in hand, and building the views of the
\* game leaves the telling to do.
LEMMA ReadingTells ==
  ASSUME TypeInv, Shaped, NEW d \in Conn, NEW c, TellsRoom(d, c), players # {},
         ReadRoomView(d) \/ ReadGameViews(d)
  PROVE  TellsRoom(d, c)'
<1>1. CASE ReadRoomView(d)
  <2>1. RoomViewOf(version["ROOM_VIEW"]) \in Dues(d)'
    BY <1>1, ReadRoomViewEffect
  <2>2. version' = version
    BY <1>1 DEF ReadRoomView, RoomStill
  <2> QED BY <2>1, <2>2, MessageKinds DEF TellsRoom
<1>2. CASE ReadGameViews(d)
  <2>1. /\ At(d, "gameViews") /\ writing[d] = NoBroadcast /\ Player(d)' = Player(d)
        /\ link'[d] = link[d] /\ UNCHANGED drawn
    BY <1>2 DEF ReadGameViews, At, Player, RoomStill
  <2>2. Dues(d) = {Do("gameViews")} \/ Dues(d) = {Do("gameViews"), Do("roomView")}
    BY <2>1, AtGameViews
  <2>3. Speaks(d)
    BY <2>1, <2>2, OnlySpeakers, StepFields, MessageKinds, RoomAssumption DEF Due
  <2>4. CASE GiveUp(d)
    BY <2>1, <2>3, <2>4, GameViewsFailEffect, SpeakerSpeaks
  <2>5. CASE ShowsGame(d)
    <3>1. Do("roomView") \in Dues(d) => Do("roomView") \in Dues(d)'
      BY <2>5, ReadGameViewsEffect, StepFields
    <3> QED BY <2>1, <2>3, <3>1, SpeakerSpeaks DEF Due
  <2> QED BY <1>2, <2>4, <2>5, GameViewsCases
<1> QED BY <1>1, <1>2

\* The start of a broadcast leaves the telling to do.
LEMMA ListingTells ==
  ASSUME TypeInv, Shaped, NEW d \in Conn, NEW c \in Conn, Player(c) # NoOne, TellsRoom(d, c),
         ListClients(d)
  PROVE  TellsRoom(d, c)'
<1> DEFINE m == Current(d).message
<1>1. /\ Sends(todo[d], m) /\ writing[d] = NoBroadcast
      /\ Dues(d) = Range(todo[d]) /\ Dues(d)' = Range(Tail(todo[d]))
  BY ListClientsEffect DEF Dues
<1>2. /\ Player(d)' = Player(d) /\ link'[d] = link[d] /\ version' = version /\ playerID' = playerID
  BY DEF ListClients, StartWriting, RoomStill, Player
<1>3. c \in attached /\ \A f \in attached : Player(f) # NoOne
  BY DEF TypeInv
<1>4. writing'[d] = [message |-> m, left |-> attached]
  <2>1. attached # {}
    BY <1>3
  <2> QED BY <2>1, ListClientsEffect, Zenon
<1>5. writing'[d].message = m /\ writing'[d].left = attached
  BY <1>4
<1>6. Sound(d)' /\ c \in writing'[d].left
  BY <1>2, <1>3, <1>5 DEF Sound, Player
<1>7. ASSUME Speaks(d), Do("roomView") \in Range(todo[d]) => Do("roomView") \in Range(Tail(todo[d]))
      PROVE  TellsRoom(d, c)'
  BY <1>1, <1>2, <1>7, SpeakerSpeaks DEF Due
<1> HIDE DEF m
<1>8. ASSUME NEW n \in Nat, m = RoomViewOf(n).message,
             \/ Range(todo[d]) = {RoomViewOf(n)} /\ Range(Tail(todo[d])) = {}
             \/ Range(todo[d]) = {RoomViewOf(n), Do("close")} /\ Range(Tail(todo[d])) = {Do("close")}
      PROVE  TellsRoom(d, c)'
  <2>1. ~Due(d, Do("roomView"))
    BY <1>1, <1>8, StepFields DEF Due
  <2>2. CASE n = version["ROOM_VIEW"]
    BY <1>2, <1>5, <1>6, <1>8, <2>2, MessageKinds DEF TellsRoom
  <2>3. CASE n # version["ROOM_VIEW"]
    <3>1. \A s \in Dues(d) : s.message.kind = "ROOM_VIEW" => s.message.version # version["ROOM_VIEW"]
      BY <1>1, <1>8, <2>3, MessageKinds
    <3>2. Speaks(d)
      BY <1>1, <2>1, <3>1, MessageKinds DEF TellsRoom, WillTell
    <3> QED BY <1>1, <1>7, <2>1, <3>2 DEF Due
  <2> QED BY <2>2, <2>3
<1>9. ASSUME NEW n \in Nat, NEW ps \in SUBSET RoomPlayer, m = GameViewsOf(n, ps).message,
             \/ Range(todo[d]) = {GameViewsOf(n, ps)} /\ Range(Tail(todo[d])) = {}
             \/ /\ Range(todo[d]) = {GameViewsOf(n, ps), Do("roomView")}
                /\ Range(Tail(todo[d])) = {Do("roomView")}
      PROVE  TellsRoom(d, c)'
  <2>1. Do("roomView") \in Range(todo[d]) => Do("roomView") \in Range(Tail(todo[d]))
    BY <1>9, StepFields
  <2>2. /\ GameViewsOf(n, ps) \in Dues(d)
        /\ GameViewsOf(n, ps) # Notice /\ GameViewsOf(n, ps) # Do("roomView")
        /\ \A s \in Dues(d) : s = GameViewsOf(n, ps) \/ s = Do("roomView")
    BY <1>1, <1>9, MessageKinds
  <2>3. Speaks(d)
    BY <1>1, <2>2, OnlySpeakers, StepFields, MessageKinds, RoomAssumption DEF Due
  <2> QED BY <1>7, <2>1, <2>3
<1>10. CASE m = Notice.message /\ Range(todo[d]) = {Notice, Do("roomView")}
            /\ Range(Tail(todo[d])) = {Do("roomView")}
  <2>1. Dues(d)' = {Do("roomView")} /\ writing'[d].message.kind = "notice"
    BY <1>1, <1>5, <1>10, MessageKinds
  <2> QED BY <1>6, <2>1 DEF TellsRoom, WillTell, Due
<1>11. CASE m = Notice.message /\ Range(todo[d]) = {Notice, Do("gameViews"), Do("roomView")}
            /\ Range(Tail(todo[d])) = {Do("gameViews"), Do("roomView")}
  <2>1. Speaks(d)
    BY <1>1, <1>11, OnlySpeakers, StepFields, MessageKinds, RoomAssumption DEF Due
  <2> QED BY <1>7, <1>11, <2>1
<1>12. CASE m = Events.message /\ Range(todo[d]) = {Events, Do("gameViews")}
            /\ Range(Tail(todo[d])) = {Do("gameViews")}
  <2>1. Do("roomView") \notin Range(todo[d])
    BY <1>12, StepFields
  <2>2. Speaks(d)
    BY <1>1, <1>12, <2>1, OnlySpeakers, StepFields, MessageKinds, RoomAssumption DEF Due
  <2> QED BY <1>7, <2>1, <2>2
<1> QED BY <1>1, <1>8, <1>9, <1>10, <1>11, <1>12 DEF Sends

\* So does the start of the goodbye.
LEMMA ListingKickedTells ==
  ASSUME TypeInv, Shaped, NEW d \in Conn, NEW c, TellsRoom(d, c), ListKicked(d)
  PROVE  TellsRoom(d, c)'
<1>1. /\ writing[d] = NoBroadcast /\ Player(d)' = Player(d) /\ link'[d] = link[d]
  BY DEF ListKicked, StartWriting, At, Player, RoomStill
<1>2. PICK p \in drawn :
        /\ Dues(d) = {DoFor("notify", p), DoFor("detachPlayer", p), Notice, Do("roomView")}
        /\ Dues(d)' = {DoFor("detachPlayer", p), Notice, Do("roomView")}
  BY ListKickedEffect
<1>3. /\ DoFor("notify", p) \in Dues(d) /\ DoFor("notify", p) # Notice
      /\ DoFor("notify", p) # Do("roomView")
  BY <1>2, StepFields
<1>4. ~Due(d, Do("close")) /\ \A q \in RoomPlayer : ~Due(d, DoFor("attach", q)) /\ ~Due(d, DoFor("reply", q))
  BY <1>2, StepFields DEF Due
<1>5. \A s \in Dues(d) : s.message.kind # "ROOM_VIEW"
  BY <1>2, MessageKinds
<1>6. Speaks(d)
  BY <1>1, <1>3, <1>4, <1>5, OnlySpeakers
<1>7. Due(d, Do("roomView"))'
  BY <1>2 DEF Due
<1> QED BY <1>1, <1>6, <1>7, SpeakerSpeaks

\* Whoever has to tell while sending anything else stands for a player.
LEMMA WritersSpeak ==
  ASSUME NEW d, NEW c, TellsRoom(d, c), WritingDues(d), writing[d] # NoBroadcast,
         writing[d].message.kind \notin {"ROOM_VIEW", "notice"}
  PROVE  Speaks(d)
<1>1. PICK p :
        \/ Dues(d) = {} \/ Dues(d) = {Do("roomView")} \/ Dues(d) = {Do("gameViews")}
        \/ Dues(d) = {DoFor("detachPlayer", p), Notice, Do("roomView")}
  BY MessageKinds DEF WritingDues
<1>2. /\ \A s \in Dues(d) : s.message.kind # "ROOM_VIEW"
      /\ ~Due(d, Do("close"))
      /\ \A q : ~Due(d, DoFor("attach", q)) /\ ~Due(d, DoFor("reply", q))
  BY <1>1, StepFields, MessageKinds DEF Due
<1>3. \/ ~Due(d, Notice)
      \/ \E s \in Dues(d) : s # Do("roomView") /\ s # Notice
  BY <1>1, StepFields DEF Due
<1> QED BY <1>2, <1>3, OnlySpeakers

\* A write leaves the telling to do, brings c the view, or fails at a link
\* whose owner will tell when it is noticed.
LEMMA WritingTells ==
  ASSUME TypeInv, Shaped, BearersInv, HonestInv, NEW d \in Conn, NEW c \in Conn, Player(c) # NoOne,
         TellsRoom(d, c), Write(d)
  PROVE  \/ seen'[c]["ROOM_VIEW"] = version'["ROOM_VIEW"]
         \/ \E e \in Conn : TellsRoom(e, c)'
<1>1. PICK f \in writing[d].left : WriteGoesOn(d, f) \/ WriteBreaksOff(d, f)
  BY WriteCases
<1>2. /\ WritingDues(d) /\ writing[d] # NoBroadcast
  BY AtWriting, MessageKinds
<1>3. /\ link' = link /\ playerID' = playerID /\ version' = version
      /\ Player(d)' = Player(d) /\ link'[d] = link[d]
  BY DEF Write, RoomStill, Player
<1>4. f \in Conn
  BY DEF TypeInv, Broadcast
<1>5. CASE WriteGoesOn(d, f)
  <2>1. /\ Dues(d)' = Dues(d)
        /\ \/ writing'[d] = NoBroadcast /\ writing[d].left = {f}
           \/ /\ writing'[d] = [message |-> writing[d].message, left |-> writing[d].left \ {f}]
              /\ writing[d].left \ {f} # {}
    BY <1>5, WriteGoesOnEffect
  <2>2. Speaks(d) => TellsRoom(d, c)'
    BY <1>3, <2>1, SpeakerSpeaks DEF Due
  <2>3. CASE writing[d].message.kind = "ROOM_VIEW"
    <3>1. Dues(d) \subseteq {Do("close")}
      BY <1>2, <2>3, MessageKinds DEF WritingDues
    <3>2. Speaks(d) \/ (writing[d].message.version = version["ROOM_VIEW"] /\ c \in writing[d].left /\ Sound(d))
      BY <2>3, <3>1, StepFields, MessageKinds DEF TellsRoom, WillTell, Due
    <3>3. CASE /\ writing[d].message.version = version["ROOM_VIEW"]
               /\ c \in writing[d].left /\ Sound(d)
      <4>1. CASE f = c
        <5>1. Send(writing[d].message, c)
          BY <1>5, <2>3, <4>1 DEF WriteGoesOn, Skip, NotFor
        <5>2. /\ DOMAIN seen = Conn /\ DOMAIN seen[c] = ViewKind
              /\ seen[c]["ROOM_VIEW"] \in Nat /\ version["ROOM_VIEW"] \in Nat
              /\ seen[c]["ROOM_VIEW"] <= version["ROOM_VIEW"]
          BY DEF TypeInv, HonestInv, ViewKind
        <5> QED BY <1>3, <2>3, <3>3, <5>1, <5>2 DEF Send, ViewKind
      <4>2. CASE f # c
        <5>1. writing'[d] = [message |-> writing[d].message, left |-> writing[d].left \ {f}]
          BY <2>1, <3>3, <4>2
        <5>2. writing'[d].message = writing[d].message /\ writing'[d].left = writing[d].left \ {f}
          BY <5>1
        <5>3. Sound(d)' /\ c \in writing'[d].left
          BY <1>3, <3>3, <4>2, <5>2 DEF Sound, Player
        <5> QED BY <1>3, <2>3, <3>3, <5>2, <5>3 DEF TellsRoom
      <4> QED BY <4>1, <4>2
    <3> QED BY <2>2, <3>2, <3>3
  <2>4. CASE writing[d].message.kind = "notice" /\ ~Speaks(d)
    <3>1. Dues(d) = {Do("roomView")} \/ Dues(d) = {Do("gameViews"), Do("roomView")}
      BY <1>2, <2>4, MessageKinds DEF WritingDues
    <3>2. Dues(d) = {Do("roomView")} /\ Sound(d)
      BY <1>2, <2>4, <3>1, StepFields, MessageKinds, RoomAssumption DEF TellsRoom, WillTell, Due
    <3>3. CASE writing'[d] = NoBroadcast
      BY <2>1, <3>2, <3>3 DEF TellsRoom, WillTell, Due
    <3>4. CASE writing'[d] = [message |-> writing[d].message, left |-> writing[d].left \ {f}]
      <4>1. writing'[d].message = writing[d].message /\ writing'[d].left = writing[d].left \ {f}
        BY <3>4
      <4>2. Sound(d)'
        BY <1>3, <3>2, <4>1 DEF Sound, Player
      <4> QED BY <2>1, <2>4, <3>2, <4>1, <4>2 DEF TellsRoom, WillTell, Due
    <3> QED BY <2>1, <3>3, <3>4
  <2>5. CASE writing[d].message.kind \notin {"ROOM_VIEW", "notice"}
    <3>1. Speaks(d)
      BY <1>2, <2>5, WritersSpeak
    <3> QED BY <2>2, <3>1
  <2> QED BY <2>2, <2>3, <2>4, <2>5
<1>6. CASE WriteBreaksOff(d, f)
  <2>1. CASE Player(f) # NoOne
    <3>1. link[f] = "down"
      BY <1>4, <1>6, <2>1 DEF WriteBreaksOff, WriteFails, BearersInv, ClosedAreIdle, TypeInv
    <3>2. Speaks(f)'
      BY <1>3, <2>1, <3>1 DEF Speaks, Player
    <3> QED BY <1>4, <3>2 DEF TellsRoom, WillTell
  <2>2. CASE Player(f) = NoOne
    <3>1. ~Sound(d)
      BY <2>2 DEF Sound
    <3>2. /\ writing[d].message.kind = "ROOM_VIEW" => Dues(d) \subseteq {Do("close")}
          /\ writing[d].message.kind = "notice" => ~Due(d, Notice) /\ ~Due(d, Do("close"))
      BY <1>2, StepFields, MessageKinds DEF WritingDues, Due
    <3>3. Speaks(d)
      <4>1. CASE writing[d].message.kind \notin {"ROOM_VIEW", "notice"}
        BY <1>2, <4>1, WritersSpeak
      <4>2. CASE writing[d].message.kind = "ROOM_VIEW"
        BY <3>1, <3>2, <4>2, StepFields, MessageKinds DEF TellsRoom, WillTell, Due
      <4>3. CASE writing[d].message.kind = "notice"
        <5>1. Dues(d) = {Do("roomView")} \/ Dues(d) = {Do("gameViews"), Do("roomView")}
          BY <1>2, <4>3, MessageKinds DEF WritingDues
        <5> QED
          BY <1>2, <3>1, <3>2, <4>3, <5>1, StepFields, MessageKinds, RoomAssumption
          DEF TellsRoom, WillTell, Due
      <4> QED BY <4>1, <4>2, <4>3
    <3>4. Dues(d)' = UnregisterDues(d) \/ (Dues(d) = {Do("close")} /\ Dues(d)' = {Do("close")})
      BY <1>6, WriteBreaksOffEffect
    <3>5. Dues(d) = {Do("close")} => ~Due(d, Do("roomView"))
      BY StepFields DEF Due
    <3>6. (Due(d, Do("roomView")) => Due(d, Do("roomView"))') \/ Dues(d)' = UnregisterDues(d)
      BY <3>4, <3>5
    <3> QED BY <1>3, <3>3, <3>6, SpeakerSpeaks
  <2> QED BY <2>1, <2>2
<1> QED BY <1>1, <1>5, <1>6

\* unregisterConnection leaves the telling to do.
LEMMA DepartingTells ==
  ASSUME TypeInv, Shaped, BearersInv, NEW d \in Conn, NEW c, TellsRoom(d, c),
         LeaveRoom(d) \/ Close(d)
  PROVE  TellsRoom(d, c)'
<1>1. CASE LeaveRoom(d)
  <2>1. Due(d, Do("roomView"))' /\ Due(d, Do("close"))'
    BY <1>1, LeaveRoomEffect DEF Due
  <2> QED BY <2>1, ClosersTell
<1>2. CASE Close(d)
  <2>1. Dues(d) = {Do("close")} /\ writing[d] = NoBroadcast
    BY <1>2, CloseEffect
  <2>2. Player(d) = NoOne
    BY <2>1, StepFields DEF BearersInv, GoingHaveGone, Due
  <2>3. ~Due(d, Do("roomView"))
    BY <2>1, StepFields DEF Due
  <2>4. FALSE
    BY <2>1, <2>2, <2>3, MessageKinds DEF TellsRoom, WillTell, Speaks
  <2> QED BY <2>4
<1> QED BY <1>1, <1>2

\* The steps of the others leave it to do.
LEMMA OthersTellRoomOn ==
  ASSUME TypeInv, NEW e \in Conn, Apart(e), NEW d \in Conn \ {e}, NEW c, TellsRoom(d, c),
         version'["ROOM_VIEW"] = version["ROOM_VIEW"],
         link[d] = "down" => link'[d] = "down",
         Player(d) # NoOne => Player(d)' # NoOne,
         \A f \in Conn : Player(f) # NoOne => Player(f)' # NoOne
  PROVE  TellsRoom(d, c)'
<1>1. Dues(d)' = Dues(d) /\ writing'[d] = writing[d]
  BY DEF Apart
<1>2. \A s : Due(d, s)' <=> Due(d, s)
  BY <1>1 DEF Due
<1>3. Speaks(d) => Speaks(d)'
  BY <1>2 DEF Speaks
<1>4. Sound(d) => Sound(d)'
  <2>1. writing[d].left \subseteq Conn
    BY DEF TypeInv, Broadcast
  <2> QED BY <1>1, <2>1 DEF Sound
<1>5. WillTell(d) => WillTell(d)'
  BY <1>1, <1>2, <1>3, <1>4 DEF WillTell
<1> QED BY <1>1, <1>4, <1>5 DEF TellsRoom

\* Whoever changes the room has to tell everybody.
LEMMA NewsIsTold ==
  ASSUME TypeInv, Shaped, [ConnStep]_vars, version'["ROOM_VIEW"] # version["ROOM_VIEW"], NEW c
  PROVE  \E e \in Conn : TellsRoom(e, c)'
<1>1. NoOne \notin players
  BY RoomAssumption DEF TypeInv
<1>2. ASSUME NEW e \in Conn, Due(e, Do("roomView"))', Player(e) \in players, playerID' = playerID
      PROVE  TellsRoom(e, c)'
  BY <1>1, <1>2 DEF TellsRoom, WillTell, Speaks, Player
<1>3. ASSUME NEW e \in Conn, HandleMessage(e)
      PROVE  TellsRoom(e, c)'
  <2>1. playerID' = playerID
    BY <1>3, MessageCases DEF EnterTake, PlainTake, LeaveTake, KickTake, TakeStep
  <2>2. ASSUME NEW p \in RoomPlayer, HandleCreateRoom(e, p) \/ HandleJoinRoom(e, p)
        PROVE  TellsRoom(e, c)'
    <3>1. Due(e, Do("roomView"))' /\ Due(e, DoFor("attach", p))'
      <4>1. p \in drawn'
        BY <2>2 DEF HandleCreateRoom, HandleJoinRoom
      <4> QED BY <2>2, <4>1, EnteringEffect DEF HandleCreateRoom, HandleJoinRoom, Due
    <3> QED BY <3>1 DEF TellsRoom, WillTell
  <2>3. CASE HandleEnterOtherRoom(e)
    BY <2>3 DEF HandleEnterOtherRoom, RoomStill
  <2>4. ASSUME NEW isReady \in BOOLEAN, HandleSetReady(e, isReady)
        PROVE  TellsRoom(e, c)'
    BY <1>2, <2>1, <2>4, SetReadyEffect DEF HandleSetReady, SetReady, Due
  <2>5. ASSUME NEW target \in RoomPlayer, HandleTransferHost(e, target)
        PROVE  TellsRoom(e, c)'
    BY <1>2, <2>1, <2>5, TransferHostEffect DEF HandleTransferHost, TransferHost, Due
  <2>6. CASE HandleStartGame(e)
    BY <1>2, <2>1, <2>6, StartGameEffect DEF HandleStartGame, StartGame, Due
  <2>7. CASE HandleLeaveRoom(e)
    <3>1. PICK p \in RoomPlayer : p = Player(e)
      BY <2>7, HandleLeaveEffect DEF TypeInv
    <3>2. Dues(e)' = {Do("detach"), DoFor("reply", p), Do("roomView")}
      BY <2>7, <3>1, HandleLeaveEffect
    <3>3. Due(e, DoFor("reply", p))' /\ Due(e, Do("roomView"))'
      BY <3>2 DEF Due
    <3> QED BY <3>3 DEF TellsRoom, WillTell
  <2>8. CASE HandleKickVote(e)
    <3>1. Due(e, Do("roomView"))' /\ Player(e) \in players
      BY <2>8, KickVoteEffect DEF Due
    <3> QED BY <1>2, <2>1, <3>1
  <2>9. CASE HandleGameCommand(e)
    <3>1. version["ROOM_VIEW"] \in Nat
      BY DEF TypeInv, ViewKind
    <3> QED BY <2>9, <3>1 DEF HandleGameCommand, Changes, ViewKind
  <2> QED BY <1>3, <2>2, <2>3, <2>4, <2>5, <2>6, <2>7, <2>8, <2>9 DEF HandleMessage
<1>4. ASSUME NEW e \in Conn, LeaveRoom(e)
      PROVE  TellsRoom(e, c)'
  BY <1>4, LeaveRoomEffect, ClosersTell DEF Due
<1>5. ASSUME NEW e \in Conn, GoroutineStep(e) \/ ReadFails(e) \/ Connect(e) \/ LoseLink(e), ~LeaveRoom(e)
      PROVE  FALSE
  BY <1>5
  DEF GoroutineStep, Attach, Detach, DetachPlayer, Reply, TellElsewhere, Close, ReadRoomView,
      ReadGameViews, ListClients, ListKicked, StartWriting, Write, ReadFails, Connect, LoseLink, RoomStill
<1> QED BY <1>3, <1>4, <1>5 DEF ConnStep, vars, hubVars

\* Nobody joins without a change of the room.
LEMMA MembersStay ==
  ASSUME TypeInv, [ConnStep]_vars, version'["ROOM_VIEW"] = version["ROOM_VIEW"]
  PROVE  players' \subseteq players
<1>1. ~Changes({"ROOM_VIEW"})
  BY DEF Changes, TypeInv, ViewKind
<1>2. ASSUME NEW c \in Conn, HandleMessage(c)
      PROVE  players' \subseteq players
  BY <1>1, <1>2
  DEF HandleMessage, HandleCreateRoom, HandleJoinRoom, HandleEnterOtherRoom, HandleSetReady,
      HandleTransferHost, HandleStartGame, HandleLeaveRoom, HandleKickVote, HandleGameCommand,
      StartGame, roomVars, RoomStill
<1> QED BY <1>2, RoomOfStep DEF ConnStep, vars, roomVars

\* The newest view stays seen while there is no newer one.
LEMMA SeenStaysCurrent ==
  ASSUME TypeInv, Shaped, BearersInv, HonestInv, [ConnStep]_vars, NEW k \in ViewKind, NEW c \in Conn,
         Player(c) # NoOne, seen[c][k] = version[k], version'[k] = version[k]
  PROVE  seen'[c][k] = version'[k]
<1>1. ~Close(c)
  <2>1. Close(c) => Dues(c) = {Do("close")}
    BY CloseEffect
  <2> QED BY <2>1, StepFields DEF BearersInv, GoingHaveGone, Due
<1>2. ASSUME NEW e \in Conn, writing[e].message.kind \in ViewKind,
             seen[c][writing[e].message.kind] < writing[e].message.version,
             seen'[c] = [seen[c] EXCEPT ![writing[e].message.kind] = writing[e].message.version]
      PROVE  seen'[c][k] = seen[c][k]
  <2>1. CASE writing[e].message.kind = k
    <3>1. /\ writing[e].message.version \in Nat /\ version[k] \in Nat
          /\ writing[e].message.version <= version[k]
      BY <1>2, <2>1, NumberedMessages DEF HonestInv, Honest, TypeInv
    <3> QED BY <1>2, <2>1, <3>1
  <2>2. CASE writing[e].message.kind # k
    BY <1>2, <2>2
  <2> QED BY <2>1, <2>2
<1> QED BY <1>1, <1>2, SeenMoves

\* Whoever attaches has to tell, his own connection too.
LEMMA AttachTells ==
  ASSUME TypeInv, Shaped, BearersInv, NEW e \in Conn, Attach(e), causes'["abandoned"] = {},
         NEW c \in Conn, Player(c)' # NoOne
  PROVE  /\ Player(c) = NoOne => TellsRoom(c, c)'
         /\ \A d \in Conn : TellsRoom(d, c) => TellsRoom(d, c)'
<1>1. PICK p \in drawn \cup {NoOne} :
        /\ Current(e).player = p
        /\ \/ /\ p # NoOne
              /\ Dues(e) = {DoFor("attach", p), Do("reply"), Do("roomView")}
              /\ Dues(e)' = {Do("reply"), Do("roomView")}
           \/ /\ p = NoOne
              /\ Dues(e) = {Do("attach"), Do("reply"), Do("elsewhere")}
              /\ Dues(e)' = {Do("reply"), Do("elsewhere")}
  BY AttachEffect
<1>2. /\ \A d \in Conn : Player(d)' = IF d = e THEN p ELSE Player(d)
      /\ link' = link /\ version' = version /\ writing[e] = NoBroadcast
      /\ Blame("abandoned", {Player(e)} \ {NoOne})
  BY <1>1 DEF Attach, Player, TypeInv, RoomStill, At
<1>3. Player(e) = NoOne
  BY <1>2 DEF Blame, TypeInv, Cause
<1>4. ASSUME p # NoOne PROVE TellsRoom(e, c)'
  <2>1. Due(e, Do("roomView"))' /\ Player(e)' # NoOne
    BY <1>1, <1>2, <1>4 DEF Due
  <2> QED BY <2>1 DEF TellsRoom, WillTell, Speaks
<1>5. ASSUME p = NoOne PROVE ~TellsRoom(e, c)
  <2>1. /\ ~Due(e, Do("roomView")) /\ \A s \in Dues(e) : s.message.kind = "none"
    BY <1>1, <1>5, StepFields, MessageKinds DEF Due
  <2> QED BY <1>2, <1>3, <2>1, MessageKinds DEF TellsRoom, WillTell, Speaks
<1>6. ASSUME NEW d \in Conn, d # e, TellsRoom(d, c) PROVE TellsRoom(d, c)'
  <2>1. \A f \in Conn : Player(f) # NoOne => Player(f)' # NoOne
    BY <1>2, <1>3
  <2> QED BY <1>2, <1>6, <2>1, AttachEffect, OthersTellRoomOn
<1>7. Player(c) = NoOne => c = e /\ p # NoOne
  BY <1>2
<1> QED BY <1>4, <1>5, <1>6, <1>7

\* Detaching leaves somebody to tell.
LEMMA DetachTells ==
  ASSUME TypeInv, Shaped, BearersInv, NEW e \in Conn, Detach(e), NEW c \in Conn, NEW d \in Conn,
         TellsRoom(d, c)
  PROVE  \E f \in Conn : TellsRoom(f, c)'
<1>1. /\ Apart(e)
      /\ \/ Dues(e) = {Do("detach"), Do("close")} /\ Dues(e)' = {Do("close")}
         \/ \E p \in drawn :
              \/ /\ Dues(e) = {Do("detach"), DoFor("reply", p), Do("roomView")}
                 /\ Dues(e)' = {DoFor("reply", p), Do("roomView")}
              \/ /\ Dues(e) = {Do("detach"), DoFor("leave", p), Do("roomView"), Do("close")}
                 /\ Dues(e)' = {DoFor("leave", p), Do("roomView"), Do("close")}
  BY DetachEffect
<1>2. CASE Dues(e) = {Do("detach"), Do("close")}
  <2>1. \A q : ~Due(e, DoFor("leave", q))
    BY <1>2, StepFields DEF Due
  <2>2. Player(e) = NoOne
    BY <1>2, <2>1 DEF BearersInv, GoingHaveGone, Due
  <2>3. /\ \A f \in Conn : Player(f)' = Player(f)
        /\ link' = link /\ version' = version /\ writing[e] = NoBroadcast
    BY <2>2 DEF Detach, Player, TypeInv, RoomStill, At
  <2>4. ~TellsRoom(e, c)
    <3>1. ~Due(e, Do("roomView")) /\ \A s \in Dues(e) : s.message.kind = "none"
      BY <1>2, StepFields, MessageKinds DEF Due
    <3> QED BY <2>2, <2>3, <3>1, MessageKinds DEF TellsRoom, WillTell, Speaks
  <2> QED BY <1>1, <2>3, <2>4, OthersTellRoomOn
<1>3. ASSUME NEW p \in drawn, Dues(e)' = {DoFor("reply", p), Do("roomView")}
      PROVE  TellsRoom(e, c)'
  <2>1. p \in RoomPlayer /\ Due(e, Do("roomView"))' /\ Due(e, DoFor("reply", p))'
    BY <1>3 DEF Due, TypeInv
  <2> QED BY <2>1 DEF TellsRoom, WillTell
<1>4. ASSUME NEW p \in drawn, Dues(e)' = {DoFor("leave", p), Do("roomView"), Do("close")}
      PROVE  TellsRoom(e, c)'
  BY <1>4, ClosersTell DEF Due
<1> QED BY <1>1, <1>2, <1>3, <1>4

\* Whoever detaches a kicked player has to tell.
LEMMA DetachPlayerTells ==
  ASSUME TypeInv, Shaped, NEW e \in Conn, DetachPlayer(e), NEW c
  PROVE  TellsRoom(e, c)'
<1>1. Due(e, Do("roomView"))' /\ Due(e, Notice)' /\ Dues(e)' \subseteq {Notice, Do("roomView")}
  BY DetachPlayerEffect DEF Due
<1> QED BY <1>1 DEF TellsRoom, WillTell

\* The view of another room leaves it to do; where it fails, c is closed, and
\* its own room told.
LEMMA TellElsewhereTells ==
  ASSUME TypeInv, Shaped, NEW d \in Conn, TellElsewhere(d), NEW c, TellsRoom(d, c)
  PROVE  TellsRoom(d, c)'
<1>1. At(d, "elsewhere") /\ Player(d)' = Player(d) /\ link'[d] = link[d] /\ UNCHANGED drawn
  BY DEF TellElsewhere, Player, RoomStill
<1>2. writing[d] = NoBroadcast /\ Dues(d) = {Do("elsewhere")}
  BY <1>1, AtElsewhere
<1>3. ~Due(d, Do("roomView"))
  BY <1>2, StepFields DEF Due
<1>4. Speaks(d)
  BY <1>2, <1>3, OnlySpeakers, StepFields, MessageKinds, RoomAssumption DEF Due
<1> QED BY <1>1, <1>3, <1>4, SpeakerSpeaks

\* Every step of a connection keeps RoomTold.
LEMMA RoomToldStep ==
  ASSUME TypeInv, Shaped, BearersInv, HonestInv, RoomTold, [ConnStep]_vars
  PROVE  RoomTold'
<1> SUFFICES ASSUME players' # {}, causes'["leftUnseen"] = {}, causes'["abandoned"] = {},
                    NEW c \in Conn, Player(c)' # NoOne
             PROVE  \/ seen'[c]["ROOM_VIEW"] = version'["ROOM_VIEW"]
                    \/ \E d \in Conn : TellsRoom(d, c)'
  BY DEF RoomTold
<1>1. causes["leftUnseen"] = {} /\ causes["abandoned"] = {}
  BY CausesGrow, CausesAre
<1>2. CASE version'["ROOM_VIEW"] # version["ROOM_VIEW"]
  BY <1>2, NewsIsTold
<1>3. CASE version'["ROOM_VIEW"] = version["ROOM_VIEW"]
  <2>1. players # {}
    BY <1>3, MembersStay
  <2>2. CASE Player(c) = NoOne
    <3>1. PICK e \in Conn : Attach(e)
      BY <2>2, PlayersMove
    <3> QED BY <2>2, <3>1, AttachTells
  <2>3. CASE Player(c) # NoOne /\ seen[c]["ROOM_VIEW"] = version["ROOM_VIEW"]
    <3>1. "ROOM_VIEW" \in ViewKind
      BY DEF ViewKind
    <3> QED BY <1>3, <2>3, <3>1, SeenStaysCurrent
  <2>4. ASSUME Player(c) # NoOne, NEW d \in Conn, TellsRoom(d, c)
        PROVE  \/ seen'[c]["ROOM_VIEW"] = version'["ROOM_VIEW"]
               \/ \E f \in Conn : TellsRoom(f, c)'
    <3>1. ASSUME NEW e \in Conn, Apart(e), d # e, playerID' = playerID,
                 link[d] = "down" => link'[d] = "down"
          PROVE  TellsRoom(d, c)'
      BY <1>3, <2>4, <3>1, OthersTellRoomOn DEF Player
    <3>2. ASSUME NEW e \in Conn, Attach(e) \/ Detach(e) \/ DetachPlayer(e)
          PROVE  \E f \in Conn : TellsRoom(f, c)'
      BY <2>4, <3>2, AttachTells, DetachTells, DetachPlayerTells
    <3>3. ASSUME NEW e \in Conn,
                 \/ Reply(e) \/ LeaveRoom(e) \/ TellElsewhere(e) \/ Close(e)
                 \/ ReadRoomView(e) \/ ReadGameViews(e) \/ ListClients(e) \/ ListKicked(e) \/ Write(e)
          PROVE  \/ seen'[c]["ROOM_VIEW"] = version'["ROOM_VIEW"]
                 \/ \E f \in Conn : TellsRoom(f, c)'
      <4>1. CASE d = e
        BY <2>1, <2>4, <3>3, <4>1, ReplyTells, DepartingTells, ReadingTells, ListingTells,
           ListingKickedTells, WritingTells, TellElsewhereTells
      <4>2. CASE d # e
        <5>1. Apart(e)
          BY <3>3, StepsApart DEF GoroutineStep
        <5>2. playerID' = playerID
          BY <3>3
          DEF Reply, LeaveRoom, TellElsewhere, Close, ReadRoomView, ReadGameViews, ListClients,
              ListKicked, StartWriting, Write, RoomStill
        <5>3. link'[d] = link[d]
          BY <3>3, <4>2
          DEF Reply, LeaveRoom, TellElsewhere, Close, ReadRoomView, ReadGameViews, ListClients,
              ListKicked, StartWriting, Write, TypeInv, RoomStill
        <5> QED BY <3>1, <4>2, <5>1, <5>2, <5>3
      <4> QED BY <4>1, <4>2
    <3>4. ASSUME NEW e \in Conn, HandleMessage(e) \/ ReadFails(e)
          PROVE  TellsRoom(d, c)'
      <4>1. Apart(e) /\ Idle(e)
        BY <3>4, TakesNewDues, StepsApart, TakesWhenIdle DEF ReadFails, RoomStill
      <4>2. playerID' = playerID /\ link' = link
        BY <3>4, MessageCases DEF ReadFails, EnterTake, PlainTake, LeaveTake, KickTake, TakeStep, RoomStill
      <4>3. CASE d = e
        <5>1. Player(d) # NoOne /\ link[d] = "down"
          BY <2>4, <4>1, <4>3, Lists, MessageKinds
          DEF Idle, TellsRoom, WillTell, Speaks, Due, Dues
        <5>2. Speaks(d)'
          BY <4>2, <5>1 DEF Speaks, Player
        <5> QED BY <5>2 DEF TellsRoom, WillTell
      <4>4. CASE d # e
        BY <3>1, <4>1, <4>2, <4>4
      <4> QED BY <4>3, <4>4
    <3>5. CASE UNCHANGED <<todo, writing, playerID>> /\ (link[d] = "down" => link'[d] = "down")
      <4>1. Dues(d)' = Dues(d) /\ writing'[d] = writing[d] /\ \A f : Player(f)' = Player(f)
        BY <3>5 DEF Dues, Player
      <4> QED
        BY <1>3, <2>4, <3>5, <4>1 DEF TellsRoom, WillTell, Speaks, Sound, Due
    <3>6. ASSUME NEW e \in Conn, Connect(e) \/ LoseLink(e)
          PROVE  UNCHANGED <<todo, writing, playerID>> /\ (link[d] = "down" => link'[d] = "down")
      BY <3>6 DEF Connect, LoseLink, TypeInv, RoomStill
    <3> QED
      BY <2>4, <3>2, <3>3, <3>4, <3>5, <3>6 DEF ConnStep, GoroutineStep, vars, hubVars
  <2> QED BY <1>1, <2>1, <2>2, <2>3, <2>4 DEF RoomTold
<1> QED BY <1>2, <1>3

----------------------------------------------------------------------------
(* The callbacks of the timers.                                            *)

\* A callback works for a change that has been made, and the views it has in
\* hand are honest and show that change.
CallbackInv ==
  /\ window \in BOOLEAN
  /\ callback \in [Timer -> Callback]
  /\ \A t \in Timer :
       /\ callback[t].change <= version["GAME_VIEW"]
       /\ Honest(callback[t].message)
       /\ callback[t].at \in {"views", "writing"} =>
            /\ callback[t].message.kind = "GAME_VIEW"
            /\ callback[t].change <= callback[t].message.version

\* A step of a connection leaves that alone.
LEMMA CallbackStands ==
  ASSUME TypeInv, CallbackInv, [ConnStep]_vars, UNCHANGED callback
  PROVE  CallbackInv'
<1>1. window' \in BOOLEAN
  <2>1. ASSUME NEW c \in Conn, HandleMessage(c) PROVE window' \in BOOLEAN
    BY <2>1
    DEF CallbackInv, HandleMessage, HandleCreateRoom, HandleJoinRoom, HandleEnterOtherRoom,
        HandleSetReady, HandleTransferHost, HandleStartGame, HandleLeaveRoom, HandleKickVote,
        HandleGameCommand, RoomStill
  <2>2. ASSUME NEW c \in Conn, GoroutineStep(c) \/ ReadFails(c) \/ Connect(c) \/ LoseLink(c)
        PROVE  window' = window
    BY <2>2
    DEF GoroutineStep, Attach, Detach, DetachPlayer, Reply, LeaveRoom, TellElsewhere, Close,
        ReadRoomView, ReadGameViews, ListClients, ListKicked, StartWriting, Write, ReadFails,
        Connect, LoseLink, RoomStill
  <2> QED BY <2>1, <2>2 DEF ConnStep, CallbackInv, vars, hubVars
<1>2. ASSUME NEW t \in Timer
      PROVE  /\ callback[t].change <= version'["GAME_VIEW"]
             /\ Honest(callback[t].message)'
  <2>1. callback[t].change \in Nat /\ callback[t].message.version \in Nat
    BY DEF CallbackInv, Callback, Message
  <2>2. /\ version["GAME_VIEW"] \in Nat /\ version'["GAME_VIEW"] \in Nat
        /\ version["GAME_VIEW"] <= version'["GAME_VIEW"]
    BY VersionsGrow DEF ViewKind
  <2>3. ASSUME NEW m, m = callback[t].message PROVE Honest(m)'
    <3>1. m.version \in Nat /\ Honest(m)
      BY <2>1, <2>3 DEF CallbackInv
    <3> QED BY <3>1, HonestStays
  <2>4. Honest(callback[t].message)'
    BY <2>3 DEF Honest
  <2> QED BY <2>1, <2>2, <2>4 DEF CallbackInv
<1> QED BY <1>1, <1>2 DEF CallbackInv

\* A callback leaves the registry and the goroutines alone, may count as a
\* change of the game, and blames nobody but itself.
LEMMA TimerFrame ==
  ASSUME TypeInv, NEW t, ExpireCancelWindow(t) \/ CallbackStep(t)
  PROVE  /\ UNCHANGED <<roomVars, seats, drawn, link, attached, playerID, todo, writing, notified>>
         /\ version' \in [ViewKind -> Nat] /\ version'["ROOM_VIEW"] = version["ROOM_VIEW"]
         /\ version["GAME_VIEW"] <= version'["GAME_VIEW"]
         /\ DOMAIN causes' = Cause /\ causes["untold"] \subseteq causes'["untold"]
         /\ \A k \in Cause \ {"untold"} : causes'[k] = causes[k]
         /\ CallbackStep(t) => UNCHANGED <<version, window>>
         /\ ~CallbackWrites(t) => UNCHANGED seen
<1>1. /\ OthersStill /\ (~CallbackWrites(t) => UNCHANGED seen)
      /\ CallbackStep(t) => UNCHANGED <<version, window>>
      /\ version' = version \/ Changes({"GAME_VIEW"})
      /\ causes' = causes \/ \E S : Blame("untold", S)
  BY DEF ExpireCancelWindow, CallbackStep, CallbackReadsViews, CallbackListsClients,
         CallbackWrites, CallbackFails
<1>2. /\ version' \in [ViewKind -> Nat] /\ version'["ROOM_VIEW"] = version["ROOM_VIEW"]
      /\ version["GAME_VIEW"] <= version'["GAME_VIEW"]
  BY <1>1 DEF TypeInv, Changes, ViewKind
<1>3. /\ DOMAIN causes' = Cause /\ causes["untold"] \subseteq causes'["untold"]
      /\ \A k \in Cause \ {"untold"} : causes'[k] = causes[k]
  BY <1>1 DEF TypeInv, Blame, Cause
<1> QED BY <1>1, <1>2, <1>3 DEF OthersStill

\* A callback sends a view of the game, and nothing else.
LEMMA TimerSeen ==
  ASSUME TypeInv, CallbackInv, NEW t \in Timer, ExpireCancelWindow(t) \/ CallbackStep(t),
         NEW c \in Conn
  PROVE  /\ seen'[c] \in [ViewKind -> Nat] /\ seen'[c]["GAME_VIEW"] \in Nat
         /\ seen'[c]["ROOM_VIEW"] = seen[c]["ROOM_VIEW"]
         /\ \/ seen'[c]["GAME_VIEW"] = seen[c]["GAME_VIEW"]
            \/ /\ seen[c]["GAME_VIEW"] < seen'[c]["GAME_VIEW"]
               /\ seen'[c]["GAME_VIEW"] <= version["GAME_VIEW"]
<1> DEFINE there == seen[c]
<1>3. there \in [ViewKind -> Nat] /\ there["GAME_VIEW"] \in Nat /\ DOMAIN seen = Conn
  BY DEF TypeInv, ViewKind
<1>4. CASE seen'[c] = there
  BY <1>3, <1>4
<1>1. CASE ~CallbackWrites(t)
  BY <1>1, <1>4, TimerFrame
<1>2. CASE CallbackWrites(t)
  <2> DEFINE n == callback[t].message.version
  <2>1. /\ callback[t].message.kind = "GAME_VIEW" /\ n \in Nat /\ Honest(callback[t].message)
    BY <1>2 DEF CallbackWrites, CallbackInv, Callback, Message
  <2>2. n <= version["GAME_VIEW"]
    BY <2>1 DEF Honest, ViewKind
  <2>3. PICK d \in callback[t].left : Skip(callback[t].message, d) \/ Send(callback[t].message, d)
    BY <1>2 DEF CallbackWrites
  <2>4. \/ seen' = seen
        \/ seen[d]["GAME_VIEW"] < n /\ seen' = [seen EXCEPT ![d]["GAME_VIEW"] = n]
    BY <2>1, <2>3 DEF Skip, Send
  <2>5. CASE c = d /\ seen[d]["GAME_VIEW"] < n /\ seen' = [seen EXCEPT ![d]["GAME_VIEW"] = n]
    <3> HIDE DEF n
    <3>1. seen'[c] = [there EXCEPT !["GAME_VIEW"] = n] /\ there["GAME_VIEW"] < n
      BY <1>3, <2>5
    <3> HIDE DEF there
    <3> QED BY <1>3, <2>1, <2>2, <3>1 DEF ViewKind, there
  <2>6. CASE seen' = seen \/ c # d
    BY <1>3, <1>4, <2>4, <2>6
  <2> QED BY <2>4, <2>5, <2>6
<1> QED BY <1>1, <1>2

\* A callback keeps the types and the shapes.
LEMMA TimerTyped ==
  ASSUME TypeInv, Shaped, CallbackInv, NEW t \in Timer, ExpireCancelWindow(t) \/ CallbackStep(t)
  PROVE  TypeInv' /\ Shaped'
<1>1. Shaped'
  BY TimerFrame, ShapedStands
<1>2. seen' \in [Conn -> [ViewKind -> Nat]]
  <2>1. DOMAIN seen = Conn
    BY DEF TypeInv
  <2>2. DOMAIN seen' = Conn /\ seen' = [c \in Conn |-> seen'[c]]
    BY <2>1, TimerFrame DEF CallbackWrites, Skip, Send, TypeInv
  <2> QED BY <2>2, TimerSeen
<1> QED BY <1>1, <1>2, TimerFrame DEF TypeInv, roomVars, Player

\* It leaves alone who stands for whom, and does nothing to a healthy room.
LEMMA TimerHealth ==
  ASSUME TypeInv, BearersInv, Accounted, MembersBorne, HealthInv,
         NEW t \in Timer, ExpireCancelWindow(t) \/ CallbackStep(t)
  PROVE  BearersInv' /\ Accounted' /\ MembersBorne' /\ HealthInv'
<1>1. /\ UNCHANGED <<roomVars, seats, drawn, link, attached, playerID, todo, writing>>
      /\ causes'["lost"] = causes["lost"] /\ causes'["gaveUp"] = causes["gaveUp"]
      /\ causes'["unseated"] = causes["unseated"] /\ causes'["abandoned"] = causes["abandoned"]
      /\ causes'["kickedEarly"] = causes["kickedEarly"]
  BY TimerFrame, CausesAre
<1>2. UNCHANGED <<players, ready, gameStarted>>
  BY <1>1 DEF roomVars
<1>3. BearersInv'
  BY <1>1, <1>2 DEF BearersInv, OneBearer, ComingAreNew, GoingHaveGone, KickedHaveGone, ClosedAreIdle,
      Bears, Due, Dues, Player, Idle
<1>4. Accounted' /\ MembersBorne'
  BY <1>1, <1>2 DEF Accounted, MembersBorne, Bears, Due, Dues, Player
<1>5. HealthInv'
  BY <1>1, <1>2
  DEF HealthInv, GameInv, LinksInv, GaveUpInv, HealthyRoomKeepsItsPlayers, Due, Dues
<1> QED BY <1>3, <1>4, <1>5

\* The views in hand stay honest.
LEMMA TimerHonestStays ==
  ASSUME TypeInv, NEW t \in Timer, ExpireCancelWindow(t) \/ CallbackStep(t),
         NEW m, m.kind \in ViewKind => m.version \in Nat, Honest(m)
  PROVE  Honest(m)'
<1>1. /\ UNCHANGED <<players, seats>> /\ version'["ROOM_VIEW"] = version["ROOM_VIEW"]
      /\ version["GAME_VIEW"] <= version'["GAME_VIEW"]
      /\ version["GAME_VIEW"] \in Nat /\ version["ROOM_VIEW"] \in Nat
      /\ version'["GAME_VIEW"] \in Nat
  BY TimerFrame DEF roomVars, TypeInv, ViewKind
<1> QED BY <1>1 DEF Honest, ViewKind

\* A callback keeps HonestInv,
LEMMA TimerHonest ==
  ASSUME TypeInv, Shaped, HonestInv, CallbackInv,
         NEW t \in Timer, ExpireCancelWindow(t) \/ CallbackStep(t)
  PROVE  HonestInv'
<1>1. ASSUME NEW c \in Conn, NEW k \in ViewKind PROVE seen'[c][k] <= version'[k]
  <2>1. /\ seen[c][k] \in Nat /\ seen[c][k] <= version[k] /\ DOMAIN seen[c] = ViewKind
        /\ version[k] \in Nat /\ version'[k] \in Nat /\ version[k] <= version'[k]
    BY TimerFrame DEF HonestInv, TypeInv, ViewKind
  <2>2. k = "GAME_VIEW" \/ k = "ROOM_VIEW"
    BY DEF ViewKind
  <2>3. CASE seen'[c][k] = seen[c][k]
    BY <2>1, <2>3
  <2>4. CASE k = "GAME_VIEW" /\ seen'[c][k] \in Nat /\ seen'[c][k] <= version[k]
    BY <2>1, <2>4
  <2> QED BY <2>2, <2>3, <2>4, TimerSeen
<1>2. ASSUME NEW c \in Conn
      PROVE  Honest(writing[c].message)' /\ \A s \in Dues(c)' : Honest(s.message)'
  <2>1. Dues(c)' = Dues(c) /\ writing' = writing
    BY TimerFrame DEF Dues
  <2>2. ASSUME NEW m, m = writing[c].message \/ \E s \in Dues(c) : m = s.message PROVE Honest(m)'
    <3>1. Honest(m) /\ (m.kind \in ViewKind => m.version \in Nat)
      BY <2>2, NumberedMessages DEF HonestInv
    <3> QED BY <3>1, TimerHonestStays
  <2> QED BY <2>1, <2>2 DEF Honest
<1> QED BY <1>1, <1>2 DEF HonestInv

\* and CallbackInv.
LEMMA TimerCallbackInv ==
  ASSUME TypeInv, CallbackInv, NEW t \in Timer, ExpireCancelWindow(t) \/ CallbackStep(t)
  PROVE  CallbackInv'
<1>1. /\ UNCHANGED <<players, seats>> /\ version["GAME_VIEW"] <= version'["GAME_VIEW"]
      /\ version["GAME_VIEW"] \in Nat /\ version'["GAME_VIEW"] \in Nat
  BY TimerFrame DEF roomVars, TypeInv, ViewKind
<1>2. window' \in BOOLEAN
  BY TimerFrame DEF ExpireCancelWindow, CallbackInv
<1> DEFINE HonestThen(m) ==
      m.kind \in ViewKind =>
        /\ m.version <= version'[m.kind]
        /\ m.kind = "GAME_VIEW" /\ m.version = version'["GAME_VIEW"] => seats \cap players \subseteq m.to
<1> DEFINE Sane(x) ==
      /\ x \in Callback
      /\ x.change <= version'["GAME_VIEW"]
      /\ HonestThen(x.message)
      /\ x.at \in {"views", "writing"} =>
           x.message.kind = "GAME_VIEW" /\ x.change <= x.message.version
<1>3. ASSUME NEW u \in Timer PROVE Sane(callback[u])
  <2>1. /\ callback[u] \in Callback /\ callback[u].change \in Nat
        /\ callback[u].message.version \in Nat /\ Honest(callback[u].message)
    BY DEF CallbackInv, Callback, Message
  <2>2. ASSUME NEW m, m = callback[u].message PROVE HonestThen(m)
    <3>1. Honest(m)'
      BY <2>1, <2>2, TimerHonestStays
    <3> QED BY <1>1, <3>1 DEF Honest
  <2>3. HonestThen(callback[u].message)
    BY <2>2
  <2>4. callback[u].change <= version'["GAME_VIEW"]
    BY <1>1, <2>1 DEF CallbackInv
  <2> HIDE DEF HonestThen
  <2> QED BY <2>1, <2>3, <2>4 DEF CallbackInv
<1>4. Sane(NoCallback)
  BY <1>1 DEF NoCallback, Callback, NoMessage, Message, ViewKind
<1>5. callback'[t] \in {callback[t], NoCallback} \/ Sane(callback'[t])
  <2>1. CASE ExpireCancelWindow(t)
    <3>1. CASE callback' = callback
      BY <3>1
    <3>2. CASE CallbackGoesOn(t, [NoCallback EXCEPT !.at = "events", !.change = version["GAME_VIEW"] + 1])
      <4>1. callback'[t] = [NoCallback EXCEPT !.at = "events", !.change = version["GAME_VIEW"] + 1]
        BY <3>2 DEF CallbackGoesOn, CallbackInv
      <4>2. version'["GAME_VIEW"] = version["GAME_VIEW"] + 1
        BY <2>1 DEF ExpireCancelWindow, Changes, ViewKind
      <4>3. callback'[t] = [at |-> "events", change |-> version["GAME_VIEW"] + 1,
                            message |-> NoMessage, left |-> {}]
        BY <4>1 DEF NoCallback
      <4>4. /\ callback'[t] \in Callback /\ callback'[t].change = version["GAME_VIEW"] + 1
            /\ callback'[t].at = "events" /\ callback'[t].message = NoMessage
        <5>1. NoMessage \in Message /\ version["GAME_VIEW"] + 1 \in Nat
          BY <1>1 DEF NoMessage, Message
        <5> QED BY <4>3, <5>1 DEF Callback
      <4>5. HonestThen(NoMessage)
        BY DEF NoMessage, ViewKind
      <4> HIDE DEF HonestThen
      <4> QED BY <1>1, <4>2, <4>4, <4>5
    <3> QED BY <2>1, <3>1, <3>2 DEF ExpireCancelWindow
  <2>2. CASE CallbackReadsViews(t)
    <3>1. callback'[t] = [callback[t] EXCEPT !.at = "views", !.message = GameViews]
      BY <2>2 DEF CallbackReadsViews, CallbackGoesOn, CallbackInv
    <3>2. version' = version
      BY <2>2 DEF CallbackReadsViews
    <3>3. players \subseteq RoomPlayer /\ callback[t] \in Callback
          /\ callback[t].change <= version["GAME_VIEW"]
      BY DEF TypeInv, CallbackInv
    <3>4. /\ GameViews \in Message /\ GameViews.kind = "GAME_VIEW"
          /\ GameViews.version = version["GAME_VIEW"] /\ GameViews.to = players
      BY <1>1, <3>3 DEF GameViews, Message, ViewKind
    <3>5. /\ callback'[t] \in Callback /\ callback'[t].message = GameViews
          /\ callback'[t].change = callback[t].change
      BY <3>1, <3>3, <3>4 DEF Callback
    <3>6. HonestThen(GameViews)
      BY <1>1, <3>2, <3>4
    <3> HIDE DEF HonestThen
    <3>7. callback'[t].at = "views"
      BY <3>1, <3>3 DEF Callback
    <3> QED BY <3>2, <3>3, <3>4, <3>5, <3>6
  <2>3. ASSUME NEW clients \in SUBSET Conn, CallbackIsLeftWith(t, clients),
               callback[t].at \in {"views", "writing"}
        PROVE  callback'[t] = NoCallback \/ Sane(callback'[t])
    <3>1. CASE callback'[t] = [callback[t] EXCEPT !.at = "writing", !.left = clients]
      <4>1. callback[t] \in Callback /\ Sane(callback[t])
        BY <1>3 DEF CallbackInv
      <4>2. /\ callback'[t] \in Callback /\ callback'[t].at = "writing"
            /\ callback'[t].message = callback[t].message
            /\ callback'[t].change = callback[t].change
        BY <3>1, <4>1 DEF Callback
      <4> HIDE DEF HonestThen
      <4> QED BY <2>3, <4>1, <4>2
    <3> QED BY <2>3, <3>1 DEF CallbackIsLeftWith, CallbackGoesOn, CallbackInv
  <2>4. CASE CallbackListsClients(t)
    <3>1. attached \in SUBSET Conn
      BY DEF TypeInv
    <3> QED BY <2>3, <2>4, <3>1 DEF CallbackListsClients
  <2>5. CASE CallbackWrites(t)
    <3>1. \A d : callback[t].left \ {d} \in SUBSET Conn
      BY DEF CallbackInv, Callback
    <3> QED BY <2>3, <2>5, <3>1 DEF CallbackWrites
  <2>6. CASE CallbackFails(t)
    BY <2>6 DEF CallbackFails, CallbackGoesOn, CallbackInv
  <2> QED BY <2>1, <2>2, <2>4, <2>5, <2>6 DEF CallbackStep
<1>6. /\ DOMAIN callback' = Timer
      /\ \A u \in Timer \ {t} : callback'[u] = callback[u]
      /\ \E f : callback' = [callback EXCEPT ![t] = f]
  <2>1. callback' = callback \/ \E f : callback' = [callback EXCEPT ![t] = f]
    BY DEF ExpireCancelWindow, CallbackStep, CallbackReadsViews, CallbackListsClients,
           CallbackIsLeftWith, CallbackWrites, CallbackFails, CallbackGoesOn
  <2>2. callback = [callback EXCEPT ![t] = callback[t]]
    BY DEF CallbackInv
  <2> QED BY <2>1, <2>2 DEF CallbackInv
<1>7. \A u \in Timer : Sane(callback'[u])
  <2> HIDE DEF Sane
  <2> QED BY <1>3, <1>4, <1>5, <1>6
<1>8. callback' \in [Timer -> Callback]
  BY <1>6, <1>7 DEF CallbackInv
<1>9. ASSUME NEW u \in Timer PROVE Honest(callback[u].message)'
  BY <1>1, <1>7 DEF Honest
<1> HIDE DEF HonestThen
<1> QED BY <1>2, <1>7, <1>8, <1>9 DEF CallbackInv

\* A callback keeps GameTold: it tells of its change, or is on record.
LEMMA TimerGameTold ==
  ASSUME TypeInv, HonestInv, GameTold, CallbackInv,
         NEW t \in Timer, ExpireCancelWindow(t) \/ CallbackStep(t)
  PROVE  GameTold'
<1> SUFFICES ASSUME causes'["gaveUp"] = {}, version'["GAME_VIEW"] \notin causes'["untold"],
                    gameStarted', NEW c \in Conn, Player(c)' \in seats' \cap players'
             PROVE  \/ seen'[c]["GAME_VIEW"] = version'["GAME_VIEW"]
                    \/ \E d \in Conn : TellsGame(d, c)'
                    \/ \E u \in Timer : CallbackTells(u, c)'
  BY DEF GameTold
<1>1. /\ UNCHANGED <<gameStarted, players, seats, playerID, todo, writing>>
      /\ causes["gaveUp"] = {} /\ causes["untold"] \subseteq causes'["untold"]
      /\ Player(c) = Player(c)'
  BY TimerFrame, CausesAre DEF roomVars, Player
<1>2. CASE ExpireCancelWindow(t)
  <2>1. version'["GAME_VIEW"] = version["GAME_VIEW"] + 1
    BY <1>2 DEF ExpireCancelWindow, Changes, ViewKind
  <2>2. ~Blame("untold", {version["GAME_VIEW"] + 1})
    BY <2>1 DEF Blame, TypeInv, Cause
  <2>3. callback'[t] = [NoCallback EXCEPT !.at = "events", !.change = version["GAME_VIEW"] + 1]
    BY <1>2, <2>2 DEF ExpireCancelWindow, CallbackGoesOn, CallbackInv
  <2>4. callback'[t].at = "events" /\ callback'[t].change = version["GAME_VIEW"] + 1
    BY <2>3 DEF NoCallback
  <2> QED BY <2>1, <2>4 DEF CallbackTells
<1>3. CASE CallbackStep(t)
  <2>1. version' = version
    BY <1>3, TimerFrame
  <2>2. CASE seen[c]["GAME_VIEW"] = version["GAME_VIEW"]
    <3>1. seen'[c]["GAME_VIEW"] = seen[c]["GAME_VIEW"]
      <4>1. version["GAME_VIEW"] \in Nat
        BY DEF TypeInv, ViewKind
      <4> QED BY <2>2, <4>1, TimerSeen
    <3> QED BY <2>1, <2>2, <3>1
  <2>3. ASSUME NEW d \in Conn, TellsGame(d, c) PROVE TellsGame(d, c)'
    BY <1>1, <2>1, <2>3 DEF TellsGame, Due, Dues
  <2>4. ASSUME NEW u \in Timer, u # t, CallbackTells(u, c) PROVE CallbackTells(u, c)'
    <3>1. callback'[u] = callback[u]
      BY <1>3, <2>4
      DEF CallbackStep, CallbackReadsViews, CallbackListsClients, CallbackIsLeftWith,
          CallbackWrites, CallbackFails, CallbackGoesOn, CallbackInv
    <3> QED BY <2>1, <2>4, <3>1 DEF CallbackTells
  <2>5. ASSUME CallbackTells(t, c)
        PROVE  seen'[c]["GAME_VIEW"] = version'["GAME_VIEW"] \/ CallbackTells(t, c)'
    <3>1. /\ callback[t].change = version["GAME_VIEW"] /\ DOMAIN callback = Timer
          /\ version["GAME_VIEW"] \in Nat /\ callback[t] \in Callback
      BY <2>5 DEF CallbackTells, CallbackInv, TypeInv, ViewKind
    <3>2. CASE CallbackReadsViews(t)
      <4>1. callback'[t] = [callback[t] EXCEPT !.at = "views", !.message = GameViews]
        BY <3>1, <3>2 DEF CallbackReadsViews, CallbackGoesOn
      <4>2. callback'[t].at = "views" /\ callback'[t].change = callback[t].change
        BY <3>1, <4>1 DEF Callback
      <4> QED BY <2>1, <3>1, <4>2 DEF CallbackTells
    <3>3. ASSUME NEW clients, c \in clients, CallbackIsLeftWith(t, clients)
          PROVE  CallbackTells(t, c)'
      <4>1. callback'[t] = [callback[t] EXCEPT !.at = "writing", !.left = clients]
        BY <3>1, <3>3 DEF CallbackIsLeftWith, CallbackGoesOn
      <4>2. /\ callback'[t].at = "writing" /\ callback'[t].change = callback[t].change
            /\ callback'[t].left = clients
        BY <3>1, <4>1 DEF Callback
      <4> QED BY <2>1, <3>1, <3>3, <4>2 DEF CallbackTells
    <3>4. CASE CallbackListsClients(t)
      <4>1. c \in attached
        BY <1>1, RoomAssumption DEF TypeInv
      <4> QED BY <3>3, <3>4, <4>1 DEF CallbackListsClients
    <3>5. CASE CallbackWrites(t)
      <4>1. PICK d \in callback[t].left :
              /\ Skip(callback[t].message, d) \/ Send(callback[t].message, d)
              /\ CallbackIsLeftWith(t, callback[t].left \ {d})
        BY <3>5 DEF CallbackWrites
      <4>2. c \in callback[t].left
        BY <2>5, <3>5 DEF CallbackTells, CallbackWrites
      <4>3. CASE d # c
        BY <3>3, <4>1, <4>2, <4>3
      <4>4. CASE d = c
        <5>1. /\ callback[t].message.kind = "GAME_VIEW" /\ Honest(callback[t].message)
              /\ callback[t].message.version \in Nat
              /\ callback[t].change <= callback[t].message.version
          BY <3>5 DEF CallbackWrites, CallbackInv, Callback, Message
        <5>2. callback[t].message.version = version["GAME_VIEW"]
          BY <3>1, <5>1 DEF Honest, ViewKind
        <5>3. Player(c) \in callback[t].message.to
          BY <1>1, <5>1, <5>2 DEF Honest, ViewKind
        <5>4. Send(callback[t].message, c)
          BY <4>1, <4>4, <5>1, <5>3 DEF Skip, NotFor
        <5>5. /\ DOMAIN seen = Conn /\ DOMAIN seen[c] = ViewKind /\ "GAME_VIEW" \in ViewKind
              /\ seen[c]["GAME_VIEW"] \in Nat /\ seen[c]["GAME_VIEW"] <= version["GAME_VIEW"]
          BY DEF TypeInv, HonestInv, ViewKind
        <5> QED BY <2>1, <3>1, <5>1, <5>2, <5>4, <5>5 DEF Send
      <4> QED BY <4>3, <4>4
    <3>6. CASE CallbackFails(t)
      <4>1. version["GAME_VIEW"] \in causes'["untold"]
        BY <3>1, <3>6 DEF CallbackFails, Blame, TypeInv, Cause
      <4> QED BY <2>1, <4>1
    <3> QED BY <1>3, <3>2, <3>4, <3>5, <3>6 DEF CallbackStep
  <2> QED BY <1>1, <2>1, <2>2, <2>3, <2>4, <2>5 DEF GameTold
<1> QED BY <1>2, <1>3

\* It has nothing to do with the views of the room.
LEMMA TimerRoomTold ==
  ASSUME TypeInv, RoomTold, CallbackInv, NEW t \in Timer, ExpireCancelWindow(t) \/ CallbackStep(t)
  PROVE  RoomTold'
<1>1. /\ UNCHANGED <<players, link, playerID, todo, writing>>
      /\ causes'["leftUnseen"] = causes["leftUnseen"] /\ causes'["abandoned"] = causes["abandoned"]
      /\ version'["ROOM_VIEW"] = version["ROOM_VIEW"]
  BY TimerFrame, CausesAre DEF roomVars
<1>2. \A c \in Conn : seen'[c]["ROOM_VIEW"] = seen[c]["ROOM_VIEW"]
  BY TimerSeen
<1>3. \A d, c \in Conn : TellsRoom(d, c) => TellsRoom(d, c)'
  BY <1>1 DEF TellsRoom, WillTell, Speaks, Sound, Due, Dues, Player
<1>4. \A c \in Conn : Player(c)' = Player(c)
  BY <1>1 DEF Player
<1> QED BY <1>1, <1>2, <1>3, <1>4 DEF RoomTold

----------------------------------------------------------------------------
(* The invariant, and what follows from it.                                *)

\* The inductive invariant of the hub.
IInv ==
  /\ TypeInv /\ Shaped
  /\ BearersInv /\ Accounted /\ MembersBorne
  /\ HealthInv
  /\ HonestInv /\ GameTold /\ RoomTold
  /\ CallbackInv

\* It holds at the start,
LEMMA InitIInv == Init => IInv
<1> SUFFICES ASSUME Init PROVE IInv
  OBVIOUS
<1>1. TypeInv /\ Shaped
  BY InitTyped
<1>2. /\ \A c \in Conn : /\ Dues(c) = {} /\ writing[c] = NoBroadcast /\ Player(c) = NoOne
                         /\ todo[c] = <<>>
      /\ \A c \in Conn : \A s : ~Due(c, s)
      /\ players = {} /\ seats = {} /\ ready = {} /\ drawn = {} /\ gameStarted = FALSE
      /\ \A k \in Cause : causes[k] = {}
      /\ \A c \in Conn : link[c] = "closed"
  BY Lists DEF Init, Dues, Due, Player
<1>3. causes["lost"] = {} /\ causes["gaveUp"] = {}
  BY <1>2 DEF Cause
<1>4. NoOne \notin RoomPlayer
  BY RoomAssumption
<1>5. OneBearer
  BY <1>2, <1>4 DEF OneBearer, Bears
<1>6. ComingAreNew /\ GoingHaveGone /\ KickedHaveGone
  BY <1>2 DEF ComingAreNew, GoingHaveGone, KickedHaveGone
<1>7. ClosedAreIdle
  BY <1>2 DEF ClosedAreIdle, Idle
<1>8. Accounted /\ MembersBorne
  BY <1>2, <1>4 DEF Accounted, MembersBorne
<1>9. HealthInv
  BY <1>2, <1>3, MessageKinds
  DEF HealthInv, GameInv, LinksInv, GaveUpInv, HealthyRoomKeepsItsPlayers
<1>10. HonestInv
  <2>1. \A c \in Conn, k \in ViewKind : seen[c][k] <= version[k]
    BY DEF Init
  <2>2. \A c \in Conn : Honest(writing[c].message)
    BY <1>2, NoViews DEF Honest
  <2> QED BY <1>2, <2>1, <2>2 DEF HonestInv
<1>11. GameTold /\ RoomTold
  BY <1>2 DEF GameTold, RoomTold
<1>12. CallbackInv
  <2>1. /\ NoCallback \in Callback /\ NoCallback.change = 0 /\ NoCallback.at = "nothing"
        /\ NoCallback.message.kind \notin ViewKind
    BY DEF NoCallback, Callback, NoMessage, Message, ViewKind
  <2>2. version["GAME_VIEW"] = 0
    BY DEF Init, ViewKind
  <2>3. window \in BOOLEAN /\ callback = [t \in Timer |-> NoCallback]
    BY DEF Init
  <2>4. ASSUME NEW t \in Timer
        PROVE  /\ callback[t].change <= version["GAME_VIEW"] /\ Honest(callback[t].message)
               /\ callback[t].at = "nothing"
    <3>1. callback[t] = NoCallback
      BY <2>3
    <3> QED BY <2>1, <2>2, <3>1 DEF Honest
  <2> QED BY <2>1, <2>3, <2>4 DEF CallbackInv
<1> QED BY <1>1, <1>5, <1>6, <1>7, <1>8, <1>9, <1>10, <1>11, <1>12 DEF IInv, BearersInv

\* every step of a connection keeps it,
LEMMA ConnIInv ==
  ASSUME IInv, [ConnStep]_vars, UNCHANGED callback
  PROVE  IInv'
<1> USE DEF IInv
<1>1. TypeInv' /\ Shaped'
  BY NextTyped
<1>2. BearersInv'
  BY BearersStep
<1>3. Accounted'
  BY AccountedStep
<1>4. MembersBorne'
  BY BorneStep
<1>5. HealthInv'
  BY HealthStep
<1>6. HonestInv'
  BY HonestStep
<1>7. GameTold'
  BY GameToldStep
<1>8. RoomTold'
  BY RoomToldStep
<1>9. CallbackInv'
  BY CallbackStands
<1> QED BY <1>1, <1>2, <1>3, <1>4, <1>5, <1>6, <1>7, <1>8, <1>9

\* and so does every step of a timer's callback,
LEMMA TimerIInv ==
  ASSUME IInv, NEW t \in Timer, ExpireCancelWindow(t) \/ CallbackStep(t)
  PROVE  IInv'
<1> USE DEF IInv
<1>1. TypeInv' /\ Shaped'
  BY TimerTyped
<1>2. BearersInv' /\ Accounted' /\ MembersBorne' /\ HealthInv'
  BY TimerHealth
<1>3. HonestInv' /\ CallbackInv'
  BY TimerHonest, TimerCallbackInv
<1>4. GameTold' /\ RoomTold'
  BY TimerGameTold, TimerRoomTold
<1> QED BY <1>1, <1>2, <1>3, <1>4

\* so that every step does,
LEMMA NextIInv == IInv /\ [Next]_vars => IInv'
<1> SUFFICES ASSUME IInv, [Next]_vars PROVE IInv'
  OBVIOUS
<1>1. CASE UNCHANGED vars
  BY <1>1, ConnIInv DEF vars, hubVars
<1>2. CASE ConnStep /\ UNCHANGED callback
  BY <1>2, ConnIInv
<1>3. CASE TimerStep
  BY <1>3, TimerIInv DEF TimerStep
<1> QED BY <1>1, <1>2, <1>3 DEF Next

\* and so it always holds: whatever the goroutines of the connections, the
\* callbacks of the timers and the losses of links do in between each other,
\* every goroutine has the rest of one handler left, and every player has one
\* connection at most.  Of a change of the room somebody has still to tell those
\* who have not seen it, unless the news of a leave went down with its answer or
\* a connection has joined elsewhere; of a change of the game, unless a handler
\* gave up or the change was made by a callback that failed: one that returns
\* with the error of ExpireCancelWindow (websocket.go:521), or whose broadcast
\* broke off (525-531).
THEOREM HubInvariant == Spec => []IInv
  BY InitIInv, NextIInv, PTL DEF Spec

\* Lists of steps.
LEMMA StepLists ==
  /\ \A a \in Step : <<a>> \in Seq(Step)
  /\ \A a, b \in Step : <<a, b>> \in Seq(Step)
  /\ \A a, b, c \in Step : <<a, b, c>> \in Seq(Step)
  /\ \A a, b, c, d \in Step : <<a, b, c, d>> \in Seq(Step)
  OBVIOUS

\* The steps of the handlers are steps.
LEMMA Steps ==
  ASSUME drawn \subseteq RoomPlayer
  PROVE
    /\ Do("attach") \in Step /\ Do("detach") \in Step /\ Do("reply") \in Step
    /\ Do("gameViews") \in Step /\ Do("roomView") \in Step /\ Do("close") \in Step
    /\ Do("elsewhere") \in Step
    /\ \A p \in drawn : /\ DoFor("attach", p) \in Step /\ DoFor("reply", p) \in Step
                        /\ DoFor("notify", p) \in Step /\ DoFor("detachPlayer", p) \in Step
                        /\ DoFor("leave", p) \in Step
    /\ Notice \in Step /\ Events \in Step
    /\ \A n \in Nat : RoomViewOf(n) \in Step
    /\ \A n \in Nat, ps \in SUBSET RoomPlayer : GameViewsOf(n, ps) \in Step
<1>1. NoMessage \in Message
  BY DEF NoMessage, Message
<1>2. /\ Do("attach") \in Step /\ Do("detach") \in Step /\ Do("reply") \in Step
      /\ Do("gameViews") \in Step /\ Do("roomView") \in Step /\ Do("close") \in Step
      /\ Do("elsewhere") \in Step
  BY <1>1 DEF Do, Step
<1>3. \A p \in drawn :
        /\ DoFor("attach", p) \in Step /\ DoFor("reply", p) \in Step
        /\ DoFor("notify", p) \in Step /\ DoFor("detachPlayer", p) \in Step
        /\ DoFor("leave", p) \in Step
  BY <1>1 DEF Do, DoFor, Step
<1>4. \A m \in Message : SendAll(m) \in Step
  BY DEF Do, SendAll, Step
<1>5. /\ [NoMessage EXCEPT !.kind = "notice"] \in Message
      /\ [NoMessage EXCEPT !.kind = "GAME_EVENTS"] \in Message
  BY DEF NoMessage, Message, ViewKind
<1>6. \A n \in Nat, ps \in SUBSET RoomPlayer :
        /\ [kind |-> "ROOM_VIEW", version |-> n, to |-> RoomPlayer] \in Message
        /\ [kind |-> "GAME_VIEW", version |-> n, to |-> ps] \in Message
  BY DEF Message, ViewKind
<1>7. Notice \in Step /\ Events \in Step
  BY <1>4, <1>5 DEF Notice, Events, SendKind
<1>8. \A n \in Nat : RoomViewOf(n) \in Step
  BY <1>4, <1>6 DEF RoomViewOf
<1>9. \A n \in Nat, ps \in SUBSET RoomPlayer : GameViewsOf(n, ps) \in Step
  BY <1>4, <1>6 DEF GameViewsOf
<1> QED BY <1>2, <1>3, <1>7, <1>8, <1>9

\* What is left of a handler is a list of steps.
LEMMA ErrandSteps ==
  ASSUME TypeInv, NEW s, Errand(s)
  PROVE  s \in Seq(Step)
<1>1. drawn \subseteq RoomPlayer
  BY DEF TypeInv
<1>5. <<>> \in Seq(Step)
  OBVIOUS
<1>6. CASE EnterErrand(s)
  <2>1. \A p \in drawn : <<DoFor("attach", p), Do("reply"), Do("roomView")>> \in Seq(Step)
    BY <1>1, Steps, StepLists
  <2>2. /\ <<Do("attach"), Do("reply"), Do("elsewhere")>> \in Seq(Step)
        /\ <<Do("reply"), Do("elsewhere")>> \in Seq(Step) /\ <<Do("elsewhere")>> \in Seq(Step)
        /\ <<Do("reply"), Do("roomView")>> \in Seq(Step)
    BY <1>1, Steps, StepLists
  <2> QED BY <2>1, <2>2, <1>6 DEF EnterErrand
<1>7. CASE ViewErrand(s)
  <2>1. <<Do("roomView")>> \in Seq(Step) /\ \A n \in Nat : <<RoomViewOf(n)>> \in Seq(Step)
    BY <1>1, Steps, StepLists
  <2> QED BY <2>1, <1>7 DEF ViewErrand
<1>8. CASE StartErrand(s)
  <2>1. /\ <<Notice, Do("roomView")>> \in Seq(Step)
        /\ <<Notice, Do("gameViews"), Do("roomView")>> \in Seq(Step)
        /\ <<Do("gameViews"), Do("roomView")>> \in Seq(Step)
    BY <1>1, Steps, StepLists
  <2>2. \A n \in Nat, ps \in SUBSET RoomPlayer : <<GameViewsOf(n, ps), Do("roomView")>> \in Seq(Step)
    BY <1>1, Steps, StepLists
  <2> QED BY <2>1, <2>2, <1>8 DEF StartErrand
<1>9. CASE LeaveErrand(s)
  <2>1. ASSUME NEW p \in drawn
        PROVE  /\ <<Do("detach"), DoFor("reply", p), Do("roomView")>> \in Seq(Step)
               /\ <<DoFor("reply", p), Do("roomView")>> \in Seq(Step)
    BY <1>1, Steps, StepLists
  <2> QED BY <2>1, <1>9 DEF LeaveErrand
<1>10. CASE KickErrand(s)
  <2>1. ASSUME NEW p \in drawn
        PROVE  /\ <<DoFor("notify", p), DoFor("detachPlayer", p), Notice, Do("roomView")>>
                    \in Seq(Step)
               /\ <<DoFor("detachPlayer", p), Notice, Do("roomView")>> \in Seq(Step)
    BY <1>1, Steps, StepLists
  <2> QED BY <2>1, <1>10 DEF KickErrand
<1>11. CASE GameErrand(s)
  <2>1. /\ <<Do("reply"), Events, Do("gameViews")>> \in Seq(Step)
        /\ <<Events, Do("gameViews")>> \in Seq(Step) /\ <<Do("gameViews")>> \in Seq(Step)
    BY <1>1, Steps, StepLists
  <2>2. \A n \in Nat, ps \in SUBSET RoomPlayer : <<GameViewsOf(n, ps)>> \in Seq(Step)
    BY <1>1, Steps, StepLists
  <2> QED BY <2>1, <2>2, <1>11 DEF GameErrand
<1>12. CASE CloseErrand(s)
  <2>1. ASSUME NEW p \in drawn
        PROVE  /\ <<Do("detach"), DoFor("leave", p), Do("roomView"), Do("close")>> \in Seq(Step)
               /\ <<DoFor("leave", p), Do("roomView"), Do("close")>> \in Seq(Step)
    BY <1>1, Steps, StepLists
  <2>2. /\ <<Do("detach"), Do("close")>> \in Seq(Step) /\ <<Do("close")>> \in Seq(Step)
        /\ <<Do("roomView"), Do("close")>> \in Seq(Step)
        /\ \A n \in Nat : <<RoomViewOf(n), Do("close")>> \in Seq(Step)
    BY <1>1, Steps, StepLists
  <2> QED BY <2>1, <2>2, <1>12 DEF CloseErrand
<1> QED BY <1>5, <1>6, <1>7, <1>8, <1>9, <1>10, <1>11, <1>12 DEF Errand

\* The registry always keeps its types: a connection is in the list of the
\* room's connections (rooms, kept by attachClientToRoom and the detach
\* functions) exactly while it has a player there.
THEOREM HubTypeCorrect == Spec => []HubTypeOK
<1>1. IInv => HubTypeOK
  <2> SUFFICES ASSUME TypeInv, Shaped, CallbackInv PROVE HubTypeOK
    BY DEF IInv
  <2>1. \A c \in Conn : Errand(todo[c])
    BY AtWriting DEF Shaped, ShapedAt
  <2>2. \A c \in Conn : todo[c] \in Seq(Step)
    BY <2>1, ErrandSteps
  <2> QED BY <2>2 DEF HubTypeOK, TypeInv, CallbackInv
<1> QED BY <1>1, HubInvariant, PTL

\* No two connections ever stand for one player: an id is given once
\* (newPlayerID), attached once, and taken off every connection that has it.
THEOREM OneConnection == Spec => []OnePlayerOneConnection
<1>1. IInv => OnePlayerOneConnection
  <2> SUFFICES ASSUME TypeInv, OneBearer PROVE OnePlayerOneConnection
    BY DEF IInv, BearersInv
  <2>1. \A c \in attached : c \in Conn /\ Player(c) \in RoomPlayer
    BY DEF TypeInv, Player
  <2> QED BY <2>1 DEF OnePlayerOneConnection, OneBearer, Bears
<1> QED BY <1>1, HubInvariant, PTL

\* When everything has been said nobody has anything to do.
LEMMA NothingDue ==
  ASSUME Quiet, NEW c \in Conn
  PROVE  (\A s : ~Due(c, s)) /\ writing[c] = NoBroadcast
  BY Lists DEF Quiet, Idle, Due, Dues

\* When everything has been said, whoever is attached plays in the room, unless
\* the kick came between joining and attaching (handleJoinRoom).
THEOREM AttachedPlay == Spec => []AttachedArePlayers
<1>1. IInv => AttachedArePlayers
  <2> SUFFICES ASSUME TypeInv, Accounted, Settled, NEW c \in attached
               PROVE  Player(c) \in players \cup causes["kickedEarly"]
    BY DEF IInv, AttachedArePlayers
  <2>1. c \in Conn /\ Player(c) \in RoomPlayer
    BY DEF TypeInv, Player
  <2>2. \A d \in Conn : \A s : ~Due(d, s)
    BY NothingDue DEF Settled
  <2> QED BY <2>1, <2>2 DEF Accounted
<1> QED BY <1>1, HubInvariant, PTL

\* When everything has been said, every member still has a connection, unless
\* it joined again as somebody else: unregisterConnection takes the player out
\* with it.
THEOREM MembersConnected == Spec => []MembersAreConnected
<1>1. IInv => MembersAreConnected
  <2> SUFFICES ASSUME TypeInv, MembersBorne, Settled, NEW p \in players \ causes["abandoned"]
               PROVE  \E c \in attached : Player(c) = p
    BY DEF IInv, MembersAreConnected
  <2>1. PICK c \in Conn : Bears(c, p)
    BY DEF MembersBorne
  <2>2. Player(c) = p
    BY <2>1, NothingDue DEF Settled, Bears
  <2>3. p # NoOne
    BY RoomAssumption DEF TypeInv
  <2> QED BY <2>2, <2>3 DEF TypeInv
<1> QED BY <1>1, HubInvariant, PTL

\* No handler gives up for want of a view while all links are up and every
\* member has a seat (broadcastGameViews).
THEOREM HealthyRoom == Spec => []HealthyRoomKeepsItsPlayers
<1>1. IInv => HealthyRoomKeepsItsPlayers
  BY DEF IInv, HealthInv, GaveUpInv
<1> QED BY <1>1, HubInvariant, PTL

\* When everything has been said and no handler had to give up, whoever has a
\* seat has been sent the game as it is now (ackEventsAndViews, handleStartGame,
\* scheduleCancelWindowExpiration), unless the last change was made by a
\* callback that failed: ExpireCancelWindow returned an error (websocket.go:521),
\* or its broadcast broke off (525-531).
THEOREM GameSeen == Spec => []SeatedSeeTheGame
<1>1. IInv => SeatedSeeTheGame
  <2> SUFFICES ASSUME TypeInv, GameTold, Quiet, \A t \in Timer : callback[t] = NoCallback,
                      gameStarted, causes["gaveUp"] = {},
                      version["GAME_VIEW"] \notin causes["untold"],
                      NEW c \in attached, Player(c) \in seats \cap players
               PROVE  seen[c]["GAME_VIEW"] = version["GAME_VIEW"]
    BY DEF IInv, SeatedSeeTheGame
  <2>1. c \in Conn
    BY DEF TypeInv
  <2>2. \A d \in Conn : ~TellsGame(d, c)
    BY IdleTellsNobody DEF Quiet
  <2>3. \A t \in Timer : ~CallbackTells(t, c)
    BY DEF CallbackTells, NoCallback
  <2> QED BY <2>1, <2>2, <2>3 DEF GameTold
<1> QED BY <1>1, HubInvariant, PTL

\* When everything has been said, everybody attached has been sent the room as
\* it is now, whichever links went down in the middle of which broadcast
\* (broadcastRoomView, unregisterConnection), unless the news of a leave was
\* lost with its answer or a connection went to another room.
THEOREM RoomSeen == Spec => []EveryoneSeesTheRoom
<1>1. IInv => EveryoneSeesTheRoom
  <2> SUFFICES ASSUME TypeInv, RoomTold, Settled, players # {},
                      causes["leftUnseen"] \cup causes["abandoned"] = {}, NEW c \in attached
               PROVE  seen[c]["ROOM_VIEW"] = version["ROOM_VIEW"]
    BY DEF IInv, EveryoneSeesTheRoom
  <2>1. c \in Conn /\ Player(c) # NoOne
    BY DEF TypeInv
  <2>2. ASSUME NEW d \in Conn PROVE ~TellsRoom(d, c)
    <3>1. (\A s : ~Due(d, s)) /\ writing[d] = NoBroadcast /\ link[d] # "down"
      BY NothingDue DEF Settled
    <3> QED BY <3>1, MessageKinds DEF TellsRoom, WillTell, Speaks, Due
  <2>3. causes["leftUnseen"] = {} /\ causes["abandoned"] = {}
    OBVIOUS
  <2> QED BY <2>1, <2>2, <2>3 DEF RoomTold
<1> QED BY <1>1, HubInvariant, PTL
=============================================================================
