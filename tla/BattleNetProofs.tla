-------------------------- MODULE BattleNetProofs --------------------------
(***************************************************************************)
(* Proofs about BattleNet, for any connections and bounds.                 *)
(*                                                                         *)
(* What a server comes to advertise is a fold over the queue.  A step of   *)
(* the bot's appends packets to the queues, and a step of a connection     *)
(* takes the first of one: the lemmas say what both do to the fold.        *)
(* QueuesAreCurrent and PrivateIsAdvertised need each other: that a name   *)
(* which the server has just taken does not push out the private lobby's   *)
(* follows from the names that can come up being the lobby's own or none.  *)
(* Both need Links, that packets are queued and lobbies advertised only    *)
(* where the bot is logged on.                                             *)
(***************************************************************************)
EXTENDS BattleNet, SequenceTheorems, TLAPS

-----------------------------------------------------------------------------
(* The inductive invariant                                                 *)

Packets == {StopAdv, EnterChat, ChatCommand} \cup {Advertise(id) : id \in Ids}

Lobbies == [id : Ids, public : BOOLEAN, humans : BOOLEAN, countDown : BOOLEAN,
            error : BOOLEAN, exiting : BOOLEAN]

Answers(r) == r \in [Servers -> Seq(BOOLEAN)] /\ \A s \in Servers : Len(r[s]) <= MaxReplies

Shapes ==
  /\ socket \in [Servers -> {"closed", "connecting", "connected"}]
  /\ waiting \in [Servers -> BOOLEAN] /\ loggedIn \in [Servers -> BOOLEAN]
  /\ out \in [Servers -> Seq(Packets)]
  /\ game \in Lobbies \cup {NoGame} /\ hostCounter \in 1..(MaxGames + 1)
  /\ advert \in [Servers -> Ids \cup {Nothing}]
  /\ Answers(replies) /\ told \subseteq Servers /\ losses \in 0..MaxLosses

\* Packets are queued, and a lobby is advertised, where the bot is logged on.
Links ==
  \A s \in Servers :
    /\ waiting[s] => socket[s] = "closed" /\ ~loggedIn[s]
    /\ socket[s] = "connecting" => ~waiting[s] /\ ~loggedIn[s]
    /\ socket[s] = "connected" /\ ~loggedIn[s] => out[s] = <<>>
    /\ advert[s] # Nothing \/ s \in told => socket[s] = "connected" /\ loggedIn[s]

NetInv == Shapes /\ Links /\ OldNamesGo /\ PrivateIsAdvertised

-----------------------------------------------------------------------------
(* What a queue comes to                                                   *)

F == INSTANCE FoldInduction WITH Op <- Comes

K == INSTANCE FoldInduction WITH Op <- Keep

\* What a queue q comes to on connection s after what the set a has.
After(s, a, q) == F!Fold(s, a, q)

\* ComesTo is the fold, also after a step.
LEMMA ComesToIs ==
  ASSUME NEW s
  PROVE  /\ ComesTo(s) = After(s, {advert[s]}, out[s])
         /\ ComesTo(s)' = After(s, {advert'[s]}, out'[s])
<1>1. ComesTo(s) = F!Fold(s, {advert[s]}, out[s])
  BY Zenon DEF ComesTo, F!Fold, FoldLeft, MapThenFoldSet, F!FoldLeft, F!MapThenFoldSet,
               Max, F!Max
<1>2. ComesTo(s)' = F!Fold(s, {advert'[s]}, out'[s])
  BY Zenon DEF ComesTo, F!Fold, FoldLeft, MapThenFoldSet, F!FoldLeft, F!MapThenFoldSet,
               Max, F!Max
<1> QED
  BY <1>1, <1>2 DEF After

\* What one packet does.
LEMMA OnePacket ==
  ASSUME NEW s, NEW a
  PROVE  /\ \A id : Comes(s, a, Advertise(id)) = a \cup {id}
         /\ Comes(s, a, StopAdv) = {Nothing} /\ Comes(s, {Nothing}, EnterChat) = {Nothing}
         /\ s \notin PvPGN => Comes(s, a, EnterChat) = a
         /\ Comes(s, a, ChatCommand) = a
  BY DEF Comes, Advertise, StopAdv, EnterChat, ChatCommand

\* An empty queue, and one packet.
LEMMA ShortQueues ==
  ASSUME NEW s, NEW a, NEW p \in Packets
  PROVE  After(s, a, <<>>) = a /\ After(s, a, <<p>>) = Comes(s, a, p)
<1> DEFINE none == <<>>
           one  == <<p>>
<1>1. F!Fold(s, a, none) = a
  BY F!FoldEmpty
<1>2. none \in Seq(Packets) /\ one \in Seq(Packets) /\ one = Append(none, p)
  OBVIOUS
<1> HIDE DEF none, one
<1>3. F!Fold(s, a, one) = Comes(s, F!Fold(s, a, none), p)
  BY <1>2, F!FoldAppend
<1> QED
  BY <1>1, <1>3 DEF After, none, one

\* Two packets.
LEMMA TwoPackets ==
  ASSUME NEW s, NEW a, NEW p \in Packets, NEW r \in Packets
  PROVE  After(s, a, <<p, r>>) = Comes(s, Comes(s, a, p), r)
<1> DEFINE one == <<p>>
           two == <<p, r>>
<1>1. After(s, a, one) = Comes(s, a, p)
  BY ShortQueues
<1>2. one \in Seq(Packets) /\ two = Append(one, r)
  OBVIOUS
<1> HIDE DEF one, two
<1>3. F!Fold(s, a, two) = Comes(s, F!Fold(s, a, one), r)
  <2>1. one \in Seq(Packets)
    BY <1>2
  <2>2. F!Fold(s, a, Append(one, r)) = Comes(s, F!Fold(s, a, one), r)
    BY <2>1, F!FoldAppend
  <2> QED
    BY <1>2, <2>2
<1> QED
  BY <1>1, <1>3 DEF After, two

\* A queue comes to what its end makes of what its beginning comes to.
LEMMA LongQueues ==
  ASSUME NEW s, NEW a, NEW q \in Seq(Packets), NEW r \in Seq(Packets)
  PROVE  After(s, a, q \o r) = After(s, After(s, a, q), r)
  BY F!FoldConcat DEF After

\* Taking packets of one type out of a queue leaves a queue, and nothing of an empty one.
LEMMA UnqueueIs ==
  ASSUME NEW q \in [Servers -> Seq(Packets)]
  PROVE  /\ Unqueue(q) \in [Servers -> Seq(Packets)]
         /\ \A s \in Servers : q[s] = <<>> => Unqueue(q)[s] = <<>>
<1>1. ASSUME NEW s \in Servers PROVE Unqueue(q)[s] = K!Fold("STARTADVEX3", <<>>, q[s])
  BY Zenon DEF Unqueue, K!Fold, FoldLeft, MapThenFoldSet, K!FoldLeft, K!MapThenFoldSet,
               Max, K!Max
<1>2. ASSUME NEW s \in Servers PROVE Unqueue(q)[s] \in Seq(Packets)
  <2>1. \A kept \in Seq(Packets), p \in Packets : Keep("STARTADVEX3", kept, p) \in Seq(Packets)
    BY DEF Keep
  <2>2. <<>> \in Seq(Packets) /\ q[s] \in Seq(Packets)
    OBVIOUS
  <2>3. K!Fold("STARTADVEX3", <<>>, q[s]) \in Seq(Packets)
    BY <2>1, <2>2, K!FoldInvariant
  <2> QED
    BY <1>1, <2>3
<1>3. ASSUME NEW s \in Servers, q[s] = <<>> PROVE Unqueue(q)[s] = <<>>
  BY <1>1, <1>3, K!FoldEmpty
<1> QED
  BY <1>2, <1>3 DEF Unqueue

-----------------------------------------------------------------------------
(* What is queued                                                          *)

\* On every connection: chat, and the creation of a lobby.
Chatted(q) == [s \in Servers |-> QueueChat(q, s)]
Created(q, id, public) == [s \in Servers |-> Queue(q, s, CreatePackets(id, public, s))]

\* The end of a lobby's advertisement, at the end of the queue.
LEMMA Leaving ==
  ASSUME NEW q \in [Servers -> Seq(Packets)]
  PROVE  /\ LeaveGame(q) \in [Servers -> Seq(Packets)]
         /\ \A s \in Servers : ~loggedIn[s] => LeaveGame(q)[s] = q[s]
         /\ \A s \in Servers : \A a : loggedIn[s] => After(s, a, LeaveGame(q)[s]) = {Nothing}
<1> DEFINE ends == <<StopAdv, EnterChat>>
<1>1. StopAdv \in Packets /\ EnterChat \in Packets /\ ends \in Seq(Packets)
  BY DEF Packets
<1>2. \A s \in Servers : LeaveGame(q)[s] = IF loggedIn[s] THEN q[s] \o ends ELSE q[s]
  BY DEF LeaveGame, Queue
<1>3. LeaveGame(q) \in [Servers -> Seq(Packets)]
  BY <1>1, <1>2 DEF LeaveGame, Queue
<1>4. ASSUME NEW s \in Servers, NEW a, loggedIn[s]
      PROVE  After(s, a, LeaveGame(q)[s]) = {Nothing}
  <2> DEFINE b == After(s, a, q[s])
  <2>1. After(s, b, ends) = Comes(s, Comes(s, b, StopAdv), EnterChat)
    <3> HIDE DEF b
    <3>1. StopAdv \in Packets /\ EnterChat \in Packets
      BY <1>1
    <3> QED
      BY <3>1, TwoPackets
  <2>2. After(s, a, q[s] \o ends) = After(s, b, ends)
    <3> HIDE DEF ends
    <3>1. q[s] \in Seq(Packets)
      OBVIOUS
    <3> QED
      BY <1>1, <3>1, LongQueues
  <2> QED
    BY <1>2, <1>4, <2>1, <2>2, OnePacket
<1> QED
  BY <1>2, <1>3, <1>4

\* Chat changes nothing.
LEMMA Chatting ==
  ASSUME NEW q \in [Servers -> Seq(Packets)]
  PROVE  /\ Chatted(q) \in [Servers -> Seq(Packets)]
         /\ \A s \in Servers : ~loggedIn[s] => Chatted(q)[s] = q[s]
         /\ \A s \in Servers : \A a : After(s, a, Chatted(q)[s]) = After(s, a, q[s])
<1> DEFINE r    == Chatted(q)
           chat == <<ChatCommand>>
<1>1. ChatCommand \in Packets /\ chat \in Seq(Packets)
  BY DEF Packets
<1>2. \A s \in Servers : r[s] = q[s] \/ (loggedIn[s] /\ r[s] = q[s] \o chat)
  BY DEF QueueChat, Queue, Chatted
<1>3. r \in [Servers -> Seq(Packets)]
  <2> HIDE DEF chat
  <2>1. ASSUME NEW s \in Servers PROVE r[s] \in Seq(Packets)
    <3>1. q[s] \in Seq(Packets) /\ q[s] \o chat \in Seq(Packets)
      BY <1>1
    <3> QED
      BY <1>2, <3>1
  <2> QED
    BY <2>1 DEF Chatted
<1>4. ASSUME NEW s \in Servers, NEW a PROVE After(s, a, q[s] \o chat) = After(s, a, q[s])
  <2> DEFINE b == After(s, a, q[s])
  <2>1. After(s, b, chat) = Comes(s, b, ChatCommand)
    BY <1>1, ShortQueues
  <2>2. After(s, a, q[s] \o chat) = After(s, b, chat)
    <3> HIDE DEF chat
    <3>1. q[s] \in Seq(Packets)
      OBVIOUS
    <3> QED
      BY <1>1, <3>1, LongQueues
  <2> QED
    BY <2>1, <2>2, OnePacket
<1> QED
  BY <1>2, <1>3, <1>4

\* The creation of a lobby adds it to what may be advertised.
LEMMA Creating ==
  ASSUME NEW q \in [Servers -> Seq(Packets)], NEW id \in Ids, NEW public \in BOOLEAN
  PROVE  /\ Created(q, id, public) \in [Servers -> Seq(Packets)]
         /\ \A s \in Servers : ~loggedIn[s] => Created(q, id, public)[s] = q[s]
         /\ \A s \in Servers : \A a :
              loggedIn[s] => After(s, a, Created(q, id, public)[s]) = After(s, a, q[s]) \cup {id}
<1> DEFINE r     == Created(q, id, public)
           cs(s) == CreatePackets(id, public, s)
<1>1. Advertise(id) \in Packets /\ EnterChat \in Packets
  BY DEF Packets
<1>2. \A s : cs(s) \in Seq(Packets)
  BY <1>1 DEF CreatePackets
<1>3. \A s \in Servers : r[s] = IF loggedIn[s] THEN q[s] \o cs(s) ELSE q[s]
  BY DEF Queue, Created
<1>4. r \in [Servers -> Seq(Packets)]
  <2> HIDE DEF cs
  <2>1. ASSUME NEW s \in Servers PROVE r[s] \in Seq(Packets)
    <3>1. q[s] \in Seq(Packets) /\ cs(s) \in Seq(Packets)
      BY <1>2
    <3>2. q[s] \o cs(s) \in Seq(Packets)
      BY <3>1
    <3> QED
      BY <1>3, <3>1, <3>2
  <2> QED
    BY <2>1 DEF Created
<1>5. ASSUME NEW s \in Servers, NEW a PROVE After(s, a, q[s] \o cs(s)) = After(s, a, q[s]) \cup {id}
  <2> DEFINE b == After(s, a, q[s])
  <2>1. After(s, b, cs(s)) = b \cup {id}
    <3>1. CASE public \/ s \in PvPGN
      <4>1. cs(s) = <<Advertise(id)>>
        BY <3>1 DEF CreatePackets
      <4> HIDE DEF cs, b
      <4>2. After(s, b, <<Advertise(id)>>) = Comes(s, b, Advertise(id))
        BY <1>1, ShortQueues, Zenon
      <4>3. Comes(s, b, Advertise(id)) = b \cup {id}
        BY DEF Comes, Advertise
      <4> QED
        BY <4>1, <4>2, <4>3, Zenon
    <3>2. CASE ~public /\ s \notin PvPGN
      <4>1. cs(s) = <<Advertise(id), EnterChat>>
        BY <3>2 DEF CreatePackets
      <4> HIDE DEF cs, b
      <4>2. After(s, b, <<Advertise(id), EnterChat>>) = Comes(s, Comes(s, b, Advertise(id)), EnterChat)
        BY <1>1, TwoPackets
      <4>3. Comes(s, b, Advertise(id)) = b \cup {id}
        BY DEF Comes, Advertise
      <4>4. Comes(s, b \cup {id}, EnterChat) = b \cup {id}
        BY <3>2, OnePacket
      <4> QED
        BY <4>1, <4>2, <4>3, <4>4, Zenon
    <3> QED
      BY <3>1, <3>2
  <2>2. After(s, a, q[s] \o cs(s)) = After(s, b, cs(s))
    <3> HIDE DEF cs
    <3>1. q[s] \in Seq(Packets) /\ cs(s) \in Seq(Packets)
      BY <1>2
    <3> QED
      BY <3>1, LongQueues
  <2> QED
    BY <2>1, <2>2
<1> QED
  BY <1>3, <1>4, <1>5

\* So does a refresh, of the lobby there is.
LEMMA Refreshing ==
  ASSUME NEW q \in [Servers -> Seq(Packets)], game.id \in Ids
  PROVE  /\ Refresh(q) \in [Servers -> Seq(Packets)]
         /\ \A s \in Servers : ~loggedIn[s] => Refresh(q)[s] = q[s]
         /\ \A s \in Servers : \A a :
              After(s, a, Refresh(q)[s]) \subseteq After(s, a, q[s]) \cup {game.id}
<1> DEFINE ad == <<Advertise(game.id)>>
<1>1. Advertise(game.id) \in Packets /\ ad \in Seq(Packets)
  BY DEF Packets
<1>2. \A s \in Servers : Refresh(q)[s] = q[s] \/ (loggedIn[s] /\ Refresh(q)[s] = q[s] \o ad)
  BY DEF Refresh, Queue
<1>3. Refresh(q) \in [Servers -> Seq(Packets)]
  <2> HIDE DEF ad
  <2>1. ASSUME NEW s \in Servers PROVE Refresh(q)[s] \in Seq(Packets)
    <3>1. q[s] \in Seq(Packets) /\ q[s] \o ad \in Seq(Packets)
      BY <1>1
    <3> QED
      BY <1>2, <3>1
  <2> QED
    BY <2>1 DEF Refresh
<1>4. ASSUME NEW s \in Servers, NEW a PROVE After(s, a, q[s] \o ad) = After(s, a, q[s]) \cup {game.id}
  <2> DEFINE b == After(s, a, q[s])
  <2>1. After(s, b, ad) = Comes(s, b, Advertise(game.id))
    <3> HIDE DEF b
    <3> QED
      BY <1>1, ShortQueues, Zenon
  <2>2. After(s, a, q[s] \o ad) = After(s, b, ad)
    <3> HIDE DEF ad
    <3>1. q[s] \in Seq(Packets)
      OBVIOUS
    <3> QED
      BY <1>1, <3>1, LongQueues
  <2>3. Comes(s, b, Advertise(game.id)) = b \cup {game.id}
    <3> HIDE DEF b
    <3> QED
      BY DEF Comes, Advertise
  <2> HIDE DEF ad
  <2> QED
    BY <2>1, <2>2, <2>3
<1> QED
  BY <1>2, <1>3, <1>4

-----------------------------------------------------------------------------
(* What the lobby does                                                     *)

\* Of a connection without a lobby under its current name or none there is nothing queued.
LEMMA Quiet ==
  ASSUME NetInv, NEW s \in Servers
  PROVE  /\ socket[s] = "connected" /\ ~loggedIn[s] => out[s] = <<>> /\ advert[s] = Nothing
         /\ socket[s] = "connected" => After(s, {advert[s]}, out[s]) \subseteq {Nothing, game.id}
         /\ out[s] \in Seq(Packets)
  BY ComesToIs DEF NetInv, Links, OldNamesGo, Shapes

\* The queues are changed where the bot is logged on, so that they come to the new name.
LEMMA Requeued ==
  ASSUME NetInv, UNCHANGED <<conn, advert, losses>>, Answers(replies'),
         game' \in Lobbies \cup {NoGame}, hostCounter' \in 1..(MaxGames + 1), told' \subseteq Servers,
         out' \in [Servers -> Seq(Packets)],
         \A s \in Servers : socket[s] = "connected" /\ ~loggedIn[s] => out'[s] = <<>>,
         \A s \in told' : socket[s] = "connected" /\ loggedIn[s],
         \A s \in Servers : socket[s] = "connected" /\ loggedIn[s] =>
           After(s, {advert[s]}, out'[s]) \subseteq {Nothing, game'.id},
         PrivateIsAdvertised'
  PROVE  NetInv'
<1>1. Shapes'
  BY DEF NetInv, Shapes, Answers, conn
<1>2. Links'
  BY DEF NetInv, Links, conn
<1>3. OldNamesGo'
  <2> SUFFICES ASSUME NEW s \in Servers, socket[s] = "connected"
               PROVE  ComesTo(s)' \subseteq {Nothing, game'.id}
    BY DEF OldNamesGo, conn
  <2>1. ComesTo(s)' = After(s, {advert[s]}, out'[s])
    BY ComesToIs
  <2>2. CASE loggedIn[s]
    BY <2>1, <2>2
  <2>3. CASE ~loggedIn[s]
    <3>1. out'[s] = <<>> /\ advert[s] = Nothing
      BY <2>3, Quiet
    <3>2. After(s, {Nothing}, <<>>) = {Nothing}
      <4>1. StopAdv \in Packets
        BY DEF Packets
      <4> QED
        BY <4>1, ShortQueues
    <3> QED
      BY <2>1, <3>1, <3>2
  <2> QED
    BY <2>2, <2>3
<1> QED
  BY <1>1, <1>2, <1>3 DEF NetInv

\* A lobby that is not there is not waited for.
LEMMA LobbyIs ==
  ASSUME NetInv
  PROVE  /\ Hosting => game \in Lobbies
         /\ ~Hosting => game.id = Nothing
         /\ out \in [Servers -> Seq(Packets)] /\ MaxGames \in Nat /\ hostCounter \in 1..(MaxGames + 1)
         /\ hostCounter <= MaxGames => hostCounter \in Ids /\ hostCounter + 1 \in 1..(MaxGames + 1)
         /\ Answers(replies) /\ told \subseteq Servers
         /\ \A s \in told : socket[s] = "connected" /\ loggedIn[s]
  BY BattleNetAssumption DEF NetInv, Shapes, Links, Hosting, NoGame, Ids

\* CreateGame: the new lobby's name is the first that is queued.
LEMMA CreateGameStep ==
  ASSUME NetInv, NEW public \in BOOLEAN, CreateGame(public) PROVE NetInv'
<1> DEFINE chat == Chatted(out)
           mine == Created(chat, hostCounter, public)
<1>1. /\ game.id = Nothing /\ out \in [Servers -> Seq(Packets)] /\ hostCounter \in Ids
      /\ hostCounter' \in 1..(MaxGames + 1) /\ Answers(replies')
  BY LobbyIs DEF CreateGame
<1>2. /\ game' = [NoGame EXCEPT !.id = hostCounter, !.public = public]
      /\ out' = mine /\ told' = Reached(public) /\ UNCHANGED <<conn, advert, replies, losses>>
  BY DEF CreateGame, Chatted, Created
<1>3. game' \in Lobbies /\ game'.id = hostCounter /\ game'.public = public
  BY <1>1, <1>2 DEF Lobbies, NoGame
<1>4. chat \in [Servers -> Seq(Packets)] /\ (\A s \in Servers : ~loggedIn[s] => chat[s] = out[s])
      /\ \A s \in Servers : \A a : After(s, a, chat[s]) = After(s, a, out[s])
  BY <1>1, Chatting
<1> HIDE DEF chat
<1>5. /\ mine \in [Servers -> Seq(Packets)] /\ (\A s \in Servers : ~loggedIn[s] => mine[s] = chat[s])
      /\ \A s \in Servers : \A a :
           loggedIn[s] => After(s, a, mine[s]) = After(s, a, chat[s]) \cup {hostCounter}
  <2>1. chat \in [Servers -> Seq(Packets)] /\ hostCounter \in Ids
    BY <1>1, <1>4
  <2> QED
    BY <2>1, Creating
<1> HIDE DEF mine
<1>6. \A s \in Servers : loggedIn[s] =>
        After(s, {advert[s]}, out'[s]) = After(s, {advert[s]}, out[s]) \cup {hostCounter}
  BY <1>2, <1>4, <1>5
<1>7. \A s \in told' : s \in Servers /\ socket[s] = "connected" /\ loggedIn[s] /\ ~public
  BY <1>2 DEF Reached
<1>8. PrivateIsAdvertised'
  <2> SUFFICES ASSUME NEW s \in told' PROVE game'.id \in ComesTo(s)'
    BY DEF PrivateIsAdvertised
  <2>1. ComesTo(s)' = After(s, {advert[s]}, out'[s])
    BY <1>2, ComesToIs
  <2>2. After(s, {advert[s]}, out'[s]) = After(s, {advert[s]}, out[s]) \cup {hostCounter}
    BY <1>6, <1>7
  <2> QED
    BY <1>3, <2>1, <2>2
<1>9. \A s \in Servers : socket[s] = "connected" /\ loggedIn[s] =>
        After(s, {advert[s]}, out'[s]) \subseteq {Nothing, game'.id}
  BY <1>1, <1>3, <1>6, Quiet
<1>10. \A s \in Servers : socket[s] = "connected" /\ ~loggedIn[s] => out'[s] = <<>>
  BY <1>2, <1>4, <1>5, Quiet
<1>11. told' \subseteq Servers
  BY <1>7
<1> QED
  BY <1>1, <1>2, <1>3, <1>5, <1>7, <1>8, <1>9, <1>10, <1>11, Requeued

\* Rehosting: whatever was queued, the end of the old advertisement comes after it, and a
\* private lobby's new name after that.
LEMMA RehostStep ==
  ASSUME NetInv, NEW public \in BOOLEAN, Rehost(public) PROVE NetInv'
<1> DEFINE few  == Unqueue(out)
           left == LeaveGame(few)
           mine == Created(left, hostCounter, FALSE)
<1>1. /\ game \in Lobbies /\ out \in [Servers -> Seq(Packets)] /\ hostCounter \in Ids
      /\ hostCounter' \in 1..(MaxGames + 1) /\ Answers(replies')
  BY LobbyIs DEF Rehost
<1>2. /\ game' = [game EXCEPT !.id = hostCounter, !.public = public, !.error = FALSE]
      /\ out' = IF public THEN left ELSE mine
      /\ told' = Reached(public) /\ UNCHANGED <<conn, advert, replies, losses>>
  BY DEF Rehost, Created
<1>3. game' \in Lobbies /\ game'.id = hostCounter /\ game'.public = public
  BY <1>1, <1>2 DEF Lobbies
<1>4. few \in [Servers -> Seq(Packets)]
  BY <1>1, UnqueueIs
<1>5. \A s \in Servers : socket[s] = "connected" /\ ~loggedIn[s] => few[s] = <<>>
  BY <1>1, Quiet, UnqueueIs
<1> HIDE DEF few
<1>6. /\ left \in [Servers -> Seq(Packets)] /\ (\A s \in Servers : ~loggedIn[s] => left[s] = few[s])
      /\ \A s \in Servers : \A a : loggedIn[s] => After(s, a, left[s]) = {Nothing}
  BY <1>4, Leaving
<1> HIDE DEF left
<1>7. /\ mine \in [Servers -> Seq(Packets)] /\ (\A s \in Servers : ~loggedIn[s] => mine[s] = left[s])
      /\ \A s \in Servers : \A a :
           loggedIn[s] => After(s, a, mine[s]) = After(s, a, left[s]) \cup {hostCounter}
  <2>1. FALSE \in BOOLEAN
    OBVIOUS
  <2> QED
    BY <1>1, <1>6, <2>1, Creating
<1> HIDE DEF mine
<1>8. /\ out' \in [Servers -> Seq(Packets)]
      /\ \A s \in Servers : socket[s] = "connected" /\ ~loggedIn[s] => out'[s] = <<>>
  BY <1>2, <1>5, <1>6, <1>7
<1>9. \A s \in Servers : loggedIn[s] =>
        After(s, {advert[s]}, out'[s]) = IF public THEN {Nothing} ELSE {Nothing, hostCounter}
  BY <1>2, <1>6, <1>7
<1>10. \A s \in told' : s \in Servers /\ socket[s] = "connected" /\ loggedIn[s] /\ ~public
  BY <1>2 DEF Reached
<1>11. PrivateIsAdvertised'
  <2> SUFFICES ASSUME NEW s \in told' PROVE game'.id \in ComesTo(s)'
    BY DEF PrivateIsAdvertised
  <2>1. ComesTo(s)' = After(s, {advert[s]}, out'[s])
    BY <1>2, ComesToIs
  <2> QED
    BY <1>3, <1>9, <1>10, <2>1
<1>12. \A s \in Servers : socket[s] = "connected" /\ loggedIn[s] =>
         After(s, {advert[s]}, out'[s]) \subseteq {Nothing, game'.id}
  BY <1>3, <1>9
<1>13. told' \subseteq Servers
  BY <1>10
<1> QED
  BY <1>1, <1>2, <1>3, <1>8, <1>10, <1>11, <1>12, <1>13, Requeued

\* The lobby changes: its name is the same.
LEMMA LobbyChangesStep ==
  ASSUME NetInv, LobbyChanges PROVE NetInv'
<1>1. game \in Lobbies /\ Hosting /\ UNCHANGED <<conn, out, hostCounter, advert, replies, told, losses>>
  BY LobbyIs DEF LobbyChanges
<1>2. /\ game' \in Lobbies /\ game'.id = game.id /\ game'.public = game.public
      /\ game'.error = game.error
  BY <1>1 DEF LobbyChanges, Lobbies
<1>3. /\ out' \in [Servers -> Seq(Packets)] /\ hostCounter' \in 1..(MaxGames + 1)
      /\ Answers(replies') /\ told' \subseteq Servers
      /\ \A s \in told' : socket[s] = "connected" /\ loggedIn[s]
  BY <1>1, LobbyIs DEF NetInv, Shapes
<1>4. \A s \in Servers : socket[s] = "connected" /\ ~loggedIn[s] => out'[s] = <<>>
  BY <1>1, Quiet
<1>5. \A s \in Servers : socket[s] = "connected" =>
        After(s, {advert[s]}, out'[s]) \subseteq {Nothing, game'.id}
  BY <1>1, <1>2, Quiet
<1>6. PrivateIsAdvertised'
  <2> SUFFICES ASSUME ~game'.public, ~game'.error, NEW s \in told'
               PROVE  game'.id \in ComesTo(s)' \/ \E i \in 1..Len(replies'[s]) : ~replies'[s][i]
    BY DEF PrivateIsAdvertised
  <2>1. ComesTo(s)' = ComesTo(s)
    BY <1>1, ComesToIs
  <2> QED
    BY <1>1, <1>2, <2>1 DEF NetInv, PrivateIsAdvertised
<1> QED
  BY <1>1, <1>2, <1>3, <1>4, <1>5, <1>6, Requeued

\* The lobby is no more: whatever was queued, the end of its advertisement comes after it.
LEMMA GameGone ==
  ASSUME NetInv, NEW q \in [Servers -> Seq(Packets)],
         \A s \in Servers : socket[s] = "connected" /\ ~loggedIn[s] => q[s] = <<>>,
         out' = LeaveGame(q), UNCHANGED <<conn, advert, replies, told, losses>>,
         game' \in Lobbies \cup {NoGame}, hostCounter' \in 1..(MaxGames + 1),
         game' # NoGame => game'.public
  PROVE  NetInv'
<1>1. /\ out' \in [Servers -> Seq(Packets)] /\ (\A s \in Servers : ~loggedIn[s] => out'[s] = q[s])
      /\ \A s \in Servers : \A a : loggedIn[s] => After(s, a, out'[s]) = {Nothing}
  BY Leaving
<1>2. PrivateIsAdvertised'
  BY DEF PrivateIsAdvertised, Hosting
<1>3. /\ Answers(replies') /\ told' \subseteq Servers
      /\ \A s \in told' : socket[s] = "connected" /\ loggedIn[s]
  BY LobbyIs
<1>4. \A s \in Servers : socket[s] = "connected" /\ ~loggedIn[s] => out'[s] = <<>>
  BY <1>1
<1>5. \A s \in Servers : socket[s] = "connected" /\ loggedIn[s] =>
        After(s, {advert[s]}, out'[s]) \subseteq {Nothing, game'.id}
  BY <1>1
<1> QED
  BY <1>1, <1>2, <1>3, <1>4, <1>5, Requeued

\* EventGameStarted: the lobby becomes a game.
LEMMA StartGameStep ==
  ASSUME NetInv, StartGame PROVE NetInv'
<1>1. /\ game' = NoGame /\ out' = LeaveGame(out)
      /\ UNCHANGED <<conn, hostCounter, advert, replies, told, losses>>
  BY DEF StartGame
<1>2. out \in [Servers -> Seq(Packets)] /\ hostCounter' \in 1..(MaxGames + 1)
  BY <1>1, LobbyIs
<1>3. \A s \in Servers : socket[s] = "connected" /\ ~loggedIn[s] => out[s] = <<>>
  BY Quiet
<1> QED
  BY <1>1, <1>2, <1>3, GameGone

\* CBaseGame::Update: a lobby is rehosted, refreshed, deleted, or left alone.
LEMMA UpdateGameStep ==
  ASSUME NetInv, NEW due \in BOOLEAN, UpdateGame(due) PROVE NetInv'
<1> DEFINE rehost  == /\ game.error /\ AutoHost /\ game.public /\ ~game.countDown
                      /\ hostCounter <= MaxGames
           refresh == due /\ ~game.error /\ game.public /\ ~game.countDown
           queued  == IF rehost THEN LeaveGame(out)
                      ELSE IF refresh THEN Refresh(out) ELSE out
<1>1. /\ game \in Lobbies /\ out \in [Servers -> Seq(Packets)] /\ game.id \in Ids
      /\ UNCHANGED <<conn, advert, replies, told, losses>>
  BY LobbyIs DEF UpdateGame, Lobbies
<1>2. /\ hostCounter' = IF rehost THEN hostCounter + 1 ELSE hostCounter
      /\ game' = IF game.exiting THEN NoGame
                 ELSE IF rehost THEN [game EXCEPT !.id = hostCounter, !.error = FALSE] ELSE game
      /\ out' = IF game.exiting THEN LeaveGame(queued) ELSE queued
  BY DEF UpdateGame
<1>3. hostCounter' \in 1..(MaxGames + 1) /\ (rehost => hostCounter \in Ids)
  BY <1>2, LobbyIs
<1>4. game' \in Lobbies \cup {NoGame}
  BY <1>1, <1>2, <1>3 DEF Lobbies
<1>5. \A s \in Servers : socket[s] = "connected" /\ ~loggedIn[s] => out[s] = <<>>
  BY Quiet
<1>6. /\ LeaveGame(out) \in [Servers -> Seq(Packets)]
      /\ \A s \in Servers : ~loggedIn[s] => LeaveGame(out)[s] = out[s]
  BY <1>1, Leaving
<1>7. /\ Refresh(out) \in [Servers -> Seq(Packets)]
      /\ (\A s \in Servers : ~loggedIn[s] => Refresh(out)[s] = out[s])
      /\ \A s \in Servers : \A a :
           After(s, a, Refresh(out)[s]) \subseteq After(s, a, out[s]) \cup {game.id}
  BY <1>1, Refreshing
<1>8. /\ queued \in [Servers -> Seq(Packets)]
      /\ \A s \in Servers : socket[s] = "connected" /\ ~loggedIn[s] => queued[s] = <<>>
  BY <1>1, <1>5, <1>6, <1>7
<1>9. CASE game.exiting
  <2>1. game' = NoGame /\ out' = LeaveGame(queued)
    BY <1>2, <1>9
  <2> HIDE DEF queued
  <2> QED
    BY <1>1, <1>3, <1>8, <2>1, GameGone
<1>10. CASE ~game.exiting /\ rehost
  <2>1. game' = [game EXCEPT !.id = hostCounter, !.error = FALSE] /\ out' = LeaveGame(out)
    BY <1>2, <1>10
  <2>2. game' \in Lobbies /\ game'.public
    BY <1>1, <1>3, <1>10, <2>1 DEF Lobbies
  <2> QED
    BY <1>1, <1>3, <1>5, <2>1, <2>2, GameGone
<1>11. CASE ~game.exiting /\ ~rehost
  <2>1. game' = game /\ out' = queued /\ out' \in {out, Refresh(out)} /\ (~game.public => out' = out)
    BY <1>2, <1>11
  <2>2. /\ Answers(replies') /\ told' \subseteq Servers
        /\ \A s \in told' : socket[s] = "connected" /\ loggedIn[s]
    BY <1>1, LobbyIs
  <2>3. \A s \in Servers : socket[s] = "connected" =>
          After(s, {advert[s]}, out'[s]) \subseteq {Nothing, game'.id}
    BY <1>7, <2>1, Quiet
  <2>4. PrivateIsAdvertised'
    <3> SUFFICES ASSUME Hosting', ~game'.public, ~game'.error, NEW s \in told'
                 PROVE  game'.id \in ComesTo(s)' \/ \E i \in 1..Len(replies'[s]) : ~replies'[s][i]
      BY DEF PrivateIsAdvertised
    <3>1. out' = out
      BY <2>1
    <3>2. ComesTo(s)' = ComesTo(s)
      BY <1>1, <3>1, ComesToIs
    <3> QED
      BY <1>1, <2>1, <3>2 DEF NetInv, PrivateIsAdvertised, Hosting
  <2>5. /\ out' \in [Servers -> Seq(Packets)]
        /\ \A s \in Servers : socket[s] = "connected" /\ ~loggedIn[s] => out'[s] = <<>>
    BY <1>8, <2>1
  <2> HIDE DEF queued, rehost, refresh
  <2> QED
    BY <1>1, <1>3, <1>4, <2>2, <2>3, <2>4, <2>5, Requeued
<1> QED
  BY <1>9, <1>10, <1>11

-----------------------------------------------------------------------------
(* What a connection does                                                  *)

\* What a queue makes of what is advertised before it: it keeps it, or it ends it, whatever
\* it is.
LEMMA KeepsOrEnds ==
  ASSUME NEW s, NEW q \in Seq(Packets)
  PROVE  \/ \A a : After(s, a, q) = a \cup After(s, {}, q)
         \/ \A a : After(s, a, q) = After(s, {}, q)
<1> DEFINE Keeps(r) == \A a : After(s, a, r) = a \cup After(s, {}, r)
           Ends(r)  == \A a : After(s, a, r) = After(s, {}, r)
           T == {r \in Seq(Packets) : Keeps(r) \/ Ends(r)}
<1>1. <<>> \in T
  BY F!FoldEmpty DEF After
<1>2. ASSUME NEW r \in Seq(Packets), NEW p \in Packets, r \in T PROVE Append(r, p) \in T
  <2>1. \A a : After(s, a, Append(r, p)) = Comes(s, After(s, a, r), p)
    BY F!FoldAppend DEF After
  <2>2. \/ \A a, b : Comes(s, a \cup b, p) = a \cup Comes(s, b, p)
        \/ \A a, b : Comes(s, a, p) = Comes(s, b, p)
    BY DEF Comes, Packets, Advertise, StopAdv, EnterChat, ChatCommand
  <2>3. Keeps(r) \/ Ends(r)
    BY <1>2
  <2> DEFINE more == Append(r, p)
  <2>4. more \in Seq(Packets)
    OBVIOUS
  <2>5. \A a : After(s, a, more) = Comes(s, After(s, a, r), p)
    BY <2>1
  <2> HIDE DEF more
  <2>6. Keeps(more) \/ Ends(more)
    <3> DEFINE x    == After(s, {}, r)
               y(a) == After(s, a, r)
    <3>0. \A a : After(s, a, more) = Comes(s, y(a), p)
      BY <2>5
    <3>1. CASE Ends(r)
      <4>1. \A a : y(a) = x
        BY <3>1
      <4> HIDE DEF x, y
      <4> QED
        BY <3>0, <4>1
    <3>2. CASE Keeps(r) /\ \A a, b : Comes(s, a \cup b, p) = a \cup Comes(s, b, p)
      <4>1. \A a : y(a) = a \cup x
        BY <3>2
      <4>2. y({}) = x
        OBVIOUS
      <4> HIDE DEF x, y
      <4>3. \A a : After(s, a, more) = a \cup Comes(s, x, p)
        BY <3>0, <3>2, <4>1
      <4> QED
        BY <3>0, <4>2, <4>3
    <3>3. CASE \A a, b : Comes(s, a, p) = Comes(s, b, p)
      <4> HIDE DEF y
      <4> QED
        BY <3>0, <3>3
    <3> QED
      BY <2>2, <2>3, <3>1, <3>2, <3>3
  <2>7. more \in T
    BY <2>4, <2>6
  <2> QED
    BY <2>7 DEF more
<1> HIDE DEF T
<1>3. Seq(Packets) \subseteq T
  BY <1>1, <1>2, F!SeqInduction
<1> QED
  BY <1>3 DEF T

\* One connection takes a step.
LEMMA OneConnection ==
  ASSUME NetInv, NEW c \in Servers, UNCHANGED <<game, hostCounter>>, Shapes', Links',
         told' \subseteq told,
         \A s \in Servers \ {c} : /\ socket'[s] = socket[s] /\ out'[s] = out[s]
                                  /\ advert'[s] = advert[s] /\ replies'[s] = replies[s],
         socket'[c] = "connected" => After(c, {advert'[c]}, out'[c]) \subseteq {Nothing, game.id},
         c \in told' /\ Hosting /\ ~game.public /\ ~game.error =>
           \/ game.id \in After(c, {advert'[c]}, out'[c])
           \/ \E i \in 1..Len(replies'[c]) : ~replies'[c][i]
  PROVE  NetInv'
<1>1. OldNamesGo'
  <2> SUFFICES ASSUME NEW s \in Servers, socket'[s] = "connected"
               PROVE  ComesTo(s)' \subseteq {Nothing, game.id}
    BY DEF OldNamesGo
  <2>1. ComesTo(s)' = After(s, {advert'[s]}, out'[s]) /\ ComesTo(s) = After(s, {advert[s]}, out[s])
    BY ComesToIs
  <2>2. CASE s = c
    BY <2>1, <2>2
  <2>3. CASE s # c
    BY <2>1, <2>3 DEF NetInv, OldNamesGo
  <2> QED
    BY <2>2, <2>3
<1>2. PrivateIsAdvertised'
  <2> SUFFICES ASSUME Hosting, ~game.public, ~game.error, NEW s \in told'
               PROVE  game.id \in ComesTo(s)' \/ \E i \in 1..Len(replies'[s]) : ~replies'[s][i]
    BY DEF PrivateIsAdvertised, Hosting
  <2>1. ComesTo(s)' = After(s, {advert'[s]}, out'[s]) /\ ComesTo(s) = After(s, {advert[s]}, out[s])
    BY ComesToIs
  <2>2. CASE s = c
    BY <2>1, <2>2
  <2>3. CASE s # c
    <3>1. game.id \in ComesTo(s) \/ \E i \in 1..Len(replies[s]) : ~replies[s][i]
      BY DEF NetInv, PrivateIsAdvertised, Hosting
    <3>2. s \in Servers
      BY DEF Shapes
    <3> QED
      BY <2>1, <2>3, <3>1, <3>2
  <2> QED
    BY <2>2, <2>3
<1> QED
  BY <1>1, <1>2 DEF NetInv

\* The first packet of a queue is sent, and the rest of it is what is queued now.
LEMMA FirstSent ==
  ASSUME NEW s, NEW a, NEW q \in Seq(Packets), q # <<>>
  PROVE  /\ Head(q) \in Packets /\ Tail(q) \in Seq(Packets)
         /\ After(s, a, q) = After(s, Comes(s, a, Head(q)), Tail(q))
<1> DEFINE p    == Head(q)
           one  == <<p>>
           rest == Tail(q)
<1>1. p \in Packets /\ rest \in Seq(Packets) /\ one \in Seq(Packets)
  OBVIOUS
<1>2. q = one \o rest
  <2>1. one \o rest \in Seq(Packets) /\ Len(one \o rest) = Len(q)
    OBVIOUS
  <2>2. \A i \in 1..Len(q) : (one \o rest)[i] = q[i]
    OBVIOUS
  <2> QED
    BY <2>1, <2>2, SeqEqual
<1>3. After(s, a, one) = Comes(s, a, p)
  <2> HIDE DEF p
  <2> QED
    BY <1>1, ShortQueues
<1> HIDE DEF p, one, rest
<1>4. After(s, a, one \o rest) = After(s, After(s, a, one), rest)
  BY <1>1, LongQueues
<1> QED
  BY <1>1, <1>2, <1>3, <1>4 DEF p, rest

\* Send: a server that takes or leaves a name ends up with one of those it could.
LEMMA SendStep ==
  ASSUME NetInv, NEW c \in Servers, Send(c) PROVE NetInv'
<1> DEFINE p    == Head(out[c])
           rest == Tail(out[c])
           old  == advert[c]
           new  == advert'[c]
<1>1. /\ socket[c] = "connected" /\ out[c] # <<>> /\ out' = [out EXCEPT ![c] = rest]
      /\ UNCHANGED <<conn, game, hostCounter, told, losses>>
  BY DEF Send
<1>2. /\ out[c] \in Seq(Packets) /\ loggedIn[c] /\ old \in Ids \cup {Nothing}
      /\ out \in [Servers -> Seq(Packets)] /\ advert \in [Servers -> Ids \cup {Nothing}]
      /\ Answers(replies) /\ MaxReplies \in Nat
  BY <1>1, BattleNetAssumption DEF NetInv, Shapes, Links
<1>3. /\ p \in Packets /\ rest \in Seq(Packets)
      /\ After(c, {old}, out[c]) = After(c, Comes(c, {old}, p), rest)
  BY <1>1, <1>2, FirstSent
<1>4. After(c, {old}, out[c]) \subseteq {Nothing, game.id}
  BY <1>1, Quiet
<1>5. out' \in [Servers -> Seq(Packets)] /\ out'[c] = rest /\ \A s \in Servers \ {c} : out'[s] = out[s]
  BY <1>1, <1>2, <1>3
<1>6. ASSUME NEW accepted \in BOOLEAN, p.type = "STARTADVEX3", Len(replies[c]) < MaxReplies,
             replies' = [replies EXCEPT ![c] = Append(@, accepted)],
             advert' = [advert EXCEPT ![c] = IF accepted THEN p.id ELSE @]
      PROVE  NetInv'
  <2>1. Comes(c, {old}, p) = {old} \cup {p.id} /\ p.id \in Ids /\ p.id # Nothing
    BY <1>3, <1>6 DEF Comes, Packets, Advertise, StopAdv, EnterChat, ChatCommand, Ids, Nothing
  <2>2. new = (IF accepted THEN p.id ELSE old) /\ \A s \in Servers \ {c} : advert'[s] = advert[s]
    BY <1>2, <1>6
  <2>3. advert' \in [Servers -> Ids \cup {Nothing}]
    BY <1>2, <1>6, <2>1
  <2>4. /\ Answers(replies') /\ (\A s \in Servers \ {c} : replies'[s] = replies[s])
        /\ replies'[c] = Append(replies[c], accepted) /\ replies[c] \in Seq(BOOLEAN)
    BY <1>2, <1>6 DEF Answers
  <2>5. Shapes'
    BY <1>1, <1>5, <2>3, <2>4 DEF NetInv, Shapes, conn
  <2>6. Links'
    BY <1>1, <1>2, <1>5, <2>2 DEF NetInv, Links, conn
  <2> DEFINE ends == After(c, {}, rest)
  <2>7. /\ After(c, {old}, out[c]) = After(c, {old} \cup {p.id}, rest)
        /\ \/ \A a : After(c, a, rest) = a \cup ends
           \/ \A a : After(c, a, rest) = ends
    <3> HIDE DEF rest
    <3> QED
      BY <1>3, <2>1, KeepsOrEnds
  <2> HIDE DEF ends, rest, p, old, new
  <2>8. After(c, {new}, rest) \subseteq {Nothing, game.id}
    <3>1. CASE \A a : After(c, a, rest) = a \cup ends
      BY <1>4, <2>2, <2>7, <3>1
    <3>2. CASE \A a : After(c, a, rest) = ends
      BY <1>4, <2>2, <2>7, <3>2
    <3> QED
      BY <2>7, <3>1, <3>2
  <2>9. ASSUME game.id \in After(c, {old}, out[c]), accepted PROVE game.id \in After(c, {new}, rest)
    <3>1. CASE \A a : After(c, a, rest) = a \cup ends
      <4>1. p.id = game.id
        BY <1>4, <2>1, <2>7, <3>1
      <4> QED
        BY <2>2, <2>9, <3>1, <4>1
    <3>2. CASE \A a : After(c, a, rest) = ends
      BY <2>7, <2>9, <3>2
    <3> QED
      BY <2>7, <3>1, <3>2
  <2>10. ASSUME c \in told, Hosting, ~game.public, ~game.error
         PROVE  \/ game.id \in After(c, {new}, rest)
                \/ \E i \in 1..Len(replies'[c]) : ~replies'[c][i]
    <3>1. game.id \in ComesTo(c) \/ \E i \in 1..Len(replies[c]) : ~replies[c][i]
      BY <2>10 DEF NetInv, PrivateIsAdvertised
    <3>2. ComesTo(c) = After(c, {old}, out[c])
      BY ComesToIs DEF old
    <3>3. CASE ~accepted
      <4>1. Len(replies'[c]) \in 1..Len(replies'[c]) /\ ~replies'[c][Len(replies'[c])]
        BY <2>4, <3>3
      <4> QED
        BY <4>1
    <3>4. CASE \E i \in 1..Len(replies[c]) : ~replies[c][i]
      <4>1. PICK i \in 1..Len(replies[c]) : ~replies[c][i]
        BY <3>4
      <4>2. i \in 1..Len(replies'[c]) /\ replies'[c][i] = replies[c][i]
        BY <2>4
      <4> QED
        BY <4>1, <4>2
    <3> QED
      BY <2>9, <3>1, <3>2, <3>3, <3>4
  <2> QED
    BY <1>1, <1>5, <2>2, <2>4, <2>5, <2>6, <2>8, <2>10, OneConnection DEF conn, new
<1>7. ASSUME p.type # "STARTADVEX3", UNCHANGED replies,
             advert' = IF p.type = "STOPADV" \/ (p.type = "ENTERCHAT" /\ c \in PvPGN)
                       THEN [advert EXCEPT ![c] = Nothing] ELSE advert
      PROVE  NetInv'
  <2>1. /\ new = (IF p.type = "STOPADV" \/ (p.type = "ENTERCHAT" /\ c \in PvPGN) THEN Nothing ELSE old)
        /\ \A s \in Servers \ {c} : advert'[s] = advert[s]
        /\ advert' \in [Servers -> Ids \cup {Nothing}]
    BY <1>2, <1>7
  <2>2. Comes(c, {old}, p) = {new}
    BY <1>3, <1>7, <2>1 DEF Comes, Packets, Advertise, StopAdv, EnterChat, ChatCommand
  <2>3. After(c, {new}, rest) = After(c, {old}, out[c])
    BY <1>3, <2>2
  <2>4. Shapes'
    BY <1>1, <1>5, <1>7, <2>1 DEF NetInv, Shapes, Answers, conn
  <2>5. Links'
    BY <1>1, <1>2, <1>5, <2>1 DEF NetInv, Links, conn
  <2> HIDE DEF p, rest, old, new
  <2>6. ASSUME c \in told, Hosting, ~game.public, ~game.error
        PROVE  \/ game.id \in After(c, {new}, rest)
               \/ \E i \in 1..Len(replies'[c]) : ~replies'[c][i]
    <3>1. game.id \in ComesTo(c) \/ \E i \in 1..Len(replies[c]) : ~replies[c][i]
      BY <2>6 DEF NetInv, PrivateIsAdvertised
    <3>2. ComesTo(c) = After(c, {old}, out[c])
      BY ComesToIs DEF old
    <3> QED
      BY <1>7, <2>3, <3>1, <3>2
  <2>7. After(c, {new}, rest) \subseteq {Nothing, game.id}
    BY <1>4, <2>3
  <2> QED
    BY <1>1, <1>5, <1>7, <2>1, <2>4, <2>5, <2>6, <2>7, OneConnection DEF conn, new
<1> QED
  BY <1>6, <1>7 DEF Send

\* Receive: a refusal marks the lobby; an answer that is not one does not hide one.
LEMMA ReceiveStep ==
  ASSUME NetInv, NEW c \in Servers, Receive(c) PROVE NetInv'
<1>1. /\ replies[c] # <<>> /\ replies' = [replies EXCEPT ![c] = Tail(@)]
      /\ UNCHANGED <<conn, hostCounter, advert, told, losses>>
  BY DEF Receive
<1>2. /\ replies \in [Servers -> Seq(BOOLEAN)] /\ (\A s \in Servers : Len(replies[s]) <= MaxReplies)
      /\ MaxReplies \in Nat
  BY BattleNetAssumption DEF NetInv, Shapes, Answers
<1>3. Answers(replies')
  <2>1. Tail(replies[c]) \in Seq(BOOLEAN) /\ Len(Tail(replies[c])) <= MaxReplies
    BY <1>1, <1>2
  <2> QED
    BY <1>1, <1>2, <2>1 DEF Answers
<1>4. /\ hostCounter' \in 1..(MaxGames + 1) /\ told' \subseteq Servers
      /\ \A s \in told' : socket[s] = "connected" /\ loggedIn[s]
  BY <1>1, LobbyIs
<1>5. CASE Head(replies[c]) \/ ~Hosting
  <2>1. UNCHANGED <<game, out>>
    BY <1>5 DEF Receive
  <2>2. PrivateIsAdvertised'
    <3> SUFFICES ASSUME Hosting, ~game.public, ~game.error, NEW s \in told
                 PROVE  game.id \in ComesTo(s)' \/ \E i \in 1..Len(replies'[s]) : ~replies'[s][i]
      BY <1>1, <2>1 DEF PrivateIsAdvertised, Hosting
    <3>1. ComesTo(s)' = ComesTo(s)
      BY <1>1, <2>1, ComesToIs
    <3>2. game.id \in ComesTo(s) \/ \E i \in 1..Len(replies[s]) : ~replies[s][i]
      BY DEF NetInv, PrivateIsAdvertised
    <3>3. s \in Servers
      BY <1>1, <1>4
    <3>4. ASSUME NEW i \in 1..Len(replies[s]), ~replies[s][i]
          PROVE  \E j \in 1..Len(replies'[s]) : ~replies'[s][j]
      <4>1. CASE s # c
        BY <1>1, <1>2, <3>3, <3>4, <4>1
      <4>2. CASE s = c
        <5>1. replies'[s] = Tail(replies[s]) /\ replies[s] \in Seq(BOOLEAN)
          BY <1>1, <1>2, <4>2
        <5>2. i # 1
          <6>1. Head(replies[s]) = replies[s][1]
            BY <1>1, <4>2, <5>1
          <6>2. Head(replies[s])
            BY <1>5, <4>2
          <6> QED
            BY <3>4, <6>1, <6>2, Zenon
        <5>3. i - 1 \in 1..Len(Tail(replies[s])) /\ Tail(replies[s])[i - 1] = replies[s][i]
          BY <5>1, <5>2, <1>1, <4>2
        <5> QED
          BY <3>4, <5>1, <5>3
      <4> QED
        BY <4>1, <4>2
    <3> QED
      BY <3>1, <3>2, <3>4
  <2>3. /\ out' \in [Servers -> Seq(Packets)] /\ game' \in Lobbies \cup {NoGame}
        /\ \A s \in Servers : socket[s] = "connected" /\ ~loggedIn[s] => out'[s] = <<>>
    BY <2>1, Quiet, LobbyIs DEF NetInv, Shapes
  <2>4. \A s \in Servers : socket[s] = "connected" =>
          After(s, {advert[s]}, out'[s]) \subseteq {Nothing, game'.id}
    BY <2>1, Quiet
  <2> QED
    BY <1>1, <1>3, <1>4, <2>2, <2>3, <2>4, Requeued
<1>6. CASE ~(Head(replies[c]) \/ ~Hosting)
  <2>1. /\ game' = [game EXCEPT !.error = TRUE, !.exiting = @ \/ ~game.humans]
        /\ out' = Chatted(out) /\ Hosting
    BY <1>6 DEF Receive, Chatted
  <2>2. game' \in Lobbies /\ game'.id = game.id /\ game'.error
    BY <2>1, LobbyIs DEF Lobbies
  <2>3. out \in [Servers -> Seq(Packets)]
    BY LobbyIs
  <2>4. /\ out' \in [Servers -> Seq(Packets)] /\ (\A s \in Servers : ~loggedIn[s] => out'[s] = out[s])
        /\ \A s \in Servers : \A a : After(s, a, out'[s]) = After(s, a, out[s])
    BY <2>1, <2>3, Chatting
  <2>5. \A s \in Servers : socket[s] = "connected" /\ ~loggedIn[s] => out'[s] = <<>>
    BY <2>4, Quiet
  <2>6. \A s \in Servers : socket[s] = "connected" =>
          After(s, {advert[s]}, out'[s]) \subseteq {Nothing, game'.id}
    BY <2>2, <2>4, Quiet
  <2>7. PrivateIsAdvertised'
    BY <2>2 DEF PrivateIsAdvertised
  <2> QED
    BY <1>1, <1>3, <1>4, <2>2, <2>4, <2>5, <2>6, <2>7, Requeued
<1> QED
  BY <1>5, <1>6

\* The connection is lost and made again: nothing is advertised, and nobody waits for it.
LEMMA ConnectionStep ==
  ASSUME NetInv, NEW c \in Servers,
         Lose(c) \/ Disconnected(c) \/ Connect(c) \/ Connected(c) \/ LogOn(c)
  PROVE  NetInv'
<1>1. /\ UNCHANGED <<game, hostCounter>> /\ told' \subseteq told
      /\ \A s \in Servers \ {c} : /\ socket'[s] = socket[s] /\ out'[s] = out[s]
                                  /\ advert'[s] = advert[s] /\ replies'[s] = replies[s]
  BY DEF Lose, Disconnected, Connect, Connected, LogOn, NetInv, Shapes, Answers
<1>2. Shapes'
  <2>1. /\ <<>> \in Seq(Packets) /\ <<>> \in Seq(BOOLEAN) /\ Len(<<>>) = 0
        /\ MaxReplies \in Nat /\ MaxLosses \in Nat
    BY BattleNetAssumption
  <2>2. /\ socket' \in [Servers -> {"closed", "connecting", "connected"}]
        /\ waiting' \in [Servers -> BOOLEAN] /\ loggedIn' \in [Servers -> BOOLEAN]
    BY DEF Lose, Disconnected, Connect, Connected, LogOn, NetInv, Shapes
  <2>3. /\ out' \in [Servers -> Seq(Packets)] /\ game' \in Lobbies \cup {NoGame}
        /\ hostCounter' \in 1..(MaxGames + 1) /\ advert' \in [Servers -> Ids \cup {Nothing}]
    BY <2>1 DEF Lose, Disconnected, Connect, Connected, LogOn, NetInv, Shapes
  <2>4. Answers(replies')
    <3>1. Answers(replies) /\ (replies' = replies \/ replies' = [replies EXCEPT ![c] = <<>>])
      BY DEF Lose, Disconnected, Connect, Connected, LogOn, NetInv, Shapes
    <3>2. CASE replies' = replies
      BY <3>1, <3>2
    <3>3. CASE replies' = [replies EXCEPT ![c] = <<>>]
      <4>1. replies' \in [Servers -> Seq(BOOLEAN)]
        BY <2>1, <3>1, <3>3 DEF Answers
      <4>2. ASSUME NEW s \in Servers PROVE Len(replies'[s]) <= MaxReplies
        <5>1. replies'[s] = IF s = c THEN <<>> ELSE replies[s]
          BY <3>1, <3>3 DEF Answers
        <5> QED
          BY <2>1, <3>1, <5>1 DEF Answers
      <4> QED
        BY <4>1, <4>2 DEF Answers
    <3> QED
      BY <3>1, <3>2, <3>3
  <2>5. told' \subseteq Servers /\ losses' \in 0..MaxLosses
    BY <2>1 DEF Lose, Disconnected, Connect, Connected, LogOn, NetInv, Shapes
  <2> QED
    BY <2>2, <2>3, <2>4, <2>5 DEF Shapes
<1>3. Links'
  <2>1. CASE Lose(c)
    BY <2>1 DEF Lose, NetInv, Links, Shapes
  <2>2. CASE Disconnected(c)
    BY <2>2 DEF Disconnected, NetInv, Links, Shapes
  <2>3. CASE Connect(c)
    BY <2>3 DEF Connect, NetInv, Links, Shapes
  <2>4. CASE Connected(c)
    BY <2>4 DEF Connected, NetInv, Links, Shapes
  <2>5. CASE LogOn(c)
    BY <2>5 DEF LogOn, NetInv, Links, Shapes
  <2> QED
    BY <2>1, <2>2, <2>3, <2>4, <2>5
<1>4. /\ socket'[c] = "connected" => After(c, {advert'[c]}, out'[c]) \subseteq {Nothing, game.id}
      /\ c \notin told'
  <2>1. CASE Lose(c) \/ Disconnected(c) \/ Connect(c)
    BY <2>1 DEF Lose, Disconnected, Connect, NetInv, Links, Shapes
  <2>2. CASE Connected(c)
    <3>1. advert'[c] = Nothing /\ out'[c] = <<>> /\ c \notin told'
      BY <2>2 DEF Connected, NetInv, Links, Shapes
    <3>2. After(c, {Nothing}, <<>>) = {Nothing}
      <4>1. StopAdv \in Packets
        BY DEF Packets
      <4> QED
        BY <4>1, ShortQueues
    <3> QED
      BY <3>1, <3>2
  <2>3. CASE LogOn(c)
    <3>1. advert'[c] = advert[c] /\ out'[c] = out[c] /\ socket[c] = "connected" /\ c \notin told'
      BY <2>3 DEF LogOn, NetInv, Links
    <3> QED
      BY <3>1, Quiet
  <2> QED
    BY <2>1, <2>2, <2>3
<1> QED
  BY <1>1, <1>2, <1>3, <1>4, OneConnection

-----------------------------------------------------------------------------
(* The theorems                                                            *)

\* At the start nothing is queued and nothing is advertised.
LEMMA NetInit == Init => NetInv
<1> SUFFICES ASSUME Init PROVE NetInv
  OBVIOUS
<1>1. Shapes
  <2>1. <<>> \in Seq(Packets) /\ <<>> \in Seq(BOOLEAN) /\ Len(<<>>) = 0
    OBVIOUS
  <2> QED
    BY <2>1, BattleNetAssumption DEF Init, Shapes, Answers
<1>2. Links
  BY DEF Init, Links
<1>3. OldNamesGo
  BY DEF Init, OldNamesGo
<1>4. PrivateIsAdvertised
  BY DEF Init, PrivateIsAdvertised
<1> QED
  BY <1>1, <1>2, <1>3, <1>4 DEF NetInv

\* Every step of the bot's, of the lobby and of the connections.
LEMMA NetStep == NetInv /\ [Next]_vars => NetInv'
<1> SUFFICES ASSUME NetInv, [Next]_vars PROVE NetInv'
  OBVIOUS
<1>1. ASSUME NEW public \in BOOLEAN, CreateGame(public) \/ Rehost(public) PROVE NetInv'
  BY <1>1, CreateGameStep, RehostStep
<1>2. CASE LobbyChanges \/ StartGame
  BY <1>2, LobbyChangesStep, StartGameStep
<1>3. ASSUME NEW due \in BOOLEAN, UpdateGame(due) PROVE NetInv'
  BY <1>3, UpdateGameStep
<1>4. ASSUME NEW s \in Servers,
             \/ Send(s) \/ Receive(s) \/ Lose(s)
             \/ Disconnected(s) \/ Connect(s) \/ Connected(s) \/ LogOn(s)
      PROVE  NetInv'
  BY <1>4, SendStep, ReceiveStep, ConnectionStep
<1>5. CASE UNCHANGED vars
  <2>1. \A s : ComesTo(s)' = ComesTo(s)
    BY <1>5, ComesToIs DEF vars, conn
  <2> QED
    BY <1>5, <2>1
       DEF vars, conn, NetInv, Shapes, Answers, Links, OldNamesGo, PrivateIsAdvertised, Hosting
<1> QED
  BY <1>1, <1>2, <1>3, <1>4, <1>5 DEF Next

\* What the bot queues is current: the packets of an earlier connection are not sent, and
\* the queues leave a server with the lobby's present name or none, through any number of
\* rehostings, games, connections and packets.
THEOREM QueuesAlwaysCurrent == Spec => []QueuesAreCurrent
<1>1. NetInv => QueuesAreCurrent
  <2> SUFFICES ASSUME NetInv PROVE QueuesAreCurrent
    OBVIOUS
  <2>1. ASSUME NEW s \in Servers, NEW i \in 1..Len(out[s])
        PROVE  \/ out[s][i] \in {StopAdv, EnterChat, ChatCommand}
               \/ out[s][i].type = "STARTADVEX3" /\ out[s][i].id \in Ids
    <3>1. out[s][i] \in Packets
      BY DEF NetInv, Shapes
    <3> QED
      BY <3>1 DEF Packets, Advertise
  <2>2. TypeOK
    BY <2>1 DEF TypeOK, NetInv, Shapes, Answers, Lobbies, Hosting
  <2>3. NothingLeftOver
    BY DEF NothingLeftOver, NetInv, Links
  <2> QED
    BY <2>2, <2>3 DEF QueuesAreCurrent, NetInv
<1> QED
  BY <1>1, NetInit, NetStep, PTL DEF Spec

\* A private lobby, whose advertisement is never refreshed, is advertised or about to be on
\* every connection that it was created on and that is not lost, or it was refused.
THEOREM PrivateAlwaysAdvertised == Spec => []PrivateIsAdvertised
<1>1. NetInv => PrivateIsAdvertised
  BY DEF NetInv
<1> QED
  BY <1>1, NetInit, NetStep, PTL DEF Spec

=============================================================================
