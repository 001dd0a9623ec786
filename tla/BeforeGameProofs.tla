-------------------------- MODULE BeforeGameProofs --------------------------
(***************************************************************************)
(* Proofs about what comes before a game runs: MapDownload, SlotTable and  *)
(* LoadInGame, for any players, maps, limits and numbers of renewals.      *)
(*                                                                         *)
(* DownloadInv ties the status of a slot to what its client has said, and  *)
(* that to what the client has received and was sent (Answers), for an     *)
(* acknowledgement is at most a part that was sent; a round of sending is  *)
(* a fold over the players, of which each step keeps the limits            *)
(* (Rounding).                                                             *)
(*                                                                         *)
(* SlotInv says who sits where, and which layouts the map allows.  Actions *)
(* that only move what is in the table put permuted occupants, teams and   *)
(* colours in it (Arranged), and balancing is a fold of such moves over as *)
(* many slots as there are players (TargetsSuffice), for the search ends   *)
(* and orders all of them (BestAreOrderings).                              *)
(*                                                                         *)
(* LoadInv says that what was sent and is buffered is the same game for    *)
(* all, each in the half that it can take; what a game goes through is a   *)
(* fold too, of a sequence that every message continues.                   *)
(***************************************************************************)
EXTENDS MapDownload, SlotTable, LoadInGame, SequenceTheorems, FiniteSetTheorems, TLAPS

-----------------------------------------------------------------------------
(* Map download: a round of sending                                        *)

F == INSTANCE FoldInduction WITH Op <- Serve

\* What is true at any point of a round: nobody has been sent less than before, or too far
\* ahead without having been, or more than the second allows.
Rounding ==
  {at \in [sent : [Players -> 0..Parts], acked : {acked}, used : Nat, downloaders : Nat] :
     /\ \A p \in Players : /\ sent[p] <= at.sent[p]
                           /\ sent[p] - acked[p] <= Window => at.sent[p] - acked[p] <= Window
     /\ MaxSpeed > 0 => at.used <= MaxSpeed}

\* How many parts one downloader is sent.
LEMMA PiecesWithin ==
  ASSUME NEW at \in Rounding, NEW p \in Players, acked \in [Players -> Nat]
  PROVE  /\ Pieces(at, p) \in Nat
         /\ at.sent[p] + Pieces(at, p) <= Parts
         /\ at.sent[p] - acked[p] <= Window => at.sent[p] + Pieces(at, p) - acked[p] <= Window
         /\ MaxSpeed > 0 => at.used + Pieces(at, p) <= MaxSpeed
<1>1. /\ at.sent[p] \in 0..Parts /\ at.acked[p] = acked[p] /\ acked[p] \in Nat
      /\ at.used \in Nat /\ (MaxSpeed > 0 => at.used <= MaxSpeed)
  BY DEF Rounding
<1>2. Parts \in Nat /\ Parts > 0 /\ Window \in Nat /\ MaxSpeed \in Nat
  BY DownloadAssumption DEF DownloadAssumption
<1>3. /\ Open(at, p) \in Int /\ at.sent[p] + Open(at, p) <= Parts
      /\ at.sent[p] + Open(at, p) - acked[p] <= Window
  BY <1>1, <1>2 DEF Open, AtMost
<1>4. Left(at) \in Int /\ (MaxSpeed > 0 => Left(at) = MaxSpeed - at.used)
  BY <1>1, <1>2 DEF Left
<1>5. \/ Pieces(at, p) = 0
      \/ Pieces(at, p) \in Nat /\ Pieces(at, p) <= Open(at, p) /\ Pieces(at, p) <= Left(at)
  BY <1>3, <1>4 DEF Pieces, AtMost
<1>6. MaxSpeed > 0 => at.used + Pieces(at, p) <= MaxSpeed
  BY <1>1, <1>2, <1>4, <1>5
<1> QED
  BY <1>1, <1>2, <1>3, <1>5, <1>6

\* Serving one player keeps it so.
LEMMA ServeWithin ==
  ASSUME NEW active, NEW at \in Rounding, NEW p \in Players,
         acked \in [Players -> Nat], sent \in [Players -> 0..Parts]
  PROVE  Serve(active, at, p) \in Rounding
<1>1. CASE ~MayBeServed(active, at, p)
  BY <1>1 DEF Serve
<1>2. CASE MayBeServed(active, at, p)
  <2> DEFINE n == Pieces(at, p)
             s == [at.sent EXCEPT ![p] = @ + n]
             u == at.used + n
             d == at.downloaders + 1
  <2>1. /\ n \in Nat /\ at.sent[p] + n <= Parts
        /\ at.sent[p] - acked[p] <= Window => at.sent[p] + n - acked[p] <= Window
        /\ MaxSpeed > 0 => at.used + n <= MaxSpeed
    BY PiecesWithin
  <2>2. Serve(active, at, p) = [at EXCEPT !.sent[p] = @ + n, !.used = @ + n, !.downloaders = @ + 1]
    BY <1>2, Zenon DEF Serve
  <2> HIDE DEF n
  <2>3. /\ at = [sent |-> at.sent, acked |-> acked, used |-> at.used, downloaders |-> at.downloaders]
        /\ at.sent \in [Players -> 0..Parts] /\ at.used \in Nat /\ at.downloaders \in Nat
    BY DEF Rounding
  <2>4. Serve(active, at, p) = [sent |-> s, acked |-> acked, used |-> u, downloaders |-> d]
    <3>1. [at EXCEPT !.sent[p] = @ + n]
            = [sent |-> s, acked |-> acked, used |-> at.used, downloaders |-> at.downloaders]
      BY <2>3
    <3>2. Serve(active, at, p) = [[at EXCEPT !.sent[p] = @ + n] EXCEPT !.used = @ + n, !.downloaders = @ + 1]
      BY <2>2
    <3> HIDE DEF s
    <3> QED
      BY <3>1, <3>2
  <2>5. s \in [Players -> 0..Parts] /\ u \in Nat /\ d \in Nat
    <3>1. at.sent[p] \in 0..Parts /\ Parts \in Nat
      BY <2>3, DownloadAssumption DEF DownloadAssumption
    <3>2. at.sent[p] + n \in 0..Parts
      BY <2>1, <3>1
    <3> QED
      BY <2>1, <2>3, <3>2
  <2>6. ASSUME NEW q \in Players
        PROVE  sent[q] <= s[q] /\ (sent[q] - acked[q] <= Window => s[q] - acked[q] <= Window)
    <3>1. /\ sent[q] <= at.sent[q]
          /\ sent[q] - acked[q] <= Window => at.sent[q] - acked[q] <= Window
      BY DEF Rounding
    <3>2. CASE q # p
      <4>1. s[q] = at.sent[q]
        BY <2>3, <3>2
      <4> QED
        BY <3>1, <4>1
    <3>3. CASE q = p
      <4>1. s[p] = at.sent[p] + n /\ at.sent[p] \in 0..Parts
        BY <2>3
      <4>2. sent[p] <= at.sent[p] + n
        <5>1. sent[p] \in 0..Parts
          OBVIOUS
        <5> QED
          BY <2>1, <3>1, <3>3, <4>1, <5>1
      <4> QED
        BY <2>1, <3>1, <3>3, <4>1, <4>2
    <3> QED
      BY <3>2, <3>3
  <2> HIDE DEF s, u, d
  <2>7. MaxSpeed > 0 => u <= MaxSpeed
    BY <2>1 DEF u
  <2> QED
    BY <2>4, <2>5, <2>6, <2>7 DEF Rounding
<1> QED
  BY <1>1, <1>2

\* A round keeps the limits, and takes nothing back that was sent.
LEMMA RoundWithin ==
  ASSUME players \in Seq(Players), NEW used \in Nat, MaxSpeed > 0 => used <= MaxSpeed,
         acked \in [Players -> Nat], sent \in [Players -> 0..Parts],
         SendParts(used)
  PROVE  /\ sent' \in [Players -> 0..Parts] /\ counter' \in Nat
         /\ \A p \in Players : sent[p] - acked[p] <= Window => sent'[p] - acked[p] <= Window
         /\ MaxSpeed > 0 => counter' <= MaxSpeed
<1> DEFINE base == [sent |-> sent, acked |-> acked, used |-> used, downloaders |-> 0]
           all  == F!Fold(Downloading, base, players)
<1>1. FoldLeft(LAMBDA at, p : Serve(Downloading, at, p), base, players) = all
  BY Zenon DEF F!Fold, FoldLeft, MapThenFoldSet, Max, F!FoldLeft, F!MapThenFoldSet, F!Max
<1>2. base \in Rounding
  <2>1. \A p \in Players : sent[p] <= sent[p]
    <3> SUFFICES ASSUME NEW p \in Players PROVE sent[p] <= sent[p]
      OBVIOUS
    <3>1. sent[p] \in 0..Parts
      OBVIOUS
    <3> QED
      BY <3>1
  <2> QED
    BY <2>1 DEF Rounding
<1>3. sent' = all.sent /\ counter' = all.used
  <2> HIDE DEF all
  <2> QED
    BY <1>1 DEF SendParts
<1>4. \A at \in Rounding, p \in Players : Serve(Downloading, at, p) \in Rounding
  BY ServeWithin
<1>5. all \in Rounding
  <2> HIDE DEF base
  <2> QED
    BY <1>2, <1>4, F!FoldInvariant
<1> HIDE DEF all
<1> QED
  BY <1>3, <1>5 DEF Rounding

-----------------------------------------------------------------------------
(* Map download: the invariant                                             *)

\* m_Players has everybody once.
OneEach == players \in Seq(Players)
           /\ \A i, j \in DOMAIN players : i # j => players[i] # players[j]

\* What is acknowledged was said by the client, what it says it has received, and the bot
\* is not further ahead than the window of what was acknowledged.
Answers ==
  \A p \in Players : /\ said[p] <= received[p]
                     /\ p \notin misled => acked[p] <= said[p] /\ sent[p] - acked[p] <= Window

\* A client whose file is as large as the map has the map.
HasFile == \A p \in Players : file[p] = Parts => received[p] = Parts

\* A status is complete if the client's last word was of the map's size or of more.
StatusIsSaid ==
  \A p \in Players : status[p] = 100 => said[p] = Parts \/ (said[p] = 0 /\ file[p] > Parts)

\* Nothing is left of a player who is not there.
Fresh == \A p \in Players \ Present : said[p] = 0 /\ status[p] = Unknown

\* The slots were sent since they changed, and before the game started.
ShownOrChanged == ~changed \/ ~lobby => untold = {}

\* Those who are there during the countdown have the map, or joined with a larger file.
CountedWithMap == countdown => \A p \in Present : received[p] = Parts \/ file[p] > Parts

DownloadInv ==
  /\ OneEach /\ DownloadTypeOK /\ Answers /\ HasFile /\ SpeedKept
  /\ StatusIsSaid /\ Fresh /\ ShownOrChanged /\ CountedWithMap

LEMMA DownloadInvInit == ASSUME DownloadInit PROVE DownloadInv
<1>1. /\ Parts \in Nat /\ Parts > 0 /\ Window \in Nat /\ MaxSpeed \in Nat /\ Rounds \in Nat
      /\ 0 \in Files
  BY DownloadAssumption DEF DownloadAssumption
<1>2. players = <<>> /\ OneEach /\ Present = {}
  BY DEF DownloadInit, OneEach, Present, ToSet
<1>3. /\ sent = [p \in Players |-> 0] /\ acked = sent /\ file = sent /\ received = sent
      /\ said = sent /\ status = [p \in Players |-> Unknown] /\ misled = {}
  BY DEF DownloadInit
<1>4. DownloadTypeOK
  <2>1. 0 \in 0..Parts /\ 0 \in 0..Rounds /\ 0 \in Nat
    BY <1>1
  <2>2. /\ sent \in [Players -> 0..Parts] /\ acked \in [Players -> Nat]
        /\ file \in [Players -> Files] /\ received \in [Players -> 0..Parts]
        /\ said \in [Players -> 0..Parts] /\ status \in [Players -> 0..100 \cup {Unknown}]
    BY <1>1, <1>3, <2>1
  <2>3. /\ lobby \in BOOLEAN /\ countdown \in BOOLEAN /\ mode \in Modes /\ copy \in BOOLEAN
        /\ changed \in BOOLEAN /\ counter \in Nat /\ round \in 0..Rounds
    BY <2>1 DEF DownloadInit
  <2>4. /\ started \subseteq Players /\ finished \subseteq started /\ allowed \subseteq started
        /\ replied \subseteq Players /\ ignored \subseteq started /\ misled \subseteq started
        /\ untold \subseteq Players
    BY DEF DownloadInit
  <2> QED
    BY <1>2, <2>2, <2>3, <2>4 DEF DownloadTypeOK
<1>5. Answers
  <2> SUFFICES ASSUME NEW p \in Players
               PROVE  /\ said[p] <= received[p]
                      /\ acked[p] <= said[p] /\ sent[p] - acked[p] <= Window
    BY DEF Answers
  <2>1. acked[p] = 0 /\ said[p] = 0 /\ sent[p] = 0 /\ received[p] = 0
    BY <1>3
  <2> QED
    BY <1>1, <2>1
<1>6. HasFile
  BY <1>1, <1>3 DEF HasFile
<1>7. SpeedKept
  BY <1>1 DEF SpeedKept, DownloadInit
<1>8. StatusIsSaid /\ Fresh
  BY <1>3 DEF StatusIsSaid, Fresh, Unknown
<1>9. ShownOrChanged /\ CountedWithMap
  BY <1>2 DEF ShownOrChanged, CountedWithMap, DownloadInit
<1> QED
  BY <1>2, <1>4, <1>5, <1>6, <1>7, <1>8, <1>9 DEF DownloadInv

\* Without one player, m_Players still has the others once.
LEMMA RemoveAtKeeps ==
  ASSUME OneEach, NEW i \in DOMAIN players, players' = RemoveAt(players, i)
  PROVE  OneEach' /\ Present' = Present \ {players[i]}
<1> DEFINE n == Len(players)
           s == RemoveAt(players, i)
<1>1. players \in Seq(Players) /\ n \in Nat /\ i \in 1..n
      /\ \A j, k \in 1..n : j # k => players[j] # players[k]
  BY DEF OneEach
<1>2. /\ s \in Seq(Players) /\ Len(s) = n - 1
      /\ \A k \in 1..(n - 1) : s[k] = IF k < i THEN players[k] ELSE players[k + 1]
  <2>1. /\ SubSeq(players, 1, i - 1) \in Seq(Players) /\ Len(SubSeq(players, 1, i - 1)) = i - 1
        /\ \A k \in 1..(i - 1) : SubSeq(players, 1, i - 1)[k] = players[k]
    BY <1>1
  <2>2. /\ SubSeq(players, i + 1, n) \in Seq(Players) /\ Len(SubSeq(players, i + 1, n)) = n - i
        /\ \A k \in 1..(n - i) : SubSeq(players, i + 1, n)[k] = players[i + k]
    BY <1>1
  <2> DEFINE a == SubSeq(players, 1, i - 1)
             b == SubSeq(players, i + 1, n)
  <2>3. s = a \o b
    BY DEF RemoveAt
  <2> HIDE DEF a, b
  <2>4. /\ a \in Seq(Players) /\ Len(a) = i - 1 /\ \A k \in 1..(i - 1) : a[k] = players[k]
        /\ b \in Seq(Players) /\ Len(b) = n - i /\ \A k \in 1..(n - i) : b[k] = players[i + k]
    BY <2>1, <2>2 DEF a, b
  <2>5. s \in Seq(Players) /\ Len(s) = n - 1
    BY <1>1, <2>3, <2>4
  <2>6. ASSUME NEW k \in 1..(n - 1)
        PROVE  s[k] = IF k < i THEN players[k] ELSE players[k + 1]
    <3>1. CASE k < i
      <4>1. k \in 1..Len(a)
        BY <1>1, <2>4, <3>1
      <4>2. s[k] = a[k]
        BY <2>3, <2>4, <4>1
      <4> QED
        BY <2>4, <3>1, <4>1, <4>2
    <3>2. CASE ~(k < i)
      <4>1. k - Len(a) \in 1..(n - i) /\ ~(k <= Len(a)) /\ i + (k - Len(a)) = k + 1
        BY <1>1, <2>4, <3>2
      <4>2. s[k] = b[k - Len(a)]
        BY <2>3, <2>4, <4>1
      <4>3. b[k - Len(a)] = players[i + (k - Len(a))]
        BY <2>4, <4>1
      <4> QED
        BY <3>2, <4>1, <4>2, <4>3
    <3> QED
      BY <3>1, <3>2
  <2> HIDE DEF s
  <2> QED
    BY <2>5, <2>6
<1>3. players' = s
  OBVIOUS
<1> HIDE DEF s
<1>4. DOMAIN players = 1..n /\ DOMAIN players' = 1..(n - 1)
  BY <1>1, <1>2, <1>3
<1>5. \A k \in 1..(n - 1) : \E m \in 1..n : m # i /\ players'[k] = players[m]
  <2> SUFFICES ASSUME NEW k \in 1..(n - 1)
               PROVE  \E m \in 1..n : m # i /\ players'[k] = players[m]
    OBVIOUS
  <2> DEFINE m == IF k < i THEN k ELSE k + 1
  <2>1. m \in 1..n /\ m # i
    BY <1>1
  <2>2. players'[k] = players[m]
    BY <1>2, <1>3
  <2> QED
    BY <2>1, <2>2
<1>6. \A j, k \in 1..(n - 1) : j # k => players'[j] # players'[k]
  <2> SUFFICES ASSUME NEW j \in 1..(n - 1), NEW k \in 1..(n - 1), j # k
               PROVE  players'[j] # players'[k]
    OBVIOUS
  <2> DEFINE up(x) == IF x < i THEN x ELSE x + 1
  <2>1. up(j) \in 1..n /\ up(k) \in 1..n /\ up(j) # up(k)
    BY <1>1
  <2>2. players'[j] = players[up(j)] /\ players'[k] = players[up(k)]
    BY <1>2, <1>3
  <2> HIDE DEF up
  <2> QED
    BY <1>1, <2>1, <2>2
<1>7. OneEach'
  BY <1>2, <1>3, <1>4, <1>6 DEF OneEach
<1>8. \A m \in 1..n : m # i => \E k \in 1..(n - 1) : players'[k] = players[m]
  <2> SUFFICES ASSUME NEW m \in 1..n, m # i
               PROVE  \E k \in 1..(n - 1) : players'[k] = players[m]
    OBVIOUS
  <2> DEFINE k == IF m < i THEN m ELSE m - 1
  <2>1. k \in 1..(n - 1)
    BY <1>1
  <2>2. players'[k] = players[m]
    BY <1>1, <1>2, <1>3, <2>1
  <2> QED
    BY <2>1, <2>2
<1>9. Present' = Present \ {players[i]}
  <2>1. /\ Present = {players[k] : k \in 1..n}
        /\ Present' = {players'[k] : k \in 1..(n - 1)}
    BY <1>4 DEF Present, ToSet
  <2>2. Present' \subseteq Present \ {players[i]}
    BY <1>1, <1>5, <2>1
  <2>3. Present \ {players[i]} \subseteq Present'
    BY <1>8, <2>1
  <2> QED
    BY <2>2, <2>3
<1> QED
  BY <1>7, <1>9

\* A player joins.
LEMMA JoinedStep ==
  ASSUME DownloadInv, NEW p \in Players, NEW size \in Files, EventPlayerJoined(p, size)
  PROVE  DownloadInv'
<1>1. /\ DownloadTypeOK /\ OneEach /\ Answers /\ HasFile /\ Fresh /\ StatusIsSaid
      /\ 0 \in 0..Parts /\ Parts \in 0..Parts /\ p \notin Present
  BY DownloadAssumption DEF DownloadInv, DownloadAssumption, EventPlayerJoined
<1>2. /\ players' = Append(players, p) /\ countdown' = FALSE
      /\ file' = [file EXCEPT ![p] = size]
      /\ received' = [received EXCEPT ![p] = IF size = Parts THEN Parts ELSE 0]
      /\ changed' = FALSE /\ untold' = {}
      /\ UNCHANGED <<lobby, mode, copy, started, finished, allowed, sent, acked, status>>
      /\ UNCHANGED <<counter, round, replied, said, ignored, misled>>
  BY DEF EventPlayerJoined, SendAllSlotInfo
<1>3. OneEach' /\ Present' = Present \cup {p}
  <2>1. /\ players \in Seq(Players) /\ Len(players) \in Nat /\ players' \in Seq(Players)
        /\ Len(players') = Len(players) + 1 /\ players'[Len(players) + 1] = p
        /\ \A k \in 1..Len(players) : players'[k] = players[k]
    BY <1>1, <1>2 DEF OneEach
  <2>2. \A k \in 1..Len(players) : players[k] # p
    BY <1>1, <2>1 DEF Present, ToSet
  <2>3. OneEach'
    BY <1>1, <2>1, <2>2 DEF OneEach
  <2>4. Present' = Present \cup {p}
    BY <2>1 DEF Present, ToSet
  <2> QED
    BY <2>3, <2>4
<1>4. DownloadTypeOK'
  BY <1>1, <1>2, <1>3 DEF DownloadTypeOK
<1>5. Answers'
  BY <1>1, <1>2 DEF Answers, Fresh, DownloadTypeOK
<1>6. HasFile'
  BY <1>1, <1>2 DEF HasFile, DownloadTypeOK
<1>7. StatusIsSaid' /\ Fresh'
  BY <1>1, <1>2, <1>3 DEF StatusIsSaid, Fresh, DownloadTypeOK, Unknown
<1>8. ShownOrChanged' /\ CountedWithMap' /\ SpeedKept'
  BY <1>2 DEF DownloadInv, ShownOrChanged, CountedWithMap, SpeedKept
<1> QED
  BY <1>3, <1>4, <1>5, <1>6, <1>7, <1>8 DEF DownloadInv

\* A player that is deleted takes with it all that is known of it.
LEMMA RemoveStep ==
  ASSUME DownloadInv, lobby, NEW p \in Present, RemovePlayer(p),
         UNCHANGED <<lobby, mode, copy, counter, round>>
  PROVE  DownloadInv'
<1>1. /\ DownloadTypeOK /\ OneEach /\ Answers /\ HasFile /\ Fresh /\ StatusIsSaid /\ p \in Players
      /\ Parts \in Nat /\ Parts > 0 /\ 0 \in 0..Parts /\ 0 \in Files /\ Window \in Nat
  BY DownloadAssumption DEF DownloadInv, DownloadTypeOK, DownloadAssumption
<1>2. OneEach' /\ Present' = Present \ {p}
  <2>1. PICK i \in DOMAIN players : players[i] = p /\ players' = RemoveAt(players, i)
    BY DEF RemovePlayer
  <2> QED
    BY <1>1, <2>1, RemoveAtKeeps
<1>3. /\ sent' = [sent EXCEPT ![p] = 0] /\ acked' = [acked EXCEPT ![p] = 0]
      /\ received' = [received EXCEPT ![p] = 0] /\ said' = [said EXCEPT ![p] = 0]
      /\ file' = [file EXCEPT ![p] = 0] /\ status' = [status EXCEPT ![p] = Unknown]
      /\ changed' = FALSE /\ untold' = {} /\ countdown' = FALSE
      /\ lobby' = lobby /\ counter' = counter /\ round' = round /\ mode' = mode /\ copy' = copy
      /\ replied' = replied \ {p} /\ misled' = misled \ {p}
  BY DEF RemovePlayer, SendAllSlotInfo
<1>4. DownloadTypeOK'
  <2>1. /\ sent' \in [Players -> 0..Parts] /\ acked' \in [Players -> Nat]
        /\ received' \in [Players -> 0..Parts] /\ said' \in [Players -> 0..Parts]
        /\ file' \in [Players -> Files]
    BY <1>1, <1>3 DEF DownloadTypeOK
  <2>2. status' \in [Players -> 0..100 \cup {Unknown}]
    BY <1>1, <1>3 DEF DownloadTypeOK
  <2>3. /\ started' \subseteq Players /\ finished' \subseteq started' /\ allowed' \subseteq started'
        /\ ignored' \subseteq started' /\ misled' \subseteq started' /\ replied' \subseteq Players
    BY <1>1 DEF DownloadTypeOK, RemovePlayer
  <2>4. Present' \subseteq Players
    BY <1>1, <1>2 DEF DownloadTypeOK
  <2>5. /\ lobby' \in BOOLEAN /\ changed' \in BOOLEAN /\ countdown' \in BOOLEAN /\ mode' \in Modes
        /\ copy' \in BOOLEAN /\ counter' \in Nat /\ round' \in 0..Rounds /\ untold' \subseteq Players
    BY <1>1, <1>3 DEF DownloadTypeOK
  <2> QED
    BY <2>1, <2>2, <2>3, <2>4, <2>5 DEF DownloadTypeOK
<1>5. Answers'
  <2> SUFFICES ASSUME NEW q \in Players
               PROVE  /\ said'[q] <= received'[q]
                      /\ q \notin misled' => acked'[q] <= said'[q] /\ sent'[q] - acked'[q] <= Window
    BY DEF Answers
  <2>1. CASE q = p
    <3>1. acked'[q] = 0 /\ said'[q] = 0 /\ received'[q] = 0 /\ sent'[q] = 0
      BY <1>1, <1>3, <2>1 DEF DownloadTypeOK
    <3> QED
      BY <1>1, <3>1
  <2>2. CASE q # p
    <3>1. /\ acked'[q] = acked[q] /\ said'[q] = said[q] /\ received'[q] = received[q]
          /\ sent'[q] = sent[q] /\ (q \in misled' <=> q \in misled)
      BY <1>1, <1>3, <2>2 DEF DownloadTypeOK
    <3> QED
      BY <1>1, <3>1 DEF Answers
  <2> QED
    BY <2>1, <2>2
<1>6. HasFile'
  BY <1>1, <1>3 DEF DownloadTypeOK, HasFile
<1>7. StatusIsSaid' /\ Fresh'
  BY <1>1, <1>2, <1>3 DEF DownloadTypeOK, StatusIsSaid, Fresh, Unknown
<1>8. ShownOrChanged' /\ CountedWithMap' /\ SpeedKept'
  BY <1>3 DEF DownloadInv, ShownOrChanged, CountedWithMap, SpeedKept
<1> QED
  BY <1>2, <1>4, <1>5, <1>6, <1>7, <1>8 DEF DownloadInv

\* Only a size that is not less than the map's has the status of a complete download.
LEMMA StatusesAre ==
  ASSUME NEW size \in Nat, NEW new \in Statuses(size)
  PROVE  new \in 0..100 /\ (new = 100 => size >= Parts)
<1>1. Parts \in Nat /\ Parts > 0 /\ Overflow \subseteq 0..255
  BY DownloadAssumption DEF DownloadAssumption
<1> DEFINE percent == (size * 100) \div Parts
<1>2. percent \in Nat
  BY <1>1
<1>3. size < Parts => percent < 100
  <2>1. Parts * percent <= size * 100
    BY <1>1
  <2>2. percent >= 100 => Parts * percent >= Parts * 100
    BY <1>1, <1>2
  <2> QED
    BY <1>1, <1>2, <2>1, <2>2
<1>4. PICK byte \in IF percent <= 255 THEN {percent} ELSE Overflow : new = AtMost(byte, 100)
  BY DEF Statuses
<1> HIDE DEF percent
<1> QED
  BY <1>1, <1>2, <1>3, <1>4 DEF AtMost

\* MAPSIZE of a client who tells of no less than before, and of no more than it has.
LEMMA TellStep ==
  ASSUME DownloadInv, NEW p \in Present, NEW flag, NEW parts \in 0..Parts,
         said[p] <= parts, parts <= received[p],
         parts = 0 => p \notin replied /\ received[p] = 0,
         p \notin replied => flag = 1,
         Tell(p, flag, parts)
  PROVE  DownloadInv'
<1> DEFINE size     == Word(p, parts)
           complete == flag = 1 /\ size = Parts
<1>1. /\ DownloadTypeOK /\ OneEach /\ Answers /\ HasFile /\ Fresh /\ StatusIsSaid /\ p \in Players
      /\ Window \in Nat /\ Parts \in Nat /\ Parts > 0 /\ Files \subseteq Nat
      /\ lobby /\ lobby' = lobby /\ mode' = mode /\ copy' = copy /\ counter' = counter
      /\ round' = round /\ EventPlayerMapSize(p, flag, size, parts)
  BY DownloadAssumption DEF DownloadInv, DownloadTypeOK, DownloadAssumption, Tell
<1>2. CASE ~complete /\ (mode = 0 \/ ~copy)
  <2>1. RemovePlayer(p)
    BY <1>1, <1>2 DEF EventPlayerMapSize
  <2> QED
    BY <1>1, <2>1, RemoveStep
<1>3. CASE complete \/ ~(mode = 0 \/ ~copy)
  <2>0. /\ size \in Nat /\ size = IF parts = 0 THEN file[p] ELSE parts
        /\ parts = 0 => size # Parts
    <3>1. size = IF parts = 0 THEN file[p] ELSE parts
      BY DEF Word
    <3>2. file[p] \in Nat /\ parts \in Nat
      <4>1. file[p] \in Files
        BY <1>1 DEF DownloadTypeOK
      <4>2. Files \subseteq Nat /\ Parts \in Nat /\ parts \in 0..Parts
        BY <1>1
      <4>3. file[p] \in Nat
        BY <4>1, <4>2, Zenon
      <4>4. parts \in Nat
        BY <4>2
      <4> QED
        BY <4>3, <4>4, Zenon
    <3>3. parts = 0 => file[p] # Parts
      <4>1. file[p] = Parts => received[p] = Parts
        BY <1>1 DEF HasFile
      <4>2. parts = 0 => received[p] = 0
        OBVIOUS
      <4> QED
        BY <4>1, <4>2, <1>1
    <3> HIDE DEF size
    <3> QED
      BY <3>1, <3>2, <3>3
  <2>1. /\ SetStatus(p, size) /\ replied' = replied \cup {p} /\ said' = [said EXCEPT ![p] = parts]
        /\ UNCHANGED <<players, countdown, allowed, sent, file, received>>
    BY <1>1, <1>3 DEF EventPlayerMapSize
  <2>2. Present' = Present
    BY <2>1 DEF Present
  <2>3. /\ started \subseteq started' /\ started' \subseteq started \cup {p}
        /\ ignored' = ignored \/ (p \in started /\ ignored' = ignored \cup {p})
        /\ \/ acked' = acked /\ misled' = misled
           \/ /\ acked' = [acked EXCEPT ![p] = size] /\ ~complete
              /\ misled' = IF p \notin replied /\ size # 0 THEN misled \cup {p} ELSE misled
              /\ flag # 1 \/ p \in started
    <3>1. CASE complete
      <4>1. UNCHANGED <<started, acked, ignored, misled>>
        BY <1>1, <3>1 DEF EventPlayerMapSize
      <4> QED
        BY <4>1
    <3>2. CASE ~complete
      <4>1. NeedsMap(p, flag, size)
        BY <1>1, <1>3, <3>2 DEF EventPlayerMapSize
      <4> HIDE DEF size
      <4> QED
        BY <3>2, <4>1 DEF NeedsMap
    <3> QED
      BY <3>1, <3>2
  <2>4. finished' = finished \/ (p \in started /\ finished' = finished \cup {p})
    BY <1>1, <1>3 DEF EventPlayerMapSize
  <2>5. PICK new \in Statuses(size) :
          /\ status' = [status EXCEPT ![p] = new]
          /\ IF status[p] # new THEN changed' = TRUE /\ untold' = untold \cup {p}
             ELSE UNCHANGED <<changed, untold>>
    BY <2>1 DEF SetStatus
  <2>6. new \in 0..100 /\ (new = 100 => size >= Parts)
    <3> HIDE DEF size
    <3> QED
      BY <2>0, StatusesAre
  <2> HIDE DEF size
  <2>7. misled' = misled \/ (misled' = misled \cup {p} /\ p \in started)
    <3>1. p \notin replied => flag = 1
      BY <1>1
    <3> QED
      BY <2>3, <3>1
  <2> HIDE DEF complete
  <2>8. DownloadTypeOK'
    <3>1. /\ sent' \in [Players -> 0..Parts] /\ acked' \in [Players -> Nat]
          /\ received' \in [Players -> 0..Parts] /\ said' \in [Players -> 0..Parts]
          /\ file' \in [Players -> Files]
      BY <1>1, <2>0, <2>1, <2>3 DEF DownloadTypeOK
    <3>2. status' \in [Players -> 0..100 \cup {Unknown}] /\ changed' \in BOOLEAN
          /\ untold' \subseteq Players
      BY <1>1, <2>5, <2>6 DEF DownloadTypeOK
    <3>3. /\ started' \subseteq Players /\ finished' \subseteq started'
          /\ allowed' \subseteq started' /\ ignored' \subseteq started'
          /\ misled' \subseteq started' /\ replied' \subseteq Players
      BY <1>1, <2>1, <2>3, <2>4, <2>7 DEF DownloadTypeOK
    <3>4. /\ Present' \subseteq Players /\ lobby' \in BOOLEAN /\ countdown' \in BOOLEAN
          /\ mode' \in Modes /\ copy' \in BOOLEAN /\ counter' \in Nat /\ round' \in 0..Rounds
      BY <1>1, <2>1, <2>2 DEF DownloadTypeOK
    <3> QED
      BY <3>1, <3>2, <3>3, <3>4 DEF DownloadTypeOK
  <2>9. Answers'
    <3> SUFFICES ASSUME NEW q \in Players
                 PROVE  /\ said'[q] <= received'[q]
                        /\ q \notin misled' =>
                             acked'[q] <= said'[q] /\ sent'[q] - acked'[q] <= Window
      BY DEF Answers
    <3>0. /\ acked[q] \in Nat /\ said[q] \in 0..Parts /\ sent[q] \in 0..Parts
          /\ received[q] \in 0..Parts /\ said[q] <= received[q]
          /\ q \notin misled => acked[q] <= said[q] /\ sent[q] - acked[q] <= Window
          /\ misled \subseteq misled'
      BY <1>1, <2>7 DEF DownloadTypeOK, Answers
    <3>1. CASE q = p
      <4>1. said'[q] = parts /\ received'[q] = received[q] /\ sent'[q] = sent[q]
        BY <1>1, <2>1, <3>1 DEF DownloadTypeOK
      <4>2. CASE acked' = acked
        BY <1>1, <3>0, <3>1, <4>1, <4>2
      <4>3. CASE acked' = [acked EXCEPT ![p] = size] /\ q \notin misled'
        <5>1. acked'[q] = size
          BY <1>1, <3>1, <4>3 DEF DownloadTypeOK
        <5>2. size = parts
          <6>1. CASE parts = 0
            <7>1. p \notin replied
              BY <6>1
            <7>2. size = 0 \/ acked' = acked
              BY <2>3, <3>1, <4>3, <7>1
            <7> QED
              BY <1>1, <2>0, <3>0, <3>1, <4>3, <5>1, <6>1, <7>2
          <6> QED
            BY <2>0, <6>1
        <5> QED
          BY <1>1, <3>0, <3>1, <4>1, <5>1, <5>2
      <4> QED
        BY <1>1, <2>3, <3>0, <3>1, <4>1, <4>2, <4>3
    <3>2. CASE q # p
      <4>1. /\ acked'[q] = acked[q] /\ said'[q] = said[q] /\ received'[q] = received[q]
            /\ sent'[q] = sent[q]
        BY <1>1, <2>1, <2>3, <3>2 DEF DownloadTypeOK
      <4> QED
        BY <3>0, <4>1
    <3> QED
      BY <3>1, <3>2
  <2>10. HasFile'
    BY <1>1, <2>1 DEF HasFile
  <2>11. StatusIsSaid'
    <3> SUFFICES ASSUME NEW q \in Players, status'[q] = 100
                 PROVE  said'[q] = Parts \/ (said'[q] = 0 /\ file'[q] > Parts)
      BY DEF StatusIsSaid
    <3>1. CASE q = p
      <4>1. said'[q] = parts /\ file'[q] = file[q] /\ size >= Parts
        BY <1>1, <2>1, <2>5, <2>6, <3>1 DEF DownloadTypeOK
      <4> QED
        BY <1>1, <2>0, <3>1, <4>1
    <3>2. CASE q # p
      BY <1>1, <2>1, <2>5, <3>2 DEF DownloadTypeOK, StatusIsSaid
    <3> QED
      BY <3>1, <3>2
  <2>12. Fresh'
    BY <1>1, <2>1, <2>2, <2>5 DEF Fresh, DownloadTypeOK
  <2>13. ShownOrChanged'
    BY <1>1, <2>5 DEF DownloadInv, ShownOrChanged
  <2>14. CountedWithMap' /\ SpeedKept' /\ OneEach'
    BY <1>1, <2>1, <2>2 DEF DownloadInv, CountedWithMap, SpeedKept, OneEach
  <2> QED
    BY <2>8, <2>9, <2>10, <2>11, <2>12, <2>13, <2>14 DEF DownloadInv
<1> QED
  BY <1>2, <1>3

\* What a client says first, and each of its acknowledgements.
LEMMA ClientStep ==
  ASSUME DownloadInv, NEW p \in Players, Reply(p) \/ Acknowledge(p)
  PROVE  DownloadInv'
<1>1. /\ said[p] \in 0..Parts /\ received[p] \in 0..Parts /\ said[p] <= received[p]
      /\ Parts \in Nat
  BY DownloadAssumption DEF DownloadInv, DownloadAssumption, DownloadTypeOK, Answers
<1>2. CASE Reply(p)
  <2>1. p \in Present /\ p \notin replied /\ Tell(p, 1, received[p])
    BY <1>2 DEF Reply
  <2> QED
    BY <1>1, <2>1, TellStep
<1>3. CASE Acknowledge(p)
  <2> DEFINE parts == said[p] + 1
             flag  == IF parts = Parts THEN 1 ELSE 3
  <2>1. p \in Present /\ p \in replied /\ said[p] < received[p] /\ Tell(p, flag, parts)
    BY <1>3 DEF Acknowledge
  <2>2. parts \in 0..Parts /\ parts # 0 /\ said[p] <= parts /\ parts <= received[p]
    BY <1>1, <2>1
  <2> HIDE DEF parts, flag
  <2> QED
    BY <2>1, <2>2, TellStep
<1> QED
  BY <1>2, <1>3

\* A client that receives one more part of those it was sent.
LEMMA ReceiveStep ==
  ASSUME DownloadInv, NEW p \in Players, Receive(p)
  PROVE  DownloadInv'
<1>1. /\ DownloadTypeOK /\ Answers /\ HasFile /\ Parts \in Nat /\ received[p] < sent[p]
      /\ received' = [received EXCEPT ![p] = @ + 1]
      /\ UNCHANGED <<server, replied, file, said, hist>>
  BY DownloadAssumption DEF DownloadInv, DownloadAssumption, Receive
<1>2. /\ UNCHANGED <<players, lobby, countdown, mode, copy, started, finished, allowed, sent>>
      /\ UNCHANGED <<acked, status, changed, counter, round, replied, file, said>>
      /\ UNCHANGED <<untold, ignored, misled>>
  BY <1>1 DEF server, hist
<1>3. received[p] \in 0..Parts /\ sent[p] \in 0..Parts
  BY <1>1 DEF DownloadTypeOK
<1>4. received[p] + 1 \in 0..Parts /\ received[p] # Parts
  BY <1>1, <1>3
<1>5. received' \in [Players -> 0..Parts]
  BY <1>1, <1>4 DEF DownloadTypeOK
<1>6. Present' = Present
  BY <1>2 DEF Present
<1>7. DownloadTypeOK'
  BY <1>1, <1>2, <1>5, <1>6 DEF DownloadTypeOK
<1>8. Answers'
  <2> SUFFICES ASSUME NEW q \in Players PROVE said[q] <= received'[q]
    BY <1>1, <1>2 DEF Answers
  <2>1. said[q] <= received[q] /\ received[q] \in 0..Parts /\ said[q] \in 0..Parts
    BY <1>1 DEF Answers, DownloadTypeOK
  <2>2. received'[q] = received[q] \/ received'[q] = received[q] + 1
    BY <1>1 DEF DownloadTypeOK
  <2> QED
    BY <2>1, <2>2
<1>9. HasFile'
  BY <1>1, <1>2, <1>4 DEF HasFile, DownloadTypeOK
<1>10. CountedWithMap'
  <2> SUFFICES ASSUME countdown, NEW q \in Present PROVE received'[q] = Parts \/ file[q] > Parts
    BY <1>2, <1>6 DEF CountedWithMap
  <2>1. received[q] = Parts \/ file[q] > Parts
    BY DEF DownloadInv, CountedWithMap
  <2>2. q = p \/ received'[q] = received[q]
    BY <1>1 DEF DownloadTypeOK
  <2> QED
    BY <1>4, <2>1, <2>2
<1>11. OneEach' /\ SpeedKept' /\ StatusIsSaid' /\ Fresh' /\ ShownOrChanged'
  BY <1>2, <1>6 DEF DownloadInv, OneEach, SpeedKept, StatusIsSaid, Fresh, ShownOrChanged
<1> QED
  BY <1>7, <1>8, <1>9, <1>10, <1>11 DEF DownloadInv

\* A round of Update.
LEMMA UpdateStep ==
  ASSUME DownloadInv, Update
  PROVE  DownloadInv'
<1> DEFINE second == round + 1 >= Rounds
           used   == IF second THEN 0 ELSE counter
<1>1. /\ DownloadTypeOK /\ OneEach /\ Answers /\ lobby /\ SendParts(used)
      /\ round' = (IF second THEN 0 ELSE round + 1)
      /\ (changed' = FALSE /\ untold' = {}) \/ UNCHANGED <<changed, untold>>
      /\ UNCHANGED <<players, lobby, countdown, mode, copy, started, finished, allowed, acked,
                     status, client, ignored, misled>>
  BY DEF DownloadInv, Update, SendAllSlotInfo
<1>2. UNCHANGED <<replied, file, received, said>>
  BY <1>1 DEF client
<1>3. Rounds \in Nat /\ Rounds > 0 /\ MaxSpeed \in Nat
  BY DownloadAssumption DEF DownloadAssumption
<1>4. used \in Nat /\ (MaxSpeed > 0 => used <= MaxSpeed)
  BY <1>1, <1>3 DEF DownloadInv, DownloadTypeOK, SpeedKept
<1>5. /\ sent' \in [Players -> 0..Parts] /\ counter' \in Nat
      /\ \A p \in Players : sent[p] - acked[p] <= Window => sent'[p] - acked[p] <= Window
      /\ MaxSpeed > 0 => counter' <= MaxSpeed
  <2>1. /\ players \in Seq(Players) /\ acked \in [Players -> Nat]
        /\ sent \in [Players -> 0..Parts]
    BY <1>1 DEF DownloadTypeOK, OneEach
  <2> HIDE DEF used
  <2> QED
    BY <1>1, <1>4, <2>1, RoundWithin
<1>6. Present' = Present
  BY <1>1 DEF Present
<1>7. DownloadTypeOK'
  <2>1. round' \in 0..Rounds
    BY <1>1, <1>3 DEF DownloadTypeOK
  <2>2. changed' \in BOOLEAN /\ untold' \subseteq Players
    BY <1>1 DEF DownloadTypeOK
  <2> QED
    BY <1>1, <1>2, <1>5, <1>6, <2>1, <2>2 DEF DownloadTypeOK
<1>8. Answers'
  BY <1>1, <1>2, <1>5 DEF Answers
<1>9. ShownOrChanged'
  BY <1>1 DEF DownloadInv, ShownOrChanged
<1>10. OneEach' /\ SpeedKept' /\ HasFile' /\ StatusIsSaid' /\ Fresh' /\ CountedWithMap'
  BY <1>1, <1>2, <1>5, <1>6 DEF DownloadInv, OneEach, SpeedKept, HasFile, StatusIsSaid, Fresh,
     CountedWithMap
<1> QED
  BY <1>7, <1>8, <1>9, <1>10 DEF DownloadInv

\* The countdown begins when all statuses are complete; it ends with nothing, or the game.
LEMMA CountDownStep ==
  ASSUME DownloadInv, StartCountDown \/ Abort \/ EventGameStarted
  PROVE  DownloadInv'
<1>1. /\ DownloadTypeOK /\ Answers /\ Parts \in Nat
      /\ UNCHANGED <<players, mode, copy, started, finished, allowed, sent, acked, status>>
      /\ UNCHANGED <<counter, round, replied, file, received, said, ignored, misled>>
      /\ lobby' \in BOOLEAN /\ countdown' \in BOOLEAN
      /\ (changed' = FALSE /\ untold' = {}) \/ UNCHANGED <<changed, untold>>
      /\ lobby' = lobby \/ ~changed'
      /\ countdown' => countdown \/ \A p \in Present : status[p] = 100
  <2>1. DownloadTypeOK /\ Answers /\ Parts \in Nat
    BY DownloadAssumption DEF DownloadInv, DownloadAssumption
  <2>2. CASE StartCountDown \/ Abort
    <3>1. UNCHANGED <<client, hist>>
      BY <2>2 DEF StartCountDown, Abort
    <3> QED
      BY <2>1, <2>2, <3>1 DEF DownloadTypeOK, StartCountDown, Abort, client, hist
  <2>3. CASE EventGameStarted
    BY <2>1, <2>3 DEF DownloadTypeOK, EventGameStarted, SendAllSlotInfo, client
  <2> QED
    BY <2>2, <2>3
<1>2. Present' = Present
  BY <1>1 DEF Present
<1>3. DownloadTypeOK'
  BY <1>1, <1>2 DEF DownloadTypeOK
<1>4. CountedWithMap'
  <2> SUFFICES ASSUME countdown', NEW p \in Present
               PROVE  received[p] = Parts \/ file[p] > Parts
    BY <1>1, <1>2 DEF CountedWithMap
  <2>1. CASE countdown
    BY <2>1 DEF DownloadInv, CountedWithMap
  <2>2. CASE status[p] = 100
    <3>1. p \in Players /\ said[p] <= received[p] /\ received[p] \in 0..Parts
      BY <1>1 DEF DownloadTypeOK, Answers
    <3>2. said[p] = Parts \/ file[p] > Parts
      BY <2>2, <3>1 DEF DownloadInv, StatusIsSaid
    <3> QED
      BY <1>1, <3>1, <3>2
  <2> QED
    BY <1>1, <2>1, <2>2
<1>5. ShownOrChanged'
  BY <1>1 DEF DownloadInv, ShownOrChanged
<1>6. Answers' /\ OneEach' /\ SpeedKept' /\ HasFile' /\ StatusIsSaid' /\ Fresh'
  BY <1>1, <1>2 DEF DownloadInv, Answers, OneEach, SpeedKept, HasFile, StatusIsSaid, Fresh
<1> QED
  BY <1>3, <1>4, <1>5, <1>6 DEF DownloadInv

\* The commands.
LEMMA CommandStep ==
  ASSUME DownloadInv,
         \/ \E p \in Players : Download(p) \/ PlayerLeaves(p)
         \/ \E m \in Modes : SetDownloads(m)
  PROVE  DownloadInv'
<1>1. DownloadTypeOK
  BY DEF DownloadInv
<1>2. ASSUME NEW p \in Players, PlayerLeaves(p) PROVE DownloadInv'
  BY <1>2, RemoveStep DEF PlayerLeaves
<1>3. ASSUME /\ started \subseteq started' /\ started' \subseteq Players
             /\ allowed' \subseteq started' /\ mode' \in Modes
             /\ UNCHANGED <<players, lobby, countdown, copy, finished, sent, acked, status>>
             /\ UNCHANGED <<changed, counter, round, client, hist>>
      PROVE  DownloadInv'
  <2>1. UNCHANGED <<replied, file, received, said, untold, ignored, misled>>
    BY <1>3 DEF client, hist
  <2>2. Present' = Present
    BY <1>3 DEF Present
  <2>3. DownloadTypeOK'
    BY <1>1, <1>3, <2>1, <2>2 DEF DownloadTypeOK
  <2>4. OneEach' /\ Answers' /\ HasFile' /\ SpeedKept' /\ StatusIsSaid' /\ Fresh'
    BY <1>3, <2>1, <2>2 DEF DownloadInv, OneEach, Answers, HasFile, SpeedKept, StatusIsSaid, Fresh
  <2>5. ShownOrChanged' /\ CountedWithMap'
    BY <1>3, <2>1, <2>2 DEF DownloadInv, ShownOrChanged, CountedWithMap
  <2> QED
    BY <2>3, <2>4, <2>5 DEF DownloadInv
<1>4. ASSUME NEW p \in Players, Download(p) PROVE DownloadInv'
  BY <1>1, <1>3, <1>4 DEF Download, DownloadTypeOK
<1>5. ASSUME NEW m \in Modes, SetDownloads(m) PROVE DownloadInv'
  BY <1>1, <1>3, <1>5 DEF SetDownloads, DownloadTypeOK
<1> QED
  BY <1>2, <1>4, <1>5

LEMMA DownloadStep ==
  ASSUME DownloadInv, [DownloadNext]_downloadVars
  PROVE  DownloadInv'
<1>1. CASE UNCHANGED downloadVars
  <2>1. /\ UNCHANGED <<players, lobby, countdown, mode, copy, started, finished, allowed, sent>>
        /\ UNCHANGED <<acked, status, changed, counter, round, replied, file, received, said>>
        /\ UNCHANGED <<untold, ignored, misled>>
    BY <1>1 DEF downloadVars, server, client, hist
  <2>2. Present' = Present
    BY <2>1 DEF Present
  <2>3. DownloadTypeOK'
    BY <2>1, <2>2 DEF DownloadInv, DownloadTypeOK
  <2> QED
    BY <2>1, <2>2, <2>3 DEF DownloadInv, OneEach, Answers, HasFile, SpeedKept, StatusIsSaid,
       Fresh, ShownOrChanged, CountedWithMap
<1>2. CASE DownloadNext
  BY <1>2, JoinedStep, ClientStep, ReceiveStep, UpdateStep, CountDownStep, CommandStep
     DEF DownloadNext
<1> QED
  BY <1>1, <1>2

\* The invariant says both properties.
LEMMA DownloadInvSays == DownloadInv => LimitsKept /\ SlotsAreTrue
<1> SUFFICES ASSUME DownloadInv PROVE LimitsKept /\ SlotsAreTrue
  OBVIOUS
<1>1. DownloadTypeOK /\ Answers /\ Parts \in Nat /\ Window \in Nat
  BY DownloadAssumption DEF DownloadInv, DownloadAssumption
<1>2. ASSUME NEW p \in Present
      PROVE  /\ p \notin misled => sent[p] - received[p] <= Window
             /\ status[p] = 100 => received[p] = Parts \/ (said[p] = 0 /\ file[p] > Parts)
  <2>1. p \in Players
    BY <1>1 DEF DownloadTypeOK
  <2>2. /\ sent[p] \in 0..Parts /\ acked[p] \in Nat /\ said[p] \in 0..Parts
        /\ received[p] \in 0..Parts /\ said[p] <= received[p]
        /\ p \notin misled => acked[p] <= said[p] /\ sent[p] - acked[p] <= Window
    BY <1>1, <2>1 DEF DownloadTypeOK, Answers
  <2>3. status[p] = 100 => said[p] = Parts \/ (said[p] = 0 /\ file[p] > Parts)
    BY <2>1 DEF DownloadInv, StatusIsSaid
  <2> QED
    BY <1>1, <2>2, <2>3
<1>3. WindowKept /\ EverybodyHasTheMap
  BY <1>2 DEF WindowKept, EverybodyHasTheMap, DownloadInv, CountedWithMap
<1>4. SlotsShown
  BY DEF SlotsShown, DownloadInv, ShownOrChanged
<1> QED
  BY <1>1, <1>3, <1>4 DEF LimitsKept, SlotsAreTrue, DownloadInv

\* Neither more than 100 parts ahead of any client nor more than bot_maxdownloadspeed and
\* one part in a second: the window and the download counter of Update hold in any order of
\* joining and leaving, rounds, acknowledgements and changes of the options, for any lobby and
\* map.  Only a client whose own file was taken for an acknowledgement may be sent more.
THEOREM DownloadLimits == DownloadSpec => []LimitsKept
<1>1. DownloadInit => DownloadInv
  BY DownloadInvInit
<1>2. DownloadInv /\ [DownloadNext]_downloadVars => DownloadInv'
  BY DownloadStep
<1>3. DownloadInv => LimitsKept
  BY DownloadInvSays
<1> QED
  BY <1>1, <1>2, <1>3, PTL DEF DownloadSpec

\* Whatever sizes clients report, and whatever becomes of a percentage that does not fit in
\* an unsigned char: a slot shows a complete download only for a player who has the map, or has
\* just reported a file that is larger; a countdown that was not forced runs, and ends in a
\* game, only with players who have the map or joined with a larger file; and everybody has
\* been told the slots the game starts with.
THEOREM SlotsToldTrue == DownloadSpec => []SlotsAreTrue
<1>1. DownloadInit => DownloadInv
  BY DownloadInvInit
<1>2. DownloadInv /\ [DownloadNext]_downloadVars => DownloadInv'
  BY DownloadStep
<1>3. DownloadInv => SlotsAreTrue
  BY DownloadInvSays
<1> QED
  BY <1>1, <1>2, <1>3, PTL DEF DownloadSpec

-----------------------------------------------------------------------------
(* Slots: the invariant                                                    *)

SlotType ==
  [status : {"open", "closed", "computer", "player"}, pid : Players \cup {Nobody},
   team : 0..Observer \cup {255},
   colour : 0..NumColours - 1 \cup {Observer}, race : {"own", "random", "picked"}]

\* Each player of the game is in one slot, and nobody else is.
Seated ==
  /\ \A s \in Slots : slots[s].status = "player" <=> slots[s].pid # Nobody
  /\ \A s \in Slots : slots[s].pid \in players \cup {Nobody}
  /\ \A p \in players : \E s \in Slots : slots[s].pid = p
  /\ \A s, t \in Slots : slots[s].pid = slots[t].pid /\ slots[s].pid # Nobody => s = t

\* Without custom forces and scores, the players who observe and those who have the
\* observers' colour are the same.
ObserversKnown ==
  ~map.custom /\ ~map.scored =>
    \A s \in Slots : slots[s].status = "player" =>
      (slots[s].team = Observer <=> slots[s].colour = Observer)

\* What the map prescribes for good.
Prescribed ==
  /\ map.fixed => \A s \in Slots : Layout(slots[s]) = Layout(MapSlot(map, s))
  /\ map.randomRaces => \A s \in Slots : slots[s].race = "random"

SlotInv ==
  /\ map \in Maps /\ players \subseteq Players /\ slots \in [1..map.numSlots -> SlotType]
  /\ Seated /\ ColoursDiffer /\ ObserversKnown /\ Prescribed

\* The steps of the two action properties.
Uncrowded ==
  ~map.custom /\ ~map.scored /\ ~(RegularPlayers' \subseteq RegularPlayers) =>
    Cardinality({s \in Slots : Occupied(s)' /\ slots'[s].team # Observer}) <= map.numPlayers

Kept ==
  \A s \in Slots :
    /\ map.custom /\ slots[s].status # "computer" => slots'[s].team = slots[s].team
    /\ map.fixed => Layout(slots'[s]) = Layout(slots[s])
    /\ map.randomRaces => slots'[s].race = "random"

\* What is known of the map.
LEMMA MapFacts ==
  ASSUME SlotInv
  PROVE  /\ map.numPlayers \in 1..12 /\ map.numSlots \in 1..12
         /\ map.numPlayers <= map.numSlots
         /\ map.custom \in BOOLEAN /\ map.fixed \in BOOLEAN /\ map.scored \in BOOLEAN
         /\ map.randomRaces \in BOOLEAN
         /\ map.fixed => map.custom
         /\ Slots = 1..map.numSlots /\ Colours = 0..NumColours - 1
         /\ NumColours \in map.numSlots..12
         /\ IsFiniteSet(Slots) /\ Cardinality(Slots) = map.numSlots
<1>1. map \in Maps /\ slots \in [1..map.numSlots -> SlotType]
  BY DEF SlotInv
<1>2. /\ map.numPlayers \in 1..MaxSlots /\ map.numSlots \in 1..MaxSlots
      /\ map.custom \in BOOLEAN /\ map.fixed \in BOOLEAN /\ map.scored \in BOOLEAN
      /\ map.randomRaces \in BOOLEAN
      /\ map.numPlayers <= map.numSlots /\ MaxSlots \in 1..12 /\ NumColours \in MaxSlots..12
  BY <1>1, SlotTableAssumption DEF SlotTableAssumption, Observer
<1>2a. map.fixed => map.custom
  BY <1>1, SlotTableAssumption DEF SlotTableAssumption
<1>3. Slots = 1..map.numSlots
  BY <1>1 DEF Slots
<1>4. ASSUME NEW n \in 1..12 PROVE IsFiniteSet(1..n) /\ Cardinality(1..n) = n
  <2>1. 1 \in Int /\ n \in Int /\ ~(1 > n) /\ n - 1 + 1 = n
    OBVIOUS
  <2> QED
    BY <2>1, FS_Interval
<1>5. /\ map.numPlayers \in 1..12 /\ map.numSlots \in 1..12
      /\ NumColours \in map.numSlots..12
  BY <1>2
<1>6. IsFiniteSet(Slots) /\ Cardinality(Slots) = map.numSlots
  BY <1>3, <1>4, <1>5
<1> QED
  BY <1>2, <1>2a, <1>3, <1>5, <1>6 DEF Colours

\* The players of the map are not its computers.
LEMMA SlotFacts ==
  ASSUME SlotInv, NEW s \in Slots
  PROVE  /\ slots[s] \in SlotType
         /\ slots[s].pid \in players \cup {Nobody}
         /\ slots[s].status = "player" <=> slots[s].pid # Nobody
<1>1. s \in 1..map.numSlots /\ slots \in [1..map.numSlots -> SlotType]
  BY MapFacts DEF SlotInv
<1> QED
  BY <1>1 DEF SlotInv, Seated

-----------------------------------------------------------------------------
(* Slots: what only rearranges                                             *)

\* The permutations of the slots, and the one that leaves them where they are.
Perms == {f \in [Slots -> Slots] : /\ \A s, t \in Slots : f[s] = f[t] => s = t
                                   /\ \A t \in Slots : \E s \in Slots : f[s] = t}
InPlace == [s \in Slots |-> s]

\* Who sits in slot s comes from f[s], its team from h[s], its colour and race from g[s].
Arranged(f, h, g) ==
  [s \in Slots |-> [status |-> slots[f[s]].status, pid |-> slots[f[s]].pid,
                    team |-> slots[h[s]].team,
                    colour |-> slots[g[s]].colour, race |-> slots[g[s]].race]]

LEMMA InPlaceIsPerm == InPlace \in Perms
BY DEF InPlace, Perms

\* Who occupies the slots and what the slots give may be permuted by themselves, but on a
\* map without custom forces only together.
LEMMA ArrangedStep ==
  ASSUME SlotInv, UNCHANGED <<map, players>>,
         NEW f \in Perms, NEW h \in Perms, NEW g \in Perms, slots' = Arranged(f, h, g),
         IF map.custom THEN h = InPlace ELSE f = h /\ f = g,
         map.fixed => g = InPlace
  PROVE  SlotInv' /\ Kept /\ Uncrowded
<1>1. /\ Slots' = Slots /\ SlotType' = SlotType /\ Colours' = Colours
      /\ \A s \in Slots : f[s] \in Slots /\ h[s] \in Slots /\ g[s] \in Slots
  BY DEF Slots, SlotType, Arranged, Perms, Colours
<1>2. \A s \in Slots : /\ slots'[s].status = slots[f[s]].status /\ slots'[s].pid = slots[f[s]].pid
                       /\ slots'[s].team = slots[h[s]].team
                       /\ slots'[s].colour = slots[g[s]].colour /\ slots'[s].race = slots[g[s]].race
  BY DEF Arranged
<1>3. map' \in Maps /\ players' \subseteq Players /\ slots' \in [1..map'.numSlots -> SlotType']
  <2>1. \A s \in Slots : slots[s] \in SlotType
    BY SlotFacts
  <2>2. \A s \in Slots : Arranged(f, h, g)[s] \in SlotType
    BY <1>1, <2>1 DEF Arranged, SlotType
  <2>3. slots' \in [Slots -> SlotType]
    BY <2>2 DEF Arranged
  <2> QED
    BY <1>1, <2>3, MapFacts DEF SlotInv
<1>4. Seated'
  <2>0. /\ \A s, t \in Slots : f[s] = f[t] => s = t
        /\ \A t \in Slots : \E s \in Slots : f[s] = t
    BY DEF Perms
  <2>1. \A s \in Slots' : slots'[s].status = "player" <=> slots'[s].pid # Nobody
    BY <1>1, <1>2, SlotFacts
  <2>2. \A s \in Slots' : slots'[s].pid \in players' \cup {Nobody}
    BY <1>1, <1>2, SlotFacts
  <2>3. ASSUME NEW p \in players' PROVE \E s \in Slots' : slots'[s].pid = p
    <3>1. PICK t \in Slots : slots[t].pid = p
      BY DEF SlotInv, Seated
    <3> QED
      BY <2>0, <3>1, <1>1, <1>2
  <2>4. ASSUME NEW s \in Slots', NEW t \in Slots', slots'[s].pid = slots'[t].pid,
               slots'[s].pid # Nobody
        PROVE  s = t
    <3>1. f[s] = f[t]
      BY <2>4, <1>1, <1>2 DEF SlotInv, Seated
    <3> QED
      BY <3>1, <2>0, <1>1
  <2> QED
    BY <2>1, <2>2, <2>3, <2>4 DEF Seated
<1>5. ColoursDiffer'
  <2> SUFFICES ASSUME NEW s \in Slots, NEW t \in Slots, s # t,
                      slots'[s].colour = slots'[t].colour
               PROVE  slots'[s].colour = Observer
    BY <1>1 DEF ColoursDiffer
  <2>1. g[s] # g[t]
    BY DEF Perms
  <2> QED
    BY <2>1, <1>1, <1>2 DEF SlotInv, ColoursDiffer
<1>6. ObserversKnown'
  <2> SUFFICES ASSUME ~map.custom, ~map.scored, NEW s \in Slots, slots'[s].status = "player"
               PROVE  slots'[s].team = Observer <=> slots'[s].colour = Observer
    BY <1>1 DEF ObserversKnown
  <2> QED
    BY <1>1, <1>2 DEF SlotInv, ObserversKnown
<1>7. Prescribed' /\ Kept
  <2>1. map.randomRaces => \A s \in Slots : slots'[s].race = "random"
    BY <1>1, <1>2 DEF SlotInv, Prescribed
  <2>2. ASSUME map.fixed, NEW s \in Slots PROVE Layout(slots'[s]) = Layout(slots[s])
    <3>1. g[s] = s /\ h[s] = s
      BY <2>2, MapFacts DEF InPlace
    <3> QED
      BY <3>1, <1>2 DEF Layout
  <2>3. ASSUME map.custom, NEW s \in Slots PROVE slots'[s].team = slots[s].team
    BY <2>3, <1>2 DEF InPlace
  <2>4. \A s \in Slots : MapSlot(map, s)' = MapSlot(map, s)
    BY DEF MapSlot, With, Empty
  <2>5. ASSUME map.fixed, NEW s \in Slots PROVE Layout(slots[s]) = Layout(MapSlot(map, s))
    BY <2>5 DEF SlotInv, Prescribed
  <2>6. \A s \in Slots : Layout(slots[s])' = Layout(slots'[s])
    BY DEF Layout
  <2>7. Prescribed'
    BY <1>1, <2>1, <2>2, <2>4, <2>5, <2>6 DEF Prescribed, Layout
  <2>8. Kept
    BY <2>1, <2>2, <2>3 DEF Kept
  <2> QED
    BY <2>7, <2>8
<1>8. Uncrowded
  <2> SUFFICES ASSUME ~map.custom, NEW p \in RegularPlayers' PROVE p \in RegularPlayers
    BY DEF Uncrowded
  <2>1. PICK s \in Slots : /\ slots'[s].status = "player" /\ slots'[s].team # Observer
                           /\ p = slots'[s].pid
    BY <1>1 DEF RegularPlayers, Movable
  <2>2. f[s] \in Movable
    BY <2>1, <1>1, <1>2 DEF Movable
  <2> QED
    BY <2>1, <2>2, <1>2 DEF RegularPlayers
<1> QED
  BY <1>3, <1>4, <1>5, <1>6, <1>7, <1>8 DEF SlotInv

\* Two slots exchanged.
Swap(s, t) == [x \in Slots |-> IF x = s THEN t ELSE IF x = t THEN s ELSE x]

LEMMA SwapIsPerm == ASSUME NEW s \in Slots, NEW t \in Slots PROVE Swap(s, t) \in Perms
<1> DEFINE f == Swap(s, t)
<1>1. f \in [Slots -> Slots] /\ \A x \in Slots : f[f[x]] = x
  BY DEF Swap
<1> HIDE DEF f
<1>2. \A x, y \in Slots : f[x] = f[y] => x = y
  BY <1>1
<1>3. \A y \in Slots : \E x \in Slots : f[x] = y
  BY <1>1
<1> QED
  BY <1>1, <1>2, <1>3 DEF Perms, f

LEMMA SlotIsRecord ==
  ASSUME SlotInv, NEW s \in Slots
  PROVE  slots[s] = [status |-> slots[s].status, pid |-> slots[s].pid, team |-> slots[s].team,
                     colour |-> slots[s].colour, race |-> slots[s].race]
BY SlotFacts DEF SlotType

LEMMA ExchangedArranges ==
  ASSUME SlotInv, NEW s \in Slots, NEW t \in Slots
  PROVE  Exchanged(slots, s, t) = Arranged(Swap(s, t), InPlace, InPlace)
<1> DEFINE a == Exchanged(slots, s, t)
           b == Arranged(Swap(s, t), InPlace, InPlace)
<1>1. slots \in [Slots -> SlotType]
  BY MapFacts DEF SlotInv
<1>2. a = [x \in Slots |-> IF x = t THEN With(Occupant(slots[s]), Layout(slots[t]))
                           ELSE IF x = s THEN With(Occupant(slots[t]), Layout(slots[s]))
                           ELSE slots[x]]
  BY <1>1 DEF Exchanged
<1>3. \A x \in Slots : a[x] = b[x]
  BY <1>2, SlotIsRecord DEF With, Occupant, Layout, Arranged, Swap, InPlace
<1> QED
  BY <1>2, <1>3 DEF Arranged

LEMMA SwappedForcesArranges ==
  ASSUME SlotInv, NEW s \in Slots, NEW t \in Slots
  PROVE  SwappedForces(s, t) = Arranged(Swap(s, t), IF map.custom THEN InPlace ELSE Swap(s, t),
                                        Swap(s, t))
<1> DEFINE a == SwappedForces(s, t)
           b == Arranged(Swap(s, t), IF map.custom THEN InPlace ELSE Swap(s, t), Swap(s, t))
<1>1. slots \in [Slots -> SlotType] /\ slots[s] \in SlotType /\ slots[t] \in SlotType
  BY MapFacts DEF SlotInv
<1>2. CASE map.custom
  <2> DEFINE S == [slots[t] EXCEPT !.team = slots[s].team]
             T == [slots[s] EXCEPT !.team = slots[t].team]
  <2>1. a = [x \in Slots |-> IF x = t THEN T ELSE IF x = s THEN S ELSE slots[x]]
    BY <1>1, <1>2 DEF SwappedForces
  <2>2. /\ S = [status |-> slots[t].status, pid |-> slots[t].pid, team |-> slots[s].team,
                colour |-> slots[t].colour, race |-> slots[t].race]
        /\ T = [status |-> slots[s].status, pid |-> slots[s].pid, team |-> slots[t].team,
                colour |-> slots[s].colour, race |-> slots[s].race]
    BY <1>1 DEF SlotType
  <2> HIDE DEF S, T
  <2>3. \A x \in Slots : a[x] = b[x]
    BY <2>1, <2>2, <1>2, SlotIsRecord DEF Arranged, Swap, InPlace
  <2> QED
    BY <2>1, <2>3 DEF Arranged
<1>3. CASE ~map.custom
  <2>1. a = [x \in Slots |-> IF x = t THEN slots[s] ELSE IF x = s THEN slots[t] ELSE slots[x]]
    BY <1>1, <1>3 DEF SwappedForces
  <2>2. \A x \in Slots : a[x] = b[x]
    BY <2>1, <1>3, SlotIsRecord DEF Arranged, Swap
  <2> QED
    BY <2>1, <2>2 DEF Arranged
<1> QED
  BY <1>2, <1>3

LEMMA SwappedStep ==
  ASSUME SlotInv, UNCHANGED <<map, players>>, NEW s \in Slots, NEW t \in Slots,
         slots' = Swapped(s, t)
  PROVE  SlotInv' /\ Kept /\ Uncrowded
<1>0. Swap(s, t) \in Perms /\ InPlace \in Perms
  BY SwapIsPerm, InPlaceIsPerm
<1>1. CASE map.fixed
  <2>1. slots' = Arranged(Swap(s, t), InPlace, InPlace)
    BY <1>1, ExchangedArranges DEF Swapped
  <2> QED
    BY <2>1, <1>0, <1>1, MapFacts, ArrangedStep
<1>2. CASE ~map.fixed
  <2> DEFINE h == IF map.custom THEN InPlace ELSE Swap(s, t)
  <2>1. slots' = Arranged(Swap(s, t), h, Swap(s, t))
    BY <1>2, SwappedForcesArranges DEF Swapped
  <2>2. h \in Perms /\ IF map.custom THEN h = InPlace ELSE Swap(s, t) = h
    BY <1>0
  <2> HIDE DEF h
  <2> QED
    BY <2>1, <2>2, <1>0, <1>2, ArrangedStep
<1> QED
  BY <1>1, <1>2

LEMMA ShuffleStep == ASSUME SlotInv, ShuffleSlots PROVE SlotInv' /\ Kept /\ Uncrowded
<1>1. PICK from \in Bijection(Movable, Movable) :
        slots' = [s \in Slots |->
                   IF s \notin Movable THEN slots[s]
                   ELSE IF map.custom THEN With(Occupant(slots[from[s]]), Layout(slots[s]))
                   ELSE slots[from[s]]]
  BY DEF ShuffleSlots
<1> DEFINE f == [s \in Slots |-> IF s \in Movable THEN from[s] ELSE s]
           h == IF map.custom THEN InPlace ELSE f
<1>2. /\ Movable \subseteq Slots /\ from \in [Movable -> Movable]
      /\ \A s, t \in Movable : from[s] = from[t] => s = t
      /\ \A t \in Movable : \E s \in Movable : from[s] = t
  BY DEF Movable, Bijection, Injection, Surjection, IsInjective
<1>3. f \in Perms
  <2>1. f \in [Slots -> Slots]
    BY <1>2
  <2>2. ASSUME NEW s \in Slots, NEW t \in Slots, f[s] = f[t] PROVE s = t
    BY <1>2, <2>2
  <2>3. ASSUME NEW t \in Slots PROVE \E s \in Slots : f[s] = t
    BY <1>2
  <2> HIDE DEF f
  <2> QED
    BY <2>1, <2>2, <2>3 DEF Perms
<1>4. slots' = Arranged(f, h, h)
  <2>1. \A s \in Slots : slots'[s] = Arranged(f, h, h)[s]
    <3> SUFFICES ASSUME NEW s \in Slots PROVE slots'[s] = Arranged(f, h, h)[s]
      OBVIOUS
    <3>1. Arranged(f, h, h)[s] = [status |-> slots[f[s]].status, pid |-> slots[f[s]].pid,
                                  team |-> slots[h[s]].team, colour |-> slots[h[s]].colour,
                                  race |-> slots[h[s]].race]
      BY DEF Arranged
    <3>2. CASE s \notin Movable
      <4>1. f[s] = s /\ h[s] = s /\ slots'[s] = slots[s]
        BY <3>2, <1>1 DEF InPlace
      <4> QED
        BY <4>1, <3>1, SlotIsRecord
    <3>3. CASE s \in Movable /\ map.custom
      <4>1. f[s] = from[s] /\ h[s] = s
            /\ slots'[s] = With(Occupant(slots[from[s]]), Layout(slots[s]))
        BY <3>3, <1>1 DEF InPlace
      <4> HIDE DEF f, h
      <4> QED
        BY <4>1, <3>1 DEF With, Occupant, Layout
    <3>4. CASE s \in Movable /\ ~map.custom
      <4>1. f[s] = from[s] /\ h[s] = from[s] /\ slots'[s] = slots[from[s]] /\ from[s] \in Slots
        BY <3>4, <1>1, <1>2
      <4> HIDE DEF f, h
      <4> QED
        BY <4>1, <3>1, SlotIsRecord
    <3> QED
      BY <3>2, <3>3, <3>4
  <2> QED
    BY <2>1, <1>1 DEF Arranged
<1>5. h \in Perms
  BY <1>3, InPlaceIsPerm
<1>6. IF map.custom THEN h = InPlace ELSE f = h /\ f = h
  OBVIOUS
<1>7. map.fixed => h = InPlace
  BY MapFacts
<1>8. UNCHANGED <<map, players>>
  BY DEF ShuffleSlots
<1> HIDE DEF f, h
<1> QED
  BY <1>3, <1>4, <1>5, <1>6, <1>7, <1>8, ArrangedStep

-----------------------------------------------------------------------------
(* Slots: who leaves, and what changes in a layout                         *)

LayoutType ==
  [team : 0..Observer \cup {255}, colour : 0..NumColours - 1 \cup {Observer},
   race : {"own", "random", "picked"}]

LEMMA RowFacts ==
  ASSUME SlotInv, NEW s \in Slots
  PROVE  /\ Layout(slots[s]) \in LayoutType /\ Nobody \notin Players
         /\ Occupant(slots[s]) \in [status : {"open", "closed", "computer", "player"},
                                    pid : players \cup {Nobody}]
BY SlotFacts, SlotTableAssumption DEF SlotTableAssumption, SlotType, LayoutType, Layout, Occupant

\* Slots become empty, players leave, and nothing else changes.
LEMMA VacatedStep ==
  ASSUME SlotInv, map' = map, players' \subseteq players, NEW o,
         slots' = [s \in Slots |-> With(o[s], Layout(slots[s]))],
         \A s \in Slots : \/ o[s] = Occupant(slots[s])
                          \/ \E kind \in {"open", "closed", "computer"} : o[s] = Empty(kind),
         \A s \in Slots : slots[s].pid \in players' => o[s] = Occupant(slots[s]),
         \A s \in Slots : o[s].pid # Nobody => o[s].pid \in players'
  PROVE  SlotInv' /\ Kept /\ Uncrowded
<1>1. /\ Slots' = Slots /\ SlotType' = SlotType
      /\ \A s \in Slots : /\ slots'[s].status = o[s].status /\ slots'[s].pid = o[s].pid
                          /\ slots'[s].team = slots[s].team /\ slots'[s].colour = slots[s].colour
                          /\ slots'[s].race = slots[s].race
  BY DEF Slots, SlotType, With, Layout
<1>2. \A s \in Slots : \/ o[s].status = slots[s].status /\ o[s].pid = slots[s].pid
                       \/ o[s].status \in {"open", "closed", "computer"} /\ o[s].pid = Nobody
  <2> SUFFICES ASSUME NEW s \in Slots
               PROVE  \/ o[s].status = slots[s].status /\ o[s].pid = slots[s].pid
                      \/ o[s].status \in {"open", "closed", "computer"} /\ o[s].pid = Nobody
    OBVIOUS
  <2>1. CASE o[s] = Occupant(slots[s])
    BY <2>1 DEF Occupant
  <2>2. CASE \E kind \in {"open", "closed", "computer"} : o[s] = Empty(kind)
    BY <2>2 DEF Empty
  <2> QED
    BY <2>1, <2>2
<1>3. map' \in Maps /\ players' \subseteq Players /\ slots' \in [1..map'.numSlots -> SlotType']
  <2>1. ASSUME NEW s \in Slots PROVE With(o[s], Layout(slots[s])) \in SlotType
    <3>1. slots[s] \in SlotType
      BY SlotFacts
    <3>2. o[s].status \in {"open", "closed", "computer", "player"} /\ o[s].pid \in Players \cup {Nobody}
      BY <3>1, <1>2 DEF SlotType
    <3> QED
      BY <3>1, <3>2 DEF With, Layout, SlotType
  <2>2. slots' \in [Slots -> SlotType]
    BY <2>1
  <2> QED
    BY <1>1, <2>2, MapFacts DEF SlotInv
<1>4. Seated'
  <2>1. \A s \in Slots : slots'[s].status = "player" <=> slots'[s].pid # Nobody
    BY <1>1, <1>2, SlotFacts
  <2>2. \A s \in Slots : slots'[s].pid \in players' \cup {Nobody}
    BY <1>1
  <2>3. ASSUME NEW p \in players' PROVE \E s \in Slots : slots'[s].pid = p
    <3>1. PICK s \in Slots : slots[s].pid = p
      BY DEF SlotInv, Seated
    <3>2. o[s] = Occupant(slots[s])
      BY <3>1
    <3> QED
      BY <3>1, <3>2, <1>1 DEF Occupant
  <2>4. \A s, t \in Slots : slots'[s].pid = slots'[t].pid /\ slots'[s].pid # Nobody => s = t
    BY <1>1, <1>2 DEF SlotInv, Seated
  <2> QED
    BY <1>1, <2>1, <2>2, <2>3, <2>4 DEF Seated
<1>5. ColoursDiffer' /\ ObserversKnown'
  BY <1>1, <1>2 DEF SlotInv, ColoursDiffer, ObserversKnown
<1>6. Prescribed' /\ Kept
  <2>1. \A s \in Slots : MapSlot(map, s)' = MapSlot(map, s)
    BY DEF MapSlot, With, Empty
  <2>2. \A s \in Slots : Layout(slots'[s]) = Layout(slots[s])
    BY <1>1 DEF Layout
  <2>3. map.randomRaces => \A s \in Slots : slots'[s].race = "random"
    BY <1>1 DEF SlotInv, Prescribed
  <2>4. map.fixed => \A s \in Slots : Layout(slots[s]) = Layout(MapSlot(map, s))
    BY DEF SlotInv, Prescribed
  <2>5. Prescribed'
    BY <1>1, <2>1, <2>2, <2>3, <2>4 DEF Prescribed, Layout
  <2>6. Kept
    BY <1>1, <2>2, <2>3 DEF Kept
  <2> QED
    BY <2>5, <2>6
<1>7. Uncrowded
  <2> SUFFICES ASSUME NEW p \in RegularPlayers' PROVE p \in RegularPlayers
    BY DEF Uncrowded
  <2>1. PICK s \in Slots : /\ slots'[s].status = "player" /\ slots'[s].team # Observer
                           /\ p = slots'[s].pid
    BY <1>1 DEF RegularPlayers, Movable
  <2>2. s \in Movable /\ p = slots[s].pid
    BY <2>1, <1>1, <1>2 DEF Movable
  <2> QED
    BY <2>2 DEF RegularPlayers
<1> QED
  BY <1>3, <1>4, <1>5, <1>6, <1>7 DEF SlotInv

\* Layouts change, which is never so with fixed settings.
LEMMA LayoutStep ==
  ASSUME SlotInv, UNCHANGED <<map, players>>, NEW l, ~map.fixed,
         slots' = [s \in Slots |-> With(Occupant(slots[s]), l[s])],
         \A s \in Slots : l[s] \in LayoutType,
         \A s, t \in Slots : s # t /\ l[s].colour = l[t].colour => l[s].colour = Observer,
         map.randomRaces => \A s \in Slots : l[s].race = slots[s].race,
         map.custom => \A s \in Slots : slots[s].status # "computer" => l[s].team = slots[s].team,
         ~map.custom /\ ~map.scored =>
           \A s \in Slots : slots[s].status = "player" =>
             (l[s].team = Observer <=> l[s].colour = Observer)
  PROVE  /\ SlotInv' /\ Kept
         /\ (\A s \in Slots : slots[s].status = "player" /\ slots[s].team = Observer =>
               l[s].team = Observer) => Uncrowded
<1>1. /\ Slots' = Slots /\ SlotType' = SlotType
      /\ \A s \in Slots : /\ slots'[s].status = slots[s].status /\ slots'[s].pid = slots[s].pid
                          /\ slots'[s].team = l[s].team /\ slots'[s].colour = l[s].colour
                          /\ slots'[s].race = l[s].race
  BY DEF Slots, SlotType, With, Occupant
<1>2. map' \in Maps /\ players' \subseteq Players /\ slots' \in [1..map'.numSlots -> SlotType']
  <2>1. \A s \in Slots : With(Occupant(slots[s]), l[s]) \in SlotType
    BY SlotFacts DEF SlotType, LayoutType, With, Occupant
  <2>2. slots' \in [Slots -> SlotType]
    BY <2>1
  <2> QED
    BY <1>1, <2>2, MapFacts DEF SlotInv
<1>3. Seated'
  BY <1>1 DEF SlotInv, Seated
<1>4. ColoursDiffer' /\ ObserversKnown'
  BY <1>1 DEF ColoursDiffer, ObserversKnown
<1>5. map.randomRaces => \A s \in Slots : slots'[s].race = "random"
  BY <1>1 DEF SlotInv, Prescribed
<1>6. Prescribed' /\ Kept
  BY <1>1, <1>5 DEF Prescribed, Kept
<1>7. ASSUME \A s \in Slots : slots[s].status = "player" /\ slots[s].team = Observer =>
               l[s].team = Observer
      PROVE  Uncrowded
  <2> SUFFICES ASSUME NEW p \in RegularPlayers' PROVE p \in RegularPlayers
    BY DEF Uncrowded
  <2>1. PICK s \in Slots : /\ slots'[s].status = "player" /\ slots'[s].team # Observer
                           /\ p = slots'[s].pid
    BY <1>1 DEF RegularPlayers, Movable
  <2>2. s \in Movable /\ p = slots[s].pid
    BY <2>1, <1>1, <1>7 DEF Movable
  <2> QED
    BY <2>2 DEF RegularPlayers
<1> QED
  BY <1>2, <1>3, <1>4, <1>6, <1>7 DEF SlotInv

\* Putting one player right, as a step of a fold.
Right(ctx, table, x) == PutRight(table, x[1], x[2])
B == INSTANCE FoldInduction WITH Op <- Right
-----------------------------------------------------------------------------
(* Slots: the steps                                                        *)

LEMMA LowestIsLowest ==
  ASSUME NEW S \in SUBSET Nat, S # {}
  PROVE  Lowest(S) \in S
BY B!LeastElement DEF Lowest

\* GetNewColour never runs out.
LEMMA NewColourIsNew ==
  ASSUME SlotInv, NEW s \in Slots
  PROVE  /\ NewColour(s) \in 0..NumColours - 1
         /\ \A t \in Slots : t # s => slots[t].colour # NewColour(s)
<1> DEFINE O == Slots \ {s}
           f == [t \in O |-> slots[t].colour]
           T == {slots[t].colour : t \in O}
<1>1. IsFiniteSet(O) /\ Cardinality(O) = map.numSlots - 1
  BY MapFacts, FS_RemoveElement
<1>2. f \in Surjection(O, T)
  BY DEF Surjection
<1>3. IsFiniteSet(T) /\ Cardinality(T) <= map.numSlots - 1
  BY <1>1, <1>2, FS_Surjection
<1>4. Cardinality(Colours) = NumColours
  <2>1. Colours = 0..NumColours - 1 /\ NumColours \in 1..12
    BY MapFacts
  <2>2. ASSUME NEW n \in 1..12 PROVE Cardinality(0..n - 1) = n
    <3>1. 0 \in Int /\ n - 1 \in Int /\ ~(0 > n - 1) /\ n - 1 - 0 + 1 = n
      OBVIOUS
    <3> QED
      BY <3>1, FS_Interval
  <2> QED
    BY <2>1, <2>2
<1>5. ~(Colours \subseteq T)
  <2> SUFFICES ASSUME Colours \in SUBSET T PROVE FALSE
    OBVIOUS
  <2>1. Cardinality(Colours) <= Cardinality(T) /\ Cardinality(T) \in Nat
    BY <1>3, FS_Subset, FS_CardinalityType
  <2> QED
    BY <2>1, <1>3, <1>4, MapFacts
<1>6. Colours \ T \in SUBSET Nat /\ Colours \ T # {}
  BY <1>5, MapFacts
<1>7. NewColour(s) \in Colours \ T
  BY <1>6, LowestIsLowest DEF NewColour
<1> QED
  BY <1>7, MapFacts

\* The slot of a player.
LEMMA SIDOfPlayer ==
  ASSUME SlotInv, NEW p \in players
  PROVE  \E s \in Slots : SIDOf(p) = {s} /\ slots[s].pid = p /\ slots[s].status = "player"
<1>1. PICK s \in Slots : slots[s].pid = p
  BY DEF SlotInv, Seated
<1>2. p # Nobody
  BY SlotTableAssumption DEF SlotInv, SlotTableAssumption
<1>3. {t \in Slots : slots[t].pid = p} = {s}
  BY <1>1, <1>2 DEF SlotInv, Seated
<1>4. Lowest({s}) = s
  BY DEF Lowest
<1> QED
  BY <1>1, <1>2, <1>3, <1>4, SlotFacts DEF SIDOf

LEMMA LeaveStep ==
  ASSUME SlotInv, NEW p \in Players, Leave(p) PROVE SlotInv' /\ Kept /\ Uncrowded
<1>1. PICK s \in Slots : SIDOf(p) = {s} /\ slots[s].pid = p
  BY SIDOfPlayer DEF Leave
<1> DEFINE o == [t \in Slots |-> IF t = s THEN Empty("open") ELSE Occupant(slots[t])]
<1>2. slots' = [t \in Slots |-> With(o[t], Layout(slots[t]))]
  <2>1. slots' = [t \in Slots |-> IF t = s THEN With(Empty("open"), Layout(slots[t])) ELSE slots[t]]
    BY <1>1 DEF Leave
  <2>2. \A t \in Slots : slots[t] = With(Occupant(slots[t]), Layout(slots[t]))
    BY SlotIsRecord DEF With, Occupant, Layout
  <2> QED
    BY <2>1, <2>2
<1>3. \A t \in Slots : \/ o[t] = Occupant(slots[t])
                       \/ \E kind \in {"open", "closed", "computer"} : o[t] = Empty(kind)
  OBVIOUS
<1>4. \A t \in Slots : slots[t].pid \in players' => o[t] = Occupant(slots[t])
  BY <1>1 DEF Leave
<1>5. ASSUME NEW t \in Slots, o[t].pid # Nobody PROVE o[t].pid \in players'
  <2>1. t # s /\ o[t].pid = slots[t].pid
    BY <1>5 DEF Empty, Occupant
  <2>2. slots[t].pid # p /\ slots[t].pid \in players
    BY <2>1, <1>1, <1>5, SlotFacts DEF SlotInv, Seated
  <2> QED
    BY <2>1, <2>2 DEF Leave
<1>6. map' = map /\ players' \subseteq players
  BY DEF Leave
<1> HIDE DEF o
<1> QED
  BY <1>2, <1>3, <1>4, <1>5, <1>6, VacatedStep

LEMMA SetSlotStep ==
  ASSUME SlotInv, NEW s \in Slots, NEW kind \in {"open", "closed", "computer"}, SetSlot(s, kind)
  PROVE  SlotInv' /\ Kept /\ Uncrowded
<1> DEFINE o == [t \in Slots |-> IF t = s THEN Empty(kind) ELSE Occupant(slots[t])]
<1>2. slots' = [t \in Slots |-> With(o[t], Layout(slots[t]))]
  <2>0. slots \in [Slots -> SlotType]
    BY MapFacts DEF SlotInv
  <2>1. slots' = [t \in Slots |-> IF t = s THEN With(Empty(kind), Layout(slots[t])) ELSE slots[t]]
    BY <2>0 DEF SetSlot
  <2>2. \A t \in Slots : slots[t] = With(Occupant(slots[t]), Layout(slots[t]))
    BY SlotIsRecord DEF With, Occupant, Layout
  <2> QED
    BY <2>1, <2>2
<1>3. \A t \in Slots : \/ o[t] = Occupant(slots[t])
                       \/ \E x \in {"open", "closed", "computer"} : o[t] = Empty(x)
  OBVIOUS
<1>4. \A t \in Slots : slots[t].pid \in players' => o[t] = Occupant(slots[t])
  BY DEF SetSlot
<1>5. ASSUME NEW t \in Slots, o[t].pid # Nobody PROVE o[t].pid \in players'
  <2>1. t # s /\ o[t].pid = slots[t].pid
    BY <1>5 DEF Empty, Occupant
  <2>2. slots[t].pid # slots[s].pid /\ slots[t].pid \in players
    BY <2>1, <1>5, SlotFacts DEF SlotInv, Seated
  <2> QED
    BY <2>1, <2>2 DEF SetSlot
<1>6. map' = map /\ players' \subseteq players
  BY DEF SetSlot
<1> HIDE DEF o
<1> QED
  BY <1>2, <1>3, <1>4, <1>5, <1>6, VacatedStep

LEMMA SetAllSlotsStep ==
  ASSUME SlotInv, NEW from \in {"open", "closed"}, NEW to \in {"open", "closed"},
         SetAllSlots(from, to)
  PROVE  SlotInv' /\ Kept /\ Uncrowded
<1> DEFINE o == [t \in Slots |-> IF slots[t].status = from THEN Empty(to) ELSE Occupant(slots[t])]
<1>1. \A t \in Slots : slots[t].status = from => slots[t].pid = Nobody
  BY SlotFacts
<1>2. slots' = [t \in Slots |-> With(o[t], Layout(slots[t]))]
  <2>1. ASSUME NEW t \in Slots, slots[t].status = from
        PROVE  [slots[t] EXCEPT !.status = to] = With(Empty(to), Layout(slots[t]))
    BY <2>1, <1>1, SlotFacts DEF With, Layout, Empty, SlotType
  <2>2. \A t \in Slots : slots[t] = With(Occupant(slots[t]), Layout(slots[t]))
    BY SlotIsRecord DEF With, Occupant, Layout
  <2> QED
    BY <2>1, <2>2 DEF SetAllSlots
<1>3. \A t \in Slots : \/ o[t] = Occupant(slots[t])
                       \/ \E x \in {"open", "closed", "computer"} : o[t] = Empty(x)
  OBVIOUS
<1>4. \A t \in Slots : slots[t].pid \in players' => o[t] = Occupant(slots[t])
  BY <1>1, RowFacts DEF SetAllSlots, SlotInv
<1>5. \A t \in Slots : o[t].pid # Nobody => o[t].pid \in players'
  BY SlotFacts DEF SetAllSlots, Empty, Occupant
<1>6. map' = map /\ players' \subseteq players
  BY DEF SetAllSlots
<1> HIDE DEF o
<1> QED
  BY <1>2, <1>3, <1>4, <1>5, <1>6, VacatedStep

\* The layout that a player gets who joins.
LEMMA NewLayoutFacts ==
  ASSUME SlotInv, NEW s \in Slots
  PROVE  /\ NewLayout(s) \in LayoutType
         /\ \A t \in Slots : t # s /\ slots[t].colour = NewLayout(s).colour =>
              NewLayout(s).colour = Observer
         /\ map.custom \/ map.scored => NewLayout(s) = Layout(slots[s])
         /\ ~map.custom /\ ~map.scored =>
              /\ NewLayout(s).team = Observer <=> NewLayout(s).colour = Observer
              /\ NewLayout(s).team # Observer => ~Full(s)
         /\ map.randomRaces => NewLayout(s).race = "random"
<1>1. CASE map.custom \/ map.scored
  <2>1. NewLayout(s) = Layout(slots[s])
    BY <1>1 DEF NewLayout
  <2>2. NewLayout(s).colour = slots[s].colour /\ NewLayout(s).race = slots[s].race
    BY <2>1 DEF Layout
  <2> QED
    BY <1>1, <2>1, <2>2, RowFacts DEF SlotInv, ColoursDiffer, Prescribed
<1>2. CASE ~(map.custom \/ map.scored) /\ Full(s)
  <2>1. NewLayout(s) = [team |-> Observer, colour |-> Observer, race |-> "random"]
    BY <1>2 DEF NewLayout
  <2> QED
    BY <1>2, <2>1 DEF LayoutType, Observer
<1>3. CASE ~(map.custom \/ map.scored) /\ ~Full(s)
  <2> DEFINE n == IF s <= map.numPlayers THEN s - 1 ELSE 0
             c == NewColour(s)
  <2>1. NewLayout(s) = [team |-> n, colour |-> c, race |-> "random"]
    BY <1>3 DEF NewLayout
  <2>2. n \in 0..Observer /\ n # Observer
    BY MapFacts DEF Observer
  <2>3. /\ c \in 0..NumColours - 1 /\ \A t \in Slots : t # s => slots[t].colour # c
        /\ c # Observer
    BY NewColourIsNew, MapFacts DEF Observer
  <2> HIDE DEF n, c
  <2> QED
    BY <1>3, <2>1, <2>2, <2>3 DEF LayoutType
<1> QED
  BY <1>1, <1>2, <1>3

\* Where there is room in the regular teams, there is for one more.
LEMMA RoomForOne ==
  ASSUME SlotInv, NEW s \in Slots, ~Full(s), NEW N \in SUBSET Slots,
         \A t \in N : t = s \/ (Occupied(t) /\ slots[t].team # Observer)
  PROVE  Cardinality(N) <= map.numPlayers
<1> DEFINE O == {t \in Slots \ {s} : Occupied(t) /\ slots[t].team # Observer}
<1>1. map.numPlayers \in Nat /\ IsFiniteSet(O) /\ IsFiniteSet(N)
  <2>1. map.numPlayers \in Nat /\ IsFiniteSet(Slots)
    BY MapFacts
  <2>2. O \in SUBSET Slots /\ N \in SUBSET Slots
    OBVIOUS
  <2> QED
    BY <2>1, <2>2, FS_Subset
<1>2. Cardinality(O) \in Nat /\ Cardinality(N) \in Nat
  BY <1>1, FS_CardinalityType
<1>3. ~(Cardinality(O) >= map.numPlayers)
  BY DEF Full
<1>4. N \ {s} \in SUBSET O
  OBVIOUS
<1> HIDE DEF O
<1>5. Cardinality(N \ {s}) <= Cardinality(O)
  BY <1>1, <1>4, FS_Subset
<1>6. Cardinality(N \ {s}) = IF s \in N THEN Cardinality(N) - 1 ELSE Cardinality(N)
  BY <1>1, FS_RemoveElement
<1> QED
  BY <1>1, <1>2, <1>3, <1>5, <1>6

LEMMA JoinStep ==
  ASSUME SlotInv, NEW p \in Players, Join(p) PROVE SlotInv' /\ Kept /\ Uncrowded
<1> DEFINE open == {t \in Slots : slots[t].status = "open"}
<1>1. PICK s \in IF open # {} THEN {Lowest(open)}
                 ELSE IF map.scored THEN {t \in Slots : slots[t].status = "player"} ELSE {} :
        /\ slots' = [slots EXCEPT ![s] = With(Player(p), NewLayout(s))]
        /\ players' = (players \ {slots[s].pid}) \cup {p}
  BY DEF Join
<1>2. s \in Slots /\ (slots[s].status = "player" => map.scored)
  <2>1. CASE open # {}
    <3>1. open \in SUBSET Nat
      BY MapFacts
    <3>2. s \in open
      BY <1>1, <2>1, <3>1, LowestIsLowest
    <3> QED
      BY <3>2
  <2>2. CASE open = {}
    BY <1>1, <2>2
  <2> QED
    BY <2>1, <2>2
<1>3. p \notin players /\ map' = map /\ p # Nobody
  BY SlotTableAssumption DEF Join, SlotTableAssumption
<1> DEFINE l == NewLayout(s)
<1>4. /\ l \in LayoutType
      /\ \A t \in Slots : t # s /\ slots[t].colour = l.colour => l.colour = Observer
      /\ map.custom \/ map.scored => l = Layout(slots[s])
      /\ ~map.custom /\ ~map.scored => /\ l.team = Observer <=> l.colour = Observer
                                       /\ l.team # Observer => ~Full(s)
      /\ map.randomRaces => l.race = "random"
  BY <1>2, NewLayoutFacts
<1> HIDE DEF l, open
<1>5. /\ slots \in [Slots -> SlotType]
      /\ slots' = [t \in Slots |-> IF t = s THEN With(Player(p), l) ELSE slots[t]]
  <2>1. slots \in [Slots -> SlotType]
    BY MapFacts DEF SlotInv
  <2> QED
    BY <2>1, <1>1 DEF l
<1>6. /\ Slots' = Slots /\ SlotType' = SlotType
      /\ \A t \in Slots : t # s => slots'[t] = slots[t]
      /\ slots'[s].status = "player" /\ slots'[s].pid = p /\ slots'[s].team = l.team
      /\ slots'[s].colour = l.colour /\ slots'[s].race = l.race
  <2>1. slots'[s] = With(Player(p), l)
    BY <1>2, <1>5
  <2>2. \A t \in Slots : t # s => slots'[t] = slots[t]
    BY <1>5
  <2>3. Slots' = Slots /\ SlotType' = SlotType
    BY <1>3, <1>5 DEF Slots, SlotType
  <2> QED
    BY <2>1, <2>2, <2>3 DEF With, Player
<1>7. map' \in Maps /\ players' \subseteq Players /\ slots' \in [1..map'.numSlots -> SlotType']
  <2>1. With(Player(p), l) \in SlotType
    BY <1>4 DEF With, Player, LayoutType, SlotType
  <2>2. slots' \in [Slots -> SlotType]
    BY <2>1, <1>5
  <2>3. players' \subseteq Players
    BY <1>1 DEF SlotInv
  <2> QED
    BY <1>3, <1>6, <2>2, <2>3, MapFacts DEF SlotInv
<1>8. Seated'
  <2>1. \A t \in Slots : slots'[t].status = "player" <=> slots'[t].pid # Nobody
    BY <1>3, <1>6, SlotFacts
  <2>2. ASSUME NEW t \in Slots PROVE slots'[t].pid \in players' \cup {Nobody}
    <3>1. CASE t = s
      BY <3>1, <1>1, <1>6
    <3>2. CASE t # s
      <4>1. slots[t].pid = slots[s].pid => slots[t].pid = Nobody
        BY <1>2, <3>2 DEF SlotInv, Seated
      <4> QED
        BY <4>1, <3>2, <1>1, <1>6, SlotFacts
    <3> QED
      BY <3>1, <3>2
  <2>3. ASSUME NEW q \in players' PROVE \E t \in Slots : slots'[t].pid = q
    <3>1. CASE q = p
      BY <3>1, <1>2, <1>6
    <3>2. CASE q # p
      <4>1. q \in players /\ q # slots[s].pid
        BY <3>2, <1>1
      <4>2. PICK t \in Slots : slots[t].pid = q
        BY <4>1 DEF SlotInv, Seated
      <4> QED
        BY <4>1, <4>2, <1>6
    <3> QED
      BY <3>1, <3>2
  <2>4. ASSUME NEW t \in Slots, NEW u \in Slots, slots'[t].pid = slots'[u].pid,
               slots'[t].pid # Nobody
        PROVE  t = u
    <3>1. \A x \in Slots : slots[x].pid # p
      BY <1>3, SlotFacts
    <3> QED
      BY <2>4, <3>1, <1>6 DEF SlotInv, Seated
  <2> QED
    BY <1>6, <2>1, <2>2, <2>3, <2>4 DEF Seated
<1>9. ColoursDiffer'
  BY <1>2, <1>4, <1>6 DEF SlotInv, ColoursDiffer
<1>10. ObserversKnown'
  BY <1>3, <1>4, <1>6 DEF SlotInv, ObserversKnown
<1>11. Prescribed' /\ Kept
  <2>1. \A t \in Slots : MapSlot(map, t)' = MapSlot(map, t)
    BY <1>3 DEF MapSlot, With, Empty
  <2>2. map.randomRaces => \A t \in Slots : slots'[t].race = "random"
    BY <1>4, <1>6 DEF SlotInv, Prescribed
  <2>3. map.custom => \A t \in Slots : Layout(slots'[t]) = Layout(slots[t])
    BY <1>2, <1>4, <1>6 DEF Layout
  <2>4. map.fixed => map.custom /\ \A t \in Slots : Layout(slots[t]) = Layout(MapSlot(map, t))
    BY MapFacts DEF SlotInv, Prescribed
  <2>5. Prescribed'
    BY <1>3, <1>6, <2>1, <2>2, <2>3, <2>4 DEF Prescribed, Layout
  <2>6. Kept
    BY <2>2, <2>3, <2>4 DEF Kept, Layout
  <2> QED
    BY <2>5, <2>6
<1>12. Uncrowded
  <2> SUFFICES ASSUME ~map.custom, ~map.scored, ~(RegularPlayers' \subseteq RegularPlayers)
               PROVE  Cardinality({t \in Slots : Occupied(t)' /\ slots'[t].team # Observer})
                        <= map.numPlayers
    BY DEF Uncrowded
  <2>1. PICK q \in RegularPlayers' : q \notin RegularPlayers
    OBVIOUS
  <2>2. PICK t \in Slots : /\ slots'[t].status = "player" /\ slots'[t].team # Observer
                           /\ q = slots'[t].pid
    BY <1>6 DEF RegularPlayers, Movable
  <2>3. t = s
    <3> SUFFICES ASSUME t # s PROVE FALSE
      OBVIOUS
    <3>1. t \in Movable /\ q = slots[t].pid
      BY <2>2, <1>6 DEF Movable
    <3> QED
      BY <3>1, <2>1 DEF RegularPlayers
  <2>4. ~Full(s)
    BY <2>2, <2>3, <1>4, <1>6
  <2> DEFINE N == {t1 \in Slots : Occupied(t1)' /\ slots'[t1].team # Observer}
  <2>5. \A t1 \in N : t1 = s \/ (Occupied(t1) /\ slots[t1].team # Observer)
    BY <1>6 DEF Occupied
  <2> QED
    BY <1>2, <2>4, <2>5, RoomForOne
<1> QED
  BY <1>7, <1>8, <1>9, <1>10, <1>11, <1>12 DEF SlotInv

\* Giving slot s another layout.
LEMMA OneLayout ==
  ASSUME SlotInv, NEW s \in Slots, NEW k
  PROVE  [slots EXCEPT ![s] = With(Occupant(slots[s]), k)]
           = [t \in Slots |-> With(Occupant(slots[t]), IF t = s THEN k ELSE Layout(slots[t]))]
<1>1. slots \in [Slots -> SlotType]
  BY MapFacts DEF SlotInv
<1>2. \A t \in Slots : slots[t] = With(Occupant(slots[t]), Layout(slots[t]))
  BY SlotIsRecord DEF With, Occupant, Layout
<1> QED
  BY <1>1, <1>2

LEMMA ChangeTeamStep ==
  ASSUME SlotInv, NEW p \in Players, NEW team \in Nat, ChangeTeam(p, team)
  PROVE  SlotInv' /\ Kept /\ Uncrowded
<1>1. p \in players /\ UNCHANGED <<map, players>>
  BY DEF ChangeTeam
<1>2. PICK s \in Slots : SIDOf(p) = {s} /\ slots[s].pid = p /\ slots[s].status = "player"
  BY <1>1, SIDOfPlayer
<1>3. CASE map.custom
  <2>1. PICK t \in NextOpen(team, s) : slots' = Swapped(s, t)
    BY <1>2, <1>3 DEF ChangeTeam
  <2>2. t \in Slots
    <3> DEFINE open  == {u \in Slots : slots[u].status = "open" /\ slots[u].team = team}
               after == IF slots[s].team = team THEN {u \in open : u >= s} ELSE open
    <3>1. open \in SUBSET Nat /\ after \in SUBSET Nat /\ after \subseteq open
      BY MapFacts
    <3>2. NextOpen(team, s) = IF after # {} THEN {Lowest(after)}
                              ELSE IF open # {} THEN {Lowest(open)} ELSE {}
      BY DEF NextOpen
    <3>3. open \subseteq Slots
      OBVIOUS
    <3> HIDE DEF open, after
    <3>4. (after # {} => Lowest(after) \in open) /\ (open # {} => Lowest(open) \in open)
      BY <3>1, LowestIsLowest
    <3> QED
      BY <2>1, <3>2, <3>3, <3>4
  <2> QED
    BY <1>1, <2>1, <2>2, SwappedStep
<1>4. CASE ~map.custom
  <2>1. /\ Allowed(team) /\ (team = Observer \/ ~Full(s))
        /\ slots' = [slots EXCEPT ![s].team = team, ![s].colour = ColourIn(team, s)]
    BY <1>2, <1>4 DEF ChangeTeam
  <2> DEFINE c == ColourIn(team, s)
             k == [team |-> team, colour |-> c, race |-> slots[s].race]
             l == [t \in Slots |-> IF t = s THEN k ELSE Layout(slots[t])]
  <2>2. slots[s] \in SlotType /\ slots \in [Slots -> SlotType]
    BY MapFacts DEF SlotInv
  <2>3. slots' = [slots EXCEPT ![s] = With(Occupant(slots[s]), k)]
    <3>1. slots' = [t \in Slots |-> IF t = s THEN [[slots[s] EXCEPT !.team = team] EXCEPT !.colour = c]
                                    ELSE slots[t]]
      BY <2>1, <2>2
    <3> HIDE DEF c
    <3>2. [[slots[s] EXCEPT !.team = team] EXCEPT !.colour = c]
            = [status |-> slots[s].status, pid |-> slots[s].pid, team |-> team, colour |-> c,
               race |-> slots[s].race]
      <4> DEFINE one == [slots[s] EXCEPT !.team = team]
      <4>1. one = [status |-> slots[s].status, pid |-> slots[s].pid, team |-> team,
                   colour |-> slots[s].colour, race |-> slots[s].race]
        BY <2>2 DEF SlotType
      <4> HIDE DEF one
      <4>2. [one EXCEPT !.colour = c]
              = [status |-> slots[s].status, pid |-> slots[s].pid, team |-> team, colour |-> c,
                 race |-> slots[s].race]
        BY <4>1
      <4> QED
        BY <4>2 DEF one
    <3>2a. With(Occupant(slots[s]), k)
            = [status |-> slots[s].status, pid |-> slots[s].pid, team |-> team, colour |-> c,
               race |-> slots[s].race]
      BY DEF With, Occupant
    <3>3. [[slots[s] EXCEPT !.team = team] EXCEPT !.colour = c] = With(Occupant(slots[s]), k)
      BY <3>2, <3>2a
    <3> HIDE DEF k
    <3> QED
      BY <2>2, <3>1, <3>3
  <2>4. slots' = [t \in Slots |-> With(Occupant(slots[t]), l[t])]
    <3>1. slots' = [t \in Slots |-> With(Occupant(slots[t]), IF t = s THEN k ELSE Layout(slots[t]))]
      BY <2>3, OneLayout
    <3> QED
      BY <3>1
  <2>5. /\ c \in 0..NumColours - 1 \cup {Observer}
        /\ \A t \in Slots : t # s /\ slots[t].colour = c => c = Observer
        /\ ~map.scored => (team = Observer <=> c = Observer)
    <3>1. CASE team = Observer
      BY <3>1 DEF ColourIn
    <3>2. CASE team # Observer /\ slots[s].colour = Observer
      <4>1. c = NewColour(s)
        BY <3>2 DEF ColourIn
      <4>2. NewColour(s) # Observer
        BY NewColourIsNew, MapFacts DEF Observer
      <4> QED
        BY <3>2, <4>1, <4>2, NewColourIsNew
    <3>3. CASE team # Observer /\ slots[s].colour # Observer
      <4>1. c = slots[s].colour
        BY <3>3 DEF ColourIn
      <4> QED
        BY <3>3, <4>1, <2>2 DEF SlotInv, ColoursDiffer, SlotType
    <3> QED
      BY <3>1, <3>2, <3>3
  <2>6. k \in LayoutType
    <3>1. team \in 0..Observer
      <4>1. team = Observer \/ team < map.numPlayers
        BY <2>1 DEF Allowed
      <4> QED
        BY <4>1, MapFacts DEF Observer
    <3>2. slots[s].race \in {"own", "random", "picked"}
      BY <2>2 DEF SlotType
    <3> HIDE DEF c
    <3> QED
      BY <3>1, <3>2, <2>5 DEF LayoutType
  <2>7. /\ \A t \in Slots : /\ l[t].colour = IF t = s THEN c ELSE slots[t].colour
                            /\ l[t].team = IF t = s THEN team ELSE slots[t].team
                            /\ l[t].race = slots[t].race
        /\ \A t \in Slots : l[t] \in LayoutType
    BY <2>6, RowFacts DEF Layout
  <2> HIDE DEF l, c
  <2>8. \A t, u \in Slots : t # u /\ l[t].colour = l[u].colour => l[t].colour = Observer
    BY <2>5, <2>7 DEF SlotInv, ColoursDiffer
  <2>9. ~map.custom /\ ~map.scored =>
           \A t \in Slots : slots[t].status = "player" =>
             (l[t].team = Observer <=> l[t].colour = Observer)
    BY <2>5, <2>7 DEF SlotInv, ObserversKnown
  <2>10. ~map.fixed
    BY <1>4, MapFacts
  <2>11. /\ SlotInv' /\ Kept
         /\ (\A t \in Slots : slots[t].status = "player" /\ slots[t].team = Observer =>
               l[t].team = Observer) => Uncrowded
    BY <1>1, <1>4, <2>4, <2>7, <2>8, <2>9, <2>10, LayoutStep
  <2>12. Uncrowded
    <3>1. CASE team = Observer
      BY <2>7, <2>11, <3>1
    <3>2. CASE team # Observer
      <4> DEFINE N == {t \in Slots : Occupied(t)' /\ slots'[t].team # Observer}
      <4>1. \A t \in Slots : t # s => slots'[t] = slots[t]
        BY <2>2, <2>3
      <4>2. \A t \in N : t = s \/ (Occupied(t) /\ slots[t].team # Observer)
        BY <4>1 DEF Occupied
      <4>3. Cardinality(N) <= map.numPlayers
        BY <2>1, <3>2, <4>2, RoomForOne
      <4> QED
        BY <4>3 DEF Uncrowded
    <3> QED
      BY <3>1, <3>2
  <2> QED
    BY <2>11, <2>12
<1> QED
  BY <1>3, <1>4

\* A colour exchanged with an unused slot's.
LEMMA ColourSlotStep ==
  ASSUME SlotInv, UNCHANGED <<map, players>>, NEW s \in Slots, NEW c \in Colours, ~map.fixed,
         slots[s].status = "player" => slots[s].team # Observer,
         Occupied(s), slots' = ColourSlot(s, c)
  PROVE  SlotInv' /\ Kept /\ Uncrowded
<1>0. InPlace \in Perms
  BY InPlaceIsPerm
<1>1. CASE \E t \in Slots : slots[t].colour = c /\ Occupied(t)
  <2>1. slots' = slots
    BY <1>1 DEF ColourSlot
  <2>2. slots = Arranged(InPlace, InPlace, InPlace)
    <3>1. \A t \in Slots : slots[t] = Arranged(InPlace, InPlace, InPlace)[t]
      BY SlotIsRecord DEF Arranged, InPlace
    <3>2. slots \in [Slots -> SlotType]
      BY MapFacts DEF SlotInv
    <3> QED
      BY <3>1, <3>2 DEF Arranged
  <2> QED
    BY <2>1, <2>2, <1>0, ArrangedStep
<1>2. CASE ~\E t \in Slots : slots[t].colour = c /\ Occupied(t)
  <2> DEFINE b == [t \in Slots |-> IF t = s THEN c
                                   ELSE IF slots[t].colour = c THEN slots[s].colour
                                   ELSE slots[t].colour]
             l == [t \in Slots |-> [team |-> slots[t].team, colour |-> b[t], race |-> slots[t].race]]
  <2>1. slots' = [t \in Slots |-> With(Occupant(slots[t]), l[t])]
    <3>1. slots' = [t \in Slots |-> IF t = s THEN [slots[t] EXCEPT !.colour = c]
                                    ELSE IF slots[t].colour = c
                                    THEN [slots[t] EXCEPT !.colour = slots[s].colour]
                                    ELSE slots[t]]
      BY <1>2 DEF ColourSlot
    <3>2. \A t \in Slots : \A x : [slots[t] EXCEPT !.colour = x] =
            [status |-> slots[t].status, pid |-> slots[t].pid, team |-> slots[t].team,
             colour |-> x, race |-> slots[t].race]
      BY SlotFacts DEF SlotType
    <3>3. ASSUME NEW t \in Slots
          PROVE  With(Occupant(slots[t]), l[t]) =
                   [status |-> slots[t].status, pid |-> slots[t].pid, team |-> slots[t].team,
                    colour |-> b[t], race |-> slots[t].race]
      BY DEF With, Occupant
    <3>4. ASSUME NEW t \in Slots PROVE slots'[t] = With(Occupant(slots[t]), l[t])
      <4>1. CASE t = s
        BY <3>1, <3>2, <3>3, <4>1
      <4>2. CASE t # s /\ slots[t].colour = c
        BY <3>1, <3>2, <3>3, <4>2
      <4>3. CASE t # s /\ slots[t].colour # c
        BY <3>1, <3>3, <4>3, SlotIsRecord
      <4> QED
        BY <4>1, <4>2, <4>3
    <3> QED
      BY <3>1, <3>4
  <2>2. Colours = 0..NumColours - 1 /\ c # Observer
    BY MapFacts DEF Observer
  <2>3. \A t \in Slots : l[t] \in LayoutType
    BY <2>2, SlotFacts DEF LayoutType, SlotType
  <2>4. \A t, u \in Slots : t # u /\ b[t] = b[u] => b[t] = Observer
    BY <2>2 DEF SlotInv, ColoursDiffer
  <2>5. ~map.custom /\ ~map.scored =>
           \A t \in Slots : slots[t].status = "player" =>
             (slots[t].team = Observer <=> b[t] = Observer)
    BY <1>2, <2>2 DEF SlotInv, ObserversKnown, Occupied
  <2>6. \A t \in Slots : l[t].team = slots[t].team /\ l[t].colour = b[t] /\ l[t].race = slots[t].race
    OBVIOUS
  <2> HIDE DEF l, b
  <2>7. \A t, u \in Slots : t # u /\ l[t].colour = l[u].colour => l[t].colour = Observer
    BY <2>4, <2>6
  <2>8. ~map.custom /\ ~map.scored =>
           \A t \in Slots : slots[t].status = "player" =>
             (l[t].team = Observer <=> l[t].colour = Observer)
    BY <2>5, <2>6
  <2> QED
    BY <2>1, <2>3, <2>6, <2>7, <2>8, LayoutStep
<1> QED
  BY <1>1, <1>2

\* Another race, or another team of a computer.
LEMMA OtherLayoutStep ==
  ASSUME SlotInv, UNCHANGED <<map, players>>, NEW s \in Slots, ~map.fixed, NEW k \in LayoutType,
         k.colour = slots[s].colour,
         slots[s].status = "computer" \/ k.team = slots[s].team,
         map.randomRaces => k.race = slots[s].race,
         slots' = [slots EXCEPT ![s] = With(Occupant(slots[s]), k)]
  PROVE  SlotInv' /\ Kept /\ Uncrowded
<1> DEFINE l == [t \in Slots |-> IF t = s THEN k ELSE Layout(slots[t])]
<1>1. slots' = [t \in Slots |-> With(Occupant(slots[t]), l[t])]
  <2>1. slots' = [t \in Slots |-> With(Occupant(slots[t]), IF t = s THEN k ELSE Layout(slots[t]))]
    BY OneLayout
  <2> QED
    BY <2>1
<1>2. \A t \in Slots : l[t] \in LayoutType
  BY RowFacts
<1>3. \A t \in Slots : /\ l[t].colour = slots[t].colour
                       /\ slots[t].status # "computer" => l[t].team = slots[t].team
                       /\ map.randomRaces => l[t].race = slots[t].race
  BY DEF Layout
<1> HIDE DEF l
<1>4. \A t, u \in Slots : t # u /\ l[t].colour = l[u].colour => l[t].colour = Observer
  BY <1>3 DEF SlotInv, ColoursDiffer
<1>5. ~map.custom /\ ~map.scored =>
         \A t \in Slots : slots[t].status = "player" =>
           (l[t].team = Observer <=> l[t].colour = Observer)
  BY <1>3 DEF SlotInv, ObserversKnown
<1>6. \A t \in Slots : slots[t].status = "player" /\ slots[t].team = Observer => l[t].team = Observer
  BY <1>3
<1> QED
  BY <1>1, <1>2, <1>3, <1>4, <1>5, <1>6, LayoutStep

LEMMA ChangeColourStep ==
  ASSUME SlotInv, NEW p \in Players, NEW c \in Colours, ChangeColour(p, c) PROVE SlotInv' /\ Kept /\ Uncrowded
<1>1. /\ p \in players /\ ~map.fixed /\ c \in Colours /\ UNCHANGED <<map, players>>
      /\ \E s \in SIDOf(p) : slots[s].team # Observer /\ slots' = ColourSlot(s, c)
  BY DEF ChangeColour
<1>2. PICK s \in Slots : SIDOf(p) = {s} /\ slots[s].status = "player"
  BY <1>1, SIDOfPlayer
<1>3. slots[s].team # Observer /\ slots' = ColourSlot(s, c) /\ Occupied(s)
  BY <1>1, <1>2 DEF Occupied
<1> QED
  BY <1>1, <1>2, <1>3, ColourSlotStep

\* A race that is picked.
LEMMA RaceGiven ==
  ASSUME SlotInv, UNCHANGED <<map, players>>, NEW s \in Slots, ~map.fixed, ~map.randomRaces,
         slots' = [slots EXCEPT ![s].race = "picked"]
  PROVE  SlotInv' /\ Kept /\ Uncrowded
<1> DEFINE k == [team |-> slots[s].team, colour |-> slots[s].colour, race |-> "picked"]
<1>1. slots[s] \in SlotType /\ slots \in [Slots -> SlotType]
  BY MapFacts DEF SlotInv
<1>2. k \in LayoutType
  BY <1>1 DEF SlotType, LayoutType
<1>3. [slots[s] EXCEPT !.race = "picked"] = With(Occupant(slots[s]), k)
  BY <1>1 DEF SlotType, With, Occupant
<1>4. slots' = [slots EXCEPT ![s] = With(Occupant(slots[s]), k)]
  <2>1. slots' = [slots EXCEPT ![s] = [slots[s] EXCEPT !.race = "picked"]]
    BY <1>1
  <2> QED
    BY <1>3, <2>1
<1>5. k.colour = slots[s].colour /\ k.team = slots[s].team
  OBVIOUS
<1> HIDE DEF k
<1> QED
  BY <1>2, <1>4, <1>5, OtherLayoutStep

LEMMA ChangeRaceStep ==
  ASSUME SlotInv, NEW p \in Players, ChangeRace(p) PROVE SlotInv' /\ Kept /\ Uncrowded
<1>1. /\ p \in players /\ ~map.fixed /\ ~map.randomRaces /\ UNCHANGED <<map, players>>
      /\ \E s \in SIDOf(p) : slots' = [slots EXCEPT ![s].race = "picked"]
  BY DEF ChangeRace
<1>2. PICK s \in Slots : SIDOf(p) = {s}
  BY <1>1, SIDOfPlayer
<1>3. slots' = [slots EXCEPT ![s].race = "picked"]
  BY <1>1, <1>2
<1> QED
  BY <1>1, <1>3, RaceGiven

LEMMA ChangeComputerStep ==
  ASSUME SlotInv, NEW s, ChangeComputer(s) PROVE SlotInv' /\ Kept /\ Uncrowded
<1>1. /\ s \in Slots /\ slots[s].status = "computer" /\ ~map.fixed /\ UNCHANGED <<map, players>>
  BY DEF ChangeComputer
<1>2. ASSUME NEW c \in Colours, slots' = ColourSlot(s, c) PROVE SlotInv' /\ Kept /\ Uncrowded
  BY <1>1, <1>2, ColourSlotStep DEF Occupied
<1>3. ASSUME ~map.randomRaces, slots' = [slots EXCEPT ![s].race = "picked"]
      PROVE  SlotInv' /\ Kept /\ Uncrowded
  BY <1>1, <1>3, RaceGiven
<1>4. ASSUME NEW team \in {0, map.numPlayers}, slots' = [slots EXCEPT ![s].team = (team - 1) % 256]
      PROVE  SlotInv' /\ Kept /\ Uncrowded
  <2> DEFINE n == (team - 1) % 256
  <2>1. n \in 0..map.numPlayers - 1 \cup {255}
    <3>1. (0 - 1) % 256 = 255
      <4> DEFINE m == 0 - 1
      <4>1. m \in Int /\ m = 0 - 1
        OBVIOUS
      <4>2. \A j \in Int : j % 256 \in 0..255
        OBVIOUS
      <4>3. \A j \in Int : j = 256 * (j \div 256) + (j % 256)
        OBVIOUS
      <4>4. \A j \in Int : j \div 256 \in Int
        OBVIOUS
      <4> HIDE DEF m
      <4>5. m % 256 \in 0..255 /\ m = 256 * (m \div 256) + (m % 256) /\ m \div 256 \in Int
        BY <4>1, <4>2, <4>3, <4>4
      <4> DEFINE q == m \div 256
                 r == m % 256
      <4>6. q \in Int /\ r \in 0..255 /\ m = 256 * q + r
        BY <4>5
      <4> HIDE DEF q, r
      <4>7. r = 255
        BY <4>1, <4>6
      <4> QED
        BY <4>7 DEF m, r
    <3>2. \A k \in 1..12 : (k - 1) % 256 = k - 1
      OBVIOUS
    <3> QED
      BY <3>1, <3>2, MapFacts
  <2>2. slots' = [slots EXCEPT ![s].team = n]
    BY <1>4
  <2> HIDE DEF n
  <2> DEFINE k == [team |-> n, colour |-> slots[s].colour, race |-> slots[s].race]
  <2>3. slots[s] \in SlotType /\ slots \in [Slots -> SlotType]
    BY <1>1, MapFacts DEF SlotInv
  <2>4. k \in LayoutType
    <3>1. n \in 0..Observer \cup {255}
      BY <2>1, MapFacts DEF Observer
    <3> QED
      BY <2>3, <3>1 DEF SlotType, LayoutType
  <2>5. [slots[s] EXCEPT !.team = n] = With(Occupant(slots[s]), k)
    BY <2>3 DEF SlotType, With, Occupant
  <2>6. slots' = [slots EXCEPT ![s] = With(Occupant(slots[s]), k)]
    <3>1. slots' = [slots EXCEPT ![s] = [slots[s] EXCEPT !.team = n]]
      BY <2>2, <2>3
    <3> QED
      BY <2>5, <3>1
  <2>7. k.colour = slots[s].colour /\ k.race = slots[s].race
    OBVIOUS
  <2> HIDE DEF k
  <2> QED
    BY <1>1, <2>4, <2>6, <2>7, OtherLayoutStep
<1> QED
  BY <1>2, <1>3, <1>4 DEF ChangeComputer

-----------------------------------------------------------------------------
(* Slots: the layout of the map                                            *)

LEMMA SlotInvInit == ASSUME Init PROVE SlotInv
<1>1. map \in Maps /\ players = {} /\ slots = [s \in 1..map.numSlots |-> MapSlot(map, s)]
  BY DEF Init
<1>2. /\ map.numPlayers \in 1..12 /\ map.numSlots \in 1..12 /\ NumColours \in 1..12
      /\ map.custom \in BOOLEAN /\ map.randomRaces \in BOOLEAN
  BY <1>1, SlotTableAssumption DEF SlotTableAssumption, Observer
<1>2a. ASSUME NEW s \in 1..map.numPlayers
       PROVE  /\ map.layout[s].team \in 0..11 /\ map.layout[s].colour \in Colours
              /\ map.layout[s].race \in {"own", "random"}
              /\ \A t \in 1..map.numPlayers : t # s => map.layout[s].colour # map.layout[t].colour
  BY <1>1, SlotTableAssumption DEF SlotTableAssumption, Observer
<1> DEFINE N        == 1..map.numSlots
           teamOf   == [s \in N |-> IF s > map.numPlayers THEN Observer
                                    ELSE map.layout[s].team]
           colourOf == [s \in N |-> IF s > map.numPlayers THEN Observer ELSE map.layout[s].colour]
           raceOf   == [s \in N |-> IF s > map.numPlayers THEN "random"
                                    ELSE IF map.randomRaces THEN "random" ELSE map.layout[s].race]
<1>3. ASSUME NEW s \in 1..map.numSlots
      PROVE  slots[s] = [status |-> "open", pid |-> Nobody, team |-> teamOf[s],
                         colour |-> colourOf[s], race |-> raceOf[s]]
  <2>1. CASE s > map.numPlayers
    BY <2>1, <1>1 DEF MapSlot, With, Empty
  <2>2. CASE ~(s > map.numPlayers)
    BY <2>2, <1>1 DEF MapSlot, With, Empty
  <2> QED
    BY <2>1, <2>2
<1>4. ASSUME NEW s \in 1..map.numSlots
      PROVE  /\ teamOf[s] \in 0..Observer
             /\ colourOf[s] \in 0..NumColours - 1 \cup {Observer}
             /\ raceOf[s] \in {"own", "random", "picked"} /\ (map.randomRaces => raceOf[s] = "random")
             /\ \A t \in 1..map.numSlots : t # s /\ colourOf[s] = colourOf[t] => colourOf[s] = Observer
  <2>1. CASE s > map.numPlayers
    BY <2>1 DEF Observer
  <2>2. CASE ~(s > map.numPlayers)
    <3>1. s \in 1..map.numPlayers
      BY <1>2, <2>2
    <3>2. teamOf[s] \in 0..Observer
      BY <1>2a, <2>2, <3>1 DEF Observer
    <3>3. colourOf[s] = map.layout[s].colour /\ colourOf[s] \in 0..NumColours - 1
      BY <1>2a, <2>2, <3>1 DEF Colours
    <3>4. ASSUME NEW t \in 1..map.numSlots, t # s PROVE colourOf[s] # colourOf[t]
      <4>1. CASE t > map.numPlayers
        BY <1>2, <3>3, <4>1 DEF Observer
      <4>2. CASE ~(t > map.numPlayers)
        <5>1. t \in 1..map.numPlayers /\ colourOf[t] = map.layout[t].colour
          BY <1>2, <4>2
        <5> QED
          BY <1>2a, <3>1, <3>3, <3>4, <5>1
      <4> QED
        BY <4>1, <4>2
    <3>5. raceOf[s] \in {"own", "random", "picked"} /\ (map.randomRaces => raceOf[s] = "random")
      BY <1>2a, <2>2, <3>1
    <3> HIDE DEF teamOf, colourOf, raceOf
    <3> QED
      BY <3>2, <3>3, <3>4, <3>5
  <2> QED
    BY <2>1, <2>2
<1> HIDE DEF teamOf, colourOf, raceOf
<1>5. Slots = 1..map.numSlots
  BY <1>1 DEF Slots
<1>5a. \A s \in Slots : /\ slots[s].status = "open" /\ slots[s].pid = Nobody
                        /\ slots[s].team = teamOf[s] /\ slots[s].colour = colourOf[s]
                        /\ slots[s].race = raceOf[s]
  <2> SUFFICES ASSUME NEW s \in Slots
               PROVE  /\ slots[s].status = "open" /\ slots[s].pid = Nobody
                      /\ slots[s].team = teamOf[s] /\ slots[s].colour = colourOf[s]
                      /\ slots[s].race = raceOf[s]
    OBVIOUS
  <2>1. slots[s] = [status |-> "open", pid |-> Nobody, team |-> teamOf[s],
                    colour |-> colourOf[s], race |-> raceOf[s]]
    BY <1>3, <1>5
  <2> QED
    BY <2>1
<1>6. slots \in [1..map.numSlots -> SlotType]
  <2>1. ASSUME NEW s \in 1..map.numSlots PROVE slots[s] \in SlotType
    <3>1. slots[s] = [status |-> "open", pid |-> Nobody, team |-> teamOf[s],
                      colour |-> colourOf[s], race |-> raceOf[s]]
      BY <1>3
    <3>2. /\ teamOf[s] \in 0..Observer
          /\ colourOf[s] \in 0..NumColours - 1 \cup {Observer}
          /\ raceOf[s] \in {"own", "random", "picked"}
      BY <1>4
    <3> QED
      BY <3>1, <3>2 DEF SlotType
  <2> QED
    BY <1>1, <2>1
<1>7. Seated
  BY <1>1, <1>5a DEF Seated
<1>8. ColoursDiffer /\ ObserversKnown
  BY <1>4, <1>5, <1>5a DEF ColoursDiffer, ObserversKnown
<1>9. Prescribed
  BY <1>1, <1>4, <1>5, <1>5a DEF Prescribed
<1> QED
  BY <1>1, <1>6, <1>7, <1>8, <1>9 DEF SlotInv

\* The invariant is what it was meant for.
LEMMA SlotInvSays == ASSUME SlotInv PROVE SlotsAreSound
<1>1. TypeOK
  <2>1. ASSUME NEW s \in Slots
        PROVE  Occupant(slots[s]) \in {Empty("open"), Empty("closed"), Empty("computer")}
                                   \cup {Player(p) : p \in Players}
    <3>1. CASE slots[s].status = "player"
      <4>1. slots[s].pid \in Players
        BY <3>1, SlotFacts DEF SlotInv
      <4>2. Occupant(slots[s]) = Player(slots[s].pid)
        BY <3>1 DEF Occupant, Player
      <4> QED
        BY <4>1, <4>2
    <3>2. CASE slots[s].status # "player"
      <4>1. slots[s].pid = Nobody /\ slots[s].status \in {"open", "closed", "computer"}
        BY <3>2, SlotFacts DEF SlotType
      <4> QED
        BY <4>1 DEF Occupant, Empty
    <3> QED
      BY <3>1, <3>2
  <2>2. \A s \in Slots : /\ slots[s].team \in 0..Observer \cup {255}
                         /\ slots[s].colour \in Colours \cup {Observer}
                         /\ slots[s].race \in {"own", "random", "picked"}
    BY SlotFacts, MapFacts DEF SlotType
  <2> QED
    BY <2>1, <2>2 DEF TypeOK, SlotInv
<1>2. EveryPlayerSits
  <2>1. ASSUME NEW p \in players PROVE Cardinality({s \in Slots : slots[s].pid = p}) = 1
    <3>1. PICK s \in Slots : slots[s].pid = p
      BY DEF SlotInv, Seated
    <3>2. p # Nobody
      BY SlotTableAssumption DEF SlotInv, SlotTableAssumption
    <3>3. {t \in Slots : slots[t].pid = p} = {s}
      BY <3>1, <3>2 DEF SlotInv, Seated
    <3> QED
      BY <3>3, FS_Singleton
  <2> QED
    BY <2>1, SlotFacts DEF EveryPlayerSits
<1>3. ObserversColour
  BY DEF SlotInv, ObserversKnown, ObserversColour, Movable, TeamSlots
<1> QED
  BY <1>1, <1>2, <1>3 DEF SlotsAreSound, SlotInv

-----------------------------------------------------------------------------
(* Slots: numbers in order                                                 *)

\* The numbers of a set that are smaller than x.
Smaller(S, x) == {y \in S : y < x}

\* The least of a set has none that is smaller.
LEMMA LeastHasNone ==
  ASSUME NEW S \in SUBSET Nat, NEW m \in S, \A x \in S : m <= x
  PROVE  Cardinality(Smaller(S, m)) = 0
<1>1. \A x \in S : ~(x < m)
  <2> TAKE x \in S
  <2>1. x \in Nat /\ m \in Nat /\ m <= x
    OBVIOUS
  <2> QED
    BY <2>1
<1>2. Smaller(S, m) = {}
  BY <1>1 DEF Smaller
<1> QED
  BY <1>2, FS_EmptySet

\* Without the least of a set, each of the others has one less that is smaller.
LEMMA LeastCounts ==
  ASSUME NEW S \in SUBSET Nat, IsFiniteSet(S), NEW m \in S, \A x \in S : m <= x,
         NEW x \in S \ {m}
  PROVE  /\ Cardinality(Smaller(S \ {m}, x)) \in Nat
         /\ Cardinality(Smaller(S, x)) = Cardinality(Smaller(S \ {m}, x)) + 1
<1> DEFINE W == Smaller(S \ {m}, x)
<1>1. x \in Nat /\ m \in Nat /\ m <= x /\ m # x
  OBVIOUS
<1>2. m < x
  BY <1>1
<1>3. Smaller(S, x) = W \cup {m} /\ m \notin W
  BY <1>2 DEF Smaller
<1>4. W \subseteq S
  BY DEF Smaller
<1> HIDE DEF W
<1>5. IsFiniteSet(W)
  BY <1>4, FS_Subset
<1>6. Cardinality(W \cup {m}) = Cardinality(W) + 1 /\ Cardinality(W) \in Nat
  BY <1>3, <1>5, FS_AddElement, FS_CardinalityType
<1> QED
  BY <1>3, <1>6 DEF W

\* In a finite set of numbers there is one with n - 1 smaller ones, for each n.
LEMMA RankExists ==
  \A S \in SUBSET Nat : IsFiniteSet(S) =>
    \A n \in 1..Cardinality(S) : \E x \in S : Cardinality(Smaller(S, x)) = n - 1
<1> DEFINE Ranked(S) == \A n \in 1..Cardinality(S) : \E x \in S : Cardinality(Smaller(S, x)) = n - 1
           T == {k \in Nat : \A S \in SUBSET Nat : IsFiniteSet(S) /\ Cardinality(S) = k => Ranked(S)}
<1>1. 0 \in T
  OBVIOUS
<1>2. ASSUME NEW k \in Nat, k \in T PROVE k + 1 \in T
  <2> SUFFICES ASSUME NEW S \in SUBSET Nat, IsFiniteSet(S), Cardinality(S) = k + 1,
                      NEW n \in 1..k + 1
               PROVE  \E x \in S : Cardinality(Smaller(S, x)) = n - 1
    OBVIOUS
  <2>1. S # {}
    BY FS_EmptySet
  <2>2. PICK m \in S : \A x \in S : m <= x
    BY <2>1, B!LeastElement
  <2> DEFINE R == S \ {m}
  <2>3. IsFiniteSet(R) /\ Cardinality(R) = k /\ R \in SUBSET Nat
    BY <2>2, FS_RemoveElement
  <2>4. CASE n = 1
    BY <2>2, <2>4, LeastHasNone
  <2>5. CASE n # 1
    <3>1. n - 1 \in 1..k
      BY <2>5
    <3>2. Ranked(R)
      BY <1>2, <2>3
    <3>3. PICK x \in R : Cardinality(Smaller(R, x)) = n - 1 - 1
      BY <2>3, <3>1, <3>2
    <3>4. Cardinality(Smaller(S, x)) = n - 1 - 1 + 1
      BY <2>2, <3>3, LeastCounts
    <3> QED
      BY <3>1, <3>3, <3>4
  <2> QED
    BY <2>4, <2>5
<1> HIDE DEF T
<1>3. Nat \subseteq T
  BY <1>1, <1>2, B!SetInduction
<1> QED
  BY <1>3, FS_CardinalityType DEF T

\* A set in order has each of its elements once.
LEMMA SortedSet ==
  ASSUME NEW S \in SUBSET Nat, IsFiniteSet(S)
  PROVE  /\ Sorted(S) \in Seq(S) /\ Len(Sorted(S)) = Cardinality(S) /\ Cardinality(S) \in Nat
         /\ IsInjective(Sorted(S))
<1> DEFINE n == Cardinality(S)
           q == Sorted(S)
<1>1. n \in Nat
  BY FS_CardinalityType
<1>2. \A i \in 1..n : \E x \in S : Cardinality({y \in S : y < x}) = i - 1
  BY RankExists DEF Smaller
<1>3. q \in [1..n -> S]
  BY <1>2 DEF Sorted
<1>4. \A i \in 1..n : q[i] = CHOOSE x \in S : Cardinality({y \in S : y < x}) = i - 1
  BY DEF Sorted
<1> HIDE DEF q, n
<1>5. q \in Seq(S)
  BY <1>1, <1>3, SeqDef
<1>6. Len(q) = n
  BY <1>1, <1>3, <1>5, LenProperties
<1>7. ASSUME NEW i \in 1..n PROVE Cardinality({y \in S : y < q[i]}) = i - 1
  <2>1. \E x \in S : Cardinality({y \in S : y < x}) = i - 1
    BY <1>2
  <2>2. q[i] = CHOOSE x \in S : Cardinality({y \in S : y < x}) = i - 1
    BY <1>4
  <2> QED
    BY <2>1, <2>2
<1>8. ASSUME NEW i \in 1..n, NEW j \in 1..n, q[i] = q[j] PROVE i = j
  <2>1. i - 1 = j - 1
    <3>1. Cardinality({y \in S : y < q[i]}) = i - 1
      BY <1>7
    <3>2. Cardinality({y \in S : y < q[j]}) = j - 1
      BY <1>7
    <3> QED
      BY ONLY <3>1, <3>2, <1>8
  <2>2. i \in Int /\ j \in Int
    BY <1>1
  <2> QED
    BY <2>1, <2>2
<1>9. IsInjective(q)
  BY <1>3, <1>8 DEF IsInjective
<1> QED
  BY <1>1, <1>5, <1>6, <1>9 DEF n, q

\* The elements of two sequences in a row differ when those of each do, and there is none
\* in both.
LEMMA ConcatDiffers ==
  ASSUME NEW S, NEW a \in Seq(S), NEW b \in Seq(S), IsInjective(a), IsInjective(b),
         \A i \in DOMAIN a, j \in DOMAIN b : a[i] # b[j]
  PROVE  IsInjective(a \o b)
<1>1. /\ DOMAIN a = 1..Len(a) /\ DOMAIN b = 1..Len(b) /\ Len(a) \in Nat /\ Len(b) \in Nat
      /\ DOMAIN (a \o b) = 1..(Len(a) + Len(b))
      /\ \A i \in 1..(Len(a) + Len(b)) : (a \o b)[i] = IF i <= Len(a) THEN a[i] ELSE b[i - Len(a)]
  OBVIOUS
<1> SUFFICES ASSUME NEW i \in 1..(Len(a) + Len(b)), NEW j \in 1..(Len(a) + Len(b)),
                    (a \o b)[i] = (a \o b)[j]
             PROVE  i = j
  BY <1>1 DEF IsInjective
<1>2. \A x, y \in 1..Len(a) : a[x] = a[y] => x = y
  BY <1>1 DEF IsInjective
<1>3. \A x, y \in 1..Len(b) : b[x] = b[y] => x = y
  BY <1>1 DEF IsInjective
<1>4. CASE i <= Len(a) /\ j <= Len(a)
  BY <1>1, <1>2, <1>4
<1>5. CASE i > Len(a) /\ j > Len(a)
  <2>1. i - Len(a) \in 1..Len(b) /\ j - Len(a) \in 1..Len(b)
    BY <1>1, <1>5
  <2>2. (a \o b)[i] = b[i - Len(a)] /\ (a \o b)[j] = b[j - Len(a)]
    BY <1>1, <1>5
  <2>3. i - Len(a) = j - Len(a)
    BY <1>3, <2>1, <2>2
  <2> QED
    BY <1>1, <2>3
<1>6. CASE i <= Len(a) /\ j > Len(a)
  BY <1>1, <1>6
<1>7. CASE i > Len(a) /\ j <= Len(a)
  BY <1>1, <1>7
<1> QED
  BY <1>1, <1>4, <1>5, <1>6, <1>7

-----------------------------------------------------------------------------
(* Slots: where the balanced go                                            *)

\* One list of slots after another, as a step of a fold.
Chained(ctx, all, first) == all \o first
C == INSTANCE FoldInduction WITH Op <- Chained

\* With fixed settings who plays is in one of the teams.
LEMMA TeamsAreKnown ==
  ASSUME SlotInv, map.fixed, NEW s \in Movable
  PROVE  slots[s].team \in 0..11
<1>1. s \in Slots /\ slots[s].team # Observer /\ s \in 1..map.numSlots
  BY MapFacts DEF Movable
<1>2. Layout(slots[s]) = Layout(MapSlot(map, s))
  BY <1>1 DEF SlotInv, Prescribed
<1>3. slots[s].team = MapSlot(map, s).team
  BY <1>2 DEF Layout
<1>4. map \in Maps
  BY DEF SlotInv
<1>5. \/ MapSlot(map, s).team = Observer
      \/ s \in 1..map.numPlayers /\ MapSlot(map, s).team = map.layout[s].team
  <2>1. CASE s > map.numPlayers
    BY <2>1 DEF MapSlot, With, Empty
  <2>2. CASE ~(s > map.numPlayers)
    <3>1. s \in 1..map.numPlayers
      BY <1>1, <2>2, MapFacts
    <3> QED
      BY <2>2, <3>1 DEF MapSlot, With, Empty
  <2> QED
    BY <2>1, <2>2
<1>6. s \in 1..map.numPlayers => map.layout[s].team \in 0..11
  BY <1>4, SlotTableAssumption DEF SlotTableAssumption, Observer
<1> QED
  BY <1>1, <1>3, <1>5, <1>6

\* As many slots of a team as there are players in it.
LEMMA FirstOfTeam ==
  ASSUME SlotInv, NEW team
  PROVE  /\ FirstSlots(team) \in Seq(Slots) /\ Len(FirstSlots(team)) = TeamSizes(team)
         /\ \A i \in DOMAIN FirstSlots(team) : slots[FirstSlots(team)[i]].team = team
         /\ IsInjective(FirstSlots(team))
<1> DEFINE S == TeamSlots(team)
           M == {s \in Movable : slots[s].team = team}
<1>1. Slots \subseteq Nat /\ IsFiniteSet(Slots)
  BY MapFacts
<1>2. S \subseteq Slots /\ M \subseteq S
  BY DEF TeamSlots, Movable
<1>3. TeamSizes(team) = Cardinality(M) /\ FirstSlots(team) = SubSeq(Sorted(S), 1, Cardinality(M))
  BY DEF TeamSizes, FirstSlots
<1> HIDE DEF S, M
<1>4. IsFiniteSet(S)
  BY <1>1, <1>2, FS_Subset
<1>5. Cardinality(M) <= Cardinality(S) /\ Cardinality(M) \in Nat /\ Cardinality(S) \in Nat
  BY <1>2, <1>4, FS_Subset, FS_CardinalityType
<1>6. Sorted(S) \in Seq(S) /\ Len(Sorted(S)) = Cardinality(S) /\ IsInjective(Sorted(S))
  BY <1>1, <1>2, <1>4, SortedSet
<1>7. Sorted(S) \in Seq(Slots)
  BY <1>2, <1>6
<1>8. 1 \in 1..Len(Sorted(S)) + 1 /\ Cardinality(M) \in 1 - 1..Len(Sorted(S))
  BY <1>5, <1>6
<1> DEFINE q == Sorted(S)
           n == Cardinality(M)
           r == SubSeq(q, 1, n)
<1>9. /\ q \in Seq(Slots) /\ 1 \in 1..Len(q) + 1 /\ n \in 1 - 1..Len(q) /\ n \in Nat
      /\ DOMAIN q = 1..Len(q) /\ IsInjective(q) /\ \A i \in 1..Len(q) : q[i] \in S
  <2>1. \A i \in 1..Len(Sorted(S)) : Sorted(S)[i] \in S
    BY <1>6, ElementOfSeq
  <2> QED
    BY <1>5, <1>6, <1>7, <1>8, <2>1, LenProperties
<1> HIDE DEF q, n
<1>10. /\ r \in Seq(Slots) /\ Len(r) = IF 1 <= n THEN n - 1 + 1 ELSE 0
       /\ \A i \in 1..n - 1 + 1 : r[i] = q[1 + i - 1]
  BY <1>9, SubSeqProperties
<1> HIDE DEF r
<1>11. Len(r) = n /\ DOMAIN r = 1..n
  BY <1>9, <1>10, LenProperties
<1>12. \A i \in 1..n : r[i] = q[i] /\ i \in 1..Len(q)
  BY <1>9, <1>10
<1>13. IsInjective(r)
  BY <1>9, <1>11, <1>12 DEF IsInjective
<1>14. \A i \in DOMAIN r : slots[r[i]].team = team
  <2>1. \A i \in DOMAIN r : r[i] \in S
    BY <1>9, <1>11, <1>12
  <2> QED
    BY <2>1 DEF S, TeamSlots
<1>15. FirstSlots(team) = r /\ TeamSizes(team) = n
  BY <1>3 DEF r, q, n
<1> QED
  BY <1>10, <1>11, <1>13, <1>14, <1>15

\* There is another slot for each of those who are balanced.
LEMMA TargetsSuffice ==
  ASSUME SlotInv, map.fixed
  PROVE  Targets \in Seq(Slots) /\ Len(Targets) = Cardinality(Movable) /\ IsInjective(Targets)
<1> DEFINE e       == <<>>
           Part(k) == [team \in 1..k |-> FirstSlots(team - 1)]
           All(k)  == C!Fold(0, e, Part(k))
           Low(k)  == {s \in Movable : slots[s].team < k}
           Good(k) == /\ All(k) \in Seq(Slots) /\ Len(All(k)) = Cardinality(Low(k))
                      /\ IsInjective(All(k))
                      /\ \A i \in DOMAIN All(k) : \E j \in 0..k - 1 : slots[All(k)[i]].team = j
           T       == {k \in Nat : k <= 12 => Good(k)}
<1>0. IsFiniteSet(Movable) /\ \A s \in Movable : slots[s].team \in 0..11
  BY MapFacts, FS_Subset, TeamsAreKnown DEF Movable
<1>p. \A k \in Nat : Part(k) \in Seq(Seq(Slots)) /\ Len(Part(k)) = k
  <2> TAKE k \in Nat
  <2>1. Part(k) \in [1..k -> Seq(Slots)]
    BY FirstOfTeam
  <2> HIDE DEF Part
  <2>2. Part(k) \in Seq(Seq(Slots))
    BY <2>1, SeqDef
  <2> QED
    BY <2>1, <2>2, LenProperties
<1>1. 0 \in T
  <2>1. Part(0) = <<>>
    <3>1. Part(0) \in Seq(Seq(Slots)) /\ Len(Part(0)) = 0
      BY <1>p
    <3> HIDE DEF Part
    <3> QED
      BY <3>1, EmptySeq
  <2>2. Low(0) = {}
    BY <1>0
  <2> HIDE DEF Part, Low, e
  <2>3. All(0) = e
    BY <2>1, C!FoldEmpty
  <2> HIDE DEF All
  <2>4. Cardinality(Low(0)) = 0
    BY <2>2, FS_EmptySet
  <2>5. e \in Seq(Slots) /\ Len(e) = 0 /\ DOMAIN e = {} /\ IsInjective(e)
    BY DEF e, IsInjective
  <2>6. Good(0)
    BY <2>3, <2>4, <2>5
  <2> HIDE DEF Good
  <2> QED
    BY <2>6
<1>2. ASSUME NEW k \in Nat, k \in T PROVE k + 1 \in T
  <2> HIDE DEF Good
  <2> SUFFICES ASSUME k + 1 <= 12 PROVE Good(k + 1)
    OBVIOUS
  <2>0. Good(k)
    BY <1>2
  <2> USE DEF Good
  <2>1. /\ All(k) \in Seq(Slots) /\ Len(All(k)) = Cardinality(Low(k)) /\ IsInjective(All(k))
        /\ \A i \in DOMAIN All(k) : \E j \in 0..k - 1 : slots[All(k)[i]].team = j
    BY <2>0
  <2>2. Part(k + 1) = Append(Part(k), FirstSlots(k))
    <3>1. /\ Part(k) \in Seq(Seq(Slots)) /\ Part(k + 1) \in Seq(Seq(Slots))
          /\ Len(Part(k)) = k /\ Len(Part(k + 1)) = k + 1
      BY <1>p
    <3>2. /\ \A i \in 1..k : Part(k)[i] = FirstSlots(i - 1)
          /\ \A i \in 1..k + 1 : Part(k + 1)[i] = FirstSlots(i - 1)
      OBVIOUS
    <3>3. FirstSlots(k) \in Seq(Slots) /\ k + 1 - 1 = k
      BY FirstOfTeam
    <3> HIDE DEF Part
    <3> DEFINE p == Part(k)
               q == Part(k + 1)
               x == FirstSlots(k)
               Q == Seq(Slots)
    <3>4. /\ p \in Seq(Q) /\ q \in Seq(Q) /\ Len(p) = k /\ Len(q) = k + 1
          /\ \A i \in 1..k : p[i] = q[i]
          /\ q[k + 1] = x /\ x \in Q
      BY <3>1, <3>2, <3>3
    <3> HIDE DEF p, q, x, Q
    <3>5. /\ Append(p, x) \in Seq(Q) /\ Len(Append(p, x)) = k + 1
          /\ \A i \in 1..k + 1 : Append(p, x)[i] = q[i]
      BY <3>4
    <3>6. Append(p, x) = q
      BY <3>4, <3>5, SeqEqual
    <3> QED
      BY <3>6 DEF p, q, x
  <2>3. All(k + 1) = All(k) \o FirstSlots(k)
    <3>1. Part(k) \in Seq(Seq(Slots)) /\ FirstSlots(k) \in Seq(Slots)
      BY <1>p, FirstOfTeam
    <3> HIDE DEF Part, e
    <3>2. C!Fold(0, e, Append(Part(k), FirstSlots(k))) = Chained(0, C!Fold(0, e, Part(k)), FirstSlots(k))
      BY <3>1, C!FoldAppend
    <3> QED
      BY <2>2, <3>2 DEF Chained
  <2>4. Cardinality(Low(k + 1)) = Cardinality(Low(k)) + TeamSizes(k) /\ Cardinality(Low(k)) \in Nat
        /\ TeamSizes(k) \in Nat
    <3> DEFINE A == Low(k)
               E == {s \in Movable : slots[s].team = k}
    <3>0. \A s \in Movable : slots[s].team < k + 1 <=> slots[s].team < k \/ slots[s].team = k
      BY <1>0
    <3>1. Low(k + 1) = A \cup E /\ A \cap E = {} /\ A \subseteq Movable /\ E \subseteq Movable
      BY <1>0, <3>0
    <3>2. TeamSizes(k) = Cardinality(E)
      BY DEF TeamSizes
    <3> HIDE DEF A, E, Low
    <3>3. IsFiniteSet(A) /\ IsFiniteSet(E)
      BY <1>0, <3>1, FS_Subset
    <3>4. Cardinality(A \cup E) = Cardinality(A) + Cardinality(E) - Cardinality(A \cap E)
          /\ Cardinality(A) \in Nat /\ Cardinality(E) \in Nat /\ Cardinality(A \cap E) = 0
      BY <3>1, <3>3, FS_Union, FS_CardinalityType, FS_EmptySet
    <3>5. Cardinality(Low(k + 1)) = Cardinality(A) + Cardinality(E)
      <4>1. Cardinality(Low(k + 1)) = Cardinality(A \cup E)
        BY ONLY <3>1
      <4>2. Cardinality(A \cup E) = Cardinality(A) + Cardinality(E)
        BY <3>4
      <4> QED
        BY ONLY <4>1, <4>2
    <3>6. Cardinality(Low(k)) = Cardinality(A)
      BY DEF A
    <3> QED
      BY <3>2, <3>4, <3>5, <3>6
  <2>5. /\ FirstSlots(k) \in Seq(Slots) /\ Len(FirstSlots(k)) = TeamSizes(k)
        /\ IsInjective(FirstSlots(k))
        /\ \A i \in DOMAIN FirstSlots(k) : slots[FirstSlots(k)[i]].team = k
    BY FirstOfTeam
  <2> HIDE DEF All, Low
  <2> DEFINE a == All(k)
             b == FirstSlots(k)
             c == All(k + 1)
  <2>7. /\ a \in Seq(Slots) /\ b \in Seq(Slots) /\ c = a \o b /\ IsInjective(a) /\ IsInjective(b)
        /\ \A i \in DOMAIN a : \E j \in 0..k - 1 : slots[a[i]].team = j
        /\ \A i \in DOMAIN b : slots[b[i]].team = k
    BY <2>1, <2>3, <2>5
  <2>6. Len(a) + Len(b) = Cardinality(Low(k + 1))
    BY <2>1, <2>4, <2>5
  <2> HIDE DEF a, b, c
  <2>8. c \in Seq(Slots) /\ Len(c) = Cardinality(Low(k + 1))
    <3>1. a \o b \in Seq(Slots) /\ Len(a \o b) = Len(a) + Len(b)
      BY <2>7
    <3> QED
      BY <2>6, <2>7, <3>1
  <2>9. IsInjective(c)
    <3>1. \A i \in DOMAIN a, j \in DOMAIN b : a[i] # b[j]
      BY <2>7
    <3> QED
      BY <2>7, <3>1, ConcatDiffers
  <2>10. \A i \in DOMAIN c : \E j \in 0..(k + 1) - 1 : slots[c[i]].team = j
    <3> TAKE i \in DOMAIN c
    <3>1. \/ i \in DOMAIN a /\ c[i] = a[i]
          \/ \E m \in DOMAIN b : c[i] = b[m]
      <4>1. /\ Len(a) \in Nat /\ Len(b) \in Nat /\ DOMAIN a = 1..Len(a) /\ DOMAIN b = 1..Len(b)
            /\ DOMAIN c = 1..(Len(a) + Len(b))
            /\ \A n \in 1..(Len(a) + Len(b)) : c[n] = IF n <= Len(a) THEN a[n] ELSE b[n - Len(a)]
        BY <2>7
      <4>2. CASE i <= Len(a)
        BY <4>1, <4>2
      <4>3. CASE i > Len(a)
        <5>1. i - Len(a) \in DOMAIN b /\ c[i] = b[i - Len(a)]
          BY <4>1, <4>3
        <5> QED
          BY <5>1
      <4> QED
        BY <4>1, <4>2, <4>3
    <3> QED
      BY <2>7, <3>1
  <2> QED
    BY <2>8, <2>9, <2>10 DEF c
<1>3. 12 \in T
  <2> HIDE DEF T
  <2>1. Nat \subseteq T
    BY <1>1, <1>2, C!SetInduction
  <2> QED
    BY <2>1
<1>4. All(12) \in Seq(Slots) /\ Len(All(12)) = Cardinality(Low(12)) /\ IsInjective(All(12))
  BY <1>3
<1>5. Low(12) = Movable
  BY <1>0
<1>6. Targets = All(12)
  BY Zenon DEF Targets, Observer, Chained, C!Fold, FoldLeft, MapThenFoldSet, Max,
               C!FoldLeft, C!MapThenFoldSet, C!Max
<1> QED
  BY <1>4, <1>5, <1>6

-----------------------------------------------------------------------------
(* Slots: the search for the best ordering                                 *)

\* The players and the teams that a call of the search is about: those of its last k levels.
Calls(k, sizes, score) == (SUBSET DOMAIN score) \X {j \in 1..Len(sizes) + 1 : j > Len(sizes) + 1 - k}

\* f is the search as far as its last k levels.
Searches(f, k, sizes, score) ==
  f = [x \in Calls(k, sizes, score) |-> BestOf(sizes, score, f, x[1], x[2])]

\* The orderings that a level of the search compares.
Picks(sizes, pids, team) ==
  kSubset(sizes[team], pids) \ {Range(SubSeq(Sorted(pids), 1, sizes[team]))}
Completed(f, sizes, pids, team, chosen) ==
  {Sorted(chosen) \o rest : rest \in f[<<pids \ chosen, team + 1>>]}
Found(f, sizes, pids, start) ==
  UNION {UNION {Completed(f, sizes, pids, team, chosen) : chosen \in Picks(sizes, pids, team)} :
           team \in start..Len(sizes)}

LEMMA BestOfIsFound ==
  ASSUME NEW f, NEW sizes, NEW score, NEW pids, NEW start
  PROVE  BestOf(sizes, score, f, pids, start) =
           LET found == Found(f, sizes, pids, start) IN
           IF found = {} THEN {Sorted(pids)}
           ELSE {order \in found : \A other \in found :
                   Difference(order, sizes, start, score) <= Difference(other, sizes, start, score)}
BY Zenon DEF BestOf, Found, Completed, Picks, SplitEach

\* Two functions agree on some of the players and the levels of N after start.
Agree(f, g, pids, start, N) ==
  \A y \in SUBSET pids, j \in start + 1..N + 1 : f[<<y, j>>] = g[<<y, j>>]

\* The search of a level looks at the levels after it only.
LEMMA FoundLocally ==
  ASSUME NEW f, NEW g, NEW sizes, NEW pids, NEW N \in Nat, Len(sizes) = N, NEW start \in 1..N + 1,
         Agree(f, g, pids, start, N)
  PROVE  Found(f, sizes, pids, start) = Found(g, sizes, pids, start)
<1>1. ASSUME NEW team \in start..N, NEW chosen \in Picks(sizes, pids, team)
      PROVE  Completed(f, sizes, pids, team, chosen) = Completed(g, sizes, pids, team, chosen)
  <2>1. team + 1 \in start + 1..N + 1 /\ pids \ chosen \in SUBSET pids
    OBVIOUS
  <2> QED
    BY <2>1 DEF Completed, Agree
<1> QED
  BY <1>1 DEF Found

LEMMA SearchExists ==
  ASSUME NEW sizes, NEW score, NEW N \in Nat, Len(sizes) = N
  PROVE  \A k \in Nat : \E f : Searches(f, k, sizes, score)
<1> DEFINE T == {k \in Nat : \E f : Searches(f, k, sizes, score)}
<1>1. 0 \in T
  <2>1. Calls(0, sizes, score) = {}
    BY DEF Calls
  <2> DEFINE f == [x \in {} |-> x]
  <2>2. f = [x \in {} |-> BestOf(sizes, score, f, x[1], x[2])]
    OBVIOUS
  <2>3. Searches(f, 0, sizes, score)
    BY <2>1, <2>2 DEF Searches
  <2> QED
    BY <2>3
<1>2. ASSUME NEW k \in Nat, k \in T PROVE k + 1 \in T
  <2>1. PICK f : Searches(f, k, sizes, score)
    BY <1>2
  <2> DEFINE X == Calls(k, sizes, score)
             Y == Calls(k + 1, sizes, score)
             h == [x \in Y |-> BestOf(sizes, score, f, x[1], x[2])]
  <2>2. \A x \in X : x \in Y /\ f[x] = h[x]
    <3>1. X \subseteq Y
      BY DEF Calls
    <3>2. \A x \in X : f[x] = BestOf(sizes, score, f, x[1], x[2])
      BY <2>1 DEF Searches
    <3> QED
      BY <3>1, <3>2
  <2>3. ASSUME NEW x \in Y PROVE h[x] = BestOf(sizes, score, h, x[1], x[2])
    <3> DEFINE pids == x[1]
               start == x[2]
    <3>1. pids \in SUBSET DOMAIN score /\ start \in 1..N + 1 /\ start > N + 1 - (k + 1)
      BY DEF Calls
    <3>2. \A y \in SUBSET pids, j \in start + 1..N + 1 : <<y, j>> \in X
      BY <3>1 DEF Calls
    <3>3. Agree(f, h, pids, start, N)
      BY <2>2, <3>2 DEF Agree
    <3> HIDE DEF h, pids, start, X, Y
    <3>4. Found(f, sizes, pids, start) = Found(h, sizes, pids, start)
      BY <3>1, <3>3, FoundLocally
    <3>5. BestOf(sizes, score, f, pids, start) = BestOf(sizes, score, h, pids, start)
      BY <3>4, BestOfIsFound
    <3> QED
      BY <3>5 DEF h, pids, start
  <2> HIDE DEF X
  <2>4. Searches(h, k + 1, sizes, score)
    BY <2>3 DEF Searches
  <2> QED
    BY <2>4
<1> HIDE DEF T
<1>3. Nat \subseteq T
  BY <1>1, <1>2, B!SetInduction
<1> QED
  BY <1>3 DEF T

\* An ordering that is found has as many players as there are, each of them one of theirs.
Ordering(pids, score) == {order \in Seq(DOMAIN score) : Len(order) = Cardinality(pids)}

LEMMA FoundAreOrderings ==
  ASSUME NEW f, NEW sizes, NEW score, NEW M \in Nat, DOMAIN score = 1..M,
         NEW N \in Nat, Len(sizes) = N, NEW start \in 1..N + 1, NEW pids \in SUBSET DOMAIN score,
         \A y \in SUBSET DOMAIN score, j \in start + 1..N + 1 : f[<<y, j>>] \subseteq Ordering(y, score)
  PROVE  BestOf(sizes, score, f, pids, start) \subseteq Ordering(pids, score)
<1>1. ASSUME NEW S \in SUBSET DOMAIN score
      PROVE  IsFiniteSet(S) /\ Sorted(S) \in Seq(DOMAIN score) /\ Len(Sorted(S)) = Cardinality(S)
             /\ Cardinality(S) \in Nat
  <2>1. IsFiniteSet(1..M)
    BY FS_Interval
  <2>2. IsFiniteSet(S) /\ S \in SUBSET Nat
    BY <2>1, FS_Subset
  <2> QED
    BY <2>2, SortedSet
<1>2. ASSUME NEW team \in start..N, NEW chosen \in Picks(sizes, pids, team)
      PROVE  Completed(f, sizes, pids, team, chosen) \subseteq Ordering(pids, score)
  <2> SUFFICES ASSUME NEW rest \in f[<<pids \ chosen, team + 1>>]
               PROVE  Sorted(chosen) \o rest \in Ordering(pids, score)
    BY DEF Completed
  <2>1. chosen \in SUBSET pids
    BY DEF Picks, kSubset
  <2>2. pids \ chosen \in SUBSET DOMAIN score /\ team + 1 \in start + 1..N + 1
        /\ chosen \in SUBSET DOMAIN score
    BY <2>1
  <2>3. rest \in Seq(DOMAIN score) /\ Len(rest) = Cardinality(pids \ chosen)
    BY <2>2 DEF Ordering
  <2>4. Cardinality(pids \ chosen) = Cardinality(pids) - Cardinality(chosen)
    <3>1. pids \cap chosen = chosen
      BY <2>1
    <3>2. IsFiniteSet(pids)
      BY <1>1
    <3>3. Cardinality(pids \ chosen) = Cardinality(pids) - Cardinality(pids \cap chosen)
      BY <3>2, FS_Difference
    <3> QED
      BY <3>1, <3>3
  <2>5. Sorted(chosen) \in Seq(DOMAIN score) /\ Len(Sorted(chosen)) = Cardinality(chosen)
        /\ Cardinality(chosen) \in Nat /\ Cardinality(pids) \in Nat
    BY <1>1, <2>2
  <2> DEFINE a == Sorted(chosen)
             D == DOMAIN score
  <2> HIDE DEF a, D
  <2>6. a \in Seq(D) /\ rest \in Seq(D) => a \o rest \in Seq(D) /\ Len(a \o rest) = Len(a) + Len(rest)
    OBVIOUS
  <2> QED
    BY <2>3, <2>4, <2>5, <2>6 DEF Ordering, a, D
<1>3. Found(f, sizes, pids, start) \subseteq Ordering(pids, score)
  BY <1>2 DEF Found
<1>4. Sorted(pids) \in Ordering(pids, score)
  BY <1>1 DEF Ordering
<1> QED
  BY <1>3, <1>4, BestOfIsFound

LEMMA SearchFindsOrderings ==
  ASSUME NEW f, NEW sizes, NEW score, NEW M \in Nat, DOMAIN score = 1..M,
         NEW N \in Nat, Len(sizes) = N, Searches(f, N + 1, sizes, score)
  PROVE  f[<<DOMAIN score, 1>>] \subseteq Ordering(DOMAIN score, score)
<1> DEFINE T == {k \in Nat : \A x \in Calls(k, sizes, score) :
                   x \in Calls(N + 1, sizes, score) => f[x] \subseteq Ordering(x[1], score)}
<1>1. 0 \in T
  BY DEF Calls
<1>2. ASSUME NEW k \in Nat, k \in T PROVE k + 1 \in T
  <2> SUFFICES ASSUME NEW x \in Calls(k + 1, sizes, score), x \in Calls(N + 1, sizes, score)
               PROVE  f[x] \subseteq Ordering(x[1], score)
    OBVIOUS
  <2> DEFINE pids  == x[1]
             start == x[2]
  <2>1. pids \in SUBSET DOMAIN score /\ start \in 1..N + 1 /\ start > N + 1 - (k + 1)
    BY DEF Calls
  <2>2. ASSUME NEW y \in SUBSET DOMAIN score, NEW j \in start + 1..N + 1
        PROVE  f[<<y, j>>] \subseteq Ordering(y, score)
    <3>1. <<y, j>> \in Calls(k, sizes, score) /\ <<y, j>> \in Calls(N + 1, sizes, score)
      BY <2>1 DEF Calls
    <3>2. <<y, j>>[1] = y
      OBVIOUS
    <3> QED
      BY <1>2, <3>1, <3>2
  <2>3. f[x] = BestOf(sizes, score, f, pids, start)
    BY DEF Searches
  <2> HIDE DEF pids, start
  <2>4. BestOf(sizes, score, f, pids, start) \subseteq Ordering(pids, score)
    BY <2>1, <2>2, FoundAreOrderings
  <2> QED
    BY <2>3, <2>4 DEF pids
<1> HIDE DEF T
<1>3. Nat \subseteq T
  BY <1>1, <1>2, B!SetInduction
<1>4. <<DOMAIN score, 1>> \in Calls(N + 1, sizes, score)
  BY DEF Calls
<1>5. N + 1 \in T /\ <<DOMAIN score, 1>>[1] = DOMAIN score
  BY <1>3
<1> QED
  BY <1>4, <1>5 DEF T

\* Each of the best orderings orders all players.
LEMMA BestAreOrderings ==
  ASSUME NEW sizes, NEW score, NEW M \in Nat, DOMAIN score = 1..M, NEW N \in Nat, Len(sizes) = N
  PROVE  BestOrderings(sizes, score) \subseteq Ordering(DOMAIN score, score)
<1> DEFINE search == CHOOSE f : Searches(f, N + 1, sizes, score)
<1>1. Searches(search, N + 1, sizes, score)
  <2>1. \E f : Searches(f, N + 1, sizes, score)
    BY SearchExists
  <2> QED
    BY <2>1
<1>2. Calls(N + 1, sizes, score) = (SUBSET DOMAIN score) \X (1..Len(sizes) + 1)
  BY DEF Calls
<1>3. BestOrderings(sizes, score) = search[<<DOMAIN score, 1>>]
  BY <1>2, Zenon DEF BestOrderings, Searches
<1> HIDE DEF search
<1> QED
  BY <1>1, <1>3, SearchFindsOrderings

-----------------------------------------------------------------------------
(* Slots: balancing                                                        *)

LEMMA SlotsInPlace == ASSUME SlotInv PROVE slots = Arranged(InPlace, InPlace, InPlace)
<1> DEFINE b == Arranged(InPlace, InPlace, InPlace)
<1>1. \A s \in Slots : b[s] = slots[s]
  BY SlotIsRecord DEF Arranged, InPlace
<1>2. b = [s \in Slots |-> b[s]]
  BY DEF Arranged
<1>3. slots = [s \in Slots |-> slots[s]]
  BY MapFacts DEF SlotInv
<1> HIDE DEF b
<1> QED
  BY <1>1, <1>2, <1>3 DEF b

LEMMA ExchangedAgain ==
  ASSUME SlotInv, NEW f \in Perms, NEW s \in Slots, NEW t \in Slots
  PROVE  \E h \in Perms : Exchanged(Arranged(f, InPlace, InPlace), s, t) = Arranged(h, InPlace, InPlace)
<1> DEFINE w == Swap(s, t)
           h == [x \in Slots |-> f[w[x]]]
           table == Arranged(f, InPlace, InPlace)
           a == Exchanged(table, s, t)
           b == Arranged(h, InPlace, InPlace)
<1>1. h \in Perms
  <2>1. /\ w \in [Slots -> Slots] /\ \A x, y \in Slots : w[x] = w[y] => x = y
        /\ \A y \in Slots : \E x \in Slots : w[x] = y
    BY SwapIsPerm DEF Perms
  <2>2. /\ f \in [Slots -> Slots] /\ \A x, y \in Slots : f[x] = f[y] => x = y
        /\ \A y \in Slots : \E x \in Slots : f[x] = y
    BY DEF Perms
  <2> HIDE DEF w
  <2>3. h \in [Slots -> Slots] /\ \A x \in Slots : h[x] = f[w[x]]
    BY <2>1, <2>2
  <2> HIDE DEF h
  <2>4. ASSUME NEW x \in Slots, NEW y \in Slots, h[x] = h[y] PROVE x = y
    BY <2>1, <2>2, <2>3, <2>4
  <2>5. ASSUME NEW y \in Slots PROVE \E x \in Slots : h[x] = y
    <3>1. PICK z \in Slots : f[z] = y
      BY <2>2
    <3>2. PICK x \in Slots : w[x] = z
      BY <2>1
    <3> QED
      BY <3>1, <3>2, <2>3
  <2> QED
    BY <2>3, <2>4, <2>5 DEF Perms
<1>2. /\ DOMAIN table = Slots
      /\ \A x \in Slots : table[x] =
           [status |-> slots[f[x]].status, pid |-> slots[f[x]].pid, team |-> slots[x].team,
            colour |-> slots[x].colour, race |-> slots[x].race]
      /\ table = [x \in Slots |-> table[x]]
  BY DEF Arranged, InPlace
<1>3. \A x \in Slots : b[x] =
        [status |-> slots[f[w[x]]].status, pid |-> slots[f[w[x]]].pid, team |-> slots[x].team,
         colour |-> slots[x].colour, race |-> slots[x].race]
  BY DEF Arranged, InPlace
<1>4. b = [x \in Slots |-> b[x]]
  BY DEF Arranged
<1>5. \A x \in Slots : w[x] = IF x = s THEN t ELSE IF x = t THEN s ELSE x
  BY DEF Swap
<1> HIDE DEF h, b, table, w
<1>6. a = [x \in Slots |-> IF x = t THEN With(Occupant(table[s]), Layout(table[t]))
                           ELSE IF x = s THEN With(Occupant(table[t]), Layout(table[s]))
                           ELSE table[x]]
  BY <1>2 DEF Exchanged
<1>7. ASSUME NEW x \in Slots PROVE a[x] = b[x]
  <2>1. \A y, z \in Slots : With(Occupant(table[y]), Layout(table[z])) =
          [status |-> slots[f[y]].status, pid |-> slots[f[y]].pid, team |-> slots[z].team,
           colour |-> slots[z].colour, race |-> slots[z].race]
    BY <1>2 DEF With, Occupant, Layout
  <2>2. CASE x = t
    <3>1. w[x] = s
      BY <1>5, <2>2
    <3>2. a[x] = With(Occupant(table[s]), Layout(table[x]))
      BY <1>6, <2>2
    <3> QED
      BY <2>1, <3>1, <3>2, <1>3
  <2>3. CASE x = s /\ x # t
    <3>1. w[x] = t
      BY <1>5, <2>3
    <3>2. a[x] = With(Occupant(table[t]), Layout(table[x]))
      BY <1>6, <2>3
    <3> QED
      BY <2>1, <3>1, <3>2, <1>3
  <2>4. CASE x # s /\ x # t
    <3>1. w[x] = x /\ a[x] = table[x]
      BY <1>5, <1>6, <2>4
    <3> QED
      BY ONLY <3>1, <1>2, <1>3, x \in Slots
  <2> QED
    BY <2>2, <2>3, <2>4
<1>8. a = b
  BY <1>4, <1>6, <1>7
<1> QED
  BY <1>1, <1>8 DEF a, b, table

\* The PIDs of those who are balanced: one for each.
LEMMA OrdersAreOfAll ==
  ASSUME SlotInv
  PROVE  /\ Cardinality(Movable) \in Nat
         /\ \A pids \in Orders : pids \in [1..Cardinality(Movable) -> {slots[s].pid : s \in Movable}]
<1> DEFINE P == {slots[s].pid : s \in Movable}
           f == [s \in Movable |-> slots[s].pid]
<1>1. IsFiniteSet(Movable) /\ Cardinality(Movable) \in Nat
  <2>1. IsFiniteSet(Movable)
    BY MapFacts, FS_Subset DEF Movable
  <2> QED
    BY <2>1, FS_CardinalityType
<1>2. f \in Surjection(Movable, P)
  BY DEF Surjection
<1>3. f \in Injection(Movable, P)
  <2>1. \A s, t \in Movable : slots[s].pid = slots[t].pid => s = t
    BY DEF SlotInv, Seated, Movable
  <2> QED
    BY <2>1 DEF Injection, IsInjective
<1>4. Cardinality(P) = Cardinality(Movable)
  BY <1>1, <1>2, <1>3, FS_Surjection
<1>5. \A pids \in Orders : pids \in [1..Cardinality(P) -> P]
  BY DEF Orders, SetToSeqs
<1> QED
  BY <1>1, <1>4, <1>5

\* Putting a player right exchanges it with who is in its place.
LEMMA PutRightArranges ==
  ASSUME SlotInv, NEW f \in Perms, NEW target \in Slots, NEW p \in {slots[s].pid : s \in Movable}
  PROVE  LET table == Arranged(f, InPlace, InPlace)
             after == PutRight(table, target, p)
         IN  /\ \E h \in Perms : after = Arranged(h, InPlace, InPlace)
             /\ after[target].pid = p
             /\ \A x \in Slots : x # target /\ table[x].pid # p => after[x].pid = table[x].pid
<1> DEFINE table == Arranged(f, InPlace, InPlace)
           s0    == CHOOSE s \in DOMAIN table : table[s].pid = p
           after == PutRight(table, target, p)
<1>1. DOMAIN table = Slots /\ table = [x \in Slots |-> table[x]]
  BY DEF Arranged
<1>2. \E s \in DOMAIN table : table[s].pid = p
  <2>1. PICK m \in Slots : slots[m].pid = p
    BY DEF Movable
  <2>2. PICK s \in Slots : f[s] = m
    BY DEF Perms
  <2> QED
    BY <2>1, <2>2 DEF Arranged
<1>3. s0 \in Slots /\ table[s0].pid = p
  <2> HIDE DEF table
  <2> QED
    BY <1>1, <1>2
<1>4. after = Exchanged(table, target, s0)
  BY DEF PutRight
<1>5. \E h \in Perms : after = Arranged(h, InPlace, InPlace)
  <2> HIDE DEF s0, after
  <2> QED
    BY <1>3, <1>4, ExchangedAgain
<1> HIDE DEF table, s0, after
<1>6. after = [x \in Slots |-> IF x = s0 THEN With(Occupant(table[target]), Layout(table[s0]))
                               ELSE IF x = target THEN With(Occupant(table[s0]), Layout(table[target]))
                               ELSE table[x]]
  BY <1>1, <1>3, <1>4 DEF Exchanged
<1>7. after[target].pid = p
  BY <1>3, <1>6 DEF With, Occupant
<1>8. \A x \in Slots : x # target /\ table[x].pid # p => after[x].pid = table[x].pid
  BY <1>3, <1>6
<1> QED
  BY <1>5, <1>7, <1>8 DEF after, table

\* Whatever the ordering, balancing moves who occupies the slots, and nothing else.
LEMMA BalancedArranges ==
  ASSUME SlotInv, map.fixed, NEW order \in Seq({slots[s].pid : s \in Movable}),
         Len(order) = Cardinality(Movable)
  PROVE  \E f \in Perms : Balanced(order) = Arranged(f, InPlace, InPlace)
<1> DEFINE P == {slots[s].pid : s \in Movable}
           R == {Arranged(f, InPlace, InPlace) : f \in Perms}
           S == Slots \X P
           q == [n \in 1..Len(order) |-> <<Targets[n], order[n]>>]
<1>1. slots \in R
  BY SlotsInPlace, InPlaceIsPerm
<1>2. q \in Seq(S)
  <2>1. Targets \in Seq(Slots) /\ Len(Targets) = Len(order) /\ Len(order) \in Nat
    BY TargetsSuffice
  <2>2. \A n \in 1..Len(order) : Targets[n] \in Slots /\ order[n] \in P
    BY <2>1, ElementOfSeq
  <2>3. q \in [1..Len(order) -> S]
    BY <2>2
  <2> HIDE DEF q, S
  <2> QED
    BY <2>1, <2>3, SeqDef
<1>3. ASSUME NEW table \in R, NEW x \in S PROVE Right(0, table, x) \in R
  <2>1. PICK f \in Perms : table = Arranged(f, InPlace, InPlace)
    OBVIOUS
  <2>2. x[1] \in Slots /\ x[2] \in P
    OBVIOUS
  <2> QED
    BY <2>1, <2>2, PutRightArranges DEF Right
<1>4. Balanced(order) = B!Fold(0, slots, q)
  BY Zenon DEF Balanced, B!Fold, Right, FoldLeft, MapThenFoldSet, Max,
               B!FoldLeft, B!MapThenFoldSet, B!Max
<1> HIDE DEF R, S, q
<1>5. B!Fold(0, slots, q) \in R
  BY <1>1, <1>2, <1>3, B!FoldInvariant
<1> QED
  BY <1>4, <1>5 DEF R

\* When nobody is in the ordering twice, everybody is in its place at the end.
LEMMA BalancedPutsRight ==
  ASSUME SlotInv, map.fixed, NEW order \in Seq({slots[s].pid : s \in Movable}),
         Len(order) = Cardinality(Movable), IsInjective(order)
  PROVE  \A n \in 1..Len(order) : Balanced(order)[Targets[n]].pid = order[n]
<1> DEFINE P       == {slots[s].pid : s \in Movable}
           S       == Slots \X P
           L       == Len(order)
           Part(k) == [n \in 1..k |-> <<Targets[n], order[n]>>]
           After(k) == B!Fold(0, slots, Part(k))
           Good(k) == /\ \E f \in Perms : After(k) = Arranged(f, InPlace, InPlace)
                      /\ \A i \in 1..k : After(k)[Targets[i]].pid = order[i]
           T       == {k \in Nat : k <= L => Good(k)}
<1>0. /\ L \in Nat /\ \A n \in 1..L : Targets[n] \in Slots /\ order[n] \in P
      /\ \A m, n \in 1..L : m # n => Targets[m] # Targets[n] /\ order[m] # order[n]
  <2>1. Targets \in Seq(Slots) /\ Len(Targets) = Len(order) /\ Len(order) \in Nat /\ IsInjective(Targets)
    BY TargetsSuffice
  <2>2. DOMAIN Targets = 1..L /\ DOMAIN order = 1..L
    BY <2>1, LenProperties
  <2>3. \A n \in 1..L : Targets[n] \in Slots /\ order[n] \in P
    BY <2>1, ElementOfSeq
  <2> QED
    BY <2>1, <2>2, <2>3 DEF IsInjective
<1>p. ASSUME NEW k \in 0..L PROVE Part(k) \in Seq(S) /\ Len(Part(k)) = k
  <2>1. Part(k) \in [1..k -> S]
    BY <1>0
  <2> HIDE DEF Part, S
  <2>2. Part(k) \in Seq(S)
    BY <2>1, <1>0, SeqDef
  <2> QED
    BY <2>1, <2>2, <1>0, LenProperties
<1> HIDE DEF P, S, L
<1>1. 0 \in T
  <2>1. slots = Arranged(InPlace, InPlace, InPlace)
    BY SlotsInPlace
  <2>2. Part(0) = <<>>
    <3>1. Part(0) \in Seq(S) /\ Len(Part(0)) = 0
      BY <1>0, <1>p
    <3> HIDE DEF Part
    <3> QED
      BY <3>1, EmptySeq
  <2> HIDE DEF Part
  <2>3. After(0) = slots
    BY <2>2, B!FoldEmpty
  <2> HIDE DEF After
  <2>4. Good(0)
    BY <2>1, <2>3, InPlaceIsPerm
  <2> HIDE DEF Good
  <2> QED
    BY <2>4
<1>2. ASSUME NEW k \in Nat, k \in T PROVE k + 1 \in T
  <2> HIDE DEF Good
  <2> SUFFICES ASSUME k + 1 <= L PROVE Good(k + 1)
    OBVIOUS
  <2> DEFINE target == Targets[k + 1]
             p      == order[k + 1]
             table  == After(k)
             after  == After(k + 1)
  <2>0. Good(k) /\ k + 1 \in 1..L /\ k \in 0..L /\ k + 1 \in 0..L
    BY <1>0, <1>2
  <2> USE DEF Good
  <2>1. target \in Slots /\ p \in P
    BY <1>0, <2>0
  <2>2. PICK f \in Perms : table = Arranged(f, InPlace, InPlace)
    BY <2>0
  <2>3. \A i \in 1..k : table[Targets[i]].pid = order[i]
    BY <2>0
  <2>4. Part(k + 1) = Append(Part(k), <<target, p>>)
    <3> DEFINE a == Part(k)
               b == Part(k + 1)
               x == <<target, p>>
    <3>1. /\ \A i \in 1..k : a[i] = <<Targets[i], order[i]>>
          /\ \A i \in 1..k + 1 : b[i] = <<Targets[i], order[i]>>
      OBVIOUS
    <3>2. x \in S
      BY <2>1 DEF S
    <3>3. a \in Seq(S) /\ b \in Seq(S) /\ Len(a) = k /\ Len(b) = k + 1
      BY <1>p, <2>0
    <3>4. b[k + 1] = x /\ \A i \in 1..k : a[i] = b[i]
      BY <3>1
    <3> HIDE DEF a, b, x, Part
    <3>5. /\ Append(a, x) \in Seq(S) /\ Len(Append(a, x)) = k + 1
          /\ \A i \in 1..k + 1 : Append(a, x)[i] = b[i]
      BY <3>2, <3>3, <3>4
    <3>6. Append(a, x) = b
      BY <3>3, <3>5, SeqEqual
    <3> QED
      BY <3>6 DEF a, b, x
  <2>5. after = PutRight(table, target, p)
    <3> DEFINE x == <<target, p>>
    <3>1. x \in S /\ x[1] = target /\ x[2] = p /\ Part(k) \in Seq(S)
      BY <2>0, <2>1, <1>p DEF S
    <3> HIDE DEF x, Part
    <3>2. B!Fold(0, slots, Append(Part(k), x)) = Right(0, B!Fold(0, slots, Part(k)), x)
      BY <3>1, B!FoldAppend
    <3>3. B!Fold(0, slots, Append(Part(k), x)) = PutRight(table, target, p)
      BY <3>1, <3>2 DEF Right
    <3> QED
      BY <2>4, <3>3 DEF x
  <2> HIDE DEF table, after, target, p, After
  <2>6. /\ \E h \in Perms : after = Arranged(h, InPlace, InPlace)
        /\ after[target].pid = p
        /\ \A x \in Slots : x # target /\ table[x].pid # p => after[x].pid = table[x].pid
    BY <2>1, <2>2, <2>5, PutRightArranges DEF P
  <2>7. \A i \in 1..k + 1 : after[Targets[i]].pid = order[i]
    <3> TAKE i \in 1..k + 1
    <3>1. CASE i = k + 1
      BY <2>6, <3>1 DEF target, p
    <3>2. CASE i # k + 1
      <4>1. i \in 1..k /\ i \in 1..L
        BY <3>2, <2>0, <1>0
      <4>2. Targets[i] # target /\ order[i] # p /\ Targets[i] \in Slots
        BY <1>0, <2>0, <3>2, <4>1 DEF target, p
      <4> QED
        BY <2>3, <2>6, <4>1, <4>2
    <3> QED
      BY <3>1, <3>2
  <2> QED
    BY <2>6, <2>7 DEF after
<1>3. L \in T
  <2> HIDE DEF T
  <2>1. Nat \subseteq T
    BY <1>1, <1>2, B!SetInduction
  <2> QED
    BY <1>0, <2>1
<1>4. Balanced(order) = After(L)
  BY Zenon DEF Balanced, B!Fold, Right, L, FoldLeft, MapThenFoldSet, Max,
               B!FoldLeft, B!MapThenFoldSet, B!Max
<1>5. Good(L)
  <2> HIDE DEF Good
  <2> QED
    BY <1>0, <1>3
<1> HIDE DEF After
<1> QED
  BY <1>4, <1>5 DEF L

\* No slot is lost: as many have a status before as after.
LEMMA ArrangedKeepsCounts ==
  ASSUME SlotInv, NEW f \in Perms, NEW kind
  PROVE  Cardinality({s \in Slots : Arranged(f, InPlace, InPlace)[s].status = kind})
           = Cardinality({s \in Slots : slots[s].status = kind})
<1> DEFINE A == {s \in Slots : slots[f[s]].status = kind}
           Z == {s \in Slots : slots[s].status = kind}
           g == [s \in A |-> f[s]]
<1>1. {s \in Slots : Arranged(f, InPlace, InPlace)[s].status = kind} = A
  BY DEF Arranged
<1>2. IsFiniteSet(A)
  BY MapFacts, FS_Subset
<1>3. /\ \A s \in Slots : f[s] \in Slots
      /\ \A s, t \in Slots : f[s] = f[t] => s = t
      /\ \A t \in Slots : \E s \in Slots : f[s] = t
  BY DEF Perms
<1>4. g \in Surjection(A, Z)
  <2>1. \A t \in Z : \E s \in A : g[s] = t
    BY <1>3
  <2> QED
    BY <1>3, <2>1 DEF Surjection
<1>5. g \in Injection(A, Z)
  BY <1>3 DEF Injection, IsInjective
<1> HIDE DEF A, Z, g
<1>6. Cardinality(Z) = Cardinality(A)
  BY <1>2, <1>4, <1>5, FS_Surjection
<1> QED
  BY <1>1, <1>6 DEF Z

LEMMA BalanceFair == ASSUME SlotInv PROVE BalanceIsFair
<1> SUFFICES ASSUME map.fixed, NEW order \in Orders
             PROVE  /\ \A n \in 1..Len(order) :
                         \E s \in Slots : /\ Balanced(order)[s].pid = order[n]
                                          /\ slots[s].team = slots[Targets[n]].team
                    /\ \A kind \in {"open", "closed", "computer", "player"} :
                         Cardinality({s \in Slots : Balanced(order)[s].status = kind})
                           = Cardinality({s \in Slots : slots[s].status = kind})
  BY DEF BalanceIsFair
<1> DEFINE P == {slots[s].pid : s \in Movable}
           M == Cardinality(Movable)
<1>1. order \in [1..M -> P] /\ M \in Nat
  BY OrdersAreOfAll
<1>2. IsInjective(order)
  BY <1>1 DEF Orders, SetToSeqs, IsInjective
<1>3. order \in Seq(P) /\ Len(order) = M
  <2> HIDE DEF P, M
  <2>1. order \in Seq(P)
    BY <1>1, SeqDef
  <2> QED
    BY <1>1, <2>1, LenProperties
<1>4. \A n \in 1..Len(order) : Balanced(order)[Targets[n]].pid = order[n]
  BY <1>2, <1>3, BalancedPutsRight
<1>5. \A n \in 1..Len(order) : Targets[n] \in Slots
  <2>1. Targets \in Seq(Slots) /\ Len(Targets) = Len(order)
    BY <1>3, TargetsSuffice
  <2> QED
    BY <2>1, ElementOfSeq
<1>6. PICK f \in Perms : Balanced(order) = Arranged(f, InPlace, InPlace)
  BY <1>3, BalancedArranges
<1>7. ASSUME NEW n \in 1..Len(order)
      PROVE  \E s \in Slots : /\ Balanced(order)[s].pid = order[n]
                              /\ slots[s].team = slots[Targets[n]].team
  BY <1>4, <1>5
<1>8. ASSUME NEW kind
      PROVE  Cardinality({s \in Slots : Balanced(order)[s].status = kind})
               = Cardinality({s \in Slots : slots[s].status = kind})
  <2> DEFINE z == Arranged(f, InPlace, InPlace)
  <2>1. Cardinality({s \in Slots : z[s].status = kind})
          = Cardinality({s \in Slots : slots[s].status = kind})
    BY ArrangedKeepsCounts
  <2>2. Balanced(order) = z
    BY <1>6
  <2> HIDE DEF z
  <2> QED
    BY <2>1, <2>2
<1> QED
  BY <1>7, <1>8

LEMMA BalanceStep == ASSUME SlotInv, BalanceSlots PROVE SlotInv' /\ Kept /\ Uncrowded
<1> DEFINE P == {slots[s].pid : s \in Movable}
           M == Cardinality(Movable)
<1>0. PICK pids \in Orders, score \in Scores : \E order \in BestOrderings(Sizes, score) :
        slots' = Balanced([n \in DOMAIN order |-> pids[order[n]]])
  BY DEF BalanceSlots
<1>1. PICK order \in BestOrderings(Sizes, score) :
        slots' = Balanced([n \in DOMAIN order |-> pids[order[n]]])
  BY <1>0
<1>2. M \in Nat /\ pids \in [1..M -> P] /\ DOMAIN score = 1..M
  BY OrdersAreOfAll DEF Scores
<1>3. Len(Sizes) \in Nat
  <2> DEFINE U == {team \in 0..Observer - 1 : TeamSizes(team) > 0}
             n == Cardinality(U)
             z == [i \in DOMAIN Sorted(U) |-> TeamSizes(Sorted(U)[i])]
  <2>1. IsFiniteSet(0..11)
    <3>1. 0 \in Int /\ 11 \in Int
      OBVIOUS
    <3> QED
      BY <3>1, FS_Interval
  <2>2. IsFiniteSet(U) /\ n \in Nat
    BY <2>1, FS_Subset, FS_CardinalityType DEF Observer
  <2>3. DOMAIN Sorted(U) = 1..n
    BY DEF Sorted
  <2>4. Sizes = z
    BY DEF Sizes
  <2>5. DOMAIN z = 1..n /\ z \in Seq({z[i] : i \in 1..n})
    <3>1. z \in [1..n -> {z[i] : i \in 1..n}]
      BY <2>3
    <3> HIDE DEF z, n
    <3> QED
      BY <2>2, <3>1, SeqDef
  <2> HIDE DEF z, n
  <2> QED
    BY <2>2, <2>4, <2>5, LenProperties
<1>4. order \in Seq(1..M) /\ Len(order) = M
  <2>1. order \in Ordering(DOMAIN score, score)
    BY <1>2, <1>3, BestAreOrderings
  <2>2. Cardinality(1..M) = M
    <3>1. M = 0 => 1..M = {}
      OBVIOUS
    <3> QED
      BY <1>2, <3>1, FS_Interval, FS_EmptySet
  <2> QED
    BY <1>2, <2>1, <2>2 DEF Ordering
<1> DEFINE o == [n \in DOMAIN order |-> pids[order[n]]]
<1>5. o \in Seq(P) /\ Len(o) = M
  <2>1. DOMAIN order = 1..M /\ \A n \in 1..M : order[n] \in 1..M
    BY <1>4, LenProperties, ElementOfSeq
  <2>2. o \in [1..M -> P]
    BY <1>2, <2>1
  <2> HIDE DEF o, P, M
  <2>3. o \in Seq(P)
    BY <1>2, <2>2, SeqDef
  <2> QED
    BY <1>2, <2>2, <2>3, LenProperties
<1>6. map.fixed /\ UNCHANGED <<map, players>> /\ slots' = Balanced(o)
  BY <1>1 DEF BalanceSlots
<1> HIDE DEF o
<1>7. PICK f \in Perms : slots' = Arranged(f, InPlace, InPlace)
  BY <1>5, <1>6, BalancedArranges
<1> QED
  BY <1>6, <1>7, InPlaceIsPerm, MapFacts, ArrangedStep

-----------------------------------------------------------------------------
(* Slots: the theorems                                                     *)

LEMMA SlotStep == ASSUME SlotInv, Next PROVE SlotInv' /\ Kept /\ Uncrowded
<1>1. ASSUME NEW p \in Players, Join(p) PROVE SlotInv' /\ Kept /\ Uncrowded
  BY <1>1, JoinStep
<1>2. ASSUME NEW p \in Players, Leave(p) PROVE SlotInv' /\ Kept /\ Uncrowded
  BY <1>2, LeaveStep
<1>3. ASSUME NEW p \in Players, ChangeRace(p) PROVE SlotInv' /\ Kept /\ Uncrowded
  BY <1>3, ChangeRaceStep
<1>4. ASSUME NEW p \in Players, NEW team \in 0..MaxSlots - 1 \cup {Observer, 255}, ChangeTeam(p, team)
      PROVE  SlotInv' /\ Kept /\ Uncrowded
  <2>1. team \in Nat
    BY SlotTableAssumption DEF SlotTableAssumption, Observer
  <2> QED
    BY <1>4, <2>1, ChangeTeamStep
<1>5. ASSUME NEW p \in Players, NEW c \in Colours, ChangeColour(p, c)
      PROVE  SlotInv' /\ Kept /\ Uncrowded
  BY <1>5, ChangeColourStep
<1>6. ASSUME NEW s \in 1..MaxSlots, NEW kind \in {"open", "closed", "computer"}, SetSlot(s, kind)
      PROVE  SlotInv' /\ Kept /\ Uncrowded
  <2>1. s \in Slots
    BY <1>6 DEF SetSlot
  <2> QED
    BY <1>6, <2>1, SetSlotStep
<1>7. ASSUME NEW s \in 1..MaxSlots, NEW t \in 1..MaxSlots, SwapSlots(s, t)
      PROVE  SlotInv' /\ Kept /\ Uncrowded
  BY <1>7, SwappedStep DEF SwapSlots
<1>8. ASSUME NEW s \in 1..MaxSlots, ChangeComputer(s) PROVE SlotInv' /\ Kept /\ Uncrowded
  BY <1>8, ChangeComputerStep
<1>9. CASE SetAllSlots("closed", "open")
  BY <1>9, SetAllSlotsStep
<1>10. CASE SetAllSlots("open", "closed")
  BY <1>10, SetAllSlotsStep
<1>11. CASE ShuffleSlots
  BY <1>11, ShuffleStep
<1>12. CASE BalanceSlots
  BY <1>12, BalanceStep
<1> QED
  BY <1>1, <1>2, <1>3, <1>4, <1>5, <1>6, <1>7, <1>8, <1>9, <1>10, <1>11, <1>12 DEF Next

LEMMA SlotStutter == ASSUME SlotInv, UNCHANGED vars PROVE SlotInv'
<1>1. map' = map /\ players' = players /\ slots' = slots
  BY DEF vars
<1> QED
  BY <1>1 DEF SlotInv, Seated, ColoursDiffer, ObserversKnown, Prescribed, Slots, SlotType, Layout,
              MapSlot, With, Empty

LEMMA SlotInvHolds == Spec => []SlotInv
<1>1. Init => SlotInv
  BY SlotInvInit
<1>2. SlotInv /\ [Next]_vars => SlotInv'
  BY SlotStep, SlotStutter
<1> QED
  BY <1>1, <1>2, PTL DEF Spec

\* However slots are taken, left, moved, swapped, shuffled and balanced: each player is in
\* the table once, and nobody who joins next can get a colour twice.
THEOREM SlotsAlwaysSound == Spec => []SlotsAreSound
<1>1. SlotInv => SlotsAreSound
  BY SlotInvSays
<1> QED
  BY <1>1, SlotInvHolds, PTL

\* Whatever ordering the search settles on, balancing puts each player on the team it is
\* meant for, past open, closed and computer slots and observers, and loses no slot.
THEOREM BalanceAlwaysFair == Spec => []BalanceIsFair
<1>1. SlotInv => BalanceIsFair
  BY BalanceFair
<1> QED
  BY <1>1, SlotInvHolds, PTL

\* On a map without custom forces and scores nobody gets into a regular team that would
\* then have more players and computers than the map has places.
THEOREM NobodyCrowdsIn == Spec => NoCrowding
<1>1. SlotInv /\ [Next]_vars => [Uncrowded]_vars
  BY SlotStep
<1> QED
  BY <1>1, SlotInvHolds, PTL DEF Spec, NoCrowding, Uncrowded

\* The teams, the layouts and the races that the map prescribes stay, in each step of
\* every action, the balancing of the slots among them.
THEOREM MapAlwaysKept == Spec => MapIsKept
<1>1. SlotInv /\ [Next]_vars => [Kept]_vars
  BY SlotStep
<1> QED
  BY <1>1, SlotInvHolds, PTL DEF Spec, MapIsKept, Kept

-----------------------------------------------------------------------------
(* Load in game: everybody gets the same game                              *)

\* A message added to what a client has played, for the fold.
Plays(p, game, m) == game \o Expand(p, m)

G == INSTANCE FoldInduction WITH Op <- Plays

\* What a client plays is a fold of its messages.
LEMMA PlayedIsFold ==
  ASSUME NEW p, NEW msgs
  PROVE  Played(p, msgs) = G!Fold(p, <<>>, msgs)
  BY Zenon DEF Played, G!Fold, Plays, FoldLeft, MapThenFoldSet, Max,
     G!FoldLeft, G!MapThenFoldSet, G!Max

\* The messages are pairs and one that is not.
LEMMA LoadMsgs ==
  /\ EmptyUpdate \in Msgs
  /\ \A p \in Players : LeaveMsg(p) \in Msgs /\ LoadedMsg(p) \in Msgs
  /\ \A p : LeaveMsg(p) # EmptyUpdate /\ LoadedMsg(p) # EmptyUpdate
<1>1. \A p : Len(LeaveMsg(p)) = 2 /\ Len(LoadedMsg(p)) = 2
  BY DEF LeaveMsg, LoadedMsg
<1>2. Len(EmptyUpdate) = 1
  BY DEF EmptyUpdate
<1>3. \A p : LeaveMsg(p) # EmptyUpdate /\ LoadedMsg(p) # EmptyUpdate
  BY <1>1, <1>2
<1> QED
  BY <1>3 DEF Msgs

\* One message is made one or several.
LEMMA ExpandType ==
  ASSUME NEW p, NEW m \in Msgs
  PROVE  Expand(p, m) \in Seq(Msgs)
<1>1. EmptyActions + 1 \in Nat
  BY LoadAssumption DEF LoadAssumption
<1>2. [i \in 1..(EmptyActions + 1) |-> EmptyUpdate] \in Seq(Msgs)
  BY <1>1, LoadMsgs
<1>3. <<m>> \in Seq(Msgs)
  OBVIOUS
<1> QED
  BY <1>2, <1>3 DEF Expand

\* What a client plays is made of messages.
LEMMA PlayedType ==
  ASSUME NEW p, NEW base \in Seq(Msgs), NEW msgs \in Seq(Msgs)
  PROVE  G!Fold(p, base, msgs) \in Seq(Msgs)
<1> DEFINE R == Seq(Msgs)
<1>1. \A acc \in R, x \in Msgs : Plays(p, acc, x) \in R
  BY ExpandType DEF Plays
<1>2. base \in R
  OBVIOUS
<1> HIDE DEF R
<1>3. G!Fold(p, base, msgs) \in R
  BY <1>1, <1>2, G!FoldInvariant
<1> QED
  BY <1>3 DEF R

\* More messages are played after those before them.
LEMMA PlayedConcat ==
  ASSUME NEW p, NEW a \in Seq(Msgs), NEW b \in Seq(Msgs)
  PROVE  Played(p, a \o b) = G!Fold(p, Played(p, a), b)
<1> DEFINE e == <<>>
<1>1. \A msgs : Played(p, msgs) = G!Fold(p, e, msgs)
  BY PlayedIsFold
<1> HIDE DEF e
<1>2. G!Fold(p, e, a \o b) = G!Fold(p, G!Fold(p, e, a), b)
  BY G!FoldConcat
<1> QED
  BY <1>1, <1>2

\* One message after others.
LEMMA PlayedOne ==
  ASSUME NEW p, NEW base \in Seq(Msgs), NEW m \in Msgs
  PROVE  G!Fold(p, base, <<m>>) = base \o Expand(p, m)
<1> DEFINE e == <<>>
<1>1. e \in Seq(Msgs) /\ <<m>> = Append(e, m)
  OBVIOUS
<1>2. G!Fold(p, base, e) = base
  BY G!FoldEmpty
<1> HIDE DEF e
<1>3. G!Fold(p, base, Append(e, m)) = Plays(p, G!Fold(p, base, e), m)
  BY <1>1, G!FoldAppend
<1> QED
  BY <1>1, <1>2, <1>3 DEF Plays

\* Messages none of which is expanded are played as they are.
LEMMA PlayedAsTheyAre ==
  ASSUME NEW p, NEW M, M \subseteq Msgs, \A m \in M : Expand(p, m) = <<m>>,
         NEW base \in Seq(Msgs), NEW msgs \in Seq(M)
  PROVE  G!Fold(p, base, msgs) = base \o msgs
<1> DEFINE T == {s \in Seq(M) : G!Fold(p, base, s) = base \o s}
           e == <<>>
<1>1. e \in T
  <2>1. e \in Seq(M) /\ base \o e = base
    OBVIOUS
  <2>2. G!Fold(p, base, e) = base
    BY G!FoldEmpty
  <2> QED
    BY <2>1, <2>2
<1>2. ASSUME NEW s \in Seq(M), NEW x \in M, s \in T PROVE Append(s, x) \in T
  <2>1. G!Fold(p, base, Append(s, x)) = Plays(p, G!Fold(p, base, s), x)
    BY G!FoldAppend
  <2>2. Plays(p, G!Fold(p, base, s), x) = (base \o s) \o <<x>>
    BY <1>2 DEF Plays
  <2>3. base \o Append(s, x) = (base \o s) \o <<x>>
    <3>1. s \in Seq(Msgs) /\ x \in Msgs /\ Append(s, x) \in Seq(Msgs)
      OBVIOUS
    <3>2. base \o Append(s, x) \in Seq(Msgs) /\ (base \o s) \o <<x>> \in Seq(Msgs)
      BY <3>1
    <3>3. Len(base \o Append(s, x)) = Len((base \o s) \o <<x>>)
      BY <3>1
    <3>4. \A i \in 1..Len(base \o Append(s, x)) :
            (base \o Append(s, x))[i] = ((base \o s) \o <<x>>)[i]
      BY <3>1
    <3> QED
      BY <3>2, <3>3, <3>4, SeqEqual
  <2>4. Append(s, x) \in Seq(M)
    OBVIOUS
  <2> QED
    BY <2>1, <2>2, <2>3, <2>4
<1> HIDE DEF T
<1>3. Seq(M) \subseteq T
  BY <1>1, <1>2, G!SeqInduction DEF e
<1> QED
  BY <1>3 DEF T

\* What was sent and is buffered for a player.
Stream(p) == delivered[p] \o buffered[p]

\* Typed sequences and what each client has played of its own.
LoadInv == LoadTypeOK /\ SameGameData /\ NothingTooEarly /\ ScreensAgree

\* The loaded messages are in the same order for everybody.
LEMMA LoadInvInit ==
  ASSUME LoadInit
  PROVE  LoadInv
<1>1. PICK order \in SetToSeqs(Players) :
        buffered = [q \in Players |-> [i \in 1..Len(order) |-> LoadedMsg(order[i])]]
  BY DEF LoadInit
<1> DEFINE M    == {LoadedMsg(p) : p \in Players}
           msgs == [i \in 1..Len(order) |-> LoadedMsg(order[i])]
           e    == <<>>
<1>2. order \in Seq(Players)
  <2>1. order \in [1..Cardinality(Players) -> Players] /\ Cardinality(Players) \in Nat
    BY LoadAssumption, FS_CardinalityType DEF SetToSeqs, LoadAssumption
  <2> QED
    BY <2>1
<1>3. msgs \in Seq(M) /\ M \subseteq Msgs
  <2>1. Len(order) \in Nat /\ \A i \in 1..Len(order) : order[i] \in Players
    BY <1>2
  <2> QED
    BY <2>1 DEF Msgs
<1>4. \A p : G!Fold(p, e, msgs) = e \o msgs
  <2>1. \A p : \A m \in M : Expand(p, m) = <<m>>
    BY LoadMsgs DEF Expand
  <2>2. e \in Seq(Msgs)
    OBVIOUS
  <2> HIDE DEF e, msgs, M
  <2> QED
    BY <2>1, <2>2, <1>3, PlayedAsTheyAre
<1>5. \A p \in Players : delivered[p] = e /\ buffered[p] = msgs /\ e \o msgs = msgs
  <2>1. e \o msgs = msgs
    BY <1>3
  <2> QED
    BY <1>1, <2>1 DEF LoadInit
<1>6. SameGameData
  <2>1. \A p : Played(p, msgs) = G!Fold(p, e, msgs)
    BY PlayedIsFold
  <2> HIDE DEF e, msgs
  <2>2. \A p \in Players : Played(p, delivered[p] \o buffered[p]) = e \o msgs
    BY <1>4, <1>5, <2>1
  <2> QED
    BY <2>2 DEF SameGameData, LoadInit
<1>7. LoadTypeOK
  <2>1. msgs \in Seq(Msgs) /\ e \in Seq(Msgs)
    BY <1>3
  <2>2. buffered = [q \in Players |-> msgs] /\ delivered = [q \in Players |-> e]
    BY <1>1 DEF LoadInit
  <2>3. buffered \in [Players -> Seq(Msgs)] /\ delivered \in [Players -> Seq(Msgs)]
    <3> HIDE DEF msgs, e
    <3> QED
      BY <2>1, <2>2
  <2> QED
    BY <2>3, LoadAssumption DEF LoadTypeOK, LoadInit, LoadAssumption
<1>8. NothingTooEarly /\ ScreensAgree
  BY <1>5 DEF NothingTooEarly, ScreensAgree, LoadInit
<1> QED
  BY <1>6, <1>7, <1>8 DEF LoadInv

\* What is handed out comes after what was sent and is buffered for each player, and not
\* to a client that cannot take it.
LEMMA DistributeStreams ==
  ASSUME LoadTypeOK, NothingTooEarly, NEW msgs \in [Players -> Seq(Msgs)],
         Distribute(msgs)
  PROVE  /\ delivered' \in [Players -> Seq(Msgs)]
         /\ buffered' \in [Players -> Seq(Msgs)]
         /\ \A p \in players : Stream(p)' = Stream(p) \o msgs[p]
         /\ \A p \in players : IF p \in loaded THEN buffered'[p] = <<>> ELSE delivered'[p] = <<>>
<1>1. delivered \in [Players -> Seq(Msgs)] /\ buffered \in [Players -> Seq(Msgs)]
  BY DEF LoadTypeOK
<1>2. /\ delivered' \in [Players -> Seq(Msgs)]
      /\ buffered' \in [Players -> Seq(Msgs)]
  <2>1. \A q \in Players : delivered[q] \o msgs[q] \in Seq(Msgs)
                           /\ buffered[q] \o msgs[q] \in Seq(Msgs)
    BY <1>1
  <2> QED
    BY <1>1, <2>1 DEF Distribute
<1>3. ASSUME NEW p \in players
      PROVE  /\ Stream(p)' = Stream(p) \o msgs[p]
             /\ IF p \in loaded THEN buffered'[p] = <<>> ELSE delivered'[p] = <<>>
  <2>1. p \in Players
    BY DEF LoadTypeOK
  <2>2. delivered[p] \in Seq(Msgs) /\ buffered[p] \in Seq(Msgs) /\ msgs[p] \in Seq(Msgs)
    BY <1>1, <2>1
  <2>3. CASE p \in loaded
    <3>1. buffered[p] = <<>>
      BY <2>3 DEF NothingTooEarly
    <3>2. delivered'[p] = delivered[p] \o msgs[p] /\ buffered'[p] = buffered[p]
      BY <2>1, <2>3 DEF Distribute
    <3>3. (delivered[p] \o msgs[p]) \o <<>> = (delivered[p] \o <<>>) \o msgs[p]
      BY <2>2
    <3> QED
      BY <2>3, <3>1, <3>2, <3>3 DEF Stream
  <2>4. CASE p \notin loaded
    <3>1. delivered[p] = <<>>
      BY <2>4 DEF NothingTooEarly
    <3>2. buffered'[p] = buffered[p] \o msgs[p] /\ delivered'[p] = delivered[p]
      BY <2>1, <2>4 DEF Distribute
    <3>3. <<>> \o (buffered[p] \o msgs[p]) = (<<>> \o buffered[p]) \o msgs[p]
      BY <2>2
    <3> QED
      BY <2>4, <3>1, <3>2, <3>3 DEF Stream
  <2> QED
    BY <2>3, <2>4
<1> QED
  BY <1>2, <1>3

\* A player who loads is sent its buffer, which says nothing new.
LEMMA LoadInvStepLoaded ==
  ASSUME LoadInv, NEW p \in Players, PlayerLoaded(p)
  PROVE  LoadInv'
<1>1. p \in players /\ p \notin loaded /\ delivered[p] = <<>>
  BY DEF PlayerLoaded, Loading, LoadInv, NothingTooEarly
<1>2. buffered[p] \in Seq(Msgs) /\ delivered[p] \in Seq(Msgs)
  BY DEF LoadInv, LoadTypeOK
<1>3. LoadTypeOK'
  <2>1. delivered[p] \o buffered[p] \in Seq(Msgs)
    BY <1>2
  <2>2. delivered' \in [Players -> Seq(Msgs)] /\ buffered' \in [Players -> Seq(Msgs)]
    BY <2>1 DEF LoadInv, LoadTypeOK, PlayerLoaded
  <2>3. view' \in [Players -> SUBSET Players]
    BY DEF LoadInv, LoadTypeOK, PlayerLoaded, Loading
  <2> QED
    BY <2>2, <2>3 DEF LoadInv, LoadTypeOK, PlayerLoaded
<1>4. \A q \in players : delivered'[q] \o buffered'[q] = delivered[q] \o buffered[q]
  <2>1. (delivered[p] \o buffered[p]) \o <<>> = delivered[p] \o buffered[p]
    BY <1>2
  <2> QED
    BY <2>1 DEF LoadInv, LoadTypeOK, PlayerLoaded
<1>5. SameGameData'
  BY <1>4 DEF LoadInv, SameGameData, PlayerLoaded
<1>6. NothingTooEarly'
  BY DEF LoadInv, LoadTypeOK, NothingTooEarly, PlayerLoaded
<1>7. ScreensAgree'
  BY <1>1 DEF LoadInv, LoadTypeOK, ScreensAgree, PlayerLoaded, Loading
<1> QED
  BY <1>3, <1>5, <1>6, <1>7 DEF LoadInv

\* Messages that everybody's game makes the same of, handed out or sent, keep the games
\* the same.
LEMMA SameAfterAll ==
  ASSUME LoadInv, NEW msgs \in [Players -> Seq(Msgs)],
         NEW n \in Seq(Msgs),
         \A p \in players : Stream(p)' = Stream(p) \o msgs[p],
         \A p \in players : \A base \in Seq(Msgs) : G!Fold(p, base, msgs[p]) = base \o n,
         players' \subseteq players
  PROVE  SameGameData'
<1> SUFFICES ASSUME NEW p \in players', NEW q \in players'
             PROVE  Played(p, Stream(p)') = Played(q, Stream(q)')
  BY DEF SameGameData, Stream
<1>1. \A r \in players : Played(r, Stream(r)') = Played(r, Stream(r)) \o n
  <2> SUFFICES ASSUME NEW r \in players
               PROVE  Played(r, Stream(r)') = Played(r, Stream(r)) \o n
    OBVIOUS
  <2>1. Stream(r) \in Seq(Msgs) /\ msgs[r] \in Seq(Msgs)
    BY DEF Stream, LoadInv, LoadTypeOK
  <2>2. Played(r, Stream(r) \o msgs[r]) = G!Fold(r, Played(r, Stream(r)), msgs[r])
    BY <2>1, PlayedConcat
  <2>3. Played(r, Stream(r)) \in Seq(Msgs)
    <3> DEFINE e == <<>>
    <3>1. Played(r, Stream(r)) = G!Fold(r, e, Stream(r)) /\ e \in Seq(Msgs)
      BY PlayedIsFold
    <3> HIDE DEF e
    <3> QED
      BY <3>1, <2>1, PlayedType
  <2> QED
    BY <2>2, <2>3
<1>2. Played(p, Stream(p)) = Played(q, Stream(q))
  BY DEF LoadInv, SameGameData, Stream
<1> QED
  BY <1>1, <1>2

\* A leave is handed out, or sent once the game is loaded.
LEMMA LoadInvStepDeleted ==
  ASSUME LoadInv, NEW p \in Players, PlayerDeleted(p)
  PROVE  LoadInv'
<1> DEFINE n    == <<LeaveMsg(p)>>
           msgs == [q \in Players |-> n]
<1>1. n \in Seq(Msgs) /\ msgs \in [Players -> Seq(Msgs)]
  BY LoadMsgs
<1>2. /\ delivered' \in [Players -> Seq(Msgs)]
      /\ buffered' \in [Players -> Seq(Msgs)]
      /\ \A q \in players : Stream(q)' = Stream(q) \o msgs[q]
      /\ \A q \in players : IF q \in loaded THEN buffered'[q] = <<>> ELSE delivered'[q] = <<>>
  <2>1. CASE loading
    <3>1. Distribute(msgs)
      BY <2>1 DEF PlayerDeleted
    <3>2. LoadTypeOK /\ NothingTooEarly
      BY DEF LoadInv
    <3> HIDE DEF msgs
    <3> QED
      BY <1>1, <3>1, <3>2, DistributeStreams
  <2>2. CASE ~loading
    <3>1. /\ delivered \in [Players -> Seq(Msgs)] /\ buffered \in [Players -> Seq(Msgs)]
          /\ players \subseteq loaded /\ loaded \subseteq Players
          /\ \A q \in players : buffered[q] = <<>>
      BY <2>2 DEF LoadInv, LoadTypeOK, NothingTooEarly
    <3>2. \A q \in Players : Append(delivered[q], LeaveMsg(p)) = delivered[q] \o n
      BY <1>1, <3>1, LoadMsgs
    <3>3. /\ delivered' = [q \in Players |-> IF q \in players THEN delivered[q] \o n ELSE delivered[q]]
          /\ buffered' = buffered
      BY <2>2, <3>2 DEF PlayerDeleted
    <3>4. \A q \in Players : delivered[q] \o n \in Seq(Msgs)
      BY <1>1, <3>1
    <3>5. delivered' \in [Players -> Seq(Msgs)]
      <4> HIDE DEF n
      <4> QED
        BY <3>1, <3>3, <3>4
    <3>6. ASSUME NEW q \in players
          PROVE  Stream(q)' = Stream(q) \o msgs[q]
      <4>1. q \in Players /\ delivered'[q] = delivered[q] \o n /\ buffered'[q] = <<>> /\ buffered[q] = <<>>
        BY <3>1, <3>3
      <4>2. (delivered[q] \o n) \o <<>> = (delivered[q] \o <<>>) \o n
        BY <3>1, <4>1, <1>1
      <4> QED
        BY <4>1, <4>2 DEF Stream
    <3> QED
      BY <3>1, <3>3, <3>5, <3>6
  <2> QED
    BY <2>1, <2>2
<1>3. \A q \in players : \A base \in Seq(Msgs) : G!Fold(q, base, msgs[q]) = base \o n
  <2> SUFFICES ASSUME NEW q \in players, NEW base \in Seq(Msgs)
               PROVE  G!Fold(q, base, msgs[q]) = base \o n
    OBVIOUS
  <2>1. LeaveMsg(p) \in Msgs /\ Expand(q, LeaveMsg(p)) = n
    BY LoadMsgs DEF Expand
  <2>2. msgs[q] = n
    BY DEF LoadInv, LoadTypeOK
  <2> QED
    BY <2>1, <2>2, PlayedOne
<1>4. players' = players \ {p} /\ loaded' = loaded /\ loading' = loading /\ resets' = resets
  BY DEF PlayerDeleted
<1>5. SameGameData'
  <2> HIDE DEF n, msgs
  <2> QED
    BY <1>1, <1>2, <1>3, <1>4, SameAfterAll
<1>6. LoadTypeOK'
  <2>1. view' \in [Players -> SUBSET Players]
    BY DEF LoadInv, LoadTypeOK, PlayerDeleted
  <2> QED
    BY <1>2, <1>4, <2>1 DEF LoadInv, LoadTypeOK
<1>7. NothingTooEarly'
  BY <1>2, <1>4 DEF NothingTooEarly
<1>8. ScreensAgree'
  BY <1>4 DEF LoadInv, LoadTypeOK, ScreensAgree, PlayerDeleted, Loading
<1> QED
  BY <1>5, <1>6, <1>7, <1>8 DEF LoadInv

\* A renewal: as many empty updates for a player without GProxy++ as it makes of one.
LEMMA LoadInvStepReset ==
  ASSUME LoadInv, ResetScreen
  PROVE  LoadInv'
<1> DEFINE some == players \cap GProxyPlayers # {}
           k    == IF some THEN EmptyActions + 1 ELSE 1
           n    == [i \in 1..k |-> EmptyUpdate]
           msgs == [q \in Players |-> [i \in 1..Empties(q) |-> EmptyUpdate]]
           one  == <<EmptyUpdate>>
<1>1. k \in Nat /\ EmptyActions + 1 \in Nat
  BY LoadAssumption DEF LoadAssumption
<1>2. n \in Seq(Msgs) /\ n \in Seq({EmptyUpdate})
  <2> HIDE DEF k
  <2> QED
    BY <1>1, LoadMsgs
<1>3. [i \in 1..1 |-> EmptyUpdate] = one
  BY SeqEqual
<1>4. ASSUME NEW q \in Players
      PROVE  /\ ~some \/ q \notin GProxyPlayers => msgs[q] = n
             /\ some /\ q \in GProxyPlayers => msgs[q] = one
  BY <1>3 DEF Empties
<1>5. msgs \in [Players -> Seq(Msgs)]
  <2>1. one \in Seq(Msgs)
    BY LoadMsgs
  <2>2. \A q \in Players : msgs[q] \in Seq(Msgs)
    <3> HIDE DEF msgs, n, one, some
    <3> QED
      BY <1>2, <1>4, <2>1
  <2> QED
    BY <2>2
<1>6. /\ delivered' \in [Players -> Seq(Msgs)]
      /\ buffered' \in [Players -> Seq(Msgs)]
      /\ \A q \in players : Stream(q)' = Stream(q) \o msgs[q]
      /\ \A q \in players : IF q \in loaded THEN buffered'[q] = <<>> ELSE delivered'[q] = <<>>
  <2>1. Distribute(msgs)
    BY DEF ResetScreen
  <2>2. LoadTypeOK /\ NothingTooEarly
    BY DEF LoadInv
  <2> HIDE DEF msgs
  <2> QED
    BY <1>5, <2>1, <2>2, DistributeStreams
<1>7. ASSUME NEW q \in players, NEW base \in Seq(Msgs)
      PROVE  G!Fold(q, base, msgs[q]) = base \o n
  <2>1. q \in Players
    BY DEF LoadInv, LoadTypeOK
  <2>2. CASE q \in GProxyPlayers
    <3>1. some /\ msgs[q] = one
      BY <1>4, <2>1, <2>2
    <3>2. Expand(q, EmptyUpdate) = n
      BY <2>2, <3>1 DEF Expand
    <3>3. G!Fold(q, base, one) = base \o Expand(q, EmptyUpdate)
      BY LoadMsgs, PlayedOne
    <3> QED
      BY <3>1, <3>2, <3>3
  <2>3. CASE q \notin GProxyPlayers
    <3>1. msgs[q] = n
      BY <1>4, <2>1, <2>3
    <3>2. \A m \in {EmptyUpdate} : Expand(q, m) = <<m>>
      BY <2>3 DEF Expand
    <3>3. {EmptyUpdate} \subseteq Msgs
      BY LoadMsgs
    <3> HIDE DEF n, msgs
    <3>4. G!Fold(q, base, n) = base \o n
      BY <1>2, <3>2, <3>3, PlayedAsTheyAre
    <3> QED
      BY <3>1, <3>4
  <2> QED
    BY <2>2, <2>3
<1>8. players' = players /\ loaded' = loaded /\ loading' = loading
  BY DEF ResetScreen
<1>9. SameGameData'
  <2>1. players' \subseteq players
    BY <1>8
  <2> HIDE DEF n, msgs
  <2> QED
    BY <1>2, <1>5, <1>6, <1>7, <2>1, SameAfterAll
<1>10. LoadTypeOK'
  <2>1. view' \in [Players -> SUBSET Players]
    BY DEF LoadInv, LoadTypeOK, ResetScreen, Loading
  <2>2. resets' \in 0..MaxResets
    BY LoadAssumption DEF LoadInv, LoadTypeOK, ResetScreen, LoadAssumption
  <2> QED
    BY <1>6, <1>8, <2>1, <2>2 DEF LoadInv, LoadTypeOK
<1>11. NothingTooEarly'
  BY <1>6, <1>8 DEF NothingTooEarly
<1>12. ScreensAgree'
  BY <1>8 DEF LoadInv, LoadTypeOK, ScreensAgree, ResetScreen, Loading
<1> QED
  BY <1>9, <1>10, <1>11, <1>12 DEF LoadInv

\* Nothing else touches a message or a screen.
LEMMA LoadInvStep ==
  ASSUME LoadInv, [LoadNext]_loadVars
  PROVE  LoadInv'
<1>1. CASE GameLoaded
  BY <1>1 DEF GameLoaded, LoadInv, LoadTypeOK, SameGameData, NothingTooEarly,
     ScreensAgree, Loading
<1>2. CASE UNCHANGED loadVars
  BY <1>2 DEF loadVars, LoadInv, LoadTypeOK, SameGameData, NothingTooEarly,
     ScreensAgree, Loading
<1> QED
  BY <1>1, <1>2, LoadInvStepLoaded, LoadInvStepDeleted, LoadInvStepReset DEF LoadNext

\* "Every player receives the exact same desyncable game data in the exact same order":
\* with any players, with and without GProxy++, whenever each of them loaded loading or
\* left and however often the screen was renewed, and none of it while a client loads.
THEOREM SameGameWhenLoaded == LoadSpec => []SameGameInTime
<1>1. LoadInit => LoadInv
  BY LoadInvInit
<1>2. LoadInv /\ [LoadNext]_loadVars => LoadInv'
  BY LoadInvStep
<1>3. LoadInv => SameGameInTime
  BY DEF LoadInv, SameGameInTime
<1> QED
  BY <1>1, <1>2, <1>3, PTL DEF LoadSpec

\* A client that has loaded is shown exactly the players who have not, through arrivals,
\* departures and renewals.
THEOREM LoadScreensAgree == LoadSpec => []ScreensAgree
<1>1. LoadInit => LoadInv
  BY LoadInvInit
<1>2. LoadInv /\ [LoadNext]_loadVars => LoadInv'
  BY LoadInvStep
<1>3. LoadInv => ScreensAgree
  BY DEF LoadInv
<1> QED
  BY <1>1, <1>2, <1>3, PTL DEF LoadSpec

=============================================================================
