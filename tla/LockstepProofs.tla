--------------------------- MODULE LockstepProofs ---------------------------
(***************************************************************************)
(* Proofs about the two promises of the lockstep of a running game:        *)
(* LagScreen, for any players, limits and times, and DesyncVote, for any   *)
(* players, checksums and keepalives.                                      *)
(*                                                                         *)
(* LagInv keeps the promises that LimitsHold makes of each moment: on the  *)
(* lag screen only autosaves push anybody past the limit (OthersKeepUp),   *)
(* laggers are dropped when their time is up (WaitEnds), and the time a    *)
(* client has gone without actions is told by the age of the screen and by *)
(* what it was when the screen went up (ActionsCome).  ScreenUp ties the   *)
(* requests to the screen they were made on.                               *)
(*                                                                         *)
(* PromptInv is about one player at a time: what it has not answered are   *)
(* the autosaves since its last visit, one for each player that has gone.  *)
(*                                                                         *)
(* VoteIsSound is inductive.  The queue of a player still in the game is   *)
(* what it has sent and nobody has compared yet (QueuesAligned), so the    *)
(* fronts of the queues are the checksums of one frame.  Whatever the vote *)
(* says, those that stay have the same front (StayersAgree), which is what *)
(* SurvivorsAgree asks of the frame that has just been compared.           *)
(*                                                                         *)
(* OnlyMinoritiesDropped also needs to know what the scan of the bins      *)
(* finds: the largest of them, and on a tie another as large (ScanFinds).  *)
(* The scan is a fold, and the proof an induction over the bins seen.      *)
(***************************************************************************)
EXTENDS LagScreen, DesyncVote, SequenceTheorems, FiniteSetTheorems, TLAPS

\* Who is over the limit, and so starts a lag screen if there is none.
Over == {p \in players : behind[p] > SyncLimit}

\* The lag screen is up while anybody lags, and the requests that count on it are those
\* that were made on it.
ScreenUp == (lagging # {} => lagScreen) /\ (lagScreen => votes = voted)

\* Behind the lag screen only autosaves push anybody else past the limit.
OthersKeepUp ==
  lagScreen => \A p \in players \ lagging : behind[p] <= SyncLimit + autosaves

\* The laggers have time left, or are dropped as soon as this Update visits them.
Promised == (EmptyActions + 1) * Reset

WaitEnds ==
  lagging # {} =>
    \/ lagAge <= Promised /\ (alive => lagAge < Promised)
    \/ /\ lagging \subseteq dropped \cap todo
       /\ lagAge <= Promised + (IF alive THEN 0 ELSE 1)

\* What a lag screen may start with that somebody has gone without actions.
Before == IF autosaves = 0 THEN 1 ELSE Reset + 1

\* How long a client has gone without actions, by the age of the lag screen since it was
\* started or renewed; and without one, after the last one.
ActionsCome ==
  /\ lagScreen => /\ starved <= resetAge + Before
                  /\ Over \ lagging # {} => starved <= resetAge + 1
                  /\ alive => resetAge < Reset \/ starved = 0
  /\ ~lagScreen => /\ starved <= Reset + Before - (IF alive THEN 1 ELSE 0)
                   /\ Over # {} => starved <= Before - (IF alive THEN 1 ELSE 0)

LagInv ==
  /\ TypeOK /\ BoundedLag /\ ScreensAgree
  /\ ScreenUp /\ OthersKeepUp /\ WaitEnds /\ ActionsCome

\* A prompt player has answered all but the autosaves since its last visit, one for each
\* player that has gone; it was heard, or is about to be, or the lag screen was up, since
\* the last tick.
PromptInv ==
  /\ LagInv
  /\ PromptPlayersStay /\ Prompt \cap lagging = {}
  /\ \A p \in Prompt :
       /\ p \notin todo => behind[p] <= Cardinality(Players \ players)
       /\ silent[p] <= 1 \/ screenAge <= 1
       /\ alive => silent[p] = 0 \/ screenAge = 0 \/ behind[p] > 0

-----------------------------------------------------------------------------
(* Arithmetic of the bounds                                                *)

\* The constants and the bounds built of them are natural numbers.
LEMMA Bounds ==
  /\ Reset \in Nat /\ SyncLimit \in Nat /\ Grace \in Nat /\ Silence \in Nat /\ MaxAge \in Nat
  /\ Promised \in Nat /\ Promised + 1 < MaxAge
  /\ SyncLimit \div 2 \in Nat /\ SyncLimit \div 2 <= SyncLimit
<1>1. EmptyActions + 1 \in Nat /\ Reset \in Nat /\ SyncLimit \in Nat \ {0}
  BY LagAssumption
<1>2. Promised \in Nat
  BY <1>1 DEF Promised
<1>3. SyncLimit \div 2 \in Nat /\ SyncLimit \div 2 <= SyncLimit
  BY <1>1
<1> QED
  BY <1>1, <1>2, <1>3, LagAssumption DEF Promised

\* GProxy++ players are promised at least as long a wait as anybody.
LEMMA WaitIsPromised == WaitTime \in Nat /\ WaitTime <= Promised
<1>1. EmptyActions \in Nat /\ Reset \in Nat
  BY LagAssumption
<1>2. (EmptyActions + 1) * Reset = EmptyActions * Reset + Reset /\ EmptyActions * Reset \in Nat
  BY <1>1
<1> QED
  BY <1>1, <1>2 DEF WaitTime, Promised

\* Nobody starves for longer than a lag screen before it is renewed.
LEMMA BeforeType ==
  ASSUME TypeOK
  PROVE  Before \in Nat /\ Before >= 1 /\ Before <= Reset + 1
BY Bounds DEF Before, TypeOK

-----------------------------------------------------------------------------
(* A player is deleted                                                     *)

\* EventPlayerDeleted: the leaver's place among the laggers, its votes and its counters go.
LEMMA DeleteStep ==
  ASSUME LagInv, NEW p \in players, NEW d \in BOOLEAN, Delete(p, d), todo' = todo \ {p}
  PROVE  LagInv'
<1> DEFINE sent == AutoSave /\ d
<1>1. /\ players' = players \ {p} /\ lagging' = lagging \ {p} /\ dropped' = dropped \ {p}
      /\ votes' = votes \ {p} /\ voted' = voted \ {p} /\ down' = down \ {p}
      /\ UNCHANGED <<lagScreen, lagAge, resetAge, screenAge, alive>>
      /\ autosaves' = IF sent THEN autosaves + 1 ELSE autosaves
      /\ starved' = IF sent THEN 0 ELSE starved
  BY DEF Delete
<1>2. TypeOK
  BY DEF LagInv
<1>3. ASSUME NEW q \in players' PROVE q \in players /\ q # p /\ q \in Players
  BY <1>1, <1>2 DEF TypeOK
<1>4. ASSUME NEW q \in players'
      PROVE  behind'[q] = (IF sent THEN behind[q] + 1 ELSE behind[q]) /\ view'[q] = view[q] \ {p}
  BY <1>3 DEF Delete
<1>5. TypeOK'
  <2>1. behind' \in [Players -> Nat]
    BY <1>2 DEF Delete, TypeOK
  <2>2. view' \in [Players -> SUBSET Players] /\ silent' \in [Players -> 0..Silence]
    BY <1>2, Bounds DEF Delete, TypeOK
  <2>3. starved' \in 0..(2 * Reset + 2) /\ autosaves' \in Nat
    BY <1>1, <1>2, Bounds DEF TypeOK
  <2> QED
    BY <1>1, <1>2, <2>1, <2>2, <2>3 DEF TypeOK
<1>6. BoundedLag'
  BY <1>1, <1>2, <1>3, <1>4, Bounds DEF LagInv, BoundedLag, TypeOK
<1>7. ScreensAgree'
  BY <1>1, <1>3, <1>4 DEF LagInv, ScreensAgree
<1>8. ScreenUp'
  BY <1>1 DEF LagInv, ScreenUp
<1>9. OthersKeepUp'
  <2>1. \A q \in players' \ lagging' : q \in players \ lagging
    BY <1>1
  <2> QED
    BY <1>1, <1>2, <1>3, <1>4, <2>1, Bounds DEF LagInv, OthersKeepUp, TypeOK
<1>10. WaitEnds'
  BY <1>1 DEF LagInv, WaitEnds
<1>11. ActionsCome'
  <2>1. CASE sent
    <3>1. starved' = 0 /\ autosaves' = autosaves + 1 /\ resetAge' = resetAge /\ alive' = alive
      BY <1>1, <2>1
    <3>2. resetAge \in Nat /\ Reset \in Nat /\ autosaves \in Nat
      BY <1>2, Bounds DEF TypeOK
    <3> QED
      BY <3>1, <3>2 DEF ActionsCome, Before
  <2>2. CASE ~sent
    <3>1. Before' = Before /\ starved' = starved
      BY <1>1, <2>2 DEF Before
    <3>2. Over' \subseteq Over
      BY <1>3, <1>4, <2>2 DEF Over
    <3>3. (Over \ lagging)' \subseteq Over \ lagging
      BY <3>2, <1>1 DEF Over
    <3> HIDE DEF sent
    <3> QED
      BY <1>1, <3>1, <3>2, <3>3 DEF LagInv, ActionsCome
  <2> QED
    BY <2>1, <2>2
<1> QED
  BY <1>5, <1>6, <1>7, <1>8, <1>9, <1>10, <1>11 DEF LagInv

-----------------------------------------------------------------------------
(* What the players do                                                     *)

\* EventPlayerKeepAlive: a player answers, and may catch up.
LEMMA KeepAliveStep ==
  ASSUME LagInv, NEW p \in Players, KeepAlive(p)
  PROVE  LagInv'
<1>1. /\ UNCHANGED <<players, lagging, lagScreen, votes, dropped, down, todo, lagAge, resetAge,
                     screenAge, view, voted, starved, autosaves, alive>>
      /\ behind' = [behind EXCEPT ![p] = @ - 1] /\ silent' = [silent EXCEPT ![p] = 0]
      /\ behind[p] > 0
  BY DEF KeepAlive, hist
<1>2. TypeOK
  BY DEF LagInv
<1>3. ASSUME NEW q \in Players PROVE behind'[q] \in Nat /\ behind'[q] <= behind[q] /\ behind[q] \in Nat
  BY <1>1, <1>2 DEF TypeOK
<1>4. TypeOK'
  BY <1>1, <1>2, <1>3, Bounds DEF TypeOK
<1>5. BoundedLag' /\ OthersKeepUp'
  <2>1. \A q \in players : q \in Players
    BY <1>2 DEF TypeOK
  <2>2. SyncLimit \in Nat /\ autosaves \in Nat
    BY <1>2, Bounds DEF TypeOK
  <2>3. \A q \in Players, n \in Nat : behind[q] <= n => behind'[q] <= n
    BY <1>3
  <2>4. SyncLimit + 1 + autosaves \in Nat /\ SyncLimit + autosaves \in Nat
    BY <2>2
  <2> QED
    BY <1>1, <2>1, <2>3, <2>4 DEF LagInv, BoundedLag, OthersKeepUp
<1>6. Over' \subseteq Over
  <2>1. ASSUME NEW q \in players, behind'[q] > SyncLimit PROVE behind[q] > SyncLimit
    <3>1. q \in Players
      BY <1>2 DEF TypeOK
    <3> QED
      BY <1>3, <2>1, <3>1, Bounds
  <2> QED
    BY <1>1, <2>1 DEF Over
<1>7. ScreensAgree' /\ ScreenUp' /\ WaitEnds'
  BY <1>1 DEF LagInv, ScreensAgree, ScreenUp, WaitEnds
<1>8. ActionsCome'
  <2>1. Before' = Before /\ (Over \ lagging)' \subseteq Over \ lagging
    BY <1>1, <1>6 DEF Before
  <2> QED
    BY <1>1, <1>6, <2>1 DEF LagInv, ActionsCome
<1> QED
  BY <1>4, <1>5, <1>7, <1>8 DEF LagInv

\* What changes neither who is behind, nor the screens, nor the ages.
LEMMA QuietStep ==
  ASSUME LagInv, TypeOK', ScreenUp',
         UNCHANGED <<players, behind, lagging, lagScreen, todo, lagAge, resetAge, view,
                     starved, autosaves, alive>>,
         dropped \subseteq dropped'
  PROVE  LagInv'
<1>1. BoundedLag' /\ ScreensAgree' /\ OthersKeepUp'
  BY DEF LagInv, BoundedLag, ScreensAgree, OthersKeepUp
<1>2. WaitEnds'
  BY DEF LagInv, WaitEnds
<1>3. Before' = Before /\ Over' = Over
  BY DEF Before, Over
<1>4. ActionsCome'
  BY <1>3 DEF LagInv, ActionsCome
<1> QED
  BY <1>1, <1>2, <1>4 DEF LagInv

\* EventPlayerDropRequest: a vote on the lag screen that is up.
LEMMA DropRequestStep ==
  ASSUME LagInv, NEW p \in Players, DropRequest(p)
  PROVE  LagInv'
<1>1. /\ UNCHANGED <<players, behind, lagging, lagScreen, down, todo, lagAge, resetAge, screenAge,
                     view, starved, autosaves, alive>>
      /\ votes' = votes \cup {p} /\ silent' = [silent EXCEPT ![p] = 0]
      /\ lagScreen => voted' = voted \cup {p} /\ dropped' \in {dropped, dropped \cup lagging}
      /\ ~lagScreen => voted' = voted /\ dropped' = dropped
  BY DEF DropRequest
<1>2. TypeOK /\ p \in players
  BY DEF LagInv, DropRequest, Visiting, TypeOK
<1>3. /\ votes' \subseteq players /\ voted' \subseteq players /\ dropped' \subseteq players
      /\ dropped \subseteq dropped'
  BY <1>1, <1>2 DEF TypeOK
<1>4. silent' \in [Players -> 0..Silence]
  BY <1>1, <1>2, Bounds DEF TypeOK
<1>5. TypeOK'
  BY <1>1, <1>2, <1>3, <1>4 DEF TypeOK
<1>6. ScreenUp'
  BY <1>1 DEF LagInv, ScreenUp
<1> QED
  BY <1>1, <1>3, <1>5, <1>6, QuietStep

\* A GProxy++ player goes down or comes back.
LEMMA ConnectionStep ==
  ASSUME LagInv, UNCHANGED <<players, behind, lagging, lagScreen, votes, dropped, todo, lagAge,
                             resetAge, screenAge, hist>>,
         down' \subseteq players, silent' \in [Players -> 0..Silence]
  PROVE  LagInv'
<1>1. TypeOK'
  BY DEF LagInv, TypeOK, hist
<1>2. ScreenUp'
  BY DEF LagInv, ScreenUp, hist
<1> QED
  BY <1>1, <1>2, QuietStep DEF hist

\* A player whose update does not delete it has been visited.
LEMMA VisitStep ==
  ASSUME LagInv, NEW p \in Players, todo' = todo \ {p}, p \notin dropped, UNCHANGED <<lock, ages, hist>>
  PROVE  LagInv'
<1> USE DEF lock, ages, hist
<1>1. TypeOK' /\ BoundedLag' /\ ScreensAgree' /\ OthersKeepUp' /\ ScreenUp'
  BY DEF LagInv, TypeOK, BoundedLag, ScreensAgree, OthersKeepUp, ScreenUp
<1>2. WaitEnds'
  BY DEF LagInv, WaitEnds
<1>3. Before' = Before /\ Over' = Over
  BY DEF Before, Over
<1>4. ActionsCome'
  BY <1>3 DEF LagInv, ActionsCome
<1> QED
  BY <1>1, <1>2, <1>4 DEF LagInv

-----------------------------------------------------------------------------
(* Time passes                                                             *)

\* An age grows by at most one, up to its cap.
LEMMA OlderType ==
  ASSUME NEW cap \in Nat, NEW age \in 0..cap
  PROVE  Older(age, cap) \in 0..cap /\ Older(age, cap) <= age + 1
BY DEF Older

\* A unit of time passes between two Updates.
LEMMA TickStep ==
  ASSUME LagInv, Tick PROVE LagInv'
<1>1. /\ UNCHANGED <<lock, todo, view, voted, autosaves>>
      /\ alive = TRUE /\ alive' = FALSE
      /\ lagAge' = Older(lagAge, MaxAge) /\ resetAge' = Older(resetAge, Reset)
      /\ screenAge' = Older(screenAge, Grace) /\ starved' = Older(starved, 2 * Reset + 2)
      /\ silent' = [p \in Players |-> IF p \in players THEN Older(silent[p], Silence) ELSE silent[p]]
  BY DEF Tick, TypeOK, LagInv
<1>2. TypeOK
  BY DEF LagInv
<1>3. /\ lagAge \in 0..MaxAge /\ resetAge \in 0..Reset /\ screenAge \in 0..Grace
      /\ starved \in 0..(2 * Reset + 2) /\ silent \in [Players -> 0..Silence]
      /\ MaxAge \in Nat /\ Reset \in Nat /\ Grace \in Nat /\ 2 * Reset + 2 \in Nat /\ Silence \in Nat
  BY <1>2, Bounds DEF TypeOK
<1>4. TypeOK'
  <2>1. lagAge' \in 0..MaxAge /\ resetAge' \in 0..Reset /\ screenAge' \in 0..Grace
    BY <1>1, <1>3, OlderType
  <2>2. starved' \in 0..(2 * Reset + 2)
    BY <1>1, <1>3, OlderType
  <2>3. silent' \in [Players -> 0..Silence]
    <3>1. \A q \in Players : Older(silent[q], Silence) \in 0..Silence
      BY <1>3, OlderType
    <3> QED
      BY <1>1, <1>3, <3>1
  <2> QED
    BY <1>1, <1>2, <2>1, <2>2, <2>3 DEF TypeOK, lock
<1>5. BoundedLag' /\ ScreensAgree' /\ OthersKeepUp' /\ ScreenUp'
  BY <1>1 DEF LagInv, BoundedLag, ScreensAgree, OthersKeepUp, ScreenUp, lock
<1>6. WaitEnds'
  <2> SUFFICES ASSUME lagging # {}
               PROVE  \/ lagAge' <= Promised
                      \/ lagging \subseteq dropped \cap todo /\ lagAge' <= Promised + 1
    BY <1>1 DEF WaitEnds, lock
  <2>1. lagAge' = Older(lagAge, MaxAge) /\ Older(lagAge, MaxAge) <= lagAge + 1
        /\ Older(lagAge, MaxAge) \in 0..MaxAge
    BY <1>1, <1>3, OlderType
  <2>3. Promised \in Nat /\ lagAge \in Nat
    BY <1>3, Bounds
  <2>2. lagAge < Promised \/ (lagging \subseteq dropped \cap todo /\ lagAge <= Promised)
    BY <1>1, <2>3 DEF LagInv, WaitEnds
  <2> QED
    BY <2>1, <2>2, <2>3
<1>7. ActionsCome'
  <2>1. Before' = Before /\ Over' = Over /\ (Over \ lagging)' = Over \ lagging /\ Before \in Nat
        /\ Before >= 1
    BY <1>1, <1>2, BeforeType DEF Before, Over, lock
  <2>2. ASSUME lagScreen
        PROVE  /\ Older(starved, 2 * Reset + 2) <= Older(resetAge, Reset) + Before
               /\ Over \ lagging # {} => Older(starved, 2 * Reset + 2) <= Older(resetAge, Reset) + 1
    <3>1. CASE starved = 0
      BY <1>3, <2>1, <3>1 DEF Older
    <3>2. CASE resetAge < Reset
      <4>1. Older(resetAge, Reset) = resetAge + 1 /\ Older(starved, 2 * Reset + 2) <= starved + 1
            /\ Older(starved, 2 * Reset + 2) \in Nat
        BY <1>3, <3>2 DEF Older
      <4>2. starved <= resetAge + Before /\ (Over \ lagging # {} => starved <= resetAge + 1)
        BY <2>2 DEF LagInv, ActionsCome
      <4> QED
        BY <1>3, <2>1, <4>1, <4>2
    <3> QED
      BY <1>1, <2>2, <3>1, <3>2 DEF LagInv, ActionsCome
  <2>3. ASSUME ~lagScreen
        PROVE  /\ Older(starved, 2 * Reset + 2) <= Reset + Before
               /\ Over # {} => Older(starved, 2 * Reset + 2) <= Before
    <3>1. starved <= Reset + Before - 1 /\ (Over # {} => starved <= Before - 1)
      BY <1>1, <2>3 DEF LagInv, ActionsCome
    <3> QED
      BY <1>3, <2>1, <3>1 DEF Older
  <2>4. lagScreen' = lagScreen
    BY <1>1 DEF lock
  <2> QED
    BY <1>1, <1>3, <2>1, <2>2, <2>3, <2>4 DEF ActionsCome
<1> QED
  BY <1>4, <1>5, <1>6, <1>7 DEF LagInv

-----------------------------------------------------------------------------
(* The rest of an Update                                                   *)

\* Nobody who starts the lag screen has caught up, and who has caught up is within the limit.
LEMMA CaughtKeepUp ==
  ASSUME TypeOK
  PROVE  /\ Started \cap Caught = {}
         /\ Caught \subseteq Laggers /\ Laggers \subseteq players
         /\ \A p \in Caught : p \in players /\ behind[p] <= SyncLimit
         /\ \A p \in players : behind[p] \in Nat
<1>1. \A p \in players : behind[p] \in Nat
  BY DEF TypeOK
<1>2. Caught \subseteq Laggers /\ Laggers \subseteq players
  BY DEF Caught, Laggers, Started, TypeOK
<1>3. \A p \in Caught : p \in players /\ behind[p] < SyncLimit \div 2
  BY <1>2 DEF Caught
<1>4. \A p \in Caught : behind[p] <= SyncLimit
  BY <1>1, <1>3, Bounds
<1>5. \A p \in Started : behind[p] > SyncLimit /\ p \in players
  BY DEF Started
<1>6. ASSUME NEW p \in Started, p \in Caught PROVE FALSE
  BY <1>1, <1>4, <1>5, <1>6, Bounds
<1> QED
  BY <1>1, <1>2, <1>3, <1>4, <1>6

\* A client that shows who lags is shown the laggers that are left.
LEMMA ShownLeft ==
  ASSUME ScreenUp, NEW old, old = lagging
  PROVE  Shown(old, Started) = Laggers \ Caught
<1>1. (IF Started # {} THEN Laggers ELSE old) = Laggers
  BY DEF Laggers
<1> QED
  BY <1>1 DEF Shown

\* Which of the players are within the limit when the game goes on.
LEMMA WithinLimit ==
  ASSUME LagInv, NEW p \in players, p \notin Laggers \ Caught
  PROVE  behind[p] <= SyncLimit + autosaves /\ (~lagScreen => behind[p] <= SyncLimit)
<1>1. TypeOK /\ SyncLimit \in Nat /\ autosaves \in Nat /\ behind[p] \in Nat
  BY Bounds, CaughtKeepUp DEF LagInv, TypeOK
<1>2. CASE p \in Caught
  <2>1. behind[p] <= SyncLimit
    BY <1>1, <1>2, CaughtKeepUp
  <2> QED
    BY <1>1, <2>1
<1>3. CASE p \notin Laggers /\ lagScreen
  BY <1>1, <1>3 DEF LagInv, OthersKeepUp, Laggers
<1>4. CASE p \notin Laggers /\ ~lagScreen
  <2>1. ~(behind[p] > SyncLimit)
    BY <1>4 DEF Laggers, Started
  <2> QED
    BY <1>1, <2>1
<1> QED
  BY <1>2, <1>3, <1>4

\* What an Update does to the lag screen and the clocks, in one place.
LEMMA UpdateFacts ==
  ASSUME LagInv, Update
  PROVE  /\ todo = {} /\ todo' = players /\ players' = players /\ autosaves' = autosaves
         /\ lagging' = Laggers \ Caught
         /\ lagScreen' = (Laggers \ Caught # {})
         /\ alive' \in BOOLEAN
         /\ lagScreen' => Screen /\ alive' = TRUE /\ behind' = behind
         /\ Started # {} => lagScreen'
         /\ ~lagScreen => lagging = {} /\ Over = Started
         /\ lagScreen => Started = {} /\ Laggers = lagging
<1>1. /\ todo = {} /\ todo' = players /\ players' = players /\ autosaves' = autosaves
      /\ lagging' = IF Screen THEN Laggers \ Caught ELSE lagging
      /\ lagScreen' = (Screen /\ Laggers \ Caught # {})
      /\ lagScreen' => alive' = (alive \/ Screen) /\ behind' = behind
      /\ alive' \in {TRUE, alive \/ Screen}
  BY DEF Update
<1>2. TypeOK /\ ScreenUp
  BY DEF LagInv
<1>3. Started # {} => Laggers \ Caught # {}
  BY <1>2, CaughtKeepUp DEF Laggers
<1>4. ~Screen => lagging = {} /\ Laggers = {} /\ Started = {}
  BY <1>2 DEF Screen, ScreenUp, Laggers
<1>5. Started # {} => Screen
  BY DEF Screen
<1>6. ~lagScreen => lagging = {} /\ Over = Started
  BY <1>2 DEF ScreenUp, Over, Started
<1>7. lagScreen => Started = {} /\ Laggers = lagging
  BY DEF Started, Laggers
<1>8. alive' \in BOOLEAN /\ (lagScreen' => Screen /\ alive' = TRUE)
  BY <1>1, <1>2 DEF TypeOK
<1>9. lagging' = Laggers \ Caught /\ lagScreen' = (Laggers \ Caught # {})
  BY <1>1, <1>4
<1> QED
  BY <1>1, <1>3, <1>5, <1>6, <1>7, <1>8, <1>9

\* CBaseGame::Update's own part keeps the types.
LEMMA UpdateTyping ==
  ASSUME LagInv, Update
  PROVE  TypeOK'
<1>1. TypeOK
  BY DEF LagInv
<1>2. /\ todo' = players /\ players' = players /\ autosaves' = autosaves
      /\ lagging' = Laggers \ Caught /\ lagScreen' \in BOOLEAN /\ alive' \in BOOLEAN
  BY UpdateFacts
<1>3. /\ votes' \subseteq players /\ voted' \subseteq players /\ down' = down /\ silent' = silent
      /\ dropped' \subseteq players /\ Laggers \subseteq players
  BY <1>1, CaughtKeepUp DEF Update, VotesLeft, TypeOK
<1>4. behind' \in [Players -> Nat]
  BY <1>1 DEF Update, SendAllActions, TypeOK
<1>5. view' \in [Players -> SUBSET Players]
  <2>1. ASSUME NEW old \in SUBSET Players PROVE Shown(old, Started) \in SUBSET Players
    BY <1>1, <1>3 DEF Shown, TypeOK
  <2>2. \A p \in Players : view[p] \in SUBSET Players
    BY <1>1 DEF TypeOK
  <2>3. view' = [p \in Players |-> IF p \in players /\ Screen THEN Shown(view[p], Started) ELSE view[p]]
    BY DEF Update
  <2> QED
    BY <2>1, <2>2, <2>3
<1>6. /\ lagAge' \in {0, lagAge} /\ resetAge' \in {0, resetAge} /\ screenAge' \in {0, screenAge}
      /\ starved' \in {0, starved}
  BY DEF Update
<1>7. /\ lagAge' \in 0..MaxAge /\ resetAge' \in 0..Reset /\ screenAge' \in 0..Grace
      /\ starved' \in 0..(2 * Reset + 2)
  <2>1. 0 \in 0..MaxAge /\ 0 \in 0..Reset /\ 0 \in 0..Grace /\ 0 \in 0..(2 * Reset + 2)
    BY Bounds
  <2> QED
    BY <1>1, <1>6, <2>1 DEF TypeOK
<1> QED
  BY <1>1, <1>2, <1>3, <1>4, <1>5, <1>7 DEF TypeOK

\* CBaseGame::Update starts and ends lag screens for those who lag, and behind none is
\* anybody over the limit.
LEMMA UpdateScreens ==
  ASSUME LagInv, Update
  PROVE  ScreensAgree' /\ ScreenUp' /\ OthersKeepUp' /\ BoundedLag'
<1>1. TypeOK /\ ScreenUp
  BY DEF LagInv
<1>2. ScreensAgree'
  <2> SUFFICES ASSUME NEW p \in players PROVE view'[p] = Laggers \ Caught
    BY UpdateFacts DEF ScreensAgree
  <2>1. view[p] = lagging /\ p \in Players
    BY <1>1 DEF LagInv, ScreensAgree, TypeOK
  <2>2. view'[p] = IF Screen THEN Shown(view[p], Started) ELSE view[p]
    BY <2>1 DEF Update
  <2>3. ~Screen => lagging = Laggers \ Caught
    BY <1>1, UpdateFacts DEF Update
  <2> QED
    BY <1>1, <2>1, <2>2, <2>3, ShownLeft
<1>3. ScreenUp'
  <2>1. votes' = (IF Started # {} THEN {} ELSE votes) /\ voted' = (IF Started # {} THEN {} ELSE voted)
    BY DEF Update, VotesLeft
  <2>2. lagScreen' => Started # {} \/ lagScreen
    BY UpdateFacts DEF Screen
  <2> QED
    BY <1>1, <2>1, <2>2, UpdateFacts DEF ScreenUp
<1>4. OthersKeepUp'
  <2> SUFFICES ASSUME lagScreen', NEW p \in players, p \notin Laggers \ Caught
               PROVE  behind'[p] <= SyncLimit + autosaves
    BY UpdateFacts DEF OthersKeepUp
  <2> QED
    BY UpdateFacts, WithinLimit
<1>5. BoundedLag'
  <2> SUFFICES ASSUME NEW p \in players PROVE behind'[p] <= SyncLimit + 1 + autosaves
    BY UpdateFacts DEF BoundedLag
  <2>1. /\ behind[p] \in Nat /\ behind[p] <= SyncLimit + 1 + autosaves /\ p \in Players
        /\ SyncLimit \in Nat /\ autosaves \in Nat
    BY <1>1, Bounds DEF LagInv, BoundedLag, TypeOK
  <2>2. CASE behind' = behind
    BY <2>1, <2>2
  <2>3. CASE behind' # behind
    <3>1. SendAllActions /\ ~lagScreen'
      BY <2>3 DEF Update
    <3>2. behind'[p] = behind[p] + 1
      BY <2>1, <3>1 DEF SendAllActions
    <3>3. p \notin Laggers \ Caught
      BY <3>1, UpdateFacts
    <3>4. behind[p] <= SyncLimit + autosaves
      BY <3>3, WithinLimit
    <3> QED
      BY <2>1, <3>2, <3>4
  <2> QED
    BY <2>2, <2>3
<1> QED
  BY <1>2, <1>3, <1>4, <1>5

\* CBaseGame::Update drops the laggers when their time is used up.
LEMMA UpdateWaits ==
  ASSUME LagInv, Update
  PROVE  WaitEnds'
<1> SUFFICES ASSUME Laggers \ Caught # {}
             PROVE  \/ lagAge' < Promised
                    \/ Laggers \subseteq dropped' /\ Laggers \subseteq players /\ lagAge' <= Promised
  <2>1. lagging' # {} => alive' = TRUE
    BY UpdateFacts
  <2>2. Promised \in Nat /\ (lagAge' = 0 \/ lagAge' = lagAge) /\ lagAge \in Nat
    BY Bounds DEF Update, LagInv, TypeOK
  <2> QED
    BY <2>1, <2>2, UpdateFacts DEF WaitEnds
<1>1. lagScreen' /\ Screen /\ lagAge' = SinceStart
  BY UpdateFacts DEF Update, SinceStart
<1>2. TypeOK /\ Promised \in Nat /\ WaitTime \in Nat /\ WaitTime <= Promised
  BY Bounds, WaitIsPromised DEF LagInv
<1>3. SinceStart \in Nat /\ SinceStart <= Promised
  <2>1. CASE Started # {}
    BY <1>2, <2>1 DEF SinceStart
  <2>2. CASE Started = {}
    <3>1. lagScreen /\ lagging # {} /\ todo = {} /\ lagAge \in Nat
      BY <1>1, <1>2, <2>2, UpdateFacts DEF Screen, TypeOK
    <3>2. lagAge <= Promised
      BY <3>1 DEF LagInv, WaitEnds
    <3> QED
      BY <2>2, <3>1, <3>2 DEF SinceStart
  <2> QED
    BY <2>1, <2>2
<1>4. CASE Expired
  <2>1. Laggers \subseteq dropped' /\ Laggers \subseteq players
    BY <1>2, <1>4, CaughtKeepUp DEF Update
  <2> QED
    BY <1>1, <1>3, <2>1
<1>5. CASE ~Expired
  <2>1. SinceStart < WaitTime
    BY <1>1, <1>2, <1>3, <1>5 DEF Expired
  <2> QED
    BY <1>1, <1>2, <1>3, <2>1
<1> QED
  BY <1>4, <1>5

\* CBaseGame::Update sends actions, or renews the lag screen in time.
LEMMA UpdateStarves ==
  ASSUME LagInv, Update
  PROVE  ActionsCome'
<1>1. TypeOK /\ ActionsCome
  BY DEF LagInv
<1>2. /\ Reset \in Nat /\ Before \in Nat /\ Before >= 1 /\ Before <= Reset + 1 /\ Before' = Before
      /\ resetAge \in 0..Reset /\ starved \in Nat
  BY <1>1, BeforeType, Bounds, UpdateFacts DEF Before, TypeOK
<1>3. resetAge' = (IF Renewed \/ Started # {} THEN 0 ELSE resetAge)
  BY DEF Update
<1>4. CASE lagScreen'
  <2>1. Screen /\ alive' = TRUE /\ Over' = Over /\ lagging' = Laggers \ Caught
    BY <1>4, UpdateFacts DEF Over
  <2>2. starved' = (IF Renewed THEN 0 ELSE starved)
    BY <1>4 DEF Update
  <2>3. CASE Renewed
    <3>1. starved' = 0 /\ resetAge' = 0
      BY <1>3, <2>2, <2>3
    <3> QED
      BY <1>2, <1>4, <2>1, <3>1 DEF ActionsCome
  <2>4. CASE ~Renewed /\ Started # {}
    <3>1. starved' = starved /\ resetAge' = 0 /\ Reset > 0
      BY <1>2, <1>3, <2>1, <2>2, <2>4 DEF Renewed, SinceReset
    <3>2. ~lagScreen /\ Over = Started
      BY <2>4, UpdateFacts DEF Started
    <3>3. starved <= Before
      BY <1>1, <1>2, <2>4, <3>2 DEF ActionsCome
    <3>4. (Over \ lagging)' = {}
      <4>1. Started \subseteq Laggers \ Caught
        BY <1>1, CaughtKeepUp DEF Laggers
      <4> QED
        BY <2>1, <3>2, <4>1 DEF Over
    <3> QED
      BY <1>2, <1>4, <2>1, <3>1, <3>3, <3>4 DEF ActionsCome
  <2>5. CASE ~Renewed /\ Started = {}
    <3>1. lagScreen /\ Laggers = lagging
      BY <2>1, <2>5 DEF Screen, Laggers
    <3>2. starved' = starved /\ resetAge' = resetAge /\ resetAge < Reset
      BY <1>2, <1>3, <2>1, <2>2, <2>5 DEF Renewed, SinceReset
    <3>3. (Over \ lagging)' \subseteq Over \ lagging
      <4>1. \A p \in Over : p \notin Caught
        BY <1>1, CaughtKeepUp, Bounds DEF Over
      <4>2. Over' \subseteq Over
        BY <2>1
      <4> QED
        BY <2>1, <3>1, <4>1, <4>2
    <3> QED
      BY <1>1, <1>2, <1>4, <2>1, <3>1, <3>2, <3>3 DEF ActionsCome
  <2> QED
    BY <2>3, <2>4, <2>5
<1>5. CASE ~lagScreen'
  <2>1. Started = {} /\ Laggers \ Caught = {}
    BY <1>5, UpdateFacts
  <2>2. CASE starved' = 0 /\ alive' = TRUE
    BY <1>2, <1>5, <2>2 DEF ActionsCome
  <2>3. CASE ~(starved' = 0 /\ alive' = TRUE)
    <3>1. /\ starved' = (IF Renewed THEN 0 ELSE starved) /\ alive' = (alive \/ Screen)
          /\ behind' = behind
      BY <2>3 DEF Update
    <3>2. ~Renewed /\ starved' = starved
      BY <2>3, <3>1 DEF Renewed
    <3>3. Over' = Over
      BY <3>1, UpdateFacts DEF Over
    <3>4. CASE lagScreen
      <4>1. resetAge < Reset /\ alive' = TRUE
        <5>1. Screen /\ SinceReset = resetAge
          BY <2>1, <3>4 DEF Screen, SinceReset
        <5>2. ~(resetAge >= Reset)
          BY <3>2, <5>1 DEF Renewed
        <5>3. alive' = TRUE
          BY <1>1, <3>1, <5>1 DEF TypeOK
        <5> QED
          BY <1>2, <5>2, <5>3
      <4>2. starved <= resetAge + Before
        BY <1>1, <3>4 DEF ActionsCome
      <4>3. ASSUME Over # {} PROVE starved <= Before - 1
        <5>1. PICK p \in players : behind[p] > SyncLimit
          BY <4>3 DEF Over
        <5>2. /\ behind[p] <= SyncLimit + autosaves
              /\ SyncLimit \in Nat /\ autosaves \in Nat /\ behind[p] \in Nat
          BY <1>1, <2>1, WithinLimit, Bounds, CaughtKeepUp DEF TypeOK
        <5>3. Before = Reset + 1
          BY <5>1, <5>2 DEF Before
        <5>4. p \notin Caught
          BY <1>1, <5>1, <5>2, CaughtKeepUp
        <5>5. p \in Over \ lagging
          BY <2>1, <3>4, <5>1, <5>4, UpdateFacts DEF Over
        <5>6. starved <= resetAge + 1
          BY <1>1, <3>4, <5>5 DEF ActionsCome
        <5> QED
          BY <1>2, <4>1, <5>3, <5>6
      <4> QED
        BY <1>2, <1>5, <3>2, <3>3, <4>1, <4>2, <4>3 DEF ActionsCome
    <3>5. CASE ~lagScreen
      <4>1. alive' = alive
        BY <1>1, <2>1, <3>1, <3>5 DEF Screen, TypeOK
      <4> QED
        BY <1>1, <1>2, <1>5, <3>2, <3>3, <3>5, <4>1 DEF ActionsCome
    <3> QED
      BY <3>4, <3>5
  <2> QED
    BY <2>2, <2>3
<1> QED
  BY <1>4, <1>5

-----------------------------------------------------------------------------
(* The invariant                                                           *)

\* LagInv is inductive.
LEMMA LagInductive ==
  ASSUME LagInv, [Next]_vars PROVE LagInv'
<1>1. TypeOK
  BY DEF LagInv
<1>2. ASSUME NEW p \in Players, KeepAlive(p) PROVE LagInv'
  BY <1>2, KeepAliveStep
<1>3. ASSUME NEW p \in Players, DropRequest(p) PROVE LagInv'
  BY <1>3, DropRequestStep
<1>4. ASSUME NEW p \in Players, UpdatePlayer(p) PROVE LagInv'
  <2>1. p \in players /\ todo' = todo \ {p}
    BY <1>1, <1>4 DEF UpdatePlayer, Visiting, TypeOK
  <2>2. CASE p \in dropped
    BY <1>4, <2>1, <2>2, DeleteStep DEF UpdatePlayer
  <2>3. CASE p \notin dropped
    BY <1>4, <2>1, <2>3, VisitStep DEF UpdatePlayer
  <2> QED
    BY <2>2, <2>3
<1>5. ASSUME NEW p \in Players, Leave(p) \/ TimedOut(p) PROVE LagInv'
  <2>1. p \in players /\ todo' = todo \ {p} /\ \E d \in BOOLEAN : Delete(p, d)
    BY <1>1, <1>5 DEF Leave, TimedOut, Visiting, TypeOK
  <2> QED
    BY <2>1, DeleteStep
<1>6. ASSUME NEW p \in Players, Disconnect(p) PROVE LagInv'
  <2>1. p \in players
    BY <1>1, <1>6 DEF Disconnect, Visiting, TypeOK
  <2>2. CASE down' = down \cup {p} /\ UNCHANGED <<players, behind, lagging, lagScreen, votes,
                                                   dropped, todo, ages, hist>>
    <3>1. /\ UNCHANGED <<players, behind, lagging, lagScreen, votes, dropped, todo, lagAge,
                         resetAge, screenAge, hist>>
          /\ down' = down \cup {p} /\ silent' = silent
      BY <2>2 DEF ages
    <3>2. down' \subseteq players /\ silent' \in [Players -> 0..Silence]
      BY <1>1, <2>1, <3>1 DEF TypeOK
    <3> QED
      BY <3>1, <3>2, ConnectionStep
  <2>3. CASE todo' = todo \ {p} /\ Delete(p, TRUE)
    BY <2>1, <2>3, DeleteStep
  <2> QED
    BY <1>6, <2>2, <2>3 DEF Disconnect
<1>7. ASSUME NEW p \in Players, Reconnect(p) PROVE LagInv'
  <2>1. /\ UNCHANGED <<players, behind, lagging, lagScreen, votes, dropped, todo, lagAge,
                       resetAge, screenAge, hist>>
        /\ down' = down \ {p} /\ silent' = [silent EXCEPT ![p] = 0]
    BY <1>7 DEF Reconnect
  <2>2. down' \subseteq players /\ silent' \in [Players -> 0..Silence]
    BY <1>1, <2>1, Bounds DEF TypeOK
  <2> QED
    BY <2>1, <2>2, ConnectionStep
<1>8. ASSUME Update PROVE LagInv'
  BY <1>8, UpdateTyping, UpdateScreens, UpdateWaits, UpdateStarves DEF LagInv
<1>9. ASSUME Tick PROVE LagInv'
  BY <1>9, TickStep
<1>10. ASSUME UNCHANGED vars PROVE LagInv'
  <2>1. TypeOK' /\ ScreenUp'
    BY <1>10 DEF LagInv, TypeOK, ScreenUp, vars, lock, ages, hist
  <2> QED
    BY <1>10, <2>1, QuietStep DEF vars, lock, ages, hist
<1> QED
  BY <1>2, <1>3, <1>4, <1>5, <1>6, <1>7, <1>8, <1>9, <1>10 DEF Next

\* Initially nobody is behind, and everybody will be visited.
LEMMA LagInit == ASSUME Init PROVE LagInv
<1>1. TypeOK
  <2>1. /\ MaxAge \in 0..MaxAge /\ Reset \in 0..Reset /\ Grace \in 0..Grace /\ 0 \in 0..Silence
        /\ 0 \in 0..(2 * Reset + 2)
    BY Bounds
  <2>2. /\ behind \in [Players -> Nat] /\ silent \in [Players -> 0..Silence]
        /\ view \in [Players -> SUBSET Players]
    BY <2>1 DEF Init
  <2> QED
    BY <2>1, <2>2 DEF Init, TypeOK
<1>2. autosaves = 0 /\ starved = 0 /\ lagScreen = FALSE /\ alive = TRUE /\ lagging = {}
  BY DEF Init
<1>3. \A p \in Players : behind[p] = 0 /\ view[p] = {}
  BY DEF Init
<1>4. BoundedLag /\ ScreensAgree /\ Over = {}
  BY <1>2, <1>3, Bounds DEF Init, BoundedLag, ScreensAgree, Over
<1>5. ScreenUp /\ OthersKeepUp /\ WaitEnds
  BY <1>2 DEF ScreenUp, OthersKeepUp, WaitEnds
<1>6. ActionsCome
  BY <1>2, <1>4, Bounds DEF ActionsCome, Before
<1> QED
  BY <1>1, <1>4, <1>5, <1>6 DEF LagInv

\* What the invariant says of each of the limits.
LEMMA LimitsFollow == ASSUME LagInv PROVE LimitsHold
<1>1. TypeOK /\ Reset \in Nat /\ autosaves \in Nat /\ starved \in Nat /\ resetAge \in 0..Reset
      /\ lagAge \in Nat /\ Promised \in Nat
  BY Bounds DEF LagInv, TypeOK
<1>2. NobodyStarves
  <2>1. CASE autosaves = 0
    BY <1>1, <2>1 DEF LagInv, ActionsCome, Before, NobodyStarves
  <2>2. CASE autosaves # 0
    BY <1>1, <2>2 DEF LagInv, ActionsCome, Before, NobodyStarves
  <2> QED
    BY <2>1, <2>2
<1>3. BoundedWait
  <2>1. lagging # {} => lagAge <= Promised + 1
    BY <1>1 DEF LagInv, WaitEnds
  <2> QED
    BY <2>1 DEF BoundedWait, Promised
<1> QED
  BY <1>1, <1>2, <1>3 DEF LagInv, LimitsHold

\* Laggers neither get ahead of m_SyncLimit, nor does waiting for them (CBaseGame::Update)
\* take longer than was promised, or the actions away from those who wait.
THEOREM LimitsAlwaysHold == Spec => []LimitsHold
<1>1. Init => LagInv
  BY LagInit
<1>2. LagInv /\ [Next]_vars => LagInv'
  BY LagInductive
<1>3. LagInv => LimitsHold
  BY LimitsFollow
<1> QED
  BY <1>1, <1>2, <1>3, PTL DEF Spec

\* The START_LAG and STOP_LAG messages leave every client with the laggers the bot has.
THEOREM ScreensAlwaysAgree == Spec => []ScreensAgree
<1>1. Init => LagInv
  BY LagInit
<1>2. LagInv /\ [Next]_vars => LagInv'
  BY LagInductive
<1>3. LagInv => ScreensAgree
  BY DEF LagInv
<1> QED
  BY <1>1, <1>2, <1>3, PTL DEF Spec

-----------------------------------------------------------------------------
(* Who is dropped, and who is not                                          *)

\* The step of DropNeedsHalf: laggers are dropped by the requests of this screen, or when
\* their time is up.
LEMMA HalfStep ==
  ASSUME LagInv, [Next]_vars, NEW p \in lagging \ dropped, p \in dropped', lagAge < WaitTime
  PROVE  2 * Cardinality(voted') >= Cardinality(players)
<1>1. lagScreen /\ votes = voted
  BY DEF LagInv, ScreenUp
<1>2. ASSUME Update PROVE FALSE
  <2>1. Expired
    BY <1>2 DEF Update
  <2>2. SinceStart = lagAge
    BY <1>1 DEF SinceStart, Started
  <2>3. lagAge \in Nat
    BY Bounds DEF LagInv, TypeOK
  <2> QED
    BY <2>1, <2>2, <2>3, WaitIsPromised DEF Expired
<1>3. ASSUME NEW q \in Players, NEW d \in BOOLEAN, Delete(q, d) PROVE FALSE
  BY <1>3 DEF Delete
<1>4. PICK q \in Players : DropRequest(q)
  BY <1>2, <1>3 DEF Next, KeepAlive, UpdatePlayer, Leave, Disconnect, TimedOut, Reconnect, Tick,
                    vars, lock, hist
<1>5. votes' = voted' /\ 2 * Cardinality(votes') >= Cardinality(players)
  BY <1>1, <1>4 DEF DropRequest
<1> QED
  BY <1>5

\* Fewer than half of the players (EventPlayerDropRequest) drop nobody before the time is up,
\* and no request made before this lag screen counts.
THEOREM HalfOrTimeDrops == Spec => DropNeedsHalf
<1> DEFINE A == \A p \in lagging \ dropped :
                  p \in dropped' /\ lagAge < WaitTime
                    => 2 * Cardinality(voted') >= Cardinality(players)
<1>1. Init => LagInv
  BY LagInit
<1>2. LagInv /\ [Next]_vars => LagInv'
  BY LagInductive
<1>3. LagInv /\ [Next]_vars => [A]_vars
  BY HalfStep
<1> QED
  BY <1>1, <1>2, <1>3, PTL DEF Spec, DropNeedsHalf

-----------------------------------------------------------------------------
(* Prompt players                                                          *)

\* The players are fewer than the keepalives one of them may be behind (m_SyncLimit is 50 unless
\* configured, a game has at most 12 players), and the timeouts are longer than a unit.
PromptAssumption ==
  Cardinality(Players) <= SyncLimit + 1 /\ Silence >= 2 /\ Grace >= 2

\* What PromptInv says of one player.
Answers(p) ==
  /\ p \in players /\ p \notin dropped /\ p \notin lagging
  /\ p \notin todo => behind[p] <= Cardinality(Players \ players)
  /\ silent[p] <= 1 \/ screenAge <= 1
  /\ alive => silent[p] = 0 \/ screenAge = 0 \/ behind[p] > 0

\* PromptInv, player by player.
LEMMA PromptInvIs == PromptInv <=> LagInv /\ \A p \in Prompt : Answers(p)
BY DEF PromptInv, PromptPlayersStay, Answers

\* One more player has gone.
LEMMA OneMoreGone ==
  ASSUME TypeOK, NEW r \in players
  PROVE  /\ Cardinality(Players \ players) \in Nat
         /\ Cardinality(Players \ (players \ {r})) = Cardinality(Players \ players) + 1
         /\ Cardinality(Players \ players) + 1 <= Cardinality(Players)
<1>1. IsFiniteSet(Players) /\ IsFiniteSet(Players \ players) /\ players \subseteq Players
  BY LagAssumption, FS_Subset DEF TypeOK
<1>2. Players \ (players \ {r}) = (Players \ players) \cup {r} /\ r \notin Players \ players
  BY <1>1
<1>3. Cardinality((Players \ players) \cup {r}) = Cardinality(Players \ players) + 1
  BY <1>1, <1>2, FS_AddElement
<1>4. Cardinality((Players \ players) \cup {r}) <= Cardinality(Players)
  <2>1. (Players \ players) \cup {r} \subseteq Players
    BY <1>1
  <2> QED
    BY <1>1, <2>1, FS_Subset
<1> QED
  BY <1>1, <1>2, <1>3, <1>4, FS_CardinalityType

\* Somebody else is deleted.
LEMMA PromptDelete ==
  ASSUME PromptInv, NEW r \in players \ Prompt, NEW d \in BOOLEAN, Delete(r, d), todo' = todo \ {r},
         NEW p \in Prompt
  PROVE  Answers(p)'
<1>1. TypeOK /\ Answers(p) /\ p # r /\ p \in players /\ p \in Players
  BY PromptInvIs DEF LagInv, Answers, TypeOK
<1>2. /\ players' = players \ {r} /\ lagging' = lagging \ {r} /\ dropped' = dropped \ {r}
      /\ screenAge' = screenAge /\ alive' = alive
  BY DEF Delete
<1>3. silent'[p] = silent[p] /\ behind'[p] \in {behind[p], behind[p] + 1} /\ behind[p] \in Nat
  BY <1>1 DEF Delete, TypeOK
<1>4. /\ Cardinality(Players \ players') = Cardinality(Players \ players) + 1
      /\ Cardinality(Players \ players) \in Nat
  BY <1>1, <1>2, OneMoreGone
<1>5. p \notin todo' => behind'[p] <= Cardinality(Players \ players) + 1
  BY <1>1, <1>3, <1>4 DEF Answers
<1>6. behind[p] > 0 => behind'[p] > 0
  BY <1>3
<1> QED
  BY <1>1, <1>2, <1>3, <1>4, <1>5, <1>6 DEF Answers

\* Nobody who answers starts lagging, whoever goes in the meantime.
LEMMA PromptUpdate ==
  ASSUME PromptAssumption, PromptInv, Update, NEW p \in Prompt
  PROVE  Answers(p)'
<1>1. LagInv /\ TypeOK /\ Answers(p) /\ p \in players /\ p \in Players
  BY PromptInvIs DEF LagInv, Answers, TypeOK
<1>2. p \notin Laggers
  <2>1. behind[p] <= Cardinality(Players \ players) /\ behind[p] \in Nat
    BY <1>1, UpdateFacts DEF Answers, TypeOK
  <2>2. /\ Cardinality(Players \ players) \in Nat
        /\ Cardinality(Players \ players) + 1 <= Cardinality(Players)
    BY <1>1, OneMoreGone
  <2>3. IsFiniteSet(Players)
    BY LagAssumption
  <2>4. Cardinality(Players) \in Nat
    BY <2>3, FS_CardinalityType
  <2>5. behind[p] <= SyncLimit
    BY <2>1, <2>2, <2>4, Bounds DEF PromptAssumption
  <2>6. ~(behind[p] > SyncLimit)
    BY <2>1, <2>5, Bounds
  <2> QED
    BY <1>1, <2>6 DEF Laggers, Started, Answers
<1>3. p \in players' /\ p \notin dropped' /\ p \notin lagging' /\ p \in todo'
  BY <1>1, <1>2, UpdateFacts DEF Update, Answers
<1>4. silent'[p] = silent[p] /\ screenAge' = (IF Screen THEN 0 ELSE screenAge)
  BY DEF Update
<1>5. silent'[p] <= 1 \/ screenAge' <= 1
  BY <1>1, <1>4 DEF Answers
<1>6. ASSUME alive' PROVE silent'[p] = 0 \/ screenAge' = 0 \/ behind'[p] > 0
  <2>1. CASE Screen
    BY <1>4, <2>1
  <2>2. CASE SendAllActions
    <3>1. behind'[p] = behind[p] + 1 /\ behind[p] \in Nat
      BY <1>1, <2>2 DEF SendAllActions, TypeOK
    <3> QED
      BY <3>1
  <2>3. CASE ~Screen /\ ~SendAllActions
    <3>1. behind' = behind /\ alive' = (alive \/ Screen)
      BY <2>3 DEF Update
    <3> QED
      BY <1>1, <1>4, <1>6, <2>3, <3>1 DEF Answers
  <2> QED
    BY <2>1, <2>2, <2>3
<1> QED
  BY <1>3, <1>5, <1>6 DEF Answers

\* Since the last tick it was heard, or the lag screen was up.
LEMMA PromptTick ==
  ASSUME PromptAssumption, PromptInv, Tick, NEW p \in Prompt
  PROVE  Answers(p)'
<1>1. LagInv /\ TypeOK /\ Answers(p) /\ p \in players /\ p \in Players
  BY PromptInvIs DEF LagInv, Answers, TypeOK
<1>2. behind[p] = 0 /\ (silent[p] = 0 \/ screenAge = 0)
  BY <1>1 DEF Tick, Answers
<1>3. silent'[p] = Older(silent[p], Silence) /\ screenAge' = Older(screenAge, Grace) /\ ~alive'
  BY <1>1 DEF Tick
<1>4. silent'[p] <= 1 \/ screenAge' <= 1
  <2>1. Silence \in Nat /\ Grace \in Nat /\ Silence > 0 /\ Grace > 0
    BY Bounds DEF PromptAssumption
  <2>2. Older(0, Silence) = 1 /\ Older(0, Grace) = 1
    BY <2>1 DEF Older
  <2> QED
    BY <1>2, <1>3, <2>2
<1> QED
  BY <1>1, <1>3, <1>4 DEF Tick, lock, Answers

\* A player answers, asks to drop the laggers, goes down or comes back.
LEMMA PromptQuiet ==
  ASSUME PromptInv, NEW p \in Prompt, NEW r \in Players,
         \/ KeepAlive(r) \/ DropRequest(r) \/ Reconnect(r)
         \/ UNCHANGED <<players, behind, lagging, lagScreen, votes, dropped, todo, ages, hist>>
  PROVE  Answers(p)'
<1>1. LagInv /\ TypeOK /\ Answers(p) /\ p \in players /\ p \in Players
  BY PromptInvIs DEF LagInv, Answers, TypeOK
<1>2. /\ UNCHANGED <<players, lagging, todo, screenAge, alive>>
      /\ dropped' \subseteq dropped \cup lagging
      /\ behind' = behind \/ (r \in todo /\ behind' = [behind EXCEPT ![r] = @ - 1] /\ silent'[r] = 0)
      /\ silent' = silent \/ silent' = [silent EXCEPT ![r] = 0]
  BY <1>1 DEF KeepAlive, DropRequest, Reconnect, Visiting, ages, hist, TypeOK
<1>3. silent'[p] \in {0, silent[p]}
  BY <1>1, <1>2 DEF TypeOK
<1>4. behind'[p] = behind[p] \/ (p \in todo /\ silent'[p] = 0)
  BY <1>1, <1>2 DEF TypeOK
<1> QED
  BY <1>1, <1>2, <1>3, <1>4 DEF Answers

\* PromptInv is inductive, where PromptAssumption holds.
LEMMA PromptInductive ==
  ASSUME PromptAssumption, PromptInv, [Next]_vars PROVE PromptInv'
<1>1. LagInv /\ TypeOK /\ LagInv'
  BY LagInductive, PromptInvIs DEF LagInv
<1> SUFFICES ASSUME NEW p \in Prompt PROVE Answers(p)'
  BY <1>1 DEF PromptInv, PromptPlayersStay, Answers
<1>2. Answers(p) /\ p \in players /\ p \in Players
  BY <1>1, PromptInvIs DEF Answers, TypeOK
<1>3. ASSUME NEW r \in Players, KeepAlive(r) \/ DropRequest(r) \/ Reconnect(r) PROVE Answers(p)'
  BY <1>3, PromptQuiet
<1>4. ASSUME NEW r \in Players, UpdatePlayer(r) PROVE Answers(p)'
  <2>1. r \in players /\ todo' = todo \ {r}
    BY <1>1, <1>4 DEF UpdatePlayer, Visiting, TypeOK
  <2>2. CASE r \in dropped
    <3>1. r \notin Prompt
      BY <2>2, PromptInvIs DEF Answers
    <3> QED
      BY <1>4, <2>1, <2>2, <3>1, PromptDelete DEF UpdatePlayer
  <2>3. CASE r \notin dropped
    <3>1. UNCHANGED <<lock, ages, hist>>
      BY <1>4, <2>3 DEF UpdatePlayer
    <3>2. r = p => behind[p] = 0
      BY <1>4 DEF UpdatePlayer
    <3>3. Cardinality(Players \ players) \in Nat
      BY <1>1, <1>2, OneMoreGone
    <3> QED
      BY <1>2, <2>1, <3>1, <3>2, <3>3 DEF Answers, lock, ages, hist
  <2> QED
    BY <2>2, <2>3
<1>5. ASSUME NEW r \in Players, Leave(r) PROVE Answers(p)'
  <2>1. r \in players \ Prompt /\ todo' = todo \ {r}
    BY <1>1, <1>5 DEF Leave, Visiting, TypeOK
  <2> QED
    BY <1>5, <2>1, PromptDelete DEF Leave
<1>6. ASSUME NEW r \in Players, Disconnect(r) PROVE Answers(p)'
  <2>1. CASE UNCHANGED <<players, behind, lagging, lagScreen, votes, dropped, todo, ages, hist>>
    BY <1>1, <1>6, <2>1, PromptQuiet
  <2>2. CASE todo' = todo \ {r} /\ Delete(r, TRUE)
    <3>1. r \in players \ Prompt
      BY <1>1, <1>6 DEF Disconnect, Visiting, TypeOK
    <3> QED
      BY <2>2, <3>1, PromptDelete
  <2> QED
    BY <1>6, <2>1, <2>2 DEF Disconnect
<1>7. ASSUME NEW r \in Players, TimedOut(r) PROVE Answers(p)'
  <2>1. r \in players /\ todo' = todo \ {r}
    BY <1>1, <1>7 DEF TimedOut, Visiting, TypeOK
  <2>2. r \notin Prompt
    <3>1. silent[r] >= Silence /\ screenAge >= Grace /\ silent[r] \in Nat /\ screenAge \in Nat
      BY <1>1, <1>7, Bounds DEF TimedOut, TypeOK
    <3>2. ~(silent[r] <= 1 \/ screenAge <= 1)
      BY <3>1, Bounds DEF PromptAssumption
    <3> QED
      BY <3>2, PromptInvIs DEF Answers
  <2> QED
    BY <1>7, <2>1, <2>2, PromptDelete DEF TimedOut
<1>8. ASSUME Update PROVE Answers(p)'
  BY <1>8, PromptUpdate
<1>9. ASSUME Tick PROVE Answers(p)'
  BY <1>9, PromptTick
<1>10. ASSUME UNCHANGED vars PROVE Answers(p)'
  BY <1>2, <1>10 DEF Answers, vars, lock, ages, hist
<1> QED
  BY <1>3, <1>4, <1>5, <1>6, <1>7, <1>8, <1>9, <1>10 DEF Next

\* A player who answers every action is never deleted, whatever the others do: not for lagging
\* (StopLaggers), and not for the silence of the lag screen (EventPlayerDisconnectTimedOut).
THEOREM PromptPlayersAlwaysStay ==
  ASSUME PromptAssumption PROVE Spec => []PromptPlayersStay
<1>1. Init => PromptInv
  <2> SUFFICES ASSUME Init PROVE PromptInv
    OBVIOUS
  <2>1. \A p \in Prompt : p \in players /\ p \in todo /\ p \notin dropped /\ p \notin lagging
                          /\ silent[p] = 0
    BY LagAssumption DEF Init
  <2> QED
    BY <2>1, LagInit, PromptInvIs DEF Answers
<1>2. PromptInv /\ [Next]_vars => PromptInv'
  BY PromptInductive
<1>3. PromptInv => PromptPlayersStay
  BY DEF PromptInv
<1> QED
  BY <1>1, <1>2, <1>3, PTL DEF Spec

-----------------------------------------------------------------------------
(* Sequences                                                               *)

\* What a player sends next comes at the end of what waits to be compared.
LEMMA AppendSlice ==
  ASSUME NEW S, NEW s \in Seq(S), NEW c \in S, NEW j \in Nat, j <= Len(s)
  PROVE  SubSeq(Append(s, c), j + 1, Len(Append(s, c))) = Append(SubSeq(s, j + 1, Len(s)), c)
<1> DEFINE l == SubSeq(Append(s, c), j + 1, Len(Append(s, c)))
           r == Append(SubSeq(s, j + 1, Len(s)), c)
<1>1. l \in Seq(S) /\ r \in Seq(S) /\ Len(l) = Len(r)
  OBVIOUS
<1>2. ASSUME NEW i \in 1..Len(l) PROVE l[i] = r[i]
  OBVIOUS
<1> QED
  BY <1>1, <1>2, SeqEqual

\* The front of what waits is the next frame to compare; the rest is what waits after it.
LEMMA TailSlice ==
  ASSUME NEW S, NEW s \in Seq(S), NEW j \in Nat, j <= Len(s),
         SubSeq(s, j + 1, Len(s)) # <<>>
  PROVE  /\ j + 1 <= Len(s)
         /\ Head(SubSeq(s, j + 1, Len(s))) = s[j + 1]
         /\ Tail(SubSeq(s, j + 1, Len(s))) = SubSeq(s, (j + 1) + 1, Len(s))
<1>1. j + 1 \in 1..Len(s) /\ Len(s) \in (j + 1)..Len(s)
  <2>1. CASE j = Len(s)
    BY <2>1, SubSeqProperties
  <2>2. CASE j # Len(s)
    BY <2>2
  <2> QED
    BY <2>1, <2>2
<1> QED
  BY <1>1, HeadTailOfSubSeq

-----------------------------------------------------------------------------
(* Who is dropped                                                          *)

\* Only players are dropped.
LEMMA LosersArePlayers ==
  ASSUME NEW queues PROVE Losers(queues) \subseteq players
BY DEF Losers, Live

\* Whatever the scan says, the players who stay have the same front.
LEMMA StayersAgree ==
  ASSUME NEW queues, NEW p \in Live \ Losers(queues), NEW q \in Live \ Losers(queues)
  PROVE  Head(queues[p]) = Head(queues[q])
BY DEF Losers, Live, Bin

-----------------------------------------------------------------------------
(* The invariant                                                           *)

F == INSTANCE FoldInduction WITH Op <- ScanBin

\* Min is what its name says.
LEMMA LeastIsIn ==
  ASSUME NEW S \in SUBSET Nat, S # {}
  PROVE  Min(S) \in S
<1>1. \E n \in S : \A m \in S : n <= m
  BY F!LeastElement
<1> QED
  BY <1>1 DEF Min

\* As many frames wait as somebody in the game has sent.
LEMMA SomebodyWaits ==
  ASSUME players' \subseteq Players, checkSums' \in [Players -> Seq(1..MaxSum)]
  PROVE  /\ Waiting' \in Nat
         /\ Live' # {} => \E q \in Live' : Len(checkSums'[q]) = Waiting'
<1>1. CASE Live' = {}
  BY <1>1 DEF Waiting
<1>2. CASE Live' # {}
  <2>1. \A q \in Live' : Len(checkSums'[q]) \in Nat
    BY DEF Live
  <2>2. Lengths' \in SUBSET Nat /\ Lengths' # {}
    BY <1>2, <2>1 DEF Lengths
  <2>3. Waiting' = Min(Lengths')
    BY <1>2 DEF Waiting
  <2>4. Min(Lengths') \in Lengths'
    BY <2>2, LeastIsIn
  <2> QED
    BY <2>2, <2>3, <2>4 DEF Lengths
<1> QED
  BY <1>1, <1>2

\* Whatever else a step does, no more frames wait after it than the fewest so far, if it
\* leaves the players in the game and adds no frame that waits.
LEMMA StrandStep ==
  ASSUME VoteTypeOK', Strand,
         deleteMe' = deleteMe /\ Live' # {} => \E q \in Live' : Len(checkSums'[q]) <= stranded
  PROVE  DetectedInTime'
<1>1. Waiting' \in Nat /\ (Live' # {} => \E q \in Live' : Len(checkSums'[q]) = Waiting')
  <2>1. players' \subseteq Players /\ checkSums' \in [Players -> Seq(1..MaxSum)]
    BY DEF VoteTypeOK
  <2> QED
    BY <2>1, SomebodyWaits
<1>2. CASE stranded' = Waiting'
  BY <1>1, <1>2 DEF DetectedInTime
<1>3. CASE stranded' = stranded /\ deleteMe' = deleteMe
  BY <1>3 DEF DetectedInTime
<1> QED
  BY <1>2, <1>3 DEF Strand

\* The number of frames that wait has its type once the queues have theirs.
LEMMA StrandType ==
  ASSUME players' \subseteq Players, checkSums' \in [Players -> Seq(1..MaxSum)],
         stranded \in Nat, Strand
  PROVE  stranded' \in Nat
<1>1. Waiting' \in Nat
  BY SomebodyWaits
<1> QED
  BY <1>1 DEF Strand

\* VoteTypeOK is inductive.
LEMMA Typing ==
  ASSUME VoteTypeOK, [VoteNext]_voteVars PROVE VoteTypeOK'
<1>1. ASSUME NEW p \in Players, NEW c \in 1..MaxSum, EventPlayerKeepAlive(p, c) PROVE VoteTypeOK'
  <2> DEFINE queues == [checkSums EXCEPT ![p] = Append(@, c)]
  <2>1. /\ queues \in [Players -> Seq(1..MaxSum)] /\ sums' \in [Players -> Seq(1..MaxSum)]
        /\ players' = players /\ Strand
    BY <1>1 DEF EventPlayerKeepAlive, VoteTypeOK
  <2>2. CASE Complete(queues)
    <3>1. /\ deleteMe' = deleteMe \cup Losers(queues) /\ desynced' = desynced \cup Losers(queues)
          /\ checkSums' = Popped(queues) /\ judged' = judged + 1
      BY <1>1, <2>2 DEF EventPlayerKeepAlive
    <3> HIDE DEF queues
    <3>2. ASSUME NEW q \in Live PROVE Tail(queues[q]) \in Seq(1..MaxSum)
      <4>1. queues[q] \in Seq(1..MaxSum) /\ queues[q] # <<>>
        BY <2>1, <2>2 DEF Complete, VoteTypeOK, Live
      <4> QED
        BY <4>1, HeadTailProperties
    <3>3. checkSums' \in [Players -> Seq(1..MaxSum)]
      BY <3>1, <3>2, <2>1 DEF Popped
    <3>4. Losers(queues) \subseteq players
      BY LosersArePlayers
    <3>5. stranded' \in Nat
      BY <2>1, <3>3, StrandType DEF VoteTypeOK
    <3> QED
      BY <2>1, <3>1, <3>3, <3>4, <3>5 DEF VoteTypeOK
  <2>3. CASE ~Complete(queues)
    <3>1. checkSums' = queues /\ UNCHANGED <<deleteMe, desynced, judged>>
      BY <1>1, <2>3 DEF EventPlayerKeepAlive
    <3> HIDE DEF queues
    <3>2. stranded' \in Nat
      BY <2>1, <3>1, StrandType DEF VoteTypeOK
    <3> QED
      BY <2>1, <3>1, <3>2 DEF VoteTypeOK
  <2> QED
    BY <2>2, <2>3
<1>2. ASSUME NEW p \in Players, Drop(p) PROVE VoteTypeOK'
  <2>1. stranded' \in Nat
    BY <1>2, StrandType DEF Drop, VoteTypeOK
  <2> QED
    BY <1>2, <2>1 DEF Drop, VoteTypeOK, Live
<1>3. ASSUME NEW p \in Players, PlayerDeleted(p) PROVE VoteTypeOK'
  BY <1>3 DEF PlayerDeleted, VoteTypeOK
<1>4. CASE UNCHANGED voteVars
  BY <1>4 DEF voteVars, VoteTypeOK
<1> QED
  BY <1>1, <1>2, <1>3, <1>4 DEF VoteNext

\* What a keepalive does to the queue of its sender, and to no other.
LEMMA KeepAliveQueues ==
  ASSUME VoteTypeOK, QueuesAligned, NEW p \in Players, NEW c \in 1..MaxSum, EventPlayerKeepAlive(p, c), NEW q \in Live
  PROVE  LET queues == [checkSums EXCEPT ![p] = Append(@, c)]
         IN  /\ judged <= Len(sums'[q])
             /\ queues[q] = SubSeq(sums'[q], judged + 1, Len(sums'[q]))
             /\ sums'[q] \in Seq(1..MaxSum)
             /\ \A f \in 1..judged : sums'[q][f] = sums[q][f]
<1>1. /\ sums[q] \in Seq(1..MaxSum) /\ judged \in Nat /\ judged <= Len(sums[q])
      /\ checkSums[q] = SubSeq(sums[q], judged + 1, Len(sums[q]))
      /\ q \in Players
  BY DEF VoteTypeOK, QueuesAligned, Live
<1>2. CASE q = p
  <2>1. sums'[q] = Append(sums[q], c) /\ [checkSums EXCEPT ![p] = Append(@, c)][q] = Append(checkSums[q], c)
    BY <1>1, <1>2 DEF EventPlayerKeepAlive, VoteTypeOK
  <2>2. Len(Append(sums[q], c)) = Len(sums[q]) + 1
    BY <1>1, AppendProperties
  <2>3. Append(checkSums[q], c) = SubSeq(sums'[q], judged + 1, Len(sums'[q]))
    BY <1>1, <2>1, AppendSlice
  <2>4. \A f \in 1..judged : Append(sums[q], c)[f] = sums[q][f]
    BY <1>1, AppendProperties
  <2>5. Append(sums[q], c) \in Seq(1..MaxSum)
    BY <1>1
  <2>6. judged <= Len(Append(sums[q], c))
    BY <1>1, <2>2
  <2> QED
    BY <2>1, <2>3, <2>4, <2>5, <2>6
<1>3. CASE q # p
  <2>1. sums'[q] = sums[q] /\ [checkSums EXCEPT ![p] = Append(@, c)][q] = checkSums[q]
    BY <1>1, <1>3 DEF EventPlayerKeepAlive, VoteTypeOK
  <2> QED
    BY <1>1, <2>1
<1> QED
  BY <1>2, <1>3

\* A keepalive that completes no frame.
LEMMA WaitingStep ==
  ASSUME VoteIsSound, VoteTypeOK', NEW p \in Players, NEW c \in 1..MaxSum, EventPlayerKeepAlive(p, c),
         ~Complete([checkSums EXCEPT ![p] = Append(@, c)])
  PROVE  QueuesAligned' /\ SurvivorsAgree' /\ DetectedInTime'
<1> DEFINE queues == [checkSums EXCEPT ![p] = Append(@, c)]
<1>1. /\ checkSums' = queues /\ players' = players /\ deleteMe' = deleteMe /\ judged' = judged
      /\ Live' = Live
  BY DEF EventPlayerKeepAlive, Live
<1>2. ASSUME NEW q \in Live
      PROVE  /\ judged <= Len(sums'[q])
             /\ queues[q] = SubSeq(sums'[q], judged + 1, Len(sums'[q]))
             /\ sums'[q] \in Seq(1..MaxSum)
             /\ \A f \in 1..judged : sums'[q][f] = sums[q][f]
  BY KeepAliveQueues DEF VoteIsSound
<1>3. ~Complete(queues)
  OBVIOUS
<1> HIDE DEF queues
<1>4. QueuesAligned'
  BY <1>1, <1>2 DEF QueuesAligned
<1>5. SurvivorsAgree'
  BY <1>1, <1>2 DEF SurvivorsAgree, VoteIsSound
<1>6. DetectedInTime'
  <2>1. Strand
    BY DEF EventPlayerKeepAlive
  <2>2. ASSUME Live' # {} PROVE \E q \in Live' : Len(checkSums'[q]) <= stranded
    <3>1. PICK q \in Live : queues[q] = <<>>
      BY <1>1, <1>3, <2>2 DEF Complete
    <3>2. Len(checkSums'[q]) = 0 /\ stranded \in Nat
      BY <1>1, <3>1 DEF VoteIsSound, VoteTypeOK
    <3> QED
      BY <1>1, <3>2
  <2> QED
    BY <2>1, <2>2, StrandStep
<1> QED
  BY <1>4, <1>5, <1>6

\* A keepalive that completes a frame: those who stay agree on it, and wait for the next.
LEMMA VoteStep ==
  ASSUME VoteIsSound, VoteTypeOK', NEW p \in Players, NEW c \in 1..MaxSum, EventPlayerKeepAlive(p, c),
         Complete([checkSums EXCEPT ![p] = Append(@, c)])
  PROVE  QueuesAligned' /\ SurvivorsAgree' /\ DetectedInTime'
<1> DEFINE queues == [checkSums EXCEPT ![p] = Append(@, c)]
<1>1. /\ checkSums' = Popped(queues) /\ players' = players
      /\ deleteMe' = deleteMe \cup Losers(queues) /\ judged' = judged + 1
      /\ Live' = Live \ Losers(queues) /\ judged \in Nat
  BY DEF EventPlayerKeepAlive, Live, VoteIsSound, VoteTypeOK
<1>2. ASSUME NEW q \in Live
      PROVE  /\ judged <= Len(sums'[q])
             /\ queues[q] = SubSeq(sums'[q], judged + 1, Len(sums'[q]))
             /\ sums'[q] \in Seq(1..MaxSum)
             /\ \A f \in 1..judged : sums'[q][f] = sums[q][f]
  BY KeepAliveQueues DEF VoteIsSound
<1>3. \A q \in Live : queues[q] # <<>>
  BY DEF Complete
<1>4. \A q \in Players : /\ queues[q] \in Seq(1..MaxSum) /\ checkSums[q] \in Seq(1..MaxSum)
                         /\ Len(queues[q]) <= Len(checkSums[q]) + 1
  <2> SUFFICES ASSUME NEW q \in Players
               PROVE  /\ queues[q] \in Seq(1..MaxSum) /\ checkSums[q] \in Seq(1..MaxSum)
                      /\ Len(queues[q]) <= Len(checkSums[q]) + 1
    OBVIOUS
  <2>1. checkSums \in [Players -> Seq(1..MaxSum)] /\ checkSums[q] \in Seq(1..MaxSum)
    BY DEF VoteIsSound, VoteTypeOK
  <2>2. queues[q] = checkSums[q] \/ queues[q] = Append(checkSums[q], c)
    BY <2>1
  <2>3. /\ Append(checkSums[q], c) \in Seq(1..MaxSum)
        /\ Len(Append(checkSums[q], c)) = Len(checkSums[q]) + 1
    BY <2>1, AppendProperties
  <2> HIDE DEF queues
  <2>4. CASE queues[q] = checkSums[q]
    <3>1. Len(checkSums[q]) \in Nat
      BY <2>1
    <3> QED
      BY <2>1, <2>4, <3>1
  <2>5. CASE queues[q] = Append(checkSums[q], c)
    <3>1. Len(checkSums[q]) \in Nat
      BY <2>1
    <3> QED
      BY <2>1, <2>3, <2>5, <3>1
  <2> QED
    BY <2>2, <2>4, <2>5
<1> HIDE DEF queues
<1>5. ASSUME NEW q \in Live
      PROVE  /\ judged + 1 <= Len(sums'[q])
             /\ Head(queues[q]) = sums'[q][judged + 1]
             /\ Tail(queues[q]) = SubSeq(sums'[q], (judged + 1) + 1, Len(sums'[q]))
  BY <1>1, <1>2, <1>3, TailSlice
<1>6. \A q \in Live' : q \in Live /\ checkSums'[q] = Tail(queues[q])
  BY <1>1 DEF Popped, Live, VoteIsSound, VoteTypeOK
<1>7. QueuesAligned'
  BY <1>1, <1>5, <1>6 DEF QueuesAligned
<1>8. SurvivorsAgree'
  <2> SUFFICES ASSUME NEW q \in Live', NEW r \in Live', NEW f \in 1..(judged + 1)
               PROVE  sums'[q][f] = sums'[r][f]
    BY <1>1 DEF SurvivorsAgree
  <2>1. q \in Live /\ r \in Live
    BY <1>6
  <2>2. CASE f = judged + 1
    <3>1. Head(queues[q]) = Head(queues[r])
      BY <1>1, StayersAgree
    <3> QED
      BY <1>5, <2>1, <2>2, <3>1
  <2>3. CASE f \in 1..judged
    BY <1>2, <2>1, <2>3 DEF SurvivorsAgree, VoteIsSound
  <2> QED
    BY <1>1, <2>2, <2>3
<1>9. DetectedInTime'
  <2>1. Strand
    BY DEF EventPlayerKeepAlive
  <2>2. ASSUME deleteMe' = deleteMe, Live' # {}
        PROVE  \E q \in Live' : Len(checkSums'[q]) <= stranded
    <3>1. Live' = Live
      BY <1>1, <2>2 DEF Live
    <3>2. PICK q \in Live : Len(checkSums[q]) <= stranded
      BY <2>2, <3>1 DEF VoteIsSound, DetectedInTime
    <3>0. q \in Players
      BY DEF Live, VoteIsSound, VoteTypeOK
    <3>3. /\ queues[q] \in Seq(1..MaxSum) /\ queues[q] # <<>> /\ checkSums'[q] = Tail(queues[q])
          /\ Len(queues[q]) <= Len(checkSums[q]) + 1 /\ checkSums[q] \in Seq(1..MaxSum)
      BY <1>3, <1>4, <1>6, <3>0, <3>1
    <3>4. Len(checkSums'[q]) = Len(queues[q]) - 1 /\ Len(queues[q]) \in Nat
      BY <3>3, HeadTailProperties
    <3>5. stranded \in Nat /\ Len(checkSums[q]) \in Nat
      BY <3>3 DEF VoteIsSound, VoteTypeOK
    <3>6. Len(checkSums'[q]) <= stranded
      BY <3>2, <3>3, <3>4, <3>5
    <3> QED
      BY <3>1, <3>6
  <2> QED
    BY <2>1, <2>2, StrandStep
<1> QED
  BY <1>7, <1>8, <1>9

\* The invariant of the vote is inductive.
LEMMA VoteInductive ==
  ASSUME VoteIsSound, [VoteNext]_voteVars PROVE VoteIsSound'
<1>1. VoteTypeOK'
  BY Typing DEF VoteIsSound
<1>2. ASSUME NEW p \in Players, NEW c \in 1..MaxSum, EventPlayerKeepAlive(p, c)
      PROVE  QueuesAligned' /\ SurvivorsAgree' /\ DetectedInTime'
  BY <1>1, <1>2, WaitingStep, VoteStep
<1>3. ASSUME NEW p \in Players, Drop(p)
      PROVE  QueuesAligned' /\ SurvivorsAgree' /\ DetectedInTime'
  <2>1. QueuesAligned' /\ SurvivorsAgree'
    BY <1>3 DEF Drop, Live, VoteIsSound, QueuesAligned, SurvivorsAgree
  <2>2. Strand /\ deleteMe' # deleteMe
    BY <1>3 DEF Drop, Live
  <2>3. DetectedInTime'
    BY <1>1, <2>2, StrandStep
  <2> QED
    BY <2>1, <2>3
<1>4. ASSUME NEW p \in Players, PlayerDeleted(p)
      PROVE  QueuesAligned' /\ SurvivorsAgree' /\ DetectedInTime'
  <2>1. \A q \in Live' : q \in Live /\ q \in Players /\ q # p
    BY <1>4 DEF PlayerDeleted, Live, VoteIsSound, VoteTypeOK
  <2>2. \A q \in Players : q # p => sums'[q] = sums[q] /\ checkSums'[q] = checkSums[q]
    BY <1>4 DEF PlayerDeleted, VoteIsSound, VoteTypeOK
  <2>3. judged' = judged /\ stranded' = stranded /\ Live' = Live
    BY <1>4 DEF PlayerDeleted, Live
  <2>4. \A q \in Live' : q \in Live /\ sums'[q] = sums[q] /\ checkSums'[q] = checkSums[q]
    BY <2>1, <2>2
  <2>5. QueuesAligned'
    BY <2>3, <2>4 DEF VoteIsSound, QueuesAligned
  <2>6. SurvivorsAgree'
    BY <2>3, <2>4 DEF VoteIsSound, SurvivorsAgree
  <2>7. DetectedInTime'
    BY <2>3, <2>4 DEF VoteIsSound, DetectedInTime
  <2> QED
    BY <2>5, <2>6, <2>7
<1>5. ASSUME UNCHANGED voteVars PROVE QueuesAligned' /\ SurvivorsAgree' /\ DetectedInTime'
  BY <1>5 DEF voteVars, Live, VoteIsSound, QueuesAligned, SurvivorsAgree, DetectedInTime
<1>6. QueuesAligned' /\ SurvivorsAgree' /\ DetectedInTime'
  <2>1. CASE VoteNext
    BY <1>2, <1>3, <1>4, <2>1 DEF VoteNext
  <2> QED
    BY <1>5, <2>1
<1> QED
  BY <1>1, <1>6 DEF VoteIsSound

\* The frame compared is the same of all (EventPlayerKeepAlive), whoever leaves meanwhile;
\* those in the game agree on every frame compared, and no frame is left waiting but those
\* that somebody who left has stranded.
THEOREM SoundVote == VoteSpec => []VoteIsSound
<1>1. VoteInit => VoteIsSound
  <2> SUFFICES ASSUME VoteInit PROVE VoteIsSound
    OBVIOUS
  <2>1. VoteTypeOK
    BY DEF VoteInit, VoteTypeOK
  <2>2. \A q \in Players : sums[q] = <<>> /\ checkSums[q] = <<>> /\ Len(sums[q]) = 0
    BY DEF VoteInit
  <2>3. SubSeq(<<>>, 0 + 1, 0) = <<>>
    BY SubSeqEmpty
  <2>4. QueuesAligned
    <3> DEFINE e == <<>>
    <3>1. judged = 0 /\ Live \subseteq Players /\ Len(e) = 0 /\ SubSeq(e, 0 + 1, 0) = e
      BY <2>3 DEF VoteInit, Live
    <3>2. \A q \in Players : sums[q] = e /\ checkSums[q] = e
      BY <2>2
    <3>3. ASSUME NEW p \in Live
          PROVE  judged <= Len(sums[p]) /\ checkSums[p] = SubSeq(sums[p], judged + 1, Len(sums[p]))
      <4>1. sums[p] = e /\ checkSums[p] = e
        BY <3>1, <3>2
      <4> HIDE DEF e
      <4>2. judged <= Len(sums[p])
        BY <3>1, <4>1
      <4>3. SubSeq(sums[p], judged + 1, Len(sums[p])) = SubSeq(e, 0 + 1, 0)
        BY <3>1, <4>1
      <4> QED
        BY <3>1, <4>1, <4>2, <4>3
    <3> QED
      BY <3>3 DEF QueuesAligned
  <2>5. SurvivorsAgree /\ DetectedInTime
    BY <2>2 DEF VoteInit, SurvivorsAgree, DetectedInTime, Live
  <2> QED
    BY <2>1, <2>4, <2>5 DEF VoteIsSound
<1>2. VoteIsSound /\ [VoteNext]_voteVars => VoteIsSound'
  BY VoteInductive
<1> QED
  BY <1>1, <1>2, PTL DEF VoteSpec

-----------------------------------------------------------------------------
(* What the scan of the bins finds                                         *)

\* The result of the scan of some of the bins, of these sizes: the largest of them, and
\* on a tie another as large.
Found(size, acc, bins) ==
  /\ acc \in [largest : 1..MaxSum, tied : BOOLEAN]
  /\ size[acc.largest] > 0
  /\ \A c \in bins : size[c] <= size[acc.largest]
  /\ acc.tied => \E c \in 1..MaxSum : c # acc.largest /\ size[c] = size[acc.largest]

\* One more bin is scanned.
LEMMA ScanBinFinds ==
  ASSUME NEW size \in [1..MaxSum -> Nat], NEW bins \in SUBSET (1..MaxSum), NEW acc,
         NEW c \in 1..MaxSum, Found(size, acc, bins)
  PROVE  Found(size, ScanBin(size, acc, c), bins \cup {c})
<1>1. /\ acc.largest \in 1..MaxSum /\ acc.tied \in BOOLEAN
      /\ size[acc.largest] \in Nat /\ size[c] \in Nat /\ \A b \in bins : size[b] \in Nat
  BY DEF Found
<1>2. CASE size[c] > size[acc.largest]
  <2>1. ScanBin(size, acc, c) = [largest |-> c, tied |-> FALSE]
    BY <1>2 DEF ScanBin
  <2> QED
    BY <1>1, <1>2, <2>1 DEF Found
<1>3. CASE ~(size[c] > size[acc.largest]) /\ c # acc.largest /\ size[c] = size[acc.largest]
  <2>1. ScanBin(size, acc, c) = [largest |-> acc.largest, tied |-> TRUE]
    BY <1>3 DEF ScanBin
  <2> QED
    BY <1>1, <1>3, <2>1 DEF Found
<1>4. CASE ~(size[c] > size[acc.largest]) /\ ~(c # acc.largest /\ size[c] = size[acc.largest])
  <2>1. ScanBin(size, acc, c) = acc
    BY <1>4 DEF ScanBin
  <2> QED
    BY <1>1, <1>4, <2>1 DEF Found
<1> QED
  BY <1>2, <1>3, <1>4

\* All the bins are scanned, from one that is not empty.
LEMMA ScanFinds ==
  ASSUME NEW size \in [1..MaxSum -> Nat], NEW first \in 1..MaxSum, size[first] > 0
  PROVE  Found(size, F!Fold(size, [largest |-> first, tied |-> FALSE], [c \in 1..MaxSum |-> c]),
               1..MaxSum)
<1> DEFINE base == [largest |-> first, tied |-> FALSE]
           upTo(n) == [c \in 1..n |-> c]
           T == {n \in Nat : n <= MaxSum => Found(size, F!Fold(size, base, upTo(n)), 1..n)}
<1>1. 0 \in T
  <2>1. upTo(0) = <<>> /\ 1..0 = {}
    OBVIOUS
  <2>2. F!Fold(size, base, <<>>) = base
    BY F!FoldEmpty
  <2>3. Found(size, base, {})
    BY DEF Found
  <2> HIDE DEF base, upTo
  <2> QED
    BY <2>1, <2>2, <2>3
<1>2. ASSUME NEW n \in Nat, n \in T PROVE n + 1 \in T
  <2> SUFFICES ASSUME n + 1 <= MaxSum
               PROVE  Found(size, F!Fold(size, base, upTo(n + 1)), 1..(n + 1))
    OBVIOUS
  <2>1. MaxSum \in Nat
    BY DesyncAssumption
  <2>2. n + 1 \in 1..MaxSum /\ 1..(n + 1) = (1..n) \cup {n + 1} /\ 1..n \in SUBSET (1..MaxSum)
    BY <2>1
  <2>3. upTo(n) \in Seq(Nat) /\ upTo(n + 1) = Append(upTo(n), n + 1)
    <3>1. upTo(n) \in Seq(Nat) /\ upTo(n + 1) \in Seq(Nat) /\ Len(upTo(n)) = n /\ Len(upTo(n + 1)) = n + 1
      OBVIOUS
    <3>2. \A i \in 1..(n + 1) : upTo(n + 1)[i] = Append(upTo(n), n + 1)[i]
      BY <3>1
    <3>3. Append(upTo(n), n + 1) \in Seq(Nat) /\ Len(Append(upTo(n), n + 1)) = n + 1
      BY <3>1
    <3> HIDE DEF upTo
    <3> QED
      BY <3>1, <3>2, <3>3, SeqEqual
  <2>4. Found(size, F!Fold(size, base, upTo(n)), 1..n)
    BY <1>2, <2>1
  <2> HIDE DEF base, upTo
  <2>5. F!Fold(size, base, upTo(n + 1)) = ScanBin(size, F!Fold(size, base, upTo(n)), n + 1)
    <3>1. n + 1 \in Nat
      OBVIOUS
    <3>2. F!Fold(size, base, Append(upTo(n), n + 1)) = ScanBin(size, F!Fold(size, base, upTo(n)), n + 1)
      BY <2>3, <3>1, F!FoldAppend
    <3> QED
      BY <2>3, <3>2
  <2> QED
    BY <2>2, <2>4, <2>5, ScanBinFinds
<1>3. MaxSum \in T
  <2> HIDE DEF T
  <2>1. Nat \subseteq T
    BY <1>1, <1>2, F!SetInduction
  <2> QED
    BY <2>1, DesyncAssumption
<1> QED
  BY <1>3, DesyncAssumption

-----------------------------------------------------------------------------
(* Whom the vote drops                                                     *)

\* The front of the queue of each player in the game is its checksum of the frame compared.
LEMMA FrontIsNextFrame ==
  ASSUME VoteIsSound, NEW p \in Players, NEW c \in 1..MaxSum, EventPlayerKeepAlive(p, c),
         Complete([checkSums EXCEPT ![p] = Append(@, c)]), NEW q \in Live
  PROVE  LET queues == [checkSums EXCEPT ![p] = Append(@, c)]
         IN  /\ judged + 1 <= Len(sums'[q])
             /\ Head(queues[q]) = sums'[q][judged + 1]
             /\ Head(queues[q]) \in 1..MaxSum
<1> DEFINE queues == [checkSums EXCEPT ![p] = Append(@, c)]
<1>0. VoteTypeOK /\ QueuesAligned /\ judged \in Nat
  BY DEF VoteIsSound, VoteTypeOK
<1>1. /\ judged <= Len(sums'[q])
      /\ queues[q] = SubSeq(sums'[q], judged + 1, Len(sums'[q]))
      /\ sums'[q] \in Seq(1..MaxSum)
  BY <1>0, KeepAliveQueues
<1>2. queues[q] # <<>>
  BY DEF Complete
<1> HIDE DEF queues
<1>3. /\ judged + 1 <= Len(sums'[q])
      /\ Head(queues[q]) = sums'[q][judged + 1]
  BY <1>0, <1>1, <1>2, TailSlice
<1>4. judged + 1 \in 1..Len(sums'[q])
  BY <1>0, <1>1, <1>3
<1>5. sums'[q][judged + 1] \in 1..MaxSum
  BY <1>1, <1>4, ElementOfSeq
<1> QED
  BY <1>3, <1>5 DEF queues

\* The scan of a complete frame finds its largest bin.
LEMMA LargestBin ==
  ASSUME IsFiniteSet(Live), NEW queues, NEW r \in Live, Head(queues[r]) \in 1..MaxSum
  PROVE  Found([c \in 1..MaxSum |-> Cardinality(Bin(queues, c))], Scan(queues), 1..MaxSum)
<1> DEFINE size == [c \in 1..MaxSum |-> Cardinality(Bin(queues, c))]
           S == {c \in 1..MaxSum : size[c] > 0}
           first == CHOOSE c \in 1..MaxSum : size[c] > 0 /\ \A d \in 1..(c - 1) : size[d] = 0
<1>1. size \in [1..MaxSum -> Nat]
  <2>1. ASSUME NEW c \in 1..MaxSum PROVE Cardinality(Bin(queues, c)) \in Nat
    <3>1. IsFiniteSet(Bin(queues, c))
      BY FS_Subset DEF Bin
    <3> QED
      BY <3>1, FS_CardinalityType
  <2> QED
    BY <2>1
<1>2. S # {}
  <2>1. IsFiniteSet(Bin(queues, Head(queues[r]))) /\ r \in Bin(queues, Head(queues[r]))
    BY FS_Subset DEF Bin
  <2>2. Cardinality(Bin(queues, Head(queues[r]))) # 0
    BY <2>1, FS_EmptySet
  <2>3. size[Head(queues[r])] # 0
    BY <2>2
  <2> HIDE DEF size
  <2>4. size[Head(queues[r])] \in Nat
    BY <1>1
  <2> QED
    BY <2>3, <2>4
<1>3. S \subseteq Nat
  OBVIOUS
<1>4. \E c \in S : \A d \in S : c <= d
  <2> HIDE DEF S
  <2> QED
    BY <1>2, <1>3, F!LeastElement
<1> HIDE DEF size
<1>5. \E c \in 1..MaxSum : size[c] > 0 /\ \A d \in 1..(c - 1) : size[d] = 0
  <2>1. PICK c \in S : \A d \in S : c <= d
    BY <1>4
  <2>2. ASSUME NEW d \in 1..(c - 1) PROVE size[d] = 0
    <3>1. d \in 1..MaxSum /\ ~(c <= d)
      BY DesyncAssumption
    <3> QED
      BY <1>1, <2>1, <3>1
  <2> QED
    BY <2>1, <2>2
<1>6. first \in 1..MaxSum /\ size[first] > 0
  BY <1>5
<1> HIDE DEF first
<1>7. Found(size, F!Fold(size, [largest |-> first, tied |-> FALSE], [c \in 1..MaxSum |-> c]), 1..MaxSum)
  BY <1>1, <1>6, ScanFinds
<1>8. Scan(queues) = F!Fold(size, [largest |-> first, tied |-> FALSE], [c \in 1..MaxSum |-> c])
  BY Zenon DEF Scan, F!Fold, size, first, FoldLeft, MapThenFoldSet, F!FoldLeft, F!MapThenFoldSet,
               Max, F!Max
<1> QED
  BY <1>7, <1>8 DEF size

\* The vote of a complete frame: for each player it drops who was still in the game, there
\* is a bin with another checksum and no fewer players.
LEMMA LosersAreOutnumbered ==
  ASSUME IsFiniteSet(Live), NEW queues, NEW p \in Live, p \in Losers(queues),
         \A q \in Live : Head(queues[q]) \in 1..MaxSum
  PROVE  \E q \in Live : /\ Head(queues[q]) # Head(queues[p])
                         /\ Cardinality(Bin(queues, Head(queues[q])))
                              >= Cardinality(Bin(queues, Head(queues[p])))
<1> DEFINE size == [c \in 1..MaxSum |-> Cardinality(Bin(queues, c))]
           vote == Scan(queues)
           mine == Head(queues[p])
<1>1. Found(size, vote, 1..MaxSum) /\ mine \in 1..MaxSum
  BY LargestBin
<1>2. SUFFICES ASSUME NEW c \in 1..MaxSum, c # mine, size[c] >= size[mine], size[c] > 0
               PROVE  \E q \in Live : Head(queues[q]) = c
  <2>1. CASE vote.tied
    <3>1. PICK c \in 1..MaxSum : c # vote.largest /\ size[c] = size[vote.largest]
      BY <1>1, <2>1 DEF Found
    <3>2. vote.largest \in 1..MaxSum /\ size[vote.largest] > 0 /\ size[mine] <= size[vote.largest]
      BY <1>1 DEF Found
    <3> HIDE DEF size, vote, mine
    <3>3. \E d \in {c, vote.largest} : d # mine /\ size[d] = size[vote.largest]
      BY <3>1
    <3>4. PICK d \in 1..MaxSum : d # mine /\ size[d] = size[vote.largest]
      BY <3>1, <3>2, <3>3
    <3>5. size[d] >= size[mine] /\ size[d] > 0
      BY <3>2, <3>4
    <3>6. \E q \in Live : Head(queues[q]) = d
      BY <3>4, <3>5, <1>2
    <3> QED
      BY <1>1, <3>4, <3>5, <3>6 DEF size, mine
  <2>2. CASE ~vote.tied
    <3>1. p \in Live \ Bin(queues, vote.largest)
      BY <2>2 DEF Losers
    <3>2. vote.largest # mine
      BY <3>1 DEF Bin
    <3>3. vote.largest \in 1..MaxSum /\ size[vote.largest] > 0 /\ size[mine] <= size[vote.largest]
      BY <1>1 DEF Found
    <3> HIDE DEF size, vote, mine
    <3>4. \E q \in Live : Head(queues[q]) = vote.largest
      BY <3>2, <3>3, <1>2
    <3> QED
      BY <1>1, <3>2, <3>3, <3>4 DEF size, mine
  <2> QED
    BY <2>1, <2>2
<1>3. Bin(queues, c) # {}
  <2>1. size[c] # 0 /\ size[c] = Cardinality(Bin(queues, c))
    BY <1>2
  <2> QED
    BY <2>1, FS_EmptySet
<1> QED
  BY <1>3 DEF Bin

\* Nobody is dropped for a desync by a minority (the step of OnlyMinoritiesDropped).
LEMMA MajorityStep ==
  ASSUME VoteIsSound, [VoteNext]_voteVars, NEW p \in Live, p \in desynced'
  PROVE  \E q \in Live : /\ sums'[q][judged + 1] # sums'[p][judged + 1]
                         /\ Cardinality(Group(q, judged + 1)) >= Cardinality(Group(p, judged + 1))
<1>1. p \notin desynced /\ IsFiniteSet(Live)
  <2>1. Live \subseteq Players
    BY DEF VoteIsSound, VoteTypeOK, Live
  <2> QED
    BY <2>1, FS_Subset, DesyncAssumption DEF VoteIsSound, VoteTypeOK, Live
<1>2. PICK r \in Players, c \in 1..MaxSum : EventPlayerKeepAlive(r, c)
  BY <1>1 DEF VoteNext, Drop, PlayerDeleted, voteVars
<1> DEFINE queues == [checkSums EXCEPT ![r] = Append(@, c)]
<1>3. Complete(queues) /\ p \in Losers(queues)
  BY <1>1, <1>2 DEF EventPlayerKeepAlive
<1>4. ASSUME NEW q \in Live
      PROVE  /\ judged + 1 <= Len(sums'[q])
             /\ Head(queues[q]) = sums'[q][judged + 1]
             /\ Head(queues[q]) \in 1..MaxSum
  BY <1>2, <1>3, FrontIsNextFrame
<1> HIDE DEF queues
<1>5. ASSUME NEW q \in Live PROVE Group(q, judged + 1) = Bin(queues, Head(queues[q]))
  <2>1. \A s \in Live : Len(sums'[s]) >= judged + 1
    BY <1>4
  <2> QED
    BY <1>4, <2>1 DEF Group, Bin
<1>6. PICK q \in Live : /\ Head(queues[q]) # Head(queues[p])
                        /\ Cardinality(Bin(queues, Head(queues[q])))
                             >= Cardinality(Bin(queues, Head(queues[p])))
  BY <1>1, <1>3, <1>4, LosersAreOutnumbered
<1> QED
  BY <1>4, <1>5, <1>6

\* A minority can outvote nobody (EventPlayerKeepAlive): whoever is dropped for a desync was
\* not with the one largest group of the players that were in the game.
THEOREM NoMinorityRule == VoteSpec => OnlyMinoritiesDropped
<1> DEFINE A == \A p \in Live :
                  p \in desynced' =>
                    \E q \in Live : /\ sums'[q][judged + 1] # sums'[p][judged + 1]
                                    /\ Cardinality(Group(q, judged + 1)) >= Cardinality(Group(p, judged + 1))
<1>1. VoteIsSound /\ [VoteNext]_voteVars => A
  BY MajorityStep
<1>2. VoteIsSound /\ [VoteNext]_voteVars => [A]_voteVars
  BY <1>1
<1> QED
  BY <1>2, SoundVote, PTL DEF VoteSpec, OnlyMinoritiesDropped

=============================================================================
