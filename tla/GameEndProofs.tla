--------------------------- MODULE GameEndProofs ---------------------------
(***************************************************************************)
(* Proofs about GameEnd, for any players, teams and faults.                *)
(*                                                                         *)
(* GameInv is about what is decided: the votes that are counted are those  *)
(* that were cast in this vote by players who are still there, so that no  *)
(* step decides anything wrong.  DataInv is about what is written: the     *)
(* pool of connections is sound (PoolOK), each row is asked for once, at   *)
(* its stage (Stages), what is ready is written, and what is not is still  *)
(* asked for (Written), so that a program that waits for its threads loses *)
(* none.                                                                   *)
(***************************************************************************)
EXTENDS GameEnd, FiniteSetTheorems, SequenceTheorems, TLAPS

-----------------------------------------------------------------------------
(* What is decided                                                         *)

FFs(S)   == [allowed : BOOLEAN, team : 0..2, votes : SUBSET S, succeeded : BOOLEAN]
Kicks(S) == [victim : S \cup {Nobody}, votes : SUBSET S]

GameType ==
  /\ status \in [All -> {"in", "marked", "gone"}]
  /\ end \in [loaded : BOOLEAN, early : BOOLEAN, autoClose : BOOLEAN, over : BOOLEAN,
              winner : 0..2]
  /\ kick \in Kicks(Present) /\ ff \in FFs(Present)
  /\ kickers \subseteq Present /\ quitters \subseteq Present
  /\ game \in {"played", "saving", "deleted"} /\ forfeited \in 0..2

\* The votes that are counted are those of this vote, by players who are still there.
VotesCurrent ==
  /\ kick.victim # Nobody => kick.votes = kickers
  /\ ff.team # 0 /\ ~ff.succeeded => ff.votes = quitters

\* The game knows which team has forfeited for as long as it may ask.
ForfeitKnown ==
  /\ forfeited = (IF ff.succeeded THEN ff.team ELSE 0)
  /\ ff.succeeded => ff.team # 0

GameInv == GameType /\ VotesCurrent /\ ForfeitKnown /\ wrong = {}

\* A change of nothing that GameInv is about.
LEMMA GameUnchanged == ASSUME GameInv, UNCHANGED gameVars PROVE GameInv'
BY DEF GameInv, GameType, VotesCurrent, ForfeitKnown, gameVars, kickVars, ffVars, Present

\* Players are marked, which leaves them present.
LEMMA MarkStep ==
  ASSUME GameInv, NEW S \in SUBSET {p \in All : status[p] = "in"},
         status' = [p \in All |-> IF p \in S THEN "marked" ELSE status[p]]
  PROVE  status' \in [All -> {"in", "marked", "gone"}] /\ Present' = Present
BY DEF GameInv, GameType, Present

\* A player who leaves takes part in the votes until it is deleted.
LEMMA LeaveStep ==
  ASSUME GameInv, NEW p \in All, Leave(p) PROVE GameInv'
<1>1. status' = [q \in All |-> IF q \in {p} THEN "marked" ELSE status[q]]
  BY DEF Leave, GameInv, GameType
<1>2. status' \in [All -> {"in", "marked", "gone"}] /\ Present' = Present
  BY <1>1, MarkStep DEF Leave
<1> QED
  BY <1>2 DEF Leave, GameInv, GameType, VotesCurrent, ForfeitKnown, kickVars, ffVars

\* EventPlayerDeleted: whom a vote was about, or who asked for it, is gone with it.
LEMMA DeleteStep ==
  ASSUME GameInv, NEW p \in All, Delete(p) PROVE GameInv'
<1>1. status' \in [All -> {"in", "marked", "gone"}] /\ Present' = Present \ {p}
  BY DEF Delete, GameInv, GameType, Present
<1>2. end' \in [loaded : BOOLEAN, early : BOOLEAN, autoClose : BOOLEAN, over : BOOLEAN, winner : 0..2]
  BY DEF Delete, GameInv, GameType
<1>3. /\ kick' \in Kicks(Present')
      /\ kick'.victim = Nobody /\ kickers' = {} /\ quitters' = {}
  BY <1>1 DEF Delete, GameInv, GameType, Kicks
<1>4. /\ ff' \in FFs(Present')
      /\ ff'.succeeded = ff.succeeded /\ ff'.team = (IF ff.succeeded THEN ff.team ELSE 0)
  <2>1. ff \in FFs(Present) /\ ff.succeeded \in BOOLEAN /\ ff.team \in 0..2 /\ ff.votes \subseteq Present
    BY DEF GameInv, GameType, FFs
  <2>2. ff' = [ff EXCEPT !.team = (IF ff.succeeded THEN ff.team ELSE 0), !.votes = ff.votes \ {p},
                         !.succeeded = ff.succeeded]
    BY <2>1 DEF Delete, FFs
  <2> DEFINE t == IF ff.succeeded THEN ff.team ELSE 0
             v == ff.votes \ {p}
             g == [ff EXCEPT !.team = t, !.votes = v, !.succeeded = ff.succeeded]
  <2>3. v \in SUBSET (Present \ {p}) /\ t \in 0..2
    BY <2>1
  <2> HIDE DEF t, v
  <2>4. g \in FFs(Present \ {p}) /\ g.team = t /\ g.succeeded = ff.succeeded
    BY <2>1, <2>3 DEF FFs
  <2>5. ff' = g
    BY <2>2 DEF t, v
  <2> HIDE DEF g
  <2> QED
    BY <1>1, <2>4, <2>5 DEF t
<1>5. UNCHANGED <<forfeited, game, wrong>>
  BY DEF Delete
<1> QED
  BY <1>1, <1>2, <1>3, <1>4, <1>5 DEF GameInv, GameType, VotesCurrent, ForfeitKnown

\* !votekick starts a vote, with the one who asks for it.
LEMMA VoteKickStep ==
  ASSUME GameInv, NEW p \in All, NEW v \in All, VoteKick(p, v) PROVE GameInv'
<1>1. p \in Present /\ Present' = Present
  BY DEF VoteKick, GameInv, GameType, Present
<1>2. kick' = [victim |-> v, votes |-> {p}] /\ kickers' = {p}
  BY DEF VoteKick
<1>3. UNCHANGED <<status, end, ff, quitters, forfeited, game, wrong>>
  BY DEF VoteKick, ffVars
<1>4. kick' \in Kicks(Present') /\ kick'.votes = kickers'
  BY <1>1, <1>2 DEF VoteKick, Kicks, Present
<1> QED
  BY <1>1, <1>2, <1>3, <1>4 DEF GameInv, GameType, VotesCurrent, ForfeitKnown

\* !yes counts a vote, and kicks when there are enough.
LEMMA YesStep ==
  ASSUME GameInv, NEW p \in All, Yes(p) PROVE GameInv'
<1> DEFINE votes   == kick.votes \cup {p}
           carried == Cardinality(votes) >= VotesNeeded
<1>1. /\ p \in Present /\ kick.victim \in Present /\ kick.victim \in All /\ kick.votes = kickers
      /\ kick' = [victim |-> IF carried THEN Nobody ELSE kick.victim, votes |-> votes]
      /\ status' = IF carried THEN [status EXCEPT ![kick.victim] = "marked"] ELSE status
      /\ kickers' = IF carried THEN {} ELSE votes
      /\ wrong' = wrong
      /\ UNCHANGED <<end, ff, quitters, forfeited, game>>
  BY DEF Yes, GameInv, GameType, VotesCurrent, Present, Kicks, ffVars
<1>2. status' \in [All -> {"in", "marked", "gone"}] /\ Present' = Present
  BY <1>1 DEF GameInv, GameType, Present
<1>3. votes \subseteq Present /\ kick' \in Kicks(Present')
  BY <1>1, <1>2 DEF GameInv, GameType, Kicks
<1>4. kickers' \subseteq Present' /\ (kick'.victim # Nobody => kick'.votes = kickers')
  BY <1>1, <1>2, <1>3
<1> QED
  BY <1>1, <1>2, <1>3, <1>4 DEF GameInv, GameType, VotesCurrent, ForfeitKnown

\* There are finitely many players.
LEMMA FiniteAll == IsFiniteSet(All)
<1> DEFINE n == Len(Players)
<1>1. n \in Nat
  BY GameEndAssumption
<1>2. IsFiniteSet(1..n)
  BY <1>1, FS_Interval
<1>3. Players \in [1..n -> All]
  BY GameEndAssumption DEF All
<1>4. IsFiniteSet(All)
  <2>1. \A p \in All : \E i \in 1..n : Players[i] = p
    BY DEF All
  <2>2. Players \in Surjection(1..n, All)
    BY <1>3, <2>1 DEF Surjection
  <2> HIDE DEF n
  <2> QED
    BY <1>2, <2>2, FS_Surjection
<1> QED
  BY <1>4

\* The first of a team forfeits alone only if nobody else of it is there.
LEMMA ForfeitStep ==
  ASSUME GameInv, NEW p \in All, Forfeit(p) PROVE GameInv'
<1> DEFINE first == ff.team = 0
           votes == IF first THEN {p} ELSE ff.votes \cup {p}
           asked == IF first THEN {p} ELSE quitters \cup {p}
           team  == TeamOf(Team[p])
           done  == IF first THEN Cardinality(team) = 1 ELSE team \subseteq votes
<1>1. /\ p \in Present /\ Team[p] \in {1, 2} /\ ~ff.succeeded /\ p \in team /\ votes = asked
      /\ votes \subseteq Present
  BY GameEndAssumption DEF Forfeit, GameInv, GameType, FFs, VotesCurrent, Present, TeamOf, All
<1>2. /\ ff' = [ff EXCEPT !.team = Team[p], !.votes = votes, !.succeeded = done]
      /\ quitters' = IF done THEN {} ELSE asked
      /\ forfeited' = IF done THEN Team[p] ELSE forfeited
      /\ wrong' = IF done /\ ~(team \subseteq asked) THEN wrong \cup {"forfeit"} ELSE wrong
      /\ UNCHANGED <<status, end, kick, kickers, game>>
  BY DEF Forfeit, kickVars
<1>3. IsFiniteSet(team)
  BY FiniteAll, FS_Subset DEF TeamOf, Present
<1>4. done => team \subseteq asked
  <2>1. ASSUME first, Cardinality(team) = 1 PROVE team \subseteq {p}
    BY <1>1, <1>3, <2>1, FS_Singleton
  <2> QED
    BY <1>1, <2>1
<1>5. done \in BOOLEAN
  OBVIOUS
<1> HIDE DEF votes, asked, team, done
<1>6. /\ ff' \in FFs(Present)
      /\ ff'.team = Team[p] /\ ff'.succeeded = done /\ ff'.votes = votes
  <2> DEFINE g == [ff EXCEPT !.team = Team[p], !.votes = votes, !.succeeded = done]
  <2>1. g \in FFs(Present) /\ g.team = Team[p] /\ g.succeeded = done /\ g.votes = votes
    <3>1. ff \in FFs(Present) /\ Team[p] \in 0..2 /\ votes \in SUBSET Present
      BY <1>1 DEF GameInv, GameType
    <3> QED
      BY <1>5, <3>1 DEF FFs
  <2>2. ff' = g
    BY <1>2
  <2> HIDE DEF g
  <2> QED
    BY <2>1, <2>2
<1>7. /\ wrong' = {} /\ quitters' \subseteq Present /\ (~done => quitters' = votes)
      /\ forfeited' = (IF done THEN Team[p] ELSE 0) /\ forfeited' \in 0..2
  BY <1>1, <1>2, <1>4 DEF GameInv, ForfeitKnown
<1>8. Present' = Present
  BY <1>2 DEF Present
<1> QED
  BY <1>1, <1>2, <1>6, <1>7, <1>8 DEF GameInv, GameType, VotesCurrent, ForfeitKnown

\* The stats class reports a winner once.
LEMMA StatsReportStep ==
  ASSUME GameInv, NEW w \in Reports, StatsReport(w) PROVE GameInv'
<1>1. end' \in [loaded : BOOLEAN, early : BOOLEAN, autoClose : BOOLEAN, over : BOOLEAN, winner : 0..2]
  <2>1. w \in 0..2
    BY GameEndAssumption
  <2>2. end' = [end EXCEPT !.winner = w, !.over = TRUE]
    BY DEF StatsReport
  <2> QED
    BY <2>1, <2>2 DEF GameInv, GameType
<1> QED
  BY <1>1 DEF StatsReport, GameInv, GameType, VotesCurrent, ForfeitKnown, kickVars, ffVars, Present

\* !end removes everybody, and decides nothing.
LEMMA EndCommandStep ==
  ASSUME GameInv, EndCommand PROVE GameInv'
<1> DEFINE S == {p \in All : status[p] = "in"}
<1>1. status' = [p \in All |-> IF p \in S THEN "marked" ELSE status[p]]
  BY DEF EndCommand
<1>2. status' \in [All -> {"in", "marked", "gone"}] /\ Present' = Present
  <2>1. S \in SUBSET {p \in All : status[p] = "in"}
    OBVIOUS
  <2> HIDE DEF S
  <2> QED
    BY <1>1, <2>1, MarkStep
<1> QED
  BY <1>2 DEF EndCommand, GameInv, GameType, VotesCurrent, ForfeitKnown, kickVars, ffVars

\* Time allows a forfeit, and ends the time in which a leaver closes the game.
LEMMA TimePassesStep ==
  ASSUME GameInv, TimePasses PROVE GameInv'
<1>1. UNCHANGED <<status, kick, kickers, quitters, forfeited, game, wrong>> /\ Present' = Present
  BY DEF TimePasses, kickVars, Present
<1>2. end' \in [loaded : BOOLEAN, early : BOOLEAN, autoClose : BOOLEAN, over : BOOLEAN, winner : 0..2]
  BY DEF TimePasses, GameInv, GameType
<1>3. /\ ff' \in FFs(Present)
      /\ ff'.team = ff.team /\ ff'.succeeded = ff.succeeded /\ ff'.votes = ff.votes
  BY DEF TimePasses, GameInv, GameType, FFs
<1> QED
  BY <1>1, <1>2, <1>3 DEF GameInv, GameType, VotesCurrent, ForfeitKnown

\* A vote to forfeit may run out, a forfeit that has succeeded does not.
LEMMA RunTimersStep ==
  ASSUME GameInv, NEW expired \in Timers, RunTimers(expired) PROVE GameInv'
<1> DEFINE S == {p \in All : status[p] = "in" /\ p \in NextToGo(expired) \cup Stopped(expired)}
<1>1. status' \in [All -> {"in", "marked", "gone"}] /\ Present' = Present
  <2>1. status' = [p \in All |-> IF p \in S THEN "marked" ELSE status[p]]
    BY DEF RunTimers
  <2>2. S \in SUBSET {p \in All : status[p] = "in"}
    OBVIOUS
  <2> HIDE DEF S
  <2> QED
    BY <2>1, <2>2, MarkStep
<1>2. end' \in [loaded : BOOLEAN, early : BOOLEAN, autoClose : BOOLEAN, over : BOOLEAN, winner : 0..2]
  <2> DEFINE one == Cardinality(Present) = 1
  <2>1. one \in BOOLEAN /\ AutoClose \in BOOLEAN
    BY GameEndAssumption
  <2>2. end' = [end EXCEPT !.loaded = @ \/ expired = "loading",
                           !.early = IF end.loaded THEN @ /\ ~end.autoClose
                                     ELSE AutoClose /\ expired = "loading",
                           !.autoClose = FALSE,
                           !.over = @ \/ end.autoClose \/ one]
    BY DEF RunTimers
  <2> HIDE DEF one
  <2> QED
    BY <2>1, <2>2 DEF GameInv, GameType
<1>3. kick' \in Kicks(Present) /\ kickers' \subseteq Present /\ (kick'.victim # Nobody => kick'.votes = kickers')
  BY DEF RunTimers, kickVars, GameInv, GameType, Kicks, VotesCurrent
<1>4. /\ ff' \in FFs(Present) /\ quitters' \subseteq Present
      /\ ff'.succeeded = ff.succeeded /\ (ff.succeeded => ff'.team = ff.team)
      /\ (ff'.team # 0 /\ ~ff'.succeeded => ff'.votes = quitters')
  <2>1. CASE expired = "forfeit" /\ ~ff.succeeded
    <3> DEFINE g == [ff EXCEPT !.team = 0]
    <3>1. g \in FFs(Present) /\ g.team = 0 /\ g.succeeded = ff.succeeded
      BY DEF GameInv, GameType, FFs
    <3>2. ff' = g /\ quitters' = {}
      BY <2>1 DEF RunTimers
    <3> HIDE DEF g
    <3> QED
      BY <2>1, <3>1, <3>2
  <2>2. CASE ~(expired = "forfeit" /\ ~ff.succeeded)
    BY <2>2 DEF RunTimers, GameInv, GameType, VotesCurrent
  <2> QED
    BY <2>1, <2>2
<1>5. UNCHANGED <<forfeited, game, wrong>>
  BY DEF RunTimers
<1> QED
  BY <1>1, <1>2, <1>3, <1>4, <1>5 DEF GameInv, GameType, VotesCurrent, ForfeitKnown

\* The game's data is saved; the decision stands.
LEMMA SaveStep ==
  ASSUME GameInv, NEW dead, NEW stuck, Save(dead, stuck) PROVE GameInv'
BY DEF Save, GameInv, GameType, VotesCurrent, ForfeitKnown, kickVars, ffVars, Present

\* The winner that is written is the one the players have decided.
\* The winner that is written is the one the players have decided.
LEMMA DeleteGameStep ==
  ASSUME GameInv, NEW dead, NEW stuck, DeleteGame(dead, stuck) PROVE GameInv'
<1>1. /\ UNCHANGED <<status, kick, kickers, quitters>>
      /\ game' = "deleted" /\ end' = NoEnd /\ ff' = NoForfeit /\ forfeited' = 0
      /\ wrong' = IF Winner = IF forfeited # 0 THEN 3 - forfeited ELSE end.winner
                  THEN wrong ELSE wrong \cup {"result"}
  BY DEF DeleteGame, kickVars
<1>2. wrong' = {}
  BY <1>1 DEF Winner, GameInv, GameType, ForfeitKnown, FFs
<1>3. Present' = Present
  BY <1>1 DEF Present
<1>4. NoForfeit \in FFs(Present) /\ NoForfeit.team = 0 /\ NoForfeit.succeeded = FALSE
  BY DEF NoForfeit, FFs
<1>5. NoEnd \in [loaded : BOOLEAN, early : BOOLEAN, autoClose : BOOLEAN, over : BOOLEAN, winner : 0..2]
  BY DEF NoEnd
<1> QED
  BY <1>1, <1>2, <1>3, <1>4, <1>5 DEF GameInv, GameType, VotesCurrent, ForfeitKnown

\* GameInv holds initially.
LEMMA GameInit == Init => GameInv
<1> SUFFICES ASSUME Init PROVE GameInv
  OBVIOUS
<1>1. Present = All
  BY DEF Init, Present
<1>2. NoForfeit \in FFs(Present) /\ NoForfeit.team = 0 /\ NoForfeit.succeeded = FALSE
  BY DEF NoForfeit, FFs
<1>3. NoKick \in Kicks(Present) /\ NoKick.victim = Nobody
  BY DEF NoKick, Kicks
<1>4. NoEnd \in [loaded : BOOLEAN, early : BOOLEAN, autoClose : BOOLEAN, over : BOOLEAN, winner : 0..2]
  BY DEF NoEnd
<1> QED
  BY <1>1, <1>2, <1>3, <1>4 DEF Init, GameInv, GameType, VotesCurrent, ForfeitKnown

\* GameInv is inductive.
LEMMA GameStep == GameInv /\ [Next]_vars => GameInv'
<1> SUFFICES ASSUME GameInv, [Next]_vars PROVE GameInv'
  OBVIOUS
<1>1. ASSUME NEW p \in All, Leave(p) PROVE GameInv'
  BY <1>1, LeaveStep
<1>2. ASSUME NEW p \in All, Delete(p) PROVE GameInv'
  BY <1>2, DeleteStep
<1>3. ASSUME NEW p \in All, Yes(p) PROVE GameInv'
  BY <1>3, YesStep
<1>4. ASSUME NEW p \in All, Forfeit(p) PROVE GameInv'
  BY <1>4, ForfeitStep
<1>5. ASSUME NEW p \in All, NEW v \in All, VoteKick(p, v) PROVE GameInv'
  BY <1>5, VoteKickStep
<1>6. ASSUME NEW w \in Reports, StatsReport(w) PROVE GameInv'
  BY <1>6, StatsReportStep
<1>7. ASSUME EndCommand PROVE GameInv'
  BY <1>7, EndCommandStep
<1>8. ASSUME TimePasses PROVE GameInv'
  BY <1>8, TimePassesStep
<1>9. ASSUME NEW expired \in Timers, RunTimers(expired) PROVE GameInv'
  BY <1>9, RunTimersStep
<1>10. ASSUME Starts PROVE GameInv'
  <2>1. ASSUME NEW dead, NEW stuck, Query(dead, stuck) PROVE GameInv'
    BY <2>1, GameUnchanged DEF Query
  <2> QED
    BY <1>10, <2>1, SaveStep, DeleteGameStep DEF Starts
<1>11. ASSUME NEW c \in Kinds, Collect(c) \/ Thread(c) PROVE GameInv'
  BY <1>11, GameUnchanged DEF Collect, Thread
<1>12. ASSUME ExitNicely \/ FinishGames \/ \E waited \in BOOLEAN : Exit(waited) PROVE GameInv'
  BY <1>12, GameUnchanged DEF ExitNicely, FinishGames, Exit
<1>13. ASSUME UNCHANGED vars PROVE GameInv'
  BY <1>13, GameUnchanged DEF vars
<1> QED
  BY <1>1, <1>2, <1>3, <1>4, <1>5, <1>6, <1>7, <1>8, <1>9, <1>10, <1>11, <1>12, <1>13
  DEF Next, Running

\* What is decided is what the players decided: a vote carries with the votes of those who
\* were there and took part in it, and the result that is written is the one that was
\* decided, however they leave, expire or forfeit (CGame, EventPlayerDeleted and Update).
THEOREM PlayersDecide == Spec => []DecisionsStand
<1>1. GameInv => DecisionsStand
  BY DEF GameInv, DecisionsStand, VotesAreFair, ForfeitIsRecorded
<1> QED
  BY GameInit, GameStep, <1>1, PTL DEF Spec

-----------------------------------------------------------------------------
(* The pool of connections and what is written                             *)

Calls == [conn : Connections, ready : BOOLEAN, ok : BOOLEAN]

\* A queue of idle connections, a number of connections and callables that are sound.
PoolOK(q, n, cs) ==
  /\ q \in Seq(Connections) /\ n \in Nat
  /\ DOMAIN cs \subseteq Kinds /\ cs \in [DOMAIN cs -> Calls]
  /\ Len(q) + Cardinality(DOMAIN cs) <= n /\ Len(q) <= MaxIdle + 1
  /\ \A i, j \in 1..Len(q) : q[i] = q[j] /\ q[i] # NoConnection => i = j
  /\ \A c \in DOMAIN cs : cs[c].conn # NoConnection =>
       /\ \A i \in 1..Len(q) : q[i] # cs[c].conn
       /\ \A d \in DOMAIN cs \ {c} : cs[d].conn # cs[c].conn

\* What has been asked, at each stage of the game: nothing is asked twice.
Stages ==
  /\ game = "played" => DOMAIN calls \subseteq {"query"}
  /\ game = "saving" => /\ DOMAIN calls \subseteq Range(Data) \cup {"query"}
                        /\ Range(Data) \subseteq DOMAIN calls
  /\ game = "deleted" => DOMAIN calls \subseteq Range(Rows) \cup {"query"}

\* If nothing fails, what is ready is written, and what is not is still being asked.
Written ==
  faults = 0 =>
    /\ \A c \in DOMAIN calls : calls[c].ready => calls[c].ok /\ c \in written
    /\ game = "deleted" => /\ Range(Data) \subseteq written
                           /\ Range(Rows) \subseteq DOMAIN calls \cup written

\* The program ends when nothing is asked any more.
ExitWaits ==
  /\ exit \in {"finished", "exited"} => game = "deleted"
  /\ exit = "exited" /\ ~waitedOut => DOMAIN calls = {}

DataInv ==
  /\ PoolOK(idle, connections, calls) /\ Stages /\ Written /\ ExitWaits
  /\ written \subseteq Kinds /\ faults \in 0..MaxFaults
  /\ game \in {"played", "saving", "deleted"}
  /\ exit \in {"no", "asked", "finished", "exited"} /\ waitedOut \in BOOLEAN
  /\ queries \in 0..MaxQueries

\* There are finitely many kinds of callables.
LEMMA FiniteKinds == IsFiniteSet(Kinds)
<1>1. Kinds = All \cup {"stats"} \cup {"game"} \cup {"replay"} \cup {"query"}
  BY DEF Kinds
<1> QED
  BY <1>1, FiniteAll, FS_AddElement

\* A callable has a new connection to open, whatever is in use: one of the names is free.
LEMMA FreshIsUnused ==
  ASSUME PoolOK(idle, connections, calls), NEW c \in Kinds
  PROVE  Fresh(c) \in Connections /\ Fresh(c) # NoConnection /\ Fresh(c) \notin Used
<1> DEFINE conns == {calls[d].conn : d \in DOMAIN calls}
           k == Cardinality(Used)
           names == {<<c, n>> : n \in 0..k}
<1>1. IsFiniteSet(Range(idle))
  <2>1. idle \in Seq(Connections) /\ Len(idle) \in Nat
    BY DEF PoolOK
  <2>2. idle \in [1..Len(idle) -> Range(idle)]
    BY <2>1 DEF Range
  <2>3. idle \in Surjection(1..Len(idle), Range(idle))
    BY <2>1, <2>2 DEF Range, Surjection
  <2> QED
    BY <2>1, <2>3, FS_Interval, FS_Surjection
<1>2. IsFiniteSet(conns)
  <2>1. IsFiniteSet(DOMAIN calls)
    BY FiniteKinds, FS_Subset DEF PoolOK
  <2> DEFINE f == [d \in DOMAIN calls |-> calls[d].conn]
  <2>2. f \in Surjection(DOMAIN calls, conns)
    BY DEF Surjection
  <2> HIDE DEF f
  <2> QED
    BY <2>1, <2>2, FS_Surjection
<1>3. IsFiniteSet(Used) /\ k \in Nat
  BY <1>1, <1>2, FS_Union, FS_CardinalityType DEF Used
<1>4. IsFiniteSet(names) /\ Cardinality(names) = k + 1
  <2> HIDE DEF k
  <2>1. IsFiniteSet(0..k) /\ Cardinality(0..k) = k + 1
    BY <1>3, FS_Interval
  <2> DEFINE f == [n \in 0..k |-> <<c, n>>]
  <2>2. f \in Surjection(0..k, names)
    BY DEF Surjection
  <2>3. f \in Injection(0..k, names)
    <3>1. f \in [0..k -> names]
      BY <2>2 DEF Surjection
    <3>2. \A m, n \in 0..k : f[m] = f[n] => m = n
      OBVIOUS
    <3> HIDE DEF f
    <3> QED
      BY <3>1, <3>2 DEF Injection, IsInjective
  <2> HIDE DEF f
  <2> QED
    BY <2>1, <2>2, <2>3, FS_Surjection
<1>5. \E h \in names : h \notin Used
  <2>1. SUFFICES ASSUME names \subseteq Used PROVE FALSE
    OBVIOUS
  <2> HIDE DEF names
  <2>2. Cardinality(names) <= k
    BY <1>3, <2>1, FS_Subset
  <2> QED
    BY <1>3, <1>4, <2>2
<1>6. Fresh(c) \in names /\ Fresh(c) \notin Used
  BY <1>5 DEF Fresh
<1>7. \A h \in names : h \in Connections /\ h # NoConnection
  BY <1>3 DEF Connections, NoConnection
<1> QED
  BY <1>6, <1>7

\* Callables that are not asked yet are started, each with a connection of its own.
LEMMA StartSound ==
  ASSUME NEW q, NEW cs, NEW dead, NEW stuck, NEW r, r = Start(q, cs, dead, stuck),
         PoolOK(q.idle, q.connections, q.calls),
         cs \in Seq(Kinds), \A i, j \in 1..Len(cs) : cs[i] = cs[j] => i = j,
         Range(cs) \cap DOMAIN q.calls = {}
  PROVE  /\ PoolOK(r.idle, r.connections, r.calls)
         /\ DOMAIN r.calls = DOMAIN q.calls \cup Range(cs)
         /\ \A c \in DOMAIN q.calls : r.calls[c] = q.calls[c]
         /\ \A c \in Range(cs) : r.calls[c].ready <=> c \in stuck
<1> DEFINE idl == q.idle  n == Len(cs)  l == Len(idl)
           old == q.calls  D == DOMAIN old  R == Range(cs)
           none == {i \in 1..n : Taken(q, cs, i, dead) = NoConnection}
<1>1. /\ idl \in Seq(Connections) /\ l \in Nat /\ n \in Nat /\ q.connections \in Nat
      /\ \A i \in 1..l : idl[i] \in Connections
      /\ \A i \in 1..n : cs[i] \in Kinds
  BY DEF PoolOK
<1>2. /\ r.idle = SubSeq(idl, n + 1, l)
      /\ r.connections = q.connections + Cardinality(none)
      /\ r.calls = Started(q, cs, dead, stuck)
  BY DEF Start
<1>3. /\ r.idle \in Seq(Connections) /\ Len(r.idle) = (IF n <= l THEN l - n ELSE 0)
      /\ \A i \in 1..Len(r.idle) : r.idle[i] = idl[n + i] /\ n + i \in 1..l
  BY <1>1, <1>2, SubSeqProperties
<1>4. R = {cs[i] : i \in 1..n} /\ R \subseteq Kinds
  BY <1>1 DEF Range
<1>5. \A i \in 1..n : (CHOOSE j \in 1..n : cs[j] = cs[i]) = i
  OBVIOUS
<1>6. /\ DOMAIN r.calls = D \cup R
      /\ \A c \in D : r.calls[c] = old[c]
  BY <1>2, <1>4 DEF Started
<1>7. \A i \in 1..n : r.calls[cs[i]] = [conn |-> Taken(q, cs, i, dead), ready |-> cs[i] \in stuck, ok |-> FALSE]
  <2> SUFFICES ASSUME NEW i \in 1..n
               PROVE  r.calls[cs[i]] = [conn |-> Taken(q, cs, i, dead), ready |-> cs[i] \in stuck, ok |-> FALSE]
    OBVIOUS
  <2> DEFINE c == cs[i]
  <2>1. c \in R /\ c \in D \cup R
    BY <1>4
  <2>2. r.calls[c] = [conn |-> Taken(q, cs, CHOOSE j \in 1..n : cs[j] = c, dead),
                      ready |-> c \in stuck, ok |-> FALSE]
    BY <1>2, <2>1 DEF Started
  <2> QED
    BY <1>5, <2>2
<1>8. \A i \in 1..n : /\ Taken(q, cs, i, dead) \in Connections
                      /\ Taken(q, cs, i, dead) # NoConnection => i \in 1..l /\ Taken(q, cs, i, dead) = idl[i]
  BY <1>1 DEF Taken, Connections
<1>9. \A c \in R : \E i \in 1..n : /\ c = cs[i] /\ r.calls[c].conn = Taken(q, cs, i, dead)
                                    /\ r.calls[c] \in Calls /\ (r.calls[c].ready <=> c \in stuck)
  <2> SUFFICES ASSUME NEW i \in 1..n
               PROVE  /\ r.calls[cs[i]].conn = Taken(q, cs, i, dead)
                      /\ r.calls[cs[i]] \in Calls /\ (r.calls[cs[i]].ready <=> cs[i] \in stuck)
    BY <1>4
  <2> DEFINE t == Taken(q, cs, i, dead)  b == cs[i] \in stuck
  <2>1. t \in Connections /\ b \in BOOLEAN
    BY <1>8
  <2>2. r.calls[cs[i]] = [conn |-> t, ready |-> b, ok |-> FALSE]
    BY <1>7
  <2> HIDE DEF t, b
  <2>3. r.calls[cs[i]].conn = t /\ r.calls[cs[i]] \in Calls /\ (r.calls[cs[i]].ready <=> b)
    BY <2>1, <2>2 DEF Calls
  <2> QED
    BY <2>3 DEF t, b
<1>10. /\ DOMAIN r.calls \subseteq Kinds /\ r.calls \in [DOMAIN r.calls -> Calls]
       /\ \A c \in R : r.calls[c].ready <=> c \in stuck
  <2>1. \A c \in R : r.calls[c] \in Calls /\ (r.calls[c].ready <=> c \in stuck)
    BY <1>9
  <2>2. \A c \in D : r.calls[c] \in Calls
    BY <1>6 DEF PoolOK
  <2>3. r.calls = [c \in DOMAIN r.calls |-> r.calls[c]]
    BY <1>2 DEF Started
  <2> QED
    BY <1>4, <1>6, <2>1, <2>2, <2>3 DEF PoolOK
<1>11. IsFiniteSet(D) /\ Cardinality(D) \in Nat /\ Cardinality(D \cup R) = Cardinality(D) + n
  <2>1. IsFiniteSet(D) /\ Cardinality(D) \in Nat
    BY FiniteKinds, FS_Subset, FS_CardinalityType DEF PoolOK
  <2>2. IsFiniteSet(R) /\ Cardinality(R) = n
    <3>1. cs \in Surjection(1..n, R)
      BY <1>1, <1>4 DEF Surjection
    <3>2. cs \in Injection(1..n, R)
      BY <1>1, <1>4 DEF Injection, IsInjective
    <3>3. IsFiniteSet(1..n) /\ Cardinality(1..n) = n
      <4> HIDE DEF n
      <4>1. 1 \in Int /\ n \in Int /\ n \in Nat
        BY <1>1
      <4>2. IsFiniteSet(1..n) /\ Cardinality(1..n) = IF 1 > n THEN 0 ELSE n - 1 + 1
        BY <4>1, FS_Interval
      <4> QED
        BY <4>1, <4>2
    <3> HIDE DEF n
    <3> QED
      BY <3>1, <3>2, <3>3, FS_Surjection
  <2>3. Cardinality(D \cap R) = 0
    BY FS_EmptySet
  <2> HIDE DEF D, R, n
  <2>4. Cardinality(D \cup R) = Cardinality(D) + Cardinality(R) - Cardinality(D \cap R)
    BY <2>1, <2>2, FS_Union
  <2> QED
    BY <1>1, <2>1, <2>2, <2>3, <2>4
<1>12. Cardinality(none) \in Nat /\ Cardinality(none) >= n - l
  <2>1. IsFiniteSet(none)
    <3>1. IsFiniteSet(1..n) /\ none \subseteq 1..n
      BY <1>1, FS_Interval
    <3> HIDE DEF none
    <3> QED
      BY <3>1, FS_Subset
  <2>2. ((l + 1)..n) \subseteq none
    BY <1>1 DEF Taken
  <2>3. Cardinality((l + 1)..n) = IF l + 1 > n THEN 0 ELSE n - (l + 1) + 1
    <3> HIDE DEF l, n
    <3>1. l + 1 \in Int /\ n \in Int
      BY <1>1
    <3> QED
      BY <3>1, FS_Interval
  <2>4. Cardinality((l + 1)..n) <= Cardinality(none) /\ Cardinality(none) \in Nat
    BY <2>1, <2>2, FS_Subset, FS_CardinalityType
  <2> HIDE DEF none
  <2> QED
    BY <1>1, <2>3, <2>4
<1>13. /\ r.connections \in Nat
       /\ Len(r.idle) + Cardinality(DOMAIN r.calls) <= r.connections /\ Len(r.idle) <= MaxIdle + 1
  <2>1. l + Cardinality(D) <= q.connections /\ l <= MaxIdle + 1 /\ MaxIdle \in Nat
    BY CallablesAssumption DEF PoolOK
  <2>2. Cardinality(DOMAIN r.calls) = Cardinality(D) + n
    BY <1>6, <1>11
  <2> HIDE DEF none, D, l, n
  <2> QED
    BY <1>1, <1>2, <1>3, <1>11, <1>12, <2>1, <2>2
<1>14. \A i, j \in 1..Len(r.idle) : r.idle[i] = r.idle[j] /\ r.idle[i] # NoConnection => i = j
  <2>1. \A i, j \in 1..l : idl[i] = idl[j] /\ idl[i] # NoConnection => i = j
    BY DEF PoolOK
  <2> HIDE DEF l, n, idl
  <2> SUFFICES ASSUME NEW i \in 1..Len(r.idle), NEW j \in 1..Len(r.idle),
                      r.idle[i] = r.idle[j], r.idle[i] # NoConnection
               PROVE  i = j
    OBVIOUS
  <2>2. /\ r.idle[i] = idl[n + i] /\ n + i \in 1..l
        /\ r.idle[j] = idl[n + j] /\ n + j \in 1..l
    BY <1>3
  <2>3. n + i = n + j
    BY <2>1, <2>2
  <2>4. i \in Int /\ j \in Int
    OBVIOUS
  <2> QED
    BY <1>1, <2>3, <2>4
<1>15. ASSUME NEW c \in DOMAIN r.calls, r.calls[c].conn # NoConnection
       PROVE  /\ \A i \in 1..Len(r.idle) : r.idle[i] # r.calls[c].conn
              /\ \A d \in DOMAIN r.calls \ {c} : r.calls[d].conn # r.calls[c].conn
  <2>1. CASE c \in D
    <3>1. /\ \A i \in 1..l : idl[i] # old[c].conn
          /\ \A d \in D \ {c} : old[d].conn # old[c].conn
      BY <1>6, <1>15, <2>1 DEF PoolOK
    <3>2. \A d \in R : r.calls[d].conn # r.calls[c].conn
      BY <1>6, <1>8, <1>9, <1>15, <2>1, <3>1
    <3> QED
      BY <1>3, <1>6, <2>1, <3>1, <3>2
  <2>2. CASE c \in R
    <3>1. PICK i \in 1..n : c = cs[i] /\ r.calls[c].conn = idl[i] /\ i \in 1..l
      BY <1>8, <1>9, <1>15, <2>2
    <3>2. \A j \in 1..l : idl[j] = idl[i] => j = i
      BY <1>15, <3>1 DEF PoolOK
    <3>3. \A j \in 1..Len(r.idle) : r.idle[j] # r.calls[c].conn
      BY <1>1, <1>3, <3>1, <3>2
    <3>4. \A d \in D : r.calls[d].conn # r.calls[c].conn
      BY <1>6, <1>15, <3>1 DEF PoolOK
    <3>5. \A d \in R \ {c} : r.calls[d].conn # r.calls[c].conn
      BY <1>8, <1>9, <1>15, <3>1, <3>2
    <3> QED
      BY <1>6, <3>3, <3>4, <3>5
  <2> QED
    BY <1>6, <2>1, <2>2
<1> HIDE DEF none, R
<1> QED
  <2>1. PoolOK(r.idle, r.connections, r.calls)
    BY <1>3, <1>10, <1>13, <1>14, <1>15 DEF PoolOK
  <2> QED
    BY <1>6, <1>10, <2>1 DEF R

\* A callable is recovered: its connection is put back, or closed.
LEMMA RecoverSound ==
  ASSUME NEW q, NEW c, NEW r, r = Recover(q, c),
         PoolOK(q.idle, q.connections, q.calls), c \in DOMAIN q.calls
  PROVE  /\ PoolOK(r.idle, r.connections, r.calls)
         /\ DOMAIN r.calls = DOMAIN q.calls \ {c}
         /\ \A d \in DOMAIN r.calls : r.calls[d] = q.calls[d]
<1> DEFINE idl == q.idle  l == Len(idl)  D == DOMAIN q.calls  k == q.calls[c].conn
<1>1. /\ idl \in Seq(Connections) /\ l \in Nat /\ q.connections \in Nat
      /\ l + Cardinality(D) <= q.connections /\ l <= MaxIdle + 1 /\ MaxIdle \in Nat
  BY CallablesAssumption DEF PoolOK
<1>2. /\ r.calls = [d \in D \ {c} |-> q.calls[d]]
      /\ r.idle = IF l > MaxIdle THEN idl ELSE Append(idl, k)
      /\ r.connections = IF l > MaxIdle THEN q.connections - 1 ELSE q.connections
  BY DEF Recover
<1>3. DOMAIN r.calls = D \ {c} /\ \A d \in D \ {c} : r.calls[d] = q.calls[d]
  BY <1>2
<1>4. r.calls \in [D \ {c} -> Calls] /\ D \subseteq Kinds
  BY <1>2 DEF PoolOK
<1>5. Cardinality(D \ {c}) = Cardinality(D) - 1 /\ Cardinality(D) \in Nat /\ Cardinality(D) >= 1
  <2>1. IsFiniteSet(D)
    BY FiniteKinds, FS_Subset DEF PoolOK
  <2>2. Cardinality(D \ {c}) = Cardinality(D) - 1 /\ Cardinality(D \ {c}) \in Nat /\ Cardinality(D) \in Nat
    BY <2>1, FS_RemoveElement, FS_CardinalityType
  <2> HIDE DEF D
  <2> QED
    BY <2>2
<1>6. /\ k \in Connections
      /\ k # NoConnection => /\ \A i \in 1..l : idl[i] # k
                             /\ \A d \in D \ {c} : q.calls[d].conn # k
  BY DEF PoolOK, Calls
<1>7. CASE l > MaxIdle
  <2>1. r.connections \in Nat /\ Len(r.idle) + Cardinality(D \ {c}) <= r.connections
    <3> HIDE DEF D
    <3> QED
      BY <1>1, <1>2, <1>5, <1>7
  <2> QED
    BY <1>1, <1>2, <1>3, <1>4, <1>7, <2>1 DEF PoolOK
<1>8. CASE ~(l > MaxIdle)
  <2>1. /\ r.idle \in Seq(Connections) /\ Len(r.idle) = l + 1 /\ r.idle[l + 1] = k
        /\ \A i \in 1..l : r.idle[i] = idl[i]
    BY <1>1, <1>2, <1>6, <1>8
  <2>2. r.connections \in Nat /\ Len(r.idle) + Cardinality(D \ {c}) <= r.connections /\ Len(r.idle) <= MaxIdle + 1
    <3> HIDE DEF D
    <3> QED
      BY <1>1, <1>2, <1>5, <1>8, <2>1
  <2>3. \A i, j \in 1..Len(r.idle) : r.idle[i] = r.idle[j] /\ r.idle[i] # NoConnection => i = j
    <3>1. \A i, j \in 1..l : idl[i] = idl[j] /\ idl[i] # NoConnection => i = j
      BY DEF PoolOK
    <3>2. \A i \in 1..(l + 1) : i \in 1..l \/ i = l + 1
      BY <1>1
    <3> QED
      BY <1>6, <2>1, <3>1, <3>2
  <2>4. \A d \in D \ {c} : r.calls[d].conn # NoConnection =>
          /\ \A i \in 1..Len(r.idle) : r.idle[i] # r.calls[d].conn
          /\ \A e \in (D \ {c}) \ {d} : r.calls[e].conn # r.calls[d].conn
    <3>1. \A d \in D : q.calls[d].conn # NoConnection =>
            /\ \A i \in 1..l : idl[i] # q.calls[d].conn
            /\ \A e \in D \ {d} : q.calls[e].conn # q.calls[d].conn
      BY DEF PoolOK
    <3>2. \A i \in 1..(l + 1) : i \in 1..l \/ i = l + 1
      BY <1>1
    <3> QED
      BY <1>3, <2>1, <3>1, <3>2
  <2> QED
    BY <1>3, <1>4, <2>1, <2>2, <2>3, <2>4 DEF PoolOK
<1> QED
  BY <1>3, <1>7, <1>8


\* What is asked for the game, and for its players, is asked once.
LEMMA DataRows ==
  /\ Data \in Seq(Kinds) /\ \A i, j \in 1..Len(Data) : Data[i] = Data[j] => i = j
  /\ Range(Data) = IF Replay THEN {"game", "replay"} ELSE {"game"}
  /\ Rows \in Seq(Kinds) /\ \A i, j \in 1..Len(Rows) : Rows[i] = Rows[j] => i = j
  /\ Range(Rows) = All \cup {"stats"}
  /\ All \cap {"stats", "game", "replay", "query", "earlier"} = {}
<1>1. /\ Players \in Seq(All) /\ Len(Players) \in Nat
      /\ \A i \in 1..Len(Players) : Players[i] \in All
      /\ \A p \in All : \E i \in 1..Len(Players) : p = Players[i]
  BY GameEndAssumption DEF All
<1>2. All \cap {"stats", "game", "replay", "query", "earlier"} = {}
  BY GameEndAssumption DEF All
<1>3. /\ Data \in Seq(Kinds) /\ \A i, j \in 1..Len(Data) : Data[i] = Data[j] => i = j
      /\ Range(Data) = IF Replay THEN {"game", "replay"} ELSE {"game"}
  <2>1. CASE Replay
    <3>1. Data = <<"game", "replay">>
      BY <2>1 DEF Data
    <3>2. /\ Len(Data) = 2 /\ DOMAIN Data = {1, 2}
          /\ Data[1] = "game" /\ Data[2] = "replay" /\ Data \in Seq(Kinds)
      BY <3>1 DEF Kinds
    <3>3. Range(Data) = {"game", "replay"}
      BY <3>2 DEF Range
    <3> QED
      BY <2>1, <3>2, <3>3
  <2>2. CASE ~Replay
    <3>1. Data = <<"game">>
      BY <2>2 DEF Data
    <3>2. Len(Data) = 1 /\ DOMAIN Data = {1} /\ Data[1] = "game" /\ Data \in Seq(Kinds)
      BY <3>1 DEF Kinds
    <3>3. Range(Data) = {"game"}
      BY <3>2 DEF Range
    <3> QED
      BY <2>2, <3>2, <3>3
  <2> QED
    BY <2>1, <2>2
<1>4. /\ Len(Rows) = Len(Players) + 1 /\ Rows \in Seq(Kinds)
      /\ \A i \in 1..Len(Players) : Rows[i] = Players[i]
      /\ Rows[Len(Players) + 1] = "stats"
  <2>1. Players \in Seq(Kinds) /\ <<"stats">> \in Seq(Kinds)
    BY <1>1 DEF Kinds
  <2> QED
    BY <1>1, <2>1 DEF Rows
<1>5. \A i \in 1..Len(Rows) : i \in 1..Len(Players) \/ i = Len(Players) + 1
  BY <1>1, <1>4
<1>6. \A i, j \in 1..Len(Rows) : Rows[i] = Rows[j] => i = j
  BY <1>1, <1>2, <1>4, <1>5, GameEndAssumption
<1>7. Range(Rows) = All \cup {"stats"}
  <2>1. Range(Rows) = {Rows[i] : i \in 1..Len(Rows)}
    BY <1>4 DEF Range
  <2>2. \A p \in All \cup {"stats"} : \E i \in 1..Len(Rows) : p = Rows[i]
    <3>1. \A i \in 1..Len(Players) : i \in 1..Len(Rows)
      BY <1>1, <1>4
    <3>2. Len(Players) + 1 \in 1..Len(Rows)
      BY <1>1, <1>4
    <3> QED
      BY <1>1, <1>4, <3>1, <3>2
  <2>3. \A i \in 1..Len(Rows) : Rows[i] \in All \cup {"stats"}
    BY <1>1, <1>4, <1>5
  <2> QED
    BY <2>1, <2>2, <2>3
<1> QED
  BY <1>2, <1>3, <1>4, <1>6, <1>7

\* What Starts may break: one connection, or one thread.
Faulty == {{}} \cup {{c} : c \in Kinds}

\* If no fault is counted, there is none.
LEMMA CountedFaults ==
  ASSUME DataInv, NEW dead \in Faulty, NEW stuck \in Faulty, Count(dead, stuck)
  PROVE  faults' \in 0..MaxFaults /\ (faults' = 0 => faults = 0 /\ stuck = {})
<1>1. \A S \in Faulty : Cardinality(S) \in Nat /\ (Cardinality(S) = 0 => S = {})
  BY FS_EmptySet, FS_Singleton DEF Faulty
<1>2. faults \in Nat /\ MaxFaults \in Nat
  BY CallablesAssumption DEF DataInv
<1>3. Cardinality(dead) \in Nat /\ Cardinality(stuck) \in Nat /\ (Cardinality(stuck) = 0 => stuck = {})
  BY <1>1
<1>4. faults' = faults + Cardinality(dead) + Cardinality(stuck) /\ faults' <= MaxFaults
  BY DEF Count
<1> QED
  BY <1>2, <1>3, <1>4

\* A change of nothing that DataInv is about.
LEMMA DataUnchanged ==
  ASSUME DataInv, UNCHANGED <<game, exit, waitedOut, queries, dbVars>> PROVE DataInv'
BY DEF DataInv, Stages, Written, ExitWaits, dbVars

\* DataInv holds initially.
LEMMA DataInit == Init => DataInv
<1> SUFFICES ASSUME Init PROVE DataInv
  OBVIOUS
<1>1. /\ idle = [i \in 1..Earlier |-> <<"earlier", i>>] /\ connections = Earlier
      /\ calls = <<>> /\ written = {} /\ faults = 0
  BY DEF Init, InitCallables
<1>2. Earlier \in Nat /\ MaxIdle \in Nat /\ MaxFaults \in Nat /\ Earlier <= MaxIdle + 1
  BY CallablesAssumption
<1>3. idle \in Seq(Connections) /\ Len(idle) = Earlier
  BY <1>1, <1>2 DEF Connections
<1>4. DOMAIN calls = {} /\ Cardinality(DOMAIN calls) = 0 /\ calls \in [{} -> Calls]
  BY <1>1, FS_EmptySet
<1>5. PoolOK(idle, connections, calls)
  BY <1>1, <1>2, <1>3, <1>4 DEF PoolOK
<1> QED
  <2>1. game = "played" /\ exit = "no" /\ waitedOut = FALSE /\ queries = 0 /\ MaxQueries \in Nat
    BY GameEndAssumption DEF Init
  <2>2. queries \in 0..MaxQueries /\ faults \in 0..MaxFaults
    BY <1>1, <1>2, <2>1
  <2> QED
    BY <1>1, <1>4, <1>5, <2>1, <2>2 DEF DataInv, Stages, Written, ExitWaits


\* The game and its replay are asked to be written, after the players have gone.
LEMMA SaveData ==
  ASSUME DataInv, NEW dead \in Faulty, NEW stuck \in Faulty, Save(dead, stuck) PROVE DataInv'
<1> DEFINE r == Start(Pool, Data, dead, stuck)
<1>1. /\ idle' = r.idle /\ connections' = r.connections /\ calls' = r.calls
      /\ game = "played" /\ game' = "saving"
      /\ UNCHANGED <<written, exit, waitedOut, queries>> /\ Count(dead, stuck)
  BY DEF Save, Become, exitVars
<1>2. DOMAIN calls \subseteq {"query"} /\ PoolOK(Pool.idle, Pool.connections, Pool.calls) /\ Pool.calls = calls
  BY <1>1 DEF DataInv, Stages, Pool
<1>3. Range(Data) \cap DOMAIN Pool.calls = {} /\ Range(Data) \subseteq {"game", "replay"}
  BY <1>2, DataRows
<1>4. /\ PoolOK(r.idle, r.connections, r.calls)
      /\ DOMAIN r.calls = DOMAIN calls \cup Range(Data)
      /\ \A c \in DOMAIN calls : r.calls[c] = calls[c]
      /\ \A c \in Range(Data) : r.calls[c].ready <=> c \in stuck
  <2> HIDE DEF r
  <2>1. r = Start(Pool, Data, dead, stuck)
    BY DEF r
  <2> QED
    BY <1>2, <1>3, <2>1, DataRows, StartSound
<1>5. faults' \in 0..MaxFaults /\ (faults' = 0 => faults = 0 /\ stuck = {})
  BY <1>1, CountedFaults
<1> HIDE DEF r
<1>6. Written'
  <2> SUFFICES ASSUME faults' = 0, NEW c \in DOMAIN calls', calls'[c].ready
               PROVE  calls'[c].ok /\ c \in written'
    BY <1>1 DEF Written
  <2>1. c \in DOMAIN calls /\ calls'[c] = calls[c]
    BY <1>1, <1>4, <1>5
  <2> QED
    BY <1>1, <1>5, <2>1 DEF DataInv, Written
<1>7. Stages' /\ ExitWaits'
  BY <1>1, <1>2, <1>4 DEF DataInv, Stages, ExitWaits
<1> QED
  BY <1>1, <1>4, <1>5, <1>6, <1>7 DEF DataInv

\* The players are asked to be written if the game was, and then it is recovered, and its
\* replay.
LEMMA DeleteGameData ==
  ASSUME DataInv, NEW dead \in Faulty, NEW stuck \in Faulty, DeleteGame(dead, stuck) PROVE DataInv'
<1> DEFINE good == calls["game"].ok
           a == IF good THEN Start(Pool, Rows, dead, stuck) ELSE Pool
           b == Recover(a, "game")
           r == IF Replay THEN Recover(b, "replay") ELSE b
<1>1. /\ idle' = r.idle /\ connections' = r.connections /\ calls' = r.calls
      /\ game = "saving" /\ game' = "deleted" /\ \A c \in Range(Data) : IsReady(c)
      /\ UNCHANGED <<written, exit, waitedOut, queries>> /\ Count(dead, stuck)
  BY DEF DeleteGame, Finish, Become, exitVars
<1>2. /\ DOMAIN calls \subseteq Range(Data) \cup {"query"} /\ Range(Data) \subseteq DOMAIN calls
      /\ PoolOK(Pool.idle, Pool.connections, Pool.calls) /\ Pool.calls = calls
  BY <1>1 DEF DataInv, Stages, Pool
<1>3. Range(Rows) \cap DOMAIN Pool.calls = {} /\ Range(Rows) \cap Range(Data) = {}
  BY <1>2, DataRows
<1>4. /\ PoolOK(a.idle, a.connections, a.calls)
      /\ DOMAIN a.calls = DOMAIN calls \cup (IF good THEN Range(Rows) ELSE {})
      /\ \A c \in DOMAIN calls : a.calls[c] = calls[c]
      /\ \A c \in Range(Rows) : c \in DOMAIN a.calls => (a.calls[c].ready <=> c \in stuck)
  <2>1. CASE good
    <3>1. a = Start(Pool, Rows, dead, stuck)
      BY <2>1
    <3> HIDE DEF a, good
    <3> QED
      BY <1>2, <1>3, <2>1, <3>1, DataRows, StartSound
  <2>2. CASE ~good
    <3>1. a = Pool
      BY <2>2
    <3> HIDE DEF a, good
    <3> QED
      BY <1>2, <1>3, <2>2, <3>1
  <2> QED
    BY <2>1, <2>2
<1> HIDE DEF a, good
<1>5. /\ PoolOK(b.idle, b.connections, b.calls)
      /\ DOMAIN b.calls = DOMAIN a.calls \ {"game"} /\ \A c \in DOMAIN b.calls : b.calls[c] = a.calls[c]
  <2>1. "game" \in DOMAIN a.calls /\ b = Recover(a, "game")
    BY <1>2, <1>4, DataRows
  <2> HIDE DEF b
  <2> QED
    BY <1>4, <2>1, RecoverSound
<1> HIDE DEF b
<1>6. /\ PoolOK(r.idle, r.connections, r.calls)
      /\ DOMAIN r.calls = DOMAIN a.calls \ Range(Data) /\ \A c \in DOMAIN r.calls : r.calls[c] = a.calls[c]
  <2>1. CASE Replay
    <3>1. "replay" \in DOMAIN b.calls /\ r = Recover(b, "replay") /\ Range(Data) = {"game", "replay"}
      BY <1>2, <1>4, <1>5, <2>1, DataRows
    <3> HIDE DEF r
    <3>2. /\ PoolOK(r.idle, r.connections, r.calls)
          /\ DOMAIN r.calls = DOMAIN b.calls \ {"replay"} /\ \A c \in DOMAIN r.calls : r.calls[c] = b.calls[c]
      BY <1>5, <3>1, RecoverSound
    <3> QED
      BY <1>5, <3>1, <3>2
  <2>2. CASE ~Replay
    BY <1>5, <2>2, DataRows
  <2> QED
    BY <2>1, <2>2
<1> HIDE DEF r
<1>7. faults' \in 0..MaxFaults /\ (faults' = 0 => faults = 0 /\ stuck = {})
  BY <1>1, CountedFaults
<1>8. /\ DOMAIN calls' = (DOMAIN calls \cup (IF good THEN Range(Rows) ELSE {})) \ Range(Data)
      /\ \A c \in DOMAIN calls' : c \in DOMAIN calls => calls'[c] = calls[c]
      /\ \A c \in DOMAIN calls' : c \in Range(Rows) => (calls'[c].ready <=> c \in stuck)
  BY <1>1, <1>4, <1>6
<1>9. Written'
  <2> SUFFICES ASSUME faults' = 0
               PROVE  /\ \A c \in DOMAIN calls' : calls'[c].ready => calls'[c].ok /\ c \in written'
                      /\ Range(Data) \subseteq written' /\ Range(Rows) \subseteq DOMAIN calls' \cup written'
    BY DEF Written
  <2>1. \A c \in DOMAIN calls : calls[c].ready => calls[c].ok /\ c \in written
    BY <1>7 DEF DataInv, Written
  <2>2. Range(Data) \subseteq written /\ good
    BY <1>1, <1>2, <2>1, DataRows DEF IsReady, good
  <2>3. Range(Rows) \subseteq DOMAIN calls'
    BY <1>3, <1>8, <2>2
  <2>4. \A c \in DOMAIN calls' : c \in DOMAIN calls \/ c \in Range(Rows)
    BY <1>8
  <2> QED
    BY <1>1, <1>7, <1>8, <2>1, <2>2, <2>3, <2>4
<1>10. Stages' /\ ExitWaits'
  BY <1>1, <1>2, <1>8 DEF DataInv, Stages, ExitWaits
<1> QED
  BY <1>1, <1>6, <1>7, <1>9, <1>10 DEF DataInv

\* A command starts a query, which is not one of the game's own callables.
LEMMA QueryData ==
  ASSUME DataInv, NEW dead \in Faulty, NEW stuck \in Faulty, Query(dead, stuck) PROVE DataInv'
<1> DEFINE cs == <<"query">>
           r == Start(Pool, cs, dead, stuck)
<1>1. /\ idle' = r.idle /\ connections' = r.connections /\ calls' = r.calls
      /\ exit = "no" \/ game # "deleted"
      /\ "query" \notin DOMAIN calls /\ queries < MaxQueries /\ queries' = queries + 1
      /\ UNCHANGED <<written, game, exit, waitedOut>> /\ Count(dead, stuck)
  BY DEF Query, Become, gameVars
<1>2. PoolOK(Pool.idle, Pool.connections, Pool.calls) /\ Pool.calls = calls
  BY DEF DataInv, Pool
<1>3. Range(cs) = {"query"} /\ cs \in Seq(Kinds) /\ \A i, j \in 1..Len(cs) : cs[i] = cs[j] => i = j
  <2>1. DOMAIN cs = {1} /\ cs[1] = "query" /\ Len(cs) = 1 /\ cs \in Seq(Kinds)
    BY DEF Kinds
  <2> QED
    BY <2>1 DEF Range
<1>4. /\ PoolOK(r.idle, r.connections, r.calls)
      /\ DOMAIN r.calls = DOMAIN calls \cup {"query"}
      /\ \A c \in DOMAIN calls : r.calls[c] = calls[c]
      /\ r.calls["query"].ready <=> "query" \in stuck
  <2>1. r = Start(Pool, cs, dead, stuck) /\ Range(cs) \cap DOMAIN Pool.calls = {}
    BY <1>1, <1>2, <1>3
  <2> HIDE DEF r, cs
  <2> QED
    BY <1>2, <1>3, <2>1, StartSound
<1>5. faults' \in 0..MaxFaults /\ (faults' = 0 => faults = 0 /\ stuck = {})
  BY <1>1, CountedFaults
<1>6. queries' \in 0..MaxQueries
  BY <1>1, GameEndAssumption DEF DataInv
<1> HIDE DEF r
<1>7. Written'
  <2> SUFFICES ASSUME faults' = 0
               PROVE  /\ \A c \in DOMAIN calls' : calls'[c].ready => calls'[c].ok /\ c \in written'
                      /\ game' = "deleted" => /\ Range(Data) \subseteq written'
                                              /\ Range(Rows) \subseteq DOMAIN calls' \cup written'
    BY DEF Written
  <2> QED
    BY <1>1, <1>4, <1>5 DEF DataInv, Written
<1>8. Stages' /\ ExitWaits'
  BY <1>1, <1>4 DEF DataInv, Stages, ExitWaits
<1> QED
  BY <1>1, <1>4, <1>5, <1>6, <1>7, <1>8 DEF DataInv

\* A callable that is ready is collected: its result is used and its connection goes back.
LEMMA CollectData ==
  ASSUME DataInv, NEW c \in Kinds, Collect(c) PROVE DataInv'
<1> DEFINE r == Recover(Pool, c)
<1>1. /\ idle' = r.idle /\ connections' = r.connections /\ calls' = r.calls
      /\ c \in DOMAIN calls /\ calls[c].ready /\ c \notin {"game", "replay"}
      /\ UNCHANGED <<written, faults, game, exit, waitedOut, queries>>
  BY DEF Collect, IsReady, Become, gameVars, exitVars
<1>2. PoolOK(Pool.idle, Pool.connections, Pool.calls) /\ Pool.calls = calls
  BY DEF DataInv, Pool
<1>3. /\ PoolOK(r.idle, r.connections, r.calls)
      /\ DOMAIN r.calls = DOMAIN calls \ {c} /\ \A d \in DOMAIN r.calls : r.calls[d] = calls[d]
  <2>1. r = Recover(Pool, c)
    OBVIOUS
  <2> HIDE DEF r
  <2> QED
    BY <1>1, <1>2, <2>1, RecoverSound
<1> HIDE DEF r
<1>4. c \notin Range(Data)
  BY <1>1, DataRows
<1>5. Written'
  BY <1>1, <1>3 DEF DataInv, Written
<1>6. Stages' /\ ExitWaits'
  BY <1>1, <1>3, <1>4 DEF DataInv, Stages, ExitWaits
<1> QED
  BY <1>1, <1>3, <1>5, <1>6 DEF DataInv


\* A thread is done: the connection it had to open is nobody else's.
LEMMA ThreadData ==
  ASSUME DataInv, NEW c \in Kinds, Thread(c) PROVE DataInv'
<1>1. PICK dead \in BOOLEAN, ok \in BOOLEAN :
        /\ dead => calls[c].conn # NoConnection
        /\ Count(IF dead THEN {c} ELSE {}, IF ok THEN {} ELSE {c})
        /\ calls' = [calls EXCEPT ![c] =
                       [conn |-> IF dead \/ @.conn = NoConnection THEN Fresh(c) ELSE @.conn,
                        ready |-> TRUE, ok |-> ok]]
        /\ written' = IF ok THEN written \cup {c} ELSE written
  BY DEF Thread, Run
<1>2. /\ c \in DOMAIN calls /\ ~calls[c].ready
      /\ UNCHANGED <<idle, connections, game, exit, waitedOut, queries>>
  BY DEF Thread, Run, gameVars, exitVars
<1>3. PoolOK(idle, connections, calls)
  BY DEF DataInv
<1> DEFINE k == IF dead \/ calls[c].conn = NoConnection THEN Fresh(c) ELSE calls[c].conn
<1>4. /\ k \in Connections
      /\ \A i \in 1..Len(idle) : idle[i] # k \/ k = NoConnection
      /\ \A d \in DOMAIN calls \ {c} : calls[d].conn # k \/ k = NoConnection
  <2>1. CASE dead \/ calls[c].conn = NoConnection
    <3>1. k = Fresh(c) /\ k \in Connections /\ k \notin Used
      BY <1>3, <2>1, FreshIsUnused
    <3>2. \A i \in 1..Len(idle) : idle[i] \in Used
      <4>1. DOMAIN idle = 1..Len(idle)
        BY <1>3 DEF PoolOK
      <4> QED
        BY <4>1 DEF Used, Range
    <3>3. \A d \in DOMAIN calls : calls[d].conn \in Used
      BY DEF Used
    <3> HIDE DEF k
    <3> QED
      BY <3>1, <3>2, <3>3
  <2>2. CASE ~(dead \/ calls[c].conn = NoConnection)
    BY <1>2, <1>3, <2>2 DEF PoolOK, Calls
  <2> QED
    BY <2>1, <2>2
<1>5. calls' = [calls EXCEPT ![c] = [conn |-> k, ready |-> TRUE, ok |-> ok]]
  BY <1>1
<1> HIDE DEF k
<1>6. /\ DOMAIN calls' = DOMAIN calls /\ calls' \in [DOMAIN calls -> Calls]
      /\ calls'[c].conn = k /\ calls'[c].ready = TRUE /\ calls'[c].ok = ok
      /\ \A d \in DOMAIN calls \ {c} : calls'[d] = calls[d]
  <2>1. [conn |-> k, ready |-> TRUE, ok |-> ok] \in Calls
    BY <1>4 DEF Calls
  <2>2. calls \in [DOMAIN calls -> Calls]
    BY <1>3 DEF PoolOK
  <2> QED
    BY <1>2, <1>5, <2>1, <2>2
<1>7. PoolOK(idle', connections', calls')
  <2>1. \A d \in DOMAIN calls' : calls'[d].conn # NoConnection =>
          /\ \A i \in 1..Len(idle) : idle[i] # calls'[d].conn
          /\ \A e \in DOMAIN calls' \ {d} : calls'[e].conn # calls'[d].conn
    <3>1. \A d \in DOMAIN calls : calls[d].conn # NoConnection =>
            /\ \A i \in 1..Len(idle) : idle[i] # calls[d].conn
            /\ \A e \in DOMAIN calls \ {d} : calls[e].conn # calls[d].conn
      BY <1>3 DEF PoolOK
    <3> QED
      BY <1>4, <1>6, <3>1
  <2> QED
    BY <1>2, <1>3, <1>6, <2>1 DEF PoolOK
<1>8. faults' \in 0..MaxFaults /\ (faults' = 0 => faults = 0 /\ ok)
  <2> DEFINE D == IF dead THEN {c} ELSE {}
             S == IF ok THEN {} ELSE {c}
  <2>1. D \in Faulty /\ S \in Faulty /\ (S = {} => ok)
    BY DEF Faulty
  <2>2. Count(D, S)
    BY <1>1
  <2> HIDE DEF D, S
  <2> QED
    BY <2>1, <2>2, CountedFaults
<1>9. Written'
  BY <1>1, <1>2, <1>6, <1>8 DEF DataInv, Written
<1>10. Stages' /\ ExitWaits'
  BY <1>2, <1>6 DEF DataInv, Stages, ExitWaits
<1>11. written' \subseteq Kinds
  BY <1>1 DEF DataInv
<1> QED
  BY <1>2, <1>7, <1>8, <1>9, <1>10, <1>11 DEF DataInv

\* DataInv is inductive.
LEMMA DataStep == DataInv /\ [Next]_vars => DataInv'
<1> SUFFICES ASSUME DataInv, [Next]_vars PROVE DataInv'
  OBVIOUS
<1>1. ASSUME NEW p \in All, Leave(p) \/ Delete(p) \/ Yes(p) \/ Forfeit(p) \/ \E v \in All : VoteKick(p, v)
      PROVE  DataInv'
  BY <1>1, DataUnchanged DEF Leave, Delete, Yes, Forfeit, VoteKick, exitVars
<1>2. ASSUME (\E w \in Reports : StatsReport(w)) \/ EndCommand \/ TimePasses PROVE DataInv'
  BY <1>2, DataUnchanged DEF StatsReport, EndCommand, TimePasses, exitVars
<1>3. ASSUME NEW expired \in Timers, RunTimers(expired) PROVE DataInv'
  BY <1>3, DataUnchanged DEF RunTimers, exitVars
<1>4. ASSUME Starts PROVE DataInv'
  <2>1. PICK dead \in Faulty, stuck \in Faulty :
          Save(dead, stuck) \/ DeleteGame(dead, stuck) \/ Query(dead, stuck)
    BY <1>4 DEF Starts, Faulty
  <2> QED
    BY <2>1, SaveData, DeleteGameData, QueryData
<1>5. ASSUME NEW c \in Kinds, Collect(c) \/ Thread(c) PROVE DataInv'
  BY <1>5, CollectData, ThreadData
<1>6. ASSUME ExitNicely PROVE DataInv'
  BY <1>6 DEF ExitNicely, DataInv, Stages, Written, ExitWaits, gameVars, dbVars
<1>7. ASSUME FinishGames PROVE DataInv'
  BY <1>7 DEF FinishGames, DataInv, Stages, Written, ExitWaits, gameVars, dbVars
<1>8. ASSUME NEW waited \in BOOLEAN, Exit(waited) PROVE DataInv'
  BY <1>8 DEF Exit, DataInv, Stages, Written, ExitWaits, gameVars, dbVars
<1>9. ASSUME UNCHANGED vars PROVE DataInv'
  BY <1>9, DataUnchanged DEF vars, gameVars, exitVars
<1> QED
  BY <1>1, <1>2, <1>3, <1>4, <1>5, <1>6, <1>7, <1>8, <1>9 DEF Next, Running

\* When the program has waited for its threads and nothing has failed, the game, its replay,
\* its players and its result are written (CGHost::Update, CGame::SaveGameData, ~CGame).
THEOREM EverythingIsWritten == Spec => []NothingIsLost
<1>1. DataInv => NothingIsLost
  BY DEF DataInv, Written, ExitWaits, NothingIsLost
<1> QED
  BY DataInit, DataStep, <1>1, PTL DEF Spec

\* No connection is used by two threads, and the number of connections counts them all,
\* whatever dies, is stuck or fails (CGHostDBMySQL, its callables and their recovery).
THEOREM PoolAlwaysSound == Spec => []PoolIsSound
<1>1. GameInv /\ DataInv => PoolIsSound
  <2> SUFFICES ASSUME GameInv, DataInv PROVE PoolIsSound
    OBVIOUS
  <2>1. OneThreadPerConnection /\ ConnectionsCounted
    BY DEF DataInv, PoolOK, OneThreadPerConnection, ConnectionsCounted
  <2>2. Range(idle) \subseteq Connections
    <3>1. DOMAIN idle = 1..Len(idle) /\ \A i \in 1..Len(idle) : idle[i] \in Connections
      BY DEF DataInv, PoolOK
    <3> QED
      BY <3>1 DEF Range
  <2>3. \A c \in DOMAIN calls : calls[c].conn \in Connections /\ calls[c].ready \in BOOLEAN
    BY DEF DataInv, PoolOK, Calls
  <2>4. /\ kick.victim \in All \cup {Nobody} /\ kick.votes \subseteq Present
        /\ ff.votes \subseteq Present /\ ff.team \in 0..2 /\ {ff.allowed, ff.succeeded} \subseteq BOOLEAN
    BY DEF GameInv, GameType, Kicks, FFs, Present
  <2>5. TypeOK
    BY <2>2, <2>3, <2>4 DEF TypeOK, GameInv, GameType, DataInv, PoolOK
  <2> QED
    BY <2>1, <2>5 DEF PoolIsSound
<1> QED
  BY GameInit, GameStep, DataInit, DataStep, <1>1, PTL DEF Spec

=============================================================================
