------------------------------ MODULE GameEnd ------------------------------
(***************************************************************************)
(* How a game ends (CBaseGame::Update, CGame) and what becomes of its      *)
(* data, which is written by Callables, also when the program is asked to  *)
(* exit nicely meanwhile (CGHost::Update).                                 *)
(*                                                                         *)
(* Players leave, vote to kick one of them, or forfeit as a team; the      *)
(* statistics report a winner; a timer runs; the last one goes; the game   *)
(* is written, then deleted, and only then are its players written.        *)
(*                                                                         *)
(* A timer may be found to have run out at any time after it is set, and   *)
(* is in the end.                                                          *)
(***************************************************************************)
EXTENDS Callables

CONSTANTS
  Players,     \* who was in the game when it was started, in their order
  Team,        \* of each player: 1 or 2
  Reserved,    \* players who cannot be voted out
  Percentage,  \* m_VoteKickPercentage
  AutoClose,   \* m_AutoCloseAfterLeave
  Replay,      \* is a replay written?
  Reports,     \* bound: the winners that the statistics may report
  MaxQueries   \* bound: queries of others

\* (A callable is known by a player's name or by one of these words, hence no player has one.)
ASSUME GameEndAssumption ==
  /\ Players \in Seq(STRING \ {"nobody", "stats", "game", "replay", "query", "earlier"})
  /\ \A i, j \in 1..Len(Players) : Players[i] = Players[j] => i = j
  /\ Team \in [{Players[i] : i \in 1..Len(Players)} -> {1, 2}]
  /\ Reserved \subseteq {Players[i] : i \in 1..Len(Players)}
  /\ Percentage \in 0..100 /\ AutoClose \in BOOLEAN /\ Replay \in BOOLEAN
  /\ Reports \subseteq {1, 2} /\ MaxQueries \in Nat

VARIABLES
  status,      \* of each player: "in", "marked" (m_DeleteMe) or "gone"
  end,         \* loaded: m_GameLoaded; early: is a leaver still a reason to close the
               \* game (m_AutoCloseTime); autoClose: m_AutoClose; over: m_GameOverTime # 0;
               \* winner: CStatsDOTA::m_Winner
  kick,        \* victim: m_KickVotePlayer; votes: whose m_KickVote is set
  ff,          \* allowed: m_ForfeitDelayTime has passed; team: m_FFTeam; votes: whose
               \* m_FFVote is set; succeeded: m_FFSucceeded
  game,        \* "played", "saving" (m_Saving) or "deleted"
  exit,        \* "no", "asked" (m_ExitingNice), "finished" (m_AllGamesFinished), "exited"
  \* history
  kickers,     \* who has voted to kick this victim, since the vote was started
  quitters,    \* who has voted to forfeit, since the vote was started
  forfeited,   \* the team that has forfeited
  wrong,       \* what was decided wrongly: "kick", "forfeit", the "result"
  waitedOut,   \* was the time for the threads to finish used up?
  queries      \* how many queries of others there were

kickVars == <<kick, kickers>>
ffVars   == <<ff, quitters, forfeited>>
gameVars == <<status, end, kickVars, ffVars, game, wrong>>
exitVars == <<exit, waitedOut, queries>>
vars == <<gameVars, exitVars, dbVars>>

Nobody == "nobody"
All == {Players[i] : i \in 1..Len(Players)}

\* m_Players
Present == {p \in All : status[p] # "gone"}
TeamOf(t) == {p \in Present : Team[p] = t}

NoEnd     == [loaded |-> FALSE, early |-> FALSE, autoClose |-> FALSE, over |-> FALSE,
              winner |-> 0]
NoKick    == [victim |-> Nobody, votes |-> {}]
NoForfeit == [allowed |-> FALSE, team |-> 0, votes |-> {}, succeeded |-> FALSE]

Init ==
  /\ status = [p \in All |-> "in"]
  /\ end = NoEnd /\ kick = NoKick /\ ff = NoForfeit /\ game = "played" /\ exit = "no"
  /\ kickers = {} /\ quitters = {} /\ wrong = {} /\ forfeited = 0
  /\ waitedOut = FALSE /\ queries = 0
  /\ InitCallables

-----------------------------------------------------------------------------
(* What the players do                                                      *)

\* A player leaves, is disconnected, or is removed by some other part of the game.
Leave(p) ==
  /\ status[p] = "in"
  /\ status' = [status EXCEPT ![p] = "marked"]
  /\ UNCHANGED <<end, kickVars, ffVars, game, wrong, exitVars, dbVars>>

\* CBaseGame::EventPlayerDeleted: the votes are cancelled.  A forfeit that has succeeded
\* is not.  (Mutant: it is.)
DeleteForgetting(p) ==
  /\ status[p] = "marked"
  /\ status' = [status EXCEPT ![p] = "gone"]
  /\ end' = [end EXCEPT !.autoClose = @ \/ (end.loaded /\ end.early)]
  /\ kick' = [victim |-> Nobody, votes |-> kick.votes \ {p}] /\ kickers' = {}
  /\ ff' = [ff EXCEPT !.votes = @ \ {p}, !.team = 0] /\ quitters' = {}
  /\ UNCHANGED <<forfeited, game, wrong, exitVars, dbVars>>

Delete(p) ==
  /\ status[p] = "marked"
  /\ status' = [status EXCEPT ![p] = "gone"]
  /\ end' = [end EXCEPT !.autoClose = @ \/ (end.loaded /\ end.early)]
  /\ kick' = [victim |-> Nobody, votes |-> kick.votes \ {p}] /\ kickers' = {}
  /\ ff' = [ff EXCEPT !.votes = @ \ {p}, !.team = IF ff.succeeded THEN @ ELSE 0]
  /\ quitters' = {}
  /\ UNCHANGED <<forfeited, game, wrong, exitVars, dbVars>>

\* !votekick.
VoteKick(p, v) ==
  /\ status[p] = "in" /\ v \in Present \ Reserved
  /\ kick.victim = Nobody /\ Cardinality(Present) # 2
  /\ kick' = [victim |-> v, votes |-> {p}] /\ kickers' = {p}
  /\ UNCHANGED <<status, end, ffVars, game, wrong, exitVars, dbVars>>

\* ceil( ( GetNumHumanPlayers( ) - 1 ) * m_VoteKickPercentage / 100 )
VotesNeeded == ((Cardinality(Present) - 1) * Percentage + 99) \div 100

\* !yes
Yes(p) ==
  LET votes   == kick.votes \cup {p}
      carried == Cardinality(votes) >= VotesNeeded
      backed  == Cardinality(kickers \cup {p}) >= VotesNeeded
  IN
  /\ status[p] = "in" /\ kick.victim \notin {Nobody, p} /\ p \notin kick.votes
  /\ kick' = [victim |-> IF carried THEN Nobody ELSE kick.victim, votes |-> votes]
  /\ status' = IF carried THEN [status EXCEPT ![kick.victim] = "marked"] ELSE status
  /\ kickers' = IF carried THEN {} ELSE kickers \cup {p}
  /\ wrong' = IF carried /\ ~backed THEN wrong \cup {"kick"} ELSE wrong
  /\ UNCHANGED <<end, ffVars, game, exitVars, dbVars>>

\* !ff: the first of a team starts the vote, and the others join it.
Forfeit(p) ==
  LET first == ff.team = 0
      votes == IF first THEN {p} ELSE ff.votes \cup {p}
      asked == IF first THEN {p} ELSE quitters \cup {p}
      team  == TeamOf(Team[p])
      done  == IF first THEN Cardinality(team) = 1 ELSE team \subseteq votes
  IN
  /\ status[p] = "in" /\ end.loaded /\ ff.allowed /\ ~ff.succeeded
  /\ ~first => Team[p] = ff.team /\ p \notin ff.votes
  /\ ff' = [ff EXCEPT !.team = Team[p], !.votes = votes, !.succeeded = done]
  /\ quitters' = IF done THEN {} ELSE asked
  /\ forfeited' = IF done THEN Team[p] ELSE forfeited
  /\ wrong' = IF done /\ ~(team \subseteq asked) THEN wrong \cup {"forfeit"} ELSE wrong
  /\ UNCHANGED <<status, end, kickVars, game, exitVars, dbVars>>

\* The statistics report the winner, with one of the players' actions.
StatsReport(w) ==
  /\ end.loaded /\ end.winner = 0 /\ \E p \in All : status[p] = "in"
  /\ end' = [end EXCEPT !.winner = w, !.over = TRUE]
  /\ UNCHANGED <<status, kickVars, ffVars, game, wrong, exitVars, dbVars>>

\* !end
EndCommand ==
  /\ end.loaded /\ Present # {}
  /\ status' = [p \in All |-> IF status[p] = "in" THEN "marked" ELSE status[p]]
  /\ UNCHANGED <<end, kickVars, ffVars, game, wrong, exitVars, dbVars>>

\* Forfeiting is allowed after a time, or by !allowff; a leaver no longer closes the game.
TimePasses ==
  /\ end.loaded
  /\ \/ ff' = [ff EXCEPT !.allowed = TRUE] /\ UNCHANGED end
     \/ end' = [end EXCEPT !.early = FALSE] /\ UNCHANGED ff
  /\ UNCHANGED <<status, kickVars, quitters, forfeited, game, wrong, exitVars,
                 dbVars>>

-----------------------------------------------------------------------------
(* CGame::Update                                                            *)

\* What an update finds to be due.  Two things at once come to the same as two updates.
Timers == {"nothing", "loading", "kick", "forfeit", "ffKick", "over"}

\* Every seven seconds another one goes after a forfeit, the winners too.
NextToGo(expired) ==
  IF expired = "ffKick" /\ ff.succeeded /\ ff.team # 0
  THEN {Players[i] : i \in {j \in 1..Len(Players) :
          status[Players[j]] = "in" /\ \A k \in 1..(j - 1) : status[Players[k]] # "in"}}
  ELSE {}

Stopped(expired) ==
  IF expired = "over" /\ end.over /\ ~end.autoClose THEN All ELSE {}

\* The timers.  A leaver who comes early starts the game over timer, as one player does who
\* is left alone.  (Mutant: a forfeit that has succeeded expires too.)
RunTimersForfeit(expired) ==
  /\ Present # {}
  /\ end' = [end EXCEPT !.loaded = @ \/ expired = "loading",
                        !.early = IF end.loaded THEN @ /\ ~end.autoClose
                                  ELSE AutoClose /\ expired = "loading",
                        !.autoClose = FALSE,
                        !.over = @ \/ end.autoClose \/ Cardinality(Present) = 1]
  /\ IF expired = "kick" THEN kick' = [kick EXCEPT !.victim = Nobody] /\ kickers' = {}
     ELSE UNCHANGED kickVars
  /\ IF expired = "forfeit" THEN ff' = [ff EXCEPT !.team = 0] /\ quitters' = {}
     ELSE UNCHANGED <<ff, quitters>>
  /\ status' = [p \in All |-> IF status[p] = "in" /\ p \in NextToGo(expired) \cup Stopped(expired)
                              THEN "marked" ELSE status[p]]
  /\ UNCHANGED <<forfeited, game, wrong, exitVars, dbVars>>

RunTimers(expired) ==
  /\ Present # {}
  /\ end' = [end EXCEPT !.loaded = @ \/ expired = "loading",
                        !.early = IF end.loaded THEN @ /\ ~end.autoClose
                                  ELSE AutoClose /\ expired = "loading",
                        !.autoClose = FALSE,
                        !.over = @ \/ end.autoClose \/ Cardinality(Present) = 1]
  /\ IF expired = "kick" THEN kick' = [kick EXCEPT !.victim = Nobody] /\ kickers' = {}
     ELSE UNCHANGED kickVars
  /\ IF expired = "forfeit" /\ ~ff.succeeded THEN ff' = [ff EXCEPT !.team = 0] /\ quitters' = {}
     ELSE UNCHANGED <<ff, quitters>>
  /\ status' = [p \in All |-> IF status[p] = "in" /\ p \in NextToGo(expired) \cup Stopped(expired)
                              THEN "marked" ELSE status[p]]
  /\ UNCHANGED <<forfeited, game, wrong, exitVars, dbVars>>

\* SaveGameData, then ~CGame: the players and the statistics are written, if the game was.
Data == IF Replay THEN <<"game", "replay">> ELSE <<"game">>
Rows == Players \o <<"stats">>

Finish(dead, stuck) ==
  LET pool == IF calls["game"].ok THEN Start(Pool, Rows, dead, stuck) ELSE Pool
      done == Recover(pool, "game")
  IN  Become(IF Replay THEN Recover(done, "replay") ELSE done)

\* Who won: the statistics know, unless a team has forfeited.
Winner == IF ff.succeeded /\ ff.team # 0 THEN 3 - ff.team ELSE end.winner

\* SaveGameData, when all players have gone.  What the timers do then does not matter.
Save(dead, stuck) ==
  /\ Present = {} /\ game = "played" /\ dead \cup stuck \subseteq Range(Data)
  /\ game' = "saving"
  /\ Become(Start(Pool, Data, dead, stuck)) /\ Count(dead, stuck)
  /\ UNCHANGED <<status, end, kickVars, ffVars, wrong, exitVars, written>>

\* IsGameDataSaved, upon which the game is deleted, with all it knew.
DeleteGame(dead, stuck) ==
  /\ game = "saving" /\ \A c \in Range(Data) : IsReady(c)
  /\ dead \cup stuck \subseteq Range(Rows)
  /\ game' = "deleted" /\ end' = NoEnd /\ ff' = NoForfeit /\ forfeited' = 0
  /\ wrong' = IF Winner = IF forfeited # 0 THEN 3 - forfeited ELSE end.winner
              THEN wrong ELSE wrong \cup {"result"}
  /\ Finish(dead, stuck) /\ Count(dead, stuck)
  /\ UNCHANGED <<status, kickVars, quitters, exitVars, written>>

-----------------------------------------------------------------------------
(* CGHost::Update, and the threads                                          *)

\* Something else is asked of the database, by a player or on battle.net.  (Bound: once
\* the players have gone.  Before that the game asks nothing: what others do then shows in
\* the connections that are idle at first.)
Query(dead, stuck) ==
  /\ Present = {} /\ (exit = "no" \/ game # "deleted")
  /\ "query" \notin DOMAIN calls /\ queries < MaxQueries
  /\ dead \cup stuck \subseteq {"query"}
  /\ queries' = queries + 1
  /\ Become(Start(Pool, <<"query">>, dead, stuck)) /\ Count(dead, stuck)
  /\ UNCHANGED <<gameVars, exit, waitedOut, written>>

\* A callable of m_Callables is recovered when it is ready.  (Mutant: what was asked in a
\* game that is deleted is not among them.)
CollectRows(c) ==
  /\ IsReady(c) /\ c \in Range(Rows)
  /\ Become(Recover(Pool, c))
  /\ UNCHANGED <<gameVars, exitVars, written, faults>>

Collect(c) ==
  /\ IsReady(c) /\ c \notin {"game", "replay"}
  /\ Become(Recover(Pool, c))
  /\ UNCHANGED <<gameVars, exitVars, written, faults>>

\* !exit nice, or the first SIGINT.
ExitNicely ==
  /\ exit = "no" /\ exit' = "asked"
  /\ UNCHANGED <<gameVars, waitedOut, queries, dbVars>>

FinishGames ==
  /\ exit = "asked" /\ game = "deleted" /\ exit' = "finished"
  /\ UNCHANGED <<gameVars, waitedOut, queries, dbVars>>

\* The program exits when the threads have finished, or when it has waited 60 seconds.
\* (Mutant: as soon as the games have.)
ExitAtOnce(waited) ==
  /\ exit = "finished" /\ exit' = "exited"
  /\ waitedOut' = waited
  /\ UNCHANGED <<gameVars, queries, dbVars>>

Exit(waited) ==
  /\ exit = "finished" /\ exit' = "exited"
  /\ waited \/ calls = <<>>
  /\ waitedOut' = waited
  /\ UNCHANGED <<gameVars, queries, dbVars>>

Thread(c) ==
  /\ Run(c)
  /\ UNCHANGED <<gameVars, exitVars>>

Kinds == All \cup {"stats", "game", "replay", "query"}

\* What the main thread starts once the players have gone.  (Bound: with at most one
\* connection dead and one thread stuck at a time.)
Starts ==
  /\ Present = {}
  /\ \E dead, stuck \in IF faults = MaxFaults THEN {{}} ELSE {{}} \cup {{c} : c \in Kinds} :
    Save(dead, stuck) \/ DeleteGame(dead, stuck) \/ Query(dead, stuck)

Running ==
  \/ \E p \in All : \/ Leave(p) \/ Delete(p) \/ Yes(p) \/ Forfeit(p)
                    \/ \E v \in All : VoteKick(p, v)
  \/ \E w \in Reports : StatsReport(w)
  \/ EndCommand \/ TimePasses
  \/ \E expired \in Timers : RunTimers(expired)
  \/ Starts
  \/ \E c \in Kinds : Collect(c) \/ Thread(c)
  \/ ExitNicely \/ FinishGames
  \/ \E waited \in BOOLEAN : Exit(waited)

Next == exit # "exited" /\ Running

Spec == Init /\ [][Next]_vars

\* The main loop goes on, the timers run out in the end, and the threads get somewhere.
\* (Each of these happens a number of times only, so that this is as if each was fair.)
Progress ==
  \/ \E p \in All : Delete(p)
  \/ RunTimers("ffKick") \/ RunTimers("over")
  \/ Save({}, {}) \/ DeleteGame({}, {}) \/ FinishGames \/ Exit(FALSE)
  \/ \E c \in Kinds : Collect(c) \/ Thread(c)

FairSpec == Spec /\ WF_vars(exit # "exited" /\ Progress)

-----------------------------------------------------------------------------
(* Properties                                                               *)

Connections == {NoConnection} \cup ((Kinds \cup {"earlier"}) \X Nat)

TypeOK ==
  /\ status \in [All -> {"in", "marked", "gone"}]
  /\ end \in [loaded : BOOLEAN, early : BOOLEAN, autoClose : BOOLEAN, over : BOOLEAN,
              winner : 0..2]
  /\ kick.victim \in All \cup {Nobody} /\ kick.votes \subseteq Present
  /\ ff.votes \subseteq Present /\ ff.team \in 0..2 /\ {ff.allowed, ff.succeeded} \subseteq BOOLEAN
  /\ game \in {"played", "saving", "deleted"} /\ forfeited \in 0..2
  /\ kickers \subseteq Present /\ quitters \subseteq Present /\ wrong \subseteq {"kick", "forfeit", "result"}
  /\ exit \in {"no", "asked", "finished", "exited"} /\ waitedOut \in BOOLEAN
  /\ queries \in 0..MaxQueries
  /\ connections \in Nat /\ written \subseteq Kinds /\ faults \in 0..MaxFaults
  /\ DOMAIN calls \subseteq Kinds
  /\ \A c \in DOMAIN calls : calls[c].conn \in Connections /\ calls[c].ready \in BOOLEAN
  /\ Range(idle) \subseteq Connections

\* The pool of connections is sound: none is shared between two threads or lost count of,
\* whatever dies, fails to start or is closed while a game is written and others ask.
PoolIsSound == TypeOK /\ OneThreadPerConnection /\ ConnectionsCounted

\* A player is voted out by enough of those who are still there, and a team forfeits when
\* all of it that is still there wants to: nobody is counted who has voted in another vote
\* or has left, whoever leaves, is removed, or lets a vote expire meanwhile.
VotesAreFair == wrong \cap {"kick", "forfeit"} = {}

\* Once a team has forfeited the other one has won: that is what is written, however the
\* players go after that, even if the statistics report another winner meanwhile.
ForfeitIsRecorded == "result" \notin wrong

\* What is decided is what the players decided: no vote of another time carries one, and
\* no departure or report changes a result that was decided.
DecisionsStand == VotesAreFair /\ ForfeitIsRecorded

\* When the program has waited for its threads, every player of the game and its result
\* are written, if the database did not fail: the callables that outlive the game are not
\* forgotten, and the one step that depends on another is not left out.
NothingIsLost ==
  exit = "exited" /\ ~waitedOut /\ faults = 0 => Range(Data) \cup Range(Rows) \subseteq written

\* A game that is over, that was forfeited, or that has no players any more is deleted in
\* the end.
GameIsDeleted == (end.over \/ ff.succeeded \/ Present = {}) ~> game = "deleted"

\* A program that was asked to exit nicely does so when its games are deleted, and need
\* not use the time limit on the threads for that.
ExitsInTheEnd == (exit # "no" /\ game = "deleted") ~> exit = "exited"

=============================================================================
