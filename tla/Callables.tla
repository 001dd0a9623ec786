----------------------------- MODULE Callables -----------------------------
(***************************************************************************)
(* Database queries in threads of their own (CGHostDBMySQL and the         *)
(* callables it makes).  The main thread makes a callable, gives it a      *)
(* connection that is idle, starts its thread and looks from time to time  *)
(* whether it is ready; then it takes the result and the connection back.  *)
(* Meanwhile the thread uses the connection, or opens one.                 *)
(*                                                                         *)
(* Here are the operations; the programs of both threads that use them,    *)
(* for the data of a game that is over, are in GameEnd.  A callable is     *)
(* known by what it does, and a connection by the callable that opened it. *)
(***************************************************************************)
EXTENDS Integers, Sequences, FiniteSets, Functions

CONSTANTS
  MaxIdle,     \* one more than this many connections are kept idle (30)
  Earlier,     \* how many connections earlier queries have left idle
  MaxFaults    \* bound: connections found dead, threads not started, queries failed

ASSUME CallablesAssumption == {MaxIdle, Earlier, MaxFaults} \subseteq Nat /\ Earlier <= MaxIdle + 1

VARIABLES
  idle,        \* m_IdleConnections
  connections, \* m_NumConnections
  calls,       \* the callables that are not recovered yet
  written,     \* what the queries have written in the database
  faults       \* how many faults there were

dbVars == <<idle, connections, calls, written, faults>>

NoConnection == <<>>

Used == Range(idle) \cup {calls[c].conn : c \in DOMAIN calls}

\* A connection that is not open, for a callable to open.
Fresh(c) == CHOOSE h \in {<<c, n>> : n \in 0..Cardinality(Used)} : h \notin Used

InitCallables ==
  /\ idle = [i \in 1..Earlier |-> <<"earlier", i>>] /\ connections = Earlier
  /\ calls = <<>> /\ written = {} /\ faults = 0

Pool == [idle |-> idle, connections |-> connections, calls |-> calls]

-----------------------------------------------------------------------------
(* The main thread                                                          *)

\* Threaded...: each callable of a sequence takes the next idle connection, which it
\* cannot use if that is dead, and starts its thread, unless it is stuck.  A connection
\* that has to be opened is counted here, and opened by the thread.
\* (Mutant: the connections stay in the queue of idle ones.)
Taken(pool, cs, i, dead) ==
  IF i <= Len(pool.idle) /\ cs[i] \notin dead THEN pool.idle[i] ELSE NoConnection

Started(pool, cs, dead, stuck) ==
  [c \in DOMAIN pool.calls \cup Range(cs) |->
     IF c \in Range(cs)
     THEN [conn |-> Taken(pool, cs, CHOOSE i \in 1..Len(cs) : cs[i] = c, dead),
           ready |-> c \in stuck, ok |-> FALSE]
     ELSE pool.calls[c]]

StartSharing(pool, cs, dead, stuck) ==
  [idle        |-> pool.idle,
   connections |-> pool.connections
     + Cardinality({i \in 1..Len(cs) : Taken(pool, cs, i, dead) = NoConnection}),
   calls       |-> Started(pool, cs, dead, stuck)]

Start(pool, cs, dead, stuck) ==
  [idle        |-> SubSeq(pool.idle, Len(cs) + 1, Len(pool.idle)),
   connections |-> pool.connections
     + Cardinality({i \in 1..Len(cs) : Taken(pool, cs, i, dead) = NoConnection}),
   calls       |-> Started(pool, cs, dead, stuck)]

IsReady(c) == c \in DOMAIN calls /\ calls[c].ready

\* RecoverCallable, after which the callable is deleted.
Recover(pool, c) ==
  [idle        |-> IF Len(pool.idle) > MaxIdle THEN pool.idle
                   ELSE Append(pool.idle, pool.calls[c].conn),
   connections |-> IF Len(pool.idle) > MaxIdle THEN pool.connections - 1
                   ELSE pool.connections,
   calls       |-> [d \in DOMAIN pool.calls \ {c} |-> pool.calls[d]]]

Count(dead, stuck) ==
  /\ faults' = faults + Cardinality(dead) + Cardinality(stuck)
  /\ faults' <= MaxFaults

Become(pool) ==
  /\ idle' = pool.idle /\ connections' = pool.connections /\ calls' = pool.calls

-----------------------------------------------------------------------------
(* The threads                                                              *)

\* operator(): a connection is opened (CMySQLCallable::Init) where there is none, or the
\* one that was given does not answer; the query succeeds or not; and the callable is
\* ready (Close).  Nobody looks at what the thread does before that.
Run(c) ==
  /\ c \in DOMAIN calls /\ ~calls[c].ready
  /\ \E dead, ok \in BOOLEAN :
       /\ dead => calls[c].conn # NoConnection
       /\ Count(IF dead THEN {c} ELSE {}, IF ok THEN {} ELSE {c})
       /\ calls' = [calls EXCEPT ![c] =
                      [conn |-> IF dead \/ @.conn = NoConnection THEN Fresh(c) ELSE @.conn,
                       ready |-> TRUE, ok |-> ok]]
       /\ written' = IF ok THEN written \cup {c} ELSE written
  /\ UNCHANGED <<idle, connections>>

-----------------------------------------------------------------------------
(* Properties                                                               *)

\* A connection is used by one thread: it is idle once, or it belongs to one callable,
\* from the time it is taken from the queue until it is put back, whatever dies or is
\* opened again in between.
OneThreadPerConnection ==
  /\ \A i, j \in 1..Len(idle) : idle[i] = idle[j] /\ idle[i] # NoConnection => i = j
  /\ \A c \in DOMAIN calls : calls[c].conn # NoConnection =>
       /\ \A i \in 1..Len(idle) : idle[i] # calls[c].conn
       /\ \A d \in DOMAIN calls \ {c} : calls[d].conn # calls[c].conn

\* The number of connections, which is unsigned, counts every one there is, and those that
\* were never opened because a thread could not be started: it is never decremented
\* below zero.
ConnectionsCounted ==
  /\ Len(idle) + Cardinality(DOMAIN calls) <= connections
  /\ Len(idle) <= MaxIdle + 1

=============================================================================
