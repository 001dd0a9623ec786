--------------------------- MODULE GProxySession ---------------------------
(***************************************************************************)
(* One player's GProxy++ session: CGamePlayer's packet counters and replay *)
(* buffer (gameplayer.cpp), the reconnect sockets of CGHost::Update        *)
(* (ghost.cpp) and the three disconnect handlers of CBaseGame              *)
(* (game_base.cpp), composed with a GProxy++ client and a TCP network that *)
(* can break any connection at any time.                                   *)
(*                                                                         *)
(* Packets are named by their number in the sender's order.  A connection  *)
(* is a number, in the order the client opened them.  Each direction of a  *)
(* connection is a FIFO; breaking it loses what has not been read, and     *)
(* bytes written to an end nobody reads any more are lost too, so that     *)
(* only the FIFO towards the client's current connection is ever kept.     *)
(***************************************************************************)
EXTENDS Naturals, Sequences, FiniteSets

CONSTANTS
  MaxPackets,        \* bound: packets the bot sends through ServerSend
  MaxClientPackets,  \* bound: packets the client sends, REQJOIN included
  MaxConns,          \* bound: connections the client opens, the first included
  MaxAcks,           \* bound: acks in flight in one FIFO
  PreLoadAtRisk      \* may a connection break while a packet sent before the
                     \* game was loaded is still in flight?

ASSUME BoundsAssumption ==
  /\ MaxPackets \in Nat
  /\ MaxClientPackets \in Nat \ {0}
  /\ MaxConns \in Nat \ {0}
  /\ MaxAcks \in Nat

ASSUME RiskAssumption == PreLoadAtRisk \in BOOLEAN

VARIABLES
  \* the bot: CGamePlayer, and CGHost's m_ReconnectSockets
  phase,       \* "loading", "loaded" (m_GameLoaded), "gone" (player deleted)
  gproxy,      \* m_GProxy
  sent,        \* m_TotalPacketsSent
  buffer,      \* m_GProxyBuffer: the numbers of the packets kept for replay
  sgot,        \* what ProcessPackets has handled; m_TotalPacketsReceived is its length
  ssock,       \* the connection behind m_Socket, 0 once it has been Reset
  noticeSent,  \* m_GProxyDisconnectNoticeSent
  pending,     \* m_ReconnectSockets
  unkept,      \* history: the last packet sent that was never kept for replay
  \* the GProxy++ client
  key,         \* has it been given the reconnect key (GPSS_INIT)?
  cconn,       \* its current connection, 0 if none
  csync,       \* may it forward packets on cconn?
  cgot,        \* the packets it has received, in order
  csent,       \* how many packets it has sent
  cbuf,        \* its own replay buffer
  \* the network
  nconn,       \* connections opened so far
  c2s,         \* for each connection, the FIFO from the client to the bot
  s2c          \* the FIFO from the bot to the client's current connection

server == <<phase, gproxy, sent, buffer, sgot, ssock, noticeSent, pending, unkept>>
client == <<key, cconn, csync, cgot, csent, cbuf, nconn>>
net    == <<c2s, s2c>>
vars   == <<server, client, net>>

Conns == 1..MaxConns

Pkt(n)   == [t |-> "pkt",   n |-> n]   \* a W3GS packet, the only kind counted
\* Mutant: the count on the wire leaves out the REQJOIN.
ReconNoJoin(n) == [t |-> "recon", n |-> IF n = 0 THEN 0 ELSE n - 1]

Ack(n)   == [t |-> "ack",   n |-> n]   \* GPS_ACK
Recon(n) == [t |-> "recon", n |-> n]   \* GPS_RECONNECT, either direction
Hello    == [t |-> "init",  n |-> 0]   \* GPS_INIT, either direction
Reject   == [t |-> "reject", n |-> 0]  \* GPSS_REJECT

Msgs == [t : {"pkt", "ack", "recon", "init", "reject"}, n : Nat]

Pkts(s) == [i \in 1..Len(s) |-> Pkt(s[i])]

AcksIn(q) == Cardinality({i \in 1..Len(q) : q[i].t = "ack"})

\* Mutants: nothing is dropped on an ack, or one packet too many.
UnqueueNothing(buf, total, last) == buf
UnqueueOneMore(buf, total, last) ==
  LET already == total - Len(buf)
      count   == IF last > already THEN last - already + 1 ELSE 0
  IN  SubSeq(buf, count + 1, Len(buf))

\* What is left of a replay buffer whose owner has sent "total" packets when
\* the other end reports having received "last" of them.
Unqueue(buf, total, last) ==
  LET already == total - Len(buf)
      excess  == IF last > already THEN last - already ELSE 0
      count   == IF excess > Len(buf) THEN Len(buf) ELSE excess
  IN  SubSeq(buf, count + 1, Len(buf))

\* CTCPSocket::PutBytes on a socket of the bot: lost if the socket was Reset or
\* the client has left that connection.
Put(sock, msgs) == s2c' = IF sock # 0 /\ sock = cconn THEN s2c \o msgs ELSE s2c

\* The bot stops using a connection (0: it had none).
Close(c) == c2s' = [d \in Conns |-> IF d = c THEN <<>> ELSE c2s[d]]

\* The client puts packets on its connection, which the bot may have closed.
ClientPut(msgs) ==
  c2s' = IF cconn # 0 /\ cconn \in pending \cup {ssock}
         THEN [c2s EXCEPT ![cconn] = @ \o msgs] ELSE c2s

\* CGamePlayer::Send, k times: count the packets and, for a GProxy++ player of a
\* loaded game, keep them for replay.
Numbers(k) == [i \in 1..k |-> sent + i]

\* Mutants: a packet for a player who is not connected is not counted, or not kept.
EmitUncounted(k) ==
  /\ sent' = IF ssock = 0 THEN sent ELSE sent + k
  /\ buffer' = IF gproxy /\ phase = "loaded" THEN buffer \o Numbers(k) ELSE buffer
  /\ unkept' = IF gproxy /\ phase = "loaded" THEN unkept ELSE sent + k
  /\ Put(ssock, Pkts(Numbers(k)))

EmitUnkept(k) ==
  /\ sent' = sent + k
  /\ buffer' = IF gproxy /\ phase = "loaded" /\ ssock # 0 THEN buffer \o Numbers(k) ELSE buffer
  /\ unkept' = IF gproxy /\ phase = "loaded" THEN unkept ELSE sent + k
  /\ Put(ssock, Pkts(Numbers(k)))

Emit(k) ==
  /\ sent' = sent + k
  /\ buffer' = IF gproxy /\ phase = "loaded" THEN buffer \o Numbers(k) ELSE buffer
  /\ unkept' = IF gproxy /\ phase = "loaded" THEN unkept ELSE sent + k
  /\ Put(ssock, Pkts(Numbers(k)))

\* May the network break the connection now?  With PreLoadAtRisk = FALSE it waits
\* until the game is loaded and the client has every packet that the bot sent
\* without keeping it for replay (or the player has been deleted anyway).
MayBreak ==
  \/ PreLoadAtRisk
  \/ phase = "loaded" /\ unkept <= Len(cgot)
  \/ phase = "gone"

-----------------------------------------------------------------------------

\* The CGamePlayer has just been made from a CPotentialPlayer: its REQJOIN is
\* counted, and the client has announced itself with GPSC_INIT.
Init ==
  /\ phase = "loading" /\ gproxy = FALSE
  /\ sent = 0 /\ buffer = <<>> /\ sgot = <<1>>
  /\ ssock = 1 /\ noticeSent = FALSE /\ pending = {} /\ unkept = 0
  /\ key = FALSE /\ cconn = 1 /\ csync = TRUE
  /\ cgot = <<>> /\ csent = 1 /\ cbuf = <<1>>
  /\ nconn = 1
  /\ c2s = [c \in Conns |-> IF c = 1 THEN <<Hello>> ELSE <<>>]
  /\ s2c = <<>>

-----------------------------------------------------------------------------
(* The bot                                                                 *)

\* Any of the bot's sends to this player.
ServerSend ==
  /\ phase # "gone"
  /\ sent < MaxPackets
  /\ Emit(1)
  /\ UNCHANGED <<phase, gproxy, sgot, ssock, noticeSent, pending, client, c2s>>

\* CBaseGame::Update finds that every player has finished loading; this player's
\* W3GS_GAMELOADED_SELF is its second packet.
Load ==
  /\ phase = "loading"
  /\ Len(sgot) >= 2
  /\ phase' = "loaded"
  /\ UNCHANGED <<gproxy, sent, buffer, sgot, ssock, noticeSent, pending, unkept, client, net>>

\* The ten second ack of CGamePlayer::Update.
ServerAck ==
  /\ phase # "gone" /\ gproxy
  /\ ssock # 0
  /\ AcksIn(s2c) < MaxAcks
  /\ Put(ssock, <<Ack(Len(sgot))>>)
  /\ UNCHANGED <<server, client, c2s>>

\* ExtractPackets and ProcessPackets, one packet of the socket's receive buffer.
ServerRecv ==
  /\ phase # "gone"
  /\ ssock # 0
  /\ c2s[ssock] # <<>>
  /\ LET m == Head(c2s[ssock]) IN
     /\ c2s' = [c2s EXCEPT ![ssock] = Tail(@)]
     /\ sgot' = IF m.t = "pkt" THEN Append(sgot, m.n) ELSE sgot
     /\ gproxy' = (gproxy \/ m.t = "init")
     /\ buffer' = IF m.t = "ack" THEN Unqueue(buffer, sent, m.n) ELSE buffer
     /\ Put(ssock, IF m.t = "init" THEN <<Hello>> ELSE <<>>)
  /\ UNCHANGED <<phase, sent, ssock, noticeSent, pending, unkept, client>>

\* The socket has an error or was closed by the other end: a GProxy++ player of a
\* loaded game is kept, with a chat notice the first time; any other is deleted.
ServerSocketClosed ==
  /\ phase # "gone"
  /\ ssock # 0
  /\ phase = "loading" \/ MayBreak
  /\ IF gproxy /\ phase = "loaded"
     THEN /\ Emit(IF noticeSent THEN 0 ELSE 1)
          /\ noticeSent' = TRUE
          /\ UNCHANGED phase
     ELSE /\ phase' = "gone"
          /\ UNCHANGED <<sent, buffer, noticeSent, unkept, s2c>>
  /\ ssock' = 0
  /\ Close(ssock)
  /\ UNCHANGED <<gproxy, sgot, pending, client>>

\* Nothing was received for 30 seconds: a GProxy++ player of a loaded game only
\* gets the notice, its socket is left open; any other is deleted.
ServerTimedOut ==
  /\ phase # "gone"
  /\ ssock # 0
  /\ ~noticeSent
  /\ IF gproxy /\ phase = "loaded"
     THEN Emit(1) /\ noticeSent' = TRUE /\ UNCHANGED <<phase, ssock, c2s>>
     ELSE /\ phase' = "gone" /\ ssock' = 0 /\ Close(ssock)
          /\ UNCHANGED <<sent, buffer, noticeSent, unkept, s2c>>
  /\ UNCHANGED <<gproxy, sgot, pending, client>>

\* A disconnected player has used up the lag screen's waiting time (StopLaggers),
\* or a connected one leaves or is dropped: either way it is deleted.
ServerDrop ==
  /\ phase = "loaded"
  /\ phase' = "gone"
  /\ ssock' = 0 /\ Close(ssock)
  /\ UNCHANGED <<gproxy, sent, buffer, sgot, noticeSent, pending, unkept, client, s2c>>

\* A reconnect socket is closed, in error, or silent for ten seconds.
ReconnectSocketLost(c) ==
  /\ c \in pending
  /\ pending' = pending \ {c} /\ Close(c)
  /\ UNCHANGED <<phase, gproxy, sent, buffer, sgot, ssock, noticeSent, unkept, client, s2c>>

\* GPSC_RECONNECT for a player of a running game: the old socket is deleted, the
\* acknowledged packets are dropped, the rest is sent again and kept, and everyone
\* (this player too) is told.
EventGProxyReconnect(c) ==
  /\ c \in pending
  /\ c2s[c] # <<>>
  /\ phase = "loaded" /\ gproxy
  /\ LET keep == Unqueue(buffer, sent, Head(c2s[c]).n)
         chat == sent + 1
     IN  /\ Put(c, <<Recon(Len(sgot))>> \o Pkts(Append(keep, chat)))
         /\ buffer' = Append(keep, chat)
         /\ sent' = chat
  /\ c2s' = [d \in Conns |-> IF d = c THEN Tail(c2s[d])
                             ELSE IF d = ssock THEN <<>> ELSE c2s[d]]
  /\ ssock' = c
  /\ noticeSent' = FALSE
  /\ pending' = pending \ {c}
  /\ UNCHANGED <<phase, gproxy, sgot, unkept, client>>

\* No such player: the client is told, and the socket is closed.
RejectReconnect(c) ==
  /\ c \in pending
  /\ c2s[c] # <<>>
  /\ ~(phase = "loaded" /\ gproxy)
  /\ Put(c, <<Reject>>)
  /\ Close(c)
  /\ pending' = pending \ {c}
  /\ UNCHANGED <<phase, gproxy, sent, buffer, sgot, ssock, noticeSent, unkept, client>>

-----------------------------------------------------------------------------
(* The GProxy++ client, not part of the repository                          *)

\* Warcraft III produces a packet: it is kept for replay, and forwarded unless
\* the client is waiting for the bot's GPSS_RECONNECT.
ClientSend ==
  /\ csent < MaxClientPackets
  /\ csent' = csent + 1
  /\ cbuf' = Append(cbuf, csent + 1)
  /\ ClientPut(IF csync THEN <<Pkt(csent + 1)>> ELSE <<>>)
  /\ UNCHANGED <<server, key, cconn, csync, cgot, nconn, s2c>>

ClientAck ==
  /\ cconn # 0 /\ csync /\ key
  /\ AcksIn(c2s[cconn]) < MaxAcks
  /\ ClientPut(<<Ack(Len(cgot))>>)
  /\ UNCHANGED <<server, client, s2c>>

ClientRecv ==
  /\ cconn # 0
  /\ s2c # <<>>
  /\ LET m    == Head(s2c)
         keep == Unqueue(cbuf, csent, m.n)
     IN
     /\ s2c' = IF m.t = "reject" THEN <<>> ELSE Tail(s2c)
     /\ cgot' = IF m.t = "pkt" THEN Append(cgot, m.n) ELSE cgot
     /\ cbuf' = IF m.t \in {"ack", "recon"} THEN keep ELSE cbuf
     /\ ClientPut(IF m.t = "recon" THEN Pkts(keep) ELSE <<>>)
     /\ csync' = (m.t # "reject" /\ (csync \/ m.t = "recon"))
     /\ key' = (m.t # "reject" /\ (key \/ m.t = "init"))
     /\ cconn' = IF m.t = "reject" THEN 0 ELSE cconn
  /\ UNCHANGED <<server, csent, nconn>>

\* The client loses its connection; what was on its way to it is lost.
ClientLost ==
  /\ cconn # 0
  /\ MayBreak
  /\ cconn' = 0
  /\ csync' = FALSE
  /\ s2c' = <<>>
  /\ UNCHANGED <<server, key, cgot, csent, cbuf, nconn, c2s>>

\* A new connection to the reconnect port, opened with the number of packets the
\* client has received.
ClientReconnect ==
  /\ cconn = 0 /\ key
  /\ nconn < MaxConns
  /\ nconn' = nconn + 1
  /\ cconn' = nconn + 1
  /\ c2s' = [c2s EXCEPT ![nconn + 1] = <<Recon(Len(cgot))>>]
  /\ pending' = pending \cup {nconn + 1}
  /\ UNCHANGED <<phase, gproxy, sent, buffer, sgot, ssock, noticeSent, unkept,
                 key, csync, cgot, csent, cbuf, s2c>>

-----------------------------------------------------------------------------

Next ==
  \/ ServerSend \/ Load \/ ServerAck \/ ServerRecv
  \/ ServerSocketClosed \/ ServerTimedOut \/ ServerDrop
  \/ \E c \in Conns : \/ ReconnectSocketLost(c)
                      \/ EventGProxyReconnect(c)
                      \/ RejectReconnect(c)
  \/ ClientSend \/ ClientAck \/ ClientRecv \/ ClientLost \/ ClientReconnect

Spec == Init /\ [][Next]_vars

\* No connection is in use at both ends.
Severed == ssock # cconn \/ ssock = 0

FairSpec ==
  /\ Spec
  /\ WF_vars(ServerRecv) /\ WF_vars(ClientRecv)
  /\ WF_vars(\E c \in Conns : EventGProxyReconnect(c) \/ RejectReconnect(c))
  /\ WF_vars(ClientReconnect)
  /\ WF_vars(Severed /\ ServerDrop)
  /\ WF_vars(Severed /\ ClientLost)

-----------------------------------------------------------------------------
(* Properties                                                              *)

IsPrefixOfNat(s) == \A i \in 1..Len(s) : s[i] = i

TypeOK ==
  /\ phase \in {"loading", "loaded", "gone"}
  /\ gproxy \in BOOLEAN /\ noticeSent \in BOOLEAN
  /\ sent \in Nat /\ buffer \in Seq(Nat) /\ Len(buffer) <= sent
  /\ sgot \in Seq(Nat)
  /\ ssock \in 0..MaxConns
  /\ pending \subseteq Conns /\ unkept \in Nat
  /\ key \in BOOLEAN /\ csync \in BOOLEAN
  /\ cconn \in 0..MaxConns
  /\ cgot \in Seq(Nat) /\ csent \in Nat /\ cbuf \in Seq(Nat)
  /\ nconn \in 1..MaxConns
  /\ c2s \in [Conns -> Seq(Msgs)] /\ s2c \in Seq(Msgs)

\* The player's game sees every packet the bot sent it exactly once and in order,
\* across any number of broken and replaced connections (CGamePlayer::Send,
\* EventGProxyReconnect).
ClientStreamInOrder == IsPrefixOfNat(cgot) /\ Len(cgot) <= sent

\* The bot handles every packet of the player exactly once and in order: the count
\* it reports in GPSS_RECONNECT is the right one (ExtractPackets).
ServerStreamInOrder == IsPrefixOfNat(sgot) /\ Len(sgot) <= csent

\* As long as the player can still reconnect, the replay buffer holds everything
\* its client has not received: no ack, stale or repeated, drops too much.
NothingUnackedDropped ==
  (phase = "loaded" /\ ~PreLoadAtRisk /\ ssock = 0) =>
     \A n \in (Len(cgot) + 1)..sent : \E i \in 1..Len(buffer) : buffer[i] = n

\* Each direction implements the reliable channel GProxy++ promises.
Down == INSTANCE ReliableChannel WITH sent <- sent,  got <- cgot, open <- (phase # "gone")
Up   == INSTANCE ReliableChannel WITH sent <- csent, got <- sgot, open <- (phase # "gone")
DownSpec == Down!Spec
UpSpec   == Up!Spec

\* Once the game is loaded a packet sent to the player eventually reaches it, or
\* the player is dropped from the game: no reconnect leaves a packet stranded.
EveryPacketArrives ==
  \A n \in 1..(MaxPackets + 2 * MaxConns) :
     (phase = "loaded" /\ sent >= n) ~> (Len(cgot) >= n \/ phase = "gone")

=============================================================================
