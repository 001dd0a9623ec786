------------------------ MODULE GProxySessionProofs ------------------------
(***************************************************************************)
(* The inductive invariant IInv of GProxySession: it is preserved by every *)
(* step as long as no connection breaks over a packet that the bot does    *)
(* not keep (no PreLoadAtRisk), and gives the order of both streams and    *)
(* that each direction of a session implements ReliableChannel.            *)
(*                                                                         *)
(* First the invariant and the lemmas about streams of packets, then type  *)
(* correctness, which needs no assumption, then one lemma per action.      *)
(***************************************************************************)
EXTENDS GProxySession, SequenceTheorems, TLAPS

\* A replay buffer holds the last packets of its owner, without a gap.
Window(b, total) ==
  /\ Len(b) <= total
  /\ \A i \in 1..Len(b) : b[i] = total - Len(b) + i

\* The packets in a FIFO are those numbered from+1 to upto, in order; messages of
\* other kinds may stand between them.
Stream(q, from, upto) ==
  /\ \A i \in 1..Len(q) : q[i].t = "pkt" => from < q[i].n /\ q[i].n <= upto
  /\ \A i, j \in 1..Len(q) :
        i < j /\ q[i].t = "pkt" /\ q[j].t = "pkt" => q[i].n < q[j].n
  /\ \A n \in (from + 1)..upto : \E i \in 1..Len(q) : q[i].t = "pkt" /\ q[i].n = n

\* Messages of the given kinds carry at most b; a kind does not occur, occurs at
\* most once, occurs with the number n.
Bounded(q, kinds, b) == \A i \in 1..Len(q) : q[i].t \in kinds => q[i].n <= b
Free(q, kind)        == \A i \in 1..Len(q) : q[i].t # kind
Single(q, kind)      == \A i, j \in 1..Len(q) : q[i].t = kind /\ q[j].t = kind => i = j
Holds(q, kind, n)    == \E i \in 1..Len(q) : q[i].t = kind /\ q[i].n = n

\* How much of the bot's (the client's) packets is no longer kept for replay.
Base  == sent - Len(buffer)
CBase == csent - Len(cbuf)

InOrder == IsPrefixOfNat(cgot) /\ IsPrefixOfNat(sgot)

Windows == Window(buffer, sent) /\ Window(cbuf, csent)

\* Before the game is loaded the first connection is the only one, and a player
\* whose loading has been seen has announced GProxy++ before.
Phases ==
  /\ phase = "loading" => /\ ssock = 1 /\ cconn = 1 /\ nconn = 1
                          /\ pending = {} /\ buffer = <<>> /\ unkept = sent
  /\ phase = "loading" /\ ~gproxy =>
        c2s[1] # <<>> /\ Head(c2s[1]).t = "init" /\ Len(sgot) = 1
  /\ phase = "loaded" => gproxy
  /\ phase = "gone" => ssock = 0

\* Which connections carry what: one that nobody at the bot reads is empty, and a
\* reconnect socket holds one GPSC_RECONNECT whose count is right if it is fresh.
Wiring ==
  /\ ssock <= nconn
  /\ pending \subseteq 1..nconn
  /\ ssock \notin pending
  /\ cconn \in {0, nconn}
  /\ cconn = 0 => s2c = <<>> /\ csync = FALSE
  /\ \A c \in Conns : c \notin pending \cup {ssock} => c2s[c] = <<>>
  /\ \A c \in pending :
        /\ Len(c2s[c]) = 1
        /\ Head(c2s[c]).t = "recon" /\ Head(c2s[c]).n <= Len(cgot)
        /\ c = cconn => Head(c2s[c]).n = Len(cgot) /\ s2c = <<>> /\ csync = FALSE

\* What is on its way to the client continues what it has; on a connection in use
\* at both ends it reaches up to the last packet sent.  What the bot no longer keeps
\* the client has, or the bot never kept it; and once a connection has broken the
\* client has all of that as well.
DownStream ==
  /\ Len(cgot) <= sent
  /\ \E t \in 0..sent : /\ Stream(s2c, Len(cgot), t)
                        /\ cconn # 0 /\ cconn = ssock => t = sent
  /\ phase # "gone" => Base <= unkept \/ Base <= Len(cgot)
  /\ phase # "gone" /\ (ssock # cconn \/ ssock = 0 \/ nconn > 1) => unkept <= Len(cgot)

UpStream ==
  /\ Len(sgot) <= csent
  /\ CBase <= Len(sgot)
  /\ ssock # 0 =>
       \E t \in 0..csent : /\ Stream(c2s[ssock], Len(sgot), t)
                           /\ ssock = cconn /\ csync => t = csent
  /\ ssock # 0 /\ ssock = cconn /\ ~csync => c2s[ssock] = <<>>

\* The counts on the wire never exceed what was received.
Counts ==
  /\ Bounded(s2c, {"ack", "recon"}, Len(sgot))
  /\ ssock # 0 => Bounded(c2s[ssock], {"ack"}, Len(cgot))

\* A client that waits for GPSS_RECONNECT on a connection in use at both ends will
\* find exactly one, with the right count; only a deleted player is refused.
Handshake ==
  /\ csync => Free(s2c, "recon")
  /\ Single(s2c, "recon")
  /\ ssock # 0 /\ ssock = cconn /\ ~csync => Holds(s2c, "recon", Len(sgot))
  /\ phase # "gone" => Free(s2c, "reject")

IInv ==
  /\ TypeOK
  /\ InOrder /\ Windows /\ Phases /\ Wiring
  /\ DownStream /\ UpStream /\ Counts /\ Handshake

-----------------------------------------------------------------------------
(* Replay buffers and FIFOs                                                *)

\* Appending nothing to a FIFO leaves it as it is.
LEMMA ConcatEmpty ==
  ASSUME NEW S, NEW q \in Seq(S)
  PROVE  q \o <<>> = q
OBVIOUS

\* Dropping acknowledged packets from a buffer leaves a buffer of the last packets,
\* whose beginning is the acknowledged count if the buffer reached back that far.
LEMMA UnqueueType ==
  ASSUME NEW b \in Seq(Nat), NEW total \in Nat, NEW last \in Nat
  PROVE  /\ Unqueue(b, total, last) \in Seq(Nat)
         /\ Len(Unqueue(b, total, last)) <= Len(b)
<1> DEFINE already == total - Len(b)
           excess  == IF last > already THEN last - already ELSE 0
           count   == IF excess > Len(b) THEN Len(b) ELSE excess
<1>1. count + 1 \in 1..(Len(b) + 1) /\ Len(b) \in Nat
  OBVIOUS
<1> HIDE DEF count
<1>2. /\ SubSeq(b, count + 1, Len(b)) \in Seq(Nat)
      /\ Len(SubSeq(b, count + 1, Len(b)))
            = IF count + 1 <= Len(b) THEN Len(b) - (count + 1) + 1 ELSE 0
  BY <1>1, SubSeqProperties
<1>3. Len(SubSeq(b, count + 1, Len(b))) <= Len(b)
  BY <1>1, <1>2
<1>4. Unqueue(b, total, last) = SubSeq(b, count + 1, Len(b))
  BY DEF Unqueue, count
<1> QED
  BY <1>2, <1>3, <1>4

\* Emptying a buffer up to a packet leaves the packets after it.
LEMMA UnqueueWindow ==
  ASSUME NEW b \in Seq(Nat), NEW total \in Nat, NEW last \in Nat, Window(b, total)
  PROVE  LET r == Unqueue(b, total, last) IN
         /\ r \in Seq(Nat)
         /\ Window(r, total)
         /\ total - Len(r) >= total - Len(b)
         /\ total - Len(r) <= total - Len(b) \/ total - Len(r) <= last
         /\ total - Len(b) <= last /\ last <= total => total - Len(r) = last
<1> DEFINE already == total - Len(b)
           excess  == IF last > already THEN last - already ELSE 0
           count   == IF excess > Len(b) THEN Len(b) ELSE excess
           r       == SubSeq(b, count + 1, Len(b))
<1>1. /\ Len(b) \in Nat /\ Len(b) <= total
      /\ count \in 0..Len(b)
      /\ already <= last /\ last <= total => already + count = last
      /\ count = 0 \/ already + count <= last
  BY DEF Window
<1> HIDE DEF count
<1>2. /\ r \in Seq(Nat) /\ Len(r) = Len(b) - count
      /\ \A i \in 1..Len(r) : r[i] = b[count + i]
  <2>1. count + 1 \in 1..(Len(b) + 1)
    BY <1>1
  <2>2. /\ SubSeq(b, count + 1, Len(b)) \in Seq(Nat)
        /\ Len(SubSeq(b, count + 1, Len(b)))
              = IF count + 1 <= Len(b) THEN Len(b) - (count + 1) + 1 ELSE 0
        /\ \A i \in 1..(Len(b) - (count + 1) + 1) :
              SubSeq(b, count + 1, Len(b))[i] = b[count + 1 + i - 1]
    BY <2>1, <1>1, SubSeqProperties
  <2> QED
    BY <2>2, <1>1
<1>3. \A i \in 1..Len(r) : count + i \in 1..Len(b)
  BY <1>1, <1>2
<1> HIDE DEF r
<1>4. Window(r, total)
  <2>1. Len(r) \in Nat /\ Len(r) <= total
    BY <1>1, <1>2
  <2>2. ASSUME NEW i \in 1..Len(r)
        PROVE  r[i] = total - Len(r) + i
    <3>1. r[i] = b[count + i]
      BY <1>2
    <3>2. b[count + i] = total - Len(b) + (count + i)
      BY <1>3 DEF Window
    <3> QED
      BY <3>1, <3>2, <1>1, <1>2, <2>1
  <2> QED
    BY <2>1, <2>2 DEF Window
<1>5. r = Unqueue(b, total, last)
  BY DEF Unqueue, count, r
<1>6. /\ total - Len(r) = already + count
      /\ Len(r) \in Nat
  BY <1>1, <1>2
<1>7. /\ total - Len(r) >= total - Len(b)
      /\ total - Len(r) <= total - Len(b) \/ total - Len(r) <= last
      /\ total - Len(b) <= last /\ last <= total => total - Len(r) = last
  BY <1>1, <1>6
<1> QED
  BY <1>2, <1>4, <1>5, <1>7

\* There is nothing to take from an empty buffer.
LEMMA UnqueueEmpty ==
  ASSUME NEW total \in Nat, NEW last \in Nat
  PROVE  Unqueue(<<>>, total, last) = <<>>
  BY DEF Unqueue

\* A buffer stays one when the next packets are appended.
LEMMA WindowExtend ==
  ASSUME NEW b \in Seq(Nat), NEW total \in Nat, NEW k \in Nat, NEW r \in Seq(Nat),
         Window(b, total), Len(r) = k, \A i \in 1..k : r[i] = total + i
  PROVE  b \o r \in Seq(Nat) /\ Window(b \o r, total + k) /\ Len(b \o r) = Len(b) + k
<1>1. /\ b \o r \in Seq(Nat) /\ Len(b \o r) = Len(b) + k
      /\ Len(b) \in Nat
      /\ \A i \in 1..Len(b \o r) :
            (b \o r)[i] = IF i <= Len(b) THEN b[i] ELSE r[i - Len(b)]
  <2>1. Len(b) \in Nat
    BY LenProperties
  <2>2. /\ b \o r \in Seq(Nat) /\ Len(b \o r) = Len(b) + Len(r)
        /\ \A i \in 1..Len(b) + Len(r) :
              (b \o r)[i] = IF i <= Len(b) THEN b[i] ELSE r[i - Len(b)]
    BY ConcatProperties, Zenon
  <2> QED
    BY <2>1, <2>2
<1>2. \A i \in 1..Len(b \o r) : i <= Len(b) => (b \o r)[i] = total + k - Len(b \o r) + i
  BY <1>1 DEF Window
<1>3. \A i \in 1..Len(b \o r) : i > Len(b) => (b \o r)[i] = total + k - Len(b \o r) + i
  <2> TAKE i \in 1..Len(b \o r)
  <2> HAVE i > Len(b)
  <2>1. i - Len(b) \in 1..k
    BY <1>1
  <2> QED
    BY <1>1, <2>1
<1> QED
  BY <1>1, <1>2, <1>3 DEF Window

\* A function on 1..n is a sequence of length n.
LEMMA SeqOfFcn ==
  ASSUME NEW S, NEW n \in Nat, NEW f \in [1..n -> S]
  PROVE  f \in Seq(S) /\ Len(f) = n
<1>1. f \in Seq(S)
  BY SeqDef
<1>2. Len(f) \in Nat /\ 1..n = 1..Len(f)
  BY <1>1, LenProperties
<1> QED
  BY <1>1, <1>2

\* The packets of a buffer, put on a FIFO, are those that are still kept.
LEMMA PktsStream ==
  ASSUME NEW b \in Seq(Nat), NEW total \in Nat, Window(b, total)
  PROVE  /\ Pkts(b) \in Seq(Msgs) /\ Len(Pkts(b)) = Len(b)
         /\ Stream(Pkts(b), total - Len(b), total)
         /\ \A i \in 1..Len(b) : Pkts(b)[i].t = "pkt"
<1>1. /\ Pkts(b) \in Seq(Msgs) /\ Len(Pkts(b)) = Len(b)
      /\ \A i \in 1..Len(b) : Pkts(b)[i] = [t |-> "pkt", n |-> total - Len(b) + i]
  <2>1. \A i \in 1..Len(b) : b[i] \in Nat /\ b[i] = total - Len(b) + i
    BY ElementOfSeq DEF Window
  <2>2. \A i \in 1..Len(b) : Pkt(b[i]) \in Msgs /\ Pkt(b[i]) = [t |-> "pkt", n |-> total - Len(b) + i]
    BY <2>1 DEF Pkt, Msgs
  <2>3. Len(b) \in Nat
    BY LenProperties
  <2>4. /\ Pkts(b) \in [1..Len(b) -> Msgs]
        /\ \A i \in 1..Len(b) : Pkts(b)[i] = Pkt(b[i])
    BY <2>2, Zenon DEF Pkts
  <2>5. Pkts(b) \in Seq(Msgs) /\ Len(Pkts(b)) = Len(b)
    BY <2>3, <2>4, SeqOfFcn
  <2> QED
    BY <2>2, <2>4, <2>5
<1>2. \A n \in (total - Len(b) + 1)..total : n - (total - Len(b)) \in 1..Len(b)
  BY DEF Window
<1>3. Len(b) \in Nat /\ Len(b) <= total
  BY DEF Window
<1>4. \A i \in 1..Len(b) : Pkts(b)[i].t = "pkt" /\ Pkts(b)[i].n = total - Len(b) + i
  <2> TAKE i \in 1..Len(b)
  <2>1. Pkts(b)[i] = Pkt(b[i]) /\ b[i] = total - Len(b) + i
    BY DEF Pkts, Window
  <2> QED
    BY <2>1 DEF Pkt
<1>5. \A n \in (total - Len(b) + 1)..total :
         \E i \in 1..Len(Pkts(b)) : Pkts(b)[i].t = "pkt" /\ Pkts(b)[i].n = n
  <2> TAKE n \in (total - Len(b) + 1)..total
  <2>1. n - (total - Len(b)) \in 1..Len(b)
    BY <1>3
  <2>2. n = total - Len(b) + (n - (total - Len(b)))
    BY <1>3
  <2> QED
    BY <1>1, <2>1, <2>2, <1>4
<1> QED
  BY <1>1, <1>3, <1>4, <1>5 DEF Stream

\* No packets lead from a number to itself.
LEMMA StreamEmpty ==
  ASSUME NEW f \in Nat
  PROVE  Stream(<<>>, f, f)
  BY DEF Stream

\* Reading the head of a FIFO: a packet is the next one, anything else changes nothing.
LEMMA StreamHead ==
  ASSUME NEW q \in Seq(Msgs), q # <<>>, NEW f \in Nat, NEW u \in Nat, Stream(q, f, u)
  PROVE  /\ Head(q).t = "pkt" =>
              Head(q).n = f + 1 /\ f + 1 <= u /\ Stream(Tail(q), f + 1, u)
         /\ Head(q).t # "pkt" => Stream(Tail(q), f, u)
         /\ Tail(q) \in Seq(Msgs)
<1>0. /\ Head(q) = q[1] /\ Tail(q) \in Seq(Msgs) /\ Len(Tail(q)) = Len(q) - 1
      /\ Len(q) \in Nat /\ Len(q) > 0
      /\ \A i \in 1..Len(Tail(q)) : Tail(q)[i] = q[i + 1]
      /\ \A i \in 1..Len(q) : q[i].n \in Nat
  <2>1. \A i \in 1..Len(q) : q[i] \in Msgs
    BY ElementOfSeq
  <2>2. \A i \in 1..Len(q) : q[i].n \in Nat
    BY <2>1 DEF Msgs
  <2>3. Len(q) \in Nat /\ Len(q) > 0
    BY EmptySeq, LenProperties
  <2> QED
    BY <2>2, <2>3, HeadTailProperties
<1>1. ASSUME q[1].t = "pkt"
      PROVE  q[1].n = f + 1 /\ f + 1 <= u /\ Stream(Tail(q), f + 1, u)
  <2>1. f < q[1].n /\ q[1].n <= u
    BY <1>0, <1>1 DEF Stream
  <2>2. PICK i \in 1..Len(q) : q[i].t = "pkt" /\ q[i].n = f + 1
    BY <2>1, <1>0 DEF Stream
  <2>3. q[1].n = f + 1
    <3>1. CASE i = 1
      BY <2>2, <3>1
    <3>2. CASE i # 1
      BY <2>1, <2>2, <3>2, <1>0, <1>1 DEF Stream
    <3> QED
      BY <3>1, <3>2
  <2>4. \A j \in 2..Len(q) : q[j].t = "pkt" => f + 1 < q[j].n /\ q[j].n <= u
    BY <2>3, <1>0, <1>1 DEF Stream
  <2>5. \A n \in (f + 2)..u : \E j \in 2..Len(q) : q[j].t = "pkt" /\ q[j].n = n
    <3> TAKE n \in (f + 2)..u
    <3>1. PICK j \in 1..Len(q) : q[j].t = "pkt" /\ q[j].n = n
      BY DEF Stream
    <3> QED
      BY <3>1, <2>3
  <2>6. Stream(Tail(q), f + 1, u)
    <3>1. \A j \in 1..Len(Tail(q)) : j + 1 \in 2..Len(q)
      BY <1>0
    <3>2. \A j \in 2..Len(q) : j - 1 \in 1..Len(Tail(q)) /\ Tail(q)[j - 1] = q[j]
      BY <1>0
    <3>3. \A n \in ((f + 1) + 1)..u : \E j \in 1..Len(Tail(q)) :
             Tail(q)[j].t = "pkt" /\ Tail(q)[j].n = n
      <4> TAKE n \in ((f + 1) + 1)..u
      <4>1. PICK j \in 2..Len(q) : q[j].t = "pkt" /\ q[j].n = n
        BY <2>5
      <4> QED
        BY <4>1, <3>2
    <3>4. \A i1, j1 \in 1..Len(Tail(q)) :
             i1 < j1 /\ Tail(q)[i1].t = "pkt" /\ Tail(q)[j1].t = "pkt"
               => Tail(q)[i1].n < Tail(q)[j1].n
      BY <1>0 DEF Stream
    <3>5. \A i1 \in 1..Len(Tail(q)) :
             Tail(q)[i1].t = "pkt" => f + 1 < Tail(q)[i1].n /\ Tail(q)[i1].n <= u
      BY <2>4, <3>1, <1>0
    <3> QED
      BY <3>3, <3>4, <3>5 DEF Stream
  <2> QED
    BY <2>1, <2>3, <2>6
<1>2. ASSUME q[1].t # "pkt"
      PROVE  Stream(Tail(q), f, u)
  <2>1. \A j \in 1..Len(Tail(q)) : j + 1 \in 1..Len(q)
    BY <1>0
  <2>2. \A n \in (f + 1)..u : \E j \in 1..Len(Tail(q)) :
           Tail(q)[j].t = "pkt" /\ Tail(q)[j].n = n
    <3> TAKE n \in (f + 1)..u
    <3>1. PICK j \in 1..Len(q) : q[j].t = "pkt" /\ q[j].n = n
      BY DEF Stream
    <3>2. j # 1 /\ j - 1 \in 1..Len(Tail(q)) /\ Tail(q)[j - 1] = q[j]
      BY <3>1, <1>2, <1>0
    <3> QED
      BY <3>1, <3>2
  <2>3. \A i1 \in 1..Len(Tail(q)) :
           Tail(q)[i1].t = "pkt" => f < Tail(q)[i1].n /\ Tail(q)[i1].n <= u
    BY <2>1, <1>0 DEF Stream
  <2>4. \A i1, j1 \in 1..Len(Tail(q)) :
           i1 < j1 /\ Tail(q)[i1].t = "pkt" /\ Tail(q)[j1].t = "pkt"
             => Tail(q)[i1].n < Tail(q)[j1].n
    BY <2>1, <1>0 DEF Stream
  <2> QED
    BY <2>2, <2>3, <2>4 DEF Stream
<1> QED
  BY <1>0, <1>1, <1>2

\* Appending to a FIFO what continues it.
LEMMA StreamConcat ==
  ASSUME NEW q \in Seq(Msgs), NEW r \in Seq(Msgs),
         NEW f \in Nat, NEW m \in Nat, NEW u \in Nat, f <= m, m <= u,
         Stream(q, f, m), Stream(r, m, u)
  PROVE  q \o r \in Seq(Msgs) /\ Stream(q \o r, f, u)
<1> DEFINE s == q \o r
<1>0. /\ s \in Seq(Msgs) /\ Len(s) = Len(q) + Len(r)
      /\ Len(q) \in Nat /\ Len(r) \in Nat
      /\ \A i \in 1..Len(q) : s[i] = q[i]
      /\ \A i \in 1..Len(r) : s[Len(q) + i] = r[i]
      /\ \A i \in 1..Len(q) : q[i].n \in Nat
      /\ \A i \in 1..Len(r) : r[i].n \in Nat
  <2>1. /\ \A i \in 1..Len(q) : q[i] \in Msgs
        /\ \A i \in 1..Len(r) : r[i] \in Msgs
    BY ElementOfSeq
  <2>2. /\ \A i \in 1..Len(q) : q[i].n \in Nat
        /\ \A i \in 1..Len(r) : r[i].n \in Nat
    BY <2>1 DEF Msgs
  <2>3. Len(q) \in Nat /\ Len(r) \in Nat
    BY LenProperties
  <2>4. /\ s \in Seq(Msgs) /\ Len(s) = Len(q) + Len(r)
        /\ \A i \in 1..Len(q) + Len(r) :
              s[i] = IF i <= Len(q) THEN q[i] ELSE r[i - Len(q)]
    BY ConcatProperties, Zenon
  <2> HIDE DEF s
  <2>5. \A i \in 1..Len(q) : i \in 1..Len(q) + Len(r) /\ i <= Len(q)
    BY <2>3
  <2>6. \A i \in 1..Len(r) : /\ Len(q) + i \in 1..Len(q) + Len(r)
                             /\ ~(Len(q) + i <= Len(q))
                             /\ (Len(q) + i) - Len(q) = i
    BY <2>3
  <2> QED
    BY <2>2, <2>3, <2>4, <2>5, <2>6
<1>1. \A i \in 1..Len(s) : i \in 1..Len(q) \/ i - Len(q) \in 1..Len(r)
  BY <1>0
<1>2. \A i \in 1..Len(s) : i \notin 1..Len(q) => s[i] = r[i - Len(q)]
  BY <1>0, <1>1
<1> HIDE DEF s
<1>3. \A i \in 1..Len(s) : s[i].t = "pkt" => f < s[i].n /\ s[i].n <= u
  <2> TAKE i \in 1..Len(s)
  <2> HAVE s[i].t = "pkt"
  <2>1. CASE i \in 1..Len(q)
    <3>1. f < q[i].n /\ q[i].n <= m
      BY <2>1, <1>0 DEF Stream
    <3> QED
      BY <3>1, <2>1, <1>0
  <2>2. CASE i \notin 1..Len(q)
    <3>1. i - Len(q) \in 1..Len(r) /\ s[i] = r[i - Len(q)]
      BY <2>2, <1>1, <1>2
    <3>2. m < r[i - Len(q)].n /\ r[i - Len(q)].n <= u
      BY <3>1 DEF Stream
    <3> QED
      BY <3>1, <3>2, <1>0
  <2> QED
    BY <2>1, <2>2
<1>4. \A i, j \in 1..Len(s) :
         i < j /\ s[i].t = "pkt" /\ s[j].t = "pkt" => s[i].n < s[j].n
  <2> TAKE i, j \in 1..Len(s)
  <2> HAVE i < j /\ s[i].t = "pkt" /\ s[j].t = "pkt"
  <2>1. CASE j \in 1..Len(q)
    <3>1. i \in 1..Len(q)
      BY <2>1, <1>0
    <3>2. s[i] = q[i] /\ s[j] = q[j]
      BY <3>1, <2>1, <1>0
    <3>3. q[i].n < q[j].n
      BY <3>1, <3>2, <2>1 DEF Stream
    <3> QED
      BY <3>2, <3>3
  <2>2. CASE i \in 1..Len(q) /\ j \notin 1..Len(q)
    <3>0. s[i] = q[i]
      BY <2>2, <1>0
    <3>3. j - Len(q) \in 1..Len(r)
      BY <2>2, <1>1
    <3>4. s[j] = r[j - Len(q)]
      BY <2>2, <1>2
    <3>1. j - Len(q) \in 1..Len(r) /\ s[j] = r[j - Len(q)] /\ s[i] = q[i]
      BY <3>0, <3>3, <3>4
    <3>2. q[i].n <= m /\ m < r[j - Len(q)].n
      BY <3>1, <2>2 DEF Stream
    <3>5. q[i].n \in Nat /\ r[j - Len(q)].n \in Nat
      BY <3>3, <2>2, <1>0
    <3> QED
      BY <3>1, <3>2, <3>5
  <2>3. CASE i \notin 1..Len(q)
    <3>1. j \notin 1..Len(q)
      BY <2>3, <1>0
    <3>2. i - Len(q) \in 1..Len(r) /\ j - Len(q) \in 1..Len(r)
      BY <2>3, <3>1, <1>1
    <3>3. s[i] = r[i - Len(q)] /\ s[j] = r[j - Len(q)]
      BY <2>3, <3>1, <1>2
    <3>4. i - Len(q) < j - Len(q)
      BY <1>0
    <3> QED
      BY <3>2, <3>3, <3>4 DEF Stream
  <2> QED
    BY <2>1, <2>2, <2>3
<1>5. \A n \in (f + 1)..u : \E i \in 1..Len(s) : s[i].t = "pkt" /\ s[i].n = n
  <2> TAKE n \in (f + 1)..u
  <2>1. CASE n <= m
    <3>1. PICK i \in 1..Len(q) : q[i].t = "pkt" /\ q[i].n = n
      BY <2>1 DEF Stream
    <3> QED
      BY <3>1, <1>0
  <2>2. CASE n > m
    <3>1. PICK i \in 1..Len(r) : r[i].t = "pkt" /\ r[i].n = n
      BY <2>2 DEF Stream
    <3>2. Len(q) + i \in 1..Len(s)
      BY <1>0
    <3> QED
      BY <3>1, <3>2, <1>0
  <2> QED
    BY <2>1, <2>2
<1> QED
  BY <1>0, <1>3, <1>4, <1>5 DEF s, Stream

\* A message that is not a packet continues any stream.
LEMMA StreamOther ==
  ASSUME NEW m \in Msgs, m.t # "pkt", NEW f \in Nat
  PROVE  <<m>> \in Seq(Msgs) /\ Stream(<<m>>, f, f)
  BY DEF Stream

\* What is appended to a FIFO keeps the bounds that both parts have.
LEMMA QueueConcat ==
  ASSUME NEW q \in Seq(Msgs), NEW r \in Seq(Msgs)
  PROVE  /\ q \o r \in Seq(Msgs)
         /\ \A kinds, b : Bounded(q, kinds, b) /\ Bounded(r, kinds, b)
                            => Bounded(q \o r, kinds, b)
         /\ \A kind : Free(q, kind) /\ Free(r, kind) => Free(q \o r, kind)
         /\ \A kind : Single(q, kind) /\ Free(r, kind) => Single(q \o r, kind)
         /\ \A kind, n : Holds(q, kind, n) => Holds(q \o r, kind, n)
         /\ \A kind, n : Holds(r, kind, n) => Holds(q \o r, kind, n)
         /\ q # <<>> => q \o r # <<>> /\ Head(q \o r) = Head(q)
<1> DEFINE s == q \o r
<1>1. Len(q) \in Nat /\ Len(r) \in Nat
  BY LenProperties
<1>2. /\ s \in Seq(Msgs) /\ Len(s) = Len(q) + Len(r)
      /\ \A i \in 1..Len(q) + Len(r) : s[i] = IF i <= Len(q) THEN q[i] ELSE r[i - Len(q)]
  BY ConcatProperties, Zenon
<1>3. q # <<>> => Len(q) > 0
  BY EmptySeq
<1>4. q # <<>> => s # <<>> /\ Head(s) = Head(q)
  BY <1>1, <1>2, <1>3
<1> HIDE DEF s
<1>5. \A i \in 1..Len(s) : \/ i \in 1..Len(q) /\ s[i] = q[i]
                           \/ i \notin 1..Len(q) /\ i - Len(q) \in 1..Len(r) /\ s[i] = r[i - Len(q)]
  BY <1>1, <1>2
<1>6. \A i \in 1..Len(q) : i \in 1..Len(s) /\ s[i] = q[i]
  BY <1>1, <1>2
<1>7. \A i \in 1..Len(r) : Len(q) + i \in 1..Len(s) /\ s[Len(q) + i] = r[i]
  <2> TAKE i \in 1..Len(r)
  <2>1. /\ Len(q) + i \in 1..Len(q) + Len(r) /\ ~(Len(q) + i <= Len(q))
        /\ (Len(q) + i) - Len(q) = i
    BY <1>1
  <2> QED
    BY <1>2, <2>1
<1>8. \A kinds, b : Bounded(q, kinds, b) /\ Bounded(r, kinds, b) => Bounded(s, kinds, b)
  BY <1>5 DEF Bounded
<1>9. \A kind : Free(q, kind) /\ Free(r, kind) => Free(s, kind)
  BY <1>5 DEF Free
<1>10. \A kind : Single(q, kind) /\ Free(r, kind) => Single(s, kind)
  BY <1>5 DEF Single, Free
<1>11. \A kind, n : Holds(q, kind, n) => Holds(s, kind, n)
  BY <1>6 DEF Holds
<1>12. \A kind, n : Holds(r, kind, n) => Holds(s, kind, n)
  BY <1>7 DEF Holds
<1> QED
  BY <1>2, <1>4, <1>8, <1>9, <1>10, <1>11, <1>12 DEF s

\* Reading a FIFO keeps the bounds, and its head is within them.
LEMMA QueueTail ==
  ASSUME NEW q \in Seq(Msgs), q # <<>>
  PROVE  /\ Head(q) \in Msgs /\ Tail(q) \in Seq(Msgs)
         /\ \A kinds, b : Bounded(q, kinds, b) =>
               Bounded(Tail(q), kinds, b) /\ (Head(q).t \in kinds => Head(q).n <= b)
         /\ \A kind : Free(q, kind) => Free(Tail(q), kind) /\ Head(q).t # kind
         /\ \A kind : Single(q, kind) =>
               Single(Tail(q), kind) /\ (Head(q).t = kind => Free(Tail(q), kind))
         /\ \A kind, n : Holds(q, kind, n) /\ Head(q).t # kind => Holds(Tail(q), kind, n)
         /\ \A kind, n : Holds(q, kind, n) /\ Single(q, kind) /\ Head(q).t = kind
               => Head(q).n = n
<1>1. /\ Head(q) \in Msgs /\ Tail(q) \in Seq(Msgs) /\ Len(Tail(q)) = Len(q) - 1
      /\ \A i \in 1..Len(Tail(q)) : Tail(q)[i] = q[i + 1]
  BY HeadTailProperties
<1>2. Len(q) \in Nat /\ Len(q) > 0 /\ Head(q) = q[1]
  BY EmptySeq
<1>3. \A i \in 1..Len(Tail(q)) : i + 1 \in 1..Len(q) /\ i + 1 # 1
  BY <1>1, <1>2
<1>4. \A i \in 1..Len(q) : i # 1 => i - 1 \in 1..Len(Tail(q)) /\ q[i] = Tail(q)[i - 1]
  BY <1>1, <1>2
<1>5. 1 \in 1..Len(q)
  BY <1>2
<1>6. \A kinds, b : Bounded(q, kinds, b) =>
         Bounded(Tail(q), kinds, b) /\ (Head(q).t \in kinds => Head(q).n <= b)
  BY <1>1, <1>2, <1>3, <1>5 DEF Bounded
<1>7. \A kind : Free(q, kind) => Free(Tail(q), kind) /\ Head(q).t # kind
  BY <1>1, <1>2, <1>3, <1>5 DEF Free
<1>8. \A kind : Single(q, kind) =>
         Single(Tail(q), kind) /\ (Head(q).t = kind => Free(Tail(q), kind))
  BY <1>1, <1>2, <1>3, <1>5 DEF Single, Free
<1>9. \A kind, n : Holds(q, kind, n) /\ Head(q).t # kind => Holds(Tail(q), kind, n)
  BY <1>2, <1>4 DEF Holds
<1>10. \A kind, n : Holds(q, kind, n) /\ Single(q, kind) /\ Head(q).t = kind
         => Head(q).n = n
  BY <1>2, <1>5 DEF Holds, Single
<1> QED
  BY <1>1, <1>6, <1>7, <1>8, <1>9, <1>10

\* A FIFO with one message is empty once it is read.
LEMMA TailOfOne ==
  ASSUME NEW q \in Seq(Msgs), Len(q) = 1
  PROVE  q # <<>> /\ Head(q) \in Msgs /\ Tail(q) = <<>>
<1>1. q # <<>>
  BY EmptySeq
<1>2. Tail(q) \in Seq(Msgs) /\ Len(Tail(q)) = 0 /\ Head(q) \in Msgs
  BY <1>1, HeadTailProperties
<1> QED
  BY <1>1, <1>2, EmptySeq

\* The replayed packets of a buffer hold no acks and no handshake.
LEMMA PktsPlain ==
  ASSUME NEW b \in Seq(Nat)
  PROVE  /\ Pkts(b) \in Seq(Msgs)
         /\ \A kind : kind # "pkt" => Free(Pkts(b), kind)
         /\ \A kinds, x : "pkt" \notin kinds => Bounded(Pkts(b), kinds, x)
<1>1. Pkts(b) \in Seq(Msgs) /\ Len(Pkts(b)) = Len(b)
  BY DEF Pkts, Pkt, Msgs
<1>2. \A i \in 1..Len(b) : Pkts(b)[i].t = "pkt"
  BY DEF Pkts, Pkt
<1> QED
  BY <1>1, <1>2 DEF Free, Bounded

-----------------------------------------------------------------------------
(* Type correctness                                                        *)

\* Sending keeps the FIFO's type.
LEMMA PutType ==
  ASSUME TypeOK, NEW sock, NEW msgs \in Seq(Msgs), Put(sock, msgs)
  PROVE  s2c' \in Seq(Msgs)
  BY ConcatProperties DEF TypeOK, Put

\* Closing a connection keeps the FIFOs' type.
LEMMA CloseType ==
  ASSUME TypeOK, NEW c, Close(c)
  PROVE  c2s' \in [Conns -> Seq(Msgs)]
  BY DEF TypeOK, Close

\* The client's sending keeps the FIFOs' type.
LEMMA ClientPutType ==
  ASSUME TypeOK, NEW msgs \in Seq(Msgs), ClientPut(msgs)
  PROVE  c2s' \in [Conns -> Seq(Msgs)]
<1>1. \A c \in Conns : c2s[c] \o msgs \in Seq(Msgs)
  BY ConcatProperties DEF TypeOK
<1> QED
  BY <1>1 DEF TypeOK, ClientPut

\* Emitting game packets keeps the counters' and the buffer's types.
LEMMA EmitType ==
  ASSUME TypeOK, NEW k \in Nat, Emit(k)
  PROVE  /\ sent' \in Nat /\ buffer' \in Seq(Nat) /\ Len(buffer') <= sent'
         /\ s2c' \in Seq(Msgs) /\ unkept' \in Nat
<1>1. sent' \in Nat /\ sent' = sent + k /\ Numbers(k) \in Seq(Nat) /\ Len(Numbers(k)) = k
  BY DEF TypeOK, Emit, Numbers
<1>2. buffer' \in Seq(Nat) /\ Len(buffer') <= Len(buffer) + k
  <2>1. buffer \o Numbers(k) \in Seq(Nat) /\ Len(buffer \o Numbers(k)) = Len(buffer) + k
    BY <1>1, ConcatProperties DEF TypeOK
  <2> QED
    BY <2>1, LenProperties DEF TypeOK, Emit
<1>3. Pkts(Numbers(k)) \in Seq(Msgs)
  BY <1>1, PktsPlain
<1> QED
  <2>1. s2c' \in Seq(Msgs)
    BY <1>3, PutType DEF Emit
  <2>2. Len(buffer) <= sent /\ sent \in Nat /\ Len(buffer) \in Nat /\ Len(buffer') \in Nat
    BY <1>2, LenProperties DEF TypeOK
  <2>3. unkept' \in Nat
    BY <1>1 DEF Emit, TypeOK
  <2> QED
    BY <1>1, <1>2, <2>1, <2>2, <2>3

\* The messages the two ends put on a connection are messages.
LEMMA MessageTypes ==
  ASSUME TypeOK
  PROVE  /\ <<Ack(Len(sgot))>> \in Seq(Msgs) /\ <<Ack(Len(cgot))>> \in Seq(Msgs)
         /\ <<Recon(Len(sgot))>> \in Seq(Msgs) /\ <<Recon(Len(cgot))>> \in Seq(Msgs)
         /\ <<Pkt(csent + 1)>> \in Seq(Msgs)
         /\ <<Hello>> \in Seq(Msgs) /\ <<Reject>> \in Seq(Msgs) /\ <<>> \in Seq(Msgs)
         /\ \A c \in Conns : c2s[c] # <<>> =>
               Head(c2s[c]) \in Msgs /\ Tail(c2s[c]) \in Seq(Msgs) /\ Head(c2s[c]).n \in Nat
         /\ s2c # <<>> => Head(s2c) \in Msgs /\ Tail(s2c) \in Seq(Msgs) /\ Head(s2c).n \in Nat
<1>1. Len(sgot) \in Nat /\ Len(cgot) \in Nat /\ csent + 1 \in Nat
  BY LenProperties DEF TypeOK
<1>2. /\ \A c \in Conns : c2s[c] # <<>> => Head(c2s[c]) \in Msgs /\ Tail(c2s[c]) \in Seq(Msgs)
      /\ s2c # <<>> => Head(s2c) \in Msgs /\ Tail(s2c) \in Seq(Msgs)
  BY HeadTailProperties DEF TypeOK
<1>3. \A m \in Msgs : m.n \in Nat
  BY DEF Msgs
<1>4. \A x \in Nat : /\ Ack(x) \in Msgs /\ Recon(x) \in Msgs /\ Pkt(x) \in Msgs
                     /\ Hello \in Msgs /\ Reject \in Msgs
  BY DEF Msgs, Ack, Recon, Pkt, Hello, Reject
<1> QED
  BY <1>1, <1>2, <1>3, <1>4

\* There may be no connection.
LEMMA NoConn == 0 \in 0..MaxConns
  BY BoundsAssumption

\* TypeOK holds initially.
LEMMA TypeInit == Init => TypeOK
<1> SUFFICES ASSUME Init PROVE TypeOK
  OBVIOUS
<1>1. Hello \in Msgs
  BY DEF Hello, Msgs
<1>2. c2s \in [Conns -> Seq(Msgs)]
  BY <1>1 DEF Init
<1> QED
  <2>1. <<1>> \in Seq(Nat) /\ <<>> \in Seq(Nat) /\ <<>> \in Seq(Msgs)
    OBVIOUS
  <2>2. 1 \in 0..MaxConns /\ 1 \in 1..MaxConns
    BY BoundsAssumption
  <2>3. sent \in Nat /\ buffer \in Seq(Nat) /\ Len(buffer) <= sent
    BY <2>1 DEF Init
  <2> QED
    BY <1>2, <2>1, <2>2, <2>3 DEF Init, TypeOK

\* TypeOK is inductive.
LEMMA TypeNext == TypeOK /\ [Next]_vars => TypeOK'
<1> SUFFICES ASSUME TypeOK, [Next]_vars PROVE TypeOK'
  OBVIOUS
<1>1. CASE ServerSend
  BY <1>1, EmitType DEF TypeOK, ServerSend, client
<1>2. CASE Load
  BY <1>2 DEF TypeOK, Load, client, net
<1>3. CASE ServerAck
  BY <1>3, MessageTypes, PutType DEF TypeOK, ServerAck, client, server
<1>4. CASE ServerRecv
  <2> DEFINE m == Head(c2s[ssock])
  <2>1. ssock \in Conns /\ m \in Msgs /\ m.n \in Nat /\ Tail(c2s[ssock]) \in Seq(Msgs)
    BY <1>4, MessageTypes DEF TypeOK, ServerRecv, Conns
  <2>2. c2s' \in [Conns -> Seq(Msgs)]
    BY <1>4, <2>1 DEF TypeOK, ServerRecv
  <2>3. s2c' \in Seq(Msgs)
    BY <1>4, PutType, MessageTypes DEF ServerRecv
  <2>4. buffer' \in Seq(Nat) /\ Len(buffer') <= sent
    <3>1. buffer \in Seq(Nat) /\ sent \in Nat /\ Len(buffer) \in Nat /\ Len(buffer) <= sent
      BY LenProperties DEF TypeOK
    <3>2. Unqueue(buffer, sent, m.n) \in Seq(Nat) /\ Len(Unqueue(buffer, sent, m.n)) <= Len(buffer)
      BY <2>1, <3>1, UnqueueType
    <3>3. buffer' = IF m.t = "ack" THEN Unqueue(buffer, sent, m.n) ELSE buffer
      BY <1>4 DEF ServerRecv
    <3>4. Len(Unqueue(buffer, sent, m.n)) \in Nat
      BY <3>2, LenProperties
    <3> QED
      BY <3>1, <3>2, <3>3, <3>4
  <2>5. sgot' \in Seq(Nat)
    BY <1>4, <2>1, AppendProperties DEF TypeOK, ServerRecv
  <2>6. gproxy' \in BOOLEAN
    BY <1>4 DEF TypeOK, ServerRecv
  <2> QED
    BY <1>4, <2>2, <2>3, <2>4, <2>5, <2>6 DEF TypeOK, ServerRecv, client
<1>5. CASE ServerSocketClosed
  <2>1. c2s' \in [Conns -> Seq(Msgs)]
    BY <1>5, CloseType DEF ServerSocketClosed
  <2>2. /\ sent' \in Nat /\ buffer' \in Seq(Nat) /\ Len(buffer') <= sent'
        /\ s2c' \in Seq(Msgs) /\ unkept' \in Nat
    BY <1>5, EmitType DEF TypeOK, ServerSocketClosed
  <2>3. phase' \in {"loading", "loaded", "gone"} /\ noticeSent' \in BOOLEAN
    BY <1>5 DEF TypeOK, ServerSocketClosed
  <2>4. ssock' \in 0..MaxConns
    BY <1>5, NoConn DEF TypeOK, ServerSocketClosed
  <2> QED
    BY <1>5, <2>1, <2>2, <2>3, <2>4 DEF TypeOK, ServerSocketClosed, client
<1>6. CASE ServerTimedOut
  <2>1. c2s' \in [Conns -> Seq(Msgs)]
    BY <1>6, CloseType DEF TypeOK, ServerTimedOut
  <2>2. /\ sent' \in Nat /\ buffer' \in Seq(Nat) /\ Len(buffer') <= sent'
        /\ s2c' \in Seq(Msgs) /\ unkept' \in Nat
    BY <1>6, EmitType DEF TypeOK, ServerTimedOut
  <2>3. phase' \in {"loading", "loaded", "gone"} /\ noticeSent' \in BOOLEAN
    BY <1>6 DEF TypeOK, ServerTimedOut
  <2>4. ssock' \in 0..MaxConns
    BY <1>6, NoConn DEF TypeOK, ServerTimedOut
  <2> QED
    BY <1>6, <2>1, <2>2, <2>3, <2>4 DEF TypeOK, ServerTimedOut, client
<1>7. CASE ServerDrop
  BY <1>7, CloseType, NoConn DEF TypeOK, ServerDrop, client
<1>8. ASSUME NEW c \in Conns, ReconnectSocketLost(c) PROVE TypeOK'
  BY <1>8, CloseType DEF TypeOK, ReconnectSocketLost, client
<1>9. ASSUME NEW c \in Conns, EventGProxyReconnect(c) PROVE TypeOK'
  <2> DEFINE keep == Unqueue(buffer, sent, Head(c2s[c]).n)
  <2>1. c2s[c] # <<>> /\ Head(c2s[c]).n \in Nat /\ Tail(c2s[c]) \in Seq(Msgs)
    BY <1>9, MessageTypes DEF EventGProxyReconnect
  <2>2. keep \in Seq(Nat) /\ sent + 1 \in Nat /\ Len(keep) <= sent
    <3>1. buffer \in Seq(Nat) /\ sent \in Nat /\ Len(buffer) \in Nat /\ Len(buffer) <= sent
      BY LenProperties DEF TypeOK
    <3>2. keep \in Seq(Nat) /\ Len(keep) <= Len(buffer)
      BY <3>1, <2>1, UnqueueType
    <3>3. Len(keep) \in Nat
      BY <3>2, LenProperties
    <3> HIDE DEF keep
    <3> QED
      BY <3>1, <3>2, <3>3
  <2> HIDE DEF keep
  <2>3. Append(keep, sent + 1) \in Seq(Nat) /\ Len(Append(keep, sent + 1)) <= sent + 1
    <3>1. Append(keep, sent + 1) \in Seq(Nat) /\ Len(Append(keep, sent + 1)) = Len(keep) + 1
      BY <2>2, AppendProperties
    <3>2. Len(keep) \in Nat /\ sent \in Nat
      BY <2>2, LenProperties DEF TypeOK
    <3> QED
      BY <2>2, <3>1, <3>2
  <2>4. <<Recon(Len(sgot))>> \o Pkts(Append(keep, sent + 1)) \in Seq(Msgs)
    BY <2>3, PktsPlain, ConcatProperties, MessageTypes
  <2>5. s2c' \in Seq(Msgs)
    BY <1>9, <2>4, PutType DEF EventGProxyReconnect, keep
  <2>6. c2s' \in [Conns -> Seq(Msgs)]
    BY <1>9, <2>1 DEF TypeOK, EventGProxyReconnect
  <2>7. sent' \in Nat /\ buffer' \in Seq(Nat) /\ Len(buffer') <= sent'
    BY <1>9, <2>2, <2>3 DEF EventGProxyReconnect, keep
  <2>8. ssock' \in 0..MaxConns /\ pending' \subseteq Conns
    BY <1>9 DEF TypeOK, EventGProxyReconnect, Conns
  <2> QED
    BY <1>9, <2>5, <2>6, <2>7, <2>8 DEF TypeOK, EventGProxyReconnect, client
<1>10. ASSUME NEW c \in Conns, RejectReconnect(c) PROVE TypeOK'
  BY <1>10, MessageTypes, PutType, CloseType DEF TypeOK, RejectReconnect, client
<1>11. CASE ClientSend
  <2>1. c2s' \in [Conns -> Seq(Msgs)]
    BY <1>11, ClientPutType, MessageTypes DEF ClientSend
  <2>2. cbuf' \in Seq(Nat)
    BY <1>11, AppendProperties DEF TypeOK, ClientSend
  <2> QED
    BY <1>11, <2>1, <2>2 DEF TypeOK, ClientSend, server
<1>12. CASE ClientAck
  BY <1>12, MessageTypes, ClientPutType DEF TypeOK, ClientAck, client, server
<1>13. CASE ClientRecv
  <2> DEFINE keep == Unqueue(cbuf, csent, Head(s2c).n)
  <2>1. Head(s2c).n \in Nat /\ Tail(s2c) \in Seq(Msgs)
    BY <1>13, MessageTypes DEF ClientRecv
  <2>2. keep \in Seq(Nat) /\ Pkts(keep) \in Seq(Msgs)
    BY <2>1, UnqueueType, PktsPlain DEF TypeOK
  <2>3. c2s' \in [Conns -> Seq(Msgs)]
    BY <1>13, <2>2, ClientPutType, MessageTypes DEF ClientRecv
  <2>4. cbuf' \in Seq(Nat)
    BY <1>13, <2>2 DEF TypeOK, ClientRecv
  <2>5. cgot' \in Seq(Nat)
    BY <1>13, <2>1, AppendProperties DEF TypeOK, ClientRecv
  <2>6. s2c' \in Seq(Msgs)
    BY <1>13, <2>1 DEF ClientRecv
  <2>7. csync' \in BOOLEAN /\ key' \in BOOLEAN /\ cconn' \in 0..MaxConns
    BY <1>13, NoConn DEF TypeOK, ClientRecv
  <2> QED
    BY <1>13, <2>3, <2>4, <2>5, <2>6, <2>7 DEF TypeOK, ClientRecv, server
<1>14. CASE ClientLost
  <2>1. cconn' \in 0..MaxConns
    BY <1>14, NoConn DEF ClientLost
  <2>2. s2c' \in Seq(Msgs)
    BY <1>14 DEF ClientLost
  <2> QED
    BY <1>14, <2>1, <2>2 DEF TypeOK, ClientLost, server
<1>15. CASE ClientReconnect
  <2>1. nconn + 1 \in Conns
    BY <1>15, BoundsAssumption DEF TypeOK, ClientReconnect, Conns
  <2>2. c2s' \in [Conns -> Seq(Msgs)]
    BY <1>15, <2>1, MessageTypes DEF TypeOK, ClientReconnect
  <2> QED
    BY <1>15, <2>1, <2>2 DEF TypeOK, ClientReconnect, Conns
<1>16. CASE UNCHANGED vars
  BY <1>16 DEF TypeOK, vars, server, client, net
<1> QED
  BY <1>1, <1>2, <1>3, <1>4, <1>5, <1>6, <1>7, <1>8, <1>9, <1>10, <1>11, <1>12,
     <1>13, <1>14, <1>15, <1>16 DEF Next

\* Every reachable state of the session is well typed: packet numbers and counts
\* stay natural numbers whatever the network and the client do.
THEOREM TypeCorrect == Spec => []TypeOK
  BY TypeInit, TypeNext, PTL DEF Spec

-----------------------------------------------------------------------------
(* What the parts of a step do                                             *)

\* What TypeOK says of each variable.
LEMMA TypeFacts ==
  ASSUME TypeOK
  PROVE  /\ sent \in Nat /\ buffer \in Seq(Nat) /\ Len(buffer) \in Nat /\ Len(buffer) <= sent
         /\ csent \in Nat /\ cbuf \in Seq(Nat) /\ Len(cbuf) \in Nat
         /\ cgot \in Seq(Nat) /\ Len(cgot) \in Nat /\ sgot \in Seq(Nat) /\ Len(sgot) \in Nat
         /\ ssock \in Nat /\ cconn \in Nat /\ nconn \in Nat /\ nconn >= 1
         /\ s2c \in Seq(Msgs)
         /\ \A c \in Conns : c2s[c] \in Seq(Msgs)
         /\ ssock # 0 => ssock \in Conns
         /\ cconn # 0 => cconn \in Conns
         /\ Conns = 1..MaxConns /\ MaxConns \in Nat /\ MaxConns >= 1
<1>1. MaxConns \in Nat /\ MaxConns >= 1
  BY BoundsAssumption
<1>2. Len(buffer) \in Nat /\ Len(cbuf) \in Nat /\ Len(cgot) \in Nat /\ Len(sgot) \in Nat
  BY LenProperties DEF TypeOK
<1>3. \A c \in Conns : c2s[c] \in Seq(Msgs)
  BY DEF TypeOK
<1> QED
  BY <1>1, <1>2, <1>3 DEF TypeOK, Conns

\* Putting nothing changes nothing.
LEMMA PutNothing ==
  ASSUME TypeOK, NEW sock, Put(sock, <<>>)
  PROVE  s2c' = s2c
  BY TypeFacts, ConcatEmpty DEF Put

\* A client that sends nothing changes no FIFO.
LEMMA ClientPutNothing ==
  ASSUME TypeOK, ClientPut(<<>>)
  PROVE  c2s' = c2s
<1>1. CASE cconn # 0 /\ cconn \in pending \cup {ssock}
  <2>1. cconn \in Conns /\ c2s[cconn] \o <<>> = c2s[cconn]
    BY <1>1, TypeFacts, ConcatEmpty
  <2> QED
    BY <1>1, <2>1 DEF ClientPut, TypeOK
<1>2. CASE ~(cconn # 0 /\ cconn \in pending \cup {ssock})
  BY <1>2 DEF ClientPut
<1> QED
  BY <1>1, <1>2

\* What the bot puts on a connection in use at both ends continues the stream; put on
\* any other it is lost.
LEMMA PutStream ==
  ASSUME TypeOK, DownStream, NEW msgs \in Seq(Msgs), NEW u \in Nat, sent <= u,
         Stream(msgs, sent, u), Put(ssock, msgs)
  PROVE  \E t \in 0..u : /\ Stream(s2c', Len(cgot), t)
                         /\ cconn # 0 /\ cconn = ssock => t = u
<1>0. sent \in Nat /\ Len(cgot) \in Nat /\ s2c \in Seq(Msgs) /\ Len(cgot) <= sent
  BY TypeFacts DEF DownStream
<1>1. PICK t \in 0..sent : /\ Stream(s2c, Len(cgot), t)
                           /\ cconn # 0 /\ cconn = ssock => t = sent
  BY DEF DownStream
<1>2. CASE cconn # 0 /\ cconn = ssock
  <2>1. s2c' = s2c \o msgs /\ t = sent
    BY <1>1, <1>2 DEF Put
  <2>2. Stream(s2c, Len(cgot), sent)
    BY <1>1, <2>1
  <2>3. Stream(s2c \o msgs, Len(cgot), u)
    BY <1>0, <2>2, StreamConcat
  <2>4. u \in 0..u
    OBVIOUS
  <2> QED
    BY <2>1, <2>3, <2>4
<1>3. CASE ~(cconn # 0 /\ cconn = ssock)
  <2>1. s2c' = s2c
    BY <1>3 DEF Put
  <2>2. t \in 0..u
    BY <1>0
  <2> QED
    BY <1>1, <1>3, <2>1, <2>2
<1> QED
  BY <1>2, <1>3

\* It reaches no client that has no connection or waits for its reconnect socket.
LEMMA PutWire ==
  ASSUME TypeOK, Wiring, NEW msgs, Put(ssock, msgs)
  PROVE  /\ cconn = 0 => s2c' = <<>>
         /\ \A c \in pending : c = cconn => s2c' = <<>>
  BY DEF Wiring, Put

\* It carries no count that is too high, and no handshake, if the messages do not.
LEMMA PutPlain ==
  ASSUME TypeOK, Counts, Handshake, NEW sock, NEW msgs \in Seq(Msgs), Put(sock, msgs),
         Bounded(msgs, {"ack", "recon"}, Len(sgot)), Free(msgs, "recon"), Free(msgs, "reject")
  PROVE  /\ s2c' \in Seq(Msgs)
         /\ Bounded(s2c', {"ack", "recon"}, Len(sgot))
         /\ csync => Free(s2c', "recon")
         /\ Single(s2c', "recon")
         /\ ssock # 0 /\ ssock = cconn /\ ~csync => Holds(s2c', "recon", Len(sgot))
         /\ phase # "gone" => Free(s2c', "reject")
<1>1. s2c \in Seq(Msgs)
  BY TypeFacts
<1>2. s2c' = s2c \/ s2c' = s2c \o msgs
  BY DEF Put
<1>3. CASE s2c' = s2c
  BY <1>1, <1>3 DEF Counts, Handshake
<1>4. CASE s2c' = s2c \o msgs
  <2>1. s2c \o msgs \in Seq(Msgs)
    BY <1>1, QueueConcat
  <2>2. Bounded(s2c \o msgs, {"ack", "recon"}, Len(sgot))
    BY <1>1, QueueConcat DEF Counts
  <2>3. csync => Free(s2c \o msgs, "recon")
    BY <1>1, QueueConcat DEF Handshake
  <2>4. Single(s2c \o msgs, "recon")
    BY <1>1, QueueConcat DEF Handshake
  <2>5. ssock # 0 /\ ssock = cconn /\ ~csync => Holds(s2c \o msgs, "recon", Len(sgot))
    BY <1>1, QueueConcat DEF Handshake
  <2>6. phase # "gone" => Free(s2c \o msgs, "reject")
    BY <1>1, QueueConcat DEF Handshake
  <2> QED
    BY <1>4, <2>1, <2>2, <2>3, <2>4, <2>5, <2>6
<1> QED
  BY <1>2, <1>3, <1>4

\* The packets of a CGamePlayer::Send.
LEMMA NumbersStream ==
  ASSUME NEW n \in Nat, n = sent, NEW k \in Nat
  PROVE  /\ Numbers(k) \in Seq(Nat) /\ Len(Numbers(k)) = k
         /\ \A i \in 1..k : Numbers(k)[i] = sent + i
         /\ Pkts(Numbers(k)) \in Seq(Msgs)
         /\ Stream(Pkts(Numbers(k)), sent, sent + k)
         /\ Free(Pkts(Numbers(k)), "recon") /\ Free(Pkts(Numbers(k)), "reject")
         /\ \A b : Bounded(Pkts(Numbers(k)), {"ack", "recon"}, b)
<1>1. /\ Numbers(k) \in [1..k -> Nat]
      /\ \A i \in 1..k : Numbers(k)[i] = sent + i
  BY DEF Numbers
<1>2. Numbers(k) \in Seq(Nat) /\ Len(Numbers(k)) = k
  BY <1>1, SeqOfFcn
<1>3. sent + k \in Nat /\ (sent + k) - k = sent
  OBVIOUS
<1>4. Window(Numbers(k), sent + k)
  BY <1>1, <1>2, <1>3 DEF Window
<1>5. Stream(Pkts(Numbers(k)), sent, sent + k) /\ Pkts(Numbers(k)) \in Seq(Msgs)
  BY <1>2, <1>3, <1>4, PktsStream
<1>6. /\ Free(Pkts(Numbers(k)), "recon") /\ Free(Pkts(Numbers(k)), "reject")
      /\ \A b : Bounded(Pkts(Numbers(k)), {"ack", "recon"}, b)
  BY <1>2, PktsPlain
<1> QED
  BY <1>1, <1>2, <1>5, <1>6

\* What CGamePlayer::Send does to the buffer and the FIFO while the player is in the
\* game.
LEMMA EmitKeeps ==
  ASSUME IInv, NEW k \in Nat, Emit(k), phase # "gone"
  PROVE  /\ sent' = sent + k /\ sent' \in Nat
         /\ Window(buffer', sent')
         /\ phase = "loading" => buffer' = <<>> /\ unkept' = sent'
         /\ phase = "loaded" => sent' - Len(buffer') = Base /\ unkept' = unkept
         /\ Put(ssock, Pkts(Numbers(k)))
         /\ \E t \in 0..sent' : /\ Stream(s2c', Len(cgot), t)
                                /\ cconn # 0 /\ cconn = ssock => t = sent'
         /\ Bounded(s2c', {"ack", "recon"}, Len(sgot))
         /\ csync => Free(s2c', "recon")
         /\ Single(s2c', "recon")
         /\ ssock # 0 /\ ssock = cconn /\ ~csync => Holds(s2c', "recon", Len(sgot))
         /\ Free(s2c', "reject")
<1>0. /\ TypeOK /\ Windows /\ Phases /\ DownStream /\ Counts /\ Handshake
      /\ sent \in Nat /\ buffer \in Seq(Nat)
  BY TypeFacts DEF IInv
<1>1. sent' = sent + k /\ sent' \in Nat /\ sent <= sent'
  BY <1>0 DEF Emit
<1>2. /\ Numbers(k) \in Seq(Nat) /\ Len(Numbers(k)) = k
      /\ \A i \in 1..k : Numbers(k)[i] = sent + i
      /\ Pkts(Numbers(k)) \in Seq(Msgs)
      /\ Stream(Pkts(Numbers(k)), sent, sent + k)
      /\ Free(Pkts(Numbers(k)), "recon") /\ Free(Pkts(Numbers(k)), "reject")
      /\ Bounded(Pkts(Numbers(k)), {"ack", "recon"}, Len(sgot))
  BY <1>0, NumbersStream
<1>3. Put(ssock, Pkts(Numbers(k)))
  BY DEF Emit
<1>4. ASSUME phase = "loading"
      PROVE  Window(buffer', sent') /\ buffer' = <<>> /\ unkept' = sent'
  <2>1. buffer' = <<>> /\ unkept' = sent'
    BY <1>0, <1>1, <1>4 DEF Emit, Phases
  <2>2. Window(<<>>, sent')
    BY <1>1 DEF Window
  <2> QED
    BY <2>1, <2>2
<1>5. ASSUME phase = "loaded"
      PROVE  Window(buffer', sent') /\ sent' - Len(buffer') = Base /\ unkept' = unkept
  <2>1. buffer' = buffer \o Numbers(k) /\ unkept' = unkept
    BY <1>0, <1>5 DEF Emit, Phases
  <2>2. Window(buffer, sent)
    BY <1>0 DEF Windows
  <2>3. Window(buffer \o Numbers(k), sent + k) /\ Len(buffer \o Numbers(k)) = Len(buffer) + k
    BY <1>0, <1>2, <2>2, WindowExtend
  <2>4. Len(buffer) \in Nat
    BY <1>0, LenProperties
  <2>5. sent' - Len(buffer') = Base
    BY <1>0, <1>1, <2>1, <2>3, <2>4 DEF Base
  <2> QED
    BY <1>1, <2>1, <2>3, <2>5
<1>6. phase = "loading" \/ phase = "loaded"
  BY <1>0 DEF TypeOK
<1>7. \E t \in 0..sent' : /\ Stream(s2c', Len(cgot), t)
                          /\ cconn # 0 /\ cconn = ssock => t = sent'
  BY <1>0, <1>1, <1>2, <1>3, PutStream
<1>8. /\ Bounded(s2c', {"ack", "recon"}, Len(sgot))
      /\ csync => Free(s2c', "recon")
      /\ Single(s2c', "recon")
      /\ ssock # 0 /\ ssock = cconn /\ ~csync => Holds(s2c', "recon", Len(sgot))
      /\ Free(s2c', "reject")
  BY <1>0, <1>2, <1>3, PutPlain
<1> QED
  BY <1>1, <1>3, <1>4, <1>5, <1>6, <1>7, <1>8

-----------------------------------------------------------------------------
(* The steps of the bot                                                    *)

\* The parts of the invariant beside the types, and the inductive step for each action.
IRest ==
  /\ InOrder /\ Windows /\ Phases /\ Wiring
  /\ DownStream /\ UpStream /\ Counts /\ Handshake

\* A send that changes nothing else.
LEMMA EmitStep ==
  ASSUME IInv, NEW k \in Nat, Emit(k), phase # "gone",
         UNCHANGED <<phase, gproxy, sgot, ssock, pending, client, c2s>>
  PROVE  IRest'
<1>0. /\ TypeOK /\ InOrder /\ Windows /\ Phases /\ Wiring /\ DownStream /\ UpStream
      /\ Counts /\ Handshake
  BY DEF IInv
<1>1. /\ sent' = sent + k /\ sent' \in Nat /\ sent \in Nat /\ Len(cgot) \in Nat
      /\ Len(buffer) \in Nat
  BY <1>0, EmitKeeps, TypeFacts
<1>2. InOrder'
  BY <1>0 DEF InOrder, IsPrefixOfNat, client
<1>3. Windows'
  BY <1>0, EmitKeeps DEF Windows, client
<1>4. Phases'
  BY <1>0, EmitKeeps DEF Phases, client
<1>5. Wiring'
  <2>1. /\ cconn = 0 => s2c' = <<>>
        /\ \A c \in pending : c = cconn => s2c' = <<>>
    BY <1>0, EmitKeeps, PutWire
  <2> QED
    BY <1>0, <2>1 DEF Wiring, client
<1>6. DownStream'
  <2>1. Len(cgot) <= sent'
    BY <1>0, <1>1 DEF DownStream
  <2>2. Base' <= unkept' \/ Base' <= Len(cgot)
    <3>1. CASE phase = "loading"
      <4>1. buffer' = <<>> /\ unkept' = sent'
        BY <3>1, EmitKeeps
      <4> QED
        BY <1>1, <4>1 DEF Base
    <3>2. CASE phase = "loaded"
      <4>1. Base' = Base /\ unkept' = unkept
        BY <3>2, EmitKeeps DEF Base
      <4> QED
        BY <3>2, <4>1, <1>0 DEF DownStream
    <3> QED
      BY <1>0, <3>1, <3>2 DEF TypeOK
  <2>3. ssock # cconn \/ ssock = 0 \/ nconn > 1 => unkept' <= Len(cgot)
    <3>1. CASE phase = "loading"
      BY <3>1, <1>0 DEF Phases
    <3>2. CASE phase = "loaded"
      BY <3>2, <1>0, EmitKeeps DEF DownStream
    <3> QED
      BY <1>0, <3>1, <3>2 DEF TypeOK
  <2>4. \E t \in 0..sent' : /\ Stream(s2c', Len(cgot), t)
                            /\ cconn # 0 /\ cconn = ssock => t = sent'
    BY EmitKeeps
  <2> QED
    BY <2>1, <2>2, <2>3, <2>4 DEF DownStream, client
<1>7. UpStream'
  BY <1>0 DEF UpStream, CBase, client
<1>8. Counts'
  BY <1>0, EmitKeeps DEF Counts, client
<1>9. Handshake'
  BY <1>0, EmitKeeps DEF Handshake, client
<1> QED
  BY <1>2, <1>3, <1>4, <1>5, <1>6, <1>7, <1>8, <1>9 DEF IRest

\* A send of the bot's to the player.
LEMMA ServerSendStep == ASSUME IInv, ServerSend PROVE IRest'
<1>1. UNCHANGED <<phase, gproxy, sgot, ssock, pending, client, c2s>>
  BY DEF ServerSend
<1> QED
  BY <1>1, EmitStep DEF ServerSend

\* The game has loaded.
LEMMA LoadStep == ASSUME IInv, Load PROVE IRest'
<1>0. /\ TypeOK /\ InOrder /\ Windows /\ Phases /\ Wiring /\ DownStream /\ UpStream
      /\ Counts /\ Handshake
  BY DEF IInv
<1>1. gproxy
  <2>1. phase = "loading" /\ Len(sgot) >= 2
    BY DEF Load
  <2>2. Len(sgot) \in Nat
    BY <1>0, TypeFacts
  <2>3. \A x \in Nat : x >= 2 => x # 1
    OBVIOUS
  <2>4. Len(sgot) # 1
    BY <2>1, <2>2, <2>3, Zenon
  <2> QED
    BY <1>0, <2>1, <2>4, Zenon DEF Phases
<1>2. InOrder' /\ Windows'
  BY <1>0 DEF Load, InOrder, IsPrefixOfNat, Windows, client, net
<1>3. Phases'
  BY <1>1 DEF Load, Phases
<1>4. Wiring'
  BY <1>0 DEF Load, Wiring, client, net
<1>5. DownStream' /\ UpStream'
  BY <1>0 DEF Load, DownStream, UpStream, Base, CBase, client, net
<1>6. Counts' /\ Handshake'
  BY <1>0 DEF Load, Counts, Handshake, client, net
<1> QED
  BY <1>2, <1>3, <1>4, <1>5, <1>6 DEF IRest

\* A plain message that is not a packet.
LEMMA PlainMessage ==
  ASSUME NEW m \in Msgs, m.t \in {"ack", "init"}, NEW b \in Nat, m.t = "ack" => m.n <= b
  PROVE  /\ <<m>> \in Seq(Msgs)
         /\ Bounded(<<m>>, {"ack", "recon"}, b) /\ Free(<<m>>, "recon") /\ Free(<<m>>, "reject")
         /\ \A f \in Nat : Stream(<<m>>, f, f)
<1>1. <<m>> \in Seq(Msgs) /\ \A f \in Nat : Stream(<<m>>, f, f)
  BY StreamOther
<1>2. Len(<<m>>) = 1 /\ <<m>>[1] = m
  OBVIOUS
<1>3. \A i \in 1..Len(<<m>>) : <<m>>[i] = m
  BY <1>2
<1>4. Bounded(<<m>>, {"ack", "recon"}, b) /\ Free(<<m>>, "recon") /\ Free(<<m>>, "reject")
  BY <1>3 DEF Bounded, Free
<1> QED
  BY <1>1, <1>4

\* Nothing but a message that is not a packet is put on the bot's socket.
LEMMA PutStep ==
  ASSUME IInv, NEW msgs \in Seq(Msgs), Put(ssock, msgs), Stream(msgs, sent, sent),
         Bounded(msgs, {"ack", "recon"}, Len(sgot)), Free(msgs, "recon"), Free(msgs, "reject"),
         UNCHANGED <<server, client, c2s>>
  PROVE  IRest'
<1>0. /\ TypeOK /\ InOrder /\ Windows /\ Phases /\ Wiring /\ DownStream /\ UpStream
      /\ Counts /\ Handshake
  BY DEF IInv
<1>1. sent \in Nat
  BY <1>0, TypeFacts
<1>2. InOrder' /\ Windows' /\ Phases' /\ UpStream'
  BY <1>0 DEF InOrder, IsPrefixOfNat, Windows, Phases, UpStream, CBase, client, server
<1>3. Wiring'
  <2>1. /\ cconn = 0 => s2c' = <<>>
        /\ \A c \in pending : c = cconn => s2c' = <<>>
    BY <1>0, PutWire
  <2> QED
    BY <1>0, <2>1 DEF Wiring, client, server
<1>4. DownStream'
  <2>1. \E t \in 0..sent : /\ Stream(s2c', Len(cgot), t)
                           /\ cconn # 0 /\ cconn = ssock => t = sent
    BY <1>0, <1>1, PutStream
  <2> QED
    BY <1>0, <2>1 DEF DownStream, Base, client, server
<1>5. Counts' /\ Handshake'
  BY <1>0, PutPlain DEF Counts, Handshake, client, server
<1> QED
  BY <1>2, <1>3, <1>4, <1>5 DEF IRest

\* The bot acknowledges what it has got.
LEMMA ServerAckStep == ASSUME IInv, ServerAck PROVE IRest'
<1>1. Ack(Len(sgot)) \in Msgs /\ Len(sgot) \in Nat /\ sent \in Nat
  BY TypeFacts DEF IInv, Ack, Msgs
<1>2. /\ <<Ack(Len(sgot))>> \in Seq(Msgs) /\ Stream(<<Ack(Len(sgot))>>, sent, sent)
      /\ Bounded(<<Ack(Len(sgot))>>, {"ack", "recon"}, Len(sgot))
      /\ Free(<<Ack(Len(sgot))>>, "recon") /\ Free(<<Ack(Len(sgot))>>, "reject")
  <2>1. Ack(Len(sgot)).t = "ack" /\ Ack(Len(sgot)).n = Len(sgot)
    BY DEF Ack
  <2> QED
    BY <1>1, <2>1, PlainMessage
<1> QED
  BY <1>2, PutStep DEF ServerAck

\* The player is deleted; its socket is closed.
LEMMA GoneStep ==
  ASSUME IInv, phase # "gone", phase' = "gone", ssock' = 0, Close(ssock),
         UNCHANGED <<gproxy, sent, buffer, sgot, pending, unkept, client, s2c>>
  PROVE  IRest'
<1>0. /\ TypeOK /\ InOrder /\ Windows /\ Phases /\ Wiring /\ DownStream /\ UpStream
      /\ Counts /\ Handshake
  BY DEF IInv
<1>1. InOrder' /\ Windows'
  BY <1>0 DEF InOrder, IsPrefixOfNat, Windows, client
<1>2. Phases'
  BY DEF Phases
<1>3. \A c \in Conns : c2s'[c] = IF c = ssock THEN <<>> ELSE c2s[c]
  BY DEF Close
<1>4. Wiring'
  <2>1. nconn \in Nat /\ pending \subseteq Conns /\ 0 \notin Conns
    BY <1>0 DEF TypeOK, Conns
  <2>2. \A c \in Conns : c \notin pending => c2s'[c] = <<>>
    BY <1>0, <1>3 DEF Wiring
  <2>3. \A c \in pending : c2s'[c] = c2s[c]
    BY <1>0, <1>3, <2>1 DEF Wiring
  <2> QED
    BY <1>0, <2>1, <2>2, <2>3 DEF Wiring, client
<1>5. DownStream'
  BY <1>0 DEF DownStream, client
<1>6. UpStream'
  BY <1>0 DEF UpStream, CBase, client
<1>7. Counts' /\ Handshake'
  BY <1>0 DEF Counts, Handshake, client
<1> QED
  BY <1>1, <1>2, <1>4, <1>5, <1>6, <1>7 DEF IRest

\* The player is dropped, or leaves.
LEMMA ServerDropStep == ASSUME IInv, ServerDrop PROVE IRest'
  BY GoneStep DEF ServerDrop

\* Nothing was received from the player for 30 seconds.
LEMMA ServerTimedOutStep == ASSUME IInv, ServerTimedOut PROVE IRest'
<1>1. CASE gproxy /\ phase = "loaded"
  <2>1. Emit(1) /\ phase # "gone" /\ UNCHANGED <<phase, gproxy, sgot, ssock, pending, client, c2s>>
    BY <1>1 DEF ServerTimedOut
  <2> QED
    BY <2>1, EmitStep
<1>2. CASE ~(gproxy /\ phase = "loaded")
  BY <1>2, GoneStep DEF ServerTimedOut
<1> QED
  BY <1>1, <1>2

\* A lost socket of a player that is kept: the network breaks a connection only once
\* the client has what the bot does not keep.
LEMMA ServerSocketClosedStep ==
  ASSUME IInv, ~PreLoadAtRisk, ServerSocketClosed
  PROVE  IRest'
<1>0. /\ TypeOK /\ InOrder /\ Windows /\ Phases /\ Wiring /\ DownStream /\ UpStream
      /\ Counts /\ Handshake
  BY DEF IInv
<1>1. CASE ~(gproxy /\ phase = "loaded")
  BY <1>1, GoneStep DEF ServerSocketClosed
<1>2. CASE gproxy /\ phase = "loaded"
  <2>1. unkept <= Len(cgot)
    BY <1>2 DEF ServerSocketClosed, MayBreak
  <2>2. PICK k \in {0, 1} : Emit(k)
    BY <1>2 DEF ServerSocketClosed
  <2>3. /\ phase # "gone" /\ phase' = phase /\ ssock' = 0 /\ Close(ssock)
        /\ UNCHANGED <<gproxy, sgot, pending, client>>
    BY <1>2 DEF ServerSocketClosed
  <2>4. k \in Nat
    OBVIOUS
  <2>5. /\ sent' = sent + k /\ sent' \in Nat /\ sent \in Nat /\ Len(cgot) \in Nat
        /\ Window(buffer', sent')
        /\ sent' - Len(buffer') = Base /\ unkept' = unkept
        /\ Put(ssock, Pkts(Numbers(k)))
        /\ \E t \in 0..sent' : Stream(s2c', Len(cgot), t)
        /\ Bounded(s2c', {"ack", "recon"}, Len(sgot))
        /\ csync => Free(s2c', "recon")
        /\ Single(s2c', "recon") /\ Free(s2c', "reject")
    BY <1>0, <1>2, <2>2, <2>3, <2>4, EmitKeeps, TypeFacts
  <2>6. InOrder' /\ Windows'
    BY <1>0, <2>3, <2>5 DEF InOrder, IsPrefixOfNat, Windows, client
  <2>7. Phases'
    BY <1>2, <2>3 DEF Phases
  <2>8. Wiring'
    <3>1. \A c \in Conns : c2s'[c] = IF c = ssock THEN <<>> ELSE c2s[c]
      BY <2>3 DEF Close
    <3>2. nconn \in Nat /\ pending \subseteq Conns /\ 0 \notin Conns
      BY <1>0 DEF TypeOK, Conns
    <3>3. \A c \in Conns : c \notin pending => c2s'[c] = <<>>
      BY <1>0, <3>1 DEF Wiring
    <3>4. \A c \in pending : c2s'[c] = c2s[c]
      BY <1>0, <3>1, <3>2 DEF Wiring
    <3>5. /\ cconn = 0 => s2c' = <<>>
          /\ \A c \in pending : c = cconn => s2c' = <<>>
      BY <1>0, <2>5, PutWire
    <3> QED
      BY <1>0, <2>3, <3>2, <3>3, <3>4, <3>5 DEF Wiring, client
  <2>9. DownStream'
    <3>1. Len(cgot) <= sent'
      BY <1>0, <2>5, <2>4 DEF DownStream
    <3>2. Base' <= unkept' \/ Base' <= Len(cgot)
      BY <1>0, <2>3, <2>5 DEF DownStream, Base
    <3> QED
      BY <2>1, <2>3, <2>5, <3>1, <3>2 DEF DownStream, client
  <2>10. UpStream' /\ Counts'
    BY <1>0, <2>3, <2>5 DEF UpStream, CBase, Counts, client
  <2>11. Handshake'
    BY <2>3, <2>5 DEF Handshake, client
  <2> QED
    BY <2>6, <2>7, <2>8, <2>9, <2>10, <2>11 DEF IRest
<1> QED
  BY <1>1, <1>2

\* A reconnect socket is closed before it was used.
LEMMA ReconnectSocketLostStep ==
  ASSUME IInv, NEW c \in Conns, ReconnectSocketLost(c)
  PROVE  IRest'
<1>0. /\ TypeOK /\ InOrder /\ Windows /\ Phases /\ Wiring /\ DownStream /\ UpStream
      /\ Counts /\ Handshake
  BY DEF IInv
<1>1. /\ c \in pending /\ pending' = pending \ {c}
      /\ UNCHANGED <<phase, gproxy, sent, buffer, sgot, ssock, noticeSent, unkept, client, s2c>>
  BY DEF ReconnectSocketLost
<1>2. \A d \in Conns : c2s'[d] = IF d = c THEN <<>> ELSE c2s[d]
  BY DEF ReconnectSocketLost, Close
<1>3. ssock # c /\ (ssock # 0 => ssock \in Conns)
  BY <1>0, <1>1, TypeFacts DEF Wiring
<1>4. ssock # 0 => c2s'[ssock] = c2s[ssock]
  BY <1>2, <1>3
<1>5. InOrder' /\ Windows'
  BY <1>0, <1>1 DEF InOrder, IsPrefixOfNat, Windows, client
<1>6. Phases'
  BY <1>0, <1>1 DEF Phases
<1>7. Wiring'
  <2>1. pending \subseteq Conns
    BY <1>0 DEF TypeOK
  <2>2. \A d \in Conns : d \notin pending' \cup {ssock} => c2s'[d] = <<>>
    BY <1>0, <1>1, <1>2 DEF Wiring
  <2>3. \A d \in pending' : d \in pending /\ c2s'[d] = c2s[d]
    BY <1>1, <1>2, <2>1
  <2> QED
    BY <1>0, <1>1, <2>2, <2>3 DEF Wiring, client
<1>8. DownStream'
  BY <1>0, <1>1 DEF DownStream, Base, client
<1>9. UpStream'
  BY <1>0, <1>1, <1>4 DEF UpStream, CBase, client
<1>10. Counts' /\ Handshake'
  BY <1>0, <1>1, <1>4 DEF Counts, Handshake, client
<1> QED
  BY <1>5, <1>6, <1>7, <1>8, <1>9, <1>10 DEF IRest

\* One packet of the player's socket: a W3GS packet is the next one, an ack drops only
\* what the client has.
LEMMA ServerRecvStep == ASSUME IInv, ServerRecv PROVE IRest'
<1> DEFINE q == c2s[ssock]
           m == Head(q)
<1>0. /\ TypeOK /\ InOrder /\ Windows /\ Phases /\ Wiring /\ DownStream /\ UpStream
      /\ Counts /\ Handshake
  BY DEF IInv
<1>1. /\ phase # "gone" /\ ssock # 0 /\ q # <<>>
      /\ c2s' = [c2s EXCEPT ![ssock] = Tail(@)]
      /\ sgot' = IF m.t = "pkt" THEN Append(sgot, m.n) ELSE sgot
      /\ gproxy' = (gproxy \/ m.t = "init")
      /\ buffer' = IF m.t = "ack" THEN Unqueue(buffer, sent, m.n) ELSE buffer
      /\ Put(ssock, IF m.t = "init" THEN <<Hello>> ELSE <<>>)
      /\ UNCHANGED <<phase, sent, ssock, noticeSent, pending, unkept, client>>
  BY DEF ServerRecv
<1>2. /\ ssock \in Conns /\ q \in Seq(Msgs) /\ m \in Msgs /\ m.n \in Nat
      /\ sent \in Nat /\ csent \in Nat /\ sgot \in Seq(Nat) /\ Len(sgot) \in Nat
      /\ Len(cgot) \in Nat /\ buffer \in Seq(Nat) /\ Len(buffer) \in Nat /\ Len(cbuf) \in Nat
      /\ Tail(q) \in Seq(Msgs)
  BY <1>0, <1>1, TypeFacts, MessageTypes
<1>3. \A d \in Conns : c2s'[d] = IF d = ssock THEN Tail(q) ELSE c2s[d]
  BY <1>0, <1>1 DEF TypeOK
<1>4. c2s'[ssock] = Tail(q)
  BY <1>2, <1>3
<1>5. ~(ssock = cconn /\ ~csync)
  BY <1>0, <1>1 DEF UpStream
<1>6. PICK t \in 0..csent : /\ Stream(q, Len(sgot), t)
                            /\ ssock = cconn /\ csync => t = csent
  BY <1>0, <1>1 DEF UpStream
<1> HIDE DEF q, m
\* the W3GS packets
<1>7. /\ Len(sgot') \in Nat /\ Len(sgot) <= Len(sgot') /\ Len(sgot') <= csent
      /\ \A i \in 1..Len(sgot') : sgot'[i] = i
      /\ Stream(Tail(q), Len(sgot'), t)
  <2>1. \A i \in 1..Len(sgot) : sgot[i] = i
    BY <1>0 DEF InOrder, IsPrefixOfNat
  <2>2. Len(sgot) <= csent
    BY <1>0 DEF UpStream
  <2>3. ASSUME m.t = "pkt"
        PROVE  /\ Len(sgot') = Len(sgot) + 1 /\ Len(sgot) + 1 <= t
               /\ \A i \in 1..Len(sgot') : sgot'[i] = i
               /\ Stream(Tail(q), Len(sgot'), t)
    <3>1. m.n = Len(sgot) + 1 /\ Len(sgot) + 1 <= t /\ Stream(Tail(q), Len(sgot) + 1, t)
      BY <1>1, <1>2, <1>6, <2>3, StreamHead DEF m
    <3>2. sgot' = Append(sgot, Len(sgot) + 1)
      BY <1>1, <2>3, <3>1
    <3>3. /\ Len(Append(sgot, Len(sgot) + 1)) = Len(sgot) + 1
          /\ \A i \in 1..Len(sgot) : Append(sgot, Len(sgot) + 1)[i] = sgot[i]
          /\ Append(sgot, Len(sgot) + 1)[Len(sgot) + 1] = Len(sgot) + 1
      BY <1>2, AppendProperties
    <3>4. \A i \in 1..(Len(sgot) + 1) : i \in 1..Len(sgot) \/ i = Len(sgot) + 1
      BY <1>2
    <3>5. \A i \in 1..Len(sgot') : sgot'[i] = i
      BY <2>1, <3>2, <3>3, <3>4
    <3> QED
      BY <3>1, <3>2, <3>3, <3>5
  <2>4. ASSUME m.t # "pkt"
        PROVE  sgot' = sgot /\ Stream(Tail(q), Len(sgot), t)
    BY <1>1, <1>2, <1>6, <2>4, StreamHead DEF m
  <2>5. CASE m.t = "pkt"
    BY <1>2, <2>3, <2>5
  <2>6. CASE m.t # "pkt"
    BY <1>2, <2>1, <2>2, <2>4, <2>6
  <2> QED
    BY <2>5, <2>6
<1>8. InOrder'
  BY <1>0, <1>1, <1>7 DEF InOrder, IsPrefixOfNat, client
\* the acks
<1>9. /\ Window(buffer', sent) /\ Len(buffer') \in Nat
      /\ sent - Len(buffer') <= Base \/ sent - Len(buffer') <= Len(cgot)
      /\ buffer = <<>> => buffer' = <<>>
  <2>1. Window(buffer, sent)
    BY <1>0 DEF Windows
  <2>2. CASE m.t # "ack"
    BY <1>1, <1>2, <2>1, <2>2 DEF Base
  <2>3. CASE m.t = "ack"
    <3>1. m.n <= Len(cgot)
      <4>1. Bounded(q, {"ack"}, Len(cgot))
        BY <1>0, <1>1 DEF Counts, q
      <4> QED
        BY <1>1, <1>2, <2>3, <4>1, QueueTail DEF m
    <3>2. buffer' = Unqueue(buffer, sent, m.n)
      BY <1>1, <2>3
    <3>3. /\ Unqueue(buffer, sent, m.n) \in Seq(Nat)
          /\ Window(Unqueue(buffer, sent, m.n), sent)
          /\ \/ sent - Len(Unqueue(buffer, sent, m.n)) <= sent - Len(buffer)
             \/ sent - Len(Unqueue(buffer, sent, m.n)) <= m.n
      BY <1>2, <2>1, UnqueueWindow
    <3>4. Len(buffer') \in Nat
      BY <3>2, <3>3, LenProperties
    <3>5. buffer = <<>> => buffer' = <<>>
      BY <1>2, <3>2, UnqueueEmpty
    <3> QED
      BY <1>2, <3>1, <3>2, <3>3, <3>4, <3>5 DEF Base
  <2> QED
    BY <2>2, <2>3
<1>10. Windows'
  BY <1>0, <1>1, <1>9 DEF Windows, client
<1>11. Phases'
  <2>1. phase = "loading" /\ ~gproxy' => FALSE
    <3>1. SUFFICES ASSUME phase = "loading", ~gproxy' PROVE FALSE
      OBVIOUS
    <3>2. ~gproxy /\ m.t # "init"
      BY <1>1, <3>1, Zenon
    <3>3. ssock = 1 /\ Head(c2s[1]).t = "init"
      BY <1>0, <3>1, <3>2, Zenon DEF Phases
    <3> QED
      BY <3>2, <3>3 DEF m, q
  <2>2. phase = "loaded" => gproxy'
    BY <1>0, <1>1, Zenon DEF Phases
  <2>3. phase = "loading" => /\ ssock = 1 /\ cconn = 1 /\ nconn = 1
                             /\ pending = {} /\ buffer' = <<>> /\ unkept = sent
    BY <1>0, <1>9 DEF Phases
  <2> QED
    BY <1>1, <2>1, <2>2, <2>3 DEF Phases, client
\* the answer to GPS_INIT
<1>12. /\ \E u \in 0..sent : /\ Stream(s2c', Len(cgot), u)
                             /\ cconn # 0 /\ cconn = ssock => u = sent
       /\ Bounded(s2c', {"ack", "recon"}, Len(sgot))
       /\ csync => Free(s2c', "recon")
       /\ Single(s2c', "recon")
       /\ Free(s2c', "reject")
       /\ cconn = 0 => s2c' = <<>>
       /\ \A c \in pending : c = cconn => s2c' = <<>>
       /\ s2c' \in Seq(Msgs)
  <2> DEFINE msgs == IF m.t = "init" THEN <<Hello>> ELSE <<>>
  <2>1. /\ msgs \in Seq(Msgs) /\ Stream(msgs, sent, sent)
        /\ Bounded(msgs, {"ack", "recon"}, Len(sgot))
        /\ Free(msgs, "recon") /\ Free(msgs, "reject")
    <3>1. Hello \in Msgs /\ Hello.t = "init"
      BY DEF Hello, Msgs
    <3>2. CASE m.t = "init"
      BY <1>2, <3>1, <3>2, PlainMessage
    <3>3. CASE m.t # "init"
      <4>1. msgs = <<>> /\ Len(<<>>) = 0
        BY <3>3
      <4> HIDE DEF msgs
      <4>2. Stream(msgs, sent, sent)
        BY <1>2, <4>1, StreamEmpty
      <4> QED
        BY <4>1, <4>2 DEF Bounded, Free
    <3> QED
      BY <3>2, <3>3
  <2>2. Put(ssock, msgs)
    BY <1>1
  <2> HIDE DEF msgs
  <2>3. \E u \in 0..sent : /\ Stream(s2c', Len(cgot), u)
                           /\ cconn # 0 /\ cconn = ssock => u = sent
    BY <1>0, <1>2, <2>1, <2>2, PutStream
  <2>4. /\ Bounded(s2c', {"ack", "recon"}, Len(sgot))
        /\ csync => Free(s2c', "recon")
        /\ Single(s2c', "recon")
        /\ Free(s2c', "reject")
        /\ s2c' \in Seq(Msgs)
    BY <1>0, <1>1, <2>1, <2>2, PutPlain
  <2>5. /\ cconn = 0 => s2c' = <<>>
        /\ \A c \in pending : c = cconn => s2c' = <<>>
    BY <1>0, <2>2, PutWire
  <2> QED
    BY <2>3, <2>4, <2>5
<1>13. Wiring'
  <2>1. pending \subseteq Conns /\ ssock \notin pending
    BY <1>0 DEF TypeOK, Wiring
  <2>2. \A c \in Conns : c \notin pending \cup {ssock} => c2s'[c] = <<>>
    BY <1>0, <1>3 DEF Wiring
  <2>3. \A c \in pending : c2s'[c] = c2s[c]
    BY <1>3, <2>1
  <2> QED
    BY <1>0, <1>1, <1>12, <2>2, <2>3 DEF Wiring, client
<1>14. DownStream'
  <2>1. Base' <= unkept \/ Base' <= Len(cgot)
    <3>1. unkept \in Nat
      BY <1>0 DEF TypeOK
    <3>2. Base <= unkept \/ Base <= Len(cgot)
      BY <1>0, <1>1 DEF DownStream
    <3> QED
      BY <1>1, <1>2, <1>9, <3>1, <3>2 DEF Base
  <2> QED
    BY <1>0, <1>1, <1>12, <2>1 DEF DownStream, client
<1>15. UpStream'
  <2>1. CBase <= Len(sgot')
    BY <1>0, <1>2, <1>7 DEF UpStream, CBase
  <2> QED
    BY <1>1, <1>4, <1>5, <1>6, <1>7, <2>1 DEF UpStream, CBase, client
<1>16. Counts'
  <2>1. Bounded(s2c', {"ack", "recon"}, Len(sgot'))
    <3>1. \A i \in 1..Len(s2c') : s2c'[i].n \in Nat
      <4>1. \A i \in 1..Len(s2c') : s2c'[i] \in Msgs
        BY <1>12, ElementOfSeq
      <4> QED
        BY <4>1 DEF Msgs
    <3> QED
      BY <1>2, <1>7, <1>12, <3>1 DEF Bounded
  <2>2. Bounded(Tail(q), {"ack"}, Len(cgot))
    BY <1>0, <1>1, <1>2, QueueTail DEF Counts, q
  <2> QED
    BY <1>1, <1>4, <2>1, <2>2 DEF Counts, client
<1>17. Handshake'
  BY <1>1, <1>5, <1>12 DEF Handshake, client
<1> QED
  BY <1>8, <1>10, <1>11, <1>13, <1>14, <1>15, <1>16, <1>17 DEF IRest

\* A sequence of one message.
LEMMA OneMessage ==
  ASSUME NEW m \in Msgs, m.t # "pkt"
  PROVE  /\ <<m>> \in Seq(Msgs)
         /\ \A f \in Nat : Stream(<<m>>, f, f)
         /\ \A kind : kind # m.t => Free(<<m>>, kind)
         /\ \A kind : Single(<<m>>, kind)
         /\ Holds(<<m>>, m.t, m.n)
         /\ \A kinds, b : m.n <= b => Bounded(<<m>>, kinds, b)
         /\ \A kinds, b : m.t \notin kinds => Bounded(<<m>>, kinds, b)
<1>1. <<m>> \in Seq(Msgs) /\ \A f \in Nat : Stream(<<m>>, f, f)
  BY StreamOther
<1>2. Len(<<m>>) = 1 /\ <<m>>[1] = m
  OBVIOUS
<1>3. \A i \in 1..Len(<<m>>) : i = 1 /\ <<m>>[i] = m
  BY <1>2
<1>4. 1 \in 1..Len(<<m>>)
  BY <1>2
<1>5. /\ \A kind : kind # m.t => Free(<<m>>, kind)
      /\ \A kind : Single(<<m>>, kind)
  BY <1>3 DEF Free, Single
<1>6. Holds(<<m>>, m.t, m.n)
  BY <1>2, <1>4 DEF Holds
<1>7. /\ \A kinds, b : m.n <= b => Bounded(<<m>>, kinds, b)
      /\ \A kinds, b : m.t \notin kinds => Bounded(<<m>>, kinds, b)
  BY <1>3 DEF Bounded
<1> QED
  BY <1>1, <1>5, <1>6, <1>7

\* Only a deleted player's client is refused.
LEMMA RejectReconnectStep ==
  ASSUME IInv, NEW c \in Conns, RejectReconnect(c)
  PROVE  IRest'
<1>0. /\ TypeOK /\ InOrder /\ Windows /\ Phases /\ Wiring /\ DownStream /\ UpStream
      /\ Counts /\ Handshake
  BY DEF IInv
<1>1. /\ c \in pending /\ pending' = pending \ {c} /\ Put(c, <<Reject>>)
      /\ ~(phase = "loaded" /\ gproxy)
      /\ UNCHANGED <<phase, gproxy, sent, buffer, sgot, ssock, noticeSent, unkept, client>>
  BY DEF RejectReconnect
<1>2. \A d \in Conns : c2s'[d] = IF d = c THEN <<>> ELSE c2s[d]
  BY DEF RejectReconnect, Close
<1>3. phase = "gone" /\ ssock = 0
  <2>1. phase # "loaded"
    BY <1>0, <1>1, Zenon DEF Phases
  <2>2. phase # "loading"
    BY <1>0, <1>1 DEF Phases
  <2> QED
    BY <1>0, <2>1, <2>2 DEF TypeOK, Phases
<1>4. InOrder' /\ Windows'
  BY <1>0, <1>1 DEF InOrder, IsPrefixOfNat, Windows, client
<1>5. Phases'
  BY <1>1, <1>3 DEF Phases
<1>6. c # 0 /\ s2c \in Seq(Msgs) /\ sent \in Nat /\ Len(cgot) \in Nat
  BY <1>0, TypeFacts DEF Conns
<1>7. s2c' = s2c \/ (s2c' = s2c \o <<Reject>> /\ c = cconn /\ s2c = <<>>)
  <2>1. c = cconn => s2c = <<>>
    BY <1>0, <1>1 DEF Wiring
  <2> QED
    BY <1>1, <2>1 DEF Put
<1>8. /\ Reject \in Msgs /\ Reject.t = "reject"
  BY DEF Reject, Msgs
<1>9. /\ <<Reject>> \in Seq(Msgs) /\ \A f \in Nat : Stream(<<Reject>>, f, f)
      /\ Free(<<Reject>>, "recon") /\ Bounded(<<Reject>>, {"ack", "recon"}, Len(sgot))
  BY <1>8, OneMessage
<1>10. Wiring'
  <2>1. pending \subseteq Conns
    BY <1>0 DEF TypeOK
  <2>2. \A d \in Conns : d \notin pending' \cup {ssock} => c2s'[d] = <<>>
    BY <1>0, <1>1, <1>2 DEF Wiring
  <2>3. \A d \in pending' : d \in pending /\ c2s'[d] = c2s[d] /\ d # c
    BY <1>1, <1>2, <2>1
  <2>4. cconn = 0 => s2c' = <<>>
    BY <1>0, <1>6, <1>7 DEF Wiring
  <2>5. \A d \in pending' : d = cconn => s2c' = <<>>
    BY <1>0, <1>7, <2>3 DEF Wiring
  <2> QED
    BY <1>0, <1>1, <2>2, <2>3, <2>4, <2>5 DEF Wiring, client
<1>11. DownStream'
  <2>1. PICK t \in 0..sent : Stream(s2c, Len(cgot), t)
    BY <1>0 DEF DownStream
  <2>2. \E u \in 0..sent : Stream(s2c', Len(cgot), u)
    <3>1. CASE s2c' = s2c
      BY <2>1, <3>1
    <3>2. CASE s2c' = s2c \o <<Reject>> /\ s2c = <<>>
      <4>1. s2c' = <<Reject>>
        BY <3>2
      <4>2. Len(cgot) \in 0..sent
        BY <1>0, <1>6 DEF DownStream
      <4> QED
        BY <1>6, <1>9, <4>1, <4>2
    <3> QED
      BY <1>7, <3>1, <3>2
  <2> QED
    BY <1>0, <1>1, <1>3, <2>2 DEF DownStream, client
<1>12. UpStream'
  BY <1>0, <1>1, <1>3 DEF UpStream, CBase, client
<1>13. Bounded(s2c', {"ack", "recon"}, Len(sgot)) /\ Single(s2c', "recon")
       /\ (csync => Free(s2c', "recon"))
  <2>1. CASE s2c' = s2c
    BY <1>0, <2>1 DEF Counts, Handshake
  <2>2. CASE s2c' = s2c \o <<Reject>>
    <3>1. /\ Bounded(s2c, {"ack", "recon"}, Len(sgot)) /\ Single(s2c, "recon")
          /\ csync => Free(s2c, "recon")
      BY <1>0 DEF Counts, Handshake
    <3> QED
      BY <1>6, <1>9, <2>2, <3>1, QueueConcat
  <2> QED
    BY <1>7, <2>1, <2>2
<1>14. Counts' /\ Handshake'
  BY <1>1, <1>3, <1>13 DEF Counts, Handshake, client
<1> QED
  BY <1>4, <1>5, <1>10, <1>11, <1>12, <1>14 DEF IRest

\* Reconnecting: what the client lacks is what is still kept, and it is sent again.
LEMMA EventGProxyReconnectStep ==
  ASSUME IInv, NEW c \in Conns, EventGProxyReconnect(c)
  PROVE  IRest'
<1> DEFINE n    == Head(c2s[c]).n
           keep == Unqueue(buffer, sent, n)
           msgs == <<Recon(Len(sgot))>> \o Pkts(buffer')
<1>0. /\ TypeOK /\ InOrder /\ Windows /\ Phases /\ Wiring /\ DownStream /\ UpStream
      /\ Counts /\ Handshake
  BY DEF IInv
<1>1. /\ c \in pending /\ phase = "loaded" /\ gproxy
      /\ buffer' = Append(keep, sent + 1) /\ sent' = sent + 1
      /\ Put(c, msgs)
      /\ c2s' = [d \in Conns |-> IF d = c THEN Tail(c2s[d])
                                 ELSE IF d = ssock THEN <<>> ELSE c2s[d]]
      /\ ssock' = c /\ pending' = pending \ {c}
      /\ UNCHANGED <<phase, gproxy, sgot, unkept, client>>
  BY DEF EventGProxyReconnect
<1>2. /\ sent \in Nat /\ csent \in Nat /\ Len(sgot) \in Nat /\ Len(cgot) \in Nat
      /\ nconn \in Nat /\ unkept \in Nat
      /\ buffer \in Seq(Nat) /\ Len(buffer) \in Nat /\ c \in Nat /\ c # 0
      /\ c2s[c] \in Seq(Msgs) /\ s2c \in Seq(Msgs) /\ pending \subseteq Conns
  BY <1>0, TypeFacts DEF TypeOK, Conns
<1>3. /\ Len(c2s[c]) = 1 /\ n <= Len(cgot) /\ c # ssock /\ c <= nconn
      /\ c = cconn => n = Len(cgot) /\ s2c = <<>> /\ csync = FALSE
  <2>1. /\ Len(c2s[c]) = 1 /\ n <= Len(cgot)
        /\ c = cconn => n = Len(cgot) /\ s2c = <<>> /\ csync = FALSE
    BY <1>0, <1>1, Zenon DEF Wiring
  <2>2. c \in 1..nconn /\ c # ssock
    BY <1>0, <1>1 DEF Wiring
  <2> QED
    BY <1>2, <2>1, <2>2
<1>4. n \in Nat /\ Tail(c2s[c]) = <<>>
  <2>1. Head(c2s[c]) \in Msgs /\ Tail(c2s[c]) = <<>>
    BY <1>2, <1>3, TailOfOne
  <2> QED
    BY <2>1 DEF Msgs
<1>5. \A d \in Conns : c2s'[d] = IF d = c \/ d = ssock THEN <<>> ELSE c2s[d]
  BY <1>1, <1>4
<1> HIDE DEF n
\* no connection has been in use at both ends ever since one broke
<1>6. unkept <= Len(cgot) /\ Base <= Len(cgot)
  <2>1. ssock # cconn \/ ssock = 0 \/ nconn > 1
    BY <1>0, <1>2, <1>3 DEF Wiring
  <2>2. unkept <= Len(cgot)
    BY <1>0, <1>1, <2>1 DEF DownStream
  <2>3. Base <= unkept \/ Base <= Len(cgot)
    BY <1>0, <1>1 DEF DownStream
  <2> QED
    BY <1>2, <2>2, <2>3 DEF Base
\* the replay buffer
<1>7. /\ keep \in Seq(Nat) /\ Window(keep, sent) /\ Len(keep) \in Nat
      /\ sent - Len(keep) <= Len(cgot)
      /\ c = cconn => sent - Len(keep) = Len(cgot)
  <2>1. Window(buffer, sent) /\ Len(cgot) <= sent
    BY <1>0 DEF Windows, DownStream
  <2>2. /\ keep \in Seq(Nat) /\ Window(keep, sent)
        /\ sent - Len(keep) <= sent - Len(buffer) \/ sent - Len(keep) <= n
        /\ sent - Len(buffer) <= n /\ n <= sent => sent - Len(keep) = n
    BY <1>2, <1>4, <2>1, UnqueueWindow
  <2>3. Len(keep) \in Nat
    BY <2>2, LenProperties
  <2> HIDE DEF keep
  <2>4. sent - Len(keep) <= Len(cgot)
    BY <1>2, <1>3, <1>4, <1>6, <2>2, <2>3 DEF Base
  <2>5. c = cconn => sent - Len(keep) = Len(cgot)
    BY <1>2, <1>3, <1>6, <2>1, <2>2 DEF Base
  <2> QED
    BY <2>2, <2>3, <2>4, <2>5
<1> HIDE DEF keep
<1>8. /\ buffer' \in Seq(Nat) /\ Window(buffer', sent') /\ Len(buffer') = Len(keep) + 1
      /\ sent' - Len(buffer') = sent - Len(keep) /\ sent' \in Nat
  <2>1. /\ Append(keep, sent + 1) \in Seq(Nat) /\ Len(Append(keep, sent + 1)) = Len(keep) + 1
        /\ \A i \in 1..Len(keep) : Append(keep, sent + 1)[i] = keep[i]
        /\ Append(keep, sent + 1)[Len(keep) + 1] = sent + 1
    BY <1>2, <1>7, AppendProperties
  <2>2. /\ buffer' \in Seq(Nat) /\ Len(buffer') = Len(keep) + 1
        /\ \A i \in 1..Len(keep) : buffer'[i] = keep[i]
        /\ buffer'[Len(keep) + 1] = sent + 1
        /\ sent' \in Nat /\ sent' - Len(buffer') = sent - Len(keep)
    BY <1>1, <1>2, <1>7, <2>1
  <2>3. Len(keep) <= sent /\ \A i \in 1..Len(keep) : keep[i] = sent - Len(keep) + i
    BY <1>7 DEF Window
  <2>4. \A i \in 1..Len(buffer') : i \in 1..Len(keep) \/ i = Len(keep) + 1
    BY <1>7, <2>2
  <2>5. sent - Len(keep) + (Len(keep) + 1) = sent + 1
    BY <1>2, <1>7
  <2>6. \A i \in 1..Len(buffer') : buffer'[i] = sent - Len(keep) + i
    BY <2>2, <2>3, <2>4, <2>5
  <2>7. Len(buffer') <= sent'
    BY <1>1, <1>2, <1>7, <2>2, <2>3
  <2> QED
    BY <2>2, <2>6, <2>7 DEF Window
\* what is put on the reconnect socket
<1>9. /\ msgs \in Seq(Msgs)
      /\ Stream(msgs, sent - Len(keep), sent')
      /\ Bounded(msgs, {"ack", "recon"}, Len(sgot))
      /\ Single(msgs, "recon") /\ Holds(msgs, "recon", Len(sgot)) /\ Free(msgs, "reject")
  <2>1. Recon(Len(sgot)) \in Msgs /\ Recon(Len(sgot)).t = "recon" /\ Recon(Len(sgot)).n = Len(sgot)
    BY <1>2 DEF Recon, Msgs
  <2>2. sent - Len(keep) \in Nat /\ sent - Len(keep) <= sent'
    BY <1>2, <1>7, <1>8 DEF Window
  <2>3. /\ <<Recon(Len(sgot))>> \in Seq(Msgs)
        /\ Stream(<<Recon(Len(sgot))>>, sent - Len(keep), sent - Len(keep))
        /\ Free(<<Recon(Len(sgot))>>, "reject") /\ Single(<<Recon(Len(sgot))>>, "recon")
        /\ Holds(<<Recon(Len(sgot))>>, "recon", Len(sgot))
        /\ Bounded(<<Recon(Len(sgot))>>, {"ack", "recon"}, Len(sgot))
    BY <1>2, <2>1, <2>2, OneMessage
  <2>4. /\ Pkts(buffer') \in Seq(Msgs) /\ Stream(Pkts(buffer'), sent - Len(keep), sent')
    BY <1>8, PktsStream
  <2>5. /\ Free(Pkts(buffer'), "recon") /\ Free(Pkts(buffer'), "reject")
        /\ Bounded(Pkts(buffer'), {"ack", "recon"}, Len(sgot))
    BY <1>8, PktsPlain
  <2>6. msgs \in Seq(Msgs) /\ Stream(msgs, sent - Len(keep), sent')
    <3> DEFINE base == sent - Len(keep)
               hello == <<Recon(Len(sgot))>>
               rest == Pkts(buffer')
    <3>1. /\ base \in Nat /\ sent' \in Nat /\ base <= base /\ base <= sent'
          /\ hello \in Seq(Msgs) /\ rest \in Seq(Msgs)
          /\ Stream(hello, base, base) /\ Stream(rest, base, sent')
      BY <1>8, <2>2, <2>3, <2>4
    <3> HIDE DEF base, hello, rest
    <3>2. hello \o rest \in Seq(Msgs) /\ Stream(hello \o rest, base, sent')
      BY <3>1, StreamConcat
    <3> QED
      BY <3>2 DEF base, hello, rest
  <2> QED
    BY <2>3, <2>4, <2>5, <2>6, QueueConcat
<1> HIDE DEF msgs
<1>10. /\ c = cconn => s2c' = msgs
       /\ c # cconn => s2c' = s2c
  <2>1. c = cconn => s2c' = <<>> \o msgs
    BY <1>1, <1>2, <1>3 DEF Put
  <2>2. <<>> \o msgs = msgs
    BY <1>9
  <2> QED
    BY <1>1, <2>1, <2>2 DEF Put
<1>11. InOrder'
  BY <1>0, <1>1 DEF InOrder, IsPrefixOfNat, client
<1>12. Windows'
  BY <1>0, <1>1, <1>8 DEF Windows, client
<1>13. Phases'
  BY <1>1 DEF Phases
<1>14. Wiring'
  <2>1. \A d \in Conns : d \notin pending' \cup {c} => c2s'[d] = <<>>
    BY <1>0, <1>1, <1>5 DEF Wiring
  <2>2. \A d \in pending' : d \in pending /\ c2s'[d] = c2s[d] /\ d # c
    BY <1>0, <1>1, <1>2, <1>5 DEF Wiring
  <2>3. cconn = 0 => s2c' = <<>>
    BY <1>0, <1>2, <1>10 DEF Wiring
  <2>4. \A d \in pending' : d = cconn => s2c' = <<>>
    BY <1>0, <1>10, <2>2 DEF Wiring
  <2> QED
    BY <1>0, <1>1, <1>3, <2>1, <2>2, <2>3, <2>4 DEF Wiring, client
<1>15. DownStream'
  <2>1. Len(cgot) <= sent'
    BY <1>0, <1>1, <1>2 DEF DownStream
  <2>2. Base' <= Len(cgot)
    BY <1>7, <1>8 DEF Base
  <2>3. \E t \in 0..sent' : /\ Stream(s2c', Len(cgot), t)
                            /\ cconn # 0 /\ cconn = c => t = sent'
    <3>1. CASE c = cconn
      <4>1. Stream(s2c', Len(cgot), sent') /\ sent' \in 0..sent'
        BY <1>7, <1>8, <1>9, <1>10, <3>1
      <4> QED
        BY <4>1
    <3>2. CASE c # cconn
      <4>1. PICK t \in 0..sent : Stream(s2c, Len(cgot), t)
        BY <1>0 DEF DownStream
      <4>2. t \in 0..sent'
        BY <1>1, <1>2
      <4> QED
        BY <1>10, <3>2, <4>1, <4>2
    <3> QED
      BY <3>1, <3>2
  <2> QED
    BY <1>1, <1>6, <2>1, <2>2, <2>3 DEF DownStream, client
<1>16. c2s'[c] = <<>>
  BY <1>5
<1>17. UpStream'
  <2>1. Len(sgot) <= csent /\ CBase <= Len(sgot)
    BY <1>0 DEF UpStream
  <2>2. Stream(<<>>, Len(sgot), Len(sgot)) /\ Len(sgot) \in 0..csent
    BY <1>2, <2>1, StreamEmpty
  <2>3. ~(c = cconn /\ csync)
    BY <1>3
  <2>4. \E t \in 0..csent : /\ Stream(c2s'[c], Len(sgot), t)
                            /\ c = cconn /\ csync => t = csent
    BY <1>16, <2>2, <2>3
  <2> QED
    BY <1>1, <1>16, <2>1, <2>4 DEF UpStream, CBase, client
<1>18. Counts'
  <2>1. Bounded(<<>>, {"ack"}, Len(cgot))
    BY DEF Bounded
  <2>2. Bounded(s2c', {"ack", "recon"}, Len(sgot))
    BY <1>0, <1>9, <1>10 DEF Counts
  <2> QED
    BY <1>1, <1>16, <2>1, <2>2 DEF Counts, client
<1>19. Handshake'
  <2>1. CASE c = cconn
    BY <1>1, <1>3, <1>9, <1>10, <2>1 DEF Handshake, client
  <2>2. CASE c # cconn
    BY <1>0, <1>1, <1>10, <2>2 DEF Handshake, client
  <2> QED
    BY <2>1, <2>2
<1> QED
  BY <1>11, <1>12, <1>13, <1>14, <1>15, <1>17, <1>18, <1>19 DEF IRest

-----------------------------------------------------------------------------
(* The steps of the client and of the network                              *)

\* What a synchronised client puts on its connection continues the stream to the bot
\* if the bot reads that connection, and is lost otherwise.
LEMMA ClientPutUp ==
  ASSUME TypeOK, Wiring, UpStream, Counts, NEW msgs \in Seq(Msgs), NEW u \in Nat,
         csent <= u, Stream(msgs, csent, u), Bounded(msgs, {"ack"}, Len(cgot)),
         csync \/ (msgs = <<>> /\ u >= csent), ClientPut(msgs)
  PROVE  /\ ssock # 0 => \E t \in 0..u : /\ Stream(c2s'[ssock], Len(sgot), t)
                                         /\ ssock = cconn /\ csync => t = u
         /\ ssock # 0 => Bounded(c2s'[ssock], {"ack"}, Len(cgot))
         /\ \A c \in Conns : c # ssock => c2s'[c] = c2s[c]
         /\ ~csync => c2s' = c2s
         /\ \A c \in Conns : c2s[c] # <<>> => c2s'[c] # <<>> /\ Head(c2s'[c]) = Head(c2s[c])
<1>0. /\ csent \in Nat /\ Len(sgot) \in Nat /\ Len(sgot) <= csent
      /\ \A c \in Conns : c2s[c] \in Seq(Msgs)
      /\ ssock # 0 => ssock \in Conns
  BY TypeFacts DEF UpStream
<1>1. CASE ~csync
  <2>1. c2s' = c2s
    BY <1>1, ClientPutNothing
  <2>2. ssock # 0 => \E t \in 0..u : Stream(c2s[ssock], Len(sgot), t)
    <3>1. SUFFICES ASSUME ssock # 0 PROVE \E t \in 0..u : Stream(c2s[ssock], Len(sgot), t)
      OBVIOUS
    <3>2. PICK t \in 0..csent : Stream(c2s[ssock], Len(sgot), t)
      BY <3>1 DEF UpStream
    <3>3. t \in 0..u
      BY <1>0
    <3> QED
      BY <3>2, <3>3
  <2> QED
    BY <1>1, <2>1, <2>2 DEF Counts
<1>2. CASE csync /\ ssock # 0 /\ ssock = cconn
  <2>1. c2s' = [c2s EXCEPT ![ssock] = @ \o msgs]
    BY <1>2 DEF ClientPut
  <2>2. c2s'[ssock] = c2s[ssock] \o msgs /\ \A c \in Conns : c # ssock => c2s'[c] = c2s[c]
    BY <1>0, <1>2, <2>1 DEF TypeOK
  <2>3. Stream(c2s[ssock], Len(sgot), csent)
    <3>1. PICK t \in 0..csent : /\ Stream(c2s[ssock], Len(sgot), t)
                                /\ ssock = cconn /\ csync => t = csent
      BY <1>2 DEF UpStream
    <3> QED
      BY <1>2, <3>1
  <2>4. c2s[ssock] \in Seq(Msgs)
    BY <1>0, <1>2
  <2>5. Stream(c2s[ssock] \o msgs, Len(sgot), u)
    BY <1>0, <2>3, <2>4, StreamConcat
  <2>6. Bounded(c2s[ssock], {"ack"}, Len(cgot))
    BY <1>2 DEF Counts
  <2>7. /\ Bounded(c2s[ssock] \o msgs, {"ack"}, Len(cgot))
        /\ c2s[ssock] # <<>> => /\ c2s[ssock] \o msgs # <<>>
                                /\ Head(c2s[ssock] \o msgs) = Head(c2s[ssock])
    BY <2>4, <2>6, QueueConcat
  <2>8. u \in 0..u
    OBVIOUS
  <2> QED
    BY <1>2, <2>2, <2>5, <2>7, <2>8
<1>3. CASE csync /\ ~(ssock # 0 /\ ssock = cconn)
  <2>1. cconn \notin pending
    BY <1>3 DEF Wiring
  <2>2. c2s' = c2s
    BY <1>3, <2>1 DEF ClientPut
  <2>3. ssock # 0 => \E t \in 0..u : Stream(c2s[ssock], Len(sgot), t)
    <3>1. SUFFICES ASSUME ssock # 0 PROVE \E t \in 0..u : Stream(c2s[ssock], Len(sgot), t)
      OBVIOUS
    <3>2. PICK t \in 0..csent : Stream(c2s[ssock], Len(sgot), t)
      BY <3>1 DEF UpStream
    <3>3. t \in 0..u
      BY <1>0
    <3> QED
      BY <3>2, <3>3
  <2> QED
    BY <1>3, <2>2, <2>3 DEF Counts
<1> QED
  BY <1>1, <1>2, <1>3

\* The client sends one packet, or none, or an ack.
LEMMA ClientPutStep ==
  ASSUME IInv, NEW msgs \in Seq(Msgs), NEW u \in Nat, csent <= u, csent' = u,
         Stream(msgs, csent, u) \/ ~csync, Bounded(msgs, {"ack"}, Len(cgot)),
         csync \/ msgs = <<>>, ClientPut(msgs), Window(cbuf', u), u - Len(cbuf') = CBase,
         UNCHANGED <<server, key, cconn, csync, cgot, nconn, s2c>>
  PROVE  IRest'
<1>0. /\ TypeOK /\ InOrder /\ Windows /\ Phases /\ Wiring /\ DownStream /\ UpStream
      /\ Counts /\ Handshake
  BY DEF IInv
<1>1. csent \in Nat /\ Len(sgot) \in Nat /\ Conns = 1..MaxConns /\ (ssock # 0 => ssock \in Conns)
      /\ 1 \in Conns
  BY <1>0, TypeFacts
<1>2. /\ ssock # 0 => \E t \in 0..u : /\ Stream(c2s'[ssock], Len(sgot), t)
                                      /\ ssock = cconn /\ csync => t = u
      /\ ssock # 0 => Bounded(c2s'[ssock], {"ack"}, Len(cgot))
      /\ \A c \in Conns : c # ssock => c2s'[c] = c2s[c]
      /\ ~csync => c2s' = c2s
      /\ \A c \in Conns : c2s[c] # <<>> => c2s'[c] # <<>> /\ Head(c2s'[c]) = Head(c2s[c])
  <2>1. CASE csync
    <3>1. Stream(msgs, csent, u)
      BY <2>1
    <3> QED
      BY <1>0, <2>1, <3>1, ClientPutUp
  <2>2. CASE ~csync
    <3>1. msgs = <<>> /\ ClientPut(<<>>)
      BY <2>2
    <3>2. c2s' = c2s
      BY <1>0, <3>1, ClientPutNothing
    <3>3. ssock # 0 => \E t \in 0..u : Stream(c2s[ssock], Len(sgot), t)
      <4>1. SUFFICES ASSUME ssock # 0 PROVE \E t \in 0..u : Stream(c2s[ssock], Len(sgot), t)
        OBVIOUS
      <4>2. PICK t \in 0..csent : Stream(c2s[ssock], Len(sgot), t)
        BY <1>0, <4>1 DEF UpStream
      <4>3. t \in 0..u
        BY <1>1
      <4> QED
        BY <4>2, <4>3
    <3> QED
      BY <1>0, <2>2, <3>2, <3>3 DEF Counts
  <2> QED
    BY <2>1, <2>2
<1>3. InOrder' /\ Windows'
  BY <1>0 DEF InOrder, IsPrefixOfNat, Windows, server
<1>4. Phases'
  BY <1>0, <1>1, <1>2 DEF Phases, server
<1>5. Wiring'
  <2>1. pending \subseteq Conns /\ ssock \notin pending
    BY <1>0 DEF TypeOK, Wiring
  <2>2. \A c \in Conns : c \notin pending \cup {ssock} => c2s'[c] = <<>>
    BY <1>0, <1>2 DEF Wiring
  <2>3. \A c \in pending : c2s'[c] = c2s[c]
    BY <1>2, <2>1
  <2> QED
    BY <1>0, <2>2, <2>3 DEF Wiring, server
<1>6. DownStream'
  BY <1>0 DEF DownStream, Base, server
<1>7. UpStream'
  <2>1. Len(sgot) <= u /\ u - Len(cbuf') <= Len(sgot)
    BY <1>0, <1>1 DEF UpStream
  <2>2. ssock # 0 /\ ssock = cconn /\ ~csync => c2s'[ssock] = <<>>
    BY <1>0, <1>2 DEF UpStream
  <2> QED
    BY <1>2, <2>1, <2>2 DEF UpStream, CBase, server
<1>8. Counts' /\ Handshake'
  BY <1>0, <1>2 DEF Counts, Handshake, server
<1> QED
  BY <1>3, <1>4, <1>5, <1>6, <1>7, <1>8 DEF IRest

\* The client sends a packet, and keeps it.
LEMMA ClientSendStep == ASSUME IInv, ClientSend PROVE IRest'
<1> DEFINE msgs == IF csync THEN <<Pkt(csent + 1)>> ELSE <<>>
<1>0. TypeOK /\ Window(cbuf, csent)
  BY DEF IInv, Windows
<1>1. /\ csent \in Nat /\ cbuf \in Seq(Nat) /\ Len(cbuf) \in Nat /\ Len(cgot) \in Nat
  BY <1>0, TypeFacts
<1>2. /\ msgs \in Seq(Msgs) /\ Bounded(msgs, {"ack"}, Len(cgot))
      /\ Stream(msgs, csent, csent + 1) \/ ~csync
      /\ csync \/ msgs = <<>>
  <2>1. CASE ~csync
    <3>1. msgs = <<>> /\ Len(<<>>) = 0
      BY <2>1
    <3> HIDE DEF msgs
    <3> QED
      BY <2>1, <3>1 DEF Bounded
  <2>2. CASE csync
    <3> DEFINE one == <<csent + 1>>
    <3>1. one \in Seq(Nat) /\ Len(one) = 1 /\ one[1] = csent + 1
      BY <1>1
    <3>2. Window(one, csent + 1)
      BY <1>1, <3>1 DEF Window
    <3>3. csent + 1 \in Nat /\ (csent + 1) - 1 = csent
      BY <1>1
    <3>4. Pkts(one) = <<Pkt(csent + 1)>>
      BY DEF Pkts
    <3> HIDE DEF one
    <3>5. Pkts(one) \in Seq(Msgs) /\ Stream(Pkts(one), csent, csent + 1)
      BY <3>1, <3>2, <3>3, PktsStream
    <3>6. Bounded(Pkts(one), {"ack"}, Len(cgot))
      BY <3>1, PktsPlain
    <3>7. msgs = Pkts(one)
      BY <2>2, <3>4
    <3> QED
      BY <2>2, <3>5, <3>6, <3>7
  <2> QED
    BY <2>1, <2>2
<1>3. ClientPut(msgs) /\ csent' = csent + 1 /\ cbuf' = Append(cbuf, csent + 1)
      /\ UNCHANGED <<server, key, cconn, csync, cgot, nconn, s2c>>
  BY DEF ClientSend
<1> HIDE DEF msgs
<1>4. Window(cbuf', csent + 1) /\ (csent + 1) - Len(cbuf') = CBase
  <2>1. /\ Len(cbuf') = Len(cbuf) + 1
        /\ \A i \in 1..Len(cbuf) : cbuf'[i] = cbuf[i]
        /\ cbuf'[Len(cbuf) + 1] = csent + 1
    BY <1>1, <1>3, AppendProperties
  <2>2. Len(cbuf) <= csent /\ \A i \in 1..Len(cbuf) : cbuf[i] = csent - Len(cbuf) + i
    BY <1>0 DEF Window
  <2>3. \A i \in 1..Len(cbuf') : i \in 1..Len(cbuf) \/ i = Len(cbuf) + 1
    BY <1>1, <2>1
  <2>4. /\ (csent + 1) - Len(cbuf') = csent - Len(cbuf)
        /\ csent - Len(cbuf) + (Len(cbuf) + 1) = csent + 1
        /\ Len(cbuf') <= csent + 1
    BY <1>1, <2>1, <2>2
  <2>5. \A i \in 1..Len(cbuf') : cbuf'[i] = (csent + 1) - Len(cbuf') + i
    BY <2>1, <2>2, <2>3, <2>4
  <2> QED
    BY <2>4, <2>5 DEF Window, CBase
<1>5. csent + 1 \in Nat /\ csent <= csent + 1
  BY <1>1
<1> QED
  BY <1>2, <1>3, <1>4, <1>5, ClientPutStep

\* The client acknowledges what it has got.
LEMMA ClientAckStep == ASSUME IInv, ClientAck PROVE IRest'
<1>0. TypeOK /\ Window(cbuf, csent)
  BY DEF IInv, Windows
<1>1. csent \in Nat /\ Len(cgot) \in Nat /\ csent <= csent
  BY <1>0, TypeFacts
<1>2. Ack(Len(cgot)) \in Msgs /\ Ack(Len(cgot)).t = "ack" /\ Ack(Len(cgot)).n = Len(cgot)
  BY <1>1 DEF Ack, Msgs
<1>3. Len(cgot) <= Len(cgot)
  BY <1>1
<1>4. /\ <<Ack(Len(cgot))>> \in Seq(Msgs) /\ Stream(<<Ack(Len(cgot))>>, csent, csent)
      /\ Bounded(<<Ack(Len(cgot))>>, {"ack"}, Len(cgot))
  BY <1>1, <1>2, <1>3, OneMessage
<1>5. /\ csync /\ ClientPut(<<Ack(Len(cgot))>>)
      /\ csent' = csent /\ cbuf' = cbuf
      /\ UNCHANGED <<server, key, cconn, csync, cgot, nconn, s2c>>
  BY DEF ClientAck, client
<1>6. Window(cbuf', csent) /\ csent - Len(cbuf') = CBase
  BY <1>0, <1>5 DEF CBase
<1> QED
  BY <1>1, <1>4, <1>5, <1>6, ClientPutStep

\* The client loses its connection.
LEMMA ClientLostStep ==
  ASSUME IInv, ~PreLoadAtRisk, ClientLost
  PROVE  IRest'
<1>0. /\ TypeOK /\ InOrder /\ Windows /\ Phases /\ Wiring /\ DownStream /\ UpStream
      /\ Counts /\ Handshake
  BY DEF IInv
<1>1. /\ cconn' = 0 /\ csync' = FALSE /\ s2c' = <<>>
      /\ UNCHANGED <<server, key, cgot, csent, cbuf, nconn, c2s>>
      /\ \/ phase = "loaded" /\ unkept <= Len(cgot)
         \/ phase = "gone"
  BY DEF ClientLost, MayBreak
<1>2. InOrder' /\ Windows'
  BY <1>0, <1>1 DEF InOrder, IsPrefixOfNat, Windows, server
<1>3. Phases'
  <2>1. phase # "loading"
    BY <1>1
  <2> QED
    BY <1>0, <1>1, <2>1 DEF Phases, server
<1>4. Wiring'
  <2>1. \A c \in pending : c # 0
    BY <1>0 DEF TypeOK, Conns
  <2> QED
    BY <1>0, <1>1, <2>1 DEF Wiring, server
<1>5. DownStream'
  <2>1. sent \in Nat /\ Len(cgot) \in Nat
    BY <1>0, TypeFacts
  <2>2. Len(cgot) \in 0..sent
    BY <1>0, <2>1 DEF DownStream
  <2>3. Stream(<<>>, Len(cgot), Len(cgot))
    BY <2>1, StreamEmpty
  <2> QED
    BY <1>0, <1>1, <2>2, <2>3 DEF DownStream, Base, server
<1>6. UpStream'
  <2>1. ssock # 0 => ssock # cconn'
    BY <1>1
  <2> QED
    BY <1>0, <1>1, <2>1 DEF UpStream, CBase, server
<1>7. Counts'
  <2>1. Bounded(<<>>, {"ack", "recon"}, Len(sgot))
    BY DEF Bounded
  <2> QED
    BY <1>0, <1>1, <2>1 DEF Counts, server
<1>8. Handshake'
  BY <1>1 DEF Handshake, Single, Free, server
<1> QED
  BY <1>2, <1>3, <1>4, <1>5, <1>6, <1>7, <1>8 DEF IRest

\* A new connection starts with the number of packets the client has.
LEMMA ClientReconnectStep == ASSUME IInv, ClientReconnect PROVE IRest'
<1> DEFINE d == nconn + 1
<1>0. /\ TypeOK /\ InOrder /\ Windows /\ Phases /\ Wiring /\ DownStream /\ UpStream
      /\ Counts /\ Handshake
  BY DEF IInv
<1>1. /\ cconn = 0 /\ nconn' = d /\ cconn' = d /\ pending' = pending \cup {d}
      /\ c2s' = [c2s EXCEPT ![d] = <<Recon(Len(cgot))>>]
      /\ nconn < MaxConns
      /\ UNCHANGED <<phase, gproxy, sent, buffer, sgot, ssock, noticeSent, unkept,
                     key, csync, cgot, csent, cbuf, s2c>>
  BY DEF ClientReconnect
<1>2. /\ nconn \in Nat /\ d \in Conns /\ d \in Nat /\ d # 0 /\ nconn < d /\ Len(cgot) \in Nat
      /\ ssock \in Nat /\ ssock <= nconn /\ d # ssock /\ d \notin pending /\ nconn >= 1
      /\ pending \subseteq Conns /\ pending \subseteq 1..nconn
  <2>1. nconn \in Nat /\ nconn >= 1 /\ ssock \in Nat /\ Len(cgot) \in Nat
        /\ Conns = 1..MaxConns /\ MaxConns \in Nat
    BY <1>0, TypeFacts
  <2>2. ssock <= nconn /\ pending \subseteq 1..nconn /\ pending \subseteq Conns
    BY <1>0 DEF Wiring, TypeOK
  <2>3. d \in Conns /\ d \in Nat /\ d # 0 /\ nconn < d /\ d # ssock
    BY <1>1, <2>1, <2>2
  <2>4. d \notin 1..nconn
    BY <2>1
  <2> QED
    BY <2>1, <2>2, <2>3, <2>4
<1>3. \A c \in Conns : c2s'[c] = IF c = d THEN <<Recon(Len(cgot))>> ELSE c2s[c]
  BY <1>0, <1>1, <1>2 DEF TypeOK
<1>4. s2c = <<>> /\ csync = FALSE
  BY <1>0, <1>1 DEF Wiring
<1>5. phase # "loading"
  BY <1>0, <1>1 DEF Phases
<1>6. ssock # 0 => ssock \in Conns /\ c2s'[ssock] = c2s[ssock]
  BY <1>0, <1>2, <1>3, TypeFacts
<1> HIDE DEF d
<1>7. InOrder' /\ Windows'
  BY <1>0, <1>1 DEF InOrder, IsPrefixOfNat, Windows
<1>8. Phases'
  BY <1>0, <1>1, <1>5 DEF Phases
<1>9. Wiring'
  <2>1. \A c \in Conns : c \notin pending' \cup {ssock} => c2s'[c] = <<>>
    BY <1>0, <1>1, <1>3 DEF Wiring
  <2>2. \A c \in pending : c # d /\ c2s'[c] = c2s[c]
    BY <1>2, <1>3
  <2>3. /\ Len(c2s'[d]) = 1 /\ Head(c2s'[d]).t = "recon" /\ Head(c2s'[d]).n = Len(cgot)
    BY <1>2, <1>3 DEF Recon
  <2>4. \A c \in pending' : /\ Len(c2s'[c]) = 1
                            /\ Head(c2s'[c]).t = "recon" /\ Head(c2s'[c]).n <= Len(cgot)
                            /\ c = d => Head(c2s'[c]).n = Len(cgot)
    <3>1. \A c \in pending : /\ Len(c2s[c]) = 1
                             /\ Head(c2s[c]).t = "recon" /\ Head(c2s[c]).n <= Len(cgot)
      BY <1>0, Zenon DEF Wiring
    <3>2. Len(cgot) <= Len(cgot)
      BY <1>2
    <3> QED
      BY <1>1, <2>2, <2>3, <3>1, <3>2
  <2>5. pending' \subseteq 1..nconn' /\ ssock <= nconn' /\ ssock \notin pending'
    <3>1. pending \subseteq 1..d /\ d \in 1..d
      BY <1>2
    <3>2. ssock <= d
      BY <1>2
    <3> QED
      BY <1>0, <1>1, <1>2, <3>1, <3>2 DEF Wiring
  <2> QED
    BY <1>1, <1>2, <1>4, <2>1, <2>4, <2>5 DEF Wiring
<1>10. DownStream'
  <2>1. phase # "gone" => unkept <= Len(cgot)
    BY <1>0, <1>1 DEF DownStream
  <2>2. \E t \in 0..sent : Stream(s2c, Len(cgot), t)
    BY <1>0 DEF DownStream
  <2>3. cconn' # ssock
    BY <1>1, <1>2
  <2> QED
    BY <1>0, <1>1, <2>1, <2>2, <2>3 DEF DownStream, Base
<1>11. UpStream'
  <2>1. cconn' # ssock
    BY <1>1, <1>2
  <2> QED
    BY <1>0, <1>1, <1>6, <2>1 DEF UpStream, CBase
<1>12. Counts'
  BY <1>0, <1>1, <1>6 DEF Counts
<1>13. Handshake'
  <2>1. cconn' # ssock
    BY <1>1, <1>2
  <2> QED
    BY <1>0, <1>1, <2>1 DEF Handshake
<1> QED
  BY <1>7, <1>8, <1>9, <1>10, <1>11, <1>12, <1>13 DEF IRest

\* One packet of the client's connection: a W3GS packet is the next one, a count drops
\* only what the bot has, and GPSS_RECONNECT makes the client send the rest again.
LEMMA ClientRecvStep == ASSUME IInv, ClientRecv PROVE IRest'
<1> DEFINE m    == Head(s2c)
           keep == Unqueue(cbuf, csent, m.n)
           back == IF m.t = "recon" THEN Pkts(keep) ELSE <<>>
<1>0. /\ TypeOK /\ InOrder /\ Windows /\ Phases /\ Wiring /\ DownStream /\ UpStream
      /\ Counts /\ Handshake
  BY DEF IInv
<1>1. /\ cconn # 0 /\ s2c # <<>>
      /\ s2c' = IF m.t = "reject" THEN <<>> ELSE Tail(s2c)
      /\ cgot' = IF m.t = "pkt" THEN Append(cgot, m.n) ELSE cgot
      /\ cbuf' = IF m.t \in {"ack", "recon"} THEN keep ELSE cbuf
      /\ ClientPut(back)
      /\ csync' = (m.t # "reject" /\ (csync \/ m.t = "recon"))
      /\ cconn' = IF m.t = "reject" THEN 0 ELSE cconn
      /\ UNCHANGED <<server, csent, nconn>>
  BY DEF ClientRecv
<1>2. /\ s2c \in Seq(Msgs) /\ m \in Msgs /\ m.n \in Nat /\ Tail(s2c) \in Seq(Msgs)
      /\ sent \in Nat /\ csent \in Nat /\ cgot \in Seq(Nat) /\ Len(cgot) \in Nat
      /\ Len(sgot) \in Nat /\ cbuf \in Seq(Nat) /\ Len(cbuf) \in Nat /\ Len(buffer) \in Nat
      /\ unkept \in Nat /\ 1 \in Conns /\ (ssock # 0 => ssock \in Conns)
      /\ csync \in BOOLEAN
  BY <1>0, <1>1, TypeFacts, MessageTypes DEF TypeOK, Conns
<1>3. cconn \notin pending
  BY <1>0, <1>1 DEF Wiring
<1>4. PICK t \in 0..sent : /\ Stream(s2c, Len(cgot), t)
                           /\ cconn # 0 /\ cconn = ssock => t = sent
  BY <1>0 DEF DownStream
<1> HIDE DEF m, keep, back
\* the W3GS packets
<1>5. /\ Len(cgot') \in Nat /\ Len(cgot) <= Len(cgot') /\ Len(cgot') <= sent
      /\ \A i \in 1..Len(cgot') : cgot'[i] = i
      /\ Stream(Tail(s2c), Len(cgot'), t)
  <2>1. \A i \in 1..Len(cgot) : cgot[i] = i
    BY <1>0 DEF InOrder, IsPrefixOfNat
  <2>2. Len(cgot) <= sent
    BY <1>0 DEF DownStream
  <2>3. ASSUME m.t = "pkt"
        PROVE  /\ Len(cgot') = Len(cgot) + 1 /\ Len(cgot) + 1 <= t
               /\ \A i \in 1..Len(cgot') : cgot'[i] = i
               /\ Stream(Tail(s2c), Len(cgot'), t)
    <3>1. m.n = Len(cgot) + 1 /\ Len(cgot) + 1 <= t /\ Stream(Tail(s2c), Len(cgot) + 1, t)
      BY <1>1, <1>2, <1>4, <2>3, StreamHead DEF m
    <3>2. cgot' = Append(cgot, Len(cgot) + 1)
      BY <1>1, <2>3, <3>1
    <3>3. /\ Len(Append(cgot, Len(cgot) + 1)) = Len(cgot) + 1
          /\ \A i \in 1..Len(cgot) : Append(cgot, Len(cgot) + 1)[i] = cgot[i]
          /\ Append(cgot, Len(cgot) + 1)[Len(cgot) + 1] = Len(cgot) + 1
      BY <1>2, AppendProperties
    <3>4. \A i \in 1..(Len(cgot) + 1) : i \in 1..Len(cgot) \/ i = Len(cgot) + 1
      BY <1>2
    <3>5. \A i \in 1..Len(cgot') : cgot'[i] = i
      BY <2>1, <3>2, <3>3, <3>4
    <3> QED
      BY <3>1, <3>2, <3>3, <3>5
  <2>4. ASSUME m.t # "pkt"
        PROVE  cgot' = cgot /\ Stream(Tail(s2c), Len(cgot), t)
    BY <1>1, <1>2, <1>4, <2>4, StreamHead DEF m
  <2>5. CASE m.t = "pkt"
    BY <1>2, <2>3, <2>5
  <2>6. CASE m.t # "pkt"
    BY <1>2, <2>1, <2>2, <2>4, <2>6
  <2> QED
    BY <2>5, <2>6
<1>6. InOrder'
  BY <1>0, <1>1, <1>5 DEF InOrder, IsPrefixOfNat, server
\* the counts
<1>7. m.t \in {"ack", "recon"} => m.n <= Len(sgot)
  <2>1. Bounded(s2c, {"ack", "recon"}, Len(sgot))
    BY <1>0 DEF Counts
  <2> QED
    BY <1>1, <1>2, <2>1, QueueTail DEF m
<1>8. /\ keep \in Seq(Nat) /\ Window(keep, csent) /\ Len(keep) \in Nat
      /\ csent - Len(keep) <= CBase \/ csent - Len(keep) <= m.n
      /\ CBase <= m.n /\ m.n <= csent => csent - Len(keep) = m.n
  <2>1. Window(cbuf, csent)
    BY <1>0 DEF Windows
  <2>2. /\ keep \in Seq(Nat) /\ Window(keep, csent)
        /\ csent - Len(keep) <= csent - Len(cbuf) \/ csent - Len(keep) <= m.n
        /\ csent - Len(cbuf) <= m.n /\ m.n <= csent => csent - Len(keep) = m.n
    BY <1>2, <2>1, UnqueueWindow DEF keep
  <2>3. Len(keep) \in Nat
    BY <2>2, LenProperties
  <2> QED
    BY <2>2, <2>3 DEF CBase
<1>9. Window(cbuf', csent) /\ csent - Len(cbuf') <= Len(sgot)
  <2>1. CBase <= Len(sgot) /\ Window(cbuf, csent)
    BY <1>0 DEF UpStream, Windows
  <2>2. CASE m.t \in {"ack", "recon"}
    <3>1. cbuf' = keep /\ m.n <= Len(sgot)
      BY <1>1, <1>7, <2>2
    <3>2. csent - Len(keep) <= Len(sgot)
      BY <1>2, <1>8, <2>1, <3>1 DEF CBase
    <3> QED
      BY <1>8, <3>1, <3>2
  <2>3. CASE m.t \notin {"ack", "recon"}
    BY <1>1, <2>1, <2>3 DEF CBase
  <2> QED
    BY <2>2, <2>3
<1>10. Windows'
  BY <1>0, <1>1, <1>9 DEF Windows, server
\* the handshake
<1>11. m.t = "recon" => ~csync /\ Free(Tail(s2c), "recon")
  BY <1>0, <1>1, <1>2, QueueTail DEF Handshake, m
<1>12. m.t = "reject" => phase = "gone" /\ ssock = 0
  <2>1. m.t = "reject" => ~Free(s2c, "reject")
    BY <1>1, <1>2, QueueTail DEF m
  <2> QED
    BY <1>0, <2>1 DEF Handshake, Phases
<1>13. m.t # "recon" => c2s' = c2s
  <2>1. m.t # "recon" => ClientPut(<<>>)
    BY <1>1 DEF back
  <2> QED
    BY <1>0, <2>1, ClientPutNothing
<1>14. m.t = "recon" /\ ~(ssock # 0 /\ ssock = cconn) => c2s' = c2s
  BY <1>1, <1>3 DEF ClientPut
<1>15. ASSUME m.t = "recon", ssock # 0, ssock = cconn
       PROVE  /\ Stream(c2s'[ssock], Len(sgot), csent)
              /\ Bounded(c2s'[ssock], {"ack"}, Len(cgot))
              /\ \A c \in Conns : c # ssock => c2s'[c] = c2s[c]
              /\ c2s[ssock] = <<>>
  <2>1. ~csync /\ c2s[ssock] = <<>>
    BY <1>0, <1>11, <1>15 DEF UpStream
  <2>2. m.n = Len(sgot)
    <3>1. Holds(s2c, "recon", Len(sgot)) /\ Single(s2c, "recon")
      BY <1>0, <1>15, <2>1 DEF Handshake
    <3> QED
      BY <1>1, <1>2, <1>15, <3>1, QueueTail DEF m
  <2>3. csent - Len(keep) = Len(sgot)
    BY <1>0, <1>8, <2>2 DEF UpStream
  <2>4. /\ Pkts(keep) \in Seq(Msgs) /\ Stream(Pkts(keep), csent - Len(keep), csent)
        /\ Bounded(Pkts(keep), {"ack"}, Len(cgot))
    BY <1>2, <1>8, PktsStream, PktsPlain
  <2>5. c2s' = [c2s EXCEPT ![ssock] = @ \o Pkts(keep)]
    BY <1>1, <1>15 DEF ClientPut, back
  <2>6. ssock \in Conns
    BY <1>2, <1>15
  <2>7. c2s'[ssock] = <<>> \o Pkts(keep) /\ \A c \in Conns : c # ssock => c2s'[c] = c2s[c]
    BY <1>0, <2>1, <2>5, <2>6 DEF TypeOK
  <2>8. <<>> \o Pkts(keep) = Pkts(keep)
    BY <2>4
  <2> QED
    BY <2>1, <2>3, <2>4, <2>7, <2>8
<1>16. \A c \in Conns : c # ssock => c2s'[c] = c2s[c]
  BY <1>13, <1>14, <1>15
<1>17. Phases'
  <2>1. phase = "loading" => m.t # "reject"
    BY <1>12
  <2>2. phase = "loading" /\ ~gproxy => c2s' = c2s
    <3>1. SUFFICES ASSUME phase = "loading", ~gproxy, m.t = "recon" PROVE FALSE
      BY <1>13
    <3>2. ssock = 1 /\ cconn = 1 /\ c2s[1] # <<>>
      BY <1>0, <3>1 DEF Phases
    <3> QED
      BY <1>15, <3>1, <3>2
  <2> QED
    BY <1>0, <1>1, <2>1, <2>2 DEF Phases, server
<1>18. Wiring'
  <2>1. pending \subseteq Conns /\ ssock \notin pending /\ \A c \in pending : c # 0
    BY <1>0 DEF TypeOK, Wiring, Conns
  <2>2. \A c \in Conns : c \notin pending \cup {ssock} => c2s'[c] = <<>>
    BY <1>0, <1>16 DEF Wiring
  <2>3. \A c \in pending : c2s'[c] = c2s[c] /\ c # cconn'
    BY <1>1, <1>3, <1>16, <2>1
  <2>4. \A c \in pending : Head(c2s[c]).n <= Len(cgot')
    <3>1. \A c \in pending : Head(c2s[c]).n <= Len(cgot) /\ Head(c2s[c]).n \in Nat
      <4>1. \A c \in pending : c2s[c] \in Seq(Msgs) /\ Len(c2s[c]) = 1 /\ Head(c2s[c]).n <= Len(cgot)
        BY <1>0, <2>1, TypeFacts DEF Wiring
      <4>2. \A c \in pending : Head(c2s[c]) \in Msgs
        BY <4>1, TailOfOne
      <4> QED
        BY <4>1, <4>2 DEF Msgs
    <3> QED
      BY <1>2, <1>5, <3>1
  <2>5. \A c \in pending : Len(c2s[c]) = 1 /\ Head(c2s[c]).t = "recon"
    BY <1>0, Zenon DEF Wiring
  <2>6. /\ cconn' \in {0, nconn}
        /\ cconn' = 0 => s2c' = <<>> /\ csync' = FALSE
    BY <1>0, <1>1 DEF Wiring
  <2> QED
    BY <1>0, <1>1, <2>2, <2>3, <2>4, <2>5, <2>6 DEF Wiring, server
<1>19. DownStream'
  <2>1. \E u \in 0..sent : /\ Stream(s2c', Len(cgot'), u)
                           /\ cconn' # 0 /\ cconn' = ssock => u = sent
    <3>1. CASE m.t = "reject"
      <4>1. Stream(<<>>, Len(cgot'), Len(cgot')) /\ Len(cgot') \in 0..sent
        BY <1>2, <1>5, StreamEmpty
      <4> QED
        BY <1>1, <3>1, <4>1
    <3>2. CASE m.t # "reject"
      BY <1>1, <1>4, <1>5, <3>2
    <3> QED
      BY <3>1, <3>2
  <2>2. phase # "gone" => Base <= unkept \/ Base <= Len(cgot')
    BY <1>0, <1>2, <1>5 DEF DownStream, Base
  <2>3. /\ cconn' # cconn => phase = "gone"
    BY <1>1, <1>12
  <2>4. phase # "gone" /\ (ssock # cconn' \/ ssock = 0 \/ nconn > 1) => unkept <= Len(cgot')
    BY <1>0, <1>2, <1>5, <2>3 DEF DownStream
  <2> QED
    BY <1>1, <1>5, <2>1, <2>2, <2>4 DEF DownStream, Base, server
<1>20. UpStream'
  <2>1. Len(sgot) <= csent
    BY <1>0 DEF UpStream
  <2>2. ssock # 0 => cconn' = cconn
    BY <1>1, <1>12
  <2>3. CASE m.t = "recon" /\ ssock # 0 /\ ssock = cconn
    <3>1. csync' = TRUE
      BY <1>1, <2>3
    <3>2. csent \in 0..csent
      BY <1>2
    <3> QED
      BY <1>1, <1>9, <1>15, <2>1, <2>3, <3>1, <3>2 DEF UpStream, CBase, server
  <2>4. CASE ~(m.t = "recon" /\ ssock # 0 /\ ssock = cconn)
    <3>1. c2s' = c2s
      BY <1>13, <1>14, <2>4
    <3>2. ssock # 0 /\ ssock = cconn => csync' = csync
      BY <1>1, <1>2, <1>12, <2>4
    <3>3. ssock # 0 => \E u \in 0..csent : /\ Stream(c2s[ssock], Len(sgot), u)
                                           /\ ssock = cconn /\ csync => u = csent
      BY <1>0 DEF UpStream
    <3>4. ssock # 0 /\ ssock = cconn /\ ~csync => c2s[ssock] = <<>>
      BY <1>0 DEF UpStream
    <3> QED
      BY <1>1, <1>9, <2>1, <2>2, <3>1, <3>2, <3>3, <3>4 DEF UpStream, CBase, server
  <2> QED
    BY <2>3, <2>4
<1>21. Counts'
  <2>1. Bounded(s2c', {"ack", "recon"}, Len(sgot))
    <3>1. Bounded(Tail(s2c), {"ack", "recon"}, Len(sgot))
      BY <1>0, <1>1, <1>2, QueueTail DEF Counts
    <3>2. Bounded(<<>>, {"ack", "recon"}, Len(sgot))
      BY DEF Bounded
    <3> QED
      BY <1>1, <3>1, <3>2
  <2>2. ssock # 0 => Bounded(c2s'[ssock], {"ack"}, Len(cgot))
    BY <1>0, <1>13, <1>14, <1>15 DEF Counts
  <2>3. ssock # 0 => Bounded(c2s'[ssock], {"ack"}, Len(cgot'))
    <3>1. SUFFICES ASSUME ssock # 0 PROVE Bounded(c2s'[ssock], {"ack"}, Len(cgot'))
      OBVIOUS
    <3>2. c2s'[ssock] \in Seq(Msgs)
      BY <1>0, <1>2, <3>1, TypeNext DEF TypeOK, Next
    <3>3. \A i \in 1..Len(c2s'[ssock]) : c2s'[ssock][i].n \in Nat
      <4>1. \A i \in 1..Len(c2s'[ssock]) : c2s'[ssock][i] \in Msgs
        BY <3>2, ElementOfSeq
      <4> QED
        BY <4>1 DEF Msgs
    <3> QED
      BY <1>2, <1>5, <2>2, <3>1, <3>3 DEF Bounded
  <2> QED
    BY <1>1, <2>1, <2>3 DEF Counts, server
<1>22. Handshake'
  <2>1. Len(<<>>) = 0
    OBVIOUS
  <2>2. CASE m.t = "reject"
    BY <1>1, <1>12, <2>1, <2>2 DEF Handshake, Free, Single, server
  <2>3. CASE m.t # "reject"
    <3>1. s2c' = Tail(s2c) /\ cconn' = cconn /\ csync' = (csync \/ m.t = "recon")
      BY <1>1, <2>3
    <3>2. csync' => Free(Tail(s2c), "recon")
      BY <1>0, <1>1, <1>2, <1>11, <3>1, QueueTail DEF Handshake
    <3>3. Single(Tail(s2c), "recon")
      BY <1>0, <1>1, <1>2, QueueTail DEF Handshake
    <3>4. ssock # 0 /\ ssock = cconn /\ ~csync' => Holds(Tail(s2c), "recon", Len(sgot))
      BY <1>0, <1>1, <1>2, <3>1, QueueTail DEF Handshake, m
    <3>5. phase # "gone" => Free(Tail(s2c), "reject")
      BY <1>0, <1>1, <1>2, QueueTail DEF Handshake
    <3> QED
      BY <1>1, <3>1, <3>2, <3>3, <3>4, <3>5 DEF Handshake, server
  <2> QED
    BY <2>2, <2>3
<1> QED
  BY <1>6, <1>10, <1>17, <1>18, <1>19, <1>20, <1>21, <1>22 DEF IRest

-----------------------------------------------------------------------------
(* The invariant                                                           *)

\* IInv holds initially.
LEMMA InvInit == Init => IInv
<1> SUFFICES ASSUME Init PROVE IInv
  OBVIOUS
<1>1. TypeOK
  BY TypeInit
<1>2. /\ sgot = <<1>> /\ cbuf = <<1>> /\ cgot = <<>> /\ buffer = <<>> /\ s2c = <<>>
      /\ Len(<<1>>) = 1 /\ <<1>>[1] = 1 /\ Len(<<>>) = 0
      /\ sent = 0 /\ csent = 1 /\ unkept = 0
  BY DEF Init
<1>3. /\ phase = "loading" /\ gproxy = FALSE /\ ssock = 1 /\ pending = {} /\ cconn = 1
      /\ csync = TRUE /\ nconn = 1 /\ 1 \in Conns
      /\ \A c \in Conns : c2s[c] = IF c = 1 THEN <<Hello>> ELSE <<>>
  BY BoundsAssumption DEF Init, Conns
<1>4. /\ Hello \in Msgs /\ Hello.t = "init"
  BY DEF Hello, Msgs
<1>5. /\ <<Hello>> # <<>> /\ Head(<<Hello>>) = Hello
      /\ Stream(<<Hello>>, 1, 1) /\ Bounded(<<Hello>>, {"ack"}, 0)
  BY <1>4, OneMessage
<1>6. c2s[1] = <<Hello>>
  BY <1>3
<1>7. InOrder /\ Windows
  BY <1>2 DEF InOrder, IsPrefixOfNat, Windows, Window
<1>8. Phases
  BY <1>2, <1>3, <1>4, <1>5, <1>6 DEF Phases
<1>9. Wiring
  BY <1>2, <1>3 DEF Wiring
<1>10. DownStream
  <2>1. Stream(<<>>, 0, 0)
    BY StreamEmpty
  <2> QED
    BY <1>2, <1>3, <2>1 DEF DownStream, Base
<1>11. UpStream
  BY <1>2, <1>3, <1>5, <1>6 DEF UpStream, CBase
<1>12. Counts /\ Handshake
  BY <1>2, <1>3, <1>5, <1>6 DEF Counts, Handshake, Bounded, Free, Single
<1> QED
  BY <1>1, <1>7, <1>8, <1>9, <1>10, <1>11, <1>12 DEF IInv

\* IInv is inductive, while no connection breaks over a packet that the bot does not keep.
LEMMA InvNext ==
  ASSUME ~PreLoadAtRisk
  PROVE  IInv /\ [Next]_vars => IInv'
<1> SUFFICES ASSUME IInv, [Next]_vars PROVE IInv'
  OBVIOUS
<1>1. TypeOK'
  BY TypeNext DEF IInv
<1>2. IRest'
  <2>1. CASE ServerSend
    BY <2>1, ServerSendStep
  <2>2. CASE Load
    BY <2>2, LoadStep
  <2>3. CASE ServerAck
    BY <2>3, ServerAckStep
  <2>4. CASE ServerRecv
    BY <2>4, ServerRecvStep
  <2>5. CASE ServerSocketClosed
    BY <2>5, ServerSocketClosedStep
  <2>6. CASE ServerTimedOut
    BY <2>6, ServerTimedOutStep
  <2>7. CASE ServerDrop
    BY <2>7, ServerDropStep
  <2>8. ASSUME NEW c \in Conns, ReconnectSocketLost(c) PROVE IRest'
    BY <2>8, ReconnectSocketLostStep
  <2>9. ASSUME NEW c \in Conns, EventGProxyReconnect(c) PROVE IRest'
    BY <2>9, EventGProxyReconnectStep
  <2>10. ASSUME NEW c \in Conns, RejectReconnect(c) PROVE IRest'
    BY <2>10, RejectReconnectStep
  <2>11. CASE ClientSend
    BY <2>11, ClientSendStep
  <2>12. CASE ClientAck
    BY <2>12, ClientAckStep
  <2>13. CASE ClientRecv
    BY <2>13, ClientRecvStep
  <2>14. CASE ClientLost
    BY <2>14, ClientLostStep
  <2>15. CASE ClientReconnect
    BY <2>15, ClientReconnectStep
  <2>16. CASE UNCHANGED vars
    <3>1. InOrder' /\ Windows' /\ Phases' /\ Wiring'
      BY <2>16 DEF IInv, InOrder, IsPrefixOfNat, Windows, Phases, Wiring, vars, server,
         client, net
    <3>2. DownStream' /\ UpStream' /\ Counts' /\ Handshake'
      BY <2>16 DEF IInv, DownStream, UpStream, Base, CBase, Counts, Handshake, vars, server,
         client, net
    <3> QED
      BY <3>1, <3>2 DEF IRest
  <2> QED
    BY <2>1, <2>2, <2>3, <2>4, <2>5, <2>6, <2>7, <2>8, <2>9, <2>10, <2>11, <2>12, <2>13,
       <2>14, <2>15, <2>16 DEF Next
<1> QED
  BY <1>1, <1>2 DEF IInv, IRest

\* IInv holds in every state.
LEMMA Invariance ==
  ASSUME ~PreLoadAtRisk
  PROVE  Spec => []IInv
<1>1. IInv /\ [Next]_vars => IInv'
  BY InvNext
<1> QED
  BY InvInit, <1>1, PTL DEF Spec

-----------------------------------------------------------------------------
(* What follows                                                            *)

\* Whatever breaks and whenever the client reconnects, the player's game sees the bot's
\* packets exactly once and in order, as long as no connection breaks over a packet
\* that CGamePlayer::Send did not keep.
THEOREM ClientInOrder ==
  ASSUME ~PreLoadAtRisk
  PROVE  Spec => []ClientStreamInOrder
<1>1. IInv => ClientStreamInOrder
  BY DEF IInv, InOrder, DownStream, ClientStreamInOrder
<1> QED
  BY Invariance, <1>1, PTL

\* In the same circumstances the bot handles the player's packets exactly once and in
\* order.
THEOREM ServerInOrder ==
  ASSUME ~PreLoadAtRisk
  PROVE  Spec => []ServerStreamInOrder
<1>1. IInv => ServerStreamInOrder
  BY DEF IInv, InOrder, UpStream, ServerStreamInOrder
<1> QED
  BY Invariance, <1>1, PTL

\* While a player is disconnected its replay buffer holds every packet its client has
\* not received: no GPS_ACK, stale or repeated, makes ProcessPackets drop too much.
THEOREM UnackedKept ==
  ASSUME ~PreLoadAtRisk
  PROVE  Spec => []NothingUnackedDropped
<1>1. IInv => NothingUnackedDropped
  <2> SUFFICES ASSUME IInv, phase = "loaded", ssock = 0, NEW n \in (Len(cgot) + 1)..sent
               PROVE  \E i \in 1..Len(buffer) : buffer[i] = n
    BY DEF NothingUnackedDropped
  <2>1. /\ sent \in Nat /\ Len(buffer) \in Nat /\ Len(buffer) <= sent /\ Len(cgot) \in Nat
        /\ unkept \in Nat
    BY TypeFacts DEF IInv, TypeOK
  <2>2. Base <= Len(cgot)
    BY <2>1 DEF IInv, DownStream, Base
  <2>3. n - Base \in 1..Len(buffer)
    BY <2>1, <2>2 DEF Base
  <2>4. buffer[n - Base] = sent - Len(buffer) + (n - Base)
    BY <2>3 DEF IInv, Windows, Window
  <2>5. sent - Len(buffer) + (n - Base) = n
    BY <2>1 DEF Base
  <2> QED
    BY <2>3, <2>4, <2>5
<1> QED
  BY Invariance, <1>1, PTL

\* A sequence that grew by one and still counts 1, 2, 3, ... grew by the next number.
LEMMA NextNumber ==
  ASSUME NEW s \in Seq(Nat), NEW x \in Nat, NEW r, r = Append(s, x), IsPrefixOfNat(r)
  PROVE  r = Append(s, Len(s) + 1) /\ Len(r) = Len(s) + 1 /\ Len(s) \in Nat
<1>1. Len(s) \in Nat /\ Len(r) = Len(s) + 1 /\ r[Len(s) + 1] = x
  BY AppendProperties, LenProperties
<1>2. Len(s) + 1 \in 1..Len(r)
  BY <1>1
<1>3. r[Len(s) + 1] = Len(s) + 1
  BY <1>2 DEF IsPrefixOfNat
<1> QED
  BY <1>1, <1>3

\* What a step does to the two streams.
LEMMA StreamSteps ==
  ASSUME IInv, IInv', [Next]_vars
  PROVE  /\ \/ sent' \in Nat /\ sent' >= sent /\ cgot' = cgot
            \/ sent' = sent /\ cgot' = Append(cgot, Len(cgot) + 1) /\ Len(cgot) < sent
         /\ \/ csent' \in Nat /\ csent' >= csent /\ sgot' = sgot
            \/ csent' = csent /\ sgot' = Append(sgot, Len(sgot) + 1) /\ Len(sgot) < csent
         /\ phase = "gone" => phase' = "gone"
<1>1. /\ TypeOK /\ IsPrefixOfNat(cgot)' /\ IsPrefixOfNat(sgot)'
      /\ Len(cgot') <= sent' /\ Len(sgot') <= csent'
  BY DEF IInv, InOrder, DownStream, UpStream
<1>2. /\ sent \in Nat /\ csent \in Nat /\ cgot \in Seq(Nat) /\ sgot \in Seq(Nat)
      /\ sent >= sent /\ csent >= csent /\ sent + 1 >= sent /\ csent + 1 >= csent
  BY <1>1, TypeFacts
<1>3. CASE ServerRecv
  <2>1. Head(c2s[ssock]).n \in Nat
    BY <1>1, <1>3, MessageTypes, TypeFacts DEF ServerRecv
  <2>2. /\ sent' = sent /\ cgot' = cgot /\ csent' = csent /\ phase' = phase
        /\ sgot' = sgot \/ sgot' = Append(sgot, Head(c2s[ssock]).n)
    BY <1>3 DEF ServerRecv, client
  <2>3. CASE sgot' = Append(sgot, Head(c2s[ssock]).n)
    <3>1. sgot' = Append(sgot, Len(sgot) + 1) /\ Len(sgot') = Len(sgot) + 1 /\ Len(sgot) \in Nat
      BY <1>1, <1>2, <2>1, <2>3, NextNumber DEF IsPrefixOfNat
    <3>2. Len(sgot) < csent
      BY <1>1, <1>2, <2>2, <3>1
    <3> QED
      BY <1>2, <2>2, <3>1, <3>2
  <2> QED
    BY <1>2, <2>2, <2>3
<1>4. CASE ClientRecv
  <2>1. Head(s2c).n \in Nat
    BY <1>1, <1>4, MessageTypes DEF ClientRecv
  <2>2. /\ sent' = sent /\ sgot' = sgot /\ csent' = csent /\ phase' = phase
        /\ cgot' = cgot \/ cgot' = Append(cgot, Head(s2c).n)
    BY <1>4 DEF ClientRecv, server
  <2>3. CASE cgot' = Append(cgot, Head(s2c).n)
    <3>1. cgot' = Append(cgot, Len(cgot) + 1) /\ Len(cgot') = Len(cgot) + 1 /\ Len(cgot) \in Nat
      BY <1>1, <1>2, <2>1, <2>3, NextNumber DEF IsPrefixOfNat
    <3>2. Len(cgot) < sent
      BY <1>1, <1>2, <2>2, <3>1
    <3> QED
      BY <1>2, <2>2, <3>1, <3>2
  <2> QED
    BY <1>2, <2>2, <2>3
<1>5. CASE ServerSend \/ Load \/ ServerAck \/ ServerSocketClosed \/ ServerTimedOut \/ ServerDrop
  <2>1. /\ sent' = sent \/ sent' = sent + 1 \/ sent' = sent + 0
        /\ cgot' = cgot /\ csent' = csent /\ sgot' = sgot
        /\ phase = "gone" => phase' = "gone"
    BY <1>5 DEF ServerSend, Load, ServerAck, ServerSocketClosed, ServerTimedOut, ServerDrop,
       Emit, server, client
  <2> QED
    BY <1>2, <2>1
<1>6. CASE \E c \in Conns : ReconnectSocketLost(c) \/ EventGProxyReconnect(c) \/ RejectReconnect(c)
  <2>1. /\ sent' = sent \/ sent' = sent + 1
        /\ cgot' = cgot /\ csent' = csent /\ sgot' = sgot /\ phase' = phase
    BY <1>6 DEF ReconnectSocketLost, EventGProxyReconnect, RejectReconnect, client
  <2> QED
    BY <1>2, <2>1
<1>7. CASE ClientSend \/ ClientAck \/ ClientLost \/ ClientReconnect \/ UNCHANGED vars
  <2>1. /\ csent' = csent \/ csent' = csent + 1
        /\ sent' = sent /\ cgot' = cgot /\ sgot' = sgot /\ phase' = phase
    BY <1>7 DEF ClientSend, ClientAck, ClientLost, ClientReconnect, vars, server, client
  <2> QED
    BY <1>2, <2>1
<1> QED
  BY <1>3, <1>4, <1>5, <1>6, <1>7 DEF Next

\* The bot's packets to the player: the session implements ReliableChannel.
THEOREM DownImplemented ==
  ASSUME ~PreLoadAtRisk
  PROVE  Spec => DownSpec
<1>1. Init => Down!Init
  <2> SUFFICES ASSUME Init PROVE Down!Init
    OBVIOUS
  <2>1. sent = 0 /\ cgot = <<>> /\ phase # "gone"
    BY DEF Init
  <2>2. [i \in 1..0 |-> i] = <<>>
    BY SeqOfFcn, EmptySeq
  <2> QED
    BY <2>1, <2>2 DEF Down!Init
<1>2. IInv /\ IInv' /\ [Next]_vars => [Down!Next]_(Down!vars)
  <2> SUFFICES ASSUME IInv, IInv', [Next]_vars PROVE Down!Next
    OBVIOUS
  <2>1. Down!SendSome \/ Down!Deliver
    BY StreamSteps DEF Down!SendSome, Down!Deliver
  <2>2. (phase # "gone")' \in {phase # "gone", FALSE}
    BY StreamSteps
  <2> QED
    BY <2>1, <2>2 DEF Down!Next
<1> QED
  BY Invariance, <1>1, <1>2, PTL DEF Spec, DownSpec, Down!Spec

\* The player's packets to the bot: the session implements ReliableChannel.
THEOREM UpImplemented ==
  ASSUME ~PreLoadAtRisk
  PROVE  Spec => UpSpec
<1>1. Init => Up!Init
  <2> SUFFICES ASSUME Init PROVE Up!Init
    OBVIOUS
  <2>1. csent = 1 /\ sgot = <<1>> /\ phase # "gone"
    BY DEF Init
  <2>2. [i \in 1..1 |-> i] = <<1>>
    OBVIOUS
  <2> QED
    BY <2>1, <2>2 DEF Up!Init
<1>2. IInv /\ IInv' /\ [Next]_vars => [Up!Next]_(Up!vars)
  <2> SUFFICES ASSUME IInv, IInv', [Next]_vars PROVE Up!Next
    OBVIOUS
  <2>1. Up!SendSome \/ Up!Deliver
    BY StreamSteps DEF Up!SendSome, Up!Deliver
  <2>2. (phase # "gone")' \in {phase # "gone", FALSE}
    BY StreamSteps
  <2> QED
    BY <2>1, <2>2 DEF Up!Next
<1> QED
  BY Invariance, <1>1, <1>2, PTL DEF Spec, UpSpec, Up!Spec

=============================================================================
