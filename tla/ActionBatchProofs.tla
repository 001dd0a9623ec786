------------------------- MODULE ActionBatchProofs -------------------------
(***************************************************************************)
(* Proofs about ActionBatch, for any players, sizes, limits and latencies. *)
(*                                                                         *)
(* The loops are folds: Pack splits a batch into packets, Assemble makes   *)
(* game updates of packets, as a client does.  That the second undoes the  *)
(* first is proved by induction over the actions, once and for all splits; *)
(* what a step does to the game is then the same for every client.         *)
(***************************************************************************)
EXTENDS ActionBatch, SequenceTheorems, TLAPS

-----------------------------------------------------------------------------
(* The folds                                                               *)

AddLength(ctx, n, a) == n + a.len
PackOne(ctx, acc, a) == Pack(acc, a)
CarryOne(ctx, all, p) == IF p.type = "LEAVE" THEN all ELSE all \o p.acts

L == INSTANCE FoldInduction WITH Op <- AddLength
K == INSTANCE FoldInduction WITH Op <- PackOne
C == INSTANCE FoldInduction WITH Op <- CarryOne
A == INSTANCE FoldInduction WITH Op <- Assemble

Actions == [no : Nat, len : Nat, saves : Players \cup {NoSave}]

Packets == {Timed(t, q) : t \in Nat, q \in Seq(Actions)} \cup {Untimed(q) : q \in Seq(Actions)}
           \cup {Leave(p, lost) : p \in Players, lost \in BOOLEAN}

NewBatch == [sent |-> <<>>, open |-> <<>>]
NewGame(got) == [got |-> got, open |-> <<>>]

\* What a client c makes of the packets w.
Game(c, w) == A!Fold(Fill(c), NewGame(<<>>), w)

\* The operators of the model are these folds.
LEMMA Folds ==
  ASSUME NEW q, NEW c
  PROVE  /\ Length(q) = L!Fold(0, 0, q)
         /\ Packed(q) = K!Fold(0, NewBatch, q)
         /\ Carried(q) = C!Fold(0, <<>>, q)
         /\ Assembled(c) = Game(c, wire[c]) /\ Assembled(c)' = Game(c, wire'[c])
<1>1. Length(q) = L!Fold(0, 0, q)
  BY Zenon DEF Length, L!Fold, AddLength, FoldLeft, MapThenFoldSet, L!FoldLeft, L!MapThenFoldSet,
               Max, L!Max
<1>2. Packed(q) = K!Fold(0, NewBatch, q)
  BY Zenon DEF Packed, NewBatch, K!Fold, PackOne, FoldLeft, MapThenFoldSet, K!FoldLeft,
               K!MapThenFoldSet, Max, K!Max
<1>3. Carried(q) = C!Fold(0, <<>>, q)
  BY Zenon DEF Carried, C!Fold, CarryOne, FoldLeft, MapThenFoldSet, C!FoldLeft,
               C!MapThenFoldSet, Max, C!Max
<1>4. Assembled(c) = Game(c, wire[c])
  BY Zenon DEF Assembled, Game, NewGame, A!Fold, FoldLeft, MapThenFoldSet, A!FoldLeft,
               A!MapThenFoldSet, Max, A!Max
<1>5. Assembled(c)' = Game(c, wire'[c])
  BY Zenon DEF Assembled, Game, NewGame, Fill, EmptyUpdates, Timed, A!Fold, FoldLeft,
               MapThenFoldSet, A!FoldLeft, A!MapThenFoldSet, Max, A!Max
<1> QED
  BY <1>1, <1>2, <1>3, <1>4, <1>5

\* The length of some actions, and of one more.
LEMMA Lengths ==
  ASSUME NEW q \in Seq(Actions), NEW a \in Actions
  PROVE  /\ Length(q) \in Nat
         /\ Length(Append(q, a)) = Length(q) + a.len
<1>1. \A n \in Nat, x \in Actions : AddLength(0, n, x) \in Nat
  BY DEF AddLength, Actions
<1>2. L!Fold(0, 0, q) \in Nat
  BY <1>1, L!FoldInvariant
<1>3. L!Fold(0, 0, Append(q, a)) = AddLength(0, L!Fold(0, 0, q), a)
  BY L!FoldAppend
<1> QED
  BY <1>2, <1>3, Folds DEF AddLength

\* The batch of no actions, and of one more.
LEMMA PackedIs ==
  ASSUME NEW q \in Seq(Actions), NEW a \in Actions
  PROVE  Packed(<<>>) = NewBatch /\ Packed(Append(q, a)) = Pack(Packed(q), a)
<1>1. K!Fold(0, NewBatch, <<>>) = NewBatch
  BY K!FoldEmpty
<1>2. K!Fold(0, NewBatch, Append(q, a)) = PackOne(0, K!Fold(0, NewBatch, q), a)
  BY K!FoldAppend
<1> QED
  BY <1>1, <1>2, Folds DEF PackOne

-----------------------------------------------------------------------------
(* What is packed                                                          *)

Fits(acts) == Length(acts) <= Limit \/ Len(acts) = 1

\* The packets that have been closed are full or hold one action.
Closed(sent) ==
  /\ sent \in Seq(Packets)
  /\ \A i \in 1..Len(sent) :
       \E acts \in Seq(Actions) : sent[i] = Untimed(acts) /\ acts # <<>> /\ Fits(acts)

Shaped(q, acc) ==
  /\ acc = [sent |-> acc.sent, open |-> acc.open]
  /\ Closed(acc.sent)
  /\ acc.open \in Seq(Actions) /\ Fits(acc.open)
  /\ q # <<>> => acc.open # <<>> /\ Last(acc.open) = Last(q)

\* The packet of an update without actions or time.
LEMMA EmptyPacket == Timed(0, <<>>) \in Packets
<1> DEFINE e == <<>>
           z == 0
<1>1. z \in Nat /\ e \in Seq(Actions)
  OBVIOUS
<1> HIDE DEF e, z
<1>2. Timed(z, e) \in {Timed(t, q) : t \in Nat, q \in Seq(Actions)}
  BY <1>1
<1> QED
  BY <1>2 DEF Packets, e, z

\* No actions have no length.
LEMMA EmptyLength == Length(<<>>) = 0
  BY L!FoldEmpty, Folds

\* Every packet of a batch fits, and the last one ends with the last action.
LEMMA PackedShape ==
  ASSUME NEW q \in Seq(Actions) PROVE Shaped(q, Packed(q))
<1> DEFINE T == {r \in Seq(Actions) : Shaped(r, Packed(r))}
<1>1. <<>> \in T
  <2>1. Packed(<<>>) = NewBatch
    <3>1. K!Fold(0, NewBatch, <<>>) = NewBatch
      BY K!FoldEmpty
    <3> QED
      BY <3>1, Folds
  <2>2. Fits(<<>>)
    BY EmptyLength, BatchAssumption DEF Fits
  <2>3. Closed(<<>>)
    BY DEF Closed
  <2>4. <<>> \in Seq(Actions)
    OBVIOUS
  <2>5. Shaped(<<>>, NewBatch)
    BY <2>2, <2>3, <2>4 DEF Shaped, NewBatch
  <2> QED
    BY <2>1, <2>4, <2>5
<1>2. ASSUME NEW r \in Seq(Actions), NEW a \in Actions, r \in T PROVE Append(r, a) \in T
  <2> DEFINE acc  == Packed(r)
             new  == Packed(Append(r, a))
             more == Append(r, a)
  <2>1. new = Pack(acc, a)
    BY PackedIs
  <2>2. Shaped(r, acc)
    BY <1>2
  <2>3. more \in Seq(Actions) /\ more # <<>> /\ Last(more) = a
    BY DEF Last
  <2> HIDE DEF acc, new, more
  <2>4. Shaped(more, new)
    <3>1. acc.open \in Seq(Actions) /\ Fits(acc.open) /\ Closed(acc.sent)
      BY <2>2 DEF Shaped
    <3> DEFINE o == acc.open
    <3>2. /\ Length(o) \in Nat /\ Length(Append(o, a)) = Length(o) + a.len
          /\ a.len \in Nat /\ Limit \in Nat
      BY <3>1, Lengths, BatchAssumption DEF Actions
    <3>3. CASE o # <<>> /\ Length(o) + a.len > Limit
      <4>1. new = [sent |-> Append(acc.sent, Untimed(o)), open |-> <<a>>]
        BY <2>1, <3>3 DEF Pack
      <4>2. Closed(Append(acc.sent, Untimed(o)))
        <5> DEFINE s == acc.sent
                   u == Untimed(o)
        <5>1. s \in Seq(Packets) /\ u \in Packets
          BY <3>1 DEF Closed, Packets
        <5>2. /\ Append(s, u) \in Seq(Packets) /\ Len(Append(s, u)) = Len(s) + 1
              /\ \A i \in 1..Len(s) : Append(s, u)[i] = s[i]
              /\ Append(s, u)[Len(s) + 1] = u
          <6> HIDE DEF s, u
          <6> QED
            BY <5>1
        <5>3. ASSUME NEW i \in 1..(Len(s) + 1)
              PROVE  \E acts \in Seq(Actions) :
                       Append(s, u)[i] = Untimed(acts) /\ acts # <<>> /\ Fits(acts)
          <6>1. CASE i = Len(s) + 1
            BY <3>1, <3>3, <5>2, <6>1
          <6>2. CASE i \in 1..Len(s)
            BY <3>1, <5>2, <6>2 DEF Closed
          <6> QED
            BY <5>1, <6>1, <6>2
        <5> HIDE DEF s, u
        <5>4. Closed(Append(s, u))
          BY <5>2, <5>3 DEF Closed
        <5> QED
          BY <5>4 DEF s, u
      <4>3. <<a>> \in Seq(Actions) /\ Fits(<<a>>) /\ Last(<<a>>) = a /\ <<a>> # <<>>
        BY DEF Fits, Last
      <4> QED
        BY <2>3, <4>1, <4>2, <4>3 DEF Shaped
    <3>4. CASE ~(o # <<>> /\ Length(o) + a.len > Limit)
      <4>1. new = [sent |-> acc.sent, open |-> Append(o, a)]
        BY <2>1, <2>2, <3>4 DEF Pack, Shaped
      <4>2. Append(o, a) \in Seq(Actions) /\ Last(Append(o, a)) = a /\ Append(o, a) # <<>>
        BY <3>1 DEF Last
      <4>3. Fits(Append(o, a))
        <5>1. CASE o = <<>>
          BY <5>1 DEF Fits
        <5>2. CASE o # <<>>
          BY <3>2, <3>4, <5>2 DEF Fits
        <5> QED
          BY <5>1, <5>2
      <4> QED
        BY <2>3, <3>1, <4>1, <4>2, <4>3 DEF Shaped
    <3> QED
      BY <3>3, <3>4
  <2> QED
    BY <2>3, <2>4 DEF more, new
<1> HIDE DEF T
<1>3. Seq(Actions) \subseteq T
  BY <1>1, <1>2, K!SeqInduction
<1> QED
  BY <1>3 DEF T

\* The packets that are closed leave an update open, with the actions that the packet which
\* is still open will make whole.
Unpacks(fill, got, q) ==
  \E o \in Seq(Actions) :
    /\ A!Fold(fill, NewGame(got), Packed(q).sent) = [got |-> got, open |-> o]
    /\ C!Fold(0, <<>>, Packed(q).sent) = o
    /\ o \o Packed(q).open = q

\* Induction over the actions: it holds of no packet, and of each that Pack adds to.
LEMMA Unpacking ==
  ASSUME NEW fill, NEW got, NEW q \in Seq(Actions) PROVE Unpacks(fill, got, q)
<1> DEFINE T == {r \in Seq(Actions) : Unpacks(fill, got, r)}
<1>1. <<>> \in T
  <2> DEFINE e == <<>>
  <2>1. Packed(e) = NewBatch /\ Packed(e).sent = e /\ Packed(e).open = e
    <3>1. K!Fold(0, NewBatch, e) = NewBatch
      BY K!FoldEmpty
    <3> QED
      BY <3>1, Folds DEF NewBatch
  <2>2. A!Fold(fill, NewGame(got), e) = NewGame(got) /\ C!Fold(0, e, e) = e
    BY A!FoldEmpty, C!FoldEmpty
  <2>3. e \in Seq(Actions) /\ e \o e = e
    OBVIOUS
  <2>4. NewGame(got) = [got |-> got, open |-> e]
    BY DEF NewGame
  <2> HIDE DEF e
  <2>5. Unpacks(fill, got, e)
    <3>1. C!Fold(0, <<>>, Packed(e).sent) = e
      BY <2>1, <2>2 DEF e
    <3> QED
      BY <2>1, <2>2, <2>3, <2>4, <3>1 DEF Unpacks
  <2> QED
    BY <2>3, <2>5 DEF e
<1>2. ASSUME NEW r \in Seq(Actions), NEW a \in Actions, r \in T PROVE Append(r, a) \in T
  <2> DEFINE acc  == Packed(r)
             new  == Packed(Append(r, a))
             more == Append(r, a)
             x    == acc.open
             s    == acc.sent
             u    == Untimed(x)
  <2>1. new = Pack(acc, a)
    BY PackedIs
  <2>2. /\ acc = [sent |-> s, open |-> x] /\ s \in Seq(Packets) /\ x \in Seq(Actions)
    BY PackedShape DEF Shaped, Closed
  <2>3. PICK o \in Seq(Actions) : /\ A!Fold(fill, NewGame(got), s) = [got |-> got, open |-> o]
                                  /\ C!Fold(0, <<>>, s) = o
                                  /\ o \o x = r
    BY <1>2 DEF Unpacks
  <2>4. more \in Seq(Actions) /\ u \in Packets
    BY <2>2 DEF Packets
  <2> HIDE DEF acc, new
  <2>5. CASE new = [sent |-> Append(s, u), open |-> <<a>>]
    <3>1. /\ Assemble(fill, [got |-> got, open |-> o], u) = [got |-> got, open |-> o \o x]
          /\ CarryOne(0, o, u) = o \o x
      BY DEF Assemble, CarryOne, Untimed
    <3>2. r \o <<a>> = more
      OBVIOUS
    <3> HIDE DEF s, u, more
    <3>3. A!Fold(fill, NewGame(got), Append(s, u)) = [got |-> got, open |-> r]
      <4>1. A!Fold(fill, NewGame(got), Append(s, u))
              = Assemble(fill, A!Fold(fill, NewGame(got), s), u)
        BY <2>2, <2>4, A!FoldAppend
      <4> QED
        BY <2>3, <3>1, <4>1
    <3>4. C!Fold(0, <<>>, Append(s, u)) = r
      <4> DEFINE e == <<>>
      <4> HIDE DEF e
      <4>1. C!Fold(0, e, Append(s, u)) = CarryOne(0, C!Fold(0, e, s), u)
        BY <2>2, <2>4, C!FoldAppend
      <4> QED
        BY <2>3, <3>1, <4>1 DEF e
    <3>5. new.sent = Append(s, u) /\ new.open = <<a>>
      BY <2>5
    <3>6. Unpacks(fill, got, more)
      BY <3>2, <3>3, <3>4, <3>5 DEF Unpacks, new, more
    <3> QED
      BY <2>4, <3>6 DEF more
  <2>6. CASE new = [sent |-> s, open |-> Append(x, a)]
    <3>1. o \o Append(x, a) = more
      <4>1. o \o Append(x, a) = Append(o \o x, a)
        <5> HIDE DEF x
        <5>1. Len(o \o Append(x, a)) = Len(Append(o \o x, a))
          BY <2>2
        <5>2. \A i \in 1..Len(o \o Append(x, a)) : (o \o Append(x, a))[i] = Append(o \o x, a)[i]
          BY <2>2
        <5>3. o \o Append(x, a) \in Seq(Actions) /\ Append(o \o x, a) \in Seq(Actions)
          BY <2>2
        <5> QED
          BY <5>1, <5>2, <5>3, SeqEqual
      <4> QED
        BY <2>3, <4>1
    <3>2. new.sent = s /\ new.open = Append(x, a)
      BY <2>6
    <3> HIDE DEF s, x, more
    <3>3. Unpacks(fill, got, more)
      BY <2>3, <3>1, <3>2 DEF Unpacks, new, more
    <3> QED
      BY <2>4, <3>3 DEF more
  <2>7. \/ new = [sent |-> Append(s, u), open |-> <<a>>]
        \/ new = [sent |-> s, open |-> Append(x, a)]
    BY <2>1, <2>2 DEF Pack
  <2> QED
    BY <2>5, <2>6, <2>7
<1> HIDE DEF T
<1>3. Seq(Actions) \subseteq T
  BY <1>1, <1>2, K!SeqInduction
<1> QED
  BY <1>3 DEF T

\* The packets u are one game update, t, which every client makes of them whatever it fills
\* in before it; they carry n actions in order, fit, and are no leave messages.
IsUpdate(u, t, n) ==
  /\ u \in Seq(Packets)
  /\ \A fill, got : A!Fold(fill, NewGame(got), u) = NewGame(got \o fill \o <<t>>)
  /\ Numbers(C!Fold(0, <<>>, u)) = UpTo(n)
  /\ \A i \in 1..Len(u) : /\ u[i].type # "LEAVE" /\ Fits(u[i].acts)
                          /\ u[i].type = "ACTION2" => u[i].acts # <<>>

\* A batch is one update, and ends with the last of the actions.
LEMMA BatchIsUpdate ==
  ASSUME NEW q \in Seq(Actions), Numbers(q) = UpTo(Len(q)), latency \in Nat
  PROVE  /\ IsUpdate(Batch(q), Timed(latency, q), Len(q))
         /\ Batch(q)[Len(Batch(q))].type = "ACTION"
         /\ q # <<>> => Last(Batch(q)[Len(Batch(q))].acts) = Last(q)
<1> DEFINE s == Packed(q).sent
           x == Packed(q).open
           t == Timed(latency, x)
           u == Batch(q)
<1>1. /\ Closed(s) /\ x \in Seq(Actions) /\ Fits(x) /\ (q # <<>> => Last(x) = Last(q))
      /\ s \in Seq(Packets)
  BY PackedShape DEF Shaped, Closed
<1>2. t \in Packets /\ u = Append(s, t) /\ t.type = "ACTION" /\ t.acts = x
  BY <1>1 DEF Packets, Timed, Batch
<1>3. \A fill, got : Unpacks(fill, got, q)
  BY Unpacking
<1>4. ASSUME NEW fill, NEW got
      PROVE  /\ A!Fold(fill, NewGame(got), u) = NewGame(got \o fill \o <<Timed(latency, q)>>)
             /\ C!Fold(0, <<>>, u) = q
  <2>1. PICK o \in Seq(Actions) : /\ A!Fold(fill, NewGame(got), s) = [got |-> got, open |-> o]
                                  /\ C!Fold(0, <<>>, s) = o
                                  /\ o \o x = q
    BY <1>3 DEF Unpacks
  <2>2. /\ Assemble(fill, [got |-> got, open |-> o], t)
             = NewGame(got \o fill \o <<Timed(latency, o \o x)>>)
        /\ CarryOne(0, o, t) = o \o x
    BY DEF Assemble, NewGame, CarryOne, Timed
  <2> DEFINE e == <<>>
  <2> HIDE DEF s, t, x, u, e
  <2>3. A!Fold(fill, NewGame(got), Append(s, t)) = Assemble(fill, A!Fold(fill, NewGame(got), s), t)
    BY <1>1, <1>2, A!FoldAppend
  <2>4. C!Fold(0, e, Append(s, t)) = CarryOne(0, C!Fold(0, e, s), t)
    BY <1>1, <1>2, C!FoldAppend
  <2>5. C!Fold(0, <<>>, u) = q
    BY <1>2, <2>1, <2>2, <2>4 DEF e
  <2>6. A!Fold(fill, NewGame(got), u) = NewGame(got \o fill \o <<Timed(latency, q)>>)
    BY <1>2, <2>1, <2>2, <2>3
  <2> QED
    BY <2>5, <2>6
<1> HIDE DEF s, x, t, u
<1>5. /\ u \in Seq(Packets) /\ Len(u) = Len(s) + 1 /\ u[Len(u)] = t
      /\ \A i \in 1..Len(s) : u[i] = s[i]
  BY <1>1, <1>2
<1>6. ASSUME NEW i \in 1..Len(u)
      PROVE  /\ u[i].type # "LEAVE" /\ Fits(u[i].acts)
             /\ u[i].type = "ACTION2" => u[i].acts # <<>>
  <2>1. CASE i = Len(u)
    BY <1>1, <1>2, <1>5, <2>1
  <2>2. CASE i \in 1..Len(s)
    <3>1. PICK acts \in Seq(Actions) : s[i] = Untimed(acts) /\ acts # <<>> /\ Fits(acts)
      BY <1>1, <2>2 DEF Closed
    <3> QED
      BY <1>5, <2>2, <3>1 DEF Untimed
  <2> QED
    BY <1>1, <1>5, <2>1, <2>2
<1>7. IsUpdate(u, Timed(latency, q), Len(q))
  BY <1>4, <1>5, <1>6 DEF IsUpdate
<1> QED
  BY <1>1, <1>2, <1>5, <1>7 DEF u

\* So is a renewal of the lag screen, without actions.
LEMMA RenewalIsUpdate == IsUpdate(Renewal, Timed(0, <<>>), 0)
<1> DEFINE t == Timed(0, <<>>)
           u == <<t>>
           e == <<>>
<1>1. t \in Packets /\ t.type = "ACTION" /\ t.acts = <<>>
  BY EmptyPacket DEF Timed
<1>2. u \in Seq(Packets) /\ e \in Seq(Packets) /\ u = Append(e, t) /\ Len(u) = 1 /\ u[1] = t
  BY <1>1
<1>3. Fits(<<>>)
  BY EmptyLength, BatchAssumption DEF Fits
<1>4. /\ \A fill, got : Assemble(fill, NewGame(got), t) = NewGame(got \o fill \o <<t>>)
      /\ CarryOne(0, <<>>, t) = <<>>
  BY DEF Assemble, NewGame, CarryOne, Timed
<1> HIDE DEF t, u, e
<1>5. ASSUME NEW fill, NEW got PROVE A!Fold(fill, NewGame(got), u) = NewGame(got \o fill \o <<t>>)
  <2>1. A!Fold(fill, NewGame(got), e) = NewGame(got)
    BY A!FoldEmpty DEF e
  <2>2. A!Fold(fill, NewGame(got), Append(e, t)) = Assemble(fill, A!Fold(fill, NewGame(got), e), t)
    BY <1>1, <1>2, A!FoldAppend
  <2> QED
    BY <1>2, <1>4, <2>1, <2>2
<1>6. C!Fold(0, <<>>, u) = <<>>
  <2>1. C!Fold(0, e, e) = e
    BY C!FoldEmpty DEF e
  <2>2. C!Fold(0, e, Append(e, t)) = CarryOne(0, C!Fold(0, e, e), t)
    BY <1>1, <1>2, C!FoldAppend
  <2> QED
    BY <1>2, <1>4, <2>1, <2>2 DEF e
<1>7. Numbers(<<>>) = UpTo(0)
  BY DEF Numbers, UpTo
<1>8. \A i \in 1..Len(u) : /\ u[i].type # "LEAVE" /\ Fits(u[i].acts)
                           /\ u[i].type = "ACTION2" => u[i].acts # <<>>
  BY <1>1, <1>2, <1>3
<1>9. IsUpdate(u, t, 0)
  BY <1>2, <1>5, <1>6, <1>7, <1>8 DEF IsUpdate
<1> QED
  BY <1>9 DEF Renewal, t, u

-----------------------------------------------------------------------------
(* What is on the wires                                                    *)

Empties(n) == [i \in 1..n |-> Timed(0, <<>>)]

\* The empty updates are updates without actions, for a client that fills nothing in.
LEMMA EmptiesAre ==
  ASSUME NEW n \in Nat
  PROVE  /\ Empties(n) \in Seq(Packets)
         /\ A!Fold(<<>>, NewGame(<<>>), Empties(n)) = NewGame(Empties(n))
         /\ C!Fold(0, <<>>, Empties(n)) = <<>>
<1> DEFINE e == <<>>
           t == Timed(0, e)
           Good(k) == /\ Empties(k) \in Seq(Packets)
                      /\ A!Fold(e, NewGame(e), Empties(k)) = NewGame(Empties(k))
                      /\ C!Fold(0, e, Empties(k)) = e
           T == {k \in Nat : Good(k)}
<1>1. 0 \in T
  <2>1. Empties(0) = e
    BY DEF Empties
  <2>2. e \in Seq(Packets)
    OBVIOUS
  <2> HIDE DEF e
  <2>3. A!Fold(e, NewGame(e), e) = NewGame(e) /\ C!Fold(0, e, e) = e
    BY A!FoldEmpty, C!FoldEmpty DEF e
  <2> QED
    BY <2>1, <2>2, <2>3
<1>2. ASSUME NEW k \in Nat, k \in T PROVE k + 1 \in T
  <2> DEFINE s == Empties(k)
  <2>1. t \in Packets
    BY EmptyPacket
  <2>2. s \in Seq(Packets) /\ A!Fold(e, NewGame(e), s) = NewGame(s) /\ C!Fold(0, e, s) = e
    BY <1>2
  <2>3. Empties(k + 1) = Append(s, t)
    <3>1. DOMAIN Empties(k + 1) = 1..(k + 1) /\ DOMAIN s = 1..k /\ Len(s) = k
      BY DEF Empties
    <3>2. \A i \in 1..(k + 1) : Empties(k + 1)[i] = t
      BY DEF Empties
    <3>3. \A i \in 1..k : s[i] = t
      BY DEF Empties
    <3> HIDE DEF t, s
    <3>4. /\ DOMAIN Append(s, t) = 1..(k + 1)
          /\ \A i \in 1..(k + 1) : Append(s, t)[i] = t
      BY <2>1, <2>2, <3>1, <3>3
    <3>5. Empties(k + 1) = [i \in 1..(k + 1) |-> t]
      BY DEF Empties, t
    <3>6. Empties(k + 1) \in Seq(Packets) /\ Len(Empties(k + 1)) = k + 1
      BY <2>1, <3>5
    <3>7. Append(s, t) \in Seq(Packets) /\ Len(Append(s, t)) = k + 1
      BY <2>1, <2>2, <3>1
    <3> QED
      BY <3>2, <3>4, <3>6, <3>7, SeqEqual
  <2>4. Assemble(e, NewGame(s), t) = NewGame(Append(s, t)) /\ CarryOne(0, e, t) = e
    <3>1. Assemble(e, NewGame(s), t) = NewGame(s \o e \o <<Timed(0, e \o e)>>)
      BY DEF Assemble, NewGame, Timed
    <3>2. e \o e = e
      OBVIOUS
    <3>3. s \o e = s
      <4> HIDE DEF s
      <4> QED
        BY <2>2
    <3>4. s \o <<t>> = Append(s, t)
      <4> HIDE DEF s, t
      <4> QED
        BY <2>1, <2>2
    <3>5. CarryOne(0, e, t) = e
      BY DEF CarryOne, Timed
    <3> HIDE DEF s, e
    <3> QED
      BY <3>1, <3>2, <3>3, <3>4, <3>5 DEF t
  <2> HIDE DEF s, t, e
  <2>5. A!Fold(e, NewGame(e), Append(s, t)) = Assemble(e, A!Fold(e, NewGame(e), s), t)
    BY <2>1, <2>2, A!FoldAppend
  <2>6. C!Fold(0, e, Append(s, t)) = CarryOne(0, C!Fold(0, e, s), t)
    BY <2>1, <2>2, C!FoldAppend
  <2>7. Append(s, t) \in Seq(Packets)
    BY <2>1, <2>2
  <2>8. Good(k + 1)
    BY <2>2, <2>3, <2>4, <2>5, <2>6, <2>7
  <2> QED
    BY <2>8
<1> HIDE DEF T
<1>3. Nat \subseteq T
  BY <1>1, <1>2, A!SetInduction
<1> QED
  BY <1>3 DEF T

PacketFits(p) ==
  p.type # "LEAVE" => Fits(p.acts) /\ (p.type = "ACTION2" => p.acts # <<>>)

\* Client c and the replay have the same whole updates.
Alike(w, c) ==
  \E got : Game(c, w[c]) = NewGame(got) /\ Game(Replay, w[Replay]) = NewGame(got)

SavedOn(q) ==
  \A i \in 1..Len(q) :
    q[i].type = "LEAVE" /\ q[i].lost =>
      i > 1 /\ q[i - 1].type = "ACTION" /\ Last(q[i - 1].acts).saves = q[i].by

\* What was sent, w, is right for the players ps, and the update in it has n actions.
GoodWire(w, ps, n) ==
  /\ w \in [Consumers -> Seq(Packets)]
  /\ \A c \in ps : Alike(w, c)
  /\ Numbers(C!Fold(0, <<>>, w[Replay])) = UpTo(n)
  /\ \A c \in Consumers : \A i \in 1..Len(w[c]) : PacketFits(w[c][i])
  /\ AutoSave => \A c \in ps : SavedOn(w[c])

\* An update with or without empty ones in front.
LEMMA FilledUpdate ==
  ASSUME NEW u, NEW t, NEW n, IsUpdate(u, t, n), NEW c
  PROVE  /\ EmptyUpdates \in Seq(Packets) /\ EmptyUpdates \o u \in Seq(Packets)
         /\ Game(c, u) = NewGame(<<>> \o Fill(c) \o <<t>>)
         /\ c \notin GProxyPlayers =>
              Game(c, EmptyUpdates \o u) = NewGame(EmptyUpdates \o <<>> \o <<t>>)
         /\ Numbers(C!Fold(0, <<>>, EmptyUpdates \o u)) = UpTo(n)
         /\ \A i \in 1..Len(EmptyUpdates \o u) : /\ PacketFits((EmptyUpdates \o u)[i])
                                                 /\ (EmptyUpdates \o u)[i].type # "LEAVE"
         /\ \A i \in 1..Len(u) : PacketFits(u[i]) /\ u[i].type # "LEAVE"
<1> DEFINE E == EmptyUpdates
           e == <<>>
<1>1. /\ E = Empties(EmptyActions) /\ EmptyActions \in Nat /\ u \in Seq(Packets)
      /\ \A fill, got : A!Fold(fill, NewGame(got), u) = NewGame(got \o fill \o <<t>>)
      /\ Numbers(C!Fold(0, e, u)) = UpTo(n)
  BY BatchAssumption DEF EmptyUpdates, Empties, IsUpdate
<1>2. /\ E \in Seq(Packets) /\ A!Fold(e, NewGame(e), E) = NewGame(E) /\ C!Fold(0, e, E) = e
  BY <1>1, EmptiesAre
<1>3. Len(E) \in Nat /\ \A i \in 1..Len(E) : E[i] = Timed(0, <<>>)
  BY BatchAssumption DEF EmptyUpdates
<1>4. PacketFits(Timed(0, <<>>)) /\ Timed(0, <<>>).type # "LEAVE"
  <2>1. Fits(<<>>)
    BY EmptyLength, BatchAssumption DEF Fits
  <2> QED
    BY <2>1 DEF PacketFits, Timed
<1>5. \A i \in 1..Len(u) : PacketFits(u[i]) /\ u[i].type # "LEAVE"
  BY DEF IsUpdate, PacketFits
<1>6. c \notin GProxyPlayers => Fill(c) = e
  BY DEF Fill
<1> HIDE DEF E, e
<1>7. Game(c, u) = NewGame(e \o Fill(c) \o <<t>>)
  BY <1>1 DEF Game, e
<1>8. E \o u \in Seq(Packets)
  BY <1>1, <1>2
<1>9. A!Fold(e, NewGame(e), E \o u) = NewGame(E \o e \o <<t>>)
  <2>1. A!Fold(e, NewGame(e), E \o u) = A!Fold(e, A!Fold(e, NewGame(e), E), u)
    BY <1>1, <1>2, A!FoldConcat
  <2> QED
    BY <1>1, <1>2, <2>1
<1>10. c \notin GProxyPlayers => Game(c, E \o u) = NewGame(E \o e \o <<t>>)
  BY <1>6, <1>9 DEF Game, e
<1>11. C!Fold(0, e, E \o u) = C!Fold(0, e, u)
  <2>1. C!Fold(0, e, E \o u) = C!Fold(0, C!Fold(0, e, E), u)
    BY <1>1, <1>2, C!FoldConcat
  <2> QED
    BY <1>2, <2>1
<1>12. ASSUME NEW i \in 1..Len(E \o u)
       PROVE  PacketFits((E \o u)[i]) /\ (E \o u)[i].type # "LEAVE"
  <2>1. \/ i \in 1..Len(E) /\ (E \o u)[i] = E[i]
        \/ i - Len(E) \in 1..Len(u) /\ (E \o u)[i] = u[i - Len(E)]
    BY <1>1, <1>2
  <2> QED
    BY <1>3, <1>4, <1>5, <2>1
<1> QED
  BY <1>1, <1>2, <1>5, <1>7, <1>8, <1>10, <1>11, <1>12 DEF E, e

\* Everybody is sent an update: it is the same one for all.
LEMMA SentGood ==
  ASSUME NEW u, NEW t, NEW n, IsUpdate(u, t, n), players \subseteq Players
  PROVE  GoodWire(Sent(u), players, n)
<1> DEFINE w == Sent(u)
           E == EmptyUpdates
           e == <<>>
<1>1. /\ u \in Seq(Packets) /\ Replay \in Consumers /\ Replay \notin GProxyPlayers
      /\ players \subseteq Consumers
  BY BatchAssumption DEF IsUpdate, Consumers
<1>2. \A c \in Consumers : w[c] = IF c \notin players \cup {Replay} THEN e
                                  ELSE IF c \in Filled THEN E \o u ELSE e \o u
  BY DEF Sent
<1>3. e \o u = u /\ e \in Seq(Packets) /\ Len(e) = 0
  BY <1>1
<1>4. /\ E \in Seq(Packets) /\ E \o u \in Seq(Packets)
      /\ \A c : /\ Game(c, u) = NewGame(e \o Fill(c) \o <<t>>)
                /\ c \notin GProxyPlayers => Game(c, E \o u) = NewGame(E \o e \o <<t>>)
      /\ Numbers(C!Fold(0, e, E \o u)) = UpTo(n)
      /\ \A i \in 1..Len(E \o u) : PacketFits((E \o u)[i]) /\ (E \o u)[i].type # "LEAVE"
      /\ \A i \in 1..Len(u) : PacketFits(u[i]) /\ u[i].type # "LEAVE"
  BY FilledUpdate
<1>5. Numbers(C!Fold(0, e, u)) = UpTo(n)
  BY DEF IsUpdate
<1>6. E \o e = E /\ e \o E = E /\ e \o e = e
  <2> HIDE DEF E
  <2> QED
    BY <1>4
<1>7. /\ \A c \in GProxyPlayers : Fill(c) = E
      /\ \A c : c \notin GProxyPlayers => Fill(c) = e
  BY DEF Fill
<1>8. w = [c \in Consumers |-> w[c]]
  BY DEF Sent
<1> HIDE DEF w, E, e
<1>9. w \in [Consumers -> Seq(Packets)]
  <2>1. \A c \in Consumers : w[c] \in Seq(Packets)
    BY <1>1, <1>2, <1>3, <1>4
  <2> QED
    BY <1>8, <2>1
<1>10. ASSUME NEW c \in players PROVE Alike(w, c)
  <2>1. CASE players \cap GProxyPlayers = {}
    <3>1. w[c] = u /\ w[Replay] = u /\ c \notin GProxyPlayers
      BY <1>1, <1>2, <1>3, <2>1 DEF Filled
    <3> QED
      BY <1>1, <1>4, <1>7, <3>1 DEF Alike
  <2>2. CASE players \cap GProxyPlayers # {}
    <3>1. w[Replay] = E \o u /\ w[c] = IF c \in GProxyPlayers THEN u ELSE E \o u
      BY <1>1, <1>2, <1>3, <2>2, BatchAssumption DEF Filled
    <3>2. Game(Replay, w[Replay]) = NewGame(E \o e \o <<t>>)
      BY <1>1, <1>4, <3>1
    <3>3. Game(c, w[c]) = NewGame(E \o e \o <<t>>)
      BY <1>4, <1>6, <1>7, <3>1
    <3> QED
      BY <3>2, <3>3 DEF Alike
  <2> QED
    BY <2>1, <2>2
<1>11. Numbers(C!Fold(0, e, w[Replay])) = UpTo(n)
  BY <1>1, <1>2, <1>3, <1>4, <1>5
<1>12. ASSUME NEW c \in Consumers, NEW i \in 1..Len(w[c])
       PROVE  PacketFits(w[c][i]) /\ w[c][i].type # "LEAVE"
  <2>1. CASE w[c] = e
    BY <1>3, <2>1
  <2>2. CASE w[c] = u
    BY <1>4, <2>2
  <2>3. CASE w[c] = E \o u
    BY <1>4, <2>3
  <2> QED
    BY <1>2, <1>3, <2>1, <2>2, <2>3
<1>13. \A c \in players : SavedOn(w[c])
  BY <1>1, <1>12 DEF SavedOn
<1> QED
  BY <1>9, <1>10, <1>11, <1>12, <1>13 DEF GoodWire, w, e

\* Everybody who stays is told of a player that leaves, where autosave has saved the game.
LEMMA TellGood ==
  ASSUME NEW w, NEW n, GoodWire(w, players, n), players \subseteq Players,
         NEW p \in players, NEW lost \in BOOLEAN,
         AutoSave /\ lost =>
           \A c \in players : LET l == w[c][Len(w[c])]
                              IN  w[c] # <<>> /\ l.type = "ACTION" /\ Last(l.acts).saves = p
  PROVE  GoodWire(Tell(p, w, lost), players \ {p}, n)
<1> DEFINE v == Tell(p, w, lost)
           m == Leave(p, lost)
           e == <<>>
<1>1. /\ w \in [Consumers -> Seq(Packets)] /\ m \in Packets
      /\ Replay \in Consumers /\ players \subseteq Consumers
      /\ m.type = "LEAVE" /\ m.by = p /\ m.lost = lost
  <2>1. w \in [Consumers -> Seq(Packets)]
    BY DEF GoodWire
  <2>2. p \in Players /\ m = [type |-> "LEAVE", by |-> p, lost |-> lost]
    BY DEF Leave
  <2>3. m \in Packets
    BY <2>2 DEF Packets
  <2>4. Replay \in Consumers /\ players \subseteq Consumers
    BY DEF Consumers
  <2> HIDE DEF m
  <2> QED
    BY <2>1, <2>2, <2>3, <2>4
<1>2. \A c \in Consumers : v[c] = IF c \in (players \ {p}) \cup {Replay} THEN Append(w[c], m) ELSE e
  BY DEF Tell
<1>3. v = [c \in Consumers |-> v[c]]
  BY DEF Tell
<1>4. /\ \A fill, got : Assemble(fill, NewGame(got), m) = NewGame(Append(got, m))
      /\ \A all : CarryOne(0, all, m) = all
  BY DEF Assemble, NewGame, CarryOne, Leave
<1>5. e \in Seq(Packets) /\ Len(e) = 0
  OBVIOUS
<1> HIDE DEF v, m, e
<1>6. \A c \in Consumers : /\ w[c] \in Seq(Packets) /\ Append(w[c], m) \in Seq(Packets)
                           /\ Len(Append(w[c], m)) = Len(w[c]) + 1 /\ Len(w[c]) \in Nat
                           /\ \A i \in 1..Len(w[c]) : Append(w[c], m)[i] = w[c][i]
                           /\ Append(w[c], m)[Len(w[c]) + 1] = m
  BY <1>1
<1>7. v \in [Consumers -> Seq(Packets)]
  <2>1. \A c \in Consumers : v[c] \in Seq(Packets)
    BY <1>2, <1>5, <1>6
  <2> QED
    BY <1>3, <2>1
<1>8. \A c, d : d \in Consumers => Game(c, Append(w[d], m)) = Assemble(Fill(c), Game(c, w[d]), m)
  <2> SUFFICES ASSUME NEW c, NEW d \in Consumers
               PROVE  Game(c, Append(w[d], m)) = Assemble(Fill(c), Game(c, w[d]), m)
    OBVIOUS
  <2> DEFINE s == w[d]
  <2>1. s \in Seq(Packets)
    BY <1>6
  <2> HIDE DEF s
  <2>2. A!Fold(Fill(c), NewGame(<<>>), Append(s, m))
          = Assemble(Fill(c), A!Fold(Fill(c), NewGame(<<>>), s), m)
    BY <1>1, <2>1, A!FoldAppend
  <2> QED
    BY <2>2 DEF Game, s
<1>9. ASSUME NEW c \in players \ {p} PROVE Alike(v, c)
  <2>1. PICK got : Game(c, w[c]) = NewGame(got) /\ Game(Replay, w[Replay]) = NewGame(got)
    BY DEF GoodWire, Alike
  <2>2. v[c] = Append(w[c], m) /\ v[Replay] = Append(w[Replay], m)
    BY <1>1, <1>2
  <2>3. /\ Game(c, v[c]) = NewGame(Append(got, m))
        /\ Game(Replay, v[Replay]) = NewGame(Append(got, m))
    BY <1>1, <1>4, <1>8, <2>1, <2>2
  <2> QED
    BY <2>3 DEF Alike
<1>10. Numbers(C!Fold(0, e, v[Replay])) = UpTo(n)
  <2> DEFINE s == w[Replay]
  <2>1. s \in Seq(Packets) /\ v[Replay] = Append(s, m) /\ Numbers(C!Fold(0, e, s)) = UpTo(n)
    BY <1>1, <1>2, <1>6 DEF GoodWire, e
  <2> HIDE DEF s
  <2>2. C!Fold(0, e, Append(s, m)) = CarryOne(0, C!Fold(0, e, s), m)
    BY <1>1, <2>1, C!FoldAppend
  <2> QED
    BY <1>4, <2>1, <2>2
<1>11. ASSUME NEW c \in Consumers, NEW i \in 1..Len(v[c]) PROVE PacketFits(v[c][i])
  <2>1. CASE v[c] = e
    BY <1>5, <2>1
  <2>2. CASE v[c] = Append(w[c], m)
    <3> DEFINE s == w[c]
    <3>1. s \in Seq(Packets) /\ v[c] = Append(s, m) /\ \A j \in 1..Len(s) : PacketFits(s[j])
      BY <1>6, <2>2 DEF GoodWire
    <3> HIDE DEF s, v
    <3>2. (i \in 1..Len(s) /\ v[c][i] = s[i]) \/ v[c][i] = m
      BY <1>1, <1>11, <3>1
    <3> QED
      BY <1>1, <3>1, <3>2 DEF PacketFits
  <2> QED
    BY <1>2, <2>1, <2>2
<1>12. ASSUME AutoSave, NEW c \in players \ {p} PROVE SavedOn(v[c])
  <2> DEFINE q == w[c]
             k == Len(q)
             r == v[c]
  <2>1. /\ r = Append(q, m) /\ k \in Nat /\ Len(r) = k + 1
        /\ (\A i \in 1..k : r[i] = q[i]) /\ r[k + 1] = m
    <3>1. r = Append(q, m) /\ q \in Seq(Packets)
      BY <1>1, <1>2, <1>6
    <3> HIDE DEF q, r
    <3> QED
      BY <1>1, <3>1
  <2>2. SavedOn(q)
    BY <1>12 DEF GoodWire
  <2>3. lost => k > 0 /\ q[k].type = "ACTION" /\ Last(q[k].acts).saves = p
    <3>1. q \in Seq(Packets)
      BY <1>1, <1>6
    <3> QED
      BY <1>12, <3>1
  <2> HIDE DEF q, k, r
  <2>4. ASSUME NEW i \in 1..(k + 1), r[i].type = "LEAVE", r[i].lost
        PROVE  i > 1 /\ r[i - 1].type = "ACTION" /\ Last(r[i - 1].acts).saves = r[i].by
    <3>1. CASE i = k + 1
      <4>1. lost /\ r[i].by = p
        BY <1>1, <2>1, <2>4, <3>1
      <4>2. i > 1 /\ i - 1 = k /\ r[i - 1] = q[k]
        BY <2>1, <2>3, <3>1, <4>1
      <4> QED
        BY <2>3, <4>1, <4>2
    <3>2. CASE i \in 1..k
      <4>1. r[i] = q[i]
        BY <2>1, <3>2
      <4>2. i > 1 /\ q[i - 1].type = "ACTION" /\ Last(q[i - 1].acts).saves = q[i].by
        BY <2>2, <2>4, <3>2, <4>1 DEF SavedOn, k
      <4>3. r[i - 1] = q[i - 1]
        BY <2>1, <3>2, <4>2
      <4> QED
        BY <4>1, <4>2, <4>3
    <3> QED
      BY <2>1, <3>1, <3>2
  <2> QED
    BY <2>1, <2>4 DEF SavedOn, r
<1> QED
  BY <1>7, <1>9, <1>10, <1>11, <1>12 DEF GoodWire, v, e

-----------------------------------------------------------------------------
(* The clock                                                               *)

\* The remainders that an uint32_t subtraction can give.
LEMMA SmallMod ==
  ASSUME NEW W \in Nat \ {0}, NEW a \in Int
  PROVE  /\ 0 <= a /\ a < W => a % W = a
         /\ 0 - W <= a /\ a < 0 => a % W = a + W
<1>1. 0 <= a /\ a < W => a % W = a
  OBVIOUS
<1>2. 0 - W <= a /\ a < 0 => a % W = a + W
  OBVIOUS
<1> QED
  BY <1>1, <1>2

\* The subtractions wrap around without harm, unless the update is early: then it seems
\* to be later than any latency.
LEMMA LatenessIs ==
  ASSUME latency \in Latencies, lateBy \in Nat, \E l \in Latencies : lateBy <= l,
         NEW i \in 0..MaxAge
  PROVE  /\ Lateness(i) \in Nat
         /\ Lateness(i) <= latency => Lateness(i) = i + lateBy - latency
<1>1. /\ Word \in Nat \ {0} /\ latency \in Nat /\ MaxAge \in Nat /\ 2 * latency < MaxAge
      /\ MaxAge + latency < Word /\ MaxAge + lateBy < Word
  <2>1. PICK l \in Latencies : lateBy <= l
    OBVIOUS
  <2>2. /\ l \in Nat /\ latency \in Nat /\ MaxAge \in Nat /\ 2 * latency < MaxAge
        /\ MaxAge + latency < Word /\ MaxAge + l < Word
    BY BatchAssumption
  <2>3. Word \in Nat
    BY BatchAssumption
  <2> QED
    BY <2>1, <2>2, <2>3
<1> DEFINE x == (latency - lateBy) % Word
           d == i + lateBy - latency
<1>2. i \in Nat /\ i <= MaxAge /\ d \in Int
  BY <1>1
<1>3. CASE lateBy <= latency
  <2>1. latency - lateBy \in Int /\ 0 <= latency - lateBy /\ latency - lateBy < Word
    BY <1>1, <1>3
  <2>2. x = latency - lateBy
    BY <1>1, <2>1, SmallMod
  <2>3. i - x = d
    BY <1>1, <1>2, <2>2
  <2>4. Lateness(i) = d % Word
    BY <2>3 DEF Lateness
  <2> HIDE DEF d
  <2>5. CASE d >= 0
    <3>1. d < Word
      BY <1>1, <1>2 DEF d
    <3>2. d % Word = d
      BY <1>1, <1>2, <2>5, <3>1, SmallMod
    <3> QED
      BY <1>2, <2>4, <2>5, <3>2 DEF d
  <2>6. CASE d < 0
    <3>1. 0 - Word <= d
      BY <1>1, <1>2 DEF d
    <3>2. d % Word = d + Word
      BY <1>1, <1>2, <2>6, <3>1, SmallMod
    <3>3. d + Word > latency /\ d + Word \in Nat
      BY <1>1, <1>2, <1>3 DEF d
    <3> QED
      BY <1>1, <2>4, <3>2, <3>3
  <2> QED
    BY <1>2, <2>5, <2>6
<1>4. CASE lateBy > latency
  <2>1. latency - lateBy \in Int /\ 0 - Word <= latency - lateBy /\ latency - lateBy < 0
    BY <1>1, <1>4
  <2>2. x = latency - lateBy + Word
    BY <1>1, <2>1, SmallMod
  <2>3. i - x = d - Word
    BY <1>1, <1>2, <2>2
  <2>4. Lateness(i) = (d - Word) % Word
    BY <2>3 DEF Lateness
  <2>5. d > 0 /\ d < Word
    BY <1>1, <1>2, <1>4
  <2> HIDE DEF d
  <2> DEFINE y == d - Word
  <2>6. y \in Int /\ 0 - Word <= y /\ y < 0 /\ y + Word = d
    BY <1>1, <1>2, <2>5
  <2> HIDE DEF y
  <2>7. y % Word = y + Word
    BY <1>1, <2>6, SmallMod
  <2>8. Lateness(i) = d
    BY <2>4, <2>6, <2>7 DEF y
  <2> QED
    BY <1>2, <2>5, <2>8 DEF d
<1> QED
  BY <1>1, <1>3, <1>4

-----------------------------------------------------------------------------
(* The inductive invariant                                                 *)

Queued(acts) ==
  /\ acts \in Seq(Actions) /\ Numbers(acts) = UpTo(Len(acts))

BatchTypes ==
  /\ players \subseteq Players
  /\ Queued(actions) /\ Len(actions) = arrived
  /\ \A i \in 1..Len(actions) : actions[i].len \in Sizes
  /\ latency \in Latencies
  /\ lateBy \in Nat /\ \E l \in Latencies : lateBy <= l
  /\ age \in 0..MaxAge
  /\ lagging \in BOOLEAN /\ done \in BOOLEAN /\ capped \in BOOLEAN /\ lowered \in BOOLEAN
  /\ arrived \in 0..MaxActions /\ batch \in 0..(MaxActions + 1)
  /\ drift \in Int

BatchInv == BatchTypes /\ GoodWire(wire, players, batch) /\ ClockFollows

\* The invariant has everything that is claimed.
LEMMA InvImplies ==
  ASSUME BatchInv PROVE SameGame /\ BatchesAreWhole /\ SavedBeforeDrop /\ ClockFollows
<1>1. SameGame
  <2> SUFFICES ASSUME NEW c \in players
               PROVE  Assembled(c) = Assembled(Replay) /\ Assembled(c).open = <<>>
    BY DEF SameGame
  <2>1. PICK got : Game(c, wire[c]) = NewGame(got) /\ Game(Replay, wire[Replay]) = NewGame(got)
    BY DEF BatchInv, GoodWire, Alike
  <2>2. Assembled(c) = Game(c, wire[c]) /\ Assembled(Replay) = Game(Replay, wire[Replay])
    BY Folds
  <2> QED
    BY <2>1, <2>2 DEF NewGame
<1>2. TypeOK
  <2>1. lateBy \in 0..MaxAge
    <3>1. PICK l \in Latencies : lateBy <= l
      BY DEF BatchInv, BatchTypes
    <3>2. l \in Nat /\ MaxAge \in Nat /\ 2 * l < MaxAge
      BY BatchAssumption
    <3> QED
      BY <3>1, <3>2 DEF BatchInv, BatchTypes
  <2> QED
    BY <2>1 DEF TypeOK, BatchInv, BatchTypes
<1>3. ActionsInOrder
  <2>1. Numbers(C!Fold(0, <<>>, wire[Replay])) = UpTo(batch)
    BY DEF BatchInv, GoodWire
  <2>2. Carried(wire[Replay]) = C!Fold(0, <<>>, wire[Replay])
    BY Folds
  <2> QED
    BY <2>1, <2>2 DEF ActionsInOrder, BatchInv, BatchTypes, Queued
<1>4. PacketsFit
  BY DEF PacketsFit, BatchInv, GoodWire, PacketFits, Fits
<1>5. SavedBeforeDrop
  BY DEF SavedBeforeDrop, BatchInv, GoodWire, SavedOn
<1> QED
  BY <1>1, <1>2, <1>3, <1>4, <1>5 DEF BatchesAreWhole, BatchInv

\* No actions are queued.
LEMMA EmptyQueued == Queued(<<>>) /\ Len(<<>>) = 0
  BY DEF Queued, Numbers, UpTo

\* Sending keeps the clock, and leaves no action behind.
LEMMA SendAllActionsStep ==
  ASSUME BatchInv, NEW acts \in Seq(Actions), Len(acts) <= MaxActions + 1, NEW i \in 0..MaxAge,
         SendAllActions(acts, i), latency' = latency, players' \subseteq Players,
         lagging' \in BOOLEAN, done' \in BOOLEAN
  PROVE  BatchTypes' /\ ClockFollows' /\ batch' = Len(acts)
<1>1. /\ latency \in Latencies /\ lateBy \in Nat /\ (\E l \in Latencies : lateBy <= l)
      /\ drift \in Int /\ capped \in BOOLEAN /\ latency \in Nat
      /\ MaxAge \in Nat /\ MaxActions \in Nat /\ Len(acts) \in Nat
  BY BatchAssumption DEF BatchInv, BatchTypes
<1>2. Lateness(i) \in Nat /\ (Lateness(i) <= latency => Lateness(i) = i + lateBy - latency)
  BY <1>1, LatenessIs
<1>3. /\ actions' = <<>> /\ arrived' = 0 /\ batch' = Len(acts) /\ age' = 0 /\ lowered' = FALSE
      /\ lateBy' = IF Lateness(i) > latency THEN latency ELSE Lateness(i)
      /\ capped' = (capped \/ Lateness(i) > latency)
      /\ drift' = IF capped' THEN 0 ELSE drift + i - latency
  BY DEF SendAllActions
<1>4. lateBy' \in Nat /\ lateBy' <= latency
  BY <1>1, <1>2, <1>3
<1>5. drift' \in Int /\ capped' \in BOOLEAN
  BY <1>1, <1>3
<1>6. Queued(actions)' /\ Len(actions') = 0
  BY <1>3, EmptyQueued DEF Queued, Numbers, UpTo
<1>7. BatchTypes'
  <2>1. players' \subseteq Players /\ latency' \in Latencies /\ lagging' \in BOOLEAN
        /\ done' \in BOOLEAN /\ capped' \in BOOLEAN /\ drift' \in Int
    BY Zenon, <1>1, <1>5
  <2>2. lateBy' \in Nat /\ \E l \in Latencies : lateBy' <= l
    BY <1>1, <1>4
  <2>3. /\ Queued(actions)' /\ Len(actions') = arrived'
        /\ \A j \in 1..Len(actions') : actions'[j].len \in Sizes
    BY <1>3, <1>6
  <2>4. arrived' \in 0..MaxActions /\ batch' \in 0..(MaxActions + 1) /\ age' \in 0..MaxAge
    BY <1>1, <1>3
  <2>5. lowered' \in BOOLEAN
    BY <1>3
  <2> QED
    BY Zenon, <2>1, <2>2, <2>3, <2>4, <2>5 DEF BatchTypes
<1>8. ClockFollows'
  <2>1. SUFFICES ASSUME ~capped' PROVE drift' = lateBy'
    BY Zenon DEF ClockFollows
  <2>2. ~capped /\ ~(Lateness(i) > latency)
    BY Zenon, <1>3, <2>1
  <2>3. drift = lateBy
    BY Zenon, <2>2 DEF BatchInv, ClockFollows
  <2>4. drift' = drift + i - latency /\ lateBy' = Lateness(i)
    BY Zenon, <1>3, <2>1, <2>2
  <2>5. i \in Nat
    BY <1>1
  <2> HIDE <1>3
  <2> QED
    BY <1>1, <1>2, <2>2, <2>3, <2>4, <2>5
<1> QED
  BY <1>3, <1>7, <1>8

\* One more action.
LEMMA OneMore ==
  ASSUME NEW acts, Queued(acts), NEW a \in Actions, a.no = Len(acts) + 1
  PROVE  Queued(Append(acts, a)) /\ Len(Append(acts, a)) = Len(acts) + 1
<1> DEFINE more == Append(acts, a)
           k    == Len(acts)
<1>1. /\ k \in Nat /\ more \in Seq(Actions) /\ Len(more) = k + 1
      /\ (\A i \in 1..k : more[i] = acts[i]) /\ more[k + 1] = a
  BY DEF Queued
<1>2. \A i \in 1..k : acts[i].no = i
  <2>1. [i \in 1..k |-> acts[i].no] = [i \in 1..k |-> i]
    BY DEF Queued, Numbers, UpTo
  <2> QED
    BY <2>1
<1> HIDE DEF more, k
<1>3. \A i \in 1..(k + 1) : more[i].no = i
  BY <1>1, <1>2 DEF k
<1>4. Numbers(more) = UpTo(k + 1)
  BY <1>1, <1>3 DEF Numbers, UpTo
<1> QED
  BY <1>1, <1>4 DEF Queued, more, k

\* An action that arrives gets the next number.
LEMMA ArriveStep ==
  ASSUME BatchInv, NEW len \in Sizes, Arrive(len) PROVE BatchInv'
<1> DEFINE a == [no |-> arrived + 1, len |-> len, saves |-> NoSave]
<1>1. /\ arrived < MaxActions /\ arrived' = arrived + 1 /\ actions' = Append(actions, a)
      /\ UNCHANGED <<players, latency, lateBy, age, lagging, wire, done, batch, drift,
                     capped, lowered>>
  BY DEF Arrive
<1>2. /\ Queued(actions) /\ Len(actions) = arrived /\ arrived \in Nat /\ actions \in Seq(Actions)
      /\ MaxActions \in Nat /\ len \in Nat
  BY BatchAssumption DEF BatchInv, BatchTypes, Queued
<1>3. a \in Actions /\ a.no = Len(actions) + 1 /\ a.len = len
  BY <1>2 DEF Actions
<1> HIDE DEF a
<1>4. Queued(actions') /\ Len(actions') = arrived'
  BY <1>1, <1>2, <1>3, OneMore
<1>5. \A i \in 1..Len(actions') : actions'[i].len \in Sizes
  <2>1. \A i \in 1..Len(actions) : actions[i].len \in Sizes
    BY DEF BatchInv, BatchTypes
  <2> QED
    BY <1>1, <1>2, <1>3, <2>1
<1>6. BatchTypes'
  BY <1>1, <1>2, <1>4, <1>5 DEF BatchInv, BatchTypes, Queued
<1> QED
  BY <1>1, <1>6 DEF BatchInv, ClockFollows

\* A player leaves: after an update of its own that saves the game, or without one.
LEMMA DeleteStep ==
  ASSUME BatchInv, NEW p \in Players, NEW lost \in BOOLEAN, Delete(p, lost) PROVE BatchInv'
<1>1. /\ p \in players /\ players' = players \ {p} /\ players \subseteq Players
      /\ UNCHANGED <<latency, lagging, done>>
  BY DEF Delete, BatchInv, BatchTypes
<1>2. CASE AutoSave /\ lost
  <2> DEFINE a    == Save(p)
             acts == Append(actions, a)
             u    == Batch(acts)
             w    == Sent(u)
  <2>1. SendAllActions(acts, age) /\ wire' = Tell(p, w, lost)
    BY <1>2 DEF Delete
  <2>2. /\ Queued(actions) /\ Len(actions) = arrived /\ arrived \in 0..MaxActions
        /\ MaxActions \in Nat /\ age \in 0..MaxAge /\ lagging' \in BOOLEAN /\ done' \in BOOLEAN
        /\ latency \in Nat
    BY <1>1, BatchAssumption DEF BatchInv, BatchTypes
  <2>3. a \in Actions /\ a.no = Len(actions) + 1 /\ a.saves = p
    BY <2>2 DEF Save, Actions
  <2> HIDE DEF a
  <2>4. Queued(acts) /\ Len(acts) = arrived + 1
    BY <2>2, <2>3, OneMore
  <2>5. acts # <<>> /\ Last(acts) = a
    BY <2>2, <2>3, <2>4 DEF Last, Queued
  <2> HIDE DEF acts
  <2>6. BatchTypes' /\ ClockFollows' /\ batch' = Len(acts)
    <3>1. acts \in Seq(Actions) /\ Len(acts) <= MaxActions + 1 /\ players' \subseteq Players
      BY <1>1, <2>2, <2>4 DEF Queued
    <3>2. latency' = latency
      BY <1>1
    <3> QED
      BY <2>1, <2>2, <3>1, <3>2, SendAllActionsStep
  <2>7. /\ IsUpdate(u, Timed(latency, acts), Len(acts))
        /\ u[Len(u)].type = "ACTION" /\ Last(u[Len(u)].acts) = a
    <3>1. acts \in Seq(Actions) /\ Numbers(acts) = UpTo(Len(acts))
      BY <2>4 DEF Queued
    <3> QED
      BY <2>2, <2>5, <3>1, BatchIsUpdate
  <2> DEFINE t == Timed(latency, acts)
             n == Len(acts)
  <2> HIDE DEF u, t, n
  <2>8. GoodWire(w, players, n)
    BY <1>1, <2>7, SentGood DEF t, n
  <2>9. ASSUME NEW c \in players
        PROVE  /\ w[c] # <<>> /\ w[c][Len(w[c])].type = "ACTION"
               /\ Last(w[c][Len(w[c])].acts).saves = p
    <3> DEFINE E == EmptyUpdates
    <3>1. w[c] = (IF c \in Filled THEN E ELSE <<>>) \o u
      BY <1>1 DEF Sent, Consumers
    <3>2. u \in Seq(Packets) /\ u # <<>> /\ E \in Seq(Packets)
      <4>1. u \in Seq(Packets) /\ E \in Seq(Packets)
        BY <2>7, FilledUpdate DEF IsUpdate
      <4>2. u # <<>>
        <5>1. acts \in Seq(Actions)
          BY <2>4 DEF Queued
        <5>2. Packed(acts).sent \in Seq(Packets)
          BY <5>1, PackedShape DEF Shaped, Closed
        <5> DEFINE b == Packed(acts).sent
        <5> HIDE DEF b
        <5>3. \A r \in Seq(Packets) : \A x : Append(r, x) # <<>>
          OBVIOUS
        <5>4. u = Append(b, Timed(latency, Packed(acts).open))
          BY DEF u, Batch, b
        <5> QED
          BY <5>2, <5>3, <5>4 DEF b
      <4> QED
        BY <4>1, <4>2
    <3> HIDE DEF w, E
    <3>3. w[c] \in Seq(Packets) /\ w[c] # <<>> /\ w[c][Len(w[c])] = u[Len(u)]
      <4>1. \A s \in Seq(Packets) : /\ s \o u \in Seq(Packets) /\ s \o u # <<>>
                                    /\ (s \o u)[Len(s \o u)] = u[Len(u)]
        BY <3>2
      <4>2. <<>> \in Seq(Packets)
        OBVIOUS
      <4> QED
        BY <3>1, <3>2, <4>1, <4>2
    <3> QED
      BY <2>3, <2>7, <3>3
  <2> HIDE DEF w
  <2>10. GoodWire(Tell(p, w, lost), players \ {p}, n)
    BY <1>1, <2>8, <2>9, TellGood
  <2> QED
    BY <1>1, <2>1, <2>6, <2>10 DEF BatchInv, n
<1>3. CASE ~(AutoSave /\ lost)
  <2>1. /\ wire' = Tell(p, wire, lost)
        /\ UNCHANGED <<actions, arrived, batch, lateBy, age, drift, capped, lowered>>
    BY <1>3 DEF Delete
  <2>2. GoodWire(Tell(p, wire, lost), players \ {p}, batch)
    <3>1. GoodWire(wire, players, batch)
      BY DEF BatchInv
    <3> QED
      BY <1>1, <1>3, <3>1, TellGood
  <2>3. BatchTypes'
    BY <1>1, <2>1 DEF BatchInv, BatchTypes, Queued
  <2> QED
    BY <1>1, <2>1, <2>2, <2>3 DEF BatchInv, ClockFollows
<1> QED
  BY <1>2, <1>3

\* The game's Update: an update that is due, a renewal of the lag screen, or nothing.
LEMMA UpdateStep ==
  ASSUME BatchInv, NEW lag \in BOOLEAN, NEW renew \in BOOLEAN, Update(lag, renew) PROVE BatchInv'
<1> DEFINE i == IF lagging \/ lag THEN 0 ELSE age
<1>1. /\ done' = TRUE /\ lagging' = lag /\ UNCHANGED <<players, latency>>
      /\ players \subseteq Players
      /\ i \in 0..MaxAge /\ MaxActions \in Nat /\ latency \in Nat
      /\ Queued(actions) /\ Len(actions) \in 0..MaxActions
  BY BatchAssumption DEF Update, BatchInv, BatchTypes
<1>2. CASE SendAllActions(actions, i) /\ wire' = Sent(Batch(actions))
  <2>1. /\ actions \in Seq(Actions) /\ Numbers(actions) = UpTo(Len(actions))
        /\ Len(actions) <= MaxActions + 1
    BY <1>1 DEF Queued
  <2>2. BatchTypes' /\ ClockFollows' /\ batch' = Len(actions)
    <3> HIDE DEF i
    <3> QED
      BY <1>1, <1>2, <2>1, SendAllActionsStep
  <2>3. IsUpdate(Batch(actions), Timed(latency, actions), Len(actions))
    BY <1>1, <2>1, BatchIsUpdate
  <2>4. GoodWire(Sent(Batch(actions)), players, Len(actions))
    BY <1>1, <2>3, SentGood
  <2> QED
    BY <1>1, <1>2, <2>2, <2>4 DEF BatchInv
<1>3. CASE /\ age' = i
           /\ IF renew THEN batch' = 0 /\ wire' = Sent(Renewal) ELSE UNCHANGED <<batch, wire>>
           /\ UNCHANGED <<actions, arrived, lateBy, drift, capped, lowered>>
  <2>1. BatchTypes'
    <3> HIDE DEF i
    <3>1. batch' \in 0..(MaxActions + 1)
      BY <1>1, <1>3 DEF BatchInv, BatchTypes
    <3> QED
      BY <1>1, <1>3, <3>1 DEF BatchInv, BatchTypes, Queued
  <2>2. GoodWire(wire', players, batch')
    <3>1. GoodWire(wire, players, batch)
      BY DEF BatchInv
    <3>2. GoodWire(Sent(Renewal), players, 0)
      BY <1>1, RenewalIsUpdate, SentGood
    <3> QED
      BY <1>3, <3>1, <3>2
  <2> QED
    BY <1>1, <1>3, <2>1, <2>2 DEF BatchInv, ClockFollows
<1> QED
  BY <1>2, <1>3 DEF Update

-----------------------------------------------------------------------------
(* The theorems                                                            *)

\* Nothing has been sent when the game begins.
LEMMA BatchInit == Init => BatchInv
<1> SUFFICES ASSUME Init PROVE BatchInv
  OBVIOUS
<1>1. /\ MaxActions \in Nat /\ MaxAge \in Nat /\ latency \in Nat /\ latency \in Latencies
      /\ lateBy = 0 /\ age = 0 /\ arrived = 0 /\ batch = 0 /\ actions = <<>> /\ players = Players
      /\ lagging = FALSE /\ done = FALSE /\ capped = FALSE /\ lowered = FALSE /\ drift = 0
  BY BatchAssumption DEF Init
<1>2. BatchTypes
  <2>1. /\ Queued(actions) /\ Len(actions) = arrived
        /\ \A i \in 1..Len(actions) : actions[i].len \in Sizes
    BY <1>1, EmptyQueued
  <2>2. lateBy \in Nat /\ \E l \in Latencies : lateBy <= l
    BY <1>1
  <2>3. /\ age \in 0..MaxAge /\ arrived \in 0..MaxActions
        /\ batch \in 0..(MaxActions + 1) /\ drift \in Int
    BY <1>1
  <2> QED
    BY <1>1, <2>1, <2>2, <2>3 DEF BatchTypes
<1>3. GoodWire(wire, players, 0)
  <2> DEFINE e == <<>>
  <2>1. /\ wire = [c \in Consumers |-> e] /\ players = Players
        /\ Replay \in Consumers /\ Players \subseteq Consumers
    BY DEF Init, Consumers
  <2>2. e \in Seq(Packets) /\ Len(e) = 0 /\ Numbers(e) = UpTo(0)
    BY DEF Numbers, UpTo
  <2> HIDE DEF e
  <2>3. C!Fold(0, e, e) = e
    BY C!FoldEmpty DEF e
  <2>4. \A c : Game(c, e) = NewGame(e)
    BY A!FoldEmpty DEF Game, e
  <2>5. \A c \in players : Alike(wire, c)
    BY <2>1, <2>4 DEF Alike
  <2> QED
    BY <2>1, <2>2, <2>3, <2>5 DEF GoodWire, SavedOn, e
<1> QED
  BY <1>2, <1>3 DEF Init, BatchInv, ClockFollows

\* Every step keeps the invariant.
LEMMA BatchStep == BatchInv /\ [Next]_vars => BatchInv'
<1> SUFFICES ASSUME BatchInv, [Next]_vars PROVE BatchInv'
  OBVIOUS
<1>1. ASSUME NEW len \in Sizes, Arrive(len) PROVE BatchInv'
  BY <1>1, ArriveStep
<1>2. ASSUME NEW l \in Latencies, SetLatency(l) PROVE BatchInv'
  <2>1. BatchTypes'
    BY <1>2 DEF SetLatency, BatchInv, BatchTypes, Queued
  <2> QED
    BY <1>2, <2>1 DEF SetLatency, BatchInv, ClockFollows
<1>3. ASSUME NEW p \in Players, NEW lost \in BOOLEAN, Delete(p, lost) PROVE BatchInv'
  BY <1>3, DeleteStep
<1>4. ASSUME NEW lag \in BOOLEAN, NEW renew \in BOOLEAN, Update(lag, renew) PROVE BatchInv'
  BY <1>4, UpdateStep
<1>5. ASSUME NEW d \in 1..Gap, Tick(d) PROVE BatchInv'
  <2>1. age' \in 0..MaxAge
    BY <1>5, BatchAssumption DEF Tick, BatchInv, BatchTypes
  <2>2. BatchTypes'
    BY <1>5, <2>1 DEF Tick, BatchInv, BatchTypes, Queued
  <2> QED
    BY <1>5, <2>2 DEF Tick, BatchInv, ClockFollows
<1>6. CASE UNCHANGED vars
  BY <1>6 DEF vars, BatchInv, BatchTypes, Queued, ClockFollows
<1> QED
  BY <1>1, <1>2, <1>3, <1>4, <1>5, <1>6 DEF Next

\* For any players, with and without GProxy++, any sizes of actions and any limit of a
\* packet: what SendAllActions and EventPlayerDeleted send in separate calls adds up to the
\* same game for each player who is in it and for the replay (the same updates with the same
\* actions and times, the same players leaving between them), and to whole updates.
THEOREM OneGameForAll == Spec => []SameGame
  BY BatchInit, BatchStep, InvImplies, PTL DEF Spec

\* However many actions there are and however they fit into packets, an update carries all
\* that arrived since the last one, once and in their order; and no packet of more than one
\* action is longer than a client accepts, no INCOMING_ACTION2 empty.
THEOREM BatchesAlwaysWhole == Spec => []BatchesAreWhole
  BY BatchInit, BatchStep, InvImplies, PTL DEF Spec

\* With autosave, what a player is sent directly before the message that somebody has lost
\* the connection is an update that ends with saving the game in that player's name, whoever
\* leaves and whatever was waiting to be sent.
THEOREM AlwaysSavedBeforeDrop == Spec => []SavedBeforeDrop
  BY BatchInit, BatchStep, InvImplies, PTL DEF Spec

\* m_LastActionLateBy is the time by which the game clock is behind real time, for any
\* sequence of delays, lag screens and changes of m_Latency, as long as no update was late by
\* more than m_Latency or sent early: the uint32_t subtractions may wrap around in between.
THEOREM ClockAlwaysFollows == Spec => []ClockFollows
  BY BatchInit, BatchStep, InvImplies, PTL DEF Spec

=============================================================================
