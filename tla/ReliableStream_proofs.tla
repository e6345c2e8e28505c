------------------------ MODULE ReliableStream_proofs -----------------------
(***************************************************************************)
(* Proofs about ReliableStream, for every buffer, packet and stream size   *)
(* and every set of bytes.                                                 *)
(*                                                                         *)
(* The invariants TLC checks speak of whole sequences and are not          *)
(* inductive: nothing in them says what a datagram still in the network    *)
(* contains.  IInv adds that, byte by byte: every packet in flight carries *)
(* bytes of the stream at their place and none beyond reliable_unsent, and *)
(* every acknowledgement in flight names an offset the client has reached. *)
(***************************************************************************)
EXTENDS ReliableStream, SequenceTheorems, TLAPS

(* s is what the stream w holds from byte number off on. *)
Matches(s, w, off) == \A i \in 1 .. Len(s) : s[i] = w[off + i]

PacketsGenuine ==
    \A p \in to_client : /\ p.rel + Len(p.data) <= reliable_unsent
                         /\ Matches(p.data, written, p.rel)

AcksGenuine == \A rel \in to_server : rel <= client_offset

Lengths ==
    /\ Len(received) = client_offset
    /\ Len(written) = reliable_offset + Len(c)

IInv ==
    /\ TypeOK
    /\ Lengths
    /\ OffsetsOrdered
    /\ Matches(c, written, reliable_offset)
    /\ Matches(received, written, 0)
    /\ PacketsGenuine
    /\ AcksGenuine
    /\ TimerGuardsOutstanding
    /\ NoBadAck

-----------------------------------------------------------------------------
(* Arithmetic and sequence facts.                                          *)

(* Rounding up is rounding: the last packet of a burst is not empty. *)
LEMMA CeilDivBounds ==
    ASSUME NEW a \in Nat, NEW b \in Nat \ {0}
    PROVE  /\ CeilDiv(a, b) \in Nat
           /\ CeilDiv(a, b) * b < a + b
           /\ a > 0 => CeilDiv(a, b) > 0
BY DEF CeilDiv

(* Products of a natural number keep the order: for the doubling timeouts. *)
LEMMA ProductMonotone ==
    ASSUME NEW a \in Nat, NEW b \in Nat, NEW m \in Nat, a <= b
    PROVE  /\ a * m \in Nat
           /\ b * m \in Nat
           /\ a * m <= b * m
           /\ (a + 1) * m = a * m + m
OBVIOUS

(* The domain and the elements of a SubSeq within a sequence.              *)
LEMMA SubSeqFacts ==
    ASSUME NEW S, NEW s \in Seq(S), NEW m \in Nat, NEW n \in Nat, n <= Len(s)
    PROVE  /\ SubSeq(s, m + 1, n) \in Seq(S)
           /\ Len(SubSeq(s, m + 1, n)) = IF m <= n THEN n - m ELSE 0
           /\ \A i \in 1 .. n - m : SubSeq(s, m + 1, n)[i] = s[m + i]
<1>1. \A i \in m + 1 .. n : s[i] \in S
  BY ElementOfSeq
<1>2. QED
  BY <1>1, SubSeqProperties

(* A sequence that agrees with a stretch of another one is that stretch. *)
LEMMA MatchesSubSeq ==
    ASSUME NEW S, NEW s \in Seq(S), NEW w \in Seq(S), NEW off \in Nat,
           off + Len(s) <= Len(w), Matches(s, w, off)
    PROVE  s = SubSeq(w, off + 1, off + Len(s))
<1> DEFINE t == SubSeq(w, off + 1, off + Len(s))
<1>1. Len(s) \in Nat
  OBVIOUS
<1>2. /\ t \in Seq(S)
      /\ Len(t) = Len(s)
      /\ \A i \in 1 .. Len(s) : t[i] = w[off + i]
  BY <1>1, SubSeqFacts
<1>3. \A i \in 1 .. Len(s) : t[i] = s[i]
  BY <1>2 DEF Matches
<1>4. QED
  BY <1>2, <1>3, SeqEqual

-----------------------------------------------------------------------------
(* What Send_reliable puts on the network.                                 *)

(* Every packet of a burst is a non-empty stretch of the buffer that ends  *)
(* where reliable_unsent is moved to, or before.                           *)
LEMMA SegmentIsGenuine ==
    ASSUME TypeOK, c # <<>>,
           NEW room \in 1 .. MaxPacket, NEW n \in Nat, n <= FullBurst(room),
           NEW j \in 0 .. n - 1
    PROVE  LET p == Segment(room, j)
           IN  /\ p \in Packet
               /\ p.rel + Len(p.data) <= BurstEnd(room, n)
               /\ \E k \in Nat :
                    /\ p.rel = reliable_offset + k
                    /\ k + Len(p.data) <= Len(c)
                    /\ \A i \in 1 .. Len(p.data) : p.data[i] = c[k + i]
<1> DEFINE todo == MaxTodo(room)
           lo == j * MaxPacket
           hi == MinOf((j + 1) * MaxPacket, todo)
           d == SubSeq(c, lo + 1, hi)
<1>1. /\ Len(c) \in Nat
      /\ MaxPacket \in Nat \ {0}
      /\ reliable_offset \in Nat
      /\ room \in Nat
  BY ConstantsAreSizes DEF TypeOK
<1>2. todo \in Nat /\ todo <= Len(c)
  BY <1>1 DEF MaxTodo, MinOf
<1>3. n <= CeilDiv(todo, MaxPacket)
  <2>1. CeilDiv(todo, MaxPacket) \in Nat
    BY <1>1, <1>2, CeilDivBounds
  <2>2. Window + 1 \in Int
    BY DEF TypeOK, Window
  <2>3. QED
    BY <2>1, <2>2 DEF FullBurst, MinOf
<1>4. /\ lo \in Nat
      /\ (j + 1) * MaxPacket = lo + MaxPacket
      /\ (j + 1) * MaxPacket <= n * MaxPacket
      /\ n * MaxPacket \in Nat
  <2>1. j \in Nat /\ j + 1 \in Nat /\ j + 1 <= n
    OBVIOUS
  <2>2. QED
    BY <1>1, <2>1, ProductMonotone
<1>5. lo < todo
  <2>1. n * MaxPacket < todo + MaxPacket
    <3>1. CeilDiv(todo, MaxPacket) \in Nat
      BY <1>1, <1>2, CeilDivBounds
    <3>2. n * MaxPacket <= CeilDiv(todo, MaxPacket) * MaxPacket
      BY <1>1, <1>3, <3>1, ProductMonotone
    <3>3. CeilDiv(todo, MaxPacket) * MaxPacket < todo + MaxPacket
      BY <1>1, <1>2, CeilDivBounds
    <3>4. CeilDiv(todo, MaxPacket) * MaxPacket \in Nat
      BY <1>1, <3>1, ProductMonotone
    <3>5. QED
      BY <1>1, <1>2, <1>4, <3>2, <3>3, <3>4
  <2>2. QED
    BY <1>1, <1>2, <1>4, <2>1
<1>6. hi \in Nat /\ lo < hi /\ hi <= Len(c) /\ hi <= MinOf(n * MaxPacket, todo)
  BY <1>1, <1>2, <1>4, <1>5 DEF MinOf
<1>7. /\ d \in Seq(Byte)
      /\ Len(d) = hi - lo
      /\ \A i \in 1 .. hi - lo : d[i] = c[lo + i]
  <2>1. c \in Seq(Byte)
    BY DEF TypeOK
  <2>2. lo \in Nat /\ hi \in Nat /\ lo <= hi /\ hi <= Len(c)
    BY <1>4, <1>6
  <2> HIDE DEF todo, lo, hi
  <2>3. /\ SubSeq(c, lo + 1, hi) \in Seq(Byte)
        /\ Len(SubSeq(c, lo + 1, hi)) = IF lo <= hi THEN hi - lo ELSE 0
        /\ \A i \in 1 .. hi - lo : SubSeq(c, lo + 1, hi)[i] = c[lo + i]
    BY <2>1, <2>2, SubSeqFacts
  <2>4. QED
    BY <2>2, <2>3
<1>8. Segment(room, j) = [rel |-> reliable_offset + lo, data |-> d]
  BY DEF Segment
<1>9. BurstEnd(room, n) = reliable_offset + MinOf(n * MaxPacket, todo)
  BY DEF BurstEnd
<1>10. MinOf(n * MaxPacket, todo) \in Nat
  BY <1>2, <1>4 DEF MinOf
<1> HIDE DEF todo, lo, hi, d
<1>11. Segment(room, j) \in Packet
  BY <1>1, <1>4, <1>7, <1>8 DEF Packet
<1>12. reliable_offset + lo + Len(d) <= BurstEnd(room, n)
  BY <1>1, <1>4, <1>6, <1>7, <1>9, <1>10
<1>13. lo + Len(d) <= Len(c) /\ \A i \in 1 .. Len(d) : d[i] = c[lo + i]
  BY <1>4, <1>6, <1>7
<1>14. QED
  BY <1>4, <1>8, <1>11, <1>12, <1>13

-----------------------------------------------------------------------------
(* IInv is inductive: one lemma per action that changes more than it reads *)
(* off at once.                                                            *)

(* The invariant holds when the connection is set up (Setup_connection).   *)
LEMMA InitIInv == Init => IInv
<1> SUFFICES ASSUME Init PROVE IInv
  OBVIOUS
<1>1. TypeOK
  <2>1. <<>> \in Seq(Byte)
    OBVIOUS
  <2>2. c \in Seq(Byte) /\ received \in Seq(Byte) /\ written \in Seq(Byte)
    BY <2>1 DEF Init
  <2>3. retransmit_in \in NoTimer .. MaxRetransmit
    BY ConstantsAreSizes DEF Init, NoTimer
  <2>4. to_client \subseteq Packet /\ to_server \subseteq Nat
    BY DEF Init
  <2>5. QED
    BY <2>2, <2>3, <2>4 DEF Init, TypeOK
<1>2. QED
  BY <1>1 DEF Init, IInv, Lengths, OffsetsOrdered, Matches, PacketsGenuine,
              AcksGenuine, TimerGuardsOutstanding, NoBadAck, NoTimer

(* Bytes that are appended disturb none that are already there. *)
LEMMA WriteIInv ==
    ASSUME IInv, NEW data \in Chunks, Write(data)
    PROVE  IInv'
<1>0. data \in Seq(Byte) /\ Len(data) \in Nat /\ TypeOK
  BY ChunksAreBytes DEF IInv
<1>1. /\ c' \in Seq(Byte)
      /\ Len(c') = Len(c) + Len(data)
      /\ \A i \in 1 .. Len(c) : c'[i] = c[i]
      /\ \A i \in 1 .. Len(data) : c'[Len(c) + i] = data[i]
  BY <1>0 DEF TypeOK, Write
<1>2. /\ written' \in Seq(Byte)
      /\ Len(written') = Len(written) + Len(data)
      /\ \A i \in 1 .. Len(written) : written'[i] = written[i]
      /\ \A i \in 1 .. Len(data) : written'[Len(written) + i] = data[i]
  BY <1>0 DEF TypeOK, Write
<1>3. UNCHANGED <<reliable_offset, reliable_unsent, acks, retransmit_in,
                  sent_this_loop, bad_ack, client_offset, received,
                  to_client, to_server>>
  BY DEF Write, client, network
<1>4. TypeOK'
  BY <1>0, <1>1, <1>2, <1>3 DEF TypeOK, Packet
<1>5. /\ Len(written) \in Nat /\ Len(c) \in Nat /\ Len(received) \in Nat
      /\ reliable_offset \in Nat /\ reliable_unsent \in Nat
      /\ client_offset \in Nat
      /\ Len(written) = reliable_offset + Len(c)
      /\ Len(received) = client_offset
      /\ client_offset <= reliable_unsent
      /\ reliable_unsent <= reliable_offset + Len(c)
  BY <1>0 DEF TypeOK, IInv, Lengths, OffsetsOrdered
<1>6. (Lengths /\ OffsetsOrdered)'
  BY <1>0, <1>1, <1>2, <1>3, <1>5 DEF IInv, Lengths, OffsetsOrdered
<1>7. Matches(c, written, reliable_offset)'
  <2> SUFFICES ASSUME NEW i \in 1 .. Len(c')
               PROVE  c'[i] = written'[reliable_offset + i]
    BY <1>3 DEF Matches
  <2>1. CASE i > Len(c)
    <3> DEFINE k == i - Len(c)
    <3>1. k \in 1 .. Len(data) /\ i = Len(c) + k
      BY <1>0, <1>1, <1>5, <2>1
    <3>2. reliable_offset + i = Len(written) + k
      BY <1>5, <3>1
    <3> HIDE DEF k
    <3>3. QED
      BY <1>1, <1>2, <3>1, <3>2
  <2>2. CASE i \in 1 .. Len(c)
    <3>1. reliable_offset + i \in 1 .. Len(written)
      BY <1>5, <2>2
    <3>2. QED
      BY <1>1, <1>2, <2>2, <3>1 DEF IInv, Matches
  <2>3. QED
    BY <1>0, <1>1, <1>5, <2>1, <2>2
<1>8. Matches(received, written, 0)'
  <2> SUFFICES ASSUME NEW i \in 1 .. Len(received)
               PROVE  received[i] = written'[0 + i]
    BY <1>3 DEF Matches
  <2>1. i \in 1 .. Len(written)
    BY <1>5
  <2>2. QED
    BY <1>2, <1>5, <2>1 DEF IInv, Matches
<1>9. PacketsGenuine'
  <2> SUFFICES ASSUME NEW p \in to_client
               PROVE  /\ p.rel + Len(p.data) <= reliable_unsent
                      /\ Matches(p.data, written', p.rel)
    BY <1>3 DEF PacketsGenuine
  <2>1. /\ p.rel \in Nat /\ Len(p.data) \in Nat
        /\ p.rel + Len(p.data) <= reliable_unsent
    BY <1>0 DEF IInv, PacketsGenuine, TypeOK, Packet
  <2>2. \A i \in 1 .. Len(p.data) : p.data[i] = written[p.rel + i]
    BY DEF IInv, PacketsGenuine, Matches
  <2>3. \A i \in 1 .. Len(p.data) : p.rel + i \in 1 .. Len(written)
    BY <1>5, <2>1
  <2>4. QED
    BY <1>2, <2>1, <2>2, <2>3 DEF Matches
<1>10. (AcksGenuine /\ TimerGuardsOutstanding /\ NoBadAck)'
  BY <1>3 DEF IInv, AcksGenuine, TimerGuardsOutstanding, NoBadAck
<1>11. QED
  BY <1>4, <1>6, <1>7, <1>8, <1>9, <1>10 DEF IInv

(* The next iteration of the server's main loop keeps the invariant.       *)
LEMMA TickIInv ==
    ASSUME IInv, Tick
    PROVE  IInv'
<1>1. retransmit_in' \in NoTimer .. MaxRetransmit
  BY ConstantsAreSizes DEF IInv, TypeOK, Tick, Countdown, NoTimer
<1>2. (retransmit_in' # NoTimer) <=> (retransmit_in # NoTimer)
  BY DEF IInv, TypeOK, Tick, Countdown, NoTimer
<1>3. QED
  BY <1>1, <1>2 DEF IInv, TypeOK, Lengths, OffsetsOrdered, Matches,
        PacketsGenuine, AcksGenuine, TimerGuardsOutstanding, NoBadAck,
        Tick, client, network, Packet

(* A burst moves reliable_unsent to the end of what it sends, which is     *)
(* inside the buffer, and starts the timer if it sends anything.           *)
LEMMA SendReliableIInv ==
    ASSUME IInv,
           NEW room \in 1 .. MaxPacket, NEW n \in Nat,
           SendReliable(room, n)
    PROVE  IInv'
<1> DEFINE burst == {Segment(room, j) : j \in 0 .. n - 1}
           end == BurstEnd(room, n)
<1>1. TypeOK /\ c # <<>>
  BY DEF IInv, SendReliable
<1>2. /\ MaxTodo(room) \in Nat
      /\ MaxTodo(room) > 0
      /\ MaxTodo(room) <= Len(c)
      /\ MaxPacket \in Nat \ {0}
      /\ Window \in Nat
  BY <1>1, ConstantsAreSizes
     DEF MaxTodo, MinOf, TypeOK, Window
<1>3. FullBurst(room) \in Nat
  <2>1. CeilDiv(MaxTodo(room), MaxPacket) \in Nat
    BY <1>2, CeilDivBounds
  <2>2. QED
    BY <1>2, <2>1 DEF FullBurst, MinOf
<1>4. n \in Nat /\ n <= FullBurst(room)
  BY DEF SendReliable
<1>5. /\ end \in Nat
      /\ reliable_offset <= end
      /\ end <= reliable_offset + Len(c)
      /\ n > 0 <=> end > reliable_offset
  <2>1. n * MaxPacket \in Nat /\ (n > 0 => n * MaxPacket >= MaxPacket)
    <3>1. n > 0 => 1 * MaxPacket <= n * MaxPacket
      BY <1>2, <1>4, ProductMonotone
    <3>2. QED
      BY <1>2, <1>4, <3>1, ProductMonotone
  <2>2. n = 0 => n * MaxPacket = 0
    BY <1>2
  <2>3. QED
    BY SMTT(30), <1>1, <1>2, <1>4, <2>1, <2>2 DEF BurstEnd, MinOf, TypeOK
<1>6. reliable_unsent' = MaxOf(reliable_unsent, end)
  BY DEF SendReliable
<1> HIDE DEF end
<1>7. /\ reliable_unsent' \in Nat
      /\ reliable_unsent <= reliable_unsent'
      /\ end <= reliable_unsent'
      /\ reliable_unsent' <= reliable_offset + Len(c)
  BY <1>1, <1>5, <1>6 DEF MaxOf, IInv, OffsetsOrdered, TypeOK
<1>8. /\ UNCHANGED <<c, reliable_offset, bad_ack, client_offset, received,
                     to_server, written>>
      /\ to_client' = to_client \cup burst
      /\ sent_this_loop' \in BOOLEAN
      /\ acks' \in Nat
      /\ retransmit_in' \in NoTimer .. MaxRetransmit
      /\ n = 0 => retransmit_in' = retransmit_in
      /\ n > 0 => retransmit_in' # NoTimer
  BY <1>1, <1>2, <1>4, ConstantsAreSizes
     DEF SendReliable, client, TypeOK, NoTimer
<1>9. \A p \in burst : /\ p \in Packet
                       /\ p.rel + Len(p.data) <= reliable_unsent'
                       /\ Matches(p.data, written, p.rel)
  <2> SUFFICES ASSUME NEW j \in 0 .. n - 1
               PROVE  LET p == Segment(room, j)
                      IN  /\ p \in Packet
                          /\ p.rel + Len(p.data) <= reliable_unsent'
                          /\ Matches(p.data, written, p.rel)
    OBVIOUS
  <2> DEFINE p == Segment(room, j)
  <2>1. /\ p \in Packet
        /\ p.rel + Len(p.data) <= end
        /\ \E k \in Nat : /\ p.rel = reliable_offset + k
                          /\ k + Len(p.data) <= Len(c)
                          /\ \A i \in 1 .. Len(p.data) : p.data[i] = c[k + i]
    BY <1>1, <1>4, SegmentIsGenuine DEF end
  <2> HIDE DEF p
  <2>2. p.rel \in Nat /\ Len(p.data) \in Nat
    BY <2>1 DEF Packet
  <2>3. p.rel + Len(p.data) <= reliable_unsent'
    BY <1>5, <1>7, <2>1, <2>2
  <2>4. PICK k \in Nat : /\ p.rel = reliable_offset + k
                         /\ k + Len(p.data) <= Len(c)
                         /\ \A i \in 1 .. Len(p.data) : p.data[i] = c[k + i]
    BY <2>1
  <2>5. \A i \in 1 .. Len(p.data) : c[k + i] = written[reliable_offset + (k + i)]
    BY <2>2, <2>4, <1>1 DEF IInv, Matches, TypeOK
  <2>6. Matches(p.data, written, p.rel)
    <3> SUFFICES ASSUME NEW i \in 1 .. Len(p.data)
                 PROVE  p.data[i] = written[p.rel + i]
      BY DEF Matches
    <3>1. p.rel + i = reliable_offset + (k + i)
      BY <2>2, <2>4, <1>1 DEF TypeOK
    <3>2. QED
      BY <2>4, <2>5, <3>1
  <2>7. QED
    BY <2>1, <2>3, <2>6 DEF p
<1> HIDE DEF burst
<1>10. TypeOK'
  BY <1>1, <1>7, <1>8, <1>9 DEF TypeOK
<1>11. (Lengths /\ OffsetsOrdered)'
  BY <1>1, <1>7, <1>8 DEF IInv, Lengths, OffsetsOrdered, TypeOK
<1>12. (Matches(c, written, reliable_offset) /\ Matches(received, written, 0))'
  BY <1>8 DEF IInv, Matches
<1>13. PacketsGenuine'
  <2>1. \A p \in to_client : p.rel \in Nat /\ Len(p.data) \in Nat
    BY <1>1 DEF TypeOK, Packet
  <2>2. \A p \in to_client : p.rel + Len(p.data) <= reliable_unsent'
    BY <1>1, <1>7, <2>1 DEF IInv, PacketsGenuine, TypeOK
  <2>3. QED
    BY <1>8, <1>9, <2>2 DEF IInv, PacketsGenuine, Matches
<1>14. (AcksGenuine /\ NoBadAck)'
  BY <1>8 DEF IInv, AcksGenuine, NoBadAck
<1>15. TimerGuardsOutstanding'
  <2>1. CASE n = 0
    BY <1>1, <1>5, <1>6, <1>8, <2>1
       DEF IInv, TimerGuardsOutstanding, MaxOf, OffsetsOrdered, TypeOK
  <2>2. CASE n > 0
    BY <1>1, <1>5, <1>7, <1>8, <2>2 DEF IInv, TimerGuardsOutstanding, TypeOK
  <2>3. QED
    BY <1>4, <2>1, <2>2
<1>16. QED
  BY <1>10, <1>11, <1>12, <1>13, <1>14, <1>15 DEF IInv

(* An acknowledgement names an offset the client has reached, so that what *)
(* is dropped from the buffer has arrived, and the rest is still in it.    *)
LEMMA ReceiveAckIInv ==
    ASSUME IInv, NEW rel \in to_server, ReceiveAck(rel)
    PROVE  IInv'
<1> DEFINE diff == rel - reliable_offset
<1>1. /\ TypeOK
      /\ rel \in Nat /\ reliable_offset \in Nat /\ client_offset \in Nat
      /\ reliable_unsent \in Nat /\ Len(c) \in Nat
      /\ client_offset <= reliable_unsent
      /\ reliable_unsent <= reliable_offset + Len(c)
  BY DEF IInv, TypeOK, OffsetsOrdered
<1>2. rel <= client_offset
  BY DEF IInv, AcksGenuine
<1>3. diff <= Len(c) /\ ~IsBadAck(rel)
  BY <1>1, <1>2 DEF IsBadAck
<1>4. UNCHANGED <<reliable_unsent, sent_this_loop, bad_ack, client_offset,
                  received, to_client, to_server, written>>
  <2>1. bad_ack' = bad_ack
    <3>1. bad_ack = FALSE
      BY <1>1 DEF IInv, NoBadAck, TypeOK
    <3>2. bad_ack' = IsBadAck(rel)
      BY DEF ReceiveAck
    <3>3. IsBadAck(rel) = FALSE
      BY <1>3 DEF IsBadAck
    <3>4. QED
      BY <3>1, <3>2, <3>3
  <2>2. QED
    BY <2>1 DEF ReceiveAck, client, network
<1>5. CASE ~IsNewAck(rel)
  <2>1. UNCHANGED <<c, reliable_offset, acks, retransmit_in>>
    BY <1>5 DEF ReceiveAck
  <2>2. QED
    BY <1>4, <2>1 DEF IInv, TypeOK, Lengths, OffsetsOrdered, Matches,
       PacketsGenuine, AcksGenuine, TimerGuardsOutstanding, NoBadAck, Packet
<1>6. CASE IsNewAck(rel)
  <2>1. diff \in Nat /\ diff > 0 /\ Len(c) \in Nat
    BY <1>1, <1>6 DEF IsNewAck, TypeOK
  <2>2. /\ c' = SubSeq(c, diff + 1, Len(c))
        /\ reliable_offset' = rel
        /\ acks' = AcksAfter(diff)
        /\ retransmit_in' = IF AllAcked(rel) THEN NoTimer ELSE retransmit_in
    BY <1>3, <1>6, <2>1 DEF ReceiveAck, Advance
  <2>3. /\ c' \in Seq(Byte)
        /\ Len(c') = Len(c) - diff
        /\ \A i \in 1 .. Len(c) - diff : c'[i] = c[diff + i]
    <3>1. /\ SubSeq(c, diff + 1, Len(c)) \in Seq(Byte)
          /\ Len(SubSeq(c, diff + 1, Len(c)))
                = IF diff <= Len(c) THEN Len(c) - diff ELSE 0
          /\ \A i \in 1 .. Len(c) - diff :
                SubSeq(c, diff + 1, Len(c))[i] = c[diff + i]
      <4> HIDE DEF diff
      <4>1. QED
        BY <1>1, <2>1, SubSeqFacts DEF TypeOK
    <3>2. QED
      BY <1>3, <2>1, <2>2, <3>1
  <2>4. acks' \in Nat
    <3>1. CeilDiv(diff, AckUnit) \in Nat
      BY <2>1, ConstantsAreSizes, CeilDivBounds
    <3>2. QED
      BY <1>1, <2>2, <3>1 DEF AcksAfter, TypeOK
  <2>5. TypeOK'
    <3>1. retransmit_in' \in NoTimer .. MaxRetransmit
      BY <1>1, <2>2, ConstantsAreSizes DEF TypeOK, NoTimer
    <3>2. c' \in Seq(Byte) /\ reliable_offset' \in Nat
      BY <1>1, <2>2, <2>3
    <3>3. QED
      BY <1>1, <1>4, <2>4, <3>1, <3>2 DEF TypeOK
  <2>6. (Lengths /\ OffsetsOrdered)'
    <3>1. Len(c') = Len(c) - diff /\ reliable_offset' = rel
      BY <2>2, <2>3
    <3>2. Lengths'
      BY <1>1, <1>4, <3>1 DEF IInv, Lengths
    <3>3. OffsetsOrdered'
      BY <1>1, <1>2, <1>4, <3>1 DEF OffsetsOrdered
    <3>4. QED
      BY <3>2, <3>3
  <2>7. Matches(c, written, reliable_offset)'
    <3> SUFFICES ASSUME NEW i \in 1 .. Len(c')
                 PROVE  c'[i] = written[rel + i]
      BY <1>4, <2>2 DEF Matches
    <3>1. diff + i \in 1 .. Len(c) /\ c'[i] = c[diff + i]
      BY <1>3, <2>1, <2>3
    <3>2. rel + i = reliable_offset + (diff + i)
      BY <1>1 DEF TypeOK
    <3>3. QED
      BY <3>1, <3>2 DEF IInv, Matches
  <2>8. Matches(received, written, 0)' /\ PacketsGenuine'
    BY <1>4 DEF IInv, Matches, PacketsGenuine
  <2>9. AcksGenuine' /\ NoBadAck'
    BY <1>4 DEF IInv, AcksGenuine, NoBadAck
  <2>10. TimerGuardsOutstanding'
    BY <1>1, <1>4, <2>1, <2>2
       DEF IInv, TimerGuardsOutstanding, AllAcked, TypeOK
  <2>11. QED
    BY <2>5, <2>6, <2>7, <2>8, <2>9, <2>10 DEF IInv
<1>7. QED
  BY <1>5, <1>6

(* A packet that starts at or before the client's offset continues its     *)
(* stream with what is left of the packet; any other adds nothing.         *)
LEMMA ReceiveReliableIInv ==
    ASSUME IInv, NEW p \in to_client, ReceiveReliable(p)
    PROVE  /\ IInv'
           /\ client_offset <= client_offset'
           /\ \A i \in 1 .. Len(received) : received'[i] = received[i]
<1> DEFINE new == NewData(p)
<1>packet. p \in Packet /\ p.rel \in Nat /\ p.data \in Seq(Byte)
  BY DEF IInv, TypeOK, Packet
<1>bytes. \A i \in 1 .. Len(p.data) : p.data[i] = written[p.rel + i]
  BY DEF IInv, PacketsGenuine, Matches
<1>1. /\ TypeOK
      /\ p.rel \in Nat /\ Len(p.data) \in Nat
      /\ p.rel + Len(p.data) <= reliable_unsent
      /\ client_offset \in Nat /\ reliable_unsent \in Nat
      /\ client_offset <= reliable_unsent
  BY <1>packet DEF IInv, TypeOK, PacketsGenuine, OffsetsOrdered
<1>2. /\ new \in Seq(Byte)
      /\ client_offset + Len(new) <= reliable_unsent
      /\ \A i \in 1 .. Len(new) : new[i] = written[client_offset + i]
  <2>1. CASE p.rel > client_offset
    <3>1. new = <<>>
      BY <2>1 DEF NewData
    <3>2. new \in Seq(Byte) /\ Len(new) = 0
      BY <3>1
    <3>3. QED
      BY <1>1, <3>2 DEF IInv, OffsetsOrdered, TypeOK
  <2>2. CASE p.rel <= client_offset
    <3> DEFINE skip == client_offset - p.rel
    <3>1. skip \in Nat /\ ~(p.rel > client_offset)
      BY <1>1, <2>2
    <3>2. new = SubSeq(p.data, skip + 1, Len(p.data))
      BY <3>1 DEF NewData
    <3> HIDE DEF new
    <3>3. /\ new \in Seq(Byte)
          /\ Len(new) = IF skip <= Len(p.data) THEN Len(p.data) - skip ELSE 0
          /\ \A i \in 1 .. Len(p.data) - skip : new[i] = p.data[skip + i]
      <4> HIDE DEF skip
      <4> DEFINE d == p.data
      <4>1. d \in Seq(Byte) /\ Len(d) \in Nat
        BY <1>packet, <1>1
      <4> HIDE DEF d
      <4>2. /\ SubSeq(d, skip + 1, Len(d)) \in Seq(Byte)
            /\ Len(SubSeq(d, skip + 1, Len(d)))
                  = IF skip <= Len(d) THEN Len(d) - skip ELSE 0
            /\ \A i \in 1 .. Len(d) - skip :
                  SubSeq(d, skip + 1, Len(d))[i] = d[skip + i]
        BY <3>1, <4>1, SubSeqFacts
      <4>3. QED
        BY <3>2, <4>2 DEF d
    <3>4. client_offset + Len(new) <= reliable_unsent
      BY <1>1, <3>1, <3>3
    <3>5. ASSUME NEW i \in 1 .. Len(new)
          PROVE  new[i] = written[client_offset + i]
      <4>1. /\ i \in 1 .. Len(p.data) - skip
            /\ skip + i \in 1 .. Len(p.data)
        BY SMTT(30), <1>1, <3>1, <3>3
      <4>2. p.rel + (skip + i) = client_offset + i
        BY SMTT(30), <1>1, <4>1 DEF TypeOK
      <4>3. QED
        BY <1>bytes, <3>3, <4>1, <4>2
    <3>6. QED
      BY <3>3, <3>4, <3>5
  <2>3. QED
    BY <1>1, <2>1, <2>2 DEF TypeOK
<1>3. /\ received' = received \o new
      /\ client_offset' = client_offset + Len(new)
      /\ to_server' = to_server \cup {client_offset'}
      /\ UNCHANGED <<c, reliable_offset, reliable_unsent, acks, retransmit_in,
                     sent_this_loop, bad_ack, to_client, written>>
  BY DEF ReceiveReliable, server
<1> HIDE DEF new
<1>4. /\ received' \in Seq(Byte)
      /\ Len(received') = Len(received) + Len(new)
      /\ \A i \in 1 .. Len(received) : received'[i] = received[i]
      /\ \A i \in 1 .. Len(new) : received'[Len(received) + i] = new[i]
      /\ Len(new) \in Nat /\ Len(received) \in Nat
  BY <1>1, <1>2, <1>3 DEF TypeOK
<1>5. client_offset' \in Nat /\ client_offset <= client_offset'
  BY <1>1, <1>3, <1>4 DEF TypeOK
<1>6. TypeOK'
  BY <1>1, <1>3, <1>4, <1>5 DEF TypeOK, Packet
<1>7. (Lengths /\ OffsetsOrdered)'
  BY <1>1, <1>2, <1>3, <1>4, <1>5 DEF IInv, Lengths, OffsetsOrdered, TypeOK
<1>8. Matches(received, written, 0)'
  <2> SUFFICES ASSUME NEW i \in 1 .. Len(received')
               PROVE  received'[i] = written[0 + i]
    BY <1>3 DEF Matches
  <2>1. CASE i \in 1 .. Len(received)
    BY <1>4, <2>1 DEF IInv, Matches
  <2>2. CASE i > Len(received)
    <3>1. i - Len(received) \in 1 .. Len(new)
      BY <1>4, <2>2
    <3>2. received'[Len(received) + (i - Len(received))] = new[i - Len(received)]
      BY <1>4, <3>1
    <3>3. /\ client_offset + (i - Len(received)) = i
          /\ Len(received) + (i - Len(received)) = i
      BY <1>1, <1>4, <2>2 DEF IInv, Lengths, TypeOK
    <3>4. QED
      BY <1>2, <3>1, <3>2, <3>3
  <2>3. QED
    BY <1>4, <2>1, <2>2
<1>9. Matches(c, written, reliable_offset)' /\ PacketsGenuine'
  BY <1>3 DEF IInv, Matches, PacketsGenuine
<1>10. AcksGenuine'
  BY <1>1, <1>3, <1>5 DEF IInv, AcksGenuine, TypeOK
<1>11. TimerGuardsOutstanding' /\ NoBadAck'
  BY <1>3 DEF IInv, TimerGuardsOutstanding, NoBadAck
<1>12. QED
  BY <1>4, <1>5, <1>6, <1>7, <1>8, <1>9, <1>10, <1>11 DEF IInv

(* Losing packets keeps it.                                                *)
LEMMA LoseIInv ==
    ASSUME IInv,
           \/ \E p \in to_client : LosePacket(p)
           \/ \E rel \in to_server : LoseAck(rel)
    PROVE  IInv'
<1>1. /\ UNCHANGED <<c, reliable_offset, reliable_unsent, acks, retransmit_in,
                     sent_this_loop, bad_ack, client_offset, received, written>>
      /\ to_client' \subseteq to_client
      /\ to_server' \subseteq to_server
  BY DEF LosePacket, LoseAck, server, client
<1>2. QED
  BY <1>1 DEF IInv, TypeOK, Lengths, OffsetsOrdered, Matches, PacketsGenuine,
              AcksGenuine, TimerGuardsOutstanding, NoBadAck, Packet

(* A Send_reliable that returns before sending keeps it.                   *)
LEMMA SendNothingIInv ==
    ASSUME IInv, SendNothing
    PROVE  IInv'
BY DEF IInv, SendNothing, client, network, TypeOK, Lengths, OffsetsOrdered,
       Matches, PacketsGenuine, AcksGenuine, TimerGuardsOutstanding, NoBadAck,
       Packet

(* Every step keeps it.                                                    *)
LEMMA NextIInv ==
    ASSUME IInv, [Next]_vars
    PROVE  IInv'
<1>1. CASE UNCHANGED vars
  BY <1>1 DEF vars, server, client, network, IInv, TypeOK, Lengths,
              OffsetsOrdered, Matches, PacketsGenuine, AcksGenuine,
              TimerGuardsOutstanding, NoBadAck, Packet
<1>2. CASE \E data \in Chunks : Write(data)
  BY <1>2, WriteIInv
<1>3. CASE Tick
  BY <1>3, TickIInv
<1>4. CASE SendReliableSome
  <2>1. \A room \in Rooms : room \in 1 .. MaxPacket
    BY ConstantsAreSizes DEF Rooms
  <2>2. PICK room \in Rooms, n \in Nat : SendReliable(room, n)
    BY <1>4 DEF SendReliableSome
  <2>3. QED
    BY <2>1, <2>2, SendReliableIInv
<1>5. CASE SendNothing
  BY <1>5, SendNothingIInv
<1>6. CASE \E rel \in to_server : ReceiveAck(rel)
  BY <1>6, ReceiveAckIInv
<1>7. CASE \E p \in to_client : ReceiveReliable(p)
  BY <1>7, ReceiveReliableIInv
<1>8. CASE \/ \E p \in to_client : LosePacket(p)
           \/ \E rel \in to_server : LoseAck(rel)
  BY <1>8, LoseIInv
<1>9. QED
  BY <1>1, <1>2, <1>3, <1>4, <1>5, <1>6, <1>7, <1>8 DEF Next

(* Of every server, client and network that loses, repeats and reorders:   *)
(* what is buffered, in flight and received always fits together, the      *)
(* inductive invariant that all the theorems below follow from.            *)
THEOREM Inductive == Spec => []IInv
<1>1. Init => IInv
  BY InitIInv
<1>2. IInv /\ [Next]_vars => IInv'
  BY NextIInv
<1>3. QED
  BY <1>1, <1>2, PTL DEF Spec

-----------------------------------------------------------------------------
(* What follows from it.                                                   *)

(* The safety properties are parts of the invariant.                       *)
LEMMA IInvFacts ==
    ASSUME IInv
    PROVE  /\ TypeOK
           /\ InOrder
           /\ BufferIsUnacked
           /\ OffsetsOrdered
           /\ NoBadAck
           /\ TimerGuardsOutstanding
<1>1. /\ TypeOK /\ Lengths /\ OffsetsOrdered
      /\ Len(c) \in Nat /\ Len(received) \in Nat
  BY DEF IInv, TypeOK
<1>2. InOrder
  <2>1. received = SubSeq(written, 0 + 1, 0 + Len(received))
    <3>1. 0 + Len(received) <= Len(written)
      BY <1>1 DEF Lengths, OffsetsOrdered, TypeOK
    <3>2. QED
      BY <1>1, <3>1, MatchesSubSeq DEF IInv, TypeOK
  <2>2. QED
    BY <1>1, <2>1 DEF InOrder, Lengths
<1>3. BufferIsUnacked
  <2>1. c = SubSeq(written, reliable_offset + 1, reliable_offset + Len(c))
    <3>1. reliable_offset + Len(c) <= Len(written)
      BY <1>1 DEF Lengths, TypeOK
    <3>2. QED
      BY <1>1, <3>1, MatchesSubSeq DEF IInv, TypeOK
  <2>2. QED
    BY <1>1, <2>1 DEF BufferIsUnacked, Lengths
<1>4. QED
  BY <1>1, <1>2, <1>3 DEF IInv

(* Every variable keeps its type. *)
THEOREM TypeCorrect == Spec => []TypeOK
BY Inductive, IInvFacts, PTL

(* The client's copy is a prefix of the stream: Receive_reliable neither   *)
(* skips, repeats nor reorders a byte, on any network.                     *)
THEOREM DeliveredInOrder == Spec => []InOrder
BY Inductive, IInvFacts, PTL

(* Sockbuf_advance and reliable_offset stay in step, so that every         *)
(* retransmission starts at the right byte.                                *)
THEOREM BufferExact == Spec => []BufferIsUnacked
BY Inductive, IInvFacts, PTL

(* Receive_ack never throws away a byte the client does not have.          *)
THEOREM NothingDroppedEarly == Spec => []OffsetsOrdered
BY Inductive, IInvFacts, PTL

(* A client that runs Receive_reliable is never thrown out by Receive_ack. *)
THEOREM NeverBadAck == Spec => []NoBadAck
BY Inductive, IInvFacts, PTL

(* Nothing outstanding is without a timer. *)
THEOREM OutstandingIsTimed == Spec => []TimerGuardsOutstanding
BY Inductive, IInvFacts, PTL

(* Neither side's stream position goes back. *)
THEOREM PositionsAdvance == Spec => OffsetsAdvance
<1> DEFINE Advances == /\ client_offset' >= client_offset
                       /\ reliable_offset' >= reliable_offset
                       /\ reliable_unsent' >= reliable_unsent
<1>1. ASSUME IInv, [Next]_vars
      PROVE  [Advances]_vars
  <2>1. /\ client_offset \in Nat /\ reliable_offset \in Nat
        /\ reliable_unsent \in Nat
    BY <1>1 DEF IInv, TypeOK
  <2>2. CASE SendReliableSome
    <3>0. PICK room \in Rooms : \E m \in 0 .. FullBurst(room) : SendReliable(room, m)
      BY <2>2 DEF SendReliableSome
    <3>1. PICK n \in Nat : SendReliable(room, n)
      BY <3>0
    <3>5. room \in 1 .. MaxPacket
      BY ConstantsAreSizes DEF Rooms
    <3>2. /\ reliable_unsent' \in Nat
          /\ reliable_unsent' = MaxOf(reliable_unsent, BurstEnd(room, n))
          /\ UNCHANGED <<client_offset, reliable_offset>>
      BY <1>1, <3>1, <3>5, SendReliableIInv DEF SendReliable, client, IInv, TypeOK
    <3>3. reliable_unsent' >= reliable_unsent
      BY <2>1, <3>2 DEF MaxOf
    <3>4. QED
      BY <2>1, <3>2, <3>3
  <2>3. ASSUME NEW rel \in to_server, ReceiveAck(rel)
        PROVE  Advances
    <3>1. rel \in Nat
      BY <1>1 DEF IInv, TypeOK
    <3>2. reliable_offset' = rel \/ reliable_offset' = reliable_offset
      BY <2>3 DEF ReceiveAck
    <3>3. reliable_offset' >= reliable_offset
      BY <2>1, <2>3, <3>1 DEF ReceiveAck, IsNewAck
    <3>4. QED
      BY <2>1, <2>3, <3>3 DEF ReceiveAck, client
  <2>4. CASE \E p \in to_client : ReceiveReliable(p)
    <3>1. PICK p \in to_client : ReceiveReliable(p)
      BY <2>4
    <3>2. client_offset <= client_offset'
      BY <1>1, <3>1, ReceiveReliableIInv
    <3>3. client_offset' \in Nat
      BY <1>1, <3>1, ReceiveReliableIInv DEF IInv, TypeOK
    <3>4. QED
      BY <2>1, <3>1, <3>2, <3>3 DEF ReceiveReliable, server
  <2>5. CASE \/ \E data \in Chunks : Write(data)
             \/ Tick \/ SendNothing
             \/ \E p \in to_client : LosePacket(p)
             \/ \E rel \in to_server : LoseAck(rel)
    <3>1. UNCHANGED <<client_offset, reliable_offset, reliable_unsent>>
      BY <2>5 DEF Write, Tick, SendNothing, LosePacket, LoseAck, client, server
    <3>2. QED
      BY <2>1, <3>1
  <2>6. QED
    BY <1>1, <2>2, <2>3, <2>4, <2>5 DEF Next
<1>2. QED
  BY <1>1, Inductive, PTL DEF Spec, OffsetsAdvance

-----------------------------------------------------------------------------
(* Refinement: a Write is ByteStream's Write, the arrival of a packet with *)
(* new data is a Deliver, and every other step is a stutter.               *)

(* A step of the protocol is a step of the byte stream or leaves it alone. *)
LEMMA StepRefines ==
    ASSUME IInv, IInv', [Next]_vars
    PROVE  [Abstract!Next]_(Abstract!vars)
<1> USE DEF Abstract!vars
<1>1. /\ written \in Seq(Byte) /\ received \in Seq(Byte) /\ received' \in Seq(Byte)
      /\ Len(written) \in Nat /\ Len(received) \in Nat /\ Len(received') \in Nat
  BY DEF IInv, TypeOK
<1>2. CASE \E data \in Chunks : Write(data)
  <2>1. PICK data \in Chunks : Write(data)
    BY <1>2
  <2>2. /\ written' = written \o data
        /\ received' = received
        /\ data \in Seq(Byte) /\ data # <<>>
    BY <2>1, ChunksAreBytes DEF Write, client
  <2>3. /\ written' \in Seq(Byte)
        /\ Len(written') > Len(written)
        /\ \A i \in 1 .. Len(written) : written'[i] = written[i]
    BY <1>1, <2>2
  <2>4. Matches(written, written', 0)
    BY <2>3 DEF Matches
  <2>5. written = SubSeq(written', 0 + 1, 0 + Len(written))
    BY <1>1, <2>3, <2>4, MatchesSubSeq
  <2>6. Abstract!Write
    BY <1>1, <2>2, <2>3, <2>5 DEF Abstract!Write
  <2>7. QED
    BY <2>6 DEF Abstract!Next
<1>3. CASE \E p \in to_client : ReceiveReliable(p)
  <2>1. PICK p \in to_client : ReceiveReliable(p)
    BY <1>3
  <2>2. /\ client_offset <= client_offset'
        /\ \A i \in 1 .. Len(received) : received'[i] = received[i]
    BY <2>1, ReceiveReliableIInv
  <2>3. written' = written
    BY <2>1 DEF ReceiveReliable
  <2>4. /\ Len(received) = client_offset
        /\ Len(received') = client_offset'
        /\ received' = SubSeq(written, 1, Len(received'))
        /\ Len(received') <= Len(written)
    <3>1. /\ received' \in Seq(Byte) /\ written' \in Seq(Byte)
          /\ Len(received') = client_offset'
          /\ Matches(received', written', 0)
      BY DEF IInv, TypeOK, Lengths
    <3>2. 0 + Len(received') <= Len(written')
      <4>1. /\ Len(written') = reliable_offset' + Len(c')
            /\ client_offset' <= reliable_unsent'
            /\ reliable_unsent' <= reliable_offset' + Len(c')
        BY DEF IInv, Lengths, OffsetsOrdered
      <4>2. /\ client_offset' \in Nat /\ reliable_unsent' \in Nat
            /\ reliable_offset' \in Nat /\ Len(c') \in Nat
        BY DEF IInv, TypeOK
      <4>3. QED
        BY <3>1, <4>1, <4>2
    <3>3. received' = SubSeq(written', 0 + 1, 0 + Len(received'))
      BY <3>1, <3>2, MatchesSubSeq
    <3>4. Len(received) = client_offset
      BY DEF IInv, Lengths
    <3>5. QED
      BY <1>1, <2>3, <3>1, <3>2, <3>3, <3>4
  <2>5. CASE client_offset' = client_offset
    <3>1. received' = received
      BY <1>1, <2>2, <2>4, <2>5, SeqEqual
    <3>2. QED
      BY <2>3, <3>1
  <2>6. CASE client_offset' > client_offset
    <3>1. Len(received') \in Len(received) + 1 .. Len(written)
      BY <1>1, <2>4, <2>6
    <3>2. Abstract!Deliver(Len(received'))
      BY <2>3, <2>4 DEF Abstract!Deliver
    <3>3. QED
      BY <3>1, <3>2 DEF Abstract!Next, Abstract!DeliverSome
  <2>7. QED
    BY <1>1, <2>2, <2>4, <2>5, <2>6
<1>4. CASE \/ Tick \/ SendReliableSome \/ SendNothing
           \/ \E rel \in to_server : ReceiveAck(rel)
           \/ \E p \in to_client : LosePacket(p)
           \/ \E rel \in to_server : LoseAck(rel)
           \/ UNCHANGED vars
  BY <1>4 DEF Tick, SendReliableSome, SendReliable, SendNothing, ReceiveAck,
              LosePacket, LoseAck, client, server, vars
<1>5. QED
  BY <1>2, <1>3, <1>4 DEF Next

(* The retransmission protocol implements the byte stream. *)
THEOREM Refinement == Spec => RefinesByteStream
<1>1. Init => Abstract!Init
  BY DEF Init, Abstract!Init
<1>2. IInv /\ IInv' /\ [Next]_vars => [Abstract!Next]_(Abstract!vars)
  BY StepRefines
<1>3. QED
  BY <1>1, <1>2, Inductive, PTL DEF Spec, RefinesByteStream, Abstract!Spec
=============================================================================
