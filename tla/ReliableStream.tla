--------------------------- MODULE ReliableStream ---------------------------
(***************************************************************************)
(* The reliable data stream of one game connection: the server's           *)
(* retransmission code (Send_reliable and Receive_ack in                   *)
(* server/netserver.c), the client's Receive_reliable and Send_ack         *)
(* (client/netclient.c), and the UDP between them, which loses, reorders   *)
(* and duplicates datagrams.                                               *)
(*                                                                         *)
(* The server keeps every byte the client has not acknowledged in the      *)
(* buffer c, whose first byte is byte number reliable_offset of the        *)
(* stream.  reliable_unsent is the highest byte number sent so far.  A     *)
(* burst always starts again at reliable_offset.  The client takes only    *)
(* data that continues what it has, and answers every datagram with its    *)
(* own offset.                                                             *)
(*                                                                         *)
(* main_loops, the server's clock, is not a variable: retransmit_in is     *)
(* retransmit_at_loop - main_loops, and sent_this_loop is                  *)
(* last_send_loops = main_loops.  The interval the round trip estimator    *)
(* chooses is any value up to MAX_RETRANSMIT.                              *)
(***************************************************************************)
EXTENDS Integers, Sequences

CONSTANTS
    Byte,           \* the bytes the server writes
    Chunks,         \* what one Packet_printf or Sockbuf_write puts into c
    BufSize,        \* c.size: MAX_SOCKBUF_SIZE
    MaxPacket,      \* MAX_RELIABLE_DATA_PACKET_SIZE
    MinSendSize,    \* min_send_size: 1
    AckUnit,        \* 512: acknowledged bytes that earn one more packet
    MaxRetransmit,  \* MAX_RETRANSMIT
    MaxStream       \* bound: bytes written over the life of the connection

ASSUME ChunksAreBytes == Chunks \subseteq Seq(Byte) \ {<<>>}

ASSUME ConstantsAreSizes ==
    /\ BufSize \in Nat
    /\ MaxPacket \in Nat \ {0}
    /\ MinSendSize \in Nat
    /\ AckUnit \in Nat \ {0}
    /\ MaxRetransmit \in Nat
    /\ MaxStream \in Nat

VARIABLES
    (* server: connection_t *)
    c,                  \* reliable data the client has not acknowledged
    reliable_offset,    \* number of bytes acknowledged
    reliable_unsent,    \* number of the first byte never sent
    acks,               \* a burst is at most acks + 1 packets
    retransmit_in,      \* loops until the timer fires, or NoTimer
    sent_this_loop,     \* Send_reliable has already run in this main loop
    bad_ack,            \* Receive_ack destroyed the connection
    (* client *)
    client_offset,      \* netclient.c's reliable_offset
    received,           \* every byte Receive_reliable has put into cbuf
    (* the network, and history *)
    to_client,          \* PKT_RELIABLE datagrams that may still arrive
    to_server,          \* offsets in PKT_ACK datagrams that may still arrive
    written             \* every byte the server has put into c

server == <<c, reliable_offset, reliable_unsent, acks, retransmit_in,
            sent_this_loop, bad_ack>>
client == <<client_offset, received>>
network == <<to_client, to_server>>
vars == <<server, client, network, written>>

NoTimer == -1       \* retransmit_at_loop = 0

MinOf(a, b) == IF a <= b THEN a ELSE b
MaxOf(a, b) == IF a >= b THEN a ELSE b
CeilDiv(a, b) == (a + b - 1) \div b

Packet == [rel : Nat, data : Seq(Byte)]

TypeOK ==
    /\ c \in Seq(Byte)
    /\ reliable_offset \in Nat
    /\ reliable_unsent \in Nat
    /\ acks \in Nat
    /\ retransmit_in \in NoTimer .. MaxRetransmit
    /\ sent_this_loop \in BOOLEAN
    /\ bad_ack \in BOOLEAN
    /\ client_offset \in Nat
    /\ received \in Seq(Byte)
    /\ to_client \subseteq Packet
    /\ to_server \subseteq Nat
    /\ written \in Seq(Byte)

Init ==
    /\ c = <<>>
    /\ reliable_offset = 0
    /\ reliable_unsent = 0
    /\ acks = 0
    /\ retransmit_in = NoTimer
    /\ sent_this_loop = FALSE
    /\ bad_ack = FALSE
    /\ client_offset = 0
    /\ received = <<>>
    /\ to_client = {}
    /\ to_server = {}
    /\ written = <<>>

-----------------------------------------------------------------------------
(* The server's side.                                                      *)

(* Packet_printf or Sockbuf_write on c: a packet that does not fit is not  *)
(* written at all, a step that changes nothing.                            *)
Write(data) ==
    /\ ~bad_ack
    /\ Len(c) + Len(data) <= BufSize
    /\ Len(written) + Len(data) <= MaxStream
    /\ c' = c \o data
    /\ written' = written \o data
    /\ UNCHANGED <<reliable_offset, reliable_unsent, acks, retransmit_in,
                   sent_this_loop, bad_ack, client, network>>

(* What is left of the timer one main loop later. *)
Countdown == IF retransmit_in > 0 THEN retransmit_in - 1 ELSE retransmit_in

(* A new main loop: main_loops++. *)
Tick ==
    /\ ~bad_ack
    /\ sent_this_loop' = FALSE
    /\ retransmit_in' = Countdown
    /\ UNCHANGED <<c, reliable_offset, reliable_unsent, acks, bad_ack,
                   client, network, written>>

(* room is the space for reliable data in the datagram: all of it when the *)
(* output buffer w is empty, less when a frame update is already in w.     *)
Piggyback(room) == room < MaxPacket

MaxTodo(room) == IF Piggyback(room) THEN MinOf(Len(c), room) ELSE Len(c)

(* Bug: a fired timer is taken for a running one. *)
WorthSendingNoTimeout(room) ==
    \/ retransmit_in = NoTimer
    \/ /\ Piggyback(room)
       /\ MaxTodo(room) > reliable_unsent - reliable_offset + MinSendSize

(* Until the timer fires only bytes that were never sent are worth a       *)
(* transmission, and only in a datagram that goes out anyway.              *)
WorthSending(room) ==
    \/ retransmit_in <= 0
    \/ /\ Piggyback(room)
       /\ MaxTodo(room) > reliable_unsent - reliable_offset + MinSendSize

(* The timer has fired: the window is halved. *)
Window == IF retransmit_in = 0 THEN acks \div 2 ELSE acks

FullBurst(room) ==
    MinOf(Window + 1, CeilDiv(MaxTodo(room), MaxPacket))

(* The j-th packet of a burst. *)
Segment(room, j) ==
    [rel  |-> reliable_offset + j * MaxPacket,
     data |-> SubSeq(c, j * MaxPacket + 1,
                        MinOf((j + 1) * MaxPacket, MaxTodo(room)))]

(* rel_off after n packets. *)
BurstEnd(room, n) == reliable_offset + MinOf(n * MaxPacket, MaxTodo(room))

(* Send_reliable gets n packets out before the socket would block. *)
SendReliable(room, n) ==
    /\ ~bad_ack
    /\ c # <<>>
    /\ ~sent_this_loop
    /\ WorthSending(room)
    /\ n <= FullBurst(room)
    /\ to_client' = to_client \cup {Segment(room, j) : j \in 0 .. n - 1}
    /\ acks' = IF n < FullBurst(room) THEN 0 ELSE Window
    /\ sent_this_loop' = TRUE
    /\ reliable_unsent' = MaxOf(reliable_unsent, BurstEnd(room, n))
    /\ IF n = 0 THEN UNCHANGED retransmit_in
                ELSE retransmit_in' \in 0 .. MaxRetransmit
    /\ UNCHANGED <<c, reliable_offset, bad_ack, client, to_server, written>>

(* With nothing to send Send_reliable still uses up this loop's turn. *)
SendNothing ==
    /\ ~bad_ack
    /\ c = <<>>
    /\ sent_this_loop' = TRUE
    /\ UNCHANGED <<c, reliable_offset, reliable_unsent, acks, retransmit_in,
                   bad_ack, client, network, written>>

Rooms == MinSendSize + 1 .. MaxPacket

SendReliableSome ==
    \E room \in Rooms : \E n \in 0 .. FullBurst(room) : SendReliable(room, n)

(* Bug: one byte too few is forgotten. *)
AdvanceShort(buf, n) == SubSeq(buf, n, Len(buf))

(* Sockbuf_advance: forget the first n bytes. *)
Advance(buf, n) == IF n <= 0 THEN buf ELSE SubSeq(buf, n + 1, Len(buf))

(* Bug: an acknowledgement of everything is refused. *)
IsBadAckOffByOne(rel) == rel - reliable_offset >= Len(c)

IsBadAck(rel) == rel - reliable_offset > Len(c)

IsNewAck(rel) == rel > reliable_offset

(* Bug: the acknowledgement of the last byte sent does not count. *)
AllAckedStrict(rel) == rel > reliable_unsent

AllAcked(rel) == rel >= reliable_unsent

(* The congestion window after an acknowledgement of diff more bytes. *)
AcksAfter(diff) ==
    IF CeilDiv(diff, AckUnit) > acks THEN CeilDiv(diff, AckUnit)
                                     ELSE acks + 1

(* Receive_ack.  An acknowledgement of bytes the server does not have      *)
(* destroys the connection; a late one is discarded.                       *)
ReceiveAck(rel) ==
    /\ ~bad_ack
    /\ rel \in to_server
    /\ bad_ack' = IsBadAck(rel)
    /\ IF ~IsBadAck(rel) /\ IsNewAck(rel)
       THEN /\ c' = Advance(c, rel - reliable_offset)
            /\ reliable_offset' = rel
            /\ acks' = AcksAfter(rel - reliable_offset)
            /\ retransmit_in' = IF AllAcked(rel) THEN NoTimer ELSE retransmit_in
       ELSE UNCHANGED <<c, reliable_offset, acks, retransmit_in>>
    /\ UNCHANGED <<reliable_unsent, sent_this_loop, client, network, written>>

-----------------------------------------------------------------------------
(* The client's side.                                                      *)

(* Bug: a packet that overlaps what the client has is taken whole. *)
NewDataUntrimmed(p) ==
    IF p.rel > client_offset \/ p.rel + Len(p.data) <= client_offset
    THEN <<>> ELSE p.data

(* What of p continues the client's stream: nothing when bytes before p    *)
(* are missing or when all of p is old.                                    *)
NewData(p) ==
    IF p.rel > client_offset THEN <<>>
    ELSE SubSeq(p.data, client_offset - p.rel + 1, Len(p.data))

(* Receive_reliable, with the Send_ack that ends each of its branches. *)
ReceiveReliable(p) ==
    /\ p \in to_client
    /\ received' = received \o NewData(p)
    /\ client_offset' = client_offset + Len(NewData(p))
    /\ to_server' = to_server \cup {client_offset'}
    /\ UNCHANGED <<server, to_client, written>>

(* A datagram is not consumed by its arrival, so that it can arrive again; *)
(* these steps lose it.                                                    *)
LosePacket(p) ==
    /\ p \in to_client
    /\ to_client' = to_client \ {p}
    /\ UNCHANGED <<server, client, to_server, written>>

LoseAck(rel) ==
    /\ rel \in to_server
    /\ to_server' = to_server \ {rel}
    /\ UNCHANGED <<server, client, to_client, written>>

Next ==
    \/ \E data \in Chunks : Write(data)
    \/ Tick
    \/ SendReliableSome
    \/ SendNothing
    \/ \E rel \in to_server : ReceiveAck(rel)
    \/ \E p \in to_client : ReceiveReliable(p)
    \/ \E p \in to_client : LosePacket(p)
    \/ \E rel \in to_server : LoseAck(rel)

Spec == Init /\ [][Next]_vars

-----------------------------------------------------------------------------
(* Fairness: the server's main loop runs Tick and, in it, Send_reliable,   *)
(* again and again with some room for it: all of a datagram while the      *)
(* player logs in, and what Send_end_of_frame leaves beside a frame, maybe *)
(* as little as MinSendSize + 1 bytes, while he plays (frames that always  *)
(* fill theirs would starve the stream).  The socket does not block for    *)
(* ever, and the network is fair-lossy, a datagram that is sent again and  *)
(* again arrives.                                                          *)
Fairness ==
    /\ WF_vars(Tick)
    /\ SF_vars(\E room \in Rooms :
                   \E n \in 1 .. FullBurst(room) : SendReliable(room, n))
    /\ SF_vars(\E p \in to_client : NewData(p) # <<>> /\ ReceiveReliable(p))
    /\ SF_vars(\E p \in to_client : NewData(p) = <<>> /\ ReceiveReliable(p))
    /\ SF_vars(\E rel \in to_server : rel > reliable_offset /\ ReceiveAck(rel))

FairSpec == Spec /\ Fairness

-----------------------------------------------------------------------------
(* Properties.                                                             *)

(* The client has received exactly a prefix of what the server has         *)
(* written: Receive_reliable neither skips, repeats nor reorders a byte.   *)
InOrder == received = SubSeq(written, 1, client_offset)

(* The server's buffer is exactly the part of the stream that is not       *)
(* acknowledged, so that every retransmission starts at the right byte:    *)
(* Sockbuf_advance and reliable_offset stay in step.                       *)
BufferIsUnacked ==
    c = SubSeq(written, reliable_offset + 1, Len(written))

(* Receive_ack never throws away a byte the client does not have, and the  *)
(* client is never ahead of what was sent, nor the sent mark of the data.  *)
OffsetsOrdered ==
    /\ reliable_offset <= client_offset
    /\ client_offset <= reliable_unsent
    /\ reliable_unsent <= reliable_offset + Len(c)

(* "Impossible to ack data that has not been send": the connection is      *)
(* never destroyed for a bad acknowledgement, however late or often the    *)
(* network delivers one.                                                   *)
NoBadAck == ~bad_ack

(* The retransmission timer runs exactly while something that was sent is  *)
(* not acknowledged: nothing outstanding can be forgotten.                 *)
TimerGuardsOutstanding ==
    (retransmit_in # NoTimer) <=> (reliable_unsent > reliable_offset)

(* Neither side's idea of the stream position ever goes back.              *)
OffsetsAdvance ==
    [][/\ client_offset' >= client_offset
       /\ reliable_offset' >= reliable_offset
       /\ reliable_unsent' >= reliable_unsent]_vars

Abstract == INSTANCE ByteStream WITH sent <- written, got <- received

(* The protocol implements ByteStream: seen from its two ends it is a      *)
(* stream that only ever appends and only ever hands over the next bytes.  *)
RefinesByteStream == Abstract!Spec

(* Under FairSpec: again and again everything written so far has been      *)
(* acknowledged, so that every byte is handed over, whatever is lost and   *)
(* however little room the frames leave, and the server's drain states     *)
(* come to their end.                                                      *)
EverythingAcked == []<>(reliable_offset = Len(written))
=============================================================================
