-------------------------- MODULE Connection_proofs --------------------------
(***************************************************************************)
(* Proofs that client and server stay in step while a player logs in, for  *)
(* every size of the map and of the buffers and packets.                   *)
(*                                                                         *)
(* That the stream underneath loses and repeats nothing is proved in       *)
(* ReliableStream_proofs: every step of the connection is a step of the    *)
(* stream or leaves it alone, so that its invariant holds here.  On top of *)
(* it, what the server writes follows one script whatever it receives, so  *)
(* that how much has been written tells its state, and how much has been   *)
(* consumed the client's; the two are tied together by the requests under  *)
(* way, which a client sends only when it has got that far.                *)
(***************************************************************************)
EXTENDS Connection, FiniteSetTheorems, TLAPS

Proofs == INSTANCE ReliableStream_proofs WITH Byte <- Unit, Chunks <- Writes

(* The i-th unit that a server writes. *)
UnitAt(i) ==
    IF i = 1 THEN VerifyReply
    ELSE IF i <= MapSize + 1 THEN MapData
    ELSE IF i = MapSize + 2 THEN PlayReply ELSE Message

(* The phase of a client that has consumed n units. *)
PhaseAt(n) ==
    IF n = 0 THEN "verify"
    ELSE IF n <= MapSize THEN "setup"
    ELSE IF n = MapSize + 1 THEN "start" ELSE "playing"

Shapes ==
    /\ state \in States /\ drain_state \in States
    /\ setup \in 0 .. MapSize
    /\ pc \in {"select", "confirm", "setup", "send"}
    /\ phase \in Phases
    /\ consumed \in 0 .. Len(received)
    /\ requests \subseteq {"VERIFY", "PLAY", "QUIT"}
    /\ quit_sent \in BOOLEAN /\ frame_sent \in BOOLEAN

FollowsScript == \A i \in 1 .. Len(written) : written[i] = UnitAt(i)

(* How much of the script is written in each state. *)
Progress ==
    /\ state = "LISTENING" =>
          setup = 0 /\ Len(written) = IF pc = "confirm" THEN 1 ELSE 0
    /\ state = "DRAIN" =>
          \/ drain_state = "SETUP" /\ setup = 0 /\ Len(written) = 1
          \/ /\ drain_state = "LOGIN" /\ setup = MapSize /\ Len(written) = MapSize + 1
             /\ Len(received) >= 1
    /\ state = "SETUP" => setup < MapSize /\ Len(written) = setup + 1
    /\ state = "LOGIN" => setup = MapSize /\ Len(written) = MapSize + 1
    /\ state \in {"READY", "PLAYING"} => Len(written) > MapSize + 2
    /\ state = "READY" => drain_state = "PLAYING"
    /\ pc = "confirm" => state = "LISTENING"
    /\ pc = "setup" => state = "SETUP"

(* How far the client is, and what tells others so. *)
ClientProgress ==
    /\ phase \in {"dead", PhaseAt(consumed)}
    /\ "PLAY" \in requests => consumed > MapSize
    /\ frame_sent => consumed > MapSize
    /\ state \in {"READY", "PLAYING"} => consumed > MapSize
    /\ state \in {"SETUP", "LOGIN", "READY", "PLAYING"} => Len(received) >= 1

(* The inductive invariant. *)
IInv == Proofs!IInv /\ Shapes /\ FollowsScript /\ Progress /\ ClientProgress

-----------------------------------------------------------------------------
(* The stream.                                                             *)

LEMMA WritesAreUnits == Writes \subseteq Seq(Unit) \ {<<>>}
<1>1. ASSUME NEW n \in 1 .. SetupWindow
      PROVE  MapChunk(n) \in Seq(Unit) \ {<<>>}
  <2>1. n \in Nat /\ n >= 1
    BY SetupSizes
  <2>2. MapChunk(n) \in [1 .. n -> Unit] /\ 1 \in DOMAIN MapChunk(n)
    BY <2>1 DEF MapChunk, Unit
  <2>3. QED
    BY <2>1, <2>2
<1>2. <<VerifyReply>> \in Seq(Unit) /\ LoginChunk \in Seq(Unit) /\ <<Message>> \in Seq(Unit)
  BY DEF LoginChunk, Unit
<1>3. <<VerifyReply>> # <<>> /\ LoginChunk # <<>> /\ <<Message>> # <<>>
  BY DEF LoginChunk
<1>4. QED
  BY <1>1, <1>2, <1>3 DEF Writes

LEMMA WriteKeeps ==
    ASSUME Proofs!IInv, NEW d \in Writes, Stream!Write(d)
    PROVE  Proofs!IInv'
<1>1. Proofs!Write(d)
  BY DEF Stream!Write, Proofs!Write, Stream!client, Proofs!client,
         Stream!network, Proofs!network
<1>2. QED
  BY <1>1, WritesAreUnits, StreamSizes, Proofs!WriteIInv

LEMMA TickKeeps ==
    ASSUME Proofs!IInv, Stream!Tick
    PROVE  Proofs!IInv'
<1>1. Proofs!Tick
  BY DEF Stream!Tick, Proofs!Tick, Stream!client, Proofs!client,
         Stream!network, Proofs!network, Stream!Countdown, Proofs!Countdown
<1>2. QED
  BY <1>1, WritesAreUnits, StreamSizes, Proofs!TickIInv

LEMMA SendKeeps ==
    ASSUME Proofs!IInv, NEW room \in 1 .. MaxPacket, NEW n \in Nat,
           Stream!SendReliable(room, n)
    PROVE  Proofs!IInv'
<1>1. Proofs!SendReliable(room, n)
  BY DEF Stream!SendReliable, Proofs!SendReliable, Stream!client, Proofs!client,
         Stream!WorthSending, Proofs!WorthSending, Stream!Piggyback, Proofs!Piggyback,
         Stream!MaxTodo, Proofs!MaxTodo, Stream!MinOf, Proofs!MinOf,
         Stream!MaxOf, Proofs!MaxOf, Stream!FullBurst, Proofs!FullBurst,
         Stream!Window, Proofs!Window, Stream!CeilDiv, Proofs!CeilDiv,
         Stream!Segment, Proofs!Segment, Stream!BurstEnd, Proofs!BurstEnd
<1>2. QED
  BY <1>1, WritesAreUnits, StreamSizes, Proofs!SendReliableIInv

LEMMA SendNothingKeeps ==
    ASSUME Proofs!IInv, Stream!SendNothing
    PROVE  Proofs!IInv'
<1>1. Proofs!SendNothing
  BY DEF Stream!SendNothing, Proofs!SendNothing, Stream!client, Proofs!client,
         Stream!network, Proofs!network
<1>2. QED
  BY <1>1, WritesAreUnits, StreamSizes, Proofs!SendNothingIInv

LEMMA AckKeeps ==
    ASSUME Proofs!IInv, NEW rel \in to_server, Stream!ReceiveAck(rel)
    PROVE  Proofs!IInv'
<1>1. Proofs!ReceiveAck(rel)
  BY DEF Stream!ReceiveAck, Proofs!ReceiveAck, Stream!client, Proofs!client,
         Stream!network, Proofs!network, Stream!IsBadAck, Proofs!IsBadAck,
         Stream!IsNewAck, Proofs!IsNewAck, Stream!Advance, Proofs!Advance,
         Stream!AcksAfter, Proofs!AcksAfter, Stream!CeilDiv, Proofs!CeilDiv,
         Stream!AllAcked, Proofs!AllAcked, Stream!NoTimer,
         Proofs!NoTimer
<1>2. QED
  BY <1>1, WritesAreUnits, StreamSizes, Proofs!ReceiveAckIInv

LEMMA ReceiveKeeps ==
    ASSUME Proofs!IInv, NEW p \in to_client, Stream!ReceiveReliable(p)
    PROVE  Proofs!IInv' /\ client_offset <= client_offset'
<1>1. Proofs!ReceiveReliable(p)
  BY DEF Stream!ReceiveReliable, Proofs!ReceiveReliable, Stream!server, Proofs!server,
         Stream!NewData, Proofs!NewData
<1>2. QED
  BY <1>1, WritesAreUnits, StreamSizes, Proofs!ReceiveReliableIInv

LEMMA LoseKeeps ==
    ASSUME Proofs!IInv,
           \/ \E p \in to_client : Stream!LosePacket(p)
           \/ \E rel \in to_server : Stream!LoseAck(rel)
    PROVE  Proofs!IInv'
<1>1. \/ \E p \in to_client : Proofs!LosePacket(p)
      \/ \E rel \in to_server : Proofs!LoseAck(rel)
  BY DEF Stream!LosePacket, Proofs!LosePacket, Stream!LoseAck, Proofs!LoseAck,
         Stream!server, Proofs!server, Stream!client, Proofs!client
<1>2. QED
  BY <1>1, WritesAreUnits, StreamSizes, Proofs!LoseIInv

LEMMA StutterKeeps ==
    ASSUME Proofs!IInv, UNCHANGED stream
    PROVE  Proofs!IInv'
<1>1. UNCHANGED Proofs!vars
  BY DEF stream, Proofs!vars, Proofs!server, Proofs!client, Proofs!network
<1>2. QED
  BY <1>1, WritesAreUnits, StreamSizes, Proofs!NextIInv

(* What the stream promises. *)
StreamGood ==
    /\ written \in Seq(Unit) /\ received \in Seq(Unit) /\ c \in Seq(Unit)
    /\ Len(written) \in Nat /\ Len(received) \in Nat /\ Len(c) \in Nat
    /\ Len(received) <= Len(written) /\ Len(received) = client_offset
    /\ \A i \in 1 .. Len(received) : received[i] = written[i]
    /\ reliable_offset \in Nat
    /\ \A rel \in to_server : rel \in Nat /\ rel <= Len(received)
    /\ ~bad_ack

LEMMA StreamFacts ==
    ASSUME Proofs!IInv
    PROVE  StreamGood
<1>1. /\ Proofs!TypeOK /\ Proofs!Lengths /\ Proofs!OffsetsOrdered
      /\ Proofs!Matches(received, written, 0) /\ Proofs!AcksGenuine /\ Proofs!NoBadAck
  BY DEF Proofs!IInv
<1>2. /\ written \in Seq(Unit) /\ received \in Seq(Unit) /\ c \in Seq(Unit)
      /\ reliable_offset \in Nat /\ client_offset \in Nat /\ to_server \subseteq Nat
      /\ reliable_unsent \in Nat
  BY <1>1 DEF Proofs!TypeOK
<1>3. Len(written) \in Nat /\ Len(received) \in Nat /\ Len(c) \in Nat
  BY <1>2
<1>4. /\ Len(received) = client_offset
      /\ Len(received) <= Len(written)
  BY <1>1, <1>2, <1>3 DEF Proofs!Lengths, Proofs!OffsetsOrdered
<1>5. \A i \in 1 .. Len(received) : received[i] = written[i]
  BY <1>1, <1>3 DEF Proofs!Matches
<1>6. (\A rel \in to_server : rel \in Nat /\ rel <= Len(received)) /\ ~bad_ack
  BY <1>1, <1>2, <1>4 DEF Proofs!AcksGenuine, Proofs!NoBadAck
<1>7. QED
  BY <1>2, <1>3, <1>4, <1>5, <1>6 DEF StreamGood

LEMMA StreamFactsNext == Proofs!IInv' => StreamGood'
  BY StreamFacts, PTL

LEMMA WriteExtends ==
    ASSUME Proofs!IInv, NEW d \in Writes, Stream!Write(d)
    PROVE  /\ Len(d) \in Nat /\ Len(written') = Len(written) + Len(d)
           /\ \A i \in 1 .. Len(written) : written'[i] = written[i]
           /\ \A i \in 1 .. Len(d) : written'[Len(written) + i] = d[i]
           /\ UNCHANGED received
<1>1. written' = written \o d /\ UNCHANGED received
  BY DEF Stream!Write, Stream!client
<1>2. written \in Seq(Unit) /\ d \in Seq(Unit)
  BY WritesAreUnits, StreamFacts DEF StreamGood
<1>3. QED
  BY <1>1, <1>2

(* A step of the stream that writes nothing and delivers nothing. *)
Quiet == Proofs!IInv' /\ UNCHANGED <<written, received>>

LEMMA TickQuiet ==
    ASSUME Proofs!IInv, Stream!Tick
    PROVE  Quiet
BY TickKeeps DEF Quiet, Stream!Tick, Stream!client

LEMMA AckQuiet ==
    ASSUME Proofs!IInv, NEW rel \in to_server, Stream!ReceiveAck(rel)
    PROVE  Quiet
BY AckKeeps DEF Quiet, Stream!ReceiveAck, Stream!client

LEMMA LoseQuiet ==
    ASSUME Proofs!IInv,
           \/ \E p \in to_client : Stream!LosePacket(p)
           \/ \E rel \in to_server : Stream!LoseAck(rel)
    PROVE  Quiet
BY LoseKeeps DEF Quiet, Stream!LosePacket, Stream!LoseAck, Stream!client

LEMMA StutterQuiet ==
    ASSUME Proofs!IInv, UNCHANGED stream
    PROVE  Quiet
BY StutterKeeps DEF Quiet, stream

LEMMA SendQuiet ==
    ASSUME Proofs!IInv, NEW room \in 1 .. MaxPacket, NEW n \in Nat,
           Stream!SendReliable(room, n)
    PROVE  Quiet
BY SendKeeps DEF Quiet, Stream!SendReliable, Stream!client

LEMMA TransmitQuiet ==
    ASSUME Proofs!IInv, NEW room \in 1 .. MaxPacket, TransmitSome(room)
    PROVE  Quiet
<1>1. PICK n \in 0 .. Stream!FullBurst(room) : Transmit(room, n)
  BY DEF TransmitSome
<1>2. n \in Nat
  BY <1>1
<1>3. CASE Stream!SendReliable(room, n)
  BY <1>2, <1>3, SendQuiet
<1>4. CASE Stream!SendNothing
  BY <1>4, SendNothingKeeps DEF Quiet, Stream!SendNothing, Stream!client
<1>5. CASE UNCHANGED stream
  BY <1>5, StutterQuiet
<1>6. QED
  BY <1>1, <1>3, <1>4, <1>5 DEF Transmit

-----------------------------------------------------------------------------
(* Steps that leave the stream as it is for its two users.                 *)

LEMMA QuietStep ==
    ASSUME IInv, Quiet, Shapes', Progress', ClientProgress'
    PROVE  IInv'
<1>1. FollowsScript'
  BY DEF IInv, Quiet, FollowsScript, UnitAt
<1>2. QED
  BY <1>1 DEF IInv, Quiet

LEMMA ConfirmIInv == ASSUME IInv, Confirm PROVE IInv'
<1>1. Quiet
  <2>1. MaxPacket \in 1 .. MaxPacket
    BY StreamSizes
  <2>2. QED
    BY <2>1, SendQuiet DEF IInv, Confirm
<1>2. Shapes' /\ Progress' /\ ClientProgress'
  BY <1>1 DEF IInv, Quiet, Confirm, Shapes, Progress, ClientProgress, Set_state,
              States, client, datagrams
<1>3. QED
  BY <1>1, <1>2, QuietStep

LEMMA DestroyIInv == ASSUME IInv, Destroy PROVE IInv'
<1>1. Quiet
  BY StutterQuiet DEF IInv, Destroy
<1>2. Shapes' /\ Progress' /\ ClientProgress'
  BY <1>1 DEF IInv, Quiet, Destroy, Shapes, Progress, ClientProgress, Set_state,
              States, client
<1>3. QED
  BY <1>1, <1>2, QuietStep

(* An acknowledgement of something is from a client that has it. *)
LEMMA Receive_ackIInv ==
    ASSUME IInv, NEW rel \in to_server, Receive_ack(rel)
    PROVE  IInv'
<1>1. Quiet
  BY AckQuiet DEF IInv, Receive_ack
<1>2. ~bad_ack'
  BY <1>1, StreamFactsNext DEF Quiet, StreamGood
<1>3. /\ Handles_input /\ UNCHANGED <<setup, pc, phase, consumed, requests, frame_sent>>
      /\ quit_sent' = quit_sent
  BY <1>2 DEF Receive_ack, IInv, Shapes, client
<1>4. CASE UNCHANGED <<state, drain_state>>
  <2>1. Shapes' /\ Progress' /\ ClientProgress'
    BY <1>1, <1>3, <1>4 DEF IInv, Quiet, Shapes, Progress, ClientProgress
  <2>2. QED
    BY <1>1, <2>1, QuietStep
<1>5. CASE Stream!IsNewAck(rel) /\ Set_state(drain_state, drain_state)
                                /\ state \in {"DRAIN", "READY"}
  <2>1. Len(received) >= 1
    <3>1. rel \in Nat /\ reliable_offset \in Nat /\ rel <= Len(received) /\ Len(received) \in Nat
      BY StreamFacts DEF IInv, StreamGood
    <3>2. QED
      BY <1>5, <3>1 DEF Stream!IsNewAck
  <2>2. Shapes'
    BY <1>1, <1>3, <1>5 DEF IInv, Quiet, Shapes, Set_state
  <2>3. Progress'
    <3>1. /\ Progress /\ pc' = pc /\ setup' = setup /\ Len(written') = Len(written)
          /\ state' = drain_state /\ drain_state' = drain_state
          /\ state \in {"DRAIN", "READY"} /\ 0 < MapSize
      BY <1>1, <1>3, <1>5, SetupSizes DEF IInv, Quiet, Set_state
    <3>2. CASE state = "DRAIN" /\ drain_state = "SETUP"
      BY <3>1, <3>2 DEF Progress
    <3>3. CASE state = "DRAIN" /\ drain_state = "LOGIN"
      BY <3>1, <3>3 DEF Progress
    <3>4. CASE state = "READY"
      BY <3>1, <3>4 DEF Progress
    <3>5. QED
      BY <3>1, <3>2, <3>3, <3>4 DEF Progress
  <2>4. ClientProgress'
    BY <1>1, <1>3, <1>5, <2>1, SetupSizes
       DEF IInv, Quiet, Shapes, Progress, ClientProgress, Set_state
  <2>5. QED
    BY <1>1, <2>2, <2>3, <2>4, QuietStep
<1>6. \/ UNCHANGED <<state, drain_state>>
      \/ /\ Stream!IsNewAck(rel) /\ Set_state(drain_state, drain_state)
         /\ state \in {"DRAIN", "READY"}
  BY <1>2 DEF Receive_ack, Switch
<1>7. QED
  BY <1>4, <1>5, <1>6

LEMMA Play_againIInv == ASSUME IInv, Play_again PROVE IInv'
<1>1. Quiet
  <2>1. MaxPacket \in 1 .. MaxPacket
    BY StreamSizes
  <2>2. QED
    BY <2>1, TransmitQuiet DEF IInv, Play_again
<1>2. Shapes' /\ Progress' /\ ClientProgress'
  BY <1>1 DEF IInv, Quiet, Play_again, Shapes, Progress, ClientProgress, conn,
              client, datagrams
<1>3. QED
  BY <1>1, <1>2, QuietStep

LEMMA Main_loopIInv == ASSUME IInv, Main_loop PROVE IInv'
<1>1. Quiet
  BY TickQuiet DEF IInv, Main_loop
<1>2. Shapes' /\ Progress' /\ ClientProgress'
  BY <1>1 DEF IInv, Quiet, Main_loop, Shapes, Progress, ClientProgress, conn,
              client, datagrams
<1>3. QED
  BY <1>1, <1>2, QuietStep

LEMMA SendIInv == ASSUME IInv, Send PROVE IInv'
<1>1. Quiet
  <2>1. MaxPacket \in 1 .. MaxPacket
    BY StreamSizes
  <2>2. QED
    BY <2>1, TransmitQuiet, StutterQuiet DEF IInv, Send
<1>2. Shapes' /\ Progress' /\ ClientProgress'
  BY <1>1 DEF IInv, Quiet, Send, Shapes, Progress, ClientProgress, conn,
              client, datagrams
<1>3. QED
  BY <1>1, <1>2, QuietStep

LEMMA Send_frameIInv == ASSUME IInv, Send_frame PROVE IInv'
<1>1. Quiet
  <2>1. \A room \in Stream!Rooms : room \in 1 .. MaxPacket
    BY StreamSizes DEF Stream!Rooms
  <2>2. QED
    BY <2>1, TransmitQuiet, StutterQuiet DEF IInv, Send_frame
<1>2. Shapes' /\ Progress' /\ ClientProgress'
  BY <1>1 DEF IInv, Quiet, Send_frame, Shapes, Progress, ClientProgress, conn, client
<1>3. QED
  BY <1>1, <1>2, QuietStep

(* A request to play tells that the client has the map. *)
LEMMA RequestIInv == ASSUME IInv, Send_verify \/ Send_play PROVE IInv'
<1>1. Quiet
  BY StutterQuiet DEF IInv, Send_verify, Send_play
<1>2. UNCHANGED <<state, drain_state, setup, pc, phase, consumed, quit_sent, frame_sent>>
      /\ requests' \subseteq {"VERIFY", "PLAY", "QUIT"}
  BY DEF Send_verify, Send_play, conn, client, IInv, Shapes
<1>3. "PLAY" \in requests' => consumed > MapSize
  <2>1. phase = "start" => consumed > MapSize
    BY SetupSizes DEF IInv, Shapes, ClientProgress, PhaseAt
  <2>2. QED
    BY <2>1 DEF IInv, ClientProgress, Send_verify, Send_play
<1>4. Shapes' /\ Progress' /\ ClientProgress'
  BY <1>1, <1>2, <1>3 DEF IInv, Quiet, Shapes, Progress, ClientProgress, PhaseAt
<1>5. QED
  BY <1>1, <1>4, QuietStep

(* A frame update tells it, too. *)
LEMMA Receive_frameIInv == ASSUME IInv, Receive_frame PROVE IInv'
<1>1. Quiet
  BY StutterQuiet DEF IInv, Receive_frame
<1>2. phase' = phase
  <2>1. consumed > MapSize
    BY DEF IInv, ClientProgress, Receive_frame
  <2>2. phase \notin {"verify", "setup"}
    BY <2>1, SetupSizes DEF IInv, Shapes, ClientProgress, PhaseAt
  <2>3. QED
    BY <2>2 DEF Receive_frame
<1>3. Shapes' /\ Progress' /\ ClientProgress'
  BY <1>1, <1>2 DEF IInv, Quiet, Receive_frame, Shapes, Progress, ClientProgress,
                    PhaseAt, conn, datagrams
<1>4. QED
  BY <1>1, <1>3, QuietStep

LEMMA EndIInv == ASSUME IInv, Give_up \/ Receive_server_quit PROVE IInv'
<1>1. Quiet
  BY StutterQuiet DEF IInv, Give_up, Receive_server_quit
<1>2. /\ UNCHANGED <<state, drain_state, setup, pc, consumed, quit_sent, frame_sent>>
      /\ phase' = "dead" /\ requests' \subseteq requests \cup {"QUIT"}
  BY DEF Give_up, Receive_server_quit, conn, datagrams
<1>3. Shapes'
  BY <1>1, <1>2 DEF IInv, Quiet, Shapes, Phases
<1>4. Progress' /\ ClientProgress'
  BY <1>1, <1>2 DEF IInv, Quiet, Progress, ClientProgress
<1>5. QED
  BY <1>1, <1>3, <1>4, QuietStep

LEMMA LoseIInv == ASSUME IInv, Lose PROVE IInv'
<1>1. Quiet
  BY LoseQuiet, StutterQuiet DEF IInv, Lose
<1>2. requests' \subseteq requests
  BY DEF Lose
<1>3. Shapes' /\ Progress' /\ ClientProgress'
  BY <1>1, <1>2 DEF IInv, Quiet, Lose, Shapes, Progress, ClientProgress, PhaseAt,
                    conn, client
<1>4. QED
  BY <1>1, <1>3, QuietStep

-----------------------------------------------------------------------------
(* Steps that write.  In each the script says what comes next.             *)

(* d is the part of the script that is to be written now. *)
Continues(d) == \A i \in 1 .. Len(d) : d[i] = UnitAt(Len(written) + i)

LEMMA WriteStep ==
    ASSUME IInv, NEW d \in Writes, Stream!Write(d), Continues(d),
           Shapes', Progress', ClientProgress'
    PROVE  IInv'
<1>1. /\ Len(d) \in Nat /\ Len(written') = Len(written) + Len(d)
      /\ \A i \in 1 .. Len(written) : written'[i] = written[i]
      /\ \A i \in 1 .. Len(d) : written'[Len(written) + i] = d[i]
  BY WriteExtends DEF IInv
<1>2. Len(written) \in Nat
  BY StreamFacts DEF IInv, StreamGood
<1>3. ASSUME NEW i \in 1 .. Len(written') PROVE written'[i] = UnitAt(i)
  <2>1. CASE i <= Len(written)
    BY <1>1, <1>2, <2>1 DEF IInv, FollowsScript
  <2>2. CASE i > Len(written)
    <3>1. i - Len(written) \in 1 .. Len(d) /\ Len(written) + (i - Len(written)) = i
      BY <1>1, <1>2, <2>2
    <3>2. QED
      BY <1>1, <3>1 DEF Continues
  <2>3. QED
    BY <1>1, <1>2, <2>1, <2>2
<1>4. FollowsScript'
  BY <1>3 DEF FollowsScript, UnitAt
<1>5. Proofs!IInv'
  BY WriteKeeps DEF IInv
<1>6. QED
  BY <1>4, <1>5 DEF IInv

LEMMA Handle_listeningIInv == ASSUME IInv, Handle_listening PROVE IInv'
<1> DEFINE d == <<VerifyReply>>
<1>1. d \in Writes /\ Stream!Write(d) /\ Len(d) = 1 /\ d[1] = VerifyReply
  BY DEF Writes, Handle_listening
<1>2. state = "LISTENING" /\ pc = "select" /\ Len(written) = 0 /\ setup = 0
  BY DEF IInv, Progress, Handle_listening
<1> HIDE DEF d
<1>3. Continues(d)
  BY <1>1, <1>2 DEF Continues, UnitAt
<1>4. Len(written') = 1 /\ UNCHANGED received
  BY <1>1, <1>2, WriteExtends DEF IInv
<1>5. /\ pc' = "confirm"
      /\ UNCHANGED <<state, drain_state, setup, phase, consumed, requests, quit_sent, frame_sent>>
  BY DEF Handle_listening, conn, client, datagrams
<1>6. Shapes' /\ Progress' /\ ClientProgress'
  BY <1>2, <1>4, <1>5 DEF IInv, Shapes, Progress, ClientProgress, PhaseAt
<1>7. QED
  BY <1>1, <1>3, <1>6, WriteStep

LEMMA Handle_loginIInv == ASSUME IInv, Handle_login PROVE IInv'
<1>1. CASE Destroy
  BY <1>1, DestroyIInv
<1>2. CASE /\ Stream!Write(LoginChunk)
           /\ Set_state("READY", "PLAYING")
           /\ UNCHANGED <<setup, pc, client, datagrams>>
  <2>1. LoginChunk \in Writes /\ Len(LoginChunk) = 2
        /\ LoginChunk[1] = PlayReply /\ LoginChunk[2] = Message
    BY DEF Writes, LoginChunk
  <2>2. state = "LOGIN" /\ pc = "select" /\ "PLAY" \in requests
        /\ Len(written) = MapSize + 1 /\ consumed > MapSize
    BY DEF IInv, Progress, ClientProgress, Handle_login, Accepts_play
  <2>3. Continues(LoginChunk)
    BY <2>1, <2>2, SetupSizes DEF Continues, UnitAt
  <2>4. Len(written') = MapSize + 3 /\ UNCHANGED received
    <3>1. Len(written') = Len(written) + Len(LoginChunk) /\ UNCHANGED received
      BY <1>2, <2>1, WriteExtends DEF IInv
    <3>2. QED
      BY <2>1, <2>2, <3>1, SetupSizes
  <2>5. /\ state' = "READY" /\ drain_state' = "PLAYING"
        /\ UNCHANGED <<setup, pc, phase, consumed, requests, quit_sent, frame_sent>>
    BY <1>2 DEF Set_state, client, datagrams
  <2>6. Len(received) >= 1
    BY <2>2 DEF IInv, ClientProgress
  <2>7. Shapes' /\ Progress' /\ ClientProgress'
    BY <2>2, <2>4, <2>5, <2>6, SetupSizes
       DEF IInv, Shapes, Progress, ClientProgress, PhaseAt, States
  <2>8. QED
    BY <1>2, <2>1, <2>3, <2>7, WriteStep
<1>3. QED
  BY <1>1, <1>2 DEF Handle_login

LEMMA Tell_playerIInv == ASSUME IInv, Tell_player PROVE IInv'
<1> DEFINE d == <<Message>>
<1>1. d \in Writes /\ Stream!Write(d) /\ Len(d) = 1 /\ d[1] = Message
  BY DEF Writes, Tell_player
<1>2. /\ state \in {"READY", "PLAYING"} /\ pc = "select"
      /\ Len(written) > MapSize + 2 /\ Len(written) \in Nat
  BY StreamFacts DEF IInv, Progress, Tell_player, StreamGood
<1> HIDE DEF d
<1>3. Continues(d)
  BY <1>1, <1>2, SetupSizes DEF Continues, UnitAt
<1>4. Len(written') = Len(written) + 1 /\ UNCHANGED received
  BY <1>1, <1>2, WriteExtends DEF IInv
<1>5. UNCHANGED <<pc, state, drain_state, setup, phase, consumed, requests, quit_sent, frame_sent>>
  BY DEF Tell_player, conn, client, datagrams
<1>6. Shapes' /\ Progress' /\ ClientProgress'
  BY <1>2, <1>4, <1>5, SetupSizes DEF IInv, Shapes, Progress, ClientProgress, PhaseAt
<1>7. QED
  BY <1>1, <1>3, <1>6, WriteStep

(* Handle_setup writes the next pieces of the map, the last one last. *)
LEMMA Handle_setupIInv == ASSUME IInv, Handle_setup PROVE IInv'
<1> DEFINE room == Stream!MaxOf(SetupWindow - Len(c), 0)
           len == Setup_len(room)
<1>1. room \in 0 .. SetupWindow
  BY StreamFacts, SetupSizes DEF IInv, StreamGood, Stream!MaxOf
<1>2. /\ setup \in Nat /\ setup < MapSize /\ MapSize \in Nat
      /\ Len(written) = setup + 1 /\ Len(received) >= 1 /\ state = "SETUP"
  BY SetupSizes DEF IInv, Shapes, Progress, ClientProgress, Handle_setup
<1>3. len \in 0 .. SetupWindow /\ len <= MapSize - setup /\ (len = 0 => room = 0)
  BY <1>1, <1>2, SetupSizes DEF Setup_len, Stream!MinOf
<1>4. /\ setup' = setup + len /\ pc' = "send"
      /\ UNCHANGED <<phase, consumed, requests, quit_sent, frame_sent>>
      /\ IF len > 0 THEN Stream!Write(MapChunk(len)) ELSE UNCHANGED stream
      /\ IF room > 0 /\ setup + len >= MapSize
         THEN Set_state("DRAIN", "LOGIN")
         ELSE UNCHANGED <<state, drain_state>>
  BY DEF Handle_setup, client, datagrams
<1> HIDE DEF room, len
<1>5. CASE len = 0
  <2>1. Quiet
    BY <1>4, <1>5, StutterQuiet DEF IInv
  <2>2. UNCHANGED <<setup, state, drain_state>>
    BY <1>1, <1>2, <1>3, <1>4, <1>5
  <2>3. Shapes' /\ Progress' /\ ClientProgress'
    BY <1>2, <1>4, <2>1, <2>2 DEF IInv, Quiet, Shapes, Progress, ClientProgress, PhaseAt
  <2>4. QED
    BY <2>1, <2>3, QuietStep
<1>6. CASE len > 0
  <2>1. len \in 1 .. SetupWindow
    BY <1>3, <1>6, SetupSizes
  <2>2. /\ MapChunk(len) \in Writes /\ Len(MapChunk(len)) = len
        /\ \A i \in 1 .. len : MapChunk(len)[i] = MapData
    BY <2>1 DEF Writes, MapChunk
  <2>3. Continues(MapChunk(len))
    BY <1>2, <1>3, <2>1, <2>2 DEF Continues, UnitAt
  <2>4. Stream!Write(MapChunk(len))
    BY <1>4, <1>6
  <2>5. Len(written') = setup' + 1 /\ UNCHANGED received
    BY <1>2, <1>3, <1>4, <2>2, <2>4, WriteExtends DEF IInv
  <2>6. CASE room > 0 /\ setup + len >= MapSize
    <3>1. state' = "DRAIN" /\ drain_state' = "LOGIN" /\ setup' = MapSize
      BY <1>2, <1>3, <1>4, <2>6 DEF Set_state
    <3>2. Shapes' /\ Progress' /\ ClientProgress'
      BY <1>2, <1>4, <2>5, <3>1 DEF IInv, Shapes, Progress, ClientProgress, PhaseAt, States
    <3>3. QED
      BY <2>2, <2>3, <2>4, <3>2, WriteStep
  <2>7. CASE ~(room > 0 /\ setup + len >= MapSize)
    <3>1. UNCHANGED <<state, drain_state>> /\ setup' \in 0 .. MapSize /\ setup' < MapSize
      BY <1>1, <1>2, <1>3, <1>4, <1>6, <2>7, SetupSizes DEF Setup_len, room, len, Stream!MinOf
    <3>2. Shapes' /\ Progress' /\ ClientProgress'
      BY <1>2, <1>4, <2>5, <3>1 DEF IInv, Shapes, Progress, ClientProgress, PhaseAt, States
    <3>3. QED
      BY <2>2, <2>3, <2>4, <3>2, WriteStep
  <2>8. QED
    BY <2>6, <2>7
<1>7. QED
  BY <1>3, <1>5, <1>6

-----------------------------------------------------------------------------
(* The client reads.                                                       *)

LEMMA Receive_reliableIInv ==
    ASSUME IInv, NEW p \in to_client, Receive_reliable(p)
    PROVE  IInv'
<1>1. Stream!ReceiveReliable(p) /\ UNCHANGED <<conn, pc, client, datagrams>>
  BY DEF Receive_reliable
<1>2. Proofs!IInv' /\ client_offset <= client_offset'
  BY <1>1, ReceiveKeeps DEF IInv
<1>3. Len(received) \in Nat /\ Len(received') \in Nat /\ Len(received) <= Len(received')
  BY <1>2, StreamFacts, StreamFactsNext DEF IInv, StreamGood
<1>4. written' = written
  BY <1>1 DEF Stream!ReceiveReliable
<1>5. FollowsScript'
  BY <1>4 DEF IInv, FollowsScript, UnitAt
<1>6. UNCHANGED <<state, drain_state, setup, pc, phase, consumed, requests, quit_sent, frame_sent>>
  BY <1>1 DEF conn, client, datagrams
<1>7. Shapes'
  BY <1>3, <1>6 DEF IInv, Shapes
<1>8. Progress'
  BY <1>3, <1>4, <1>6 DEF IInv, Progress
<1>9. ClientProgress'
  BY <1>3, <1>6 DEF IInv, ClientProgress, PhaseAt
<1>10. QED
  BY <1>2, <1>5, <1>7, <1>8, <1>9 DEF IInv

(* The units of the map are those after the first, as far as there are. *)
LEMMA MapUnits ==
    ASSUME IInv, NEW n \in Nat, n <= Len(received)
    PROVE  {i \in 1 .. n : received[i] = MapData}
              = 2 .. (IF n <= MapSize THEN n ELSE MapSize + 1)
<1>1. ASSUME NEW i \in 1 .. n PROVE received[i] = UnitAt(i)
  <2>1. /\ Len(received) \in Nat /\ Len(written) \in Nat /\ Len(received) <= Len(written)
        /\ \A k \in 1 .. Len(received) : received[k] = written[k]
        /\ \A k \in 1 .. Len(written) : written[k] = UnitAt(k)
    BY StreamFacts DEF IInv, FollowsScript, StreamGood
  <2>2. i \in 1 .. Len(received) /\ i \in 1 .. Len(written)
    BY <2>1
  <2>3. QED
    BY <2>1, <2>2
<1>2. ASSUME NEW i \in 1 .. n
      PROVE  (received[i] = MapData) <=> (i > 1 /\ i <= MapSize + 1)
  BY <1>1, SetupSizes DEF UnitAt, MapData, VerifyReply, PlayReply, Message
<1>3. QED
  BY <1>2, SetupSizes

LEMMA ConsumeIInv == ASSUME IInv, Consume PROVE IInv'
<1>1. Quiet
  BY StutterQuiet DEF IInv, Consume
<1>2. /\ consumed \in Nat /\ consumed < Len(received) /\ consumed' = consumed + 1
      /\ Len(received) \in Nat /\ MapSize \in Nat /\ MapSize >= 1
      /\ UNCHANGED <<state, drain_state, setup, pc, requests, quit_sent, frame_sent>>
  BY StreamFacts, SetupSizes DEF IInv, Shapes, Consume, StreamGood, conn, datagrams
<1>3. phase = PhaseAt(consumed)
  BY DEF IInv, ClientProgress, Consume, Alive
<1>4. received[consumed + 1] = UnitAt(consumed + 1)
  BY <1>2, StreamFacts DEF IInv, FollowsScript, StreamGood
<1>5. phase' = PhaseAt(consumed + 1)
  <2>1. phase' = Phase_after(UnitAt(consumed + 1))
    BY <1>4 DEF Consume
  <2>2. CASE consumed = 0
    BY <1>2, <1>3, <2>1, <2>2 DEF Phase_after, PhaseAt, UnitAt
  <2>3. CASE consumed >= 1 /\ consumed <= MapSize
    <3>1. {i \in 1 .. consumed : received[i] = MapData} = 2 .. consumed
      BY <1>2, <2>3, MapUnits
    <3>2. Cardinality(2 .. consumed) = consumed - 1
      BY <1>2, <2>3, FS_Interval
    <3>3. Map_consumed + 1 = consumed
      <4>1. Map_consumed = Cardinality(2 .. consumed)
        BY <3>1 DEF Map_consumed
      <4>2. QED
        BY <1>2, <3>2, <4>1
    <3>4. phase = "setup" /\ UnitAt(consumed + 1) = MapData
      BY <1>2, <1>3, <2>3 DEF PhaseAt, UnitAt
    <3>5. phase' = IF consumed = MapSize THEN "start" ELSE "setup"
      BY <2>1, <3>3, <3>4 DEF Phase_after, MapData, VerifyReply, PlayReply, Message
    <3>6. QED
      BY <1>2, <2>3, <3>5 DEF PhaseAt
  <2>4. CASE consumed = MapSize + 1
    BY <1>2, <1>3, <2>1, <2>4
       DEF Phase_after, PhaseAt, UnitAt, MapData, VerifyReply, PlayReply, Message
  <2>5. CASE consumed > MapSize + 1
    BY <1>2, <1>3, <2>1, <2>5
       DEF Phase_after, PhaseAt, UnitAt, MapData, VerifyReply, PlayReply, Message
  <2>6. QED
    BY <1>2, <2>2, <2>3, <2>4, <2>5
<1>6. Shapes'
  <2>1. phase' \in Phases
    BY <1>5 DEF PhaseAt, Phases
  <2>2. QED
    BY <1>1, <1>2, <2>1 DEF IInv, Quiet, Shapes
<1>7. Progress'
  BY <1>1, <1>2 DEF IInv, Quiet, Progress
<1>8. ClientProgress'
  BY <1>1, <1>2, <1>5 DEF IInv, Quiet, ClientProgress, PhaseAt
<1>9. QED
  BY <1>1, <1>6, <1>7, <1>8, QuietStep

-----------------------------------------------------------------------------
(* The theorems.                                                           *)

LEMMA InitIInv == ASSUME Init PROVE IInv
<1>1. Proofs!Init
  BY DEF Init, Stream!Init, Proofs!Init, Stream!NoTimer, Proofs!NoTimer
<1>2. Proofs!IInv
  BY <1>1, WritesAreUnits, StreamSizes, Proofs!InitIInv
<1>3. written = <<>> /\ received = <<>> /\ Len(written) = 0 /\ Len(received) = 0
  BY DEF Init, Stream!Init
<1>4. /\ state = "LISTENING" /\ drain_state = "FREE" /\ setup = 0 /\ pc = "select"
      /\ phase = "verify" /\ consumed = 0 /\ requests = {}
      /\ quit_sent = FALSE /\ frame_sent = FALSE
  BY DEF Init
<1>5. Shapes
  <2>1. state \in States /\ drain_state \in States /\ phase \in Phases
    BY <1>4 DEF States, Phases
  <2>2. setup \in 0 .. MapSize /\ consumed \in 0 .. Len(received)
    BY <1>3, <1>4, SetupSizes
  <2>3. requests \subseteq {"VERIFY", "PLAY", "QUIT"}
    BY <1>4
  <2>4. QED
    BY <1>4, <2>1, <2>2, <2>3 DEF Shapes
<1>6. FollowsScript
  BY <1>3 DEF FollowsScript
<1>7. Progress
  BY <1>3, <1>4 DEF Progress
<1>8. ClientProgress
  BY <1>4 DEF ClientProgress, PhaseAt
<1>9. QED
  BY <1>2, <1>5, <1>6, <1>7, <1>8 DEF IInv

LEMMA NextIInv == ASSUME IInv, [Next]_vars PROVE IInv'
<1>1. CASE UNCHANGED vars
  <2>1. Quiet /\ UNCHANGED <<conn, pc, client, datagrams>>
    BY <1>1, StutterQuiet DEF IInv, vars
  <2>2. Shapes' /\ Progress' /\ ClientProgress'
    BY <2>1 DEF IInv, Quiet, Shapes, Progress, ClientProgress, PhaseAt, conn, client, datagrams
  <2>3. QED
    BY <2>1, <2>2, QuietStep
<1>2. CASE Server
  <2>1. ConfirmFailed \/ Receive_quit \/ Timeout => Destroy
    BY DEF ConfirmFailed, Receive_quit, Timeout
  <2>2. QED
    BY <1>2, <2>1, Handle_listeningIInv, ConfirmIInv, DestroyIInv, Receive_ackIInv,
       Handle_loginIInv, Play_againIInv, Main_loopIInv, Handle_setupIInv, SendIInv,
       Send_frameIInv, Tell_playerIInv
       DEF Server
<1>3. CASE Client
  BY <1>3, RequestIInv, Receive_reliableIInv, ConsumeIInv, Receive_frameIInv, EndIInv
     DEF Client
<1>4. CASE Lose
  BY <1>4, LoseIInv
<1>5. QED
  BY <1>1, <1>2, <1>3, <1>4 DEF Next

(* Whatever the network does to the datagrams of a login, for every size   *)
(* of map, buffer and packet, the server writes its script, and the state  *)
(* of either side is where the script has got to there.                    *)
THEOREM Inductive == Spec => []IInv
BY InitIInv, NextIInv, PTL DEF Spec

(* Every variable of the connection keeps its type: consumed never passes  *)
(* what has been received.                                                 *)
THEOREM TypeCorrect == Spec => []TypeOK
<1>1. IInv => TypeOK
  <2>1. Proofs!IInv => Stream!TypeOK
    BY DEF Proofs!IInv, Proofs!TypeOK, Stream!TypeOK, Proofs!NoTimer, Stream!NoTimer,
           Proofs!Packet, Stream!Packet
  <2>2. QED
    BY <2>1 DEF IInv, Shapes, TypeOK
<1>2. QED
  BY <1>1, Inductive, PTL

(* The units of one kind in a sequence that follows the script. *)
LEMMA OnceInScript ==
    ASSUME NEW seq \in Seq(Unit), NEW u, NEW k \in Nat,
           \A i \in 1 .. Len(seq) : seq[i] = u => i = k
    PROVE  /\ Count(seq, u) <= 1
           /\ k \in 1 .. Len(seq) /\ seq[k] = u => Count(seq, u) = 1
<1> DEFINE here == {i \in DOMAIN seq : seq[i] = u}
<1>1. DOMAIN seq = 1 .. Len(seq)
  OBVIOUS
<1>2. here = IF k \in 1 .. Len(seq) /\ seq[k] = u THEN {k} ELSE {}
  BY <1>1
<1>3. Count(seq, u) = Cardinality(here)
  BY DEF Count
<1>4. Cardinality({k}) = 1 /\ Cardinality({}) = 0
  BY FS_Singleton, FS_EmptySet
<1> HIDE DEF here
<1>5. QED
  BY <1>2, <1>3, <1>4

LEMMA ScriptInStep == ASSUME IInv PROVE InStep
<1>1. /\ Len(written) \in Nat /\ Len(received) \in Nat /\ Len(received) <= Len(written)
      /\ written \in Seq(Unit) /\ received \in Seq(Unit)
      /\ \A i \in 1 .. Len(received) : received[i] = UnitAt(i)
      /\ \A i \in 1 .. Len(written) : written[i] = UnitAt(i)
      /\ MapSize \in Nat /\ MapSize >= 1
  BY StreamFacts, SetupSizes DEF IInv, FollowsScript, StreamGood
<1>2. /\ consumed \in Nat /\ consumed <= Len(received) /\ phase \in {"dead", PhaseAt(consumed)}
  BY <1>1 DEF IInv, Shapes, ClientProgress
<1>3. phase # "confused"
  BY <1>2 DEF PhaseAt
<1>4. Count(written, VerifyReply) <= 1
  <2>1. \A i \in 1 .. Len(written) : written[i] = VerifyReply => i = 1
    BY <1>1 DEF UnitAt, VerifyReply, MapData, PlayReply, Message
  <2>2. QED
    BY <1>1, <2>1, OnceInScript
<1>5. Count(written, PlayReply) <= 1
  <2>1. \A i \in 1 .. Len(written) : written[i] = PlayReply => i = MapSize + 2
    BY <1>1 DEF UnitAt, VerifyReply, MapData, PlayReply, Message
  <2>2. MapSize + 2 \in Nat
    BY <1>1
  <2>3. QED
    BY <1>1, <2>1, <2>2, OnceInScript
<1>6. Len(received) >= 1 => Count(received, VerifyReply) = 1
  <2>1. \A i \in 1 .. Len(received) : received[i] = VerifyReply => i = 1
    BY <1>1 DEF UnitAt, VerifyReply, MapData, PlayReply, Message
  <2>2. Len(received) >= 1 => 1 \in 1 .. Len(received) /\ received[1] = VerifyReply
    BY <1>1 DEF UnitAt
  <2>3. QED
    BY <1>1, <2>1, <2>2, OnceInScript
<1>7. consumed > MapSize => Count(received, MapData) = MapSize
  <2>1. SUFFICES ASSUME consumed > MapSize PROVE Count(received, MapData) = MapSize
    OBVIOUS
  <2>2. {i \in DOMAIN received : received[i] = MapData} = 2 .. (MapSize + 1)
    <3>1. DOMAIN received = 1 .. Len(received)
      BY <1>1
    <3>2. ~(Len(received) <= MapSize)
      BY <1>1, <1>2, <2>1
    <3>3. QED
      BY <1>1, <3>1, <3>2, MapUnits
  <2>3. Cardinality(2 .. (MapSize + 1)) = MapSize
    BY <1>1, FS_Interval
  <2>4. QED
    BY <2>2, <2>3 DEF Count
<1>8. phase = "start" => state \notin {"LISTENING", "SETUP"}
  <2>1. phase = "start" => consumed = MapSize + 1
    BY <1>1, <1>2 DEF PhaseAt
  <2>2. state \in {"LISTENING", "SETUP"} => Len(written) <= MapSize
    BY <1>1 DEF IInv, Shapes, Progress
  <2>3. QED
    BY <1>1, <1>2, <2>1, <2>2
<1>9. phase = "playing" => state \in {"READY", "PLAYING", "FREE"}
  <2>1. phase = "playing" => consumed > MapSize + 1
    BY <1>1, <1>2 DEF PhaseAt
  <2>2. state \in {"LISTENING", "SETUP", "DRAIN", "LOGIN"} => Len(written) <= MapSize + 1
    BY <1>1 DEF IInv, Shapes, Progress
  <2>3. state \in States
    BY DEF IInv, Shapes
  <2>4. QED
    BY <1>1, <1>2, <2>1, <2>2, <2>3 DEF States
<1>10. /\ state \in {"SETUP", "LOGIN", "READY", "PLAYING"} => Len(received) >= 1
       /\ state \in {"READY", "PLAYING"} => consumed > MapSize
  BY DEF IInv, ClientProgress
<1>11. QED
  BY <1>3, <1>4, <1>5, <1>6, <1>7, <1>8, <1>9, <1>10 DEF InStep

(* The two state machines stay in step (Receive_ack and Handle_setup       *)
(* against Net_verify, Net_setup and Net_start): the server goes on only   *)
(* when the client has what the state is about, no side meets what it does *)
(* not expect, the client is verified once and logs in once, for every     *)
(* size of map, buffer and packet.                                         *)
THEOREM Together == Spec => []InStep
<1>1. IInv => InStep
  BY ScriptInStep
<1>2. QED
  BY <1>1, Inductive, PTL

=============================================================================
