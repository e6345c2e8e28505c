----------------------------- MODULE Connection -----------------------------
(***************************************************************************)
(* One client logging in: the server's connection states                   *)
(* (server/netserver.c, connection.h) against the client's Net_verify,     *)
(* Net_setup and Net_start (client/netclient.c), over the reliable stream  *)
(* of module ReliableStream and datagrams that are lost, repeated and      *)
(* reordered.                                                              *)
(*                                                                         *)
(* The stream carries units, each longer than min_send_size bytes: the     *)
(* reply to VERIFY (with the magic number), the map in MapSize pieces, the *)
(* reply to PLAY, and messages.                                            *)
(*                                                                         *)
(* pc says where the single-threaded server is: waiting in select(2),      *)
(* about to send the verify reply it has just written (Handle_listening),  *)
(* or inside Input(), before Handle_setup or before Send_reliable.         *)
(* Timeouts and retry counts are not counted: a side may give up whenever  *)
(* its code could.                                                         *)
(***************************************************************************)
EXTENDS Integers, Sequences, FiniteSets

CONSTANTS
    MapSize,        \* units of setup data (setup_t and the map)
    SetupWindow,    \* Handle_setup fills c up to MIN(c.size, 4096)
    BufSize, MaxPacket, MinSendSize, AckUnit, MaxRetransmit, MaxStream

ASSUME SetupSizes == MapSize \in Nat \ {0} /\ SetupWindow \in Nat \ {0}

(* Those of ReliableStream. *)
ASSUME StreamSizes ==
    /\ BufSize \in Nat /\ MaxPacket \in Nat \ {0} /\ MinSendSize \in Nat
    /\ AckUnit \in Nat \ {0} /\ MaxRetransmit \in Nat /\ MaxStream \in Nat

VerifyReply == "verify_reply"   \* PKT_REPLY, PKT_VERIFY, PKT_SUCCESS; PKT_MAGIC
MapData == "map"
PlayReply == "play_reply"       \* PKT_REPLY, PKT_PLAY, PKT_SUCCESS
Message == "message"            \* PKT_PLAYER, PKT_SCORE, PKT_MESSAGE, ...

Unit == {VerifyReply, MapData, PlayReply, Message}

MapChunk(n) == [i \in 1 .. n |-> MapData]

(* Handle_login: the reply first, then the players. *)
LoginChunk == <<PlayReply, Message>>

Writes == {<<VerifyReply>>, LoginChunk, <<Message>>}
              \cup {MapChunk(n) : n \in 1 .. SetupWindow}

VARIABLES
    state,          \* connp->state
    drain_state,    \* connp->drain_state
    setup,          \* connp->setup: units of setup data written to c
    pc,             \* where the server is in its main loop
    phase,          \* the client: the Net_ function it is in, or its end
    consumed,       \* units the client has taken out of cbuf
    requests,       \* datagrams with no reliable data on their way to the server
    quit_sent,      \* a PKT_QUIT is on its way to the client
    frame_sent,     \* a frame update is on its way to the client
    c, reliable_offset, reliable_unsent, acks, retransmit_in, sent_this_loop,
    bad_ack, client_offset, received, to_client, to_server, written

Stream == INSTANCE ReliableStream WITH Byte <- Unit, Chunks <- Writes

stream == <<c, reliable_offset, reliable_unsent, acks, retransmit_in,
            sent_this_loop, bad_ack, client_offset, received, to_client,
            to_server, written>>
conn == <<state, drain_state, setup>>
client == <<phase, consumed>>
datagrams == <<requests, quit_sent, frame_sent>>
vars == <<conn, pc, client, datagrams, stream>>

States == {"FREE", "LISTENING", "SETUP", "LOGIN", "PLAYING", "DRAIN", "READY"}
Phases == {"verify", "setup", "start", "playing", "dead", "confused"}

TypeOK ==
    /\ state \in States
    /\ drain_state \in States
    /\ setup \in 0 .. MapSize
    /\ pc \in {"select", "confirm", "setup", "send"}
    /\ phase \in Phases
    /\ consumed \in 0 .. Len(received)
    /\ requests \subseteq {"VERIFY", "PLAY", "QUIT"}
    /\ quit_sent \in BOOLEAN
    /\ frame_sent \in BOOLEAN
    /\ Stream!TypeOK

Init ==
    /\ state = "LISTENING"      \* Setup_connection
    /\ drain_state = "FREE"
    /\ setup = 0
    /\ pc = "select"
    /\ phase = "verify"
    /\ consumed = 0
    /\ requests = {}
    /\ quit_sent = FALSE
    /\ frame_sent = FALSE
    /\ Stream!Init

-----------------------------------------------------------------------------
(* The server.                                                             *)

Set_state(s, d) == state' = s /\ drain_state' = d

(* Destroy_connection: two PKT_QUITs, which may both be lost. *)
Destroy ==
    /\ Set_state("FREE", "FREE")
    /\ quit_sent' = TRUE
    /\ pc' = "select"
    /\ UNCHANGED <<setup, client, requests, frame_sent, stream>>

(* Handle_input runs from select, and from a Handle_setup that has written *)
(* a part of the setup data and waits for its acknowledgement.             *)
Handles_input ==
    /\ state # "FREE"
    /\ \/ pc = "select"
       \/ pc = "setup" /\ setup \in 1 .. MapSize - 1 /\ c # <<>>

(* Handle_listening accepts the client's name and writes its answer...     *)
Handle_listening ==
    /\ pc = "select" /\ state = "LISTENING" /\ "VERIFY" \in requests
    /\ Stream!Write(<<VerifyReply>>)
    /\ pc' = "confirm"
    /\ UNCHANGED <<conn, client, datagrams>>

(* ... and sends it at once.  A full socket ends the connection. *)
Confirm ==
    /\ pc = "confirm"
    /\ Stream!SendReliable(MaxPacket, 1)
    /\ Set_state("DRAIN", "SETUP")
    /\ pc' = "select"
    /\ UNCHANGED <<setup, client, datagrams>>

ConfirmFailed == pc = "confirm" /\ Destroy

(* Receive_quit, in every state; in LISTENING any packet but VERIFY. *)
Receive_quit == Handles_input /\ "QUIT" \in requests /\ Destroy

(* c starts with (a part of) the reply to PLAY. *)
Still_replying(buf) == buf # <<>> /\ Head(buf) = PlayReply

(* Bug: the end of DRAIN is never noticed. *)
DrainedNever(rel) == FALSE

(* "All reliable data has been sent and acked": what was sent, at least. *)
Drained(rel) == Stream!AllAcked(rel)

(* The state switches of a Receive_ack that has advanced c to buf.  The    *)
(* code looks at the first byte of c: in the middle of something else it   *)
(* may be taken for a byte of the reply.                                   *)
Switch(rel, buf) ==
    \/ /\ state = "DRAIN" /\ Drained(rel)
       /\ Set_state(drain_state, drain_state)
    \/ /\ state = "READY" /\ ~Still_replying(buf)
       /\ Set_state(drain_state, drain_state)
    \/ /\ state = "READY" => buf # <<>>
       /\ ~(state = "DRAIN" /\ Drained(rel))
       /\ UNCHANGED <<state, drain_state>>

Receive_ack(rel) ==
    /\ Handles_input /\ state # "LISTENING"
    /\ Stream!ReceiveAck(rel)
    /\ IF bad_ack' THEN Set_state("FREE", "FREE")
       ELSE IF Stream!IsNewAck(rel) THEN Switch(rel, c')
       ELSE UNCHANGED <<state, drain_state>>
    /\ quit_sent' = (quit_sent \/ bad_ack')
    /\ UNCHANGED <<setup, pc, client, requests, frame_sent>>

(* Send_reliable, called with room for reliable data in w.  It does        *)
(* nothing more than once in a main loop, nor before the timer fires when  *)
(* there is nothing new to send along.                                     *)
Transmit(room, n) ==
    \/ Stream!SendReliable(room, n)
    \/ Stream!SendNothing
    \/ /\ c # <<>> /\ (sent_this_loop \/ ~Stream!WorthSending(room))
       /\ UNCHANGED stream

TransmitSome(room) == \E n \in 0 .. Stream!FullBurst(room) : Transmit(room, n)

(* Bug: a repeated PLAY logs the player in again. *)
Accepts_playRepeated == state \in {"LOGIN", "READY"}

Accepts_play == state = "LOGIN"

(* Receive_play in LOGIN: Handle_login makes the player, answers and tells *)
(* the client about the players; or it refuses.                            *)
Handle_login ==
    /\ pc = "select" /\ Accepts_play /\ "PLAY" \in requests
    /\ \/ /\ Stream!Write(LoginChunk)
          /\ Set_state("READY", "PLAYING")
          /\ UNCHANGED <<setup, pc, client, datagrams>>
       \/ Destroy

(* Receive_play in PLAYING: a repeated PLAY prompts a transmission. *)
Play_again ==
    /\ pc = "select" /\ state = "PLAYING" /\ "PLAY" \in requests
    /\ TransmitSome(MaxPacket)
    /\ UNCHANGED <<conn, pc, client, datagrams>>

(* A new main loop.  Input() times out silent connections first. *)
Main_loop ==
    /\ pc = "select" /\ state # "FREE"
    /\ Stream!Tick
    /\ pc' = IF state = "SETUP" THEN "setup" ELSE "send"
    /\ UNCHANGED <<conn, client, datagrams>>

(* Bug: nobody waits for the timeout of a login. *)
Times_outPlaying == state \in {"LISTENING", "PLAYING"}

Times_out == state # "FREE"

Timeout == pc = "select" /\ Times_out /\ Destroy

Setup_len(room) == Stream!MinOf(room, MapSize - setup)

(* Handle_setup writes as much of the setup data as fits the window, and   *)
(* leaves SETUP when all of it has been written.                           *)
Handle_setup ==
    /\ pc = "setup" /\ state = "SETUP"
    /\ LET room == Stream!MaxOf(SetupWindow - Len(c), 0)
           len == Setup_len(room)
       IN  /\ setup' = setup + len
           /\ IF len > 0 THEN Stream!Write(MapChunk(len))
                         ELSE UNCHANGED stream
           /\ IF room > 0 /\ setup + len >= MapSize
              THEN Set_state("DRAIN", "LOGIN")
              ELSE UNCHANGED <<state, drain_state>>
    /\ pc' = "send"
    /\ UNCHANGED <<client, datagrams>>

(* Input() ends with a transmission for the connections that are not       *)
(* PLAYING...                                                              *)
Send ==
    /\ pc = "send" /\ state \in {"DRAIN", "READY", "SETUP", "LOGIN"}
    /\ IF c = <<>> THEN UNCHANGED stream ELSE TransmitSome(MaxPacket)
    /\ pc' = "select"
    /\ UNCHANGED <<conn, client, datagrams>>

(* ... the others get a frame update, with reliable data in the room it    *)
(* leaves, if any.  LISTENING connections get nothing.                     *)
Send_frame ==
    /\ pc = "send" /\ state \in {"PLAYING", "LISTENING"}
    /\ \/ UNCHANGED stream
       \/ /\ state = "PLAYING" /\ c # <<>>
          /\ \E room \in Stream!Rooms \ {MaxPacket} : TransmitSome(room)
    /\ pc' = "select"
    /\ frame_sent' = (frame_sent \/ state = "PLAYING")
    /\ UNCHANGED <<conn, client, requests, quit_sent>>

(* The game tells the player something. *)
Tell_player ==
    /\ pc = "select" /\ state \in {"READY", "PLAYING"}
    /\ Stream!Write(<<Message>>)
    /\ UNCHANGED <<conn, pc, client, datagrams>>

-----------------------------------------------------------------------------
(* The client.                                                             *)

Alive == phase \notin {"dead", "confused"}

(* Net_verify and Net_start repeat their request until they are answered. *)
Send_verify ==
    /\ phase = "verify"
    /\ requests' = requests \cup {"VERIFY"}
    /\ UNCHANGED <<conn, pc, client, quit_sent, frame_sent, stream>>

Send_play ==
    /\ phase = "start"
    /\ requests' = requests \cup {"PLAY"}
    /\ UNCHANGED <<conn, pc, client, quit_sent, frame_sent, stream>>

(* Until it plays the client reads a packet only when cbuf is empty. *)
Receive_reliable(p) ==
    /\ Alive
    /\ phase # "playing" => consumed = Len(received)
    /\ Stream!ReceiveReliable(p)
    /\ UNCHANGED <<conn, pc, client, datagrams>>

Map_consumed == Cardinality({i \in 1 .. consumed : received[i] = MapData})

(* The phase after unit u has been taken from cbuf. *)
Phase_after(u) ==
    CASE phase = "verify" /\ u = VerifyReply -> "setup"
      [] phase = "setup" /\ u = MapData ->
            IF Map_consumed + 1 = MapSize THEN "start" ELSE "setup"
      [] phase = "start" /\ u = PlayReply -> "playing"
      [] phase = "playing" /\ u \in {PlayReply, Message} -> "playing"
      [] OTHER -> "confused"

Consume ==
    /\ Alive
    /\ consumed < Len(received)
    /\ consumed' = consumed + 1
    /\ phase' = Phase_after(received[consumed + 1])
    /\ UNCHANGED <<conn, pc, datagrams, stream>>

(* A frame update before Net_start is an unexpected packet; Net_start      *)
(* skips it.                                                               *)
Receive_frame ==
    /\ Alive /\ frame_sent
    /\ phase' = IF phase \in {"verify", "setup"} THEN "confused" ELSE phase
    /\ UNCHANGED <<conn, pc, consumed, datagrams, stream>>

(* Out of retries, or the user leaves: Net_cleanup sends PKT_QUIT. *)
Give_up ==
    /\ Alive
    /\ phase' = "dead"
    /\ requests' = requests \cup {"QUIT"}
    /\ UNCHANGED <<conn, pc, consumed, quit_sent, frame_sent, stream>>

Receive_server_quit ==
    /\ Alive /\ quit_sent
    /\ phase' = "dead"
    /\ UNCHANGED <<conn, pc, consumed, datagrams, stream>>

-----------------------------------------------------------------------------
Lose ==
    /\ \/ /\ \E r \in requests : requests' = requests \ {r}
          /\ UNCHANGED stream
       \/ /\ \/ \E p \in to_client : Stream!LosePacket(p)
             \/ \E rel \in to_server : Stream!LoseAck(rel)
          /\ UNCHANGED requests
    /\ UNCHANGED <<conn, pc, client, quit_sent, frame_sent>>

Server ==
    \/ Handle_listening \/ Confirm \/ ConfirmFailed
    \/ \E rel \in to_server : Receive_ack(rel)
    \/ Receive_quit \/ Handle_login \/ Play_again
    \/ Main_loop \/ Timeout \/ Handle_setup \/ Send \/ Send_frame
    \/ Tell_player

Client ==
    \/ Send_verify \/ Send_play
    \/ \E p \in to_client : Receive_reliable(p)
    \/ Consume \/ Receive_frame \/ Give_up \/ Receive_server_quit

Next == Server \/ Client \/ Lose

Spec == Init /\ [][Next]_vars

-----------------------------------------------------------------------------
(* Fairness for a network that lets through what is sent again and again,  *)
(* a client that keeps asking, and a server whose main loop keeps running. *)
(* A socket holds what arrives until the server is back in select(2): what *)
(* the client keeps sending is also sent when the server is there.         *)
ClientFairness ==
    /\ SF_vars(pc = "select" /\ (Send_verify \/ Send_play))
    /\ WF_vars(Consume)
    /\ SF_vars(\E p \in to_client :
                    Stream!NewData(p) # <<>> /\ Receive_reliable(p))
    /\ SF_vars(/\ pc = "select"
               /\ \E p \in to_client :
                     Stream!NewData(p) = <<>> /\ Receive_reliable(p))

ServerFairness ==
    /\ WF_vars(Main_loop) /\ WF_vars(Handle_setup)
    /\ WF_vars(Confirm \/ ConfirmFailed)
    /\ WF_vars(Send \/ Send_frame)
    /\ SF_vars(Handle_listening) /\ SF_vars(Handle_login)
    /\ SF_vars((Send \/ Play_again) /\ to_client' # to_client)
    /\ SF_vars(\E rel \in to_server :
                    rel > reliable_offset /\ Receive_ack(rel))

LoginSpec == Spec /\ ClientFairness /\ ServerFairness

(* Fairness for the clocks alone, whatever the network does: the server    *)
(* destroys a connection that is not PLAYING in time, or is silent, and    *)
(* the client gives up a request that is not answered.                     *)
ClockFairness ==
    /\ WF_vars(Main_loop) /\ WF_vars(Handle_setup)
    /\ WF_vars(Confirm \/ ConfirmFailed)
    /\ WF_vars(Send \/ Send_frame)
    /\ SF_vars((state # "PLAYING" \/ ~Alive) /\ Timeout)
    /\ WF_vars(phase # "playing" /\ Give_up)

ClockSpec == Spec /\ ClockFairness

-----------------------------------------------------------------------------
(* Properties.                                                             *)

Count(seq, u) == Cardinality({i \in DOMAIN seq : seq[i] = u})

(* The two state machines stay in step: the server goes on only when the   *)
(* client has what the state is about, and never waits for a request that  *)
(* the client has stopped sending.  The client never meets, in its stream  *)
(* or in a datagram, what its Net_ function does not expect: a message     *)
(* before the reply to PLAY, a frame update before it has the map.         *)
(* However often its requests arrive, the client is verified once and one  *)
(* player is made for it.                                                  *)
InStep ==
    /\ phase # "confused"
    /\ Count(written, VerifyReply) <= 1
    /\ Count(written, PlayReply) <= 1
    /\ state \in {"SETUP", "LOGIN", "READY", "PLAYING"}
          => Count(received, VerifyReply) = 1
    /\ state \in {"READY", "PLAYING"} => Count(received, MapData) = MapSize
    /\ phase = "start" => state \notin {"LISTENING", "SETUP"}
    /\ phase = "playing" => state \in {"READY", "PLAYING", "FREE"}

(* Under LoginSpec: a login succeeds unless one of the two sides ends it.  *)
LoginSucceeds ==
    <>(\/ state = "FREE"
       \/ ~Alive
       \/ state = "PLAYING" /\ phase = "playing")

(* Under ClockSpec: a connection does not stay half open.  In the end it   *)
(* is free again, or both sides play.                                      *)
NeverHalfOpen ==
    <>[](state = "FREE" \/ (state = "PLAYING" /\ phase = "playing"))
=============================================================================
