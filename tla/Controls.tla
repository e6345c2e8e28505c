------------------------------ MODULE Controls ------------------------------
(***************************************************************************)
(* What a playing client tells its server over UDP: the state of the keys, *)
(* movements of the mouse, and talk.  Client: netclient.c (Net_key_change, *)
(* Net_flush, Net_input, Send_keyboard, Send_pointer_move, Net_talk) and   *)
(* client.c (predict_self_dir); server: netserver.c (Receive_keyboard,     *)
(* Receive_pointer_move, Receive_talk) and player.c (Go_home).             *)
(*                                                                         *)
(* Keys are sent again until a frame acknowledges them, talk until the     *)
(* reliable stream brings its acknowledgement, mouse movements never: what *)
(* is sent is the sum of them all.                                         *)
(*                                                                         *)
(* The client compares last_loops with its value when keys and talk were   *)
(* last sent: the model keeps these distances (updated, wait).  A ship is  *)
(* turned by keys, too, and by Go_home: directions are those of the mouse  *)
(* alone, to which the others add the same on both sides.                  *)
(***************************************************************************)
EXTENDS Integers, SequencesExt, FiniteSets

CONSTANTS
    Keyvs,          \* states of the keyboard
    NoKeys,         \* none of the keys is pressed
    Strings, Commands,  \* what is typed: talk, and commands for the client
    TALK_RETRY,     \* frames between two attempts to send talk
    MaxPredict,     \* how many movements predict_self_dir looks at: 50
    W,              \* values of a 16 bit integer: 2^16
    Earlier,        \* how far the mouse has been moved before
    MaxChanges, MaxMoves, MaxTalks,     \* bounds: what the player does
    NetSize, MaxFrames  \* bounds: datagrams and frames under way

ASSUME ControlsConstants ==
    /\ NoKeys \in Keyvs
    /\ Strings \cap Commands = {}
    /\ {TALK_RETRY, MaxPredict, Earlier} \subseteq Nat
    /\ W \in Nat /\ W % 2 = 0 /\ 2 * MaxMoves < W
    /\ {MaxChanges, MaxMoves, MaxTalks, NetSize, MaxFrames} \subseteq Nat

VARIABLES
    client,         \* the client's state, a record
    to_server,      \* datagrams under way to the server
    frames,         \* frames under way to the client
    talk_acks,      \* acknowledgements of talk in the reliable stream
    connp,          \* the server's record of the connection and its player
    typed,          \* the talk that has been typed
    said            \* the talk that the server has handled

vars == <<client, to_server, frames, talk_acks, connp, typed, said>>

Greater(a, b) == IF a > b THEN a ELSE b

(* One after the other; TLC takes long for FoldLeft. *)
FoldRecords(op(_, _), base, seq) ==
    LET upto[n \in 0 .. Len(seq)] ==
            IF n = 0 THEN base ELSE op(upto[n - 1], seq[n])
    IN  upto[Len(seq)]

(* What %hd makes of an integer. *)
short(n) == ((n + W \div 2) % W) - W \div 2

Init ==
    /\ client = [
          keyv |-> NoKeys, last_keyboard_change |-> 0,
          last_keyboard_ack |-> 0,
          updated |-> FALSE,    \* last_keyboard_update = last_loops
          talk_pending |-> 0, talk_sequence_num |-> 0, talk_str |-> "",
          wait |-> 0,           \* TALK_RETRY - (last_loops - talk_last_send)
          silent |-> FALSE,     \* time - last_send_anything > 5
          dirPrediction |-> TRUE, pointer_moves |-> <<>>, moved |-> 0,
          painted |-> Earlier,  \* the direction that the ship is shown in
          wbuf |-> <<>>, out |-> {}]
    /\ to_server = {} /\ frames = <<>> /\ talk_acks = <<>>
    /\ connp = [last_key_change |-> 0, last_keyv |-> NoKeys,
                sent_home |-> FALSE,    \* since the last key change came
                destroyed |-> FALSE,
                last_mouse_pos |-> short(Earlier), turned |-> Earlier,
                talk_sequence_num |-> 0]
    /\ typed = <<>> /\ said = <<>>

-----------------------------------------------------------------------------
(* The client's functions, from a state c of it to the next. *)

(* To wbuf. *)
Packet_printf(c, r) == [c EXCEPT !.wbuf = Append(@, r)]

Sockbuf_flush(c) == [c EXCEPT !.out = @ \cup {c.wbuf}, !.wbuf = <<>>]

Send_talk(c) ==
    IF c.talk_pending = 0 \/ c.wait > 0 THEN c
    ELSE [Packet_printf(c, [type |-> "TALK", seq |-> c.talk_pending, str |-> c.talk_str])
             EXCEPT !.wait = TALK_RETRY]

(* Bug: the keyboard stays in the buffer. *)
Send_keyboardUnflushed(c) ==
    Send_talk([Packet_printf(c, [type |-> "KEYBOARD", change |-> c.last_keyboard_change,
                         keyv |-> c.keyv])
                  EXCEPT !.updated = TRUE])

Send_keyboard(c) ==
    Sockbuf_flush(Send_talk(
        [Packet_printf(c, [type |-> "KEYBOARD", change |-> c.last_keyboard_change,
                   keyv |-> c.keyv])
            EXCEPT !.updated = TRUE]))

Net_key_change(c) ==
    Send_keyboard([c EXCEPT !.last_keyboard_change = @ + 1])

Net_flush(c) ==
    IF c.wbuf = <<>> THEN c
    ELSE IF c.last_keyboard_ack # c.last_keyboard_change /\ ~c.updated
    THEN Send_keyboard(c)
    ELSE [Sockbuf_flush(Send_talk(c)) EXCEPT !.silent = FALSE]

(* Bug: a movement is remembered with the number of a later key change. *)
MovementLate(c, movement) ==
    [id |-> c.last_keyboard_change + 2, movement |-> movement]

(* A pointer move and the number of the key change that goes with it. *)
Movement(c, movement) ==
    [id |-> c.last_keyboard_change + 1, movement |-> movement]

(* pointer_moves holds the moves that predict_self_dir looks at, latest    *)
(* first.                                                                  *)
Send_pointer_move(c, movement) ==
    LET total == Earlier + c.moved + movement
        c1 == Packet_printf([c EXCEPT !.moved = @ + movement],
                    [type |-> "POINTER_MOVE", movement |-> short(total)])
        moves == <<Movement(c, movement)>> \o c.pointer_moves
    IN  IF ~c.dirPrediction THEN c1
        ELSE Net_key_change([c1 EXCEPT !.pointer_moves =
                 SubSeq(moves, 1, IF Len(moves) < MaxPredict THEN Len(moves)
                                                             ELSE MaxPredict)])

predict_self_dir(c, received_dir) ==
    FoldRecords(LAMBDA dir, m :
                    IF m.id > c.last_keyboard_ack THEN dir + m.movement ELSE dir,
                received_dir, c.pointer_moves)

Receive_start(c, f, loops) ==
    LET c1 == [c EXCEPT !.updated = FALSE,
                        !.wait = Greater(c.wait - loops, 0),
                        !.last_keyboard_ack =
                            IF f.key_ack > c.last_keyboard_change
                            THEN @ ELSE Greater(f.key_ack, @)]
    IN  [c1 EXCEPT !.painted = IF ~c1.dirPrediction THEN f.dir
                               ELSE predict_self_dir(c1, f.dir)]

(* Bug: talk is over as soon as anything is acknowledged. *)
Receive_talk_ackAny(c, talk_ack) == [c EXCEPT !.talk_pending = 0]

Receive_talk_ack(c, talk_ack) ==
    IF talk_ack >= c.talk_pending THEN [c EXCEPT !.talk_pending = 0] ELSE c

(* Bug: keys are not sent again. *)
AnswerOnce(c) == Net_flush(c)

(* Bug: nothing is sent for the sake of the talk alone. *)
AnswerKeys(c) ==
    IF c.last_keyboard_ack # c.last_keyboard_change /\ ~c.updated
    THEN Send_keyboard(c) ELSE Net_flush(c)

(* The end of Net_input. *)
Answer(c) ==
    IF \/ c.last_keyboard_ack # c.last_keyboard_change /\ ~c.updated
       \/ c.silent
    THEN [Send_keyboard(c) EXCEPT !.silent = FALSE]
    ELSE Net_flush(c)

-----------------------------------------------------------------------------
(* The client's actions.  What it sends pushes out another datagram when   *)
(* there are NetSize.                                                      *)

Becomes(c) ==
    /\ client' = [c EXCEPT !.out = {}]
    /\ to_server' \in
          IF Cardinality(to_server \cup c.out) <= NetSize
          THEN {to_server \cup c.out}
          ELSE {(to_server \ {d}) \cup c.out : d \in to_server}

(* Keyboard_button_pressed and the like. *)
Keys_change ==
    /\ client.last_keyboard_change < MaxChanges
    /\ \E k \in Keyvs \ {client.keyv} :
          Becomes(Net_key_change([client EXCEPT !.keyv = k]))
    /\ UNCHANGED <<frames, talk_acks, connp, typed, said>>

Client_pointer_move ==
    /\ client.moved < MaxMoves
    /\ client.last_keyboard_change < MaxChanges
    /\ Becomes(Send_pointer_move(client, 1))
    /\ UNCHANGED <<frames, talk_acks, connp, typed, said>>

(* Turned on, prediction forgets all movements and acknowledgements. *)
Set_dirPrediction ==
    /\ client' = IF client.dirPrediction
                 THEN [client EXCEPT !.dirPrediction = FALSE]
                 ELSE [client EXCEPT !.dirPrediction = TRUE,
                                     !.pointer_moves = <<>>,
                                     !.last_keyboard_ack = 0]
    /\ UNCHANGED <<to_server, frames, talk_acks, connp, typed, said>>

Net_talk(str) ==
    LET seq == client.talk_sequence_num + 1
    IN  IF str \in Commands
        THEN /\ client' = [client EXCEPT !.talk_str = str]
             /\ UNCHANGED <<to_server, typed>>
        ELSE /\ Becomes(Send_talk([client EXCEPT !.talk_str = str,
                           !.talk_sequence_num = seq, !.talk_pending = seq,
                           !.wait = 0]))
             /\ typed' = Append(typed, str)

Talk ==
    /\ \E str \in Strings \cup Commands :
          /\ str \in Strings => client.talk_sequence_num < MaxTalks
          /\ Net_talk(str)
    /\ UNCHANGED <<frames, talk_acks, connp, said>>

(* The main loop, before it waits. *)
Flush ==
    /\ client.wbuf # <<>>
    /\ Becomes(Net_flush(client))
    /\ UNCHANGED <<frames, talk_acks, connp, typed, said>>

(* Net_input processes frame f, which is later than the one before by some *)
(* loops, and reliable data with n acknowledgements in it.  Frames that    *)
(* come after a later one are not processed.                               *)
Process(f, loops, n) ==
    /\ UNCHANGED <<connp, typed, said>>
    /\ frames' = SubSeq(frames, f + 1, Len(frames))
    /\ talk_acks' = SubSeq(talk_acks, n + 1, Len(talk_acks))
    /\ \E c \in {FoldRecords(Receive_talk_ack,
                            Receive_start(client, frames[f], loops),
                            SubSeq(talk_acks, 1, n))} : Becomes(Answer(c))

Net_input ==
    \E f \in 1 .. Len(frames), loops \in 1 .. TALK_RETRY,
       n \in 0 .. Len(talk_acks) : Process(f, loops, n)

(* More than five seconds pass. *)
Silence ==
    /\ ~client.silent /\ client' = [client EXCEPT !.silent = TRUE]
    /\ UNCHANGED <<to_server, frames, talk_acks, connp, typed, said>>

-----------------------------------------------------------------------------
(* The server's functions, from a state s of it to the next. *)

(* Bug: keys are taken from any keyboard packet, in order or not. *)
IsNewKeyAny(s, r) == r.change # s.connp.last_key_change

IsNewKey(s, r) == r.change > s.connp.last_key_change

Receive_keyboard(s, r) ==
    LET new == IF ~IsNewKey(s, r) THEN s
               ELSE [s EXCEPT !.connp.last_key_change = r.change,
                              !.connp.last_keyv = r.keyv,
                              !.connp.sent_home = FALSE]
    IN  [new EXCEPT !.num_keyboard_updates = @ + 1,
                    !.connp.destroyed = s.num_keyboard_updates > 0]

Receive_pointer_move(s, r, hoverpaused) ==
    IF hoverpaused THEN s
    ELSE [s EXCEPT !.connp.last_mouse_pos = r.movement,
                   !.connp.turned = @ + short(r.movement - s.connp.last_mouse_pos)]

IsNewTalk(s, r) == r.seq > s.connp.talk_sequence_num

Receive_talk(s, r) ==
    IF ~IsNewTalk(s, r) THEN s
    ELSE [s EXCEPT !.connp.talk_sequence_num = r.seq,
                   !.talk_acks = Append(@, r.seq),
                   !.said = Append(@, [seq |-> r.seq, str |-> r.str])]

(* The rest of a datagram is not processed once the connection is gone. *)
Receive(s, r, hoverpaused) ==
    IF s.connp.destroyed THEN s
    ELSE CASE r.type = "KEYBOARD" -> Receive_keyboard(s, r)
           [] r.type = "POINTER_MOVE" -> Receive_pointer_move(s, r, hoverpaused)
           [] r.type = "TALK" -> Receive_talk(s, r)

(* The server's actions. *)

(* A datagram is read; it may come again, until it is lost. *)
Handle_input(d) ==
    /\ ~connp.destroyed
    /\ UNCHANGED <<client, to_server, frames, typed>>
    /\ \E hoverpaused \in BOOLEAN :
          LET s == FoldRecords(LAMBDA s0, r : Receive(s0, r, hoverpaused),
                            [connp |-> connp, num_keyboard_updates |-> 0,
                             talk_acks |-> talk_acks, said |-> said],
                            d)
          IN  /\ connp' = s.connp
              /\ talk_acks' = s.talk_acks
              /\ said' = s.said

Input == \E d \in to_server : Handle_input(d)

(* The ship appears at its base, after death or a pause.  No key is        *)
(* pressed any more, whatever the client holds, and the number of the last *)
(* change stays.                                                           *)
Go_home ==
    /\ ~connp.destroyed
    /\ connp' = [connp EXCEPT !.last_keyv = NoKeys, !.sent_home = TRUE]
    /\ UNCHANGED <<client, to_server, frames, talk_acks, typed, said>>

Send_start_of_frame ==
    /\ ~connp.destroyed /\ Len(frames) < MaxFrames
    /\ frames' = Append(frames, [key_ack |-> connp.last_key_change,
                                 dir |-> connp.turned])
    /\ UNCHANGED <<client, to_server, talk_acks, connp, typed, said>>

(* The network. *)

Lose ==
    /\ \/ /\ \E d \in to_server : to_server' = to_server \ {d}
          /\ UNCHANGED frames
       \/ /\ \E f \in 1 .. Len(frames) : frames' = RemoveAt(frames, f)
          /\ UNCHANGED to_server
    /\ UNCHANGED <<client, talk_acks, connp, typed, said>>

Next ==
    \/ Keys_change \/ Client_pointer_move \/ Set_dirPrediction \/ Talk
    \/ Flush \/ Net_input \/ Silence
    \/ Input \/ Go_home \/ Send_start_of_frame
    \/ Lose

Spec == Init /\ [][Next]_vars

HasNewest(d) ==
    \E n \in 1 .. Len(d) :
       d[n].type = "KEYBOARD" /\ d[n].change = client.last_keyboard_change
HasTalk(d) ==
    \E n \in 1 .. Len(d) :
       d[n].type = "TALK" /\ d[n].seq = client.talk_pending

(* The server sends frames, the client's clock runs, and both processes    *)
(* read what comes.  What is sent again and again comes through in the     *)
(* end, and the reliable stream delivers.                                  *)
FairSpec ==
    /\ Spec
    /\ WF_vars(Send_start_of_frame)
    /\ SF_vars(\E f \in 1 .. Len(frames), loops \in 1 .. TALK_RETRY :
                   Process(f, loops, Len(talk_acks)))
    /\ WF_vars(Silence)
    /\ SF_vars(\E d \in to_server : HasNewest(d) /\ Handle_input(d))
    /\ SF_vars(\E d \in to_server : HasTalk(d) /\ Handle_input(d))

-----------------------------------------------------------------------------
(* Properties.                                                             *)

Record ==
    [type : {"KEYBOARD"}, change : 0 .. MaxChanges, keyv : Keyvs]
    \cup [type : {"POINTER_MOVE"}, movement : -(W \div 2) .. W \div 2 - 1]
    \cup [type : {"TALK"}, seq : 1 .. MaxTalks, str : Strings \cup Commands]

TypeOK ==
    /\ client.keyv \in Keyvs
    /\ client.last_keyboard_change \in 0 .. MaxChanges
    /\ client.last_keyboard_ack \in 0 .. MaxChanges
    /\ client.talk_pending \in {0, client.talk_sequence_num}
    /\ client.wait \in 0 .. TALK_RETRY
    /\ \A d \in to_server \cup {client.wbuf} : d \in Seq(Record)
    /\ \A f \in Range(frames) : f.key_ack \in 0 .. MaxChanges /\ f.dir \in Int
    /\ connp.last_keyv \in Keyvs /\ connp.sent_home \in BOOLEAN
    /\ connp.last_mouse_pos \in -(W \div 2) .. W \div 2 - 1
    /\ typed \in Seq(Strings) /\ Len(typed) = client.talk_sequence_num

(* An acknowledged key change has reached the ship: when the client stops  *)
(* sending its keys, the server has these very keys, whatever old          *)
(* keyboards are still under way, or none since the ship has been sent     *)
(* home, which no old keyboard undoes either.  The server never            *)
(* acknowledges what has not been sent, which the client would complain    *)
(* of.                                                                     *)
AckedKeysHold ==
    /\ client.last_keyboard_ack <= connp.last_key_change
    /\ connp.last_key_change <= client.last_keyboard_change
    /\ connp.last_key_change = client.last_keyboard_change
          => connp.last_keyv = IF connp.sent_home THEN NoKeys ELSE client.keyv

(* The keys that are held are those the ship obeys once they have been     *)
(* acknowledged.  It does not hold: Go_home forgets them, and the client   *)
(* has no reason to send them again before the next key change.            *)
HeldKeysObeyed ==
    client.last_keyboard_ack = client.last_keyboard_change
       => connp.last_keyv = client.keyv

(* No client is thrown out for using macros, that is for two keyboards in  *)
(* one datagram: there is one at most, however input, frames and flushes   *)
(* alternate.                                                              *)
NoMacros == ~connp.destroyed

(* Direction prediction never turns the ship further than the mouse was    *)
(* moved: no movement is counted twice, by the server in the direction it  *)
(* sends and by the client as not acknowledged yet, and none by the        *)
(* server, whose integers of 16 bits overflow.                             *)
NeverOvershoots ==
    /\ connp.turned <= Earlier + client.moved
    /\ client.painted <= Earlier + client.moved

(* Talk is said once, in order, and the client repeats the last talk until *)
(* it has been said: a late acknowledgement of earlier talk does not stop  *)
(* it.                                                                     *)
SaidOnce ==
    /\ \A m, n \in 1 .. Len(said) : m < n => said[m].seq < said[n].seq
    /\ client.talk_pending = 0 /\ typed # <<>>
          => said # <<>> /\ Last(said).seq = client.talk_sequence_num

(* Talk is for the server, "a clientcommand" (netclient.c:2468) is for the *)
(* client: what is said was typed as talk.  It does not hold: Net_talk     *)
(* keeps the command where pending talk was.                               *)
SaysWhatWasTyped ==
    \A n \in 1 .. Len(said) : said[n].str = typed[said[n].seq]

(* Under FairSpec: the ship's keys become the player's, again and again,   *)
(* but for a ship that has been sent home after the newest change came.    *)
KeysArrive ==
    []<>(/\ connp.last_key_change = client.last_keyboard_change
         /\ connp.sent_home \/ connp.last_keyv = client.keyv)

(* Under FairSpec: the last talk is said in the end, even when no more     *)
(* keys are pressed.                                                       *)
TalkArrives == []<>(client.talk_pending = 0)
=============================================================================
