------------------------------ MODULE Admission ------------------------------
(***************************************************************************)
(* The way into the game: a client asks to be queued (client/              *)
(* textinterface.c), the server keeps it in qp_list until there is a seat  *)
(* (Queue_player, Queue_loop and Queue_advance_player in server/contact.c),*)
(* sets up a connection for it and tells it the port (Setup_connection in  *)
(* netserver.c), and the client verifies itself there.  Connection says    *)
(* what happens on one connection from then on.  Operators lock the game,  *)
(* which keeps new players out (Cmd_lock, Cmd_op in server/command.c).     *)
(*                                                                         *)
(* Datagrams are lost, late and repeated: a request once sent may arrive   *)
(* at any time, and so may the last reply sent to a client and its         *)
(* PKT_VERIFY to the last port it was told.  Clocks are not counted: an    *)
(* entry or a connection may time out at any time, and a client may be     *)
(* refused or stop, and ask again, at any time.  Every client has a        *)
(* computer of its own, but two may want the same nick.                    *)
(***************************************************************************)
EXTENDS Integers, Sequences, FiniteSets, SequencesExt

CONSTANTS
    Client,
    Nick,               \* the nick each of them wants
    Port,               \* as many as max_connections
    MaxQueuedPlayers,
    NumBases,           \* more ships than that are not let in
    MaxRobots,
    Password,           \* the clients who know it
    MaxGrants           \* bound: NumOperators may be off by so many

ASSUME Names == IsFiniteSet(Client) /\ DOMAIN Nick = Client /\ Password \subseteq Client

ASSUME Sizes ==
    /\ IsFiniteSet(Port)
    /\ MaxQueuedPlayers \in Nat /\ NumBases \in Nat /\ MaxRobots \in Nat
    /\ MaxGrants \in Nat

NoPort == "no port"
Nobody == "nobody"

ASSUME NoSuchPort == NoPort \notin Port /\ Nobody \notin Client

VARIABLES
    qp_list,        \* [client, port] of the players in the queue
    NumQueuedPlayers,
    Conn,           \* [state, client] of the connection at each port
    paused,         \* players who are paused
    NumRobots,
    game_lock,
    isoperator, NumOperators,
    phase, login_port,              \* of each client
    requests,       \* clients an ENTER_QUEUE is on its way from
    replies         \* the port in the ENTER_GAME on its way to each client

queue == <<qp_list, NumQueuedPlayers>>
client == <<phase, login_port>>
players == <<paused, isoperator, NumOperators>>
datagrams == <<requests, replies>>
vars == <<queue, Conn, players, NumRobots, game_lock, client, datagrams>>

States == {"FREE", "LISTENING", "LOGIN", "PLAYING"}
Free == [state |-> "FREE", client |-> Nobody]

TypeOK ==
    /\ qp_list \in Seq([client : Client, port : Port \cup {NoPort}])
    /\ NumQueuedPlayers \in 0 .. MaxQueuedPlayers
    /\ Conn \in [Port -> [state : States, client : Client \cup {Nobody}]]
    /\ paused \subseteq Client
    /\ NumRobots \in 0 .. MaxRobots
    /\ game_lock \in BOOLEAN
    /\ isoperator \subseteq Client
    /\ NumOperators \in -Cardinality(Client) - MaxGrants .. MaxGrants + 1
    /\ phase \in [Client -> {"out", "entering"}]
    /\ login_port \in [Client -> Port \cup {NoPort}]
    /\ requests \subseteq Client
    /\ replies \in [Client -> Port \cup {NoPort}]

Init ==
    /\ qp_list = <<>>
    /\ NumQueuedPlayers = 0
    /\ Conn = [p \in Port |-> Free]
    /\ paused = {}
    /\ NumRobots = 0
    /\ game_lock = FALSE
    /\ isoperator = {} /\ NumOperators = 0
    /\ phase = [c \in Client |-> "out"]
    /\ login_port = [c \in Client |-> NoPort]
    /\ requests = {}
    /\ replies = [c \in Client |-> NoPort]

-----------------------------------------------------------------------------
(* The client (Process_commands, Net_verify).                              *)

(* It asks for a place in the queue, and asks again to keep it. *)
Ask(c) ==
    /\ phase[c] = "out"
    /\ requests' = requests \cup {c}
    /\ UNCHANGED <<queue, Conn, players, NumRobots, game_lock, client, replies>>

Get_reply(c) ==
    /\ phase[c] = "out" /\ replies[c] # NoPort
    /\ phase' = [phase EXCEPT ![c] = "entering"]
    /\ login_port' = [login_port EXCEPT ![c] = replies[c]]
    /\ UNCHANGED <<queue, Conn, players, NumRobots, game_lock, datagrams>>

(* It gives up, quits or crashes; its server may not be told. *)
Leave(c) ==
    /\ phase[c] = "entering"
    /\ phase' = [phase EXCEPT ![c] = "out"]
    /\ UNCHANGED <<queue, Conn, players, NumRobots, game_lock, login_port, datagrams>>

-----------------------------------------------------------------------------
(* Connections (netserver.c).                                              *)

Busy == {p \in Port : Conn[p].state # "FREE"}
Players(conns) == {conns[p].client : p \in {q \in Port : conns[q].state = "PLAYING"}}
Logins(conns) == {p \in Port : conns[p].state \in {"LISTENING", "LOGIN"}}
Ships(conns, robots) ==
    Cardinality(Players(conns)) + Cardinality(Logins(conns)) + robots

Destroy(conns, P) == [p \in Port |-> IF p \in P THEN Free ELSE conns[p]]

(* Bug: a nick is looked for among the players only. *)
SameNickPlaying(conns, c) ==
    {p \in Port : conns[p].state = "PLAYING" /\ Nick[conns[p].client] = Nick[c]}

SameNick(conns, c) ==
    {p \in Port : conns[p].state # "FREE" /\ Nick[conns[p].client] = Nick[c]}

FreePorts(conns) == {p \in Port : conns[p].state = "FREE"}

(* Bug: a client that has a port already gets another. *)
SetupAnother(conns, c) ==
    IF \A p \in SameNick(conns, c) : conns[p] = [state |-> "LISTENING", client |-> c]
    THEN FreePorts(conns) ELSE {}

(* Setup_connection: the ports it may return; none is -1. *)
Setup_connection(conns, c) ==
    LET same == SameNick(conns, c)
    IN  IF same = {} THEN FreePorts(conns)
        ELSE {p \in same : conns[p] = [state |-> "LISTENING", client |-> c]}

Listen(conns, p, c) == [conns EXCEPT ![p] = [state |-> "LISTENING", client |-> c]]

(* Check_connection has not returned -1. *)
Check_connection(c) ==
    \E p \in Port : Conn[p] = [state |-> "LISTENING", client |-> c]

(* Handle_listening: a client with another name ends the connection.       *)
Handle_listening(c) ==
    /\ login_port[c] # NoPort /\ Conn[login_port[c]].state = "LISTENING"
    /\ Conn' = [Conn EXCEPT ![login_port[c]] =
                  IF @.client = c THEN [@ EXCEPT !.state = "LOGIN"] ELSE Free]
    /\ UNCHANGED <<queue, players, NumRobots, game_lock, client, datagrams>>

(* Handle_login, at the end of the login of module Connection.             *)
Handle_login(p) ==
    LET c == Conn[p].client
    IN  /\ Conn[p].state = "LOGIN"
        /\ phase[c] = "entering" /\ login_port[c] = p
        /\ IF \E q \in Players(Conn) : Nick[q] = Nick[c]
           THEN Conn' = Destroy(Conn, {p})
           ELSE Conn' = [Conn EXCEPT ![p].state = "PLAYING"]
        /\ UNCHANGED <<queue, players, NumRobots, game_lock, client, datagrams>>

(* Delete_player, for some players. *)
Delete_players(gone) ==
    /\ paused' = paused \ gone /\ isoperator' = isoperator \ gone
    /\ NumOperators' = NumOperators - Cardinality(isoperator \cap gone)

(* Destroy_connection: for a timeout, an error, a quit or a kick. *)
Destroy_connection(p) ==
    /\ Conn[p].state # "FREE"
    /\ Conn' = Destroy(Conn, {p})
    /\ Delete_players(Players(Conn) \ Players(Destroy(Conn, {p})))
    /\ game_lock' = (game_lock /\ ~(NumOperators # NumOperators' /\ NumOperators' = 0))
    /\ UNCHANGED <<queue, NumRobots, client, datagrams>>

Pause_player(c) ==
    /\ c \in Players(Conn)
    /\ paused' = IF c \in paused THEN paused \ {c} ELSE paused \cup {c}
    /\ UNCHANGED <<queue, Conn, NumRobots, game_lock, isoperator, NumOperators,
                   client, datagrams>>

(* Bug: a client who is about to enter is not counted. *)
RoomForPlayersOnly ==
    Cardinality(Players(Conn)) + NumRobots < NumBases

RoomForRobot == Ships(Conn, NumRobots) < NumBases

(* Robot_update *)
Robot_create ==
    /\ NumRobots < MaxRobots
    /\ RoomForRobot
    /\ NumRobots' = NumRobots + 1
    /\ UNCHANGED <<queue, Conn, players, game_lock, client, datagrams>>

Robot_delete ==
    /\ NumRobots > 0
    /\ NumRobots' = NumRobots - 1
    /\ UNCHANGED <<queue, Conn, players, game_lock, client, datagrams>>

(* A player gives the password, or a wrong one; operator status comes and  *)
(* goes with it.                                                           *)
Cmd_password(c) ==
    /\ c \in Players(Conn)
    /\ \/ /\ c \in Password \ isoperator
          /\ NumOperators <= MaxGrants
          /\ isoperator' = isoperator \cup {c} /\ NumOperators' = NumOperators + 1
       \/ /\ c \in isoperator
          /\ isoperator' = isoperator \ {c} /\ NumOperators' = NumOperators - 1
    /\ UNCHANGED <<queue, Conn, paused, NumRobots, game_lock, client, datagrams>>

(* Operator o says /op +o or -o of player c. *)
Cmd_op(o, c) ==
    /\ o \in isoperator /\ c \in Players(Conn)
    /\ NumOperators > -MaxGrants
    /\ isoperator' \in {isoperator \cup {c}, isoperator \ {c}} \ {isoperator}
    /\ UNCHANGED <<queue, Conn, paused, NumOperators, NumRobots, game_lock,
                   client, datagrams>>

Cmd_lock(o) ==
    /\ o \in isoperator
    /\ game_lock' = ~game_lock
    /\ UNCHANGED <<queue, Conn, players, NumRobots, client, datagrams>>

-----------------------------------------------------------------------------
(* The queue (contact.c).                                                  *)

Entries == DOMAIN qp_list
Waiting == {i \in Entries : qp_list[i].port = NoPort}
FirstWaiting == CHOOSE i \in Waiting : \A j \in Waiting : i <= j

(* The entries before the first without a login port. *)
Entering == {i \in Entries : \A j \in 1 .. i : j \notin Waiting}

Without(I) ==
    LET kept == {i \in Entries : i \notin I}
        nth(n) == CHOOSE i \in kept : Cardinality({j \in kept : j <= i}) = n
    IN  [n \in 1 .. Cardinality(kept) |-> qp_list[nth(n)]]

Queued(c) == {i \in Entries : Nick[qp_list[i].client] = Nick[c]}

(* Queue_player, for a request Check_names accepts; the others are refused, *)
(* and a client who is on the list already keeps its place.                *)
Queue_player(c) ==
    /\ c \in requests
    /\ ~\E q \in Players(Conn) : Nick[q] = Nick[c]
    /\ Queued(c) = {} /\ Len(qp_list) < MaxQueuedPlayers /\ ~game_lock
    /\ qp_list' = Append(qp_list, [client |-> c, port |-> NoPort])
    /\ NumQueuedPlayers' = Len(qp_list) + 1
    /\ UNCHANGED <<Conn, players, NumRobots, game_lock, client, datagrams>>

(* Bug: the entry goes to the top of the list in any case. *)
AdvanceToTop(i) == 0

(* The entering player after whom Queue_advance_player puts entry i. *)
AdvanceAfter(i) ==
    CHOOSE n \in 0 .. i - 1 :
        /\ n > 0 => qp_list[n].port # NoPort
        /\ \A j \in n + 1 .. i - 1 : qp_list[j].port = NoPort

Queue_advance_player(i) ==
    /\ i \in Entries /\ i > 1 /\ qp_list[i].port = NoPort
    /\ qp_list' = InsertAt(RemoveAt(qp_list, i), AdvanceAfter(i) + 1, qp_list[i])
    /\ UNCHANGED <<NumQueuedPlayers, Conn, players, NumRobots, game_lock,
                   client, datagrams>>

Queue_kick(i) ==
    /\ i \in Entries
    /\ qp_list' = RemoveAt(qp_list, i)
    /\ NumQueuedPlayers' = NumQueuedPlayers - 1
    /\ UNCHANGED <<Conn, players, NumRobots, game_lock, client, datagrams>>

Gone(i) == ~Check_connection(qp_list[i].client)

(* Room is made by kicking a robot, and if that is not enough all who are  *)
(* paused.  (NumRobots and Conn after it.)                                 *)
Seats ==
    LET robots == IF NumRobots > 0 THEN NumRobots - 1 ELSE 0
        idle == {p \in Port : Conn[p].state = "PLAYING" /\ Conn[p].client \in paused}
    IN  IF Ships(Conn, NumRobots) < NumBases \/ game_lock THEN <<NumRobots, Conn>>
        ELSE IF NumRobots > 0 /\ Ships(Conn, robots) < NumBases THEN <<robots, Conn>>
        ELSE <<robots, Destroy(Conn, idle)>>

Drop(I) ==
    /\ qp_list' = Without(I)
    /\ NumQueuedPlayers' = NumQueuedPlayers - Cardinality(I)

(* The entering players before entry i that a run of Queue_loop may find   *)
(* to be silent or gone: a silent one may be anyone.                       *)
FoundGone(i) == SUBSET {j \in Entering : j < i}

(* A run of Queue_loop that reminds entering player i of its port. *)
Queue_remind(i) ==
    /\ i \in Entering /\ ~Gone(i)
    /\ \E I \in FoundGone(i) : Drop(I)
    /\ replies' = [replies EXCEPT ![qp_list[i].client] = qp_list[i].port]
    /\ UNCHANGED <<Conn, players, NumRobots, game_lock, client, requests>>

(* A run that removes a waiting player who is silent, or only entering     *)
(* players it finds gone.                                                  *)
Queue_drop ==
    /\ \E I \in FoundGone(Len(qp_list) + 1),
          J \in {{}} \cup {{j} : j \in Waiting} :
          I \cup J # {} /\ Drop(I \cup J)
    /\ UNCHANGED <<Conn, players, NumRobots, game_lock, client, datagrams>>

(* A run that gets to the first waiting player and gives it a seat.        *)
Queue_enter ==
    /\ Waiting # {}
    /\ LET c == qp_list[FirstWaiting].client
           ports == Setup_connection(Seats[2], c)
           full == Ships(Seats[2], Seats[1]) >= NumBases
       IN  /\ NumRobots' = Seats[1]
           /\ Delete_players(Players(Conn) \ Players(Seats[2]))
           /\ \E I \in FoundGone(FirstWaiting) :
                 \/ /\ full
                    /\ Drop(I) /\ Conn' = Seats[2] /\ UNCHANGED replies
                 \/ /\ ~full /\ ports = {}
                    /\ Drop(I \cup {FirstWaiting})
                    /\ Conn' = Seats[2] /\ UNCHANGED replies
                 \/ /\ ~full
                    /\ \E p \in ports :
                          /\ Conn' = Listen(Seats[2], p, c)
                          /\ qp_list' = [Without(I) EXCEPT
                                           ![FirstWaiting - Cardinality(I)].port = p]
                          /\ replies' = [replies EXCEPT ![c] = p]
                    /\ NumQueuedPlayers' = NumQueuedPlayers - Cardinality(I)
    /\ UNCHANGED <<game_lock, client, requests>>

Next ==
    \/ \E c \in Client :
          \/ Ask(c) \/ Get_reply(c) \/ Leave(c)
          \/ Handle_listening(c) \/ Pause_player(c) \/ Queue_player(c)
          \/ Cmd_password(c) \/ Cmd_lock(c) \/ \E o \in Client : Cmd_op(o, c)
    \/ \E p \in Port : Handle_login(p) \/ Destroy_connection(p)
    \/ \E i \in Entries : Queue_advance_player(i) \/ Queue_kick(i) \/ Queue_remind(i)
    \/ Robot_create \/ Robot_delete \/ Queue_drop \/ Queue_enter

Spec == Init /\ [][Next]_vars

-----------------------------------------------------------------------------
(* Properties.                                                             *)

(* Players, robots and logins together never need more bases than there    *)
(* are, though each of them is counted in a place of its own and kicks     *)
(* make room on the way.  It is about Queue_loop and Robot_update.         *)
SeatsNotOversold == Ships(Conn, NumRobots) <= NumBases

(* No nick has two connections, or two places in the queue, whatever       *)
(* was lost or repeated: who asks twice gets the port it already has.      *)
(* It is about Queue_player and Setup_connection.                          *)
OneLoginEach ==
    /\ \A p, q \in Busy :
          Nick[Conn[p].client] = Nick[Conn[q].client] => p = q
    /\ \A i, j \in Entries :
          Nick[qp_list[i].client] = Nick[qp_list[j].client] => i = j

(* Who has a login port stands before all who wait: Queue_loop stops       *)
(* reminding and removing at the first who has none, so one behind it      *)
(* would be forgotten.  Operators move players up at any time.  It is      *)
(* about Queue_loop and Queue_advance_player.                              *)
EnteringFirst == \A i \in Entries : qp_list[i].port # NoPort => i \in Entering

(* While Queue_loop finds a player to be entering still, the port it       *)
(* wrote down for it, long before, is the one of the connection it found:  *)
(* the search is by name and the port found is not compared.  It is about  *)
(* Queue_loop, Check_connection and Setup_connection.                      *)
TellsOwnPort ==
    \A i \in Entries :
        qp_list[i].port # NoPort /\ ~Gone(i)
          => Conn[qp_list[i].port] = [state |-> "LISTENING", client |-> qp_list[i].client]

(* "The game has been unlocked as the last operator left" is true when it  *)
(* is said.  It is about Delete_player (player.c) and Cmd_op (command.c).  *)
(* It does not hold: Cmd_op makes operators who are not counted.           *)
UnlockedByLast ==
    [][game_lock /\ ~game_lock' /\ Conn' # Conn => isoperator' = {}]_vars
=============================================================================
