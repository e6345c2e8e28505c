----------------------------- MODULE MapObjects -----------------------------
(***************************************************************************)
(* What clients are shown of the changing parts of the map: cannons,       *)
(* targets, fuel stations and polygons.  The server sends an object in     *)
(* its frame updates until the client has acknowledged a frame newer than  *)
(* the object's last change; it remembers this in a bit for each           *)
(* connection, conn_mask or update_mask (server/frame.c, netserver.c,      *)
(* target.c, cannon.c, update.c; client/netclient.c, client.c).            *)
(*                                                                         *)
(* Frame updates and acknowledgements are lost, repeated and reordered:    *)
(* whatever has been sent may arrive at any time later, any number of      *)
(* times or never.  A frame that is not sent is one that never arrives.    *)
(* Times count in steps of timeStep, StepsPerTick of them to a tick.       *)
(***************************************************************************)
EXTENDS Integers, FiniteSets

CONSTANTS
    Conn,               \* the indexes of connections
    PolyClient,         \* those whose clients know polygons (F_POLYSTYLE);
                        \* the others know cannons and targets
    Cannon, Target, Fuel, Poly,
    Group,              \* [Poly -> the cannon or target it is drawn for, or else]
    Team,               \* [Target -> its team]
    StepsPerTick, DeadTicks, FullDamage, FullFuel,
    TargetUpdateDelay, FramesPerUpdate,
    targetSync,         \* option
    MaxLoops            \* bound: the number of frames

ASSUME Sizes ==
    /\ StepsPerTick \in Nat \ {0} /\ DeadTicks \in Nat
    /\ FullDamage \in Nat \ {0} /\ FullFuel \in Nat \ {0}
    /\ TargetUpdateDelay \in Nat /\ FramesPerUpdate \in Nat
    /\ MaxLoops \in Nat /\ targetSync \in BOOLEAN

ASSUME Kinds ==
    /\ PolyClient \subseteq Conn
    /\ Cannon \cap (Target \cup Fuel \cup Poly) = {}
    /\ Target \cap (Fuel \cup Poly) = {} /\ Fuel \cap Poly = {}

Object == Cannon \cup Target \cup Fuel \cup Poly
Mortal == Cannon \cup Target            \* objects with dead_ticks
DeadSteps == DeadTicks * StepsPerTick

VARIABLES
    frame_loops,
    pc,             \* where the server's main loop is: "input" or "update"
    dead_ticks,     \* of cannons and targets, in steps; 0: in play
    damage,         \* of targets: what they can still take
    fuel,
    current_style,  \* of polygons: whether it is destroyed_style
    last_change,
    conn_mask, update_mask,
    logged_in,      \* connections with a player
    sent,           \* the frame updates sent to each client
    acks,           \* the acknowledgements sent by each client
    last_loops,     \* of each client
    display         \* what each client shows

objects == <<dead_ticks, damage, fuel, current_style, last_change>>
masks == <<conn_mask, update_mask>>
network == <<sent, acks>>
clients == <<last_loops, display>>
mapVars == <<frame_loops, pc, objects, masks, logged_in, network, clients>>

-----------------------------------------------------------------------------
(* What a packet says of an object: Send_cannon, Send_target, Send_fuel,   *)
(* Send_polystyle.  Dead ticks lose their fraction.                        *)
Shown(o) ==
    CASE o \in Cannon -> dead_ticks[o] \div StepsPerTick
      [] o \in Target -> <<dead_ticks[o] \div StepsPerTick, damage[o]>>
      [] o \in Fuel -> fuel[o]
      [] o \in Poly -> current_style[o]

(* What a client assumes when it starts: everything is in its best state. *)
Assumed(o) ==
    CASE o \in Cannon -> 0
      [] o \in Target -> <<0, FullDamage>>
      [] o \in Fuel -> FullFuel
      [] o \in Poly -> FALSE

MapInit ==
    /\ frame_loops = 0
    /\ pc = "input"
    /\ dead_ticks = [o \in Mortal |-> 0]
    /\ damage = [t \in Target |-> FullDamage]
    /\ fuel = [f \in Fuel |-> FullFuel]
    /\ current_style = [p \in Poly |-> FALSE]
    /\ last_change = [o \in Object |-> 0]
    /\ conn_mask = [o \in Object \ Poly |-> Conn]
    /\ update_mask = [o \in Target \cup Poly |-> {}]
    /\ logged_in = {}
    /\ sent = [c \in Conn |-> {}]
    /\ acks = [c \in Conn |-> {}]
    /\ last_loops = [c \in Conn |-> 0]
    /\ display = [c \in Conn |-> [o \in Object |-> Assumed(o)]]

-----------------------------------------------------------------------------
(* Changes to the map.                                                     *)

PolysOf(S) == {p \in Poly : Group[p] \in S}

(* conn_mask = 0 and last_change = frame_loops, for the objects in S. *)
Touch(S) ==
    /\ conn_mask' = [o \in Object \ Poly |->
                        IF o \in S THEN {} ELSE conn_mask[o]]
    /\ last_change' = [o \in Object |->
                          IF o \in S THEN frame_loops ELSE last_change[o]]

(* Bug: polygons stay destroyed. *)
RestyleDestroyedOnly(S, destroyed) ==
    /\ current_style' = [p \in Poly |->
          IF p \in PolysOf(S) /\ destroyed THEN TRUE ELSE current_style[p]]
    /\ update_mask' = [o \in Target \cup Poly |->
          IF o \in S \cup PolysOf(S) THEN Conn ELSE update_mask[o]]

(* The objects in S have died or come back: their polygons change style,   *)
(* update_mask = ~0 for the polygons and targets.                          *)
Restyle(S, destroyed) ==
    /\ current_style' = [p \in Poly |->
          IF p \in PolysOf(S) THEN destroyed ELSE current_style[p]]
    /\ update_mask' = [o \in Target \cup Poly |->
          IF o \in S \cup PolysOf(S) THEN Conn ELSE update_mask[o]]

(* Cannon_update and Target_update: those whose time has come... *)
Back == {o \in Mortal : dead_ticks[o] = 1}

(* ... and with targetSync, all targets of their team. *)
Restored ==
    Back \cup {t \in Target : targetSync
                    /\ \E s \in Target \cap Back : Team[s] = Team[t]}

Repaired == {t \in Target \ Restored : dead_ticks[t] = 0 /\ damage[t] < FullDamage}

Refilled == {f \in Fuel : fuel[f] < FullFuel}

(* The repairs the clients are told about: the last one, and ... *)
ToldRepairs ==
    {t \in Repaired : \/ damage[t] + 1 >= FullDamage
                      \/ last_change[t] + TargetUpdateDelay >= frame_loops}

ToldRefills ==
    {f \in Refilled : \/ fuel[f] + 1 >= FullFuel
                      \/ last_change[f] + FramesPerUpdate <= frame_loops}

(* Fuel_update, Cannon_update and Target_update, once in a main loop. *)
Update_objects ==
    /\ pc = "input" /\ pc' = "update"
    /\ frame_loops < MaxLoops
    /\ dead_ticks' = [o \in Mortal |->
          IF o \in Restored \/ dead_ticks[o] = 0 THEN 0 ELSE dead_ticks[o] - 1]
    /\ damage' = [t \in Target |->
          IF t \in Restored THEN FullDamage
          ELSE IF t \in Repaired THEN damage[t] + 1 ELSE damage[t]]
    /\ fuel' = [f \in Fuel |-> IF f \in Refilled THEN fuel[f] + 1 ELSE fuel[f]]
    /\ Restyle(Restored, FALSE)
    /\ Touch(Restored \cup PolysOf(Restored) \cup ToldRepairs \cup ToldRefills)
    /\ UNCHANGED <<frame_loops, logged_in, network, clients>>

(* World_remove_cannon with Cannon_init, World_remove_target: what changes. *)
Removed(o) == {o} \cup PolysOf({o})

Cannon_dies(o) ==
    /\ pc = "update" /\ o \in Cannon /\ dead_ticks[o] = 0
    /\ dead_ticks' = [dead_ticks EXCEPT ![o] = DeadSteps]
    /\ Restyle({o}, TRUE)
    /\ Touch(Removed(o))
    /\ UNCHANGED <<frame_loops, pc, damage, fuel, logged_in, network, clients>>

(* A hit leaves d of the target, or nothing. *)
Object_hits_target(t, d) ==
    /\ pc = "update" /\ t \in Target /\ dead_ticks[t] = 0
    /\ d <= damage[t]
    /\ damage' = [damage EXCEPT ![t] = IF d > 0 THEN d ELSE FullDamage]
    /\ IF d > 0
       THEN /\ Touch({t})
            /\ UNCHANGED <<dead_ticks, current_style, update_mask>>
       ELSE /\ dead_ticks' = [dead_ticks EXCEPT ![t] = DeadSteps]
            /\ Restyle({t}, TRUE)
            /\ Touch(Removed(t))
    /\ UNCHANGED <<frame_loops, pc, fuel, logged_in, network, clients>>

Do_repair(t) ==
    /\ pc = "update" /\ t \in Target
    /\ dead_ticks[t] = 0 /\ damage[t] < FullDamage
    /\ damage' = [damage EXCEPT ![t] = @ + 1]
    /\ Touch({t})
    /\ UNCHANGED <<frame_loops, pc, dead_ticks, fuel, current_style,
                   update_mask, logged_in, network, clients>>

Do_refuel(f) ==
    /\ pc = "update" /\ f \in Fuel
    /\ fuel' = [fuel EXCEPT ![f] = IF @ > 0 THEN @ - 1 ELSE 0]
    /\ Touch({f})
    /\ UNCHANGED <<frame_loops, pc, dead_ticks, damage, current_style,
                   update_mask, logged_in, network, clients>>

(* Reset_all_players at the end of a round, also when a login ends one. *)
Reset_targets ==
    LET S == {t \in Target : damage[t] # FullDamage \/ dead_ticks[t] > 0}
    IN  /\ S # {}
        /\ dead_ticks' = [o \in Mortal |-> IF o \in S THEN 0 ELSE dead_ticks[o]]
        /\ damage' = [t \in Target |-> FullDamage]
        /\ Restyle(S, FALSE)
        /\ Touch(S \cup PolysOf(S))
        /\ UNCHANGED <<frame_loops, pc, fuel, logged_in, network, clients>>

-----------------------------------------------------------------------------
(* Frame updates and acknowledgements.                                     *)

(* Frame_map: objects the client has not acknowledged and knows about.     *)
(* Cannons, stations and damaged targets must also be in view, and no more *)
(* is sent than there is room for: the frame has some of these.            *)
Unacked(c) ==
    {o \in Object :
        /\ o \in Poly => c \in PolyClient /\ c \in update_mask[o]
        /\ o \in Cannon => c \notin PolyClient /\ c \notin conn_mask[o]
        /\ o \in Target => c \notin PolyClient
              /\ (c \in update_mask[o] \/ c \notin conn_mask[o])
        /\ o \in Fuel => c \notin conn_mask[o]}

Frame_update ==
    /\ pc = "update" /\ pc' = "input"
    /\ frame_loops' = frame_loops + 1
    /\ \E some \in [logged_in -> SUBSET Object] :
          /\ \A c \in logged_in : some[c] \subseteq Unacked(c)
          /\ sent' = [c \in Conn |->
                IF c \in logged_in
                THEN sent[c] \cup {[loops |-> frame_loops',
                                    map |-> [o \in some[c] |-> Shown(o)]]}
                ELSE sent[c]]
    /\ UNCHANGED <<objects, masks, logged_in, acks, clients>>

(* Bug: a frame is shown although a later one has been. *)
IsNewFrameAlways(c, f) == TRUE

(* Receive_start: duplicates and late frames are ignored. *)
IsNewFrame(c, f) == f.loops > last_loops[c]

(* Receive_cannon, Receive_target, Receive_fuel, Receive_polystyle.        *)
Receive_frame(c, f) ==
    /\ c \in logged_in
    /\ IsNewFrame(c, f)
    /\ last_loops' = [last_loops EXCEPT ![c] = f.loops]
    /\ display' = [display EXCEPT ![c] =
          [o \in Object |-> IF o \in DOMAIN f.map THEN f.map[o] ELSE @[o]]]
    /\ acks' = [acks EXCEPT ![c] = @ \cup {<<f.loops, o>> : o \in DOMAIN f.map}]
    /\ UNCHANGED <<frame_loops, pc, objects, masks, logged_in, sent>>

(* Bug: an acknowledgement of the frame before the change is taken. *)
IsRecentOrEqual(loops, o) == loops >= last_change[o]

(* "That's why we should use the '>' symbol to compare". *)
IsRecent(loops, o) == loops > last_change[o]

(* Receive_ack_cannon, _fuel, _target, _polystyle. *)
Receive_ack(c, a) ==
    LET loops == a[1]
        o == a[2]
    IN  /\ pc = "input" /\ c \in logged_in
        /\ IsRecent(loops, o)
        /\ conn_mask' = IF o \in Poly THEN conn_mask
                        ELSE [conn_mask EXCEPT ![o] = @ \cup {c}]
        /\ update_mask' = IF o \in Target \cup Poly
                          THEN [update_mask EXCEPT ![o] = @ \ {c}]
                          ELSE update_mask
        /\ UNCHANGED <<frame_loops, pc, objects, logged_in, network, clients>>

(* Handle_login: the objects that are as the client assumes. *)
AsAssumed(o) ==
    CASE o \in Cannon -> dead_ticks[o] = 0
      [] o \in Target -> dead_ticks[o] = 0 /\ damage[o] = FullDamage
      [] o \in Fuel -> fuel[o] = FullFuel
      [] o \in Poly -> ~current_style[o]

Handle_login(c) ==
    /\ pc = "input" /\ c \notin logged_in
    /\ logged_in' = logged_in \cup {c}
    /\ conn_mask' = [o \in Object \ Poly |-> IF AsAssumed(o)
                        THEN conn_mask[o] \cup {c} ELSE conn_mask[o] \ {c}]
    /\ update_mask' = [o \in Target \cup Poly |-> IF AsAssumed(o)
                        THEN update_mask[o] \ {c} ELSE update_mask[o] \cup {c}]
    /\ sent' = [sent EXCEPT ![c] = {}]
    /\ acks' = [acks EXCEPT ![c] = {}]
    /\ last_loops' = [last_loops EXCEPT ![c] = 0]
    /\ display' = [display EXCEPT ![c] = [o \in Object |-> Assumed(o)]]
    /\ UNCHANGED <<frame_loops, pc, objects>>

Logout(c) ==
    /\ c \in logged_in
    /\ logged_in' = logged_in \ {c}
    /\ UNCHANGED <<frame_loops, pc, objects, masks, network, clients>>

MapNext ==
    \/ Update_objects \/ Frame_update \/ Reset_targets
    \/ \E o \in Cannon : Cannon_dies(o)
    \/ \E t \in Target :
          Do_repair(t) \/ \E d \in 0 .. FullDamage : Object_hits_target(t, d)
    \/ \E f \in Fuel : Do_refuel(f)
    \/ \E c \in Conn :
          \/ \E f \in sent[c] : Receive_frame(c, f)
          \/ \E a \in acks[c] : Receive_ack(c, a)
          \/ Handle_login(c) \/ Logout(c)

MapSpec == MapInit /\ [][MapNext]_mapVars

-----------------------------------------------------------------------------
(* Properties.                                                             *)

MapTypeOK ==
    /\ frame_loops \in 0 .. MaxLoops
    /\ pc \in {"input", "update"}
    /\ dead_ticks \in [Mortal -> 0 .. DeadSteps]
    /\ damage \in [Target -> 1 .. FullDamage]
    /\ fuel \in [Fuel -> 0 .. FullFuel]
    /\ current_style \in [Poly -> BOOLEAN]
    /\ last_change \in [Object -> 0 .. MaxLoops]
    /\ conn_mask \in [Object \ Poly -> SUBSET Conn]
    /\ update_mask \in [Target \cup Poly -> SUBSET Conn]
    /\ logged_in \subseteq Conn
    /\ last_loops \in [Conn -> 0 .. MaxLoops]
    /\ \A c \in Conn : DOMAIN display[c] = Object

(* Is a mortal object shown as dead or in play, as it is?  In its last     *)
(* tick, when the fraction that is left is cut off, both will do.          *)
ShownAlive(o, dead) ==
    /\ dead_ticks[o] = 0 => dead = 0
    /\ dead_ticks[o] >= StepsPerTick => dead > 0

(* Is v a good enough picture of the object?  Repairs and refills between  *)
(* two states need not be seen, but their end must be.                     *)
Current(o, v) ==
    CASE o \in Cannon -> ShownAlive(o, v)
      [] o \in Target -> ShownAlive(o, v[1])
                            /\ (damage[o] = FullDamage => v[2] = FullDamage)
      [] o \in Fuel -> fuel[o] = FullFuel => v = FullFuel
      [] o \in Poly -> v = current_style[o]

(* Once the server takes an object for acknowledged, and as long as it     *)
(* does, the client shows it as it is.                                     *)
AckedIsCurrent ==
    \A c \in logged_in, o \in Object \ Poly :
        c \in conn_mask[o] => Current(o, display[c][o])

(* No client is left with a polygon in the wrong style, or with a dead     *)
(* target shown in play, or the other way round, that the server does not  *)
(* keep sending, in view or not.                                           *)
StylesAreCurrent ==
    \A c \in logged_in :
        /\ \A p \in Poly : c \notin update_mask[p]
              => Current(p, display[c][p])
        /\ \A t \in Target : c \notin update_mask[t]
              => ShownAlive(t, display[c][t][1])

(* Polygons are drawn destroyed just as long as what they stand for is     *)
(* dead.                                                                   *)
PolysFollow ==
    \A p \in Poly : Group[p] \in Mortal
        => (current_style[p] <=> dead_ticks[Group[p]] > 0)

(* Target_update's comment, "We don't send target info to the clients      *)
(* every frame if the latest repair wouldn't change their display": a      *)
(* repair that does not complete the target, soon after the last message,  *)
(* sends none.  It does not hold: the code's test is the other way round.  *)
RepairsAreQuiet ==
    [][Update_objects =>
          \A t \in Repaired :
             /\ damage'[t] < FullDamage
             /\ last_change[t] + TargetUpdateDelay > frame_loops
                => last_change'[t] = last_change[t]]_mapVars
=============================================================================
