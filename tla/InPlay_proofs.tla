---------------------------- MODULE InPlay_proofs ----------------------------
(***************************************************************************)
(* Proofs about clients in play: that what they show of the map is never   *)
(* wrong without the server knowing it (MapObjects), and that what their   *)
(* keys, mouse and talk say is told right (Controls), for any clients,     *)
(* objects and keys and whatever the network does.                         *)
(***************************************************************************)
EXTENDS MapObjects, Controls, SequenceTheorems, WellFoundedInduction, TLAPS

(***************************************************************************)
(* The map.                                                                *)
(*                                                                         *)
(* The inductive invariant speaks of what is still on its way: frames are  *)
(* old (not newer than the object's last change) or right, and once an     *)
(* object is acknowledged, all frames that the client would still show are *)
(* right about it.  Every change to the map either leaves an object as the *)
(* clients may show it, or makes all acknowledgements of it old.           *)
(***************************************************************************)

AckedBy(c, o) == IF o \in Poly THEN c \notin update_mask[o]
                               ELSE c \in conn_mask[o]

Coming(c) == {f \in sent[c] : f.loops > last_loops[c]}

(* Nothing is dated later than the present: changes, frames, what clients  *)
(* have seen, and their acknowledgements.                                  *)
Past ==
    /\ frame_loops \in Nat
    /\ last_change \in [Object -> Nat]
    /\ \A o \in Object : last_change[o] <= frame_loops
    /\ \A c \in Conn : last_loops[c] <= frame_loops
    /\ \A c \in Conn : last_loops[c] \in Nat
    /\ \A c \in Conn : \A f \in sent[c] :
          f.loops \in Nat /\ f.loops <= frame_loops /\ DOMAIN f.map \subseteq Object
    /\ \A c \in Conn : \A a \in acks[c] :
          a[1] \in Nat /\ a[1] <= last_loops[c] /\ a[2] \in Object

(* What is kept for each client.                                           *)
Shapes ==
    /\ logged_in \subseteq Conn
    /\ DOMAIN sent = Conn /\ DOMAIN acks = Conn
    /\ DOMAIN last_loops = Conn /\ DOMAIN display = Conn

(* The values of the map's variables.                                      *)
Values ==
    /\ dead_ticks \in [Mortal -> Nat]
    /\ damage \in [Target -> Nat]
    /\ fuel \in [Fuel -> Nat]
    /\ current_style \in [Poly -> BOOLEAN]
    /\ conn_mask \in [Object \ Poly -> SUBSET Conn]
    /\ update_mask \in [Target \cup Poly -> SUBSET Conn]

(* A frame sent after an object's last change shows it right.              *)
FramesRight ==
    \A c \in logged_in : \A f \in sent[c] : \A o \in DOMAIN f.map :
        f.loops > last_change[o] => Current(o, f.map[o])

(* So does the client whose acknowledgement of it is on its way ...        *)
AcksRight ==
    \A c \in logged_in : \A a \in acks[c] :
        a[1] > last_change[a[2]] => Current(a[2], display[c][a[2]])

(* ... and one that has acknowledged it; and the frames that may still be  *)
(* shown to that one do, which is what makes the invariant inductive.      *)
AckedRight ==
    \A c \in logged_in, o \in Object : AckedBy(c, o) =>
        /\ Current(o, display[c][o])
        /\ \A f \in Coming(c) : o \in DOMAIN f.map => Current(o, f.map[o])

(* The same of targets, life and death only, by update_mask.               *)
TargetsRight ==
    \A c \in logged_in, t \in Target : c \notin update_mask[t] =>
        /\ ShownAlive(t, display[c][t][1])
        /\ \A f \in Coming(c) : t \in DOMAIN f.map => ShownAlive(t, f.map[t][1])

MapIInv == Past /\ Shapes /\ Values /\ FramesRight /\ AcksRight /\ AckedRight /\ TargetsRight

-----------------------------------------------------------------------------
(* A change to the map, seen by the clients.                               *)

(* The object has not changed as far as clients need to know. *)
Quiet(o) ==
    /\ last_change'[o] = last_change[o]
    /\ \A c \in Conn : AckedBy(c, o)' => AckedBy(c, o)
    /\ \A v : Current(o, v) => Current(o, v)'

(* It has, and all that clients have acknowledged is void. *)
Noisy(o) ==
    /\ last_change'[o] = frame_loops
    /\ \A c \in Conn : ~AckedBy(c, o)'

QuietDeath(t) ==
    /\ update_mask'[t] = update_mask[t]
    /\ \A v : ShownAlive(t, v) => ShownAlive(t, v)'

MapStep ==
    /\ Values'
    /\ last_change' \in [Object -> Nat]
    /\ \A o \in Object : Quiet(o) \/ Noisy(o)
    /\ \A t \in Target : QuietDeath(t) \/ update_mask'[t] = Conn
    /\ UNCHANGED <<frame_loops, logged_in, network, clients>>

(* The time for which the dead are dead is a number of steps.              *)
LEMMA DeadStepsNat == DeadSteps \in Nat
BY Sizes, SMT DEF DeadSteps

(* It is not zero unless the option is.                                    *)
LEMMA DeadStepsPositive == DeadTicks > 0 => DeadSteps > 0
BY Sizes, SMT DEF DeadSteps

(* What MapStep leaves of the invariant. *)
LEMMA MapStepKeeps ==
    ASSUME MapIInv, MapStep
    PROVE  MapIInv'
<1> USE DEF MapStep, network, clients
<1>1. Past'
  <2>1. \A o \in Object : last_change'[o] <= frame_loops'
    BY DEF MapIInv, Past, Quiet, Noisy
  <2> QED BY <2>1 DEF MapIInv, Past
<1>2. Shapes'
  BY DEF MapIInv, Shapes
<1>3. FramesRight'
  <2> SUFFICES ASSUME NEW c \in logged_in, NEW f \in sent[c],
                      NEW o \in DOMAIN f.map, f.loops > last_change'[o]
               PROVE  Current(o, f.map[o])'
    BY DEF FramesRight
  <2>1. c \in Conn /\ o \in Object /\ f.loops \in Nat /\ f.loops <= frame_loops
    BY DEF MapIInv, Past, Shapes
  <2>2. ~Noisy(o)
    BY <2>1 DEF MapIInv, Past, Noisy
  <2>3. Quiet(o)
    BY <2>1, <2>2
  <2>4. Current(o, f.map[o])
    BY <2>3 DEF MapIInv, FramesRight, Quiet
  <2> QED BY <2>3, <2>4 DEF Quiet
<1>4. AcksRight'
  <2> SUFFICES ASSUME NEW c \in logged_in, NEW a \in acks[c],
                      a[1] > last_change'[a[2]]
               PROVE  Current(a[2], display[c][a[2]])'
    BY DEF AcksRight
  <2>1. c \in Conn /\ a[2] \in Object /\ a[1] \in Nat /\ a[1] <= frame_loops
    BY DEF MapIInv, Past, Shapes
  <2>2. Quiet(a[2])
    BY <2>1 DEF MapIInv, Past, Noisy
  <2>3. Current(a[2], display[c][a[2]])
    BY <2>2 DEF MapIInv, AcksRight, Quiet
  <2> QED BY <2>2, <2>3 DEF Quiet
<1>5. AckedRight'
  <2> SUFFICES ASSUME NEW c \in logged_in, NEW o \in Object, AckedBy(c, o)'
               PROVE  /\ Current(o, display[c][o])'
                      /\ \A f \in Coming(c) : o \in DOMAIN f.map
                            => Current(o, f.map[o])'
    BY DEF AckedRight, Coming
  <2>1. c \in Conn
    BY DEF MapIInv, Shapes
  <2>2. Quiet(o)
    BY <2>1 DEF Noisy
  <2>3. AckedBy(c, o)
    BY <2>1, <2>2 DEF Quiet
  <2> QED BY <2>2, <2>3 DEF MapIInv, AckedRight, Quiet
<1>6. TargetsRight'
  <2> SUFFICES ASSUME NEW c \in logged_in, NEW t \in Target, c \notin update_mask'[t]
               PROVE  /\ ShownAlive(t, display[c][t][1])'
                      /\ \A f \in Coming(c) : t \in DOMAIN f.map
                            => ShownAlive(t, f.map[t][1])'
    BY DEF TargetsRight, Coming
  <2>1. c \in Conn
    BY DEF MapIInv, Shapes
  <2>2. QuietDeath(t)
    BY <2>1
  <2> QED BY <2>2 DEF MapIInv, TargetsRight, QuietDeath
<1> QED BY <1>1, <1>2, <1>3, <1>4, <1>5, <1>6 DEF MapIInv

-----------------------------------------------------------------------------
(* The steps that change the map are MapSteps.                             *)

(* An object that is not touched is quiet when its picture stays good. *)
LEMMA TouchIsMapStep ==
    ASSUME MapIInv, NEW S, Touch(S), Values',
           UNCHANGED <<frame_loops, logged_in, network, clients>>,
           \A o \in Object \ S : \A v : Current(o, v) => Current(o, v)',
           \A p \in Poly : IF p \in S THEN update_mask'[p] = Conn
                           ELSE update_mask'[p] = update_mask[p],
           \A t \in Target : QuietDeath(t) \/ update_mask'[t] = Conn
    PROVE  MapStep
<1>1. last_change' \in [Object -> Nat]
  BY DEF Touch, MapIInv, Past
<1>2. ASSUME NEW o \in Object PROVE Quiet(o) \/ Noisy(o)
  <2>1. CASE o \in S
    BY <1>2, <2>1 DEF Touch, Noisy, AckedBy, Object
  <2>2. CASE o \notin S
    BY <1>2, <2>2 DEF Touch, Quiet, AckedBy, Object
  <2> QED BY <2>1, <2>2
<1> QED BY <1>1, <1>2 DEF MapStep

(* The pictures depend on the map's variables only. *)
LEMMA SamePicture ==
    ASSUME MapIInv, NEW o \in Object,
           o \in Mortal => dead_ticks'[o] = dead_ticks[o],
           o \in Target => damage'[o] = damage[o],
           o \in Fuel => fuel'[o] = fuel[o],
           o \in Poly => current_style'[o] = current_style[o]
    PROVE  \A v : Current(o, v) => Current(o, v)'
BY Kinds DEF Current, ShownAlive, Mortal, Object

(* The updates of a main loop (Fuel_update, Cannon_update, Target_update). *)
LEMMA UpdateIsMapStep == MapIInv /\ Update_objects => MapStep
<1> SUFFICES ASSUME MapIInv, Update_objects PROVE MapStep
  OBVIOUS
<1> DEFINE S == Restored \cup PolysOf(Restored) \cup ToldRepairs \cup ToldRefills
<1>1. Restored \subseteq Mortal /\ PolysOf(Restored) \subseteq Poly
  BY DEF Restored, Back, Mortal, PolysOf
<1>2. Values'
  <2>1. dead_ticks' \in [Mortal -> Nat]
    BY DEF Update_objects, MapIInv, Values
  <2>2. damage' \in [Target -> Nat]
    BY Sizes DEF Update_objects, MapIInv, Values
  <2>3. fuel' \in [Fuel -> Nat]
    BY DEF Update_objects, MapIInv, Values
  <2>4. current_style' \in [Poly -> BOOLEAN] /\ update_mask' \in [Target \cup Poly -> SUBSET Conn]
    BY DEF Update_objects, MapIInv, Values, Restyle
  <2>5. conn_mask' \in [Object \ Poly -> SUBSET Conn]
    BY DEF Update_objects, MapIInv, Values, Touch
  <2> QED BY <2>1, <2>2, <2>3, <2>4, <2>5 DEF Values
<1>3. ASSUME NEW o \in Mortal \ Restored, NEW v, ShownAlive(o, v)
      PROVE  ShownAlive(o, v)'
  <2>1. dead_ticks[o] \in Nat /\ dead_ticks[o] # 1 /\ dead_ticks'[o] \in Nat
    BY <1>2, <1>3 DEF Restored, Back, MapIInv, Values
  <2>2. dead_ticks'[o] = IF dead_ticks[o] = 0 THEN 0 ELSE dead_ticks[o] - 1
    BY <1>3 DEF Update_objects
  <2> QED BY <1>3, <2>1, <2>2, Sizes DEF ShownAlive
<1>4. ASSUME NEW o \in Object \ S, NEW v, Current(o, v) PROVE Current(o, v)'
  <2>1. CASE o \in Cannon
    BY <1>3, <1>4, <2>1, Kinds DEF Current, Mortal
  <2>2. CASE o \in Target
    <3>1. ShownAlive(o, v[1])'
      BY <1>3, <1>4, <2>2, Kinds DEF Current, Mortal
    <3>2. damage'[o] = FullDamage => damage[o] = FullDamage
      BY <1>4, <2>2, Sizes DEF Update_objects, ToldRepairs, Repaired, MapIInv, Values
    <3> QED BY <1>4, <2>2, <3>1, <3>2, Kinds DEF Current
  <2>3. CASE o \in Fuel
    <3>1. fuel'[o] = FullFuel => fuel[o] = FullFuel
      BY <1>4, <2>3, Sizes DEF Update_objects, ToldRefills, Refilled, MapIInv, Values
    <3> QED BY <1>4, <2>3, <3>1, Kinds DEF Current
  <2>4. CASE o \in Poly
    BY <1>4, <2>4, Kinds DEF Current, Update_objects, Restyle
  <2> QED BY <2>1, <2>2, <2>3, <2>4 DEF Object
<1>5. ASSUME NEW p \in Poly
      PROVE  IF p \in S THEN update_mask'[p] = Conn
                        ELSE update_mask'[p] = update_mask[p]
  <2>1. p \in S <=> p \in Restored \cup PolysOf(Restored)
    BY <1>1, <1>5, Kinds DEF ToldRepairs, Repaired, ToldRefills, Refilled, Mortal
  <2> QED BY <2>1 DEF Update_objects, Restyle
<1>6. ASSUME NEW t \in Target PROVE QuietDeath(t) \/ update_mask'[t] = Conn
  BY <1>3, <1>6, Kinds DEF Update_objects, Restyle, QuietDeath, Mortal, PolysOf
<1>7. Touch(S) /\ UNCHANGED <<frame_loops, logged_in, network, clients>>
  BY DEF Update_objects
<1> HIDE DEF S
<1> QED BY <1>2, <1>4, <1>5, <1>6, <1>7, TouchIsMapStep

(* A cannon or target and its polygons die or come back. *)
LEMMA RestyledIsMapStep ==
    ASSUME MapIInv, NEW S, S \subseteq Mortal, NEW destroyed \in BOOLEAN,
           Restyle(S, destroyed), Touch(S \cup PolysOf(S)), UNCHANGED fuel,
           UNCHANGED <<frame_loops, logged_in, network, clients>>,
           dead_ticks' \in [Mortal -> Nat], damage' \in [Target -> Nat],
           \A o \in Mortal \ S : dead_ticks'[o] = dead_ticks[o],
           \A t \in Target \ S : damage'[t] = damage[t]
    PROVE  MapStep
<1>1. Values'
  <2>1. current_style' \in [Poly -> BOOLEAN] /\ update_mask' \in [Target \cup Poly -> SUBSET Conn]
    BY DEF MapIInv, Values, Restyle
  <2>2. conn_mask' \in [Object \ Poly -> SUBSET Conn]
    BY DEF MapIInv, Values, Touch
  <2> QED BY <2>1, <2>2 DEF MapIInv, Values
<1>2. ASSUME NEW o \in Object \ (S \cup PolysOf(S)), NEW v, Current(o, v)
      PROVE  Current(o, v)'
  <2>1. o \in Poly => current_style'[o] = current_style[o]
    BY <1>2 DEF Restyle
  <2>2. o \in Mortal => dead_ticks'[o] = dead_ticks[o]
    BY <1>2
  <2>3. o \in Target => damage'[o] = damage[o]
    BY <1>2
  <2> QED BY <1>2, <2>1, <2>2, <2>3, SamePicture
<1>3. ASSUME NEW p \in Poly
      PROVE  IF p \in S \cup PolysOf(S) THEN update_mask'[p] = Conn
                                       ELSE update_mask'[p] = update_mask[p]
  BY <1>3 DEF Restyle
<1>4. ASSUME NEW t \in Target PROVE QuietDeath(t) \/ update_mask'[t] = Conn
  <2>1. CASE t \in S
    BY <2>1, <1>4 DEF Restyle
  <2>2. CASE t \notin S
    <3>1. t \notin PolysOf(S) /\ t \in Mortal
      BY <1>4, Kinds DEF PolysOf, Mortal
    <3> QED BY <3>1, <2>2, <1>4 DEF Restyle, QuietDeath, ShownAlive
  <2> QED BY <2>1, <2>2
<1> QED BY <1>1, <1>2, <1>3, <1>4, TouchIsMapStep

(* One object changes, but does not die or come back. *)
LEMMA TouchedIsMapStep ==
    ASSUME MapIInv, NEW o \in Target \cup Fuel, Touch({o}),
           UNCHANGED <<frame_loops, logged_in, network, clients>>,
           UNCHANGED <<dead_ticks, current_style, update_mask>>,
           damage' \in [Target -> Nat], fuel' \in [Fuel -> Nat],
           \A t \in Target \ {o} : damage'[t] = damage[t],
           \A f \in Fuel \ {o} : fuel'[f] = fuel[f]
    PROVE  MapStep
<1>1. Values'
  BY DEF MapIInv, Values, Touch
<1>2. ASSUME NEW q \in Object \ {o}, NEW v, Current(q, v)
      PROVE  Current(q, v)'
  BY <1>2, SamePicture
<1>3. \A p \in Poly : p \notin {o} /\ update_mask'[p] = update_mask[p]
  BY Kinds
<1>4. ASSUME NEW t \in Target PROVE QuietDeath(t)
  BY DEF QuietDeath, ShownAlive
<1> QED BY <1>1, <1>2, <1>3, <1>4, TouchIsMapStep

(* A cannon that dies (Cannon_dies).                                       *)
LEMMA CannonIsMapStep ==
    ASSUME MapIInv, NEW o \in Cannon, Cannon_dies(o) PROVE MapStep
<1>1. {o} \subseteq Mortal
  BY DEF Mortal
<1>2. dead_ticks' \in [Mortal -> Nat] /\ damage' \in [Target -> Nat]
  BY DeadStepsNat DEF Cannon_dies, MapIInv, Values
<1>3. /\ \A q \in Mortal \ {o} : dead_ticks'[q] = dead_ticks[q]
      /\ \A t \in Target \ {o} : damage'[t] = damage[t]
  BY DEF Cannon_dies, MapIInv, Values
<1>4. Restyle({o}, TRUE) /\ Touch({o} \cup PolysOf({o}))
  BY DEF Cannon_dies, Removed
<1> QED BY <1>1, <1>2, <1>3, <1>4, RestyledIsMapStep DEF Cannon_dies

(* A target that is hit (Object_hits_target).                              *)
LEMMA HitIsMapStep ==
    ASSUME MapIInv, NEW t \in Target, NEW d \in 0 .. FullDamage,
           Object_hits_target(t, d)
    PROVE  MapStep
<1>1. damage' \in [Target -> Nat] /\ \A u \in Target \ {t} : damage'[u] = damage[u]
  BY Sizes DEF Object_hits_target, MapIInv, Values
<1>2. CASE d > 0
  <2>1. fuel' \in [Fuel -> Nat] /\ UNCHANGED fuel
    BY DEF Object_hits_target, MapIInv, Values
  <2> QED BY <1>1, <1>2, <2>1, TouchedIsMapStep DEF Object_hits_target
<1>3. CASE ~(d > 0)
  <2>1. {t} \subseteq Mortal
    BY DEF Mortal
  <2>2. dead_ticks' \in [Mortal -> Nat] /\ \A q \in Mortal \ {t} : dead_ticks'[q] = dead_ticks[q]
    BY <1>3, DeadStepsNat DEF Object_hits_target, MapIInv, Values
  <2>3. Restyle({t}, TRUE) /\ Touch({t} \cup PolysOf({t}))
    BY <1>3 DEF Object_hits_target, Removed
  <2> QED BY <1>1, <2>1, <2>2, <2>3, RestyledIsMapStep DEF Object_hits_target
<1> QED BY <1>2, <1>3

(* A target that is repaired (do_repair).                                  *)
LEMMA RepairIsMapStep ==
    ASSUME MapIInv, NEW t \in Target, Do_repair(t) PROVE MapStep
<1>1. damage' \in [Target -> Nat] /\ \A u \in Target \ {t} : damage'[u] = damage[u]
  BY DEF Do_repair, MapIInv, Values
<1>2. fuel' \in [Fuel -> Nat] /\ UNCHANGED fuel
  BY DEF Do_repair, MapIInv, Values
<1> QED BY <1>1, <1>2, TouchedIsMapStep DEF Do_repair

(* A station that is drawn from (do_refuel).                               *)
LEMMA RefuelIsMapStep ==
    ASSUME MapIInv, NEW f \in Fuel, Do_refuel(f) PROVE MapStep
<1>1. fuel' \in [Fuel -> Nat] /\ \A g \in Fuel \ {f} : fuel'[g] = fuel[g]
  BY DEF Do_refuel, MapIInv, Values
<1>2. damage' \in [Target -> Nat] /\ UNCHANGED damage
  BY DEF Do_refuel, MapIInv, Values
<1> QED BY <1>1, <1>2, TouchedIsMapStep DEF Do_refuel

(* The targets reset for a new round (Reset_all_players).                  *)
LEMMA ResetIsMapStep ==
    ASSUME MapIInv, Reset_targets PROVE MapStep
<1> DEFINE S == {t \in Target : damage[t] # FullDamage \/ dead_ticks[t] > 0}
<1>1. S \subseteq Mortal
  BY DEF Mortal
<1>2. dead_ticks' \in [Mortal -> Nat] /\ damage' \in [Target -> Nat]
  BY Sizes DEF Reset_targets, MapIInv, Values
<1>3. /\ \A q \in Mortal \ S : dead_ticks'[q] = dead_ticks[q]
      /\ \A t \in Target \ S : damage'[t] = damage[t]
  BY DEF Reset_targets, MapIInv, Values
<1>4. Restyle(S, FALSE) /\ Touch(S \cup PolysOf(S))
  BY DEF Reset_targets
<1>5. UNCHANGED fuel /\ UNCHANGED <<frame_loops, logged_in, network, clients>>
  BY DEF Reset_targets
<1> HIDE DEF S
<1> QED BY <1>1, <1>2, <1>3, <1>4, <1>5, RestyledIsMapStep

-----------------------------------------------------------------------------
(* Frame updates, acknowledgements and logins.                             *)

(* What the server sends of an object is right. *)
LEMMA ShownIsCurrent ==
    ASSUME MapIInv, NEW o \in Object
    PROVE  /\ Current(o, Shown(o))
           /\ o \in Target => ShownAlive(o, Shown(o)[1])
<1>1. ASSUME NEW n \in Nat
      PROVE  /\ n = 0 => n \div StepsPerTick = 0
             /\ n >= StepsPerTick => n \div StepsPerTick > 0
  BY Sizes
<1>2. o \in Mortal => ShownAlive(o, dead_ticks[o] \div StepsPerTick)
  BY <1>1 DEF ShownAlive, MapIInv, Values
<1> QED BY <1>2, Kinds DEF Current, Shown, Mortal, Object

(* Sending a frame keeps the invariant: it shows the present.              *)
LEMMA FrameKeeps == MapIInv /\ Frame_update => MapIInv'
<1> SUFFICES ASSUME MapIInv, Frame_update PROVE MapIInv'
  OBVIOUS
<1>1. PICK some \in [logged_in -> SUBSET Object] :
        sent' = [c \in Conn |->
                    IF c \in logged_in
                    THEN sent[c] \cup {[loops |-> frame_loops',
                                        map |-> [o \in some[c] |-> Shown(o)]]}
                    ELSE sent[c]]
  BY DEF Frame_update
<1>2. /\ frame_loops' = frame_loops + 1 /\ frame_loops \in Nat
      /\ UNCHANGED <<objects, masks, logged_in, acks, clients>>
  BY DEF Frame_update, MapIInv, Past
<1>3. ASSUME NEW o \in Object, NEW v PROVE Current(o, v)' = Current(o, v)
  BY <1>2 DEF Current, ShownAlive, objects
<1>4. ASSUME NEW o \in Mortal, NEW v PROVE ShownAlive(o, v)' = ShownAlive(o, v)
  BY <1>2 DEF ShownAlive, objects
<1>5. \A c \in Conn, o \in Object : AckedBy(c, o)' = AckedBy(c, o)
  BY <1>2 DEF AckedBy, masks
<1>6. ASSUME NEW c \in Conn, NEW f \in sent'[c], f \notin sent[c]
      PROVE  /\ c \in logged_in /\ f.loops = frame_loops + 1
             /\ DOMAIN f.map \subseteq Object
             /\ \A o \in DOMAIN f.map : f.map[o] = Shown(o)
  BY <1>1, <1>2, <1>6
<1>7. Past'
  <2>1. last_change' = last_change /\ last_loops' = last_loops /\ acks' = acks
    BY <1>2 DEF objects, clients
  <2>2. \A c \in Conn : \A f \in sent'[c] :
           /\ f.loops \in Nat /\ f.loops <= frame_loops'
           /\ DOMAIN f.map \subseteq Object
    BY <1>2, <1>6 DEF MapIInv, Past
  <2> QED BY <1>2, <2>1, <2>2 DEF MapIInv, Past
<1>8. Shapes'
  BY <1>1, <1>2 DEF MapIInv, Shapes, clients
<1>9. Values'
  BY <1>2 DEF MapIInv, Values, objects, masks
<1>10. FramesRight'
  <2> SUFFICES ASSUME NEW c \in logged_in, NEW f \in sent'[c],
                      NEW o \in DOMAIN f.map, f.loops > last_change[o]
               PROVE  Current(o, f.map[o])'
    BY <1>2 DEF FramesRight, objects
  <2>1. c \in Conn /\ o \in Object
    BY <1>6 DEF MapIInv, Shapes, Past
  <2>2. Current(o, f.map[o])
    BY <1>6, <2>1, ShownIsCurrent DEF MapIInv, FramesRight
  <2> QED BY <1>3, <2>1, <2>2
<1>11. AcksRight'
  <2>1. \A c \in logged_in : \A a \in acks[c] : a[2] \in Object
    BY DEF MapIInv, Shapes, Past
  <2> QED BY <1>2, <1>3, <2>1 DEF MapIInv, AcksRight, objects, clients
<1>12. AckedRight'
  <2> SUFFICES ASSUME NEW c \in logged_in, NEW o \in Object, AckedBy(c, o)'
               PROVE  /\ Current(o, display[c][o])'
                      /\ \A f \in Coming(c)' : o \in DOMAIN f.map
                            => Current(o, f.map[o])'
    BY <1>2 DEF AckedRight
  <2>1. c \in Conn /\ AckedBy(c, o)
    BY <1>5 DEF MapIInv, Shapes
  <2>2. Current(o, display[c][o])'
    BY <1>2, <1>3, <2>1 DEF MapIInv, AckedRight, clients
  <2>3. ASSUME NEW f \in Coming(c)', o \in DOMAIN f.map PROVE Current(o, f.map[o])'
    <3>1. CASE f \in sent[c]
      BY <1>2, <1>3, <2>1, <2>3, <3>1 DEF MapIInv, AckedRight, Coming, clients
    <3>2. CASE f \notin sent[c]
      BY <1>3, <1>6, <2>1, <2>3, <3>2, ShownIsCurrent DEF Coming
    <3> QED BY <3>1, <3>2
  <2> QED BY <2>2, <2>3
<1>13. TargetsRight'
  <2> SUFFICES ASSUME NEW c \in logged_in, NEW t \in Target, c \notin update_mask[t]
               PROVE  /\ ShownAlive(t, display[c][t][1])'
                      /\ \A f \in Coming(c)' : t \in DOMAIN f.map
                            => ShownAlive(t, f.map[t][1])'
    BY <1>2 DEF TargetsRight, masks
  <2>1. c \in Conn /\ t \in Mortal /\ t \in Object
    BY DEF MapIInv, Shapes, Mortal, Object
  <2>2. ShownAlive(t, display[c][t][1])'
    BY <1>2, <1>4, <2>1 DEF MapIInv, TargetsRight, clients
  <2>3. ASSUME NEW f \in Coming(c)', t \in DOMAIN f.map
        PROVE  ShownAlive(t, f.map[t][1])'
    <3>1. CASE f \in sent[c]
      BY <1>2, <1>4, <2>1, <2>3, <3>1 DEF MapIInv, TargetsRight, Coming, clients
    <3>2. CASE f \notin sent[c]
      BY <1>4, <1>6, <2>1, <2>3, <3>2, ShownIsCurrent DEF Coming
    <3> QED BY <3>1, <3>2
  <2> QED BY <2>2, <2>3
<1> QED BY <1>7, <1>8, <1>9, <1>10, <1>11, <1>12, <1>13 DEF MapIInv

(* Showing one does: it is later than all the client has shown.            *)
LEMMA ReceiveFrameKeeps ==
    ASSUME MapIInv, NEW c \in Conn, NEW f \in sent[c], Receive_frame(c, f)
    PROVE  MapIInv'
<1>1. /\ c \in logged_in /\ f.loops > last_loops[c]
      /\ last_loops' = [last_loops EXCEPT ![c] = f.loops]
      /\ display' = [display EXCEPT ![c] = [o \in Object |->
              IF o \in DOMAIN f.map THEN f.map[o] ELSE display[c][o]]]
      /\ acks' = [acks EXCEPT ![c] = acks[c] \cup {<<f.loops, o>> : o \in DOMAIN f.map}]
      /\ UNCHANGED <<frame_loops, pc, objects, masks, logged_in, sent>>
  BY DEF Receive_frame, IsNewFrame, MapIInv, Shapes
<1>2. ASSUME NEW o, NEW v PROVE Current(o, v)' = Current(o, v)
  BY <1>1 DEF Current, ShownAlive, objects
<1>3. ASSUME NEW o, NEW v PROVE ShownAlive(o, v)' = ShownAlive(o, v)
  BY <1>1 DEF ShownAlive, objects
<1>4. \A d \in Conn, o \in Object : AckedBy(d, o)' = AckedBy(d, o)
  BY <1>1 DEF AckedBy, masks
<1>5. /\ f.loops \in Nat /\ f.loops <= frame_loops /\ DOMAIN f.map \subseteq Object
      /\ last_loops[c] \in Nat
  BY DEF MapIInv, Past
<1>6. \A d \in Conn \ {c} : /\ last_loops'[d] = last_loops[d]
                            /\ display'[d] = display[d] /\ acks'[d] = acks[d]
  BY <1>1 DEF MapIInv, Shapes
<1>7. /\ last_loops'[c] = f.loops
      /\ acks'[c] = acks[c] \cup {<<f.loops, o>> : o \in DOMAIN f.map}
      /\ \A o \in Object : display'[c][o] =
             IF o \in DOMAIN f.map THEN f.map[o] ELSE display[c][o]
  BY <1>1 DEF MapIInv, Shapes
<1>8. f \in Coming(c) /\ \A d \in Conn : Coming(d)' \subseteq Coming(d)
  <2>1. \A d \in Conn : \A g \in sent[d] : g.loops \in Nat /\ last_loops[d] \in Nat
    BY DEF MapIInv, Past
  <2> QED BY <1>1, <1>5, <1>6, <1>7, <2>1 DEF Coming
<1>9. Past'
  <2>1. \A d \in Conn : last_loops'[d] \in Nat /\ last_loops'[d] <= frame_loops
    BY <1>5, <1>6, <1>7 DEF MapIInv, Past
  <2>2. ASSUME NEW d \in Conn, NEW a \in acks'[d]
        PROVE  a[1] \in Nat /\ a[1] <= last_loops'[d] /\ a[2] \in Object
    <3>1. CASE a \in acks[d]
      BY <1>1, <1>5, <1>6, <1>7, <2>2, <3>1 DEF MapIInv, Past
    <3>2. CASE a \notin acks[d]
      BY <1>5, <1>6, <1>7, <2>2, <3>2
    <3> QED BY <3>1, <3>2
  <2> QED BY <1>1, <2>1, <2>2 DEF MapIInv, Past, objects
<1>10. Shapes'
  BY <1>1 DEF MapIInv, Shapes
<1>11. Values'
  BY <1>1 DEF MapIInv, Values, objects, masks
<1>12. FramesRight'
  BY <1>1, <1>2 DEF MapIInv, FramesRight, objects
<1>13. AcksRight'
  <2> SUFFICES ASSUME NEW d \in logged_in, NEW a \in acks'[d],
                      a[1] > last_change[a[2]]
               PROVE  Current(a[2], display'[d][a[2]])
    BY <1>1, <1>2 DEF AcksRight, objects
  <2>1. d \in Conn
    BY DEF MapIInv, Shapes
  <2>2. CASE a \in acks[d]
    <3>1. Current(a[2], display[d][a[2]]) /\ a[2] \in Object /\ a[1] \in Nat
          /\ a[1] <= last_loops[d]
      BY <2>1, <2>2 DEF MapIInv, AcksRight, Past
    <3>2. CASE d = c /\ a[2] \in DOMAIN f.map
      <4>1. f.loops > last_change[a[2]]
        BY <1>1, <1>5, <3>1, <3>2 DEF MapIInv, Past
      <4> QED BY <1>1, <1>7, <3>1, <3>2, <4>1 DEF MapIInv, FramesRight
    <3> QED BY <1>6, <1>7, <2>1, <3>1, <3>2
  <2>3. CASE a \notin acks[d]
    <3>1. d = c /\ a[1] = f.loops /\ a[2] \in DOMAIN f.map
      BY <1>6, <1>7, <2>1, <2>3
    <3> QED BY <1>1, <1>5, <1>7, <3>1 DEF MapIInv, FramesRight
  <2> QED BY <2>2, <2>3
<1>14. AckedRight'
  <2> SUFFICES ASSUME NEW d \in logged_in, NEW o \in Object, AckedBy(d, o)'
               PROVE  /\ Current(o, display'[d][o])
                      /\ \A g \in Coming(d)' : o \in DOMAIN g.map
                            => Current(o, g.map[o])
    BY <1>1, <1>2 DEF AckedRight
  <2>1. d \in Conn /\ AckedBy(d, o)
    BY <1>4 DEF MapIInv, Shapes
  <2>2. \A g \in Coming(d) : o \in DOMAIN g.map => Current(o, g.map[o])
    BY <2>1 DEF MapIInv, AckedRight
  <2>3. Current(o, display[d][o])
    BY <2>1 DEF MapIInv, AckedRight
  <2> QED BY <1>6, <1>7, <1>8, <2>1, <2>2, <2>3
<1>15. TargetsRight'
  <2> SUFFICES ASSUME NEW d \in logged_in, NEW t \in Target, d \notin update_mask[t]
               PROVE  /\ ShownAlive(t, display'[d][t][1])
                      /\ \A g \in Coming(d)' : t \in DOMAIN g.map
                            => ShownAlive(t, g.map[t][1])
    BY <1>1, <1>3 DEF TargetsRight, masks
  <2>1. d \in Conn /\ t \in Object
    BY DEF MapIInv, Shapes, Object
  <2>2. /\ ShownAlive(t, display[d][t][1])
        /\ \A g \in Coming(d) : t \in DOMAIN g.map => ShownAlive(t, g.map[t][1])
    BY <2>1 DEF MapIInv, TargetsRight
  <2> QED BY <1>6, <1>7, <1>8, <2>1, <2>2
<1> QED BY <1>9, <1>10, <1>11, <1>12, <1>13, <1>14, <1>15 DEF MapIInv

(* Believing an acknowledgement does: its frame is later than the change.  *)
LEMMA ReceiveAckKeeps ==
    ASSUME MapIInv, NEW c \in Conn, NEW a \in acks[c], Receive_ack(c, a)
    PROVE  MapIInv'
<1> DEFINE b == a[2]
<1>1. /\ c \in logged_in /\ a[1] > last_change[b] /\ b \in Object
      /\ a[1] \in Nat /\ a[1] <= last_loops[c] /\ last_change[b] \in Nat
      /\ UNCHANGED <<frame_loops, pc, objects, logged_in, network, clients>>
  BY DEF Receive_ack, IsRecent, MapIInv, Past
<1>2. ASSUME NEW o, NEW v PROVE Current(o, v)' = Current(o, v)
  BY <1>1 DEF Current, ShownAlive, objects
<1>3. ASSUME NEW o, NEW v PROVE ShownAlive(o, v)' = ShownAlive(o, v)
  BY <1>1 DEF ShownAlive, objects
<1>4. \A d \in Conn, o \in Object : AckedBy(d, o)' => AckedBy(d, o) \/ (d = c /\ o = b)
  BY DEF Receive_ack, AckedBy, MapIInv, Values, Object
<1>5. \A d \in Conn, t \in Target : d \notin update_mask'[t] =>
            d \notin update_mask[t] \/ (d = c /\ t = b)
  BY DEF Receive_ack, MapIInv, Values
<1>6. /\ Current(b, display[c][b])
      /\ \A f \in Coming(c) : b \in DOMAIN f.map => Current(b, f.map[b])
  <2>1. Current(b, display[c][b])
    BY <1>1 DEF MapIInv, AcksRight
  <2>2. ASSUME NEW f \in Coming(c), b \in DOMAIN f.map PROVE Current(b, f.map[b])
    <3>1. f \in sent[c] /\ f.loops > last_change[b]
      BY <1>1 DEF Coming, MapIInv, Past
    <3> QED BY <1>1, <2>2, <3>1 DEF MapIInv, FramesRight
  <2> QED BY <2>1, <2>2
<1>7. Past' /\ Shapes'
  BY <1>1 DEF MapIInv, Past, Shapes, objects, network, clients
<1>8. Values'
  BY <1>1 DEF MapIInv, Values, objects, Receive_ack, Object
<1>9. FramesRight' /\ AcksRight'
  BY <1>1, <1>2 DEF MapIInv, FramesRight, AcksRight, objects, network, clients
<1>10. AckedRight'
  <2> SUFFICES ASSUME NEW d \in logged_in, NEW o \in Object, AckedBy(d, o)'
               PROVE  /\ Current(o, display[d][o])
                      /\ \A g \in Coming(d) : o \in DOMAIN g.map
                            => Current(o, g.map[o])
    BY <1>1, <1>2 DEF AckedRight, Coming, network, clients
  <2>1. d \in Conn
    BY DEF MapIInv, Shapes
  <2> QED BY <1>4, <1>6, <2>1 DEF MapIInv, AckedRight
<1>11. TargetsRight'
  <2> SUFFICES ASSUME NEW d \in logged_in, NEW t \in Target, d \notin update_mask'[t]
               PROVE  /\ ShownAlive(t, display[d][t][1])
                      /\ \A g \in Coming(d) : t \in DOMAIN g.map
                            => ShownAlive(t, g.map[t][1])
    BY <1>1, <1>3 DEF TargetsRight, Coming, network, clients
  <2>1. d \in Conn
    BY DEF MapIInv, Shapes
  <2>2. CASE d = c /\ t = b
    BY <1>6, <2>2, Kinds DEF Current
  <2> QED BY <1>5, <2>1, <2>2 DEF MapIInv, TargetsRight
<1> QED BY <1>7, <1>8, <1>9, <1>10, <1>11 DEF MapIInv

(* A login does: the masks are set to what the client assumes.             *)
LEMMA LoginKeeps ==
    ASSUME MapIInv, NEW c \in Conn, Handle_login(c)
    PROVE  MapIInv'
<1>1. /\ logged_in' = logged_in \cup {c}
      /\ sent'[c] = {} /\ acks'[c] = {} /\ last_loops'[c] = 0
      /\ \A o \in Object : display'[c][o] = Assumed(o)
      /\ UNCHANGED <<frame_loops, pc, objects>>
  BY DEF Handle_login, MapIInv, Shapes
<1>2. \A d \in Conn \ {c} :
         /\ sent'[d] = sent[d] /\ acks'[d] = acks[d]
         /\ last_loops'[d] = last_loops[d] /\ display'[d] = display[d]
         /\ d \in logged_in' => d \in logged_in
         /\ Coming(d)' = Coming(d)
  BY DEF Handle_login, MapIInv, Shapes, Coming
<1>3. Coming(c)' = {}
  BY <1>1 DEF Coming
<1>4. ASSUME NEW o, NEW v PROVE Current(o, v)' = Current(o, v)
  BY <1>1 DEF Current, ShownAlive, objects
<1>5. ASSUME NEW o, NEW v PROVE ShownAlive(o, v)' = ShownAlive(o, v)
  BY <1>1 DEF ShownAlive, objects
<1>6. \A d \in Conn \ {c}, o \in Object : AckedBy(d, o)' = AckedBy(d, o)
  BY DEF Handle_login, AckedBy, MapIInv, Values, Object
<1>7. \A d \in Conn \ {c}, t \in Target :
         (d \in update_mask'[t]) = (d \in update_mask[t])
  BY DEF Handle_login, MapIInv, Values
<1>8. \A o \in Object : AckedBy(c, o)' => AsAssumed(o)
  BY DEF Handle_login, AckedBy, MapIInv, Values, Object
<1>9. \A t \in Target : c \notin update_mask'[t] => AsAssumed(t)
  BY DEF Handle_login
<1>10. ASSUME NEW o \in Object, AsAssumed(o)
       PROVE  /\ Current(o, Assumed(o))
              /\ o \in Target => ShownAlive(o, Assumed(o)[1])
  <2>1. CASE o \in Cannon
    <3>1. Assumed(o) = 0 /\ dead_ticks[o] = 0
      BY <1>10, <2>1, Kinds DEF AsAssumed, Assumed
    <3>2. ShownAlive(o, Assumed(o))
      BY <3>1, Sizes DEF ShownAlive
    <3> QED BY <2>1, <3>2, Kinds DEF Current
  <2>2. CASE o \in Target
    <3>1. Assumed(o) = <<0, FullDamage>> /\ dead_ticks[o] = 0
      BY <1>10, <2>2, Kinds DEF AsAssumed, Assumed
    <3>2. Assumed(o)[1] = 0 /\ Assumed(o)[2] = FullDamage
      BY <3>1
    <3>3. ShownAlive(o, 0)
      BY <3>1, Sizes DEF ShownAlive
    <3>4. ShownAlive(o, Assumed(o)[1])
      BY <3>2, <3>3
    <3> QED BY <2>2, <3>2, <3>4, Kinds DEF Current
  <2>3. CASE o \in Fuel
    BY <1>10, <2>3, Kinds DEF AsAssumed, Assumed, Current
  <2>4. CASE o \in Poly
    <3>1. current_style[o] \in BOOLEAN /\ ~current_style[o]
      BY <1>10, <2>4, Kinds DEF AsAssumed, MapIInv, Values
    <3> QED BY <2>4, <3>1, Kinds DEF Assumed, Current
  <2> QED BY <2>1, <2>2, <2>3, <2>4, Kinds DEF Object
<1>11. Past'
  <2>1. frame_loops >= 0
    BY DEF MapIInv, Past
  <2>2. ASSUME NEW d \in Conn
        PROVE  /\ last_loops'[d] \in Nat /\ last_loops'[d] <= frame_loops
               /\ \A f \in sent'[d] : f.loops \in Nat /\ f.loops <= frame_loops
                                      /\ DOMAIN f.map \subseteq Object
               /\ \A a \in acks'[d] : a[1] \in Nat /\ a[1] <= last_loops'[d]
                                      /\ a[2] \in Object
    <3>1. CASE d = c
      BY <1>1, <2>1, <3>1
    <3>2. CASE d # c
      BY <1>2, <3>2 DEF MapIInv, Past
    <3> QED BY <3>1, <3>2
  <2> QED BY <1>1, <2>2 DEF MapIInv, Past, objects
<1>12. Shapes'
  BY DEF MapIInv, Shapes, Handle_login
<1>13. Values'
  BY <1>1 DEF MapIInv, Values, objects, Handle_login, Object
<1>14. FramesRight'
  <2> SUFFICES ASSUME NEW d \in logged_in', NEW f \in sent'[d],
                      NEW o \in DOMAIN f.map, f.loops > last_change[o]
               PROVE  Current(o, f.map[o])
    BY <1>1, <1>4 DEF FramesRight, objects
  <2>1. d \in Conn \ {c}
    BY <1>1 DEF MapIInv, Shapes
  <2> QED BY <1>2, <2>1 DEF MapIInv, FramesRight
<1>15. AcksRight'
  <2> SUFFICES ASSUME NEW d \in logged_in', NEW a \in acks'[d],
                      a[1] > last_change[a[2]]
               PROVE  Current(a[2], display'[d][a[2]])
    BY <1>1, <1>4 DEF AcksRight, objects
  <2>1. d \in Conn \ {c}
    BY <1>1 DEF MapIInv, Shapes
  <2> QED BY <1>2, <2>1 DEF MapIInv, AcksRight
<1>16. AckedRight'
  <2> SUFFICES ASSUME NEW d \in logged_in', NEW o \in Object, AckedBy(d, o)'
               PROVE  /\ Current(o, display'[d][o])
                      /\ \A g \in Coming(d)' : o \in DOMAIN g.map
                            => Current(o, g.map[o])
    BY <1>4 DEF AckedRight
  <2>1. d \in Conn
    BY <1>1 DEF MapIInv, Shapes
  <2>2. CASE d = c
    BY <1>1, <1>3, <1>8, <1>10, <2>2
  <2>3. CASE d # c
    <3>1. d \in logged_in /\ AckedBy(d, o)
      BY <1>2, <1>6, <2>1, <2>3
    <3> QED BY <1>2, <2>1, <2>3, <3>1 DEF MapIInv, AckedRight
  <2> QED BY <2>2, <2>3
<1>17. TargetsRight'
  <2> SUFFICES ASSUME NEW d \in logged_in', NEW t \in Target, d \notin update_mask'[t]
               PROVE  /\ ShownAlive(t, display'[d][t][1])
                      /\ \A g \in Coming(d)' : t \in DOMAIN g.map
                            => ShownAlive(t, g.map[t][1])
    BY <1>5 DEF TargetsRight
  <2>1. d \in Conn /\ t \in Object
    BY <1>1 DEF MapIInv, Shapes, Object
  <2>2. CASE d = c
    BY <1>1, <1>3, <1>9, <1>10, <2>1, <2>2
  <2>3. CASE d # c
    <3>1. d \in logged_in /\ d \notin update_mask[t]
      BY <1>2, <1>7, <2>1, <2>3
    <3> QED BY <1>2, <2>1, <2>3, <3>1 DEF MapIInv, TargetsRight
  <2> QED BY <2>2, <2>3
<1> QED BY <1>11, <1>12, <1>13, <1>14, <1>15, <1>16, <1>17 DEF MapIInv

(* Fewer clients, or nothing new at all. *)
LEMMA SubsetKeeps ==
    ASSUME MapIInv, logged_in' \subseteq logged_in,
           UNCHANGED <<frame_loops, pc, objects, masks, network, clients>>
    PROVE  MapIInv'
<1> USE DEF objects, masks, network, clients
<1>1. Past' /\ Shapes' /\ Values'
  BY DEF MapIInv, Past, Shapes, Values
<1>2. ASSUME NEW o, NEW v
      PROVE  Current(o, v)' = Current(o, v) /\ ShownAlive(o, v)' = ShownAlive(o, v)
  BY DEF Current, ShownAlive
<1>3. FramesRight' /\ AcksRight'
  BY <1>2 DEF MapIInv, FramesRight, AcksRight
<1>4. AckedRight' /\ TargetsRight'
  BY <1>2 DEF MapIInv, AckedRight, TargetsRight, AckedBy, Coming
<1> QED BY <1>1, <1>3, <1>4 DEF MapIInv

-----------------------------------------------------------------------------
(* The picture of the map that the clients have is right about all that    *)
(* the server takes for acknowledged: IInv is an invariant, and it implies *)
(* the two properties.                                                     *)

(* The invariant holds of a new server.                                    *)
LEMMA InitIInv == MapInit => MapIInv
<1> SUFFICES ASSUME MapInit PROVE MapIInv
  OBVIOUS
<1>1. Past /\ Shapes /\ Values
  BY Sizes DEF MapInit, Past, Shapes, Values
<1>2. FramesRight /\ AcksRight /\ AckedRight /\ TargetsRight
  BY DEF MapInit, FramesRight, AcksRight, AckedRight, TargetsRight
<1> QED BY <1>1, <1>2 DEF MapIInv

(* Every step keeps it.                                                    *)
LEMMA NextIInv == MapIInv /\ [MapNext]_mapVars => MapIInv'
<1> SUFFICES ASSUME MapIInv, [MapNext]_mapVars PROVE MapIInv'
  OBVIOUS
<1>1. CASE Update_objects
  BY <1>1, UpdateIsMapStep, MapStepKeeps
<1>2. CASE Frame_update
  BY <1>2, FrameKeeps
<1>3. CASE Reset_targets
  BY <1>3, ResetIsMapStep, MapStepKeeps
<1>4. CASE \E o \in Cannon : Cannon_dies(o)
  BY <1>4, CannonIsMapStep, MapStepKeeps
<1>5. CASE \E t \in Target : Do_repair(t)
  BY <1>5, RepairIsMapStep, MapStepKeeps
<1>6. CASE \E t \in Target : \E d \in 0 .. FullDamage : Object_hits_target(t, d)
  BY <1>6, HitIsMapStep, MapStepKeeps
<1>7. CASE \E f \in Fuel : Do_refuel(f)
  BY <1>7, RefuelIsMapStep, MapStepKeeps
<1>8. CASE \E c \in Conn : \E f \in sent[c] : Receive_frame(c, f)
  BY <1>8, ReceiveFrameKeeps
<1>9. CASE \E c \in Conn : \E a \in acks[c] : Receive_ack(c, a)
  BY <1>9, ReceiveAckKeeps
<1>10. CASE \E c \in Conn : Handle_login(c)
  BY <1>10, LoginKeeps
<1>11. CASE \E c \in Conn : Logout(c)
  BY <1>11, SubsetKeeps DEF Logout
<1>12. CASE UNCHANGED mapVars
  BY <1>12, SubsetKeeps DEF mapVars
<1> QED
  BY <1>1, <1>2, <1>3, <1>4, <1>5, <1>6, <1>7, <1>8, <1>9, <1>10, <1>11, <1>12
     DEF MapNext

(* Always, the frames that may yet be shown, the acknowledgements on their *)
(* way and the server's masks are right about the map.                     *)
LEMMA IInvHolds == MapSpec => []MapIInv
BY InitIInv, NextIInv, PTL DEF MapSpec

(* An object that the server takes for acknowledged by a client is shown   *)
(* by it as it is, for any objects and clients, however frames and         *)
(* acknowledgements are lost, repeated and reordered (Receive_ack_cannon,  *)
(* _fuel, _target, _polystyle with the '>' of their comment).              *)
THEOREM Acked == MapSpec => []AckedIsCurrent
<1>1. MapIInv => AckedIsCurrent
  <2> SUFFICES ASSUME MapIInv, NEW c \in logged_in, NEW o \in Object \ Poly,
                      c \in conn_mask[o]
               PROVE  Current(o, display[c][o])
    BY DEF AckedIsCurrent
  <2> QED BY DEF MapIInv, AckedRight, AckedBy
<1> QED BY <1>1, IInvHolds, PTL

(* A client that shows a polygon in the wrong style, or a dead target in   *)
(* play, is one the server keeps sending it to (update_mask).              *)
THEOREM Styles == MapSpec => []StylesAreCurrent
<1>1. MapIInv => StylesAreCurrent
  <2> SUFFICES ASSUME MapIInv, NEW c \in logged_in
               PROVE  /\ \A p \in Poly : c \notin update_mask[p]
                            => Current(p, display[c][p])
                      /\ \A t \in Target : c \notin update_mask[t]
                            => ShownAlive(t, display[c][t][1])
    BY DEF StylesAreCurrent
  <2> QED BY DEF MapIInv, AckedRight, TargetsRight, AckedBy, Object
<1> QED BY <1>1, IInvHolds, PTL

(* As long as the dead stay dead for some time, polygons are drawn         *)
(* destroyed just as long as the cannon or target they stand for is dead   *)
(* (World_remove_cannon, World_restore_target and the like).               *)
THEOREM Follow ==
    ASSUME DeadTicks > 0
    PROVE  MapSpec => []PolysFollow
<1>1. MapInit => PolysFollow
  BY DEF MapInit, PolysFollow
<1>2. MapIInv /\ PolysFollow /\ [MapNext]_mapVars => PolysFollow'
  <2> SUFFICES ASSUME MapIInv, PolysFollow, [MapNext]_mapVars,
                      NEW p \in Poly, Group[p] \in Mortal
               PROVE  current_style'[p] <=> dead_ticks'[Group[p]] > 0
    BY DEF PolysFollow
  <2> DEFINE g == Group[p]
  <2>1. /\ dead_ticks[g] \in Nat /\ current_style[p] \in BOOLEAN
        /\ current_style[p] <=> dead_ticks[g] > 0
    BY DEF MapIInv, Values, PolysFollow
  <2>2. DeadSteps > 0
    BY Sizes, DeadStepsPositive
  <2>3. \A S : p \in PolysOf(S) <=> g \in S
    BY DEF PolysOf
  <2>4. CASE Update_objects
    <3>1. current_style'[p] = IF g \in Restored THEN FALSE ELSE current_style[p]
      BY <2>3, <2>4 DEF Update_objects, Restyle
    <3>2. dead_ticks'[g] = IF g \in Restored \/ dead_ticks[g] = 0 THEN 0
                           ELSE dead_ticks[g] - 1
      BY <2>4 DEF Update_objects
    <3>3. dead_ticks[g] = 1 => g \in Restored
      BY DEF Restored, Back
    <3> QED BY <2>1, <3>1, <3>2, <3>3
  <2>5. CASE Reset_targets
    <3> DEFINE S == {t \in Target : damage[t] # FullDamage \/ dead_ticks[t] > 0}
    <3>1. current_style'[p] = IF g \in S THEN FALSE ELSE current_style[p]
      BY <2>3, <2>5 DEF Reset_targets, Restyle
    <3>2. dead_ticks'[g] = IF g \in S THEN 0 ELSE dead_ticks[g]
      BY <2>5 DEF Reset_targets
    <3> QED BY <2>1, <3>1, <3>2
  <2>6. ASSUME NEW o \in Mortal, Restyle({o}, TRUE),
               dead_ticks' = [dead_ticks EXCEPT ![o] = DeadSteps]
        PROVE  current_style'[p] <=> dead_ticks'[g] > 0
    <3>1. current_style'[p] = IF g = o THEN TRUE ELSE current_style[p]
      <4>1. current_style'[p] = IF p \in PolysOf({o}) THEN TRUE ELSE current_style[p]
        BY <2>6 DEF Restyle
      <4>2. p \in PolysOf({o}) <=> g = o
        BY DEF PolysOf
      <4> QED BY <4>1, <4>2
    <3>2. dead_ticks'[g] = IF g = o THEN DeadSteps ELSE dead_ticks[g]
      BY <2>6 DEF MapIInv, Values
    <3> QED BY <2>1, <2>2, <3>1, <3>2
  <2>7. CASE \E o \in Cannon : Cannon_dies(o)
    BY <2>6, <2>7 DEF Cannon_dies, Mortal
  <2>8. CASE \E t \in Target : \E d \in 0 .. FullDamage : Object_hits_target(t, d)
    BY <2>1, <2>6, <2>8 DEF Object_hits_target, Mortal
  <2>9. CASE UNCHANGED <<dead_ticks, current_style>>
    BY <2>1, <2>9
  <2>10. \/ Update_objects \/ Reset_targets
         \/ \E o \in Cannon : Cannon_dies(o)
         \/ \E t \in Target : \E d \in 0 .. FullDamage : Object_hits_target(t, d)
         \/ UNCHANGED <<dead_ticks, current_style>>
    BY DEF MapNext, mapVars, objects, Frame_update, Do_repair, Do_refuel,
       Receive_frame, Receive_ack, Handle_login, Logout
  <2> QED BY <2>4, <2>5, <2>7, <2>8, <2>9, <2>10
<1> QED BY <1>1, <1>2, IInvHolds, PTL DEF MapSpec

-----------------------------------------------------------------------------
(***************************************************************************)
(* The controls.                                                           *)
(*                                                                         *)
(* What is under way says nothing that is not so: the number of a key      *)
(* change belongs to one state of the keyboard, and a position of the      *)
(* mouse leaves out the movements that come with later key changes, so     *)
(* that the client may add those to what it is shown.  This is kept by     *)
(* what the client does while a datagram is under way, and it makes the    *)
(* server's record right whenever the datagram arrives.                    *)
(***************************************************************************)

Text == Strings \cup Commands

ClientState ==
    [keyv : Keyvs, last_keyboard_change : 0 .. MaxChanges,
     last_keyboard_ack : 0 .. MaxChanges, updated : BOOLEAN,
     talk_pending : 0 .. MaxTalks, talk_sequence_num : 0 .. MaxTalks,
     talk_str : Text \cup {""}, wait : 0 .. TALK_RETRY, silent : BOOLEAN,
     dirPrediction : BOOLEAN,
     pointer_moves : Seq([id : 0 .. MaxChanges, movement : {1}]),
     moved : 0 .. MaxMoves, painted : Int,
     wbuf : Seq(Record), out : SUBSET Seq(Record)]

ServerState ==
    [last_key_change : 0 .. MaxChanges, last_keyv : Keyvs,
     sent_home : BOOLEAN, destroyed : BOOLEAN,
     last_mouse_pos : -(W \div 2) .. W \div 2 - 1, turned : Int,
     talk_sequence_num : 0 .. MaxTalks]

(* A mouse position x is without the movements that client c still counts  *)
(* when key change k is acknowledged.                                      *)
Behind(c, x, k) ==
    /\ x \in Earlier .. Earlier + c.moved
    /\ c.dirPrediction =>
          \A i \in 1 .. Len(c.pointer_moves) :
             c.pointer_moves[i].id > k => x + i <= Earlier + c.moved

(* The keys of change number k. *)
KeysOf(c, k, keyv) ==
    k <= c.last_keyboard_change /\ (k = c.last_keyboard_change => keyv = c.keyv)

(* The keys that server s has for the ship. *)
ShipKeys(c, s) ==
    IF s.sent_home
    THEN s.last_key_change <= c.last_keyboard_change /\ s.last_keyv = NoKeys
    ELSE KeysOf(c, s.last_key_change, s.last_keyv)

(* A datagram tells the truth about client c. *)
PositionGenuine(c, d, pos) ==
    \E x \in Earlier .. Earlier + c.moved :
       /\ pos = short(x)
       /\ \/ Behind(c, x, 0)
          \/ \E m \in 1 .. Len(d) : d[m].type = "KEYBOARD" /\ Behind(c, x, d[m].change)

OneKeyboard(d) ==
    \A m, n \in 1 .. Len(d) :
       d[m].type = "KEYBOARD" /\ d[n].type = "KEYBOARD" => m = n

Genuine(c, d) ==
    /\ d \in Seq(Record) /\ OneKeyboard(d)
    /\ \A n \in 1 .. Len(d) :
          /\ d[n].type = "KEYBOARD" => KeysOf(c, d[n].change, d[n].keyv)
          /\ d[n].type = "POINTER_MOVE" => PositionGenuine(c, d, d[n].movement)
          /\ d[n].type = "TALK" => d[n].seq <= c.talk_sequence_num

NoKeyboard(d) == \A n \in 1 .. Len(d) : d[n].type # "KEYBOARD"

(* The client, within one of its actions. *)
Core(c) ==
    /\ c \in ClientState
    /\ \A i \in 1 .. Len(c.pointer_moves) : c.pointer_moves[i].id <= c.last_keyboard_change
    /\ c.painted <= Earlier + c.moved
    /\ c.talk_pending \in {0, c.talk_sequence_num}
    /\ c.talk_pending # 0 => c.talk_str \in Text

OutGood(c) == \A d \in c.out : Genuine(c, d)

(* Keys are in wbuf for no longer than Send_keyboard takes. *)
ClientGood(c) == Core(c) /\ Genuine(c, c.wbuf) /\ NoKeyboard(c.wbuf) /\ OutGood(c)

(* The server's record of client c. *)
ServerGood(c, s) ==
    /\ s \in ServerState /\ ~s.destroyed
    /\ ShipKeys(c, s)
    /\ Behind(c, s.turned, s.last_key_change)
    /\ s.last_mouse_pos = short(s.turned)
    /\ s.talk_sequence_num <= c.talk_sequence_num

Frame == [key_ack : 0 .. MaxChanges, dir : Int]

FramesGood(c, s, fs) ==
    /\ fs \in Seq(Frame)
    /\ \A f \in 1 .. Len(fs) :
          fs[f].key_ack <= s.last_key_change /\ Behind(c, fs[f].dir, fs[f].key_ack)

Saying == [seq : 1 .. MaxTalks, str : Text]

TalkGood(s, numbers, sd) ==
    /\ numbers \in Seq(Nat)
    /\ \A n \in 1 .. Len(numbers) : numbers[n] <= s.talk_sequence_num
    /\ sd \in Seq(Saying)
    /\ s.talk_sequence_num = IF sd = <<>> THEN 0 ELSE sd[Len(sd)].seq
    /\ \A m, n \in 1 .. Len(sd) : m < n => sd[m].seq < sd[n].seq

(* The inductive invariant. *)
IInv ==
    /\ ClientGood(client) /\ client.out = {}
    /\ client.last_keyboard_ack <= connp.last_key_change
    /\ client.talk_pending = 0 => connp.talk_sequence_num = client.talk_sequence_num
    /\ \A d \in to_server : Genuine(client, d)
    /\ ServerGood(client, connp)
    /\ FramesGood(client, connp, frames)
    /\ TalkGood(connp, talk_acks, said)
    /\ typed \in Seq(Strings) /\ Len(typed) = client.talk_sequence_num

-----------------------------------------------------------------------------
(* Folds.                                                                  *)

(* A set of numbers has a least. *)
LEMMA Least ==
    ASSUME NEW S \in SUBSET Nat, S # {}
    PROVE  \E n \in S : \A m \in S : n <= m
<1> DEFINE R == OpToRel(<, Nat)
<1>1. IsWellFoundedOn(R, Nat)
  BY NatLessThanWellFounded
<1>2. \A x, y \in Nat : <<x, y>> \notin R => y <= x
  BY DEF OpToRel
<1> HIDE DEF R
<1>3. PICK n \in S : \A m \in S : <<m, n>> \notin R
  BY <1>1, WFMin
<1>4. QED
  BY <1>2, <1>3

(* Induction up to a bound, for what the members of a set are. *)
LEMMA UpTo ==
    ASSUME NEW N \in Nat, NEW G, 0 \in G,
           \A n \in 1 .. N : n - 1 \in G => n \in G
    PROVE  \A n \in 0 .. N : n \in G
<1> DEFINE Missing == {n \in 0 .. N : n \notin G}
<1>1. SUFFICES ASSUME Missing # {} PROVE FALSE
  OBVIOUS
<1>2. Missing \in SUBSET Nat
  OBVIOUS
<1> HIDE DEF Missing
<1>3. PICK n \in Missing : \A m \in Missing : n <= m
  BY <1>1, <1>2, Least
<1>4. n \in 1 .. N /\ n - 1 \notin Missing
  BY <1>2, <1>3 DEF Missing
<1>5. QED
  BY <1>3, <1>4 DEF Missing

(* What is defined from the value before is defined for all. *)
Iterates(f, m, S, base, step) ==
    /\ f \in [0 .. m -> S] /\ f[0] = base
    /\ \A n \in 1 .. m : f[n] = step[n][f[n - 1]]

LEMMA Recursion ==
    ASSUME NEW N \in Nat, NEW S, NEW base \in S, NEW step \in [1 .. N -> [S -> S]]
    PROVE  \E f : Iterates(f, N, S, base, step)
<1> USE DEF Iterates
<1> DEFINE To(m, f) == Iterates(f, m, S, base, step)
           G == {m \in 0 .. N : \E f : To(m, f)}
<1>1. 0 \in G
  <2>1. To(0, [n \in 0 .. 0 |-> base])
    OBVIOUS
  <2> HIDE DEF To
  <2>2. QED
    BY <2>1
<1>2. ASSUME NEW m \in 1 .. N, m - 1 \in G PROVE m \in G
  <2>1. PICK f : To(m - 1, f)
    BY <1>2
  <2>2. f \in [0 .. m - 1 -> S] /\ f[m - 1] \in S /\ step[m][f[m - 1]] \in S
    BY <2>1
  <2> DEFINE g == [n \in 0 .. m |-> IF n < m THEN f[n] ELSE step[m][f[m - 1]]]
  <2>3. g \in [0 .. m -> S] /\ g[0] = base
    BY <2>1, <2>2
  <2>4. \A n \in 0 .. m - 1 : g[n] = f[n]
    OBVIOUS
  <2>5. g[m] = step[m][g[m - 1]]
    OBVIOUS
  <2>6. ASSUME NEW n \in 1 .. m PROVE g[n] = step[n][g[n - 1]]
    <3>1. CASE n = m
      BY <2>5, <3>1
    <3>2. CASE n # m
      <4>1. n \in 1 .. m - 1 /\ n \in 0 .. m - 1 /\ n - 1 \in 0 .. m - 1
        BY <3>2
      <4>2. f[n] = step[n][f[n - 1]]
        BY <2>1, <4>1
      <4>3. QED
        BY <2>4, <4>1, <4>2
    <3>3. QED
      BY <3>1, <3>2
  <2> HIDE DEF g
  <2>7. To(m, g)
    BY <2>3, <2>6
  <2> HIDE DEF To
  <2>8. QED
    BY <2>7
<1> HIDE DEF G
<1>3. \A m \in 1 .. N : m - 1 \in G => m \in G
  BY <1>2
<1>4. \A n \in 0 .. N : n \in G
  BY <1>1, <1>3, UpTo
<1>5. N \in G
  BY <1>4
<1>6. QED
  BY <1>5 DEF G

(* An acknowledgement after the other. *)
LEMMA AckFold ==
    ASSUME NEW N \in Nat, NEW seq, Len(seq) = N, NEW S, NEW base \in S,
           \A s \in S, n \in 1 .. N : Receive_talk_ack(s, seq[n]) \in S
    PROVE  FoldRecords(Receive_talk_ack, base, seq) \in S
<1> DEFINE step == [n \in 1 .. N |-> [s \in S |-> Receive_talk_ack(s, seq[n])]]
           Def(g) == g = [n \in 0 .. N |-> IF n = 0 THEN base
                                           ELSE Receive_talk_ack(g[n - 1], seq[n])]
           h == CHOOSE g : Def(g)
           G == {n \in 0 .. N : h[n] \in S}
<1>1. step \in [1 .. N -> [S -> S]]
  OBVIOUS
<1>2. ASSUME NEW n \in 1 .. N, NEW s \in S
      PROVE  step[n][s] = Receive_talk_ack(s, seq[n])
  OBVIOUS
<1> HIDE DEF step
<1>3. PICK f : Iterates(f, N, S, base, step)
  BY <1>1, Recursion
<1>4. \A n \in 1 .. N : f[n] = Receive_talk_ack(f[n - 1], seq[n])
  <2>1. \A n \in 1 .. N : n - 1 \in 0 .. N
    OBVIOUS
  <2>2. QED
    BY <1>2, <1>3, <2>1 DEF Iterates
<1>5. Def(f)
  <2>1. \A n \in 0 .. N : f[n] = IF n = 0 THEN base ELSE Receive_talk_ack(f[n - 1], seq[n])
    BY <1>3, <1>4 DEF Iterates
  <2>2. QED
    BY <1>3, <2>1 DEF Iterates
<1>6. Def(h)
  <2> HIDE DEF Def
  <2>1. QED
    BY <1>5
<1>7. FoldRecords(Receive_talk_ack, base, seq) = h[N]
  BY DEF FoldRecords
<1> HIDE DEF h
<1>8. h[0] = base /\ \A n \in 1 .. N : h[n] = Receive_talk_ack(h[n - 1], seq[n])
  BY <1>6
<1>9. 0 \in G /\ \A n \in 1 .. N : n - 1 \in G => n \in G
  BY <1>8
<1> HIDE DEF G
<1>10. \A n \in 0 .. N : n \in G
  BY <1>9, UpTo
<1>11. N \in G
  BY <1>10
<1>12. QED
  BY <1>7, <1>11 DEF G
-----------------------------------------------------------------------------
(* Integers of 16 bits.                                                    *)

LEMMA ControlSizes ==
    /\ W \in Nat /\ W \div 2 \in Nat /\ W = 2 * (W \div 2)
    /\ MaxMoves \in Nat /\ 2 * MaxMoves < W /\ W > 0
    /\ MaxChanges \in Nat /\ MaxTalks \in Nat /\ Earlier \in Nat /\ TALK_RETRY \in Nat
    /\ MaxPredict \in Nat
<1>1. /\ W \in Nat /\ W % 2 = 0
      /\ MaxMoves \in Nat /\ 2 * MaxMoves < W
      /\ MaxChanges \in Nat /\ MaxTalks \in Nat /\ Earlier \in Nat /\ TALK_RETRY \in Nat
      /\ MaxPredict \in Nat
  BY ControlsConstants
<1>2. QED
  BY <1>1

(* A multiple of W that is small is 0. *)
LEMMA SmallMultiple ==
    ASSUME NEW k \in Int, NEW w \in Nat, -w < w * k, w * k < w
    PROVE  k = 0
<1>1. CASE k >= 1
  <2>1. w * k = w + w * (k - 1) /\ w * (k - 1) >= 0
    BY <1>1
  <2>2. QED
    BY <2>1
<1>2. CASE k <= -1
  <2>1. w * k = w * (k + 1) - w /\ w * (k + 1) <= 0
    BY <1>2
  <2>2. QED
    BY <2>1
<1>3. QED
  BY <1>1, <1>2

(* The integer that is meant, but for a multiple of W. *)
LEMMA ShortIs ==
    ASSUME NEW n \in Int
    PROVE  /\ short(n) \in -(W \div 2) .. W \div 2 - 1
           /\ \E k \in Int : short(n) = n - W * k
<1> DEFINE m == n + W \div 2
<1>1. m \in Int
  BY ControlSizes
<1>2. m % W \in 0 .. W - 1 /\ m \div W \in Int /\ m = W * (m \div W) + (m % W)
  <2> HIDE DEF m
  <2>1. QED
    BY <1>1, ControlSizes
<1>3. short(n) = (m % W) - (W \div 2)
  BY DEF short
<1> HIDE DEF m
<1>4. short(n) \in -(W \div 2) .. W \div 2 - 1
  BY <1>2, <1>3, ControlSizes
<1>5. m - W \div 2 = n
  BY ControlSizes DEF m
<1>6. PICK q \in Int : m \div W = q
  BY <1>2
<1>7. m \in Int /\ m % W \in Int /\ W * q \in Int /\ m = W * q + (m % W)
  BY <1>1, <1>2, <1>6, ControlSizes
<1>8. short(n) = n - W * q
  BY <1>3, <1>5, <1>7, ControlSizes
<1>9. QED
  BY <1>4, <1>6, <1>8

(* The difference of two positions that are not far from each other is     *)
(* right, whatever overflows: Receive_pointer_move.                        *)
LEMMA ShortDifference ==
    ASSUME NEW x \in Int, NEW y \in Int, x - y <= MaxMoves, y - x <= MaxMoves
    PROVE  short(short(x) - short(y)) = x - y
<1>1. PICK a \in Int : short(x) = x - W * a
  BY ShortIs
<1>2. PICK b \in Int : short(y) = y - W * b
  BY ShortIs
<1>3. short(x) - short(y) \in Int
  BY ShortIs
<1>4. PICK d \in Int : short(short(x) - short(y)) = (short(x) - short(y)) - W * d
  BY <1>3, ShortIs
<1>5. W * (d + a - b) = W * d + W * a - W * b
  BY ControlSizes
<1>6. short(short(x) - short(y)) = (x - y) - W * (d + a - b)
  BY <1>1, <1>2, <1>4, <1>5, ControlSizes
<1>7. short(short(x) - short(y)) \in -(W \div 2) .. W \div 2 - 1
  BY <1>3, ShortIs
<1> DEFINE k == d + a - b
           p == W * k
<1>8. k \in Int /\ p \in Int
  BY ControlSizes
<1>9. p = (x - y) - short(short(x) - short(y))
  BY <1>6, <1>7, <1>8
<1>10. -W < p /\ p < W
  <2> HIDE DEF p
  <2>1. QED
    BY <1>7, <1>9, ControlSizes
<1>11. k = 0
  <2> HIDE DEF k
  <2>1. QED
    BY <1>8, <1>10, SmallMultiple, ControlSizes
<1>12. p = 0
  <2> HIDE DEF k
  <2>1. QED
    BY <1>11, ControlSizes
<1>13. QED
  BY <1>6, <1>12, ControlSizes

-----------------------------------------------------------------------------
(* What stays true while the client goes on.                               *)

(* Client b is client a, or a later state of it. *)
Later(a, b) ==
    /\ \/ b.last_keyboard_change = a.last_keyboard_change /\ b.keyv = a.keyv
       \/ b.last_keyboard_change > a.last_keyboard_change
    /\ b.talk_sequence_num >= a.talk_sequence_num
    /\ b.moved >= a.moved
    /\ \A x \in Int, k \in Nat : Behind(a, x, k) => Behind(b, x, k)

LEMMA RecordFields ==
    ASSUME NEW r \in Record
    PROVE  /\ r.type = "KEYBOARD" => r.change \in 0 .. MaxChanges /\ r.keyv \in Keyvs
           /\ r.type = "POINTER_MOVE" => r.movement \in -(W \div 2) .. W \div 2 - 1
           /\ r.type = "TALK" => r.seq \in 1 .. MaxTalks /\ r.str \in Text
           /\ r.type \in {"KEYBOARD", "POINTER_MOVE", "TALK"}
BY DEF Record, Text

LEMMA ClientFields ==
    ASSUME NEW c \in ClientState
    PROVE  /\ c.last_keyboard_change \in Nat /\ c.talk_sequence_num \in Nat
           /\ c.moved \in Nat /\ c.moved <= MaxMoves /\ c.painted \in Int
           /\ c.last_keyboard_change <= MaxChanges /\ c.talk_sequence_num <= MaxTalks
           /\ c.pointer_moves \in Seq([id : 0 .. MaxChanges, movement : {1}])
           /\ Len(c.pointer_moves) \in Nat
           /\ \A i \in 1 .. Len(c.pointer_moves) :
                 c.pointer_moves[i].id \in Nat /\ c.pointer_moves[i].movement = 1
<1>1. c.pointer_moves \in Seq([id : 0 .. MaxChanges, movement : {1}])
  BY DEF ClientState
<1> DEFINE M == [id : 0 .. MaxChanges, movement : {1}]
<1>2. \A m \in M : m.id \in Nat /\ m.movement = 1
  BY ControlSizes
<1>3. c.pointer_moves \in Seq(M)
  BY <1>1
<1> HIDE DEF M
<1>4. /\ Len(c.pointer_moves) \in Nat
      /\ \A i \in 1 .. Len(c.pointer_moves) : c.pointer_moves[i] \in M
  BY <1>3
<1>5. /\ c.last_keyboard_change \in 0 .. MaxChanges /\ c.talk_sequence_num \in 0 .. MaxTalks
      /\ c.moved \in 0 .. MaxMoves /\ c.painted \in Int
  BY DEF ClientState
<1>6. QED
  BY <1>1, <1>2, <1>4, <1>5, ControlSizes

LEMMA AckIsNat ==
    ASSUME NEW c \in ClientState
    PROVE  c.last_keyboard_ack \in 0 .. MaxChanges /\ c.last_keyboard_ack \in Nat
<1>1. c.last_keyboard_ack \in 0 .. MaxChanges
  BY DEF ClientState
<1>2. QED
  BY <1>1, ControlSizes

LEMMA LaterKeys ==
    ASSUME NEW a \in ClientState, NEW b \in ClientState, Later(a, b),
           NEW k \in Int, NEW v, KeysOf(a, k, v)
    PROVE  KeysOf(b, k, v)
BY ClientFields DEF Later, KeysOf

LEMMA LaterGenuine ==
    ASSUME NEW a \in ClientState, NEW b \in ClientState, Later(a, b),
           NEW d, Genuine(a, d)
    PROVE  Genuine(b, d)
<1>1. d \in Seq(Record) /\ OneKeyboard(d) /\ Len(d) \in Nat
  BY DEF Genuine
<1>2. ASSUME NEW n \in 1 .. Len(d) PROVE d[n] \in Record
  BY <1>1
<1>3. ASSUME NEW n \in 1 .. Len(d), d[n].type = "KEYBOARD"
      PROVE  KeysOf(b, d[n].change, d[n].keyv)
  BY <1>2, <1>3, RecordFields, LaterKeys DEF Genuine
<1>4. ASSUME NEW n \in 1 .. Len(d), d[n].type = "POINTER_MOVE"
      PROVE  PositionGenuine(b, d, d[n].movement)
  <2>1. PICK x \in Earlier .. Earlier + a.moved :
           /\ d[n].movement = short(x)
           /\ \/ Behind(a, x, 0)
              \/ \E m \in 1 .. Len(d) : d[m].type = "KEYBOARD" /\ Behind(a, x, d[m].change)
    BY <1>4 DEF Genuine, PositionGenuine
  <2>2. x \in Earlier .. Earlier + b.moved /\ x \in Int
    BY ClientFields, ControlSizes DEF Later
  <2>3. CASE Behind(a, x, 0)
    <3>1. Behind(b, x, 0)
      BY <2>2, <2>3 DEF Later
    <3>2. QED
      BY <2>1, <2>2, <3>1 DEF PositionGenuine
  <2>4. CASE \E m \in 1 .. Len(d) : d[m].type = "KEYBOARD" /\ Behind(a, x, d[m].change)
    <3>1. PICK m \in 1 .. Len(d) : d[m].type = "KEYBOARD" /\ Behind(a, x, d[m].change)
      BY <2>4
    <3>2. d[m].change \in Nat
      BY <1>2, <3>1, RecordFields
    <3>3. Behind(b, x, d[m].change)
      BY <2>2, <3>1, <3>2 DEF Later
    <3>4. QED
      BY <2>1, <2>2, <3>1, <3>3 DEF PositionGenuine
  <2>5. QED
    BY <2>1, <2>3, <2>4
<1>5. ASSUME NEW n \in 1 .. Len(d), d[n].type = "TALK"
      PROVE  d[n].seq <= b.talk_sequence_num
  <2>1. d[n].seq \in Nat /\ d[n].seq <= a.talk_sequence_num
    BY <1>2, <1>5, RecordFields DEF Genuine
  <2>2. QED
    BY <2>1, ClientFields DEF Later
<1>6. QED
  BY <1>1, <1>3, <1>4, <1>5 DEF Genuine

(* A later acknowledgement leaves fewer movements to count. *)
LEMMA BehindLater ==
    ASSUME NEW c \in ClientState, NEW x, NEW j \in Int, NEW k \in Int, j <= k,
           Behind(c, x, j)
    PROVE  Behind(c, x, k)
<1>1. \A i \in 1 .. Len(c.pointer_moves) : c.pointer_moves[i].id > k => c.pointer_moves[i].id > j
  BY ClientFields
<1>2. QED
  BY <1>1 DEF Behind

LEMMA BehindNone ==
    ASSUME NEW c \in ClientState, NEW x, NEW k \in Nat, Behind(c, x, 0)
    PROVE  Behind(c, x, k)
<1>1. 0 \in Int /\ k \in Int /\ 0 <= k
  OBVIOUS
<1>2. QED
  BY <1>1, BehindLater

-----------------------------------------------------------------------------
(* What is added to a datagram.                                            *)

KeyboardOf(c) ==
    [type |-> "KEYBOARD", change |-> c.last_keyboard_change, keyv |-> c.keyv]

LEMMA Appended ==
    ASSUME NEW d \in Seq(Record), NEW r \in Record
    PROVE  /\ Len(d) \in Nat /\ Append(d, r) \in Seq(Record)
           /\ Len(Append(d, r)) = Len(d) + 1
           /\ \A n \in 1 .. Len(d) : n \in 1 .. Len(Append(d, r)) /\ Append(d, r)[n] = d[n]
           /\ Append(d, r)[Len(d) + 1] = r
           /\ \A n \in 1 .. Len(Append(d, r)) :
                 \/ n \in 1 .. Len(d) /\ Append(d, r)[n] = d[n]
                 \/ n = Len(d) + 1 /\ Append(d, r)[n] = r
<1> HIDE DEF Record
<1>1. /\ Len(d) \in Nat /\ Append(d, r) \in Seq(Record)
      /\ Len(Append(d, r)) = Len(d) + 1
      /\ \A n \in 1 .. Len(d) : Append(d, r)[n] = d[n]
      /\ Append(d, r)[Len(d) + 1] = r
  OBVIOUS
<1>2. QED
  BY <1>1

LEMMA StillGenuine ==
    ASSUME NEW c, NEW d \in Seq(Record), NEW r \in Record, NEW pos,
           PositionGenuine(c, d, pos)
    PROVE  PositionGenuine(c, Append(d, r), pos)
<1>1. PICK x \in Earlier .. Earlier + c.moved :
         /\ pos = short(x)
         /\ \/ Behind(c, x, 0)
            \/ \E m \in 1 .. Len(d) : d[m].type = "KEYBOARD" /\ Behind(c, x, d[m].change)
  BY DEF PositionGenuine
<1> DEFINE e == Append(d, r)
<1>2. \A n \in 1 .. Len(d) : n \in 1 .. Len(e) /\ e[n] = d[n]
  BY Appended
<1> HIDE DEF e
<1>3. \/ Behind(c, x, 0)
      \/ \E m \in 1 .. Len(e) : e[m].type = "KEYBOARD" /\ Behind(c, x, e[m].change)
  BY <1>1, <1>2
<1>4. PositionGenuine(c, e, pos)
  BY <1>1, <1>3 DEF PositionGenuine
<1>5. QED
  BY <1>4 DEF e

LEMMA AddTalk ==
    ASSUME NEW c \in ClientState, NEW d, Genuine(c, d), NEW r \in Record,
           r.type = "TALK", r.seq <= c.talk_sequence_num
    PROVE  Genuine(c, Append(d, r))
<1>1. d \in Seq(Record)
  BY DEF Genuine
<1> DEFINE e == Append(d, r)
<1>2. /\ e \in Seq(Record) /\ Len(d) \in Nat
      /\ \A n \in 1 .. Len(e) :
            \/ n \in 1 .. Len(d) /\ e[n] = d[n]
            \/ n = Len(d) + 1 /\ e[n] = r
  BY <1>1, Appended
<1>3. \A n \in 1 .. Len(d) : d[n].type = "POINTER_MOVE" => PositionGenuine(c, e, d[n].movement)
  BY <1>1, StillGenuine DEF Genuine
<1> HIDE DEF e
<1>4. OneKeyboard(e)
  BY <1>2 DEF OneKeyboard, Genuine
<1>5. ASSUME NEW n \in 1 .. Len(e)
      PROVE  /\ e[n].type = "KEYBOARD" => KeysOf(c, e[n].change, e[n].keyv)
             /\ e[n].type = "POINTER_MOVE" => PositionGenuine(c, e, e[n].movement)
             /\ e[n].type = "TALK" => e[n].seq <= c.talk_sequence_num
  BY <1>2, <1>3 DEF Genuine
<1>6. Genuine(c, e)
  BY <1>2, <1>4, <1>5 DEF Genuine
<1>7. QED
  BY <1>6 DEF e

LEMMA AddKeyboard ==
    ASSUME NEW c \in ClientState, NEW d, Genuine(c, d), NoKeyboard(d)
    PROVE  Genuine(c, Append(d, KeyboardOf(c)))
<1>0. KeyboardOf(c) \in Record
  BY DEF KeyboardOf, Record, ClientState
<1>1. d \in Seq(Record)
  BY DEF Genuine
<1> DEFINE r == KeyboardOf(c)
           e == Append(d, r)
<1>2. r.type = "KEYBOARD" /\ KeysOf(c, r.change, r.keyv)
  BY ClientFields DEF KeyboardOf, KeysOf
<1>3. /\ e \in Seq(Record) /\ Len(d) \in Nat
      /\ \A n \in 1 .. Len(e) :
            \/ n \in 1 .. Len(d) /\ e[n] = d[n]
            \/ n = Len(d) + 1 /\ e[n] = r
  BY <1>0, <1>1, Appended
<1>4. \A n \in 1 .. Len(d) : d[n].type = "POINTER_MOVE" => PositionGenuine(c, e, d[n].movement)
  BY <1>0, <1>1, StillGenuine DEF Genuine
<1> HIDE DEF e, r
<1>5. OneKeyboard(e)
  BY <1>3 DEF OneKeyboard, NoKeyboard
<1>6. ASSUME NEW n \in 1 .. Len(e)
      PROVE  /\ e[n].type = "KEYBOARD" => KeysOf(c, e[n].change, e[n].keyv)
             /\ e[n].type = "POINTER_MOVE" => PositionGenuine(c, e, e[n].movement)
             /\ e[n].type = "TALK" => e[n].seq <= c.talk_sequence_num
  BY <1>2, <1>3, <1>4 DEF Genuine
<1>7. Genuine(c, e)
  BY <1>3, <1>5, <1>6 DEF Genuine
<1>8. QED
  BY <1>7 DEF e, r

MoveTo(x) == [type |-> "POINTER_MOVE", movement |-> short(x)]

(* A position that will do whatever is acknowledged. *)
LEMMA AddMove ==
    ASSUME NEW c \in ClientState, NEW d, Genuine(c, d), NEW x \in Int, Behind(c, x, 0)
    PROVE  Genuine(c, Append(d, MoveTo(x)))
<1>0. MoveTo(x) \in Record
  BY ShortIs DEF MoveTo, Record
<1>1. d \in Seq(Record)
  BY DEF Genuine
<1> DEFINE r == MoveTo(x)
           e == Append(d, r)
<1>2. r.type = "POINTER_MOVE" /\ r.movement = short(x)
  BY DEF MoveTo
<1>3. /\ e \in Seq(Record) /\ Len(d) \in Nat
      /\ \A n \in 1 .. Len(e) :
            \/ n \in 1 .. Len(d) /\ e[n] = d[n]
            \/ n = Len(d) + 1 /\ e[n] = r
  BY <1>0, <1>1, Appended
<1>4. \A n \in 1 .. Len(d) : d[n].type = "POINTER_MOVE" => PositionGenuine(c, e, d[n].movement)
  BY <1>0, <1>1, StillGenuine DEF Genuine
<1> HIDE DEF e, r
<1>5. PositionGenuine(c, e, r.movement)
  BY <1>2 DEF PositionGenuine, Behind
<1>6. OneKeyboard(e)
  BY <1>2, <1>3 DEF OneKeyboard, Genuine
<1>7. ASSUME NEW n \in 1 .. Len(e)
      PROVE  /\ e[n].type = "KEYBOARD" => KeysOf(c, e[n].change, e[n].keyv)
             /\ e[n].type = "POINTER_MOVE" => PositionGenuine(c, e, e[n].movement)
             /\ e[n].type = "TALK" => e[n].seq <= c.talk_sequence_num
  BY <1>2, <1>3, <1>4, <1>5 DEF Genuine
<1>8. Genuine(c, e)
  BY <1>3, <1>6, <1>7 DEF Genuine
<1>9. QED
  BY <1>8 DEF e, r

(* A position that is sent with the key change that goes with it. *)
LEMMA AddMoveAndKeyboard ==
    ASSUME NEW c \in ClientState, NEW d, Genuine(c, d), NoKeyboard(d),
           NEW x \in Int, Behind(c, x, c.last_keyboard_change)
    PROVE  Genuine(c, Append(Append(d, MoveTo(x)), KeyboardOf(c)))
<1>0. MoveTo(x) \in Record /\ KeyboardOf(c) \in Record
  BY ShortIs DEF MoveTo, Record, KeyboardOf, ClientState
<1>1. d \in Seq(Record)
  BY DEF Genuine
<1> DEFINE r == MoveTo(x)
           k == KeyboardOf(c)
           e == Append(d, r)
           f == Append(e, k)
<1>2. r.type = "POINTER_MOVE" /\ r.movement = short(x)
  BY DEF MoveTo
<1>3. k.type = "KEYBOARD" /\ k.change = c.last_keyboard_change /\ KeysOf(c, k.change, k.keyv)
  BY ClientFields DEF KeyboardOf, KeysOf
<1>4. /\ e \in Seq(Record) /\ Len(d) \in Nat /\ Len(e) = Len(d) + 1
      /\ \A n \in 1 .. Len(e) :
            \/ n \in 1 .. Len(d) /\ e[n] = d[n]
            \/ n = Len(d) + 1 /\ e[n] = r
  BY <1>0, <1>1, Appended
<1>5. \A n \in 1 .. Len(d) : d[n].type = "POINTER_MOVE" => PositionGenuine(c, e, d[n].movement)
  BY <1>0, <1>1, StillGenuine DEF Genuine
<1>6. \A n \in 1 .. Len(d) : d[n].type = "POINTER_MOVE" => PositionGenuine(c, f, d[n].movement)
  <2> HIDE DEF e, r, k
  <2>1. QED
    BY <1>0, <1>4, <1>5, StillGenuine DEF k
<1>7. /\ f \in Seq(Record) /\ Len(f) = Len(e) + 1 /\ f[Len(f)] = k
      /\ \A n \in 1 .. Len(f) :
            \/ n \in 1 .. Len(e) /\ f[n] = e[n]
            \/ n = Len(e) + 1 /\ f[n] = k
  <2>1. e \in Seq(Record) /\ k \in Record
    BY <1>0, <1>4
  <2> HIDE DEF e, r, k
  <2>2. QED
    BY <2>1, Appended
<1> HIDE DEF e, r, k, f
<1>8. \A n \in 1 .. Len(f) :
            \/ n \in 1 .. Len(d) /\ f[n] = d[n]
            \/ n = Len(d) + 1 /\ f[n] = r
            \/ n = Len(f) /\ f[n] = k
  BY <1>4, <1>7
<1>9. PositionGenuine(c, f, r.movement)
  <2>1. Len(f) \in 1 .. Len(f)
    BY <1>4, <1>7
  <2>2. QED
    BY <1>2, <1>3, <1>7, <2>1 DEF PositionGenuine, Behind
<1>10. OneKeyboard(f)
  <2>1. \A n \in 1 .. Len(f) : f[n].type = "KEYBOARD" => n = Len(f)
    BY <1>2, <1>8 DEF NoKeyboard
  <2>2. QED
    BY <2>1 DEF OneKeyboard
<1>11. ASSUME NEW n \in 1 .. Len(f)
       PROVE  /\ f[n].type = "KEYBOARD" => KeysOf(c, f[n].change, f[n].keyv)
              /\ f[n].type = "POINTER_MOVE" => PositionGenuine(c, f, f[n].movement)
              /\ f[n].type = "TALK" => f[n].seq <= c.talk_sequence_num
  BY <1>2, <1>3, <1>6, <1>8, <1>9 DEF Genuine
<1>12. Genuine(c, f)
  BY <1>7, <1>10, <1>11 DEF Genuine
<1>13. QED
  BY <1>12 DEF e, r, k, f

-----------------------------------------------------------------------------
(* The client's functions.                                                 *)

(* Clients that differ in their buffers and timers only. *)
Alike(a, b) ==
    /\ b.keyv = a.keyv
    /\ b.last_keyboard_change = a.last_keyboard_change
    /\ b.last_keyboard_ack = a.last_keyboard_ack
    /\ b.talk_pending = a.talk_pending
    /\ b.talk_sequence_num = a.talk_sequence_num
    /\ b.talk_str = a.talk_str
    /\ b.dirPrediction = a.dirPrediction
    /\ b.pointer_moves = a.pointer_moves
    /\ b.moved = a.moved
    /\ b.painted = a.painted

LEMMA AlikeLater ==
    ASSUME NEW a \in ClientState, NEW b \in ClientState, Alike(a, b)
    PROVE  Later(a, b)
<1>1. \A x \in Int, k \in Nat : Behind(a, x, k) => Behind(b, x, k)
  BY DEF Alike, Behind
<1>2. QED
  BY <1>1, ClientFields DEF Alike, Later

LEMMA AlikeCore ==
    ASSUME NEW a, Core(a), NEW b \in ClientState, Alike(a, b)
    PROVE  /\ Core(b)
           /\ \A d : Genuine(a, d) => Genuine(b, d)
<1>1. a \in ClientState
  BY DEF Core
<1>2. Core(b)
  BY DEF Core, Alike
<1>3. QED
  BY <1>1, <1>2, AlikeLater, LaterGenuine

LEMMA AlikeTrans ==
    ASSUME NEW a, NEW b, NEW c, Alike(a, b), Alike(b, c)
    PROVE  Alike(a, c)
BY DEF Alike

LEMMA EmptyGenuine ==
    ASSUME NEW c
    PROVE  Genuine(c, <<>>) /\ NoKeyboard(<<>>)
<1>1. <<>> \in Seq(Record) /\ Len(<<>>) = 0
  OBVIOUS
<1>2. QED
  BY <1>1 DEF Genuine, OneKeyboard, NoKeyboard

LEMMA Sockbuf_flushGood ==
    ASSUME NEW c, Core(c), Genuine(c, c.wbuf), OutGood(c)
    PROVE  ClientGood(Sockbuf_flush(c)) /\ Alike(c, Sockbuf_flush(c))
<1> DEFINE b == Sockbuf_flush(c)
<1>1. c \in ClientState
  BY DEF Core
<1>2. b \in ClientState /\ Alike(c, b) /\ b.wbuf = <<>> /\ b.out = c.out \cup {c.wbuf}
  <2>1. c.wbuf \in Seq(Record) /\ c.out \in SUBSET Seq(Record)
    BY <1>1 DEF ClientState
  <2> DEFINE D == Seq(Record)
  <2>2. <<>> \in D
    OBVIOUS
  <2> HIDE DEF D
  <2>3. c.out \cup {c.wbuf} \in SUBSET D
    BY <2>1 DEF D
  <2>4. ClientState = [keyv : Keyvs, last_keyboard_change : 0 .. MaxChanges,
           last_keyboard_ack : 0 .. MaxChanges, updated : BOOLEAN,
           talk_pending : 0 .. MaxTalks, talk_sequence_num : 0 .. MaxTalks,
           talk_str : Text \cup {""}, wait : 0 .. TALK_RETRY, silent : BOOLEAN,
           dirPrediction : BOOLEAN,
           pointer_moves : Seq([id : 0 .. MaxChanges, movement : {1}]),
           moved : 0 .. MaxMoves, painted : Int,
           wbuf : D, out : SUBSET D]
    BY DEF ClientState, D
  <2>5. b \in ClientState
    BY <1>1, <2>2, <2>3, <2>4 DEF Sockbuf_flush
  <2>6. QED
    BY <1>1, <2>4, <2>5 DEF Sockbuf_flush, Alike
<1> HIDE DEF b
<1>3. Core(b) /\ \A d : Genuine(c, d) => Genuine(b, d)
  BY <1>2, AlikeCore
<1>4. OutGood(b)
  BY <1>2, <1>3 DEF OutGood
<1>5. ClientGood(b)
  BY <1>2, <1>3, <1>4, EmptyGenuine DEF ClientGood
<1>6. QED
  BY <1>2, <1>5 DEF b

LEMMA Send_talkGood ==
    ASSUME NEW c, Core(c), Genuine(c, c.wbuf), OutGood(c)
    PROVE  LET b == Send_talk(c)
           IN  /\ Core(b) /\ Genuine(b, b.wbuf) /\ OutGood(b) /\ Alike(c, b)
               /\ NoKeyboard(c.wbuf) => NoKeyboard(b.wbuf)
<1> DEFINE r == [type |-> "TALK", seq |-> c.talk_pending, str |-> c.talk_str]
           b == [Packet_printf(c, r) EXCEPT !.wait = TALK_RETRY]
<1>1. c \in ClientState
  BY DEF Core
<1>2. CASE c.talk_pending = 0 \/ c.wait > 0
  BY <1>2 DEF Send_talk, Alike
<1>3. CASE ~(c.talk_pending = 0 \/ c.wait > 0)
  <2>1. Send_talk(c) = b
    BY <1>3 DEF Send_talk
  <2>2. r \in Record /\ r.type = "TALK" /\ r.seq <= c.talk_sequence_num
    <3>1. c.talk_pending \in 1 .. MaxTalks /\ c.talk_str \in Text
      <4>1. c.talk_pending \in 0 .. MaxTalks
        BY <1>1 DEF ClientState
      <4>2. c.talk_str \in Text
        BY <1>3 DEF Core
      <4>3. QED
        BY <1>3, <4>1, <4>2, ControlSizes
    <3>2. c.talk_pending <= c.talk_sequence_num
      BY <1>1, <1>3, ClientFields DEF Core
    <3>3. QED
      BY <3>1, <3>2 DEF Record, Text
  <2> HIDE DEF r
  <2>3. c.wbuf \in Seq(Record) /\ Append(c.wbuf, r) \in Seq(Record)
    BY <2>2, Appended DEF Genuine
  <2>4. TALK_RETRY \in 0 .. TALK_RETRY
    BY ControlSizes
  <2>5. /\ b \in ClientState /\ Alike(c, b) /\ b.wbuf = Append(c.wbuf, r) /\ b.out = c.out
    BY <1>1, <2>3, <2>4 DEF ClientState, Packet_printf, Alike
  <2> HIDE DEF b
  <2>6. Core(b) /\ \A d : Genuine(c, d) => Genuine(b, d)
    BY <2>5, AlikeCore
  <2>7. Genuine(b, b.wbuf)
    BY <1>1, <2>2, <2>5, <2>6, AddTalk
  <2>8. NoKeyboard(c.wbuf) => NoKeyboard(b.wbuf)
    BY <2>2, <2>3, <2>5, Appended DEF NoKeyboard
  <2>9. QED
    BY <2>1, <2>5, <2>6, <2>7, <2>8 DEF OutGood
<1>4. QED
  BY <1>2, <1>3

LEMMA Send_keyboardGood ==
    ASSUME NEW c, Core(c), OutGood(c), Genuine(c, Append(c.wbuf, KeyboardOf(c)))
    PROVE  ClientGood(Send_keyboard(c)) /\ Alike(c, Send_keyboard(c))
<1> DEFINE b == [Packet_printf(c, KeyboardOf(c)) EXCEPT !.updated = TRUE]
           t == Send_talk(b)
<1>1. c \in ClientState /\ Append(c.wbuf, KeyboardOf(c)) \in Seq(Record)
  BY DEF Core, Genuine
<1>2. Send_keyboard(c) = Sockbuf_flush(t)
  BY DEF Send_keyboard, KeyboardOf
<1>3. /\ b \in ClientState /\ Alike(c, b) /\ b.out = c.out
      /\ b.wbuf = Append(c.wbuf, KeyboardOf(c))
  BY <1>1 DEF ClientState, Packet_printf, Alike
<1> HIDE DEF b
<1>4. Core(b) /\ Genuine(b, b.wbuf) /\ OutGood(b)
  BY <1>3, AlikeCore DEF OutGood
<1>5. Core(t) /\ Genuine(t, t.wbuf) /\ OutGood(t) /\ Alike(b, t)
  BY <1>4, Send_talkGood
<1> HIDE DEF t
<1>6. ClientGood(Sockbuf_flush(t)) /\ Alike(t, Sockbuf_flush(t))
  BY <1>5, Sockbuf_flushGood
<1>7. QED
  BY <1>2, <1>3, <1>5, <1>6, AlikeTrans

LEMMA ResendGood ==
    ASSUME NEW c, ClientGood(c)
    PROVE  ClientGood(Send_keyboard(c)) /\ Alike(c, Send_keyboard(c))
BY AddKeyboard, Send_keyboardGood DEF ClientGood, Core

LEMMA NotSilentGood ==
    ASSUME NEW c, ClientGood(c)
    PROVE  LET b == [c EXCEPT !.silent = FALSE]
           IN  ClientGood(b) /\ Alike(c, b)
<1> DEFINE b == [c EXCEPT !.silent = FALSE]
<1>1. c \in ClientState
  BY DEF ClientGood, Core
<1>2. b \in ClientState /\ Alike(c, b) /\ b.wbuf = c.wbuf /\ b.out = c.out
  BY <1>1 DEF ClientState, Alike
<1> HIDE DEF b
<1>3. Core(b) /\ \A d : Genuine(c, d) => Genuine(b, d)
  BY <1>2, AlikeCore DEF ClientGood
<1>4. ClientGood(b)
  BY <1>2, <1>3 DEF ClientGood, OutGood
<1>5. QED
  BY <1>2, <1>4 DEF b

LEMMA Net_flushGood ==
    ASSUME NEW c, ClientGood(c)
    PROVE  ClientGood(Net_flush(c)) /\ Alike(c, Net_flush(c))
<1> DEFINE t == Send_talk(c)
           f == Sockbuf_flush(t)
<1>1. Alike(c, c)
  BY DEF Alike
<1>2. ClientGood(Send_keyboard(c)) /\ Alike(c, Send_keyboard(c))
  BY ResendGood
<1>3. Core(t) /\ Genuine(t, t.wbuf) /\ OutGood(t) /\ Alike(c, t)
  BY Send_talkGood DEF ClientGood
<1> HIDE DEF t
<1>4. ClientGood(f) /\ Alike(t, f)
  BY <1>3, Sockbuf_flushGood
<1> HIDE DEF f
<1>5. ClientGood([f EXCEPT !.silent = FALSE]) /\ Alike(f, [f EXCEPT !.silent = FALSE])
  BY <1>4, NotSilentGood
<1>6. Alike(c, [f EXCEPT !.silent = FALSE])
  BY <1>3, <1>4, <1>5, AlikeTrans
<1>7. \/ Net_flush(c) = c \/ Net_flush(c) = Send_keyboard(c)
      \/ Net_flush(c) = [f EXCEPT !.silent = FALSE]
  BY DEF Net_flush, f, t
<1>8. QED
  BY <1>1, <1>2, <1>5, <1>6, <1>7

LEMMA AnswerGood ==
    ASSUME NEW c, ClientGood(c)
    PROVE  ClientGood(Answer(c)) /\ Alike(c, Answer(c))
<1> DEFINE k == Send_keyboard(c)
<1>1. ClientGood(k) /\ Alike(c, k)
  BY ResendGood
<1> HIDE DEF k
<1>2. ClientGood([k EXCEPT !.silent = FALSE]) /\ Alike(k, [k EXCEPT !.silent = FALSE])
  BY <1>1, NotSilentGood
<1>3. Alike(c, [k EXCEPT !.silent = FALSE])
  BY <1>1, <1>2, AlikeTrans
<1>4. Answer(c) = [k EXCEPT !.silent = FALSE] \/ Answer(c) = Net_flush(c)
  BY DEF Answer, k
<1>5. QED
  BY <1>2, <1>3, <1>4, Net_flushGood

(* What the client has been told. *)
Waits(a, b) ==
    /\ b.last_keyboard_ack = a.last_keyboard_ack
    /\ b.talk_pending = a.talk_pending
    /\ b.talk_sequence_num = a.talk_sequence_num

LEMMA LaterTrans ==
    ASSUME NEW a \in ClientState, NEW b \in ClientState, NEW c \in ClientState,
           Later(a, b), Later(b, c)
    PROVE  Later(a, c)
BY ClientFields DEF Later

(* A key is pressed or released. *)
LEMMA Net_key_changeGood ==
    ASSUME NEW c, ClientGood(c), c.last_keyboard_change < MaxChanges, NEW k \in Keyvs
    PROVE  LET b == Net_key_change([c EXCEPT !.keyv = k])
           IN  ClientGood(b) /\ Later(c, b) /\ Waits(c, b)
<1> DEFINE m == [[c EXCEPT !.keyv = k] EXCEPT !.last_keyboard_change = @ + 1]
           b == Send_keyboard(m)
<1>1. c \in ClientState /\ c.last_keyboard_change \in 0 .. MaxChanges
  BY DEF ClientGood, Core, ClientState
<1>2. c.last_keyboard_change + 1 \in 0 .. MaxChanges
  BY <1>1, ControlSizes
<1>3. /\ m \in ClientState
      /\ m.last_keyboard_change = c.last_keyboard_change + 1
      /\ m.wbuf = c.wbuf /\ m.out = c.out /\ m.moved = c.moved
      /\ m.pointer_moves = c.pointer_moves /\ m.painted = c.painted
      /\ m.dirPrediction = c.dirPrediction /\ m.talk_str = c.talk_str
      /\ Waits(c, m)
  BY <1>1, <1>2 DEF ClientState, Waits
<1> HIDE DEF m
<1>4. \A x \in Int, j \in Nat : Behind(c, x, j) => Behind(m, x, j)
  BY <1>3 DEF Behind
<1>5. Later(c, m)
  <2>1. m.last_keyboard_change > c.last_keyboard_change
    BY <1>1, <1>3, ControlSizes
  <2>2. m.talk_sequence_num >= c.talk_sequence_num /\ m.moved >= c.moved
    BY <1>1, <1>3, ClientFields DEF Waits
  <2>3. QED
    BY <1>4, <2>1, <2>2 DEF Later
<1>6. \A d : Genuine(c, d) => Genuine(m, d)
  BY <1>1, <1>3, <1>5, LaterGenuine
<1>7. Core(m)
  <2>1. \A i \in 1 .. Len(c.pointer_moves) :
           c.pointer_moves[i].id <= c.last_keyboard_change + 1
    BY <1>1, ClientFields DEF ClientGood, Core
  <2>2. QED
    BY <1>3, <2>1 DEF ClientGood, Core, Waits
<1>8. OutGood(m) /\ Genuine(m, m.wbuf) /\ NoKeyboard(m.wbuf)
  BY <1>3, <1>6 DEF ClientGood, OutGood
<1>9. ClientGood(b) /\ Alike(m, b)
  BY <1>3, <1>7, <1>8, AddKeyboard, Send_keyboardGood
<1>10. b \in ClientState
  BY <1>9 DEF ClientGood, Core
<1>11. Later(c, b) /\ Waits(c, b)
  <2> HIDE DEF b
  <2>1. Later(m, b)
    BY <1>3, <1>9, <1>10, AlikeLater
  <2>2. QED
    BY <1>1, <1>3, <1>5, <1>9, <1>10, <2>1, LaterTrans DEF Waits, Alike
<1>12. b = Net_key_change([c EXCEPT !.keyv = k])
  BY DEF Net_key_change, m
<1>13. QED
  BY <1>9, <1>11, <1>12

(* The mouse is moved while direction prediction is off. *)
LEMMA Send_pointer_moveOff ==
    ASSUME NEW c, ClientGood(c), c.moved < MaxMoves, ~c.dirPrediction
    PROVE  LET b == Send_pointer_move(c, 1)
           IN  ClientGood(b) /\ Later(c, b) /\ Waits(c, b)
<1> DEFINE total == Earlier + c.moved + 1
           b == Packet_printf([c EXCEPT !.moved = @ + 1], MoveTo(total))
<1>1. c \in ClientState /\ c.moved \in 0 .. MaxMoves
  BY DEF ClientGood, Core, ClientState
<1>2. c.moved + 1 \in 0 .. MaxMoves /\ total \in Int
  BY <1>1, ControlSizes
<1> HIDE DEF total
<1>3. MoveTo(total) \in Record /\ c.wbuf \in Seq(Record)
  BY <1>1, <1>2, ShortIs DEF MoveTo, Record, ClientState
<1>4. Append(c.wbuf, MoveTo(total)) \in Seq(Record)
  BY <1>3, Appended
<1>5. /\ b \in ClientState
      /\ b.last_keyboard_change = c.last_keyboard_change /\ b.keyv = c.keyv
      /\ b.wbuf = Append(c.wbuf, MoveTo(total)) /\ b.out = c.out /\ b.moved = c.moved + 1
      /\ b.pointer_moves = c.pointer_moves /\ b.painted = c.painted
      /\ b.dirPrediction = FALSE /\ b.talk_str = c.talk_str
      /\ Waits(c, b)
  <2>1. c.dirPrediction = FALSE
    BY <1>1 DEF ClientState
  <2>2. QED
    BY <1>1, <1>2, <1>4, <2>1 DEF ClientState, Waits, Packet_printf
<1> HIDE DEF b
<1>6. \A x \in Int, j \in Nat : Behind(c, x, j) => Behind(b, x, j)
  BY <1>1, <1>5, ControlSizes DEF Behind
<1>7. Later(c, b)
  BY <1>1, <1>5, <1>6, ClientFields DEF Later, Waits
<1>8. \A d : Genuine(c, d) => Genuine(b, d)
  BY <1>1, <1>5, <1>7, LaterGenuine
<1>9. Core(b)
  BY <1>1, <1>5, ClientFields, ControlSizes DEF ClientGood, Core, Waits
<1>10. Behind(b, total, 0)
  <2>1. total \in Earlier .. Earlier + b.moved
    BY <1>1, <1>5, ControlSizes DEF total
  <2>2. QED
    BY <1>5, <2>1 DEF Behind
<1>11. Genuine(b, b.wbuf)
  BY <1>2, <1>5, <1>8, <1>10, AddMove DEF ClientGood
<1>12. NoKeyboard(b.wbuf)
  <2>1. MoveTo(total).type # "KEYBOARD"
    BY DEF MoveTo
  <2>2. QED
    BY <1>3, <1>5, <2>1, Appended DEF NoKeyboard, ClientGood
<1>13. Send_pointer_move(c, 1) = b
  BY DEF Send_pointer_move, b, MoveTo, total
<1>14. QED
  BY <1>5, <1>7, <1>8, <1>9, <1>11, <1>12, <1>13 DEF ClientGood, OutGood

(* The mouse is moved, and the movement remembered with the next change.   *)
LEMMA MovesKept ==
    ASSUME NEW c \in ClientState, c.last_keyboard_change < MaxChanges,
           NEW moves, moves = <<Movement(c, 1)>> \o c.pointer_moves
    PROVE  LET pm == SubSeq(moves, 1, IF Len(moves) < MaxPredict THEN Len(moves)
                                                                  ELSE MaxPredict)
           IN  /\ pm \in Seq([id : 0 .. MaxChanges, movement : {1}])
               /\ Len(pm) \in Nat
               /\ \A i \in 1 .. Len(pm) :
                     \/ i = 1 /\ pm[i].id = c.last_keyboard_change + 1
                     \/ /\ i - 1 \in 1 .. Len(c.pointer_moves)
                        /\ pm[i].id = c.pointer_moves[i - 1].id
<1> DEFINE M == [id : 0 .. MaxChanges, movement : {1}]
           m == Movement(c, 1)
           n == IF Len(moves) < MaxPredict THEN Len(moves) ELSE MaxPredict
           pm == SubSeq(moves, 1, n)
<1>1. c.last_keyboard_change + 1 \in 0 .. MaxChanges
  BY ClientFields, ControlSizes
<1>2. m \in M /\ m.id = c.last_keyboard_change + 1
  BY <1>1 DEF Movement
<1>3. c.pointer_moves \in Seq(M)
  BY ClientFields
<1> HIDE DEF M, m
<1>4. <<m>> \in Seq(M) /\ Len(<<m>>) = 1 /\ <<m>>[1] = m
  BY <1>2
<1>5. /\ moves \in Seq(M) /\ Len(moves) = 1 + Len(c.pointer_moves)
      /\ Len(c.pointer_moves) \in Nat
  BY <1>3, <1>4 DEF m
<1>6. \A i \in 1 .. Len(moves) :
         moves[i] = IF i = 1 THEN m ELSE c.pointer_moves[i - 1]
  BY <1>3, <1>4, <1>5 DEF m
<1>7. n \in 0 .. Len(moves)
  BY <1>5, ControlSizes
<1> HIDE DEF n
<1>8. /\ pm \in Seq(M) /\ Len(pm) = n
      /\ \A i \in 1 .. n : pm[i] = moves[i]
  BY <1>5, <1>7
<1> HIDE DEF pm
<1>9. \A i \in 1 .. Len(pm) :
         \/ i = 1 /\ pm[i].id = c.last_keyboard_change + 1
         \/ /\ i - 1 \in 1 .. Len(c.pointer_moves)
            /\ pm[i].id = c.pointer_moves[i - 1].id
  BY <1>2, <1>5, <1>6, <1>7, <1>8
<1>10. QED
  BY <1>7, <1>8, <1>9, <1>5 DEF pm, n, M

LEMMA Send_pointer_moveOn ==
    ASSUME NEW c, ClientGood(c), c.moved < MaxMoves,
           c.last_keyboard_change < MaxChanges, c.dirPrediction
    PROVE  LET b == Send_pointer_move(c, 1)
           IN  ClientGood(b) /\ Later(c, b) /\ Waits(c, b)
<1> DEFINE total == Earlier + c.moved + 1
           moves == <<Movement(c, 1)>> \o c.pointer_moves
           pm == SubSeq(moves, 1, IF Len(moves) < MaxPredict THEN Len(moves)
                                                              ELSE MaxPredict)
           M == [id : 0 .. MaxChanges, movement : {1}]
           b == [[[c EXCEPT !.moved = @ + 1] EXCEPT !.pointer_moves = pm]
                    EXCEPT !.last_keyboard_change = @ + 1]
           w == [[Packet_printf([c EXCEPT !.moved = @ + 1], MoveTo(total))
                    EXCEPT !.pointer_moves = pm]
                    EXCEPT !.last_keyboard_change = @ + 1]
           k == Send_keyboard(w)
<1>1. /\ c \in ClientState /\ c.moved \in 0 .. MaxMoves
      /\ c.last_keyboard_change \in 0 .. MaxChanges
  BY DEF ClientGood, Core, ClientState
<1>2. /\ c.moved + 1 \in 0 .. MaxMoves /\ total \in Int
      /\ c.last_keyboard_change + 1 \in 0 .. MaxChanges
  BY <1>1, ControlSizes
<1>3. /\ pm \in Seq(M) /\ Len(pm) \in Nat
      /\ \A i \in 1 .. Len(pm) :
            \/ i = 1 /\ pm[i].id = c.last_keyboard_change + 1
            \/ /\ i - 1 \in 1 .. Len(c.pointer_moves)
               /\ pm[i].id = c.pointer_moves[i - 1].id
  <2> HIDE DEF M, moves
  <2>1. moves = <<Movement(c, 1)>> \o c.pointer_moves
    BY DEF moves
  <2>2. QED
    BY <1>1, <2>1, MovesKept DEF M
<1> HIDE DEF pm, total
<1>4. MoveTo(total) \in Record /\ c.wbuf \in Seq(Record)
  BY <1>1, <1>2, ShortIs DEF MoveTo, Record, ClientState
<1>5. Append(c.wbuf, MoveTo(total)) \in Seq(Record)
  BY <1>4, Appended
<1>6. /\ b \in ClientState
      /\ b.last_keyboard_change = c.last_keyboard_change + 1
      /\ b.out = c.out /\ b.moved = c.moved + 1
      /\ b.pointer_moves = pm /\ b.painted = c.painted
      /\ b.talk_str = c.talk_str /\ b.dirPrediction = c.dirPrediction
      /\ Waits(c, b)
  BY <1>1, <1>2, <1>3 DEF ClientState, Waits
<1>7. w \in ClientState /\ Alike(b, w) /\ w.wbuf = Append(c.wbuf, MoveTo(total)) /\ w.out = b.out
  BY <1>1, <1>2, <1>3, <1>5 DEF ClientState, Packet_printf, Alike
<1>8. k = Send_pointer_move(c, 1)
  BY DEF Send_pointer_move, Net_key_change, MoveTo, total, pm
<1> HIDE DEF b, w
<1>9. ASSUME NEW x \in Int, NEW j \in Nat, Behind(c, x, j) PROVE Behind(b, x, j)
  <2>1. x \in Earlier .. Earlier + b.moved
    BY <1>1, <1>6, <1>9, ControlSizes DEF Behind
  <2>2. ASSUME NEW i \in 1 .. Len(pm), pm[i].id > j PROVE x + i <= Earlier + b.moved
    <3>1. x <= Earlier + c.moved /\ Earlier + b.moved = Earlier + c.moved + 1
      BY <1>1, <1>6, <1>9, ControlSizes DEF Behind
    <3>2. CASE i = 1
      BY <1>1, <3>1, <3>2, ControlSizes
    <3>3. CASE /\ i - 1 \in 1 .. Len(c.pointer_moves)
               /\ pm[i].id = c.pointer_moves[i - 1].id
      <4>1. x + (i - 1) <= Earlier + c.moved
        BY <1>9, <2>2, <3>3 DEF Behind
      <4>2. QED
        BY <1>1, <3>1, <4>1, ControlSizes
    <3>4. QED
      BY <1>3, <3>2, <3>3
  <2>3. QED
    BY <1>6, <2>1, <2>2 DEF Behind
<1>10. Later(c, b)
  <2>1. b.last_keyboard_change > c.last_keyboard_change
    BY <1>1, <1>6, ControlSizes
  <2>2. b.talk_sequence_num >= c.talk_sequence_num /\ b.moved >= c.moved
    BY <1>1, <1>6, ClientFields DEF Waits
  <2>3. QED
    BY <1>9, <2>1, <2>2 DEF Later
<1>11. \A d : Genuine(c, d) => Genuine(b, d)
  BY <1>1, <1>6, <1>10, LaterGenuine
<1>12. \A i \in 1 .. Len(pm) : pm[i].id <= b.last_keyboard_change
  <2>1. \A i \in 1 .. Len(c.pointer_moves) :
           /\ c.pointer_moves[i].id \in Nat
           /\ c.pointer_moves[i].id <= c.last_keyboard_change
    BY <1>1, ClientFields DEF ClientGood, Core
  <2>2. ASSUME NEW i \in 1 .. Len(pm) PROVE pm[i].id <= c.last_keyboard_change + 1
    <3>1. CASE i = 1 /\ pm[i].id = c.last_keyboard_change + 1
      BY <1>1, <3>1
    <3>2. CASE /\ i - 1 \in 1 .. Len(c.pointer_moves)
               /\ pm[i].id = c.pointer_moves[i - 1].id
      BY SMTT(30), <1>1, <2>1, <3>2
    <3>3. QED
      BY <1>3, <3>1, <3>2
  <2>3. QED
    BY <1>6, <2>2
<1>13. Core(b)
  <2>1. b.painted <= Earlier + b.moved
    BY <1>1, <1>6, ClientFields, ControlSizes DEF ClientGood, Core
  <2>2. QED
    BY <1>6, <1>12, <2>1 DEF ClientGood, Core, Waits
<1>14. Behind(b, total, b.last_keyboard_change)
  <2>1. total \in Earlier .. Earlier + b.moved
    BY <1>1, <1>6, ControlSizes DEF total
  <2>2. \A i \in 1 .. Len(b.pointer_moves) : ~(b.pointer_moves[i].id > b.last_keyboard_change)
    BY <1>6, <1>12, ClientFields
  <2>3. QED
    BY <2>1, <2>2 DEF Behind
<1>15. Genuine(b, Append(w.wbuf, KeyboardOf(b)))
  BY <1>2, <1>6, <1>7, <1>11, <1>14, AddMoveAndKeyboard DEF ClientGood
<1>16. KeyboardOf(w) = KeyboardOf(b)
  BY <1>7 DEF KeyboardOf, Alike
<1>17. Core(w) /\ \A d : Genuine(b, d) => Genuine(w, d)
  BY <1>7, <1>13, AlikeCore
<1>18. OutGood(w)
  BY <1>6, <1>7, <1>11, <1>17 DEF ClientGood, OutGood
<1>19. ClientGood(k) /\ Alike(w, k)
  BY <1>15, <1>16, <1>17, <1>18, Send_keyboardGood
<1> HIDE DEF k
<1>20. Alike(b, k) /\ k \in ClientState
  BY <1>7, <1>19, AlikeTrans DEF ClientGood, Core
<1>21. Later(c, k) /\ Waits(c, k)
  BY <1>1, <1>6, <1>10, <1>20, AlikeLater, LaterTrans DEF Waits, Alike
<1>22. QED
  BY <1>8, <1>19, <1>21

(* Turned off, nothing is counted; turned on, nothing is remembered.       *)
LEMMA Set_dirPredictionGood ==
    ASSUME NEW c, ClientGood(c), NEW b,
           b = IF c.dirPrediction
               THEN [c EXCEPT !.dirPrediction = FALSE]
               ELSE [c EXCEPT !.dirPrediction = TRUE, !.pointer_moves = <<>>,
                              !.last_keyboard_ack = 0]
    PROVE  /\ ClientGood(b) /\ Later(c, b)
           /\ b.talk_pending = c.talk_pending /\ b.talk_sequence_num = c.talk_sequence_num
           /\ b.last_keyboard_ack <= c.last_keyboard_ack /\ b.out = c.out
<1> DEFINE M == [id : 0 .. MaxChanges, movement : {1}]
<1>1. c \in ClientState /\ c.last_keyboard_ack \in 0 .. MaxChanges /\ 0 \in 0 .. MaxChanges
  <2>1. c \in ClientState /\ 0 \in 0 .. MaxChanges
    BY ControlSizes DEF ClientGood, Core
  <2>2. QED
    BY <2>1 DEF ClientState
<1>2. <<>> \in Seq(M) /\ Len(<<>>) = 0
  OBVIOUS
<1>3. /\ b \in ClientState
      /\ b.dirPrediction = TRUE => b.pointer_moves = <<>>
      /\ b.pointer_moves = c.pointer_moves \/ b.pointer_moves = <<>>
      /\ b.keyv = c.keyv /\ b.last_keyboard_change = c.last_keyboard_change
      /\ b.talk_pending = c.talk_pending /\ b.talk_sequence_num = c.talk_sequence_num
      /\ b.talk_str = c.talk_str /\ b.moved = c.moved /\ b.painted = c.painted
      /\ b.wbuf = c.wbuf /\ b.out = c.out
      /\ b.last_keyboard_ack = c.last_keyboard_ack \/ b.last_keyboard_ack = 0
  <2>1. CASE c.dirPrediction
    BY <1>1, <2>1 DEF ClientState
  <2>2. CASE ~c.dirPrediction
    BY <1>1, <1>2, <2>2 DEF ClientState
  <2>3. QED
    BY <2>1, <2>2
<1>4. \A x \in Int, j \in Nat : Behind(c, x, j) => Behind(b, x, j)
  BY <1>2, <1>3 DEF Behind
<1>5. Later(c, b)
  <2>1. b.talk_sequence_num >= c.talk_sequence_num /\ b.moved >= c.moved
    BY <1>1, <1>3, ClientFields
  <2>2. QED
    BY <1>3, <1>4, <2>1 DEF Later
<1>6. \A d : Genuine(c, d) => Genuine(b, d)
  BY <1>1, <1>3, <1>5, LaterGenuine
<1>7. Core(b)
  BY <1>2, <1>3 DEF ClientGood, Core
<1>8. ClientGood(b)
  BY <1>3, <1>6, <1>7 DEF ClientGood, OutGood
<1>9. b.last_keyboard_ack <= c.last_keyboard_ack
  BY <1>1, <1>3, ControlSizes
<1>10. QED
  BY <1>3, <1>5, <1>8, <1>9

LEMMA SilentGood ==
    ASSUME NEW c, ClientGood(c)
    PROVE  LET b == [c EXCEPT !.silent = TRUE]
           IN  ClientGood(b) /\ Alike(c, b) /\ b.out = c.out
<1> DEFINE b == [c EXCEPT !.silent = TRUE]
<1>1. c \in ClientState
  BY DEF ClientGood, Core
<1>2. b \in ClientState /\ Alike(c, b) /\ b.wbuf = c.wbuf /\ b.out = c.out
  BY <1>1 DEF ClientState, Alike
<1> HIDE DEF b
<1>3. Core(b) /\ \A d : Genuine(c, d) => Genuine(b, d)
  BY <1>2, AlikeCore DEF ClientGood
<1>4. ClientGood(b)
  BY <1>2, <1>3 DEF ClientGood, OutGood
<1>5. QED
  BY <1>2, <1>4 DEF b

(* Clients that differ in their talk only. *)
AlikeButTalk(a, b) ==
    /\ b.keyv = a.keyv
    /\ b.last_keyboard_change = a.last_keyboard_change
    /\ b.last_keyboard_ack = a.last_keyboard_ack
    /\ b.dirPrediction = a.dirPrediction
    /\ b.pointer_moves = a.pointer_moves
    /\ b.moved = a.moved /\ b.painted = a.painted
    /\ b.wbuf = a.wbuf /\ b.out = a.out

LEMMA TalkLater ==
    ASSUME NEW c, ClientGood(c), NEW b \in ClientState, AlikeButTalk(c, b),
           b.talk_sequence_num >= c.talk_sequence_num,
           b.talk_pending \in {0, b.talk_sequence_num},
           b.talk_pending # 0 => b.talk_str \in Text
    PROVE  ClientGood(b) /\ Later(c, b)
<1>1. c \in ClientState
  BY DEF ClientGood, Core
<1>2. \A x \in Int, j \in Nat : Behind(c, x, j) => Behind(b, x, j)
  BY DEF Behind, AlikeButTalk
<1>3. Later(c, b)
  BY <1>1, <1>2, ClientFields DEF Later, AlikeButTalk
<1>4. \A d : Genuine(c, d) => Genuine(b, d)
  BY <1>1, <1>3, LaterGenuine
<1>5. Core(b)
  BY DEF ClientGood, Core, AlikeButTalk
<1>6. QED
  BY <1>3, <1>4, <1>5 DEF ClientGood, OutGood, AlikeButTalk

(* A command for the client is typed. *)
LEMMA CommandGood ==
    ASSUME NEW c, ClientGood(c), NEW str \in Text
    PROVE  LET b == [c EXCEPT !.talk_str = str]
           IN  ClientGood(b) /\ Later(c, b) /\ Waits(c, b) /\ b.out = c.out
<1> DEFINE b == [c EXCEPT !.talk_str = str]
<1>1. c \in ClientState /\ c.talk_pending \in {0, c.talk_sequence_num}
  BY DEF ClientGood, Core
<1>2. /\ b \in ClientState /\ AlikeButTalk(c, b) /\ Waits(c, b) /\ b.talk_str = str
      /\ b.out = c.out
  BY <1>1 DEF ClientState, AlikeButTalk, Waits
<1> HIDE DEF b
<1>3. ClientGood(b) /\ Later(c, b)
  BY <1>1, <1>2, ClientFields, TalkLater DEF Waits
<1>4. QED
  BY <1>2, <1>3 DEF b

(* Talk is typed. *)
LEMMA TypedGood ==
    ASSUME NEW c, ClientGood(c), c.talk_sequence_num < MaxTalks, NEW str \in Text
    PROVE  LET seq == c.talk_sequence_num + 1
               b == Send_talk([c EXCEPT !.talk_str = str, !.talk_sequence_num = seq,
                                        !.talk_pending = seq, !.wait = 0])
           IN  /\ ClientGood(b) /\ Later(c, b)
               /\ b.last_keyboard_ack = c.last_keyboard_ack
               /\ b.talk_sequence_num = seq /\ b.talk_pending = seq
<1> DEFINE seq == c.talk_sequence_num + 1
           t == [c EXCEPT !.talk_str = str, !.talk_sequence_num = seq,
                          !.talk_pending = seq, !.wait = 0]
           b == Send_talk(t)
<1>1. c \in ClientState /\ c.talk_sequence_num \in Nat
  BY ClientFields DEF ClientGood, Core
<1>2. seq \in 0 .. MaxTalks /\ 0 \in 0 .. TALK_RETRY /\ seq >= c.talk_sequence_num
  BY <1>1, ControlSizes
<1> HIDE DEF seq
<1>3. /\ t \in ClientState /\ AlikeButTalk(c, t) /\ t.talk_str = str
      /\ t.talk_sequence_num = seq /\ t.talk_pending = seq
  BY <1>1, <1>2 DEF ClientState, AlikeButTalk
<1> HIDE DEF t
<1>4. ClientGood(t) /\ Later(c, t)
  BY <1>2, <1>3, TalkLater
<1>5. ClientGood(b) /\ Alike(t, b)
  BY <1>4, Send_talkGood DEF ClientGood
<1>6. b \in ClientState
  BY <1>5 DEF ClientGood, Core
<1> HIDE DEF b
<1>7. Later(c, b)
  BY <1>1, <1>3, <1>4, <1>5, <1>6, AlikeLater, LaterTrans
<1>8. QED
  BY <1>3, <1>5, <1>7 DEF Alike, AlikeButTalk, b, t, seq

-----------------------------------------------------------------------------
(* The client's actions.                                                   *)

LEMMA LaterServer ==
    ASSUME NEW a \in ClientState, NEW b \in ClientState, Later(a, b),
           NEW s, ServerGood(a, s)
    PROVE  ServerGood(b, s)
<1>1. s.last_key_change \in Nat /\ s.turned \in Int /\ s.talk_sequence_num \in Nat
  BY ControlSizes DEF ServerGood, ServerState
<1>2. ShipKeys(b, s)
  <2>1. s.sent_home => s.last_key_change <= b.last_keyboard_change
    BY <1>1, ClientFields DEF ServerGood, ShipKeys, Later
  <2>2. QED
    BY <1>1, <2>1, LaterKeys DEF ServerGood, ShipKeys
<1>3. Behind(b, s.turned, s.last_key_change)
  BY <1>1 DEF ServerGood, Later
<1>4. s.talk_sequence_num <= b.talk_sequence_num
  BY <1>1, ClientFields DEF ServerGood, Later
<1>5. QED
  BY <1>2, <1>3, <1>4 DEF ServerGood

LEMMA LaterFrames ==
    ASSUME NEW a \in ClientState, NEW b \in ClientState, Later(a, b),
           NEW s, NEW fs, FramesGood(a, s, fs)
    PROVE  FramesGood(b, s, fs)
<1>1. \A f \in 1 .. Len(fs) : fs[f].key_ack \in Nat /\ fs[f].dir \in Int
  <2>1. \A f \in Frame : f.key_ack \in Nat /\ f.dir \in Int
    BY ControlSizes DEF Frame
  <2>2. fs \in Seq(Frame)
    BY DEF FramesGood
  <2>3. QED
    BY <2>1, <2>2
<1>2. QED
  BY <1>1 DEF FramesGood, Later

LEMMA SentGood ==
    ASSUME NEW c, ClientGood(c)
    PROVE  LET b == [c EXCEPT !.out = {}]
           IN  ClientGood(b) /\ Alike(c, b) /\ b.out = {} /\ \A d \in c.out : Genuine(b, d)
<1> DEFINE b == [c EXCEPT !.out = {}]
<1>1. c \in ClientState
  BY DEF ClientGood, Core
<1>2. b \in ClientState /\ Alike(c, b) /\ b.wbuf = c.wbuf /\ b.out = {}
  BY <1>1 DEF ClientState, Alike
<1> HIDE DEF b
<1>3. Core(b) /\ \A d : Genuine(c, d) => Genuine(b, d)
  BY <1>2, AlikeCore DEF ClientGood
<1>4. ClientGood(b) /\ \A d \in c.out : Genuine(b, d)
  BY <1>2, <1>3 DEF ClientGood, OutGood
<1>5. QED
  BY <1>2, <1>4 DEF b

(* The client becomes b.  What was under way is still genuine. *)
LEMMA GoesOn ==
    ASSUME IInv, NEW b, ClientGood(b), b.out = {}, Later(client, b),
           b.last_keyboard_ack <= connp.last_key_change,
           b.talk_pending = 0 => connp.talk_sequence_num = b.talk_sequence_num,
           client' = b, \A d \in to_server' : d \in to_server \/ Genuine(b, d),
           FramesGood(client, connp, frames'), TalkGood(connp, talk_acks', said),
           connp' = connp, said' = said,
           typed' \in Seq(Strings), Len(typed') = b.talk_sequence_num
    PROVE  IInv'
<1>1. client \in ClientState /\ b \in ClientState
  BY DEF IInv, ClientGood, Core
<1>2. \A d \in to_server' : Genuine(b, d)
  BY <1>1, LaterGenuine DEF IInv
<1>3. ServerGood(b, connp)
  BY <1>1, LaterServer DEF IInv
<1>4. FramesGood(b, connp, frames')
  BY <1>1, LaterFrames
<1>5. QED
  BY <1>2, <1>3, <1>4 DEF IInv

LEMMA Sends ==
    ASSUME IInv, NEW c, ClientGood(c), Later(client, c),
           c.last_keyboard_ack <= connp.last_key_change,
           c.talk_pending = 0 => connp.talk_sequence_num = c.talk_sequence_num,
           Becomes(c),
           FramesGood(client, connp, frames'), TalkGood(connp, talk_acks', said),
           connp' = connp, said' = said,
           typed' \in Seq(Strings), Len(typed') = c.talk_sequence_num
    PROVE  IInv'
<1> DEFINE b == [c EXCEPT !.out = {}]
<1>1. ClientGood(b) /\ Alike(c, b) /\ b.out = {} /\ \A d \in c.out : Genuine(b, d)
  BY SentGood
<1>2. client' = b /\ \A d \in to_server' : d \in to_server \/ d \in c.out
  BY DEF Becomes
<1> HIDE DEF b
<1>3. client \in ClientState /\ c \in ClientState /\ b \in ClientState
  BY <1>1 DEF IInv, ClientGood, Core
<1>4. Later(client, b)
  BY <1>1, <1>3, AlikeLater, LaterTrans
<1>5. QED
  BY <1>1, <1>2, <1>4, GoesOn DEF Alike

LEMMA Keys_changeStep ==
    ASSUME IInv, Keys_change
    PROVE  IInv'
<1>1. PICK k \in Keyvs : Becomes(Net_key_change([client EXCEPT !.keyv = k]))
  BY DEF Keys_change
<1> DEFINE c == Net_key_change([client EXCEPT !.keyv = k])
<1>2. ClientGood(c) /\ Later(client, c) /\ Waits(client, c)
  BY Net_key_changeGood DEF IInv, Keys_change
<1>3. Becomes(c)
  BY <1>1
<1> HIDE DEF c
<1>4. QED
  BY <1>2, <1>3, Sends DEF IInv, Keys_change, Waits

LEMMA Client_pointer_moveStep ==
    ASSUME IInv, Client_pointer_move
    PROVE  IInv'
<1> DEFINE c == Send_pointer_move(client, 1)
<1>1. ClientGood(c) /\ Later(client, c) /\ Waits(client, c)
  BY Send_pointer_moveOff, Send_pointer_moveOn DEF IInv, Client_pointer_move
<1>2. Becomes(c)
  BY DEF Client_pointer_move
<1> HIDE DEF c
<1>3. QED
  BY <1>1, <1>2, Sends DEF IInv, Client_pointer_move, Waits

LEMMA Set_dirPredictionStep ==
    ASSUME IInv, Set_dirPrediction
    PROVE  IInv'
<1> DEFINE b == client'
<1>1. /\ ClientGood(b) /\ Later(client, b)
      /\ b.talk_pending = client.talk_pending
      /\ b.talk_sequence_num = client.talk_sequence_num
      /\ b.last_keyboard_ack <= client.last_keyboard_ack /\ b.out = client.out
  BY Set_dirPredictionGood DEF IInv, Set_dirPrediction
<1>2. b.last_keyboard_ack <= connp.last_key_change
  <2>1. /\ b.last_keyboard_ack \in Int /\ client.last_keyboard_ack \in Int
        /\ connp.last_key_change \in Int
    <3>1. b \in ClientState /\ client \in ClientState /\ connp \in ServerState
      BY <1>1 DEF IInv, ClientGood, Core, ServerGood
    <3> HIDE DEF b
    <3>2. b.last_keyboard_ack \in Int /\ client.last_keyboard_ack \in Int
      BY <3>1, AckIsNat
    <3>3. connp.last_key_change \in Int
      BY <3>1, ControlSizes DEF ServerState
    <3>4. QED
      BY <3>2, <3>3
  <2>2. QED
    BY <1>1, <2>1 DEF IInv
<1>3. QED
  BY <1>1, <1>2, GoesOn DEF IInv, Set_dirPrediction

LEMMA TalkStep ==
    ASSUME IInv, Talk
    PROVE  IInv'
<1>1. PICK str \in Strings \cup Commands :
         /\ str \in Strings => client.talk_sequence_num < MaxTalks
         /\ Net_talk(str)
  BY DEF Talk
<1>2. str \in Text /\ client \in ClientState
  BY DEF Text, IInv, ClientGood, Core
<1>3. CASE str \in Commands
  <2> DEFINE b == [client EXCEPT !.talk_str = str]
  <2>1. ClientGood(b) /\ Later(client, b) /\ Waits(client, b) /\ b.out = {}
    BY <1>2, CommandGood DEF IInv
  <2>2. client' = b /\ UNCHANGED <<to_server, typed>>
    BY <1>1, <1>3 DEF Net_talk
  <2> HIDE DEF b
  <2>3. QED
    BY <2>1, <2>2, GoesOn DEF IInv, Talk, Waits
<1>4. CASE str \notin Commands
  <2> DEFINE seq == client.talk_sequence_num + 1
             c == Send_talk([client EXCEPT !.talk_str = str, !.talk_sequence_num = seq,
                                           !.talk_pending = seq, !.wait = 0])
  <2>1. /\ ClientGood(c) /\ Later(client, c)
        /\ c.last_keyboard_ack = client.last_keyboard_ack
        /\ c.talk_sequence_num = seq /\ c.talk_pending = seq
    BY <1>1, <1>2, <1>4, TypedGood DEF IInv
  <2>2. Becomes(c) /\ typed' = Append(typed, str)
    BY <1>1, <1>4 DEF Net_talk
  <2> HIDE DEF c
  <2>3. seq # 0
    BY <1>2, ClientFields
  <2>4. typed' \in Seq(Strings) /\ Len(typed') = seq
    BY <1>4, <2>2 DEF IInv
  <2> HIDE DEF seq
  <2>5. QED
    BY <2>1, <2>2, <2>3, <2>4, Sends DEF IInv, Talk
<1>5. QED
  BY <1>3, <1>4

LEMMA FlushStep ==
    ASSUME IInv, Flush
    PROVE  IInv'
<1> DEFINE c == Net_flush(client)
<1>1. ClientGood(c) /\ Alike(client, c)
  BY Net_flushGood DEF IInv
<1>2. Becomes(c)
  BY DEF Flush
<1> HIDE DEF c
<1>3. client \in ClientState /\ c \in ClientState
  BY <1>1 DEF IInv, ClientGood, Core
<1>4. Later(client, c)
  BY <1>1, <1>3, AlikeLater
<1>5. QED
  BY <1>1, <1>2, <1>4, Sends DEF IInv, Flush, Alike

LEMMA SilenceStep ==
    ASSUME IInv, Silence
    PROVE  IInv'
<1> DEFINE b == [client EXCEPT !.silent = TRUE]
<1>1. ClientGood(b) /\ Alike(client, b) /\ b.out = client.out
  BY SilentGood DEF IInv
<1>2. client' = b
  BY DEF Silence
<1> HIDE DEF b
<1>3. client \in ClientState /\ b \in ClientState
  BY <1>1 DEF IInv, ClientGood, Core
<1>4. Later(client, b)
  BY <1>1, <1>3, AlikeLater
<1>5. QED
  BY <1>1, <1>2, <1>4, GoesOn DEF IInv, Silence, Alike

(* Predicting, the client counts what is not in what it is shown. *)
LEMMA PredictFold ==
    ASSUME NEW c, c \in ClientState, NEW dir \in Int, NEW top \in Int, dir <= top,
           \A i \in 1 .. Len(c.pointer_moves) :
              c.pointer_moves[i].id > c.last_keyboard_ack => dir + i <= top
    PROVE  predict_self_dir(c, dir) \in Int /\ predict_self_dir(c, dir) <= top
<1> DEFINE seq == c.pointer_moves
           ack == c.last_keyboard_ack
           N == Len(seq)
           op(v, m) == IF m.id > ack THEN v + m.movement ELSE v
           step == [n \in 1 .. N |-> [v \in Int |-> op(v, seq[n])]]
           Def(g) == g = [n \in 0 .. N |-> IF n = 0 THEN dir ELSE op(g[n - 1], seq[n])]
           h == CHOOSE g : Def(g)
           G == {n \in 0 .. N : h[n] \in Int /\ h[n] <= dir + n /\ h[n] <= top}
<1>0. N \in Nat /\ \A n \in 1 .. N : seq[n].movement = 1
  BY ClientFields
<1> HIDE DEF N
<1>1. step \in [1 .. N -> [Int -> Int]]
  BY <1>0
<1>2. ASSUME NEW n \in 1 .. N, NEW v \in Int PROVE step[n][v] = op(v, seq[n])
  OBVIOUS
<1> HIDE DEF step
<1>3. PICK f : Iterates(f, N, Int, dir, step)
  BY <1>0, <1>1, Recursion
<1>4. \A n \in 1 .. N : f[n] = op(f[n - 1], seq[n])
  <2>1. \A n \in 1 .. N : n - 1 \in 0 .. N
    BY <1>0
  <2> HIDE DEF op
  <2>2. QED
    BY <1>2, <1>3, <2>1 DEF Iterates
<1>5. Def(f)
  <2> HIDE DEF op
  <2>1. \A n \in 0 .. N : f[n] = IF n = 0 THEN dir ELSE op(f[n - 1], seq[n])
    BY <1>0, <1>3, <1>4 DEF Iterates
  <2>2. QED
    BY <1>3, <2>1 DEF Iterates
<1>6. Def(h)
  <2> HIDE DEF Def
  <2>1. QED
    BY <1>5
<1>7. predict_self_dir(c, dir) = h[N]
  BY DEF predict_self_dir, FoldRecords, N
<1> HIDE DEF h
<1>8. h[0] = dir /\ \A n \in 1 .. N : h[n] = op(h[n - 1], seq[n])
  <2> HIDE DEF op
  <2>1. QED
    BY <1>0, <1>6
<1>9. \A n \in 1 .. N : n - 1 \in G => n \in G
  <2>1. SUFFICES ASSUME NEW n \in 1 .. N, n - 1 \in G PROVE n \in G
    OBVIOUS
  <2>2. h[n - 1] \in Int /\ h[n - 1] <= dir + (n - 1) /\ h[n - 1] <= top
    BY <2>1
  <2>3. CASE seq[n].id > ack
    <3>1. h[n] = h[n - 1] + 1
      BY <1>0, <1>8, <2>3
    <3>2. dir + n <= top
      BY <2>3 DEF N
    <3>3. QED
      BY <1>0, <2>2, <3>1, <3>2
  <2>4. CASE ~(seq[n].id > ack)
    <3>1. h[n] = h[n - 1]
      BY <1>8, <2>4
    <3>2. QED
      BY <1>0, <2>2, <3>1
  <2>5. QED
    BY <2>3, <2>4
<1>10. 0 \in G
  BY <1>0, <1>8
<1> HIDE DEF G
<1>11. \A n \in 0 .. N : n \in G
  BY <1>0, <1>9, <1>10, UpTo
<1>12. N \in G
  BY <1>0, <1>11
<1>13. QED
  BY <1>7, <1>12 DEF G

(* A frame brings an acknowledgement of keys, and a direction that leaves  *)
(* out what this acknowledgement does.                                     *)
LEMMA Receive_startGood ==
    ASSUME NEW c, ClientGood(c), NEW s \in ServerState, NEW f \in Frame, NEW loops \in Nat,
           c.last_keyboard_ack <= s.last_key_change,
           s.last_key_change <= c.last_keyboard_change,
           f.key_ack <= s.last_key_change, Behind(c, f.dir, f.key_ack)
    PROVE  LET b == Receive_start(c, f, loops)
           IN  /\ ClientGood(b) /\ Later(c, b)
               /\ b.last_keyboard_ack <= s.last_key_change
               /\ b.talk_pending = c.talk_pending
               /\ b.talk_sequence_num = c.talk_sequence_num
<1> DEFINE ack == IF f.key_ack > c.last_keyboard_change THEN c.last_keyboard_ack
                  ELSE Greater(f.key_ack, c.last_keyboard_ack)
           wait == Greater(c.wait - loops, 0)
           a == [c EXCEPT !.updated = FALSE, !.wait = wait, !.last_keyboard_ack = ack]
           dir == IF ~a.dirPrediction THEN f.dir ELSE predict_self_dir(a, f.dir)
           b == [a EXCEPT !.painted = dir]
<1>1. c \in ClientState /\ c.last_keyboard_ack \in 0 .. MaxChanges /\ c.wait \in 0 .. TALK_RETRY
  <2>1. c \in ClientState
    BY DEF ClientGood, Core
  <2>2. QED
    BY <2>1 DEF ClientState
<1>2. f.key_ack \in 0 .. MaxChanges /\ f.dir \in Int
  BY DEF Frame
<1>3. s.last_key_change \in 0 .. MaxChanges
  BY DEF ServerState
<1>4. /\ ack \in 0 .. MaxChanges /\ ack >= f.key_ack /\ ack <= s.last_key_change
  <2>1. f.key_ack <= c.last_keyboard_change
    <3>1. c.last_keyboard_change \in Nat /\ MaxChanges \in Nat
      BY <1>1, ClientFields, ControlSizes
    <3>2. QED
      BY <1>2, <1>3, <3>1
  <2>2. ack = IF f.key_ack > c.last_keyboard_ack THEN f.key_ack ELSE c.last_keyboard_ack
    <3>1. ~(f.key_ack > c.last_keyboard_change)
      BY <1>1, <1>2, <2>1, ClientFields, ControlSizes
    <3>2. QED
      BY <3>1 DEF Greater
  <2> HIDE DEF ack
  <2>3. MaxChanges \in Nat
    BY ControlSizes
  <2>4. QED
    BY <1>1, <1>2, <1>3, <2>2, <2>3
<1>5. wait \in 0 .. TALK_RETRY
  BY <1>1, ControlSizes DEF Greater
<1> HIDE DEF ack, wait
<1>6. /\ a \in ClientState /\ a.last_keyboard_ack = ack
      /\ a.pointer_moves = c.pointer_moves /\ a.moved = c.moved
      /\ a.dirPrediction = c.dirPrediction
  BY <1>1, <1>4, <1>5 DEF ClientState
<1>7. dir \in Int /\ dir <= Earlier + c.moved
  <2>1. /\ f.dir <= Earlier + c.moved /\ Earlier + c.moved \in Int
        /\ c.dirPrediction => \A i \in 1 .. Len(c.pointer_moves) :
              c.pointer_moves[i].id > f.key_ack => f.dir + i <= Earlier + c.moved
    BY <1>1, <1>2, ClientFields, ControlSizes DEF Behind
  <2>2. CASE ~c.dirPrediction
    BY <1>2, <1>6, <2>1, <2>2
  <2>3. CASE c.dirPrediction
    <3>1. ASSUME NEW i \in 1 .. Len(a.pointer_moves),
                 a.pointer_moves[i].id > a.last_keyboard_ack
          PROVE  f.dir + i <= Earlier + c.moved
      <4>1. i \in 1 .. Len(c.pointer_moves) /\ c.pointer_moves[i].id \in Nat
        BY <1>1, <1>6, ClientFields
      <4>2. c.pointer_moves[i].id > f.key_ack
        BY <1>2, <1>4, <1>6, <3>1, <4>1
      <4>3. QED
        BY <2>1, <2>3, <4>1, <4>2
    <3> HIDE DEF a
    <3>2. predict_self_dir(a, f.dir) \in Int /\ predict_self_dir(a, f.dir) <= Earlier + c.moved
      BY <1>2, <1>6, <2>1, <3>1, PredictFold
    <3>3. QED
      BY <1>6, <2>3, <3>2
  <2>4. QED
    BY <2>2, <2>3
<1>8. Receive_start(c, f, loops) = b
  BY DEF Receive_start, a, b, dir, ack, wait
<1> HIDE DEF dir
<1>9. /\ b \in ClientState /\ b.last_keyboard_ack = ack /\ b.painted = dir
      /\ b.keyv = c.keyv /\ b.last_keyboard_change = c.last_keyboard_change
      /\ b.talk_pending = c.talk_pending /\ b.talk_sequence_num = c.talk_sequence_num
      /\ b.talk_str = c.talk_str /\ b.dirPrediction = c.dirPrediction
      /\ b.pointer_moves = c.pointer_moves /\ b.moved = c.moved
      /\ b.wbuf = c.wbuf /\ b.out = c.out
  BY <1>1, <1>4, <1>5, <1>7 DEF ClientState
<1> HIDE DEF b
<1>10. \A x \in Int, j \in Nat : Behind(c, x, j) => Behind(b, x, j)
  BY <1>9 DEF Behind
<1>11. Later(c, b)
  BY <1>1, <1>9, <1>10, ClientFields DEF Later
<1>12. \A d : Genuine(c, d) => Genuine(b, d)
  BY <1>1, <1>9, <1>11, LaterGenuine
<1>13. Core(b)
  BY <1>7, <1>9 DEF ClientGood, Core
<1>14. ClientGood(b)
  BY <1>9, <1>12, <1>13 DEF ClientGood, OutGood
<1>15. QED
  BY <1>4, <1>8, <1>9, <1>11, <1>14

(* Acknowledgements end the repetition of talk that has been said. *)
LEMMA AcksGood ==
    ASSUME NEW c, ClientGood(c), NEW said_seq \in Nat, said_seq <= c.talk_sequence_num,
           c.talk_pending = 0 => said_seq = c.talk_sequence_num,
           NEW numbers \in Seq(Nat), \A n \in 1 .. Len(numbers) : numbers[n] <= said_seq
    PROVE  LET b == FoldRecords(Receive_talk_ack, c, numbers)
           IN  /\ ClientGood(b) /\ Later(c, b)
               /\ b.last_keyboard_ack = c.last_keyboard_ack
               /\ b.talk_sequence_num = c.talk_sequence_num
               /\ b.talk_pending = 0 => said_seq = b.talk_sequence_num
<1> DEFINE Ok(b) == /\ b \in ClientState /\ AlikeButTalk(c, b)
                    /\ b.talk_sequence_num = c.talk_sequence_num
                    /\ b.talk_pending \in {0, b.talk_sequence_num}
                    /\ b.talk_pending # 0 => b.talk_str \in Text
                    /\ b.talk_pending = 0 => said_seq = b.talk_sequence_num
           S == {b \in ClientState : Ok(b)}
<1>1. c \in ClientState /\ AlikeButTalk(c, c) /\ c.talk_sequence_num \in Nat
  BY ClientFields DEF ClientGood, Core, AlikeButTalk
<1>2. c \in S
  BY <1>1 DEF ClientGood, Core
<1>3. ASSUME NEW b \in S, NEW n \in 1 .. Len(numbers) PROVE Receive_talk_ack(b, numbers[n]) \in S
  <2>1. Ok(b)
    OBVIOUS
  <2>2. CASE numbers[n] >= b.talk_pending
    <3> DEFINE t == [b EXCEPT !.talk_pending = 0]
    <3>1. Receive_talk_ack(b, numbers[n]) = t
      BY <2>2 DEF Receive_talk_ack
    <3>2. /\ t \in ClientState /\ AlikeButTalk(c, t) /\ t.talk_pending = 0
          /\ t.talk_sequence_num = b.talk_sequence_num
      <4>1. 0 \in 0 .. MaxTalks /\ b \in ClientState /\ AlikeButTalk(c, b)
        BY <2>1, ControlSizes
      <4> HIDE DEF S, Ok
      <4>2. t \in ClientState
        BY <4>1 DEF ClientState
      <4>3. QED
        BY <4>1, <4>2 DEF ClientState, AlikeButTalk
    <3>3. said_seq = b.talk_sequence_num
      <4>1. numbers[n] \in Nat /\ numbers[n] <= said_seq
        OBVIOUS
      <4>2. CASE b.talk_pending = 0
        BY <2>1, <4>2
      <4>3. CASE b.talk_pending = b.talk_sequence_num
        BY <1>1, <2>1, <2>2, <4>1, <4>3
      <4>4. QED
        BY <2>1, <4>2, <4>3
    <3> HIDE DEF t
    <3>4. QED
      BY <2>1, <3>1, <3>2, <3>3
  <2>3. CASE ~(numbers[n] >= b.talk_pending)
    BY <2>3 DEF Receive_talk_ack
  <2>4. QED
    BY <2>2, <2>3
<1> DEFINE b == FoldRecords(Receive_talk_ack, c, numbers)
           N == Len(numbers)
<1>4. N \in Nat
  OBVIOUS
<1> HIDE DEF S
<1>5. \A x \in S, n \in 1 .. N : Receive_talk_ack(x, numbers[n]) \in S
  BY <1>3
<1>6. b \in S
  BY <1>2, <1>4, <1>5, AckFold
<1> HIDE DEF b
<1>7. Ok(b)
  BY <1>6 DEF S
<1>8. ClientGood(b) /\ Later(c, b)
  <2>1. b.talk_sequence_num >= c.talk_sequence_num
    BY <1>1, <1>7
  <2>2. QED
    BY <1>7, <2>1, TalkLater
<1>9. QED
  BY <1>7, <1>8 DEF AlikeButTalk, b

LEMMA Net_inputStep ==
    ASSUME IInv, Net_input
    PROVE  IInv'
<1>1. PICK f \in 1 .. Len(frames), loops \in 1 .. TALK_RETRY, n \in 0 .. Len(talk_acks) :
         Process(f, loops, n)
  BY DEF Net_input
<1> DEFINE a == Receive_start(client, frames[f], loops)
           numbers == SubSeq(talk_acks, 1, n)
           b == FoldRecords(Receive_talk_ack, a, numbers)
           c == Answer(b)
<1>2. client \in ClientState /\ connp \in ServerState
  BY DEF IInv, ClientGood, Core, ServerGood
<1>3. /\ frames \in Seq(Frame) /\ Len(frames) \in Nat /\ loops \in Nat
      /\ \A g \in 1 .. Len(frames) : /\ frames[g] \in Frame
                                     /\ frames[g].key_ack <= connp.last_key_change
                                     /\ Behind(client, frames[g].dir, frames[g].key_ack)
  BY DEF IInv, FramesGood
<1>4. talk_acks \in Seq(Nat) /\ Len(talk_acks) \in Nat
      /\ \A m \in 1 .. Len(talk_acks) : talk_acks[m] <= connp.talk_sequence_num
  BY SMTT(30) DEF IInv, TalkGood
<1>5. /\ numbers \in Seq(Nat) /\ Len(numbers) = n
      /\ \A m \in 1 .. Len(numbers) : numbers[m] <= connp.talk_sequence_num
  BY <1>4
<1>6. /\ connp.talk_sequence_num \in Nat
      /\ connp.talk_sequence_num <= client.talk_sequence_num
      /\ connp.last_key_change <= client.last_keyboard_change
  BY <1>2, ControlSizes DEF ServerState, IInv, ServerGood, ShipKeys, KeysOf
<1>7. /\ ClientGood(a) /\ Later(client, a)
      /\ a.last_keyboard_ack <= connp.last_key_change
      /\ a.talk_pending = client.talk_pending
      /\ a.talk_sequence_num = client.talk_sequence_num
  BY <1>2, <1>3, <1>6, Receive_startGood DEF IInv
<1> HIDE DEF a, numbers
<1>8. /\ ClientGood(b) /\ Later(a, b)
      /\ b.last_keyboard_ack = a.last_keyboard_ack
      /\ b.talk_sequence_num = a.talk_sequence_num
      /\ b.talk_pending = 0 => connp.talk_sequence_num = b.talk_sequence_num
  BY <1>5, <1>6, <1>7, AcksGood DEF IInv
<1> HIDE DEF b
<1>9. ClientGood(c) /\ Alike(b, c)
  BY <1>8, AnswerGood
<1>10. a \in ClientState /\ b \in ClientState /\ c \in ClientState
  BY <1>7, <1>8, <1>9 DEF ClientGood, Core
<1>11. Becomes(c)
  BY <1>1 DEF Process, a, b, numbers
<1> HIDE DEF c
<1>12. Later(client, c)
  BY <1>2, <1>7, <1>8, <1>9, <1>10, AlikeLater, LaterTrans
<1>13. FramesGood(client, connp, frames')
  <2>1. frames' = SubSeq(frames, f + 1, Len(frames))
    BY <1>1 DEF Process
  <2>2. /\ frames' \in Seq(Frame)
        /\ \A g \in 1 .. Len(frames') :
              f + g \in 1 .. Len(frames) /\ frames'[g] = frames[f + g]
    <3> HIDE DEF Frame
    <3>1. frames \in Seq(Frame)
      BY <1>3
    <3>2. QED
      BY <1>3, <2>1, <3>1
  <2>3. QED
    BY <1>3, <2>2 DEF FramesGood
<1>14. TalkGood(connp, talk_acks', said)
  <2>1. talk_acks' = SubSeq(talk_acks, n + 1, Len(talk_acks))
    BY <1>1 DEF Process
  <2>2. /\ talk_acks' \in Seq(Nat)
        /\ \A g \in 1 .. Len(talk_acks') :
              n + g \in 1 .. Len(talk_acks) /\ talk_acks'[g] = talk_acks[n + g]
    BY SMTT(30), <1>4, <2>1
  <2>3. QED
    BY <1>4, <2>2 DEF TalkGood, IInv
<1>15. QED
  BY <1>1, <1>7, <1>8, <1>9, <1>11, <1>12, <1>13, <1>14, Sends DEF IInv, Process, Alike

-----------------------------------------------------------------------------
(* The server's functions.                                                 *)

Handling ==
    [connp : ServerState, num_keyboard_updates : Nat,
     talk_acks : Seq(Nat), said : Seq(Saying)]

(* From server state s0 the first n records of datagram d led to s.  Until *)
(* its keyboard is handled a position may be ahead of the keys.            *)
Handled(c, d, s0, n, s) ==
    /\ s \in Handling /\ ~s.connp.destroyed
    /\ ShipKeys(c, s.connp)
    /\ s.connp.turned \in Earlier .. Earlier + c.moved
    /\ \/ Behind(c, s.connp.turned, s.connp.last_key_change)
       \/ \E m \in 1 .. Len(d) :
             d[m].type = "KEYBOARD" /\ Behind(c, s.connp.turned, d[m].change)
    /\ s.connp.last_mouse_pos = short(s.connp.turned)
    /\ s.connp.talk_sequence_num <= c.talk_sequence_num
    /\ TalkGood(s.connp, s.talk_acks, s.said)
    /\ s.num_keyboard_updates > 0 => \E m \in 1 .. n : d[m].type = "KEYBOARD"
    /\ \A m \in 1 .. n :
          d[m].type = "KEYBOARD" => d[m].change <= s.connp.last_key_change
    /\ s.connp.last_key_change >= s0.last_key_change
    /\ s.connp.talk_sequence_num >= s0.talk_sequence_num

LEMMA HandlingFields ==
    ASSUME NEW s \in Handling
    PROVE  /\ s.connp \in ServerState /\ s.num_keyboard_updates \in Nat
           /\ s.connp.last_key_change \in 0 .. MaxChanges
           /\ s.connp.last_key_change \in Nat
           /\ s.connp.last_mouse_pos \in Int /\ s.connp.turned \in Int
           /\ s.connp.talk_sequence_num \in 0 .. MaxTalks
           /\ s.connp.talk_sequence_num \in Nat
           /\ s.talk_acks \in Seq(Nat) /\ s.said \in Seq(Saying)
<1>1. /\ s.connp \in ServerState /\ s.num_keyboard_updates \in Nat
      /\ s.talk_acks \in Seq(Nat) /\ s.said \in Seq(Saying)
  BY DEF Handling
<1>2. /\ s.connp.last_key_change \in 0 .. MaxChanges
      /\ s.connp.last_mouse_pos \in -(W \div 2) .. W \div 2 - 1
      /\ s.connp.turned \in Int
      /\ s.connp.talk_sequence_num \in 0 .. MaxTalks
  BY <1>1 DEF ServerState
<1>3. QED
  BY <1>1, <1>2, ControlSizes

(* What Receive_keyboard does to the fields. *)
LEMMA KeyboardFields ==
    ASSUME NEW s \in Handling, NEW r \in Record, r.type = "KEYBOARD",
           NEW t, t = Receive_keyboard(s, r)
    PROVE  /\ t \in Handling
           /\ t.num_keyboard_updates = s.num_keyboard_updates + 1
           /\ t.connp.destroyed = (s.num_keyboard_updates > 0)
           /\ \/ /\ r.change > s.connp.last_key_change
                 /\ t.connp.last_key_change = r.change /\ t.connp.last_keyv = r.keyv
                 /\ ~t.connp.sent_home
              \/ /\ ~(r.change > s.connp.last_key_change)
                 /\ t.connp.last_key_change = s.connp.last_key_change
                 /\ t.connp.last_keyv = s.connp.last_keyv
                 /\ t.connp.sent_home = s.connp.sent_home
           /\ t.connp.turned = s.connp.turned
           /\ t.connp.last_mouse_pos = s.connp.last_mouse_pos
           /\ t.connp.talk_sequence_num = s.connp.talk_sequence_num
           /\ t.talk_acks = s.talk_acks /\ t.said = s.said
<1>1. r.change \in 0 .. MaxChanges /\ r.keyv \in Keyvs
  BY RecordFields
<1>2. (s.num_keyboard_updates > 0) \in BOOLEAN /\ s.num_keyboard_updates + 1 \in Nat
  BY HandlingFields
<1>3. CASE IsNewKey(s, r)
  BY <1>1, <1>2, <1>3 DEF Receive_keyboard, IsNewKey, Handling, ServerState
<1>4. CASE ~IsNewKey(s, r)
  BY <1>1, <1>2, <1>4 DEF Receive_keyboard, IsNewKey, Handling, ServerState
<1>5. QED
  BY <1>3, <1>4

LEMMA PointerFields ==
    ASSUME NEW s \in Handling, NEW r \in Record, r.type = "POINTER_MOVE",
           NEW t, t = Receive_pointer_move(s, r, FALSE)
    PROVE  /\ t \in Handling
           /\ t.num_keyboard_updates = s.num_keyboard_updates
           /\ t.connp.destroyed = s.connp.destroyed
           /\ t.connp.last_key_change = s.connp.last_key_change
           /\ t.connp.last_keyv = s.connp.last_keyv
           /\ t.connp.sent_home = s.connp.sent_home
           /\ t.connp.turned =
                 s.connp.turned + short(r.movement - s.connp.last_mouse_pos)
           /\ t.connp.last_mouse_pos = r.movement
           /\ t.connp.talk_sequence_num = s.connp.talk_sequence_num
           /\ t.talk_acks = s.talk_acks /\ t.said = s.said
<1>1. r.movement \in -(W \div 2) .. W \div 2 - 1 /\ r.movement \in Int
  BY RecordFields, ControlSizes
<1> DEFINE m == short(r.movement - s.connp.last_mouse_pos)
<1>2. m \in Int /\ s.connp.turned + m \in Int
  <2>1. r.movement - s.connp.last_mouse_pos \in Int
    BY <1>1, HandlingFields
  <2>2. short(r.movement - s.connp.last_mouse_pos) \in -(W \div 2) .. W \div 2 - 1
    BY <2>1, ShortIs
  <2>3. m \in Int
    BY <2>2, ControlSizes
  <2>4. s.connp.turned \in Int
    BY HandlingFields
  <2> HIDE DEF m
  <2>5. QED
    BY <2>3, <2>4
<1>3. t = [s EXCEPT !.connp.last_mouse_pos = r.movement, !.connp.turned = @ + m]
  BY DEF Receive_pointer_move
<1> HIDE DEF m
<1> DEFINE p == [s.connp EXCEPT !.last_mouse_pos = r.movement, !.turned = @ + m]
<1>4. t = [s EXCEPT !.connp = p]
  BY <1>3 DEF Handling, ServerState
<1>5. /\ p \in ServerState /\ p.destroyed = s.connp.destroyed
      /\ p.last_key_change = s.connp.last_key_change
      /\ p.last_keyv = s.connp.last_keyv /\ p.sent_home = s.connp.sent_home
      /\ p.turned = s.connp.turned + m /\ p.last_mouse_pos = r.movement
      /\ p.talk_sequence_num = s.connp.talk_sequence_num
  <2>1. s.connp \in ServerState
    BY HandlingFields
  <2>2. QED
    BY <1>1, <1>2, <2>1 DEF ServerState
<1> HIDE DEF p
<1>6. QED
  BY <1>4, <1>5 DEF Handling, m

LEMMA TalkFields ==
    ASSUME NEW s \in Handling, NEW r \in Record, r.type = "TALK", IsNewTalk(s, r),
           NEW t, t = Receive_talk(s, r)
    PROVE  /\ t \in Handling
           /\ t.num_keyboard_updates = s.num_keyboard_updates
           /\ t.connp.destroyed = s.connp.destroyed
           /\ t.connp.last_key_change = s.connp.last_key_change
           /\ t.connp.last_keyv = s.connp.last_keyv
           /\ t.connp.sent_home = s.connp.sent_home
           /\ t.connp.turned = s.connp.turned
           /\ t.connp.last_mouse_pos = s.connp.last_mouse_pos
           /\ t.connp.talk_sequence_num = r.seq
           /\ t.talk_acks = Append(s.talk_acks, r.seq)
           /\ t.said = Append(s.said, [seq |-> r.seq, str |-> r.str])
<1>1. r.seq \in 1 .. MaxTalks /\ r.str \in Text /\ r.seq \in Nat /\ r.seq \in 0 .. MaxTalks
  BY RecordFields, ControlSizes
<1> DEFINE x == [seq |-> r.seq, str |-> r.str]
<1>2. x \in Saying
  BY <1>1 DEF Saying
<1>3. t = [s EXCEPT !.connp.talk_sequence_num = r.seq,
                    !.talk_acks = Append(@, r.seq), !.said = Append(@, x)]
  BY DEF Receive_talk
<1> HIDE DEF x
<1>4. Append(s.talk_acks, r.seq) \in Seq(Nat) /\ Append(s.said, x) \in Seq(Saying)
  <2> HIDE DEF Saying
  <2>1. QED
    BY <1>1, <1>2, HandlingFields
<1> DEFINE p == [s.connp EXCEPT !.talk_sequence_num = r.seq]
<1>5. t = [s EXCEPT !.connp = p, !.talk_acks = Append(@, r.seq), !.said = Append(@, x)]
  BY <1>3 DEF Handling, ServerState
<1>6. /\ p \in ServerState /\ p.destroyed = s.connp.destroyed
      /\ p.last_key_change = s.connp.last_key_change
      /\ p.last_keyv = s.connp.last_keyv /\ p.sent_home = s.connp.sent_home
      /\ p.turned = s.connp.turned /\ p.last_mouse_pos = s.connp.last_mouse_pos
      /\ p.talk_sequence_num = r.seq
  <2>1. s.connp \in ServerState
    BY HandlingFields
  <2>2. QED
    BY <1>1, <2>1 DEF ServerState
<1> HIDE DEF p
<1>7. QED
  BY <1>4, <1>5, <1>6 DEF Handling, x

LEMMA ReceiveHandling ==
    ASSUME NEW s \in Handling, NEW r \in Record, NEW hoverpaused \in BOOLEAN
    PROVE  Receive(s, r, hoverpaused) \in Handling
<1>1. CASE s.connp.destroyed
  BY <1>1 DEF Receive
<1>2. CASE ~s.connp.destroyed
  <2>1. CASE r.type = "KEYBOARD"
    BY <1>2, <2>1, KeyboardFields DEF Receive
  <2>2. CASE r.type = "POINTER_MOVE"
    <3>1. Receive(s, r, hoverpaused) = Receive_pointer_move(s, r, hoverpaused)
      BY <1>2, <2>2 DEF Receive
    <3>2. CASE hoverpaused
      BY <3>1, <3>2 DEF Receive_pointer_move
    <3>3. CASE hoverpaused = FALSE
      BY <2>2, <3>1, <3>3, PointerFields
    <3>4. QED
      BY <3>2, <3>3
  <2>3. CASE r.type = "TALK"
    <3>1. Receive(s, r, hoverpaused) = Receive_talk(s, r)
      BY <1>2, <2>3 DEF Receive
    <3>2. CASE IsNewTalk(s, r)
      BY <2>3, <3>1, <3>2, TalkFields
    <3>3. CASE ~IsNewTalk(s, r)
      BY <3>1, <3>3 DEF Receive_talk
    <3>4. QED
      BY <3>2, <3>3
  <2>4. QED
    BY <2>1, <2>2, <2>3, RecordFields
<1>3. QED
  BY <1>1, <1>2

(* What is handled stays handled when nothing changes. *)
LEMMA HandledOn ==
    ASSUME NEW c, NEW d, NEW s0, NEW s, NEW n \in 1 .. Len(d), Len(d) \in Nat,
           Handled(c, d, s0, n - 1, s), d[n].type # "KEYBOARD"
    PROVE  Handled(c, d, s0, n, s)
<1>1. \A m \in 1 .. n : m \in 1 .. n - 1 \/ m = n
  OBVIOUS
<1>2. \A m \in 1 .. n - 1 : m \in 1 .. n
  OBVIOUS
<1>3. QED
  BY <1>1, <1>2 DEF Handled

LEMMA HandledKeyboard ==
    ASSUME NEW c \in ClientState, NEW d, Genuine(c, d), NEW s0 \in ServerState,
           NEW n \in 1 .. Len(d), d[n].type = "KEYBOARD",
           NEW s, Handled(c, d, s0, n - 1, s), NEW t, t = Receive_keyboard(s, d[n])
    PROVE  Handled(c, d, s0, n, t)
<1>1. d[n] \in Record /\ Len(d) \in Nat /\ OneKeyboard(d) /\ KeysOf(c, d[n].change, d[n].keyv)
  BY DEF Genuine
<1>2. s \in Handling
  BY DEF Handled
<1>3. /\ t \in Handling
      /\ t.num_keyboard_updates = s.num_keyboard_updates + 1
      /\ t.connp.destroyed = (s.num_keyboard_updates > 0)
      /\ \/ /\ d[n].change > s.connp.last_key_change
            /\ t.connp.last_key_change = d[n].change /\ t.connp.last_keyv = d[n].keyv
            /\ ~t.connp.sent_home
         \/ /\ ~(d[n].change > s.connp.last_key_change)
            /\ t.connp.last_key_change = s.connp.last_key_change
            /\ t.connp.last_keyv = s.connp.last_keyv
            /\ t.connp.sent_home = s.connp.sent_home
      /\ t.connp.turned = s.connp.turned
      /\ t.connp.last_mouse_pos = s.connp.last_mouse_pos
      /\ t.connp.talk_sequence_num = s.connp.talk_sequence_num
      /\ t.talk_acks = s.talk_acks /\ t.said = s.said
  BY <1>1, <1>2, KeyboardFields
<1>4. s.num_keyboard_updates = 0
  <2>1. \A m \in 1 .. n - 1 : m \in 1 .. Len(d) /\ m # n
    BY <1>1
  <2>2. ~(s.num_keyboard_updates > 0)
    BY <1>1, <2>1 DEF Handled, OneKeyboard
  <2>3. QED
    BY <1>2, <2>2, HandlingFields
<1>5. ~t.connp.destroyed
  <2>1. t.connp.destroyed = (s.num_keyboard_updates > 0)
    BY <1>3
  <2>2. ~(s.num_keyboard_updates > 0)
    BY <1>4
  <2>3. QED
    BY <2>1, <2>2
<1>6. /\ d[n].change \in Nat /\ s.connp.last_key_change \in Nat
      /\ t.connp.last_key_change \in Nat /\ s0.last_key_change \in Nat
  <2>1. d[n].change \in 0 .. MaxChanges /\ s0.last_key_change \in 0 .. MaxChanges
    BY <1>1, RecordFields DEF ServerState
  <2>2. QED
    BY <1>2, <1>3, <2>1, HandlingFields, ControlSizes
<1>7. /\ t.connp.last_key_change >= s.connp.last_key_change
      /\ t.connp.last_key_change >= d[n].change
  BY <1>3, <1>6
<1>8. ShipKeys(c, t.connp)
  BY <1>1, <1>3 DEF Handled, ShipKeys
<1>9. \/ Behind(c, t.connp.turned, t.connp.last_key_change)
      \/ \E m \in 1 .. Len(d) :
            d[m].type = "KEYBOARD" /\ Behind(c, t.connp.turned, d[m].change)
  BY <1>3, <1>6, <1>7, BehindLater DEF Handled
<1>10. TalkGood(t.connp, t.talk_acks, t.said)
  BY <1>3 DEF Handled, TalkGood
<1>11. t.num_keyboard_updates > 0 => \E m \in 1 .. n : d[m].type = "KEYBOARD"
  BY <1>1
<1>12. ASSUME NEW m \in 1 .. n, d[m].type = "KEYBOARD"
       PROVE  d[m].change <= t.connp.last_key_change
  <2>1. m \in 1 .. Len(d)
    BY <1>1
  <2>2. m = n
    BY <1>1, <1>12, <2>1 DEF OneKeyboard
  <2>3. QED
    BY <1>6, <1>7, <2>2
<1>13. t.connp.last_key_change >= s0.last_key_change
  BY <1>6, <1>7 DEF Handled
<1>14. QED
  BY <1>3, <1>5, <1>8, <1>9, <1>10, <1>11, <1>12, <1>13 DEF Handled

LEMMA HandledPointer ==
    ASSUME NEW c \in ClientState, NEW d, Genuine(c, d), NEW s0,
           NEW n \in 1 .. Len(d), d[n].type = "POINTER_MOVE",
           NEW s, Handled(c, d, s0, n - 1, s),
           NEW t, t = Receive_pointer_move(s, d[n], FALSE)
    PROVE  Handled(c, d, s0, n, t)
<1>1. d[n] \in Record /\ Len(d) \in Nat /\ PositionGenuine(c, d, d[n].movement)
  BY DEF Genuine
<1>2. s \in Handling
  BY DEF Handled
<1>3. /\ t \in Handling
      /\ t.num_keyboard_updates = s.num_keyboard_updates
      /\ t.connp.destroyed = s.connp.destroyed
      /\ t.connp.last_key_change = s.connp.last_key_change
      /\ t.connp.last_keyv = s.connp.last_keyv
      /\ t.connp.sent_home = s.connp.sent_home
      /\ t.connp.turned = s.connp.turned + short(d[n].movement - s.connp.last_mouse_pos)
      /\ t.connp.last_mouse_pos = d[n].movement
      /\ t.connp.talk_sequence_num = s.connp.talk_sequence_num
      /\ t.talk_acks = s.talk_acks /\ t.said = s.said
  <2> DEFINE r == d[n]
  <2>1. r \in Record /\ r.type = "POINTER_MOVE" /\ t = Receive_pointer_move(s, r, FALSE)
    BY <1>1
  <2> HIDE DEF r
  <2>2. /\ t \in Handling
        /\ t.num_keyboard_updates = s.num_keyboard_updates
        /\ t.connp.destroyed = s.connp.destroyed
        /\ t.connp.last_key_change = s.connp.last_key_change
        /\ t.connp.last_keyv = s.connp.last_keyv
        /\ t.connp.sent_home = s.connp.sent_home
        /\ t.connp.turned = s.connp.turned + short(r.movement - s.connp.last_mouse_pos)
        /\ t.connp.last_mouse_pos = r.movement
        /\ t.connp.talk_sequence_num = s.connp.talk_sequence_num
        /\ t.talk_acks = s.talk_acks /\ t.said = s.said
    BY <1>2, <2>1, PointerFields
  <2>3. QED
    BY <2>2 DEF r
<1>4. PICK x \in Earlier .. Earlier + c.moved :
         /\ d[n].movement = short(x)
         /\ \/ Behind(c, x, 0)
            \/ \E m \in 1 .. Len(d) : d[m].type = "KEYBOARD" /\ Behind(c, x, d[m].change)
  BY <1>1 DEF PositionGenuine
<1>5. x \in Int /\ s.connp.turned \in Earlier .. Earlier + c.moved /\ s.connp.turned \in Int
  BY <1>2, ClientFields, ControlSizes, HandlingFields DEF Handled
<1>6. x - s.connp.turned <= MaxMoves /\ s.connp.turned - x <= MaxMoves
  BY SMTT(30), <1>4, <1>5, ClientFields, ControlSizes
<1>7. short(d[n].movement - s.connp.last_mouse_pos) = x - s.connp.turned
  BY <1>4, <1>5, <1>6, ShortDifference DEF Handled
<1>8. t.connp.turned = x
  <2>1. t.connp.turned = s.connp.turned + short(d[n].movement - s.connp.last_mouse_pos)
    BY <1>3
  <2>2. t.connp.turned = s.connp.turned + (x - s.connp.turned)
    BY <1>7, <2>1
  <2>3. \A y \in Int : y + (x - y) = x
    BY <1>5
  <2>4. QED
    BY <1>5, <2>2, <2>3
<1>9. \/ Behind(c, x, t.connp.last_key_change)
      \/ \E m \in 1 .. Len(d) : d[m].type = "KEYBOARD" /\ Behind(c, x, d[m].change)
  <2>1. t.connp.last_key_change \in Nat
    BY <1>3, HandlingFields
  <2>2. Behind(c, x, 0) => Behind(c, x, t.connp.last_key_change)
    BY <2>1, BehindNone
  <2>3. QED
    BY <1>4, <2>2
<1>10. TalkGood(t.connp, t.talk_acks, t.said)
  BY <1>3 DEF Handled, TalkGood
<1>11. Handled(c, d, s0, n - 1, t)
  BY <1>3, <1>4, <1>8, <1>9, <1>10 DEF Handled, ShipKeys
<1>12. QED
  BY <1>1, <1>11, HandledOn

LEMMA HandledTalk ==
    ASSUME NEW c \in ClientState, NEW d, Genuine(c, d), NEW s0 \in ServerState,
           NEW n \in 1 .. Len(d), d[n].type = "TALK",
           NEW s, Handled(c, d, s0, n - 1, s), IsNewTalk(s, d[n]),
           NEW t, t = Receive_talk(s, d[n])
    PROVE  Handled(c, d, s0, n, t)
<1> DEFINE seq == d[n].seq
           x == [seq |-> d[n].seq, str |-> d[n].str]
<1>1. d[n] \in Record /\ Len(d) \in Nat /\ seq <= c.talk_sequence_num
  BY DEF Genuine
<1>2. s \in Handling
  BY DEF Handled
<1>3. /\ t \in Handling
      /\ t.num_keyboard_updates = s.num_keyboard_updates
      /\ t.connp.destroyed = s.connp.destroyed
      /\ t.connp.last_key_change = s.connp.last_key_change
      /\ t.connp.last_keyv = s.connp.last_keyv
      /\ t.connp.sent_home = s.connp.sent_home
      /\ t.connp.turned = s.connp.turned
      /\ t.connp.last_mouse_pos = s.connp.last_mouse_pos
      /\ t.connp.talk_sequence_num = seq
      /\ t.talk_acks = Append(s.talk_acks, seq)
      /\ t.said = Append(s.said, x)
  BY SMTT(30), <1>1, <1>2, TalkFields
<1>4. /\ seq \in Nat /\ s.connp.talk_sequence_num \in Nat
      /\ seq > s.connp.talk_sequence_num /\ s0.talk_sequence_num \in Nat
  <2>1. d[n].seq \in 1 .. MaxTalks /\ s0.talk_sequence_num \in 0 .. MaxTalks
    BY <1>1, RecordFields DEF ServerState
  <2>2. QED
    <3>1. seq > s.connp.talk_sequence_num
      BY DEF IsNewTalk
    <3>2. s.connp.talk_sequence_num \in Nat
      BY <1>2, HandlingFields
    <3>3. seq \in Nat /\ s0.talk_sequence_num \in Nat
      BY <2>1, ControlSizes
    <3>4. QED
      BY <3>1, <3>2, <3>3
<1>5. s.talk_acks \in Seq(Nat) /\ s.said \in Seq(Saying)
  BY <1>2, HandlingFields
<1>6. t.talk_acks \in Seq(Nat) /\ t.said \in Seq(Saying)
  BY <1>3, HandlingFields
<1>7. TalkGood(s.connp, s.talk_acks, s.said)
  BY DEF Handled
<1>8. x.seq = seq
  OBVIOUS
<1>9. \A y \in Saying : y.seq \in Nat
  <2>1. \A y \in Saying : y.seq \in 1 .. MaxTalks
    BY DEF Saying
  <2>2. QED
    BY SMTT(30), <2>1, ControlSizes
<1> HIDE DEF seq, x
<1> DEFINE sd == s.said
<1>10. /\ Len(sd) \in Nat /\ Len(t.said) = Len(sd) + 1
       /\ \A m \in 1 .. Len(sd) : t.said[m] = sd[m] /\ sd[m].seq \in Nat
       /\ t.said[Len(sd) + 1] = x
  <2>1. sd \in Seq(Saying) /\ t.said = Append(sd, x)
    BY <1>3, <1>5
  <2> HIDE DEF Saying, sd
  <2>2. Len(sd) \in Nat /\ \A m \in 1 .. Len(sd) : sd[m] \in Saying
    BY <2>1
  <2>3. /\ Len(t.said) = Len(sd) + 1 /\ t.said[Len(sd) + 1] = x
        /\ \A m \in 1 .. Len(sd) : t.said[m] = sd[m]
    BY <2>1, <2>2
  <2>4. QED
    BY <1>9, <2>2, <2>3
<1>11. \A m \in 1 .. Len(sd) : sd[m].seq <= s.connp.talk_sequence_num
  <2>1. \A m, k \in 1 .. Len(sd) : m < k => sd[m].seq < sd[k].seq
    BY <1>7 DEF TalkGood
  <2>2. Len(sd) > 0 => s.connp.talk_sequence_num = sd[Len(sd)].seq
    BY <1>7 DEF TalkGood
  <2>3. ASSUME NEW m \in 1 .. Len(sd) PROVE sd[m].seq <= s.connp.talk_sequence_num
    <3>1. CASE m = Len(sd)
      BY <1>4, <1>10, <2>2, <3>1
    <3>2. CASE m # Len(sd)
      <4>1. Len(sd) \in 1 .. Len(sd) /\ m < Len(sd)
        BY <1>10, <3>2
      <4>2. sd[m].seq < sd[Len(sd)].seq
        BY <2>1, <4>1
      <4>3. QED
        BY SMTT(30), <1>10, <2>2, <4>1, <4>2
    <3>3. QED
      BY <3>1, <3>2
  <2>4. QED
    BY <2>3
<1>12. \A m, k \in 1 .. Len(t.said) : m < k => t.said[m].seq < t.said[k].seq
  <2>1. SUFFICES ASSUME NEW m \in 1 .. Len(t.said), NEW k \in 1 .. Len(t.said), m < k
                 PROVE  t.said[m].seq < t.said[k].seq
    OBVIOUS
  <2>2. m \in 1 .. Len(sd)
    BY <1>10, <2>1
  <2>3. CASE k = Len(sd) + 1
    <3>1. t.said[k].seq = seq /\ t.said[m].seq = sd[m].seq
      BY <1>8, <1>10, <2>2, <2>3
    <3>2. QED
      BY SMTT(30), <1>4, <1>10, <1>11, <2>2, <3>1
  <2>4. CASE k # Len(sd) + 1
    <3>1. k \in 1 .. Len(sd)
      BY <1>10, <2>4
    <3>2. QED
      BY <1>7, <1>10, <2>1, <2>2, <3>1 DEF TalkGood
  <2>5. QED
    BY <2>3, <2>4
<1>13. \A m \in 1 .. Len(t.talk_acks) : t.talk_acks[m] <= seq
  <2>1. \A m \in 1 .. Len(s.talk_acks) :
           s.talk_acks[m] \in Nat /\ s.talk_acks[m] <= s.connp.talk_sequence_num
    BY SMTT(30), <1>5, <1>7 DEF TalkGood
  <2>2. /\ Len(s.talk_acks) \in Nat /\ Len(t.talk_acks) = Len(s.talk_acks) + 1
        /\ \A m \in 1 .. Len(s.talk_acks) : t.talk_acks[m] = s.talk_acks[m]
        /\ t.talk_acks[Len(s.talk_acks) + 1] = seq
    BY <1>3, <1>4, <1>5
  <2>3. ASSUME NEW m \in 1 .. Len(t.talk_acks) PROVE t.talk_acks[m] <= seq
    <3>1. CASE m = Len(s.talk_acks) + 1
      BY <1>4, <2>2, <3>1
    <3>2. CASE m # Len(s.talk_acks) + 1
      <4>1. m \in 1 .. Len(s.talk_acks)
        BY <2>2, <3>2
      <4>2. s.talk_acks[m] <= s.connp.talk_sequence_num /\ t.talk_acks[m] = s.talk_acks[m]
            /\ s.talk_acks[m] \in Nat
        BY <2>1, <2>2, <4>1
      <4>3. QED
        BY <1>4, <4>2
    <3>3. QED
      BY <3>1, <3>2
  <2>4. QED
    BY <2>3
<1>14. TalkGood(t.connp, t.talk_acks, t.said)
  <2>1. t.said # <<>> /\ t.said[Len(t.said)].seq = seq
    BY <1>8, <1>10
  <2>2. QED
    BY <1>3, <1>6, <1>12, <1>13, <2>1 DEF TalkGood
<1>15. Handled(c, d, s0, n - 1, t)
  <2>1. t.connp.talk_sequence_num >= s0.talk_sequence_num
    BY <1>3, <1>4 DEF Handled
  <2>2. QED
    BY <1>1, <1>3, <1>14, <2>1 DEF Handled, ShipKeys
<1>16. QED
  BY <1>1, <1>15, HandledOn

LEMMA HandledReceive ==
    ASSUME NEW c \in ClientState, NEW d, Genuine(c, d), NEW s0 \in ServerState,
           NEW n \in 1 .. Len(d), NEW hoverpaused \in BOOLEAN,
           NEW s, Handled(c, d, s0, n - 1, s)
    PROVE  Handled(c, d, s0, n, Receive(s, d[n], hoverpaused))
<1>1. d[n] \in Record /\ Len(d) \in Nat /\ ~s.connp.destroyed
  BY DEF Genuine, Handled
<1>2. CASE d[n].type = "KEYBOARD"
  <2>1. Receive(s, d[n], hoverpaused) = Receive_keyboard(s, d[n])
    BY <1>1, <1>2 DEF Receive
  <2>2. QED
    BY <1>2, <2>1, HandledKeyboard
<1>3. CASE d[n].type = "POINTER_MOVE"
  <2>1. Receive(s, d[n], hoverpaused) = Receive_pointer_move(s, d[n], hoverpaused)
    BY <1>1, <1>3 DEF Receive
  <2>2. CASE hoverpaused
    <3>1. Receive(s, d[n], hoverpaused) = s
      BY <2>1, <2>2 DEF Receive_pointer_move
    <3>2. QED
      BY <1>1, <1>3, <3>1, HandledOn
  <2>3. CASE hoverpaused = FALSE
    BY <1>3, <2>1, <2>3, HandledPointer
  <2>4. QED
    BY <2>2, <2>3
<1>4. CASE d[n].type = "TALK"
  <2>1. Receive(s, d[n], hoverpaused) = Receive_talk(s, d[n])
    BY <1>1, <1>4 DEF Receive
  <2>2. CASE IsNewTalk(s, d[n])
    BY <1>4, <2>1, <2>2, HandledTalk
  <2>3. CASE ~IsNewTalk(s, d[n])
    <3>1. Receive(s, d[n], hoverpaused) = s
      BY <2>1, <2>3 DEF Receive_talk
    <3>2. QED
      BY <1>1, <1>4, <3>1, HandledOn
  <2>4. QED
    BY <2>2, <2>3
<1>5. QED
  BY <1>1, <1>2, <1>3, <1>4, RecordFields

(* A whole datagram. *)
LEMMA ReceiveFold ==
    ASSUME NEW c \in ClientState, NEW d, Genuine(c, d), NEW s0 \in ServerState,
           NEW hoverpaused \in BOOLEAN, NEW base, Handled(c, d, s0, 0, base)
    PROVE  Handled(c, d, s0, Len(d),
                   FoldRecords(LAMBDA s, r : Receive(s, r, hoverpaused), base, d))
<1> DEFINE N == Len(d)
           op(s, r) == Receive(s, r, hoverpaused)
           step == [n \in 1 .. N |-> [s \in Handling |-> op(s, d[n])]]
           Def(g) == g = [n \in 0 .. N |-> IF n = 0 THEN base ELSE op(g[n - 1], d[n])]
           h == CHOOSE g : Def(g)
           G == {n \in 0 .. N : Handled(c, d, s0, n, h[n])}
<1>0. N \in Nat /\ (\A n \in 1 .. N : d[n] \in Record) /\ base \in Handling
  BY DEF Genuine, Handled
<1> HIDE DEF N
<1>1. step \in [1 .. N -> [Handling -> Handling]]
  <2>1. \A n \in 1 .. N, s \in Handling : op(s, d[n]) \in Handling
    BY <1>0, ReceiveHandling
  <2> HIDE DEF op
  <2>2. QED
    BY <2>1
<1>2. ASSUME NEW n \in 1 .. N, NEW s \in Handling PROVE step[n][s] = op(s, d[n])
  OBVIOUS
<1> HIDE DEF step
<1>3. PICK f : Iterates(f, N, Handling, base, step)
  BY <1>0, <1>1, Recursion
<1>4. \A n \in 1 .. N : f[n] = op(f[n - 1], d[n])
  <2>1. \A n \in 1 .. N : n - 1 \in 0 .. N
    BY <1>0
  <2> HIDE DEF op
  <2>2. QED
    BY <1>2, <1>3, <2>1 DEF Iterates
<1>5. Def(f)
  <2> HIDE DEF op
  <2>1. \A n \in 0 .. N : f[n] = IF n = 0 THEN base ELSE op(f[n - 1], d[n])
    BY <1>0, <1>3, <1>4 DEF Iterates
  <2>2. QED
    BY <1>3, <2>1 DEF Iterates
<1>6. Def(h)
  <2> HIDE DEF Def
  <2>1. QED
    BY <1>5
<1>7. FoldRecords(LAMBDA s, r : Receive(s, r, hoverpaused), base, d) = h[N]
  BY DEF FoldRecords, N
<1> HIDE DEF h
<1>8. h[0] = base /\ \A n \in 1 .. N : h[n] = op(h[n - 1], d[n])
  <2> HIDE DEF op
  <2>1. QED
    BY <1>0, <1>6
<1>9. \A n \in 1 .. N : n - 1 \in G => n \in G
  <2>1. SUFFICES ASSUME NEW n \in 1 .. N, n - 1 \in G PROVE n \in G
    OBVIOUS
  <2>2. Handled(c, d, s0, n - 1, h[n - 1]) /\ n \in 1 .. Len(d) /\ n \in 0 .. N
    BY <1>0, <2>1 DEF N
  <2>3. Handled(c, d, s0, n, op(h[n - 1], d[n]))
    BY <2>2, HandledReceive
  <2> HIDE DEF op
  <2>4. QED
    BY <1>8, <2>2, <2>3
<1>10. 0 \in G
  BY <1>0, <1>8
<1> HIDE DEF G
<1>11. \A n \in 0 .. N : n \in G
  BY <1>0, <1>9, <1>10, UpTo
<1>12. N \in G
  BY <1>0, <1>11
<1>13. QED
  BY <1>7, <1>12 DEF G, N

-----------------------------------------------------------------------------
(* The server's actions, and the network's.                                *)

LEMMA InputStep ==
    ASSUME IInv, Input
    PROVE  IInv'
<1>1. PICK d \in to_server : Handle_input(d)
  BY DEF Input
<1> DEFINE base == [connp |-> connp, num_keyboard_updates |-> 0,
                    talk_acks |-> talk_acks, said |-> said]
           After(hoverpaused) ==
              FoldRecords(LAMBDA s0, r : Receive(s0, r, hoverpaused), base, d)
<1>2. PICK hoverpaused \in BOOLEAN :
         /\ connp' = After(hoverpaused).connp
         /\ talk_acks' = After(hoverpaused).talk_acks
         /\ said' = After(hoverpaused).said
  BY <1>1 DEF Handle_input
<1> DEFINE s == After(hoverpaused)
<1>3. UNCHANGED <<client, to_server, frames, typed>>
  BY <1>1 DEF Handle_input
<1>4. client \in ClientState /\ connp \in ServerState /\ Genuine(client, d)
  BY DEF IInv, ClientGood, Core, ServerGood
<1>5. Handled(client, d, connp, 0, base)
  <2>1. base \in Handling
    BY <1>4 DEF Handling, IInv, TalkGood
  <2>2. connp.last_key_change \in Nat /\ connp.talk_sequence_num \in Nat
    BY <1>4, ControlSizes DEF ServerState
  <2>3. connp.turned \in Earlier .. Earlier + client.moved
    BY DEF IInv, ServerGood, Behind
  <2>4. QED
    BY <2>1, <2>2, <2>3 DEF Handled, IInv, ServerGood
<1>6. Handled(client, d, connp, Len(d), s)
  <2> HIDE DEF base
  <2>1. QED
    BY <1>4, <1>5, ReceiveFold
<1> HIDE DEF After, base
<1>7. s \in Handling
  BY <1>6 DEF Handled
<1>8. /\ connp' \in ServerState /\ connp'.last_key_change \in Nat
      /\ connp'.talk_sequence_num \in Nat
  BY <1>2, <1>7, HandlingFields
<1>9. /\ connp.last_key_change \in Nat /\ connp.talk_sequence_num \in Nat
      /\ client.last_keyboard_ack \in Nat /\ client.talk_sequence_num \in Nat
  <2>1. connp.last_key_change \in 0 .. MaxChanges /\ connp.talk_sequence_num \in 0 .. MaxTalks
    BY <1>4 DEF ServerState
  <2>2. QED
    BY <1>4, <2>1, AckIsNat, ClientFields, ControlSizes
<1>10. /\ connp'.last_key_change >= connp.last_key_change
       /\ connp'.talk_sequence_num >= connp.talk_sequence_num
       /\ connp'.talk_sequence_num <= client.talk_sequence_num
  BY <1>2, <1>6 DEF Handled
<1>11. Behind(client, connp'.turned, connp'.last_key_change)
  <2>1. CASE Behind(client, connp'.turned, connp'.last_key_change)
    BY <2>1
  <2>2. CASE \E m \in 1 .. Len(d) :
                d[m].type = "KEYBOARD" /\ Behind(client, connp'.turned, d[m].change)
    <3>1. PICK m \in 1 .. Len(d) :
             d[m].type = "KEYBOARD" /\ Behind(client, connp'.turned, d[m].change)
      BY <2>2
    <3>2. d[m].change <= connp'.last_key_change
      BY <1>2, <1>6, <3>1 DEF Handled
    <3>3. d[m].change \in 0 .. MaxChanges
      BY <1>4, <3>1, RecordFields DEF Genuine
    <3>4. d[m].change \in Int /\ connp'.last_key_change \in Int
      BY <1>8, <3>3, ControlSizes
    <3>5. QED
      BY <1>4, <3>1, <3>2, <3>4, BehindLater
  <2>3. QED
    BY <1>2, <1>6, <2>1, <2>2 DEF Handled
<1>12. ServerGood(client, connp')
  BY <1>2, <1>6, <1>8, <1>10, <1>11 DEF Handled, ServerGood
<1>13. FramesGood(client, connp', frames)
  <2>1. /\ frames \in Seq(Frame)
        /\ \A f \in 1 .. Len(frames) :
              /\ frames[f].key_ack <= connp.last_key_change
              /\ Behind(client, frames[f].dir, frames[f].key_ack)
    BY DEF IInv, FramesGood
  <2>2. ASSUME NEW f \in 1 .. Len(frames) PROVE frames[f].key_ack <= connp'.last_key_change
    <3>1. frames[f] \in Frame
      BY <2>1
    <3>2. frames[f].key_ack \in 0 .. MaxChanges
      BY <3>1 DEF Frame
    <3>3. QED
      BY <1>8, <1>9, <1>10, <2>1, <3>2, ControlSizes
  <2>3. QED
    BY <2>1, <2>2 DEF FramesGood
<1>14. TalkGood(connp', talk_acks', said')
  BY <1>2, <1>6 DEF Handled
<1>15. client.last_keyboard_ack <= connp'.last_key_change
  BY <1>8, <1>9, <1>10 DEF IInv
<1>16. client.talk_pending = 0 => connp'.talk_sequence_num = client.talk_sequence_num
  BY <1>8, <1>9, <1>10 DEF IInv
<1>17. QED
  BY <1>3, <1>12, <1>13, <1>14, <1>15, <1>16 DEF IInv

LEMMA Go_homeStep ==
    ASSUME IInv, Go_home
    PROVE  IInv'
<1>1. /\ connp' = [connp EXCEPT !.last_keyv = NoKeys, !.sent_home = TRUE]
      /\ UNCHANGED <<client, to_server, frames, talk_acks, typed, said>>
  BY DEF Go_home
<1>2. /\ connp' \in ServerState /\ connp'.sent_home /\ connp'.last_keyv = NoKeys
      /\ connp'.last_key_change = connp.last_key_change
      /\ connp'.destroyed = connp.destroyed
      /\ connp'.last_mouse_pos = connp.last_mouse_pos
      /\ connp'.turned = connp.turned
      /\ connp'.talk_sequence_num = connp.talk_sequence_num
  BY <1>1, ControlsConstants DEF IInv, ServerGood, ServerState
<1>3. ServerGood(client, connp')
  <2>1. connp.last_key_change <= client.last_keyboard_change
    BY DEF IInv, ServerGood, ShipKeys, KeysOf
  <2>2. ShipKeys(client, connp')
    BY <1>2, <2>1 DEF ShipKeys
  <2>3. QED
    BY <1>2, <2>2 DEF IInv, ServerGood
<1>4. FramesGood(client, connp', frames)
  BY <1>2 DEF IInv, FramesGood
<1>5. TalkGood(connp', talk_acks, said)
  BY <1>2 DEF IInv, TalkGood
<1>6. QED
  BY <1>1, <1>2, <1>3, <1>4, <1>5 DEF IInv

LEMMA Send_start_of_frameStep ==
    ASSUME IInv, Send_start_of_frame
    PROVE  IInv'
<1> DEFINE f == [key_ack |-> connp.last_key_change, dir |-> connp.turned]
<1>1. /\ f \in Frame /\ f.key_ack = connp.last_key_change
      /\ Behind(client, f.dir, f.key_ack)
  BY DEF IInv, ServerGood, ServerState, Frame
<1>2. connp.last_key_change \in Nat
  BY ControlSizes DEF IInv, ServerGood, ServerState
<1>3. frames \in Seq(Frame) /\ frames' = Append(frames, f)
  BY DEF Send_start_of_frame, IInv, FramesGood
<1> HIDE DEF f
<1>4. /\ frames' \in Seq(Frame) /\ Len(frames) \in Nat
      /\ \A g \in 1 .. Len(frames') :
            \/ g \in 1 .. Len(frames) /\ frames'[g] = frames[g]
            \/ frames'[g] = f
  <2> HIDE DEF Frame
  <2>1. QED
    BY <1>1, <1>3
<1>5. \A g \in 1 .. Len(frames') :
         /\ frames'[g].key_ack <= connp.last_key_change
         /\ Behind(client, frames'[g].dir, frames'[g].key_ack)
  BY <1>1, <1>2, <1>4 DEF IInv, FramesGood
<1>6. FramesGood(client, connp, frames')
  BY <1>4, <1>5 DEF FramesGood
<1>7. UNCHANGED <<client, to_server, talk_acks, connp, typed, said>>
  BY DEF Send_start_of_frame
<1>8. QED
  BY <1>6, <1>7 DEF IInv

LEMMA LoseStep ==
    ASSUME IInv, Lose
    PROVE  IInv'
<1>1. UNCHANGED <<client, talk_acks, connp, typed, said>>
  BY DEF Lose
<1>2. \A d \in to_server' : d \in to_server
  BY DEF Lose
<1>3. FramesGood(client, connp, frames')
  <2>1. CASE frames' = frames
    BY <2>1 DEF IInv
  <2>2. CASE \E f \in 1 .. Len(frames) : frames' = RemoveAt(frames, f)
    <3>1. PICK f \in 1 .. Len(frames) : frames' = RemoveAt(frames, f)
      BY <2>2
    <3>2. frames \in Seq(Frame) /\ Len(frames) \in Nat
      BY DEF IInv, FramesGood
    <3>3. frames' = SubSeq(frames, 1, f - 1) \o SubSeq(frames, f + 1, Len(frames))
      BY <3>1 DEF RemoveAt
    <3>4. /\ frames' \in Seq(Frame)
          /\ \A g \in 1 .. Len(frames') :
                \E k \in 1 .. Len(frames) : frames'[g] = frames[k]
      <4> DEFINE a == SubSeq(frames, 1, f - 1)
                 b == SubSeq(frames, f + 1, Len(frames))
      <4> HIDE DEF Frame
      <4>1. /\ a \in Seq(Frame) /\ Len(a) = f - 1
            /\ \A g \in 1 .. f - 1 : a[g] = frames[g]
        BY <3>2
      <4>2. /\ b \in Seq(Frame) /\ Len(b) = Len(frames) - f
            /\ \A g \in 1 .. Len(frames) - f : b[g] = frames[f + g]
        BY <3>2
      <4> HIDE DEF a, b
      <4>3. frames' = a \o b
        BY <3>3 DEF a, b
      <4>4. /\ frames' \in Seq(Frame) /\ Len(frames') = Len(frames) - 1
            /\ \A g \in 1 .. Len(frames') :
                  frames'[g] = IF g <= f - 1 THEN a[g] ELSE b[g - (f - 1)]
        <5>1. /\ a \o b \in Seq(Frame) /\ Len(a \o b) = Len(a) + Len(b)
              /\ \A g \in 1 .. Len(a) + Len(b) :
                    (a \o b)[g] = IF g <= Len(a) THEN a[g] ELSE b[g - Len(a)]
          BY <4>1, <4>2, ConcatProperties
        <5>2. Len(a) + Len(b) = Len(frames) - 1
          BY <3>2, <4>1, <4>2
        <5>3. QED
          BY <4>1, <4>3, <5>1, <5>2
      <4>5. ASSUME NEW g \in 1 .. Len(frames')
            PROVE  \E k \in 1 .. Len(frames) : frames'[g] = frames[k]
        <5>1. CASE g <= f - 1
          BY <3>2, <4>1, <4>4, <5>1
        <5>2. CASE ~(g <= f - 1)
          <6>1. /\ g - (f - 1) \in 1 .. Len(frames) - f /\ g + 1 \in 1 .. Len(frames)
                /\ f + (g - (f - 1)) = g + 1
            BY <3>2, <4>4, <5>2
          <6>2. frames'[g] = frames[g + 1]
            BY <4>2, <4>4, <5>2, <6>1
          <6>3. QED
            BY <6>1, <6>2
        <5>3. QED
          BY <5>1, <5>2
      <4>6. QED
        BY <4>4, <4>5
    <3>5. QED
      BY <3>4 DEF FramesGood, IInv
  <2>3. QED
    BY <2>1, <2>2 DEF Lose
<1>4. QED
  BY <1>1, <1>2, <1>3 DEF IInv

-----------------------------------------------------------------------------
(* The theorems.                                                           *)

(* In the beginning nothing has been told. *)
LEMMA Start == Init => IInv
<1> SUFFICES ASSUME Init PROVE IInv
  OBVIOUS
<1>1. /\ 0 \in 0 .. MaxChanges /\ 0 \in 0 .. MaxTalks /\ 0 \in 0 .. MaxMoves
      /\ 0 \in 0 .. TALK_RETRY /\ Earlier \in Int /\ NoKeys \in Keyvs
      /\ Earlier \in Earlier .. Earlier + 0
  BY ControlSizes, ControlsConstants
<1>2. ASSUME NEW S PROVE <<>> \in Seq(S) /\ Len(<<>>) = 0 /\ {} \in SUBSET Seq(S)
  OBVIOUS
<1>3. /\ to_server = {} /\ frames = <<>> /\ talk_acks = <<>>
      /\ typed = <<>> /\ said = <<>>
  BY DEF Init
<1>4. /\ client.pointer_moves = <<>> /\ client.wbuf = <<>> /\ client.out = {}
      /\ client.keyv = NoKeys /\ client.last_keyboard_change = 0
      /\ client.last_keyboard_ack = 0 /\ client.talk_pending = 0
      /\ client.talk_sequence_num = 0 /\ client.moved = 0 /\ client.painted = Earlier
  BY DEF Init
<1>5. client \in ClientState
  <2> DEFINE P == Seq([id : 0 .. MaxChanges, movement : {1}])
             D == Seq(Record)
  <2>1. <<>> \in P /\ <<>> \in D /\ {} \in SUBSET D
    BY <1>2
  <2>2. ClientState = [keyv : Keyvs, last_keyboard_change : 0 .. MaxChanges,
           last_keyboard_ack : 0 .. MaxChanges, updated : BOOLEAN,
           talk_pending : 0 .. MaxTalks, talk_sequence_num : 0 .. MaxTalks,
           talk_str : Text \cup {""}, wait : 0 .. TALK_RETRY, silent : BOOLEAN,
           dirPrediction : BOOLEAN, pointer_moves : P,
           moved : 0 .. MaxMoves, painted : Int, wbuf : D, out : SUBSET D]
    BY DEF ClientState
  <2> DEFINE T == Text \cup {""}
  <2>3. "" \in T
    OBVIOUS
  <2> HIDE DEF P, D, T
  <2>4. QED
    BY <1>1, <2>1, <2>2, <2>3 DEF Init, T
<1>6. Core(client)
  <2>1. \A i \in 1 .. Len(client.pointer_moves) : FALSE
    BY <1>2, <1>4
  <2>2. client.painted <= Earlier + client.moved
    BY <1>1, <1>4, ControlSizes
  <2>3. QED
    BY <1>4, <1>5, <2>1, <2>2 DEF Core
<1>7. ClientGood(client)
  BY <1>4, <1>6, EmptyGenuine DEF ClientGood, OutGood
<1>8. ServerGood(client, connp)
  <2>1. short(Earlier) \in -(W \div 2) .. W \div 2 - 1
    BY <1>1, ShortIs
  <2>2. connp \in ServerState
    BY <1>1, <2>1 DEF Init, ServerState
  <2>3. /\ connp.last_key_change = 0 /\ connp.last_keyv = NoKeys
        /\ ~connp.sent_home /\ ~connp.destroyed
        /\ connp.last_mouse_pos = short(Earlier) /\ connp.turned = Earlier
        /\ connp.talk_sequence_num = 0
    BY DEF Init
  <2>4. \A i \in 1 .. Len(client.pointer_moves) : FALSE
    BY <1>2, <1>4
  <2>5. Behind(client, connp.turned, connp.last_key_change)
    BY <1>1, <1>4, <2>3, <2>4 DEF Behind
  <2>6. ShipKeys(client, connp)
    BY <1>4, <2>3 DEF ShipKeys, KeysOf
  <2>7. QED
    BY <1>4, <2>2, <2>3, <2>5, <2>6 DEF ServerGood
<1>9. FramesGood(client, connp, frames)
  <2>1. frames \in Seq(Frame) /\ \A f \in 1 .. Len(frames) : FALSE
    BY <1>2, <1>3
  <2>2. QED
    BY <2>1 DEF FramesGood
<1>10. TalkGood(connp, talk_acks, said)
  <2>1. talk_acks \in Seq(Nat) /\ \A n \in 1 .. Len(talk_acks) : FALSE
    BY <1>2, <1>3
  <2>2. said \in Seq(Saying) /\ \A n \in 1 .. Len(said) : FALSE
    BY <1>2, <1>3
  <2>3. connp.talk_sequence_num = 0
    BY DEF Init
  <2>4. QED
    BY <1>3, <2>1, <2>2, <2>3 DEF TalkGood
<1>11. connp.last_key_change = 0 /\ connp.talk_sequence_num = 0
  BY DEF Init
<1>12. typed \in Seq(Strings) /\ Len(typed) = client.talk_sequence_num
  BY <1>2, <1>3, <1>4
<1>13. QED
  BY <1>3, <1>4, <1>7, <1>8, <1>9, <1>10, <1>11, <1>12 DEF IInv

(* Every step keeps the invariant. *)
LEMMA Step == IInv /\ [Next]_vars => IInv'
<1> SUFFICES ASSUME IInv, [Next]_vars PROVE IInv'
  OBVIOUS
<1>1. CASE Keys_change
  BY <1>1, Keys_changeStep
<1>2. CASE Client_pointer_move
  BY <1>2, Client_pointer_moveStep
<1>3. CASE Set_dirPrediction
  BY <1>3, Set_dirPredictionStep
<1>4. CASE Talk
  BY <1>4, TalkStep
<1>5. CASE Flush
  BY <1>5, FlushStep
<1>6. CASE Net_input
  BY <1>6, Net_inputStep
<1>7. CASE Silence
  BY <1>7, SilenceStep
<1>8. CASE Input
  BY <1>8, InputStep
<1>9. CASE Send_start_of_frame
  BY <1>9, Send_start_of_frameStep
<1>10. CASE Go_home
  BY <1>10, Go_homeStep
<1>11. CASE Lose
  BY <1>11, LoseStep
<1>12. CASE UNCHANGED vars
  BY <1>12 DEF IInv, vars
<1>13. QED
  BY <1>1, <1>2, <1>3, <1>4, <1>5, <1>6, <1>7, <1>8, <1>9, <1>10, <1>11, <1>12 DEF Next

(* What is under way between client and server is genuine at all times. *)
THEOREM Inductive == Spec => []IInv
BY Start, Step, PTL DEF Spec

(* The types, in every state that can be reached: what is sent has the     *)
(* fields that its kind of record has, a talk number belongs to talk that  *)
(* was typed.                                                              *)
THEOREM TypeCorrect == Spec => []TypeOK
<1>1. IInv => TypeOK
  <2> SUFFICES ASSUME IInv PROVE TypeOK
    OBVIOUS
  <2>1. client \in ClientState /\ client.talk_pending \in {0, client.talk_sequence_num}
    BY DEF IInv, ClientGood, Core
  <2>2. /\ client.keyv \in Keyvs /\ client.last_keyboard_change \in 0 .. MaxChanges
        /\ client.last_keyboard_ack \in 0 .. MaxChanges
        /\ client.wait \in 0 .. TALK_RETRY
    BY <2>1 DEF ClientState
  <2>3. \A d \in to_server \cup {client.wbuf} : d \in Seq(Record)
    BY DEF IInv, ClientGood, Genuine
  <2>4. \A f \in Range(frames) : f.key_ack \in 0 .. MaxChanges /\ f.dir \in Int
    <3>1. \A f \in Frame : f.key_ack \in 0 .. MaxChanges /\ f.dir \in Int
      BY DEF Frame
    <3>2. frames \in Seq(Frame)
      BY DEF IInv, FramesGood
    <3> HIDE DEF Frame
    <3>3. \A f \in Range(frames) : f \in Frame
      BY <3>2 DEF Range
    <3>4. QED
      BY <3>1, <3>3
  <2>5. connp.last_keyv \in Keyvs /\ connp.sent_home \in BOOLEAN
        /\ connp.last_mouse_pos \in -(W \div 2) .. W \div 2 - 1
    BY DEF IInv, ServerGood, ServerState
  <2>6. QED
    BY <2>1, <2>2, <2>3, <2>4, <2>5 DEF TypeOK, IInv
<1>2. QED
  BY <1>1, Inductive, PTL

(* An acknowledged key change has reached the ship, whatever old keyboards *)
(* are still under way, and only Go_home takes the keys from it again:     *)
(* Net_key_change, Receive_keyboard, Go_home.                              *)
THEOREM KeysHold == Spec => []AckedKeysHold
<1>1. IInv => AckedKeysHold
  BY DEF IInv, ServerGood, ShipKeys, KeysOf, AckedKeysHold
<1>2. QED
  BY <1>1, Inductive, PTL

(* A datagram never holds two keyboards, so no client is thrown out for    *)
(* using macros: Net_flush, Net_input, Send_keyboard.                      *)
THEOREM NobodyThrownOut == Spec => []NoMacros
<1>1. IInv => NoMacros
  BY DEF IInv, ServerGood, NoMacros
<1>2. QED
  BY <1>1, Inductive, PTL

(* Neither the server nor the client that predicts counts a movement of    *)
(* the mouse twice: Receive_pointer_move, predict_self_dir.                *)
THEOREM MouseCountedOnce == Spec => []NeverOvershoots
<1>1. IInv => NeverOvershoots
  <2> SUFFICES ASSUME IInv PROVE NeverOvershoots
    OBVIOUS
  <2>1. client \in ClientState /\ client.painted <= Earlier + client.moved
    BY DEF IInv, ClientGood, Core
  <2>2. connp.turned \in Earlier .. Earlier + client.moved
    BY DEF IInv, ServerGood, Behind
  <2>3. connp.turned <= Earlier + client.moved
    BY <2>1, <2>2, ClientFields, ControlSizes
  <2>4. QED
    BY <2>1, <2>3 DEF NeverOvershoots
<1>2. QED
  BY <1>1, Inductive, PTL

(* Talk is said once and in order, and repeated until it has been said:    *)
(* Net_talk, Receive_talk, Receive_talk_ack.                               *)
THEOREM TalkSaidOnce == Spec => []SaidOnce
<1>1. IInv => SaidOnce
  <2> SUFFICES ASSUME IInv PROVE SaidOnce
    OBVIOUS
  <2>1. /\ \A m, n \in 1 .. Len(said) : m < n => said[m].seq < said[n].seq
        /\ said \in Seq(Saying)
        /\ connp.talk_sequence_num = IF said = <<>> THEN 0 ELSE said[Len(said)].seq
    BY DEF IInv, TalkGood
  <2>2. ASSUME client.talk_pending = 0, typed # <<>>
        PROVE  said # <<>> /\ Last(said).seq = client.talk_sequence_num
    <3>1. connp.talk_sequence_num = client.talk_sequence_num
      BY <2>2 DEF IInv
    <3>2. client.talk_sequence_num # 0
      BY <2>2 DEF IInv
    <3>3. said # <<>>
      BY <2>1, <3>1, <3>2
    <3>4. QED
      BY <2>1, <3>1, <3>3 DEF Last
  <2>3. QED
    BY <2>1, <2>2 DEF SaidOnce
<1>2. QED
  BY <1>1, Inductive, PTL

==============================================================================
