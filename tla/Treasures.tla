------------------------------ MODULE Treasures ------------------------------
(***************************************************************************)
(* Balls, the treasures they belong to and the players who carry them:     *)
(* treasure.c, the connector and PlayerCollision of collision.c,           *)
(* Delete_shot (shot.c), the balls of Delete_player, Detach_ball and       *)
(* Reset_all_players (player.c), and the end of a round                    *)
(* (Compute_game_status).                                                  *)
(*                                                                         *)
(* A frame is a sequence of phases: input, the moves of the objects, the   *)
(* moves of the players, collisions, and the cleanup that ends it.  todo   *)
(* is what a phase has still to visit; a visit in which nothing happens    *)
(* here is a visit not made.  Positions are left out: whether a ball       *)
(* meets a goal, a wall or a player, and whether a player lives through    *)
(* something, may go either way.  Left out are empty treasures, tanks and  *)
(* specialBallTeam (off by default).  A player who appears counts as       *)
(* alive, one who waits as dead.                                           *)
(*                                                                         *)
(* Objects other than balls (shots, items, asteroids, ...) use the same    *)
(* memory and are told from balls by their type.  They have no treasure    *)
(* here, and those that appear at the end of a frame appear when the next  *)
(* one begins.                                                             *)
(***************************************************************************)
EXTENDS Integers, FiniteSets, SequencesExt

CONSTANTS
    Player, Team, Slot,     \* Slot: the memory of an object
    NumTreasures,
    team,                   \* of each player and each treasure
    MaxDestroyed,           \* bound on treasure->destroyed
    Options

Treasure == 1 .. NumTreasures
NoId == "NO_ID"
Null == "NULL"

ASSUME Sizes ==
    /\ NumTreasures \in Nat /\ MaxDestroyed \in Nat
    /\ IsFiniteSet(Player) /\ IsFiniteSet(Team)
    /\ IsFiniteSet(Slot) /\ Cardinality(Slot) >= NumTreasures

ASSUME Teams ==
    /\ DOMAIN team = Player \cup Treasure
    /\ \A x \in Player \cup Treasure : team[x] \in Team

ASSUME Names ==
    /\ NoId \notin Player /\ Null \notin Slot
    /\ Player \cap (Player \X Slot) = {}

ASSUME OptionsKnown ==
    Options \subseteq [captureTheFlag : BOOLEAN, multipleConnectors : BOOLEAN,
                       treasureCollisionDestroys : BOOLEAN,
                       ballCollisionDetaches : BOOLEAN,
                       treasureKillTeam : BOOLEAN, endOfRoundReset : BOOLEAN]

VARIABLES
    options,
    phase, todo,
    state,              \* pl_state
    hasBall,            \* the players whose have has HAS_BALL
    ptr,                \* pl->ball
    ball,               \* the object in each slot
    Obj, ObjCount,      \* the slots; those in use come first
    have, destroyed,    \* of each treasure
    TreasuresLeft, TreasuresDestroyed,          \* of each team
    strayed, robbed     \* no part of the program: players who have HAS_BALL for
                        \* an object that is no ball, treasures without have for it

vars == <<options, phase, todo, state, hasBall, ptr, ball, Obj, ObjCount,
          have, destroyed, TreasuresLeft, TreasuresDestroyed, strayed, robbed>>

Gone == [treasure |-> 0, id |-> NoId, owner |-> NoId, life |-> 0,
         recreate |-> FALSE, gravity |-> FALSE]

Fresh(t) == [Gone EXCEPT !.treasure = t, !.life = 1, !.recreate = TRUE]

TypeOK ==
    /\ options \in Options
    /\ phase \in {"input", "objects", "players", "collide", "cleanup"}
    /\ todo \subseteq Player \cup Slot \cup (Player \X Slot)
    /\ state \in [Player -> {"none", "alive", "killed", "dead", "paused"}]
    /\ hasBall \subseteq Player
    /\ ptr \in [Player -> Slot \cup {Null}]
    /\ ball \in [Slot -> [treasure : 0 .. NumTreasures, id : Player \cup {NoId},
                          owner : Player \cup {NoId}, life : {0, 1},
                          recreate : BOOLEAN, gravity : BOOLEAN]]
    /\ Obj \in [1 .. Cardinality(Slot) -> Slot] /\ ObjCount \in 0 .. Cardinality(Slot)
    /\ have \in [Treasure -> BOOLEAN] /\ destroyed \in [Treasure -> Nat]
    /\ TreasuresLeft \in [Team -> Int] /\ TreasuresDestroyed \in [Team -> Nat]
    /\ strayed \subseteq hasBall /\ robbed \subseteq {t \in Treasure : ~have[t]}

Present == {p \in Player : state[p] # "none"}
Free(s) == ball[s].life > 0 /\ ball[s].id = NoId
Balls == {s \in Slot : ball[s].treasure # 0}

-----------------------------------------------------------------------------
(* The world as one value, so that the functions can be composed the way   *)
(* they call each other.                                                   *)

World == [state |-> state, hasBall |-> hasBall, ptr |-> ptr, ball |-> ball,
          Obj |-> Obj, n |-> ObjCount, have |-> have, destroyed |-> destroyed,
          left |-> TreasuresLeft, won |-> TreasuresDestroyed,
          strayed |-> strayed, robbed |-> robbed]

Become(w) ==
    /\ state' = w.state /\ hasBall' = w.hasBall /\ ptr' = w.ptr
    /\ ball' = w.ball /\ Obj' = w.Obj /\ ObjCount' = w.n
    /\ have' = w.have /\ destroyed' = w.destroyed
    /\ TreasuresLeft' = w.left /\ TreasuresDestroyed' = w.won
    /\ strayed' = w.strayed \cap w.hasBall
    /\ robbed' = {t \in w.robbed : ~w.have[t]}
    /\ UNCHANGED options

(* One after the other. *)
FoldOver(op(_, _), base, seq) ==
    LET upto[n \in 0 .. Len(seq)] ==
            IF n = 0 THEN base ELSE op(upto[n - 1], seq[n])
    IN  upto[Len(seq)]

Owned(x) == Cardinality({t \in Treasure : team[t] = x})

(* Object_allocate takes the first slot that is not in use.  The memory    *)
(* runs out (MAX_TOTAL_SHOTS) only if other objects fill it: see Launch.   *)
Make_treasure_ball(w, t) ==
    IF w.have[t] \/ w.n = Len(w.Obj) THEN w
    ELSE [w EXCEPT !.ball[w.Obj[w.n + 1]] = Fresh(t), !.n = @ + 1,
                   !.have[t] = TRUE]

(* Detach_ball of player p from the balls in S (all of them for NULL). *)
Detach_ball(w, p, S) ==
    LET held == {s \in Slot : w.ball[s].treasure # 0 /\ w.ball[s].id = p}
        w1 == [w EXCEPT !.ptr[p] = IF @ \in S THEN Null ELSE @]
    IN  IF p \notin w.hasBall THEN w1
        ELSE [w1 EXCEPT !.ball = [s \in Slot |->
                            IF s \in held \cap S THEN [@[s] EXCEPT !.id = NoId] ELSE @[s]],
                        !.hasBall = IF held \subseteq S THEN @ \ {p} ELSE @]

(* Object_free_ind: the last slot in use moves into the gap. *)
Object_free_ind(w, i) ==
    [w EXCEPT !.ball[w.Obj[i]] = Gone, !.n = @ - 1,
              !.Obj[i] = w.Obj[w.n], !.Obj[w.n] = w.Obj[i]]

Delete_shot(w, i) ==
    LET s == w.Obj[i]
        b == w.ball[s]
        w1 == IF b.id # NoId THEN Detach_ball(w, b.id, {s})
              ELSE [w EXCEPT !.ptr = [p \in Player |-> IF @[p] = s THEN Null ELSE @[p]]]
        w2 == [w1 EXCEPT !.have[b.treasure] = @ /\ b.owner # NoId]
    IN  IF b.treasure = 0 THEN Object_free_ind(w, i)
        ELSE IF b.owner = NoId \/ b.recreate
        THEN Make_treasure_ball(Object_free_ind(w2, i), b.treasure)
        ELSE Object_free_ind(w2, i)

Downwards(w) == [k \in 1 .. w.n |-> w.n + 1 - k]

(* Update_objects at the end of a frame: the objects that ought to be dead. *)
Delete_dead(w) ==
    LET Visit(v, i) == IF v.ball[v.Obj[i]].life = 0 THEN Delete_shot(v, i) ELSE v
    IN  FoldOver(Visit, w, Downwards(w))

(* Bug: balls that the player has thrown keep their owner. *)
DeleteCarried(w, p) ==
    LET Visit(v, i) ==
            IF v.ball[v.Obj[i]].id # p THEN v
            ELSE IF v.ball[v.Obj[i]].treasure # 0 THEN Delete_shot(v, i)
            ELSE [v EXCEPT !.ball[v.Obj[i]].id = NoId]
    IN  [FoldOver(Visit, w, Downwards(w)) EXCEPT
            !.state[p] = "none", !.ptr[p] = Null, !.hasBall = @ \ {p}]

Delete_player(w, p) ==
    LET Visit(v, i) ==
            LET s == v.Obj[i]
            IN  IF v.ball[s].id = p /\ v.ball[s].treasure # 0 THEN Delete_shot(v, i)
                ELSE IF v.ball[s].id = p THEN [v EXCEPT !.ball[s].id = NoId]
                ELSE IF v.ball[s].owner = p THEN [v EXCEPT !.ball[s].owner = NoId]
                ELSE v
        w1 == FoldOver(Visit, w, Downwards(w))
    IN  [w1 EXCEPT !.state[p] = "none", !.ptr[p] = Null, !.hasBall = @ \ {p}]

(* Kill_player: st is how the player goes on, alive or out of lives. *)
Kill_player(w, p, st) ==
    IF w.state[p] = "paused" THEN w
    ELSE [Detach_ball(w, p, Slot) EXCEPT !.state[p] = st, !.hasBall = @ \ {p}]

(* Bug: each ball is made anew if nobody has owned it. *)
UnmakeUnowned(w, i) ==
    IF w.ball[w.Obj[i]].treasure = 0 THEN w
    ELSE Delete_shot([w EXCEPT !.ball[w.Obj[i]].life = 0,
                               !.ball[w.Obj[i]].id = NoId], i)

(* Reset_all_players gives each ball an owner, the player with id 0, lest  *)
(* Delete_shot makes it anew.                                              *)
Unmake(w, i) ==
    LET b == [w.ball[w.Obj[i]] EXCEPT !.id = NoId, !.life = 0, !.owner = "0",
                                      !.recreate = FALSE]
    IN  IF b.treasure = 0 THEN w ELSE Delete_shot([w EXCEPT !.ball[w.Obj[i]] = b], i)

Remake(w, t) == Make_treasure_ball([w EXCEPT !.destroyed[t] = 0, !.have[t] = FALSE], t)

Reset_all_players(w) ==
    LET Killed(v, p) == IF options.endOfRoundReset THEN Kill_player(v, p, "alive") ELSE v
        w1 == FoldOver(Killed, w, SetToSeq({p \in Player : w.state[p] # "none"}))
        w2 == [w1 EXCEPT !.hasBall = {},
                         !.state = [p \in Player |->
                             IF @[p] \in {"none", "paused"} THEN @[p] ELSE "alive"]]
        w3 == FoldOver(Unmake, w2, Downwards(w2))
        w4 == FoldOver(Remake, w3, [t \in Treasure |-> t])
    IN  [w4 EXCEPT !.won = [x \in Team |-> 0], !.left = [x \in Team |-> Owned(x)]]

-----------------------------------------------------------------------------
(* Goals.                                                                  *)

(* Balltarget_hitfunc *)
Hits(b, g) ==
    b.owner = NoId \/ team[b.treasure] # team[g] \/ team[b.owner] = team[g]

(* SCORE_TREASURE and Punish_team.  counted: those of the paused who are   *)
(* newly so, and of those who are out who do not wait.                     *)
Somebody(w, x, counted) ==
    \E p \in Player : /\ team[p] = x
                      /\ \/ w.state[p] \in {"alive", "killed"}
                         \/ w.state[p] = "paused" /\ p \in counted

Punish_team(w, s, counted) ==
    LET b == w.ball[s]
        t == b.treasure
        shot == {p \in Player : /\ options.treasureKillTeam /\ team[p] = team[t]
                                /\ (w.state[p] = "alive" \/ p \in counted)}
    IN  [w EXCEPT !.destroyed[t] = @ + 1, !.left[team[t]] = @ - 1,
                  !.won[team[b.owner]] = @ + 1,
                  !.state = [p \in Player |-> IF p \in shot THEN "killed" ELSE @[p]],
                  !.ball[s].recreate = FALSE]

Ball_hits_goal(w, s, g, counted) ==
    LET b == w.ball[s]
        own == b.owner # NoId /\ team[b.treasure] = team[g] /\ team[b.owner] = team[g]
    IN  IF b.owner = NoId \/ own THEN [w EXCEPT !.ball[s].recreate = TRUE]
        ELSE IF /\ team[g] = team[b.owner]
                /\ ~(options.captureTheFlag /\ ~w.have[g])
                /\ Somebody(w, team[b.treasure], counted)
        THEN Punish_team(w, s, counted)
        ELSE w

(* A ball in slot s gets into a goal, and dies of it.  Bounded. *)
Goals(w, s) ==
    {[Ball_hits_goal(w, s, g, counted) EXCEPT !.ball[s].life = 0] :
        g \in {g \in Treasure : Hits(w.ball[s], g)},
        counted \in SUBSET {p \in Player : w.state[p] \in {"paused", "dead"}}}

Bounded(w) == \A t \in Treasure : w.destroyed[t] <= MaxDestroyed

-----------------------------------------------------------------------------
(* Rounds.                                                                 *)

Init ==
    /\ options \in Options
    /\ phase = "input" /\ todo = {}
    /\ state = [p \in Player |-> "none"]
    /\ hasBall = {}
    /\ ptr = [p \in Player |-> Null]
    /\ Obj \in {f \in [1 .. Cardinality(Slot) -> Slot] : IsInjective(f)}
    /\ ObjCount = NumTreasures
    /\ ball = [s \in Slot |-> IF \E t \in Treasure : s = Obj[t]
                              THEN Fresh(CHOOSE t \in Treasure : s = Obj[t]) ELSE Gone]
    /\ have = [t \in Treasure |-> TRUE] /\ destroyed = [t \in Treasure |-> 0]
    /\ TreasuresLeft = [x \in Team |-> Owned(x)]
    /\ TreasuresDestroyed = [x \in Team |-> 0]
    /\ strayed = {} /\ robbed = {}

(* Compute_game_status: whether the round is over, when every player has   *)
(* been told about; late is that the round's time is up.                   *)
TeamAlive(w) == {team[p] : p \in {p \in Player : w.state[p] \in {"alive", "killed"}}}
TeamDead(w) == {team[p] : p \in {p \in Player : w.state[p] = "dead"}} \ TeamAlive(w)

WithTreasure(w) == {x \in TeamAlive(w) : w.left[x] > 0 \/ Owned(x) = 0}

(* Bug: the balls of teams that have quit are forgotten. *)
MissingFromAlive(w) == \E x \in TeamAlive(w) : w.left[x] # Owned(x)

Missing(w) == \E x \in Team : w.left[x] # Owned(x)

GameOver(w, late) ==
    IF Cardinality(TeamAlive(w)) > 1
    THEN \/ late
         \/ /\ Cardinality(WithTreasure(w)) <= 1
            /\ \E x \in TeamAlive(w) : w.won[x] > 0
    ELSE TeamDead(w) # {} \/ Missing(w)

Compute_game_status(w, late) ==
    IF GameOver(w, late) THEN Reset_all_players(w) ELSE w

-----------------------------------------------------------------------------
(* Between frames: players and their commands.                             *)

Input == phase = "input" /\ UNCHANGED <<phase, todo>>

(* Handle_login: into the game, to wait, or without a base. *)
Enter(p) ==
    /\ Input /\ state[p] = "none"
    /\ \E st \in {"alive", "dead", "paused"} : Become([World EXCEPT !.state[p] = st])

Destroy_connection(p) ==
    /\ Input /\ p \in Present
    /\ Become(Delete_player(World, p))

(* Pause_player *)
PauseOn(w, p) == [Detach_ball(w, p, Slot) EXCEPT !.state[p] = "paused"]

Pause_player(p) ==
    /\ Input
    /\ \/ state[p] \in {"alive", "dead"} /\ Become(PauseOn(World, p))
       \/ /\ state[p] = "paused"
          /\ \E st \in {"alive", "dead"} : Become([World EXCEPT !.state[p] = st])

(* KEY_DROP_BALL, and a robot that lets go. *)
Drop_ball(p) ==
    /\ Input /\ state[p] = "alive"
    /\ Become(Detach_ball(World, p, Slot))

(* Fire_general_ecm: some of the balls of p come loose. *)
Fire_ecm(p) ==
    /\ Input /\ state[p] = "alive" /\ p \in hasBall
    /\ \E S \in SUBSET {s \in Balls : ball[s].owner = p} :
          LET Loose(w, s) == Detach_ball(w, p, {s})
          IN  Become(FoldOver(Loose, World, SetToSeq(S)))

(* Another object is made, of nobody: a cannon's shot, an item, an         *)
(* asteroid.  (Nobody connects to an object of a player; one whose player  *)
(* leaves counts as just made.)  Bounded: there is room for all balls.     *)
(* When MAX_TOTAL_SHOTS objects leave none, Make_treasure_ball makes no    *)
(* ball, without a word.                                                   *)
Launch ==
    /\ phase \in {"input", "players"} /\ UNCHANGED <<phase, todo>>
    /\ ObjCount - Cardinality(Balls) < Cardinality(Slot) - NumTreasures
    /\ Become([World EXCEPT !.ball[Obj[ObjCount + 1]] = [Gone EXCEPT !.life = 1],
                            !.n = @ + 1])

(* Cmd_reset deletes every object first. *)
Cmd_reset ==
    /\ Input
    /\ LET Visit(w, i) == Delete_shot([w EXCEPT !.ball[w.Obj[i]].life = 0], i)
       IN  Become(Reset_all_players(FoldOver(Visit, World, Downwards(World))))

-----------------------------------------------------------------------------
(* The phases of a frame.                                                  *)

Enters(ph, visits) ==
    phase' = ph /\ todo' = visits
    /\ UNCHANGED <<options, state, hasBall, ptr, ball, Obj, ObjCount, have,
                   destroyed, TreasuresLeft, TreasuresDestroyed, strayed, robbed>>

Update_objects ==
    \/ phase = "input" /\ Enters("objects", Balls)
    \/ phase = "objects" /\ Enters("players", Present)
    \/ phase = "players" /\ Enters("collide", Present)
    \/ /\ phase = "collide" /\ Enters("cleanup", Present)
       /\ \A p \in todo \cap Player : state[p] = "alive" => ptr[p] = Null \/ Free(ptr[p])

Visits(ph, x) == phase = ph /\ x \in todo /\ UNCHANGED phase /\ todo' = todo \ {x}

(* Update_connector_force: a connector that is too long or too short. *)
Update_connector_force(s) ==
    /\ phase = "objects" /\ s \in todo /\ ball[s].id # NoId
    /\ UNCHANGED <<phase, todo>>
    /\ Become(Detach_ball(World, ball[s].id, {s}))

(* Move_ball into a goal. *)
Move_ball(s) ==
    /\ Visits("objects", s)
    /\ \E w \in Goals(World, s) : Bounded(w) /\ Become(w)

(* A ball that hits a target or another ball, a wall too fast, or an       *)
(* asteroid.                                                               *)
Smash(s) ==
    /\ \/ Visits("objects", s)
       \/ phase = "collide" /\ s \in Balls /\ UNCHANGED <<phase, todo>>
    /\ Become([World EXCEPT !.ball[s].life = 0])

(* Another object hits something, is picked up, or grows too old. *)
Expire(s) ==
    /\ phase # "input" /\ s \notin Balls /\ ball[s].life > 0
    /\ UNCHANGED <<phase, todo>>
    /\ Become([World EXCEPT !.ball[s].life = 0])

(* What p meets in a frame, shots and walls among it. *)
Meet_death(p) ==
    /\ phase \in {"objects", "players", "collide"} /\ state[p] = "alive"
    /\ UNCHANGED <<phase, todo>>
    /\ Become([World EXCEPT !.state[p] = "killed"])

(* Warp_balls: balls that would end up in a wall die. *)
Warp_balls(p) ==
    /\ Visits("players", p) /\ state[p] = "alive"
    /\ \E S \in SUBSET {s \in Balls : ball[s].id = p} :
          \E at \in {Null, ptr[p]} :
             Become([World EXCEPT !.ptr[p] = at,
                        !.ball = [s \in Slot |-> IF s \in S THEN [@[s] EXCEPT !.life = 0]
                                                 ELSE @[s]]])

(* Update_players throws out those who flood. *)
Kick_flooder(p) ==
    /\ Visits("players", p)
    /\ Become(Delete_player(World, p))

-----------------------------------------------------------------------------
(* PlayerCollision.                                                        *)

(* It is the turn of p, who may meet the balls in S afterwards. *)
Turn(p, S) ==
    /\ phase = "collide" /\ p \in todo /\ state[p] = "alive"
    /\ UNCHANGED phase
    /\ todo' = ((todo \cap Player) \ {p}) \cup ({p} \X S)

CanConnect(p) == options.multipleConnectors \/ p \notin hasBall

(* Players without a connector to spare, or who do not want one. *)
No_connector(p) ==
    Turn(p, Balls) /\ Become([World EXCEPT !.ptr[p] = Null])

(* The connector has stretched to its length, too far away for a           *)
(* collision, and holds; the ball may already be in a goal.                *)
Connect(w, p, s) ==
    LET t == w.ball[s].treasure
    IN  [w EXCEPT !.ball[s] = [@ EXCEPT !.id = p, !.owner = p, !.gravity = TRUE],
                  !.have[t] = FALSE, !.hasBall = @ \cup {p}, !.ptr[p] = Null]

Connects(p) ==
    /\ CanConnect(p) /\ ptr[p] # Null
    /\ LET s == ptr[p]
           w == Connect(World, p, s)
       IN  \/ ~Free(s) /\ Turn(p, Balls) /\ Become([World EXCEPT !.ptr[p] = Null])
           \/ Free(s) /\ Turn(p, Balls) /\ Become(World)
           \/ /\ Free(s) /\ s \in Balls /\ Turn(p, Balls \ {s})
              /\ \E v \in {w} \cup Goals(w, s) : Bounded(v) /\ Become(v)

(* The ball is gone, and p connects to another object in its memory.  Its  *)
(* ball_treasure is that of a ball that was there before.  (A mine or a    *)
(* missile has overwritten it, and what is in a goal is refused by an      *)
(* assertion of Balltarget_hitfunc: the server ends.)                      *)
Stray(p) ==
    /\ CanConnect(p) /\ ptr[p] # Null
    /\ Free(ptr[p]) /\ ptr[p] \notin Balls /\ Turn(p, Balls)
    /\ \E t \in Treasure :
          Become([World EXCEPT !.ball[ptr[p]].id = p, !.have[t] = FALSE,
                               !.hasBall = @ \cup {p}, !.ptr[p] = Null,
                               !.strayed = @ \cup {p}, !.robbed = @ \cup {t}])

Reachable(p) ==
    {s \in Balls : /\ ball[s].id = NoId
                   /\ ~(have[ball[s].treasure] /\ team[p] = team[ball[s].treasure])}

Reaches_out(p) ==
    /\ Turn(p, Balls) /\ CanConnect(p) /\ ptr[p] = Null
    /\ \E s \in Reachable(p) : Become([World EXCEPT !.ptr[p] = s])

(* Bug: the treasure still has its ball. *)
TouchOwning(w, p, s) ==
    IF w.ball[s].id = NoId
    THEN [w EXCEPT !.ball[s] = [@ EXCEPT !.owner = p, !.gravity = TRUE]] ELSE w

(* Player_collides_with_ball.  Whoever lives bounces off the ball, which   *)
(* may be moved into a goal by it; fuse is that it has just been touched.  *)
Touch(w, p, s) ==
    LET t == w.ball[s].treasure
        w1 == [w EXCEPT !.have[t] = FALSE, !.ball[s].gravity = @ \/ w.have[t]]
    IN  IF w.ball[s].id = NoId THEN [w1 EXCEPT !.ball[s].owner = p]
        ELSE IF options.ballCollisionDetaches
        THEN [Detach_ball(w1, w.ball[s].id, {s}) EXCEPT !.ball[s].owner = p]
        ELSE w1

Player_collides_with_ball(p, s) ==
    /\ Visits("collide", <<p, s>>) /\ state[p] = "alive"
    /\ LET w == [World EXCEPT !.ball[s].life =
                    IF options.treasureCollisionDestroys THEN 0 ELSE @]
       IN  \/ Become([w EXCEPT !.state[p] = "killed"])
           \/ Become(w)
           \/ \E v \in {w} \cup Goals(w, s) : Bounded(v) /\ Become(Touch(v, p, s))

-----------------------------------------------------------------------------
(* The end of a frame.                                                     *)

Killed(p) ==
    /\ Visits("cleanup", p) /\ state[p] = "killed"
    /\ \E st \in {"alive", "dead"} : Become(Kill_player(World, p, st))

(* Those who have paused too long are thrown out, the idle are paused. *)
Auto_kick(p) ==
    /\ Visits("cleanup", p) /\ state[p] = "paused"
    /\ Become(Delete_player(World, p))

Auto_pause(p) ==
    /\ Visits("cleanup", p) /\ state[p] = "alive"
    /\ Become(PauseOn(World, p))

End_frame ==
    /\ phase = "cleanup" /\ \A p \in Player : state[p] # "killed"
    /\ phase' = "input" /\ todo' = {}
    /\ \E late \in BOOLEAN : Become(Compute_game_status(Delete_dead(World), late))

Next ==
    \/ \E p \in Player :
          \/ Enter(p) \/ Destroy_connection(p) \/ Pause_player(p) \/ Drop_ball(p)
          \/ Fire_ecm(p) \/ Meet_death(p) \/ Warp_balls(p) \/ Kick_flooder(p)
          \/ No_connector(p) \/ Connects(p) \/ Stray(p) \/ Reaches_out(p)
          \/ \E s \in Slot : Player_collides_with_ball(p, s)
          \/ Killed(p) \/ Auto_kick(p) \/ Auto_pause(p)
    \/ \E s \in Slot : \/ Update_connector_force(s) \/ Move_ball(s) \/ Smash(s)
                       \/ Expire(s)
    \/ Launch \/ Cmd_reset \/ Update_objects \/ End_frame

Spec == Init /\ [][Next]_vars

-----------------------------------------------------------------------------
(* Properties.                                                             *)

(* A treasure never has two balls, whoever makes one: Treasure_init,       *)
(* Delete_shot or Reset_all_players, which each decide by other signs.  It *)
(* has none only if its team lost the ball, however that one died          *)
(* (RECREATE in Delete_shot and Ball_hits_goal).                           *)
OneBallEach ==
    /\ \A r, s \in Balls : ball[r].treasure = ball[s].treasure => r = s
    /\ \A t \in Treasure :
          (\A s \in Balls : ball[s].treasure # t) => destroyed[t] > 0

Untouched(t) == \E s \in Balls : ball[s].treasure = t /\ ~ball[s].gravity

(* A treasure that is said to have its ball has one that nobody has        *)
(* touched, and no other (have is set and cleared in treasure.c,           *)
(* collision.c, shot.c and player.c).  A treasure that only seems to have  *)
(* its ball is never given one again.  Only a connection to what is no     *)
(* ball takes have from a treasure whose ball is untouched.                *)
HaveIffUntouched ==
    \A t \in Treasure :
        /\ have[t] => Untouched(t)
        /\ Untouched(t) => have[t] \/ t \in robbed

Carriers == {ball[s].id : s \in Balls} \ {NoId}

(* Whoever carries a ball has HAS_BALL, whoever has it carries one or has  *)
(* connected to what is no ball, and they are playing (Detach_ball and its *)
(* nine callers).  Nobody who has left owns a ball: Player_by_id of an     *)
(* owner, as Ball_hits_goal and Move_ball use it, is never NULL.           *)
CarriersPlay ==
    /\ Carriers \subseteq hasBall /\ hasBall \subseteq Carriers \cup strayed
    /\ \A p \in hasBall : state[p] \in {"alive", "killed"}
    /\ \A s \in Balls : ball[s].owner \in Present \cup {NoId}

(* Without strays: pl->ball is a ball (ballobject_t *ball, player.h), and  *)
(* HAS_BALL says that one is carried.  It does not hold: Delete_shot       *)
(* leaves pointers to a ball that somebody carries, and PlayerCollision    *)
(* does not look at the type of what it connects to.                       *)
BallsOnly == hasBall \subseteq Carriers

(* No round goes on with a ball missing when fewer than two teams are left *)
(* to play it, also if the others have quit (Compute_game_status).         *)
MissingBallsMatter ==
    [][phase = "cleanup" /\ phase' = "input"
         /\ (\E t \in Treasure : \A s \in Slot : ball'[s].treasure # t)
       => Cardinality(TeamAlive(World)') > 1]_vars

(* "The treasure's team cannot connect before somebody else has owned the  *)
(* ball", says PlayerCollision (collision.c).  It does not hold: players   *)
(* who reach for a ball another one carries keep their pointer to it.      *)
OwnTreasureFirst ==
    [][\A p \in Player, s \in Slot :
          ball[s].id # p /\ ball'[s].id = p /\ have[ball[s].treasure]
          => team[p] # team[ball[s].treasure]]_vars
=============================================================================
