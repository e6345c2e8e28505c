-------------------------------- MODULE Races --------------------------------
(***************************************************************************)
(* Races (race.c) and the game of tag (tag.c): laps, finishing, the end of *)
(* a race and the starting grid of the next, and who is "it".              *)
(*                                                                         *)
(* A frame is a sequence of phases: input, the recovery of the dead        *)
(* (Update_players), collisions, the cleanup that ends it and, when the    *)
(* race is over, Race_game_over.  Positions are left out: whoever is alive *)
(* may pass the next checkpoint, be killed, or both.  Times are left out   *)
(* but for how long the last lap took.  There are no teams, tanks or       *)
(* robots here, no ballrace, nobody is kicked or paused by the server      *)
(* itself, and all bases have the same order.                              *)
(***************************************************************************)
EXTENDS Integers, FiniteSets, SequencesExt

CONSTANTS
    Player,
    NumBases, NumChecks, raceLaps, lives, resetOnHuman,
    LapTimes,       \* what a lap can take
    MaxPlayers      \* by the values of LIMITED_LIVES there are


NoId == "NO_ID"
ASSUME PlayersFinite == IsFiniteSet(Player) /\ NoId \notin Player

ASSUME RaceSizes ==
    /\ NumBases \in Nat \ {0} /\ NumChecks \in Nat \ {0}
    /\ raceLaps \in Nat \ {0} /\ lives \in Nat /\ resetOnHuman \in Nat

ASSUME RaceModes ==
    /\ LapTimes \subseteq Nat \ {0}
    /\ DOMAIN MaxPlayers \subseteq BOOLEAN
    /\ \A l \in DOMAIN MaxPlayers : MaxPlayers[l] \in 1 .. NumBases

VARIABLES
    LIMITED_LIVES,
    phase,
    PlayersArray,       \* the players there are
    state,              \* pl_state
    round, check,       \* laps begun, the next checkpoint
    best_lap,           \* 0 while there is none
    FINISH, RACE_OVER,  \* the players whose pl_status has the bit
    pl_life, home_base,
    tagItPlayerId

raceVars == <<LIMITED_LIVES, phase, PlayersArray, state, round, check, best_lap,
              FINISH, RACE_OVER, pl_life, home_base, tagItPlayerId>>

Present == Range(PlayersArray)
Base == 1 .. NumBases

RaceTypeOK ==
    /\ LIMITED_LIVES \in DOMAIN MaxPlayers
    /\ phase \in {"input", "collide", "cleanup", "over"}
    /\ PlayersArray \in Seq(Player) /\ IsInjective(PlayersArray)
    /\ state \in [Player -> {"none", "waiting", "appearing", "alive", "killed",
                             "dead", "paused"}]
    /\ round \in [Player -> 0 .. raceLaps + 1]
    /\ check \in [Player -> 0 .. NumChecks - 1]
    /\ best_lap \in [Player -> LapTimes \cup {0}]
    /\ FINISH \subseteq Present /\ RACE_OVER \subseteq Present
    /\ pl_life \in [Player -> 0 .. lives]
    /\ home_base \in [Player -> Base \cup {0}]
    /\ tagItPlayerId \in Player \cup {NoId}

RaceInit ==
    /\ LIMITED_LIVES \in DOMAIN MaxPlayers
    /\ phase = "input" /\ PlayersArray = <<>>
    /\ state = [p \in Player |-> "none"]
    /\ round = [p \in Player |-> 0] /\ check = [p \in Player |-> 0]
    /\ best_lap = [p \in Player |-> 0]
    /\ FINISH = {} /\ RACE_OVER = {}
    /\ pl_life = [p \in Player |-> 0]
    /\ home_base = [p \in Player |-> 0]
    /\ tagItPlayerId = NoId

Out(p) == state[p] \in {"paused", "waiting"}
Active == {p \in Present : ~Out(p)}

-----------------------------------------------------------------------------
(* Input.                                                                  *)

(* Handle_login with Init_player and Pick_startpos: the first player of    *)
(* all plays at once.                                                      *)
Handle_login(p) ==
    /\ phase = "input" /\ p \notin Present
    /\ Cardinality(Present) < MaxPlayers[LIMITED_LIVES]
    /\ \E b \in Base \ {home_base[q] : q \in Present} :
          home_base' = [home_base EXCEPT ![p] = b]
    /\ PlayersArray' = Append(PlayersArray, p)
    /\ state' = [state EXCEPT ![p] = IF PlayersArray = <<>> THEN "alive"
                                     ELSE IF LIMITED_LIVES THEN "waiting"
                                     ELSE "appearing"]
    /\ pl_life' = [pl_life EXCEPT ![p] = IF state'[p] = "waiting" THEN 0 ELSE lives]
    /\ phase' = IF Len(PlayersArray') <= resetOnHuman THEN "over" ELSE "input"
    /\ UNCHANGED <<LIMITED_LIVES, round, check, best_lap, FINISH, RACE_OVER,
                   tagItPlayerId>>

(* Delete_player: the last player takes the index of the one who leaves. *)
Delete_player(p) ==
    /\ phase = "input" /\ p \in Present
    /\ LET Swapped == [i \in DOMAIN PlayersArray |->
                          IF PlayersArray[i] = p THEN Last(PlayersArray)
                                                 ELSE PlayersArray[i]]
       IN  PlayersArray' = Front(Swapped)
    /\ state' = [state EXCEPT ![p] = "none"]
    /\ round' = [round EXCEPT ![p] = 0] /\ check' = [check EXCEPT ![p] = 0]
    /\ best_lap' = [best_lap EXCEPT ![p] = 0]
    /\ FINISH' = FINISH \ {p} /\ RACE_OVER' = RACE_OVER \ {p}
    /\ pl_life' = [pl_life EXCEPT ![p] = 0]
    /\ home_base' = [home_base EXCEPT ![p] = 0]
    /\ tagItPlayerId' = IF tagItPlayerId = p THEN NoId ELSE tagItPlayerId
    /\ UNCHANGED <<LIMITED_LIVES, phase>>

(* Pause_player: a race goes on with its bits set, also for the dead. *)
PauseOn(p) ==
    /\ phase = "input" /\ p \in Present /\ state[p] # "paused"
    /\ state' = [state EXCEPT ![p] = "paused"]
    /\ pl_life' = [pl_life EXCEPT ![p] = 0]
    /\ UNCHANGED <<LIMITED_LIVES, phase, PlayersArray, round, check, best_lap,
                   FINISH, RACE_OVER, home_base, tagItPlayerId>>

Unpause(p) ==
    /\ phase = "input" /\ p \in Present /\ state[p] = "paused"
    /\ state' = [state EXCEPT ![p] = IF LIMITED_LIVES THEN "waiting"
                                                      ELSE "appearing"]
    /\ round' = [round EXCEPT ![p] = 0] /\ check' = [check EXCEPT ![p] = 0]
    /\ best_lap' = [best_lap EXCEPT ![p] = 0]
    /\ UNCHANGED <<LIMITED_LIVES, phase, PlayersArray, FINISH, RACE_OVER,
                   pl_life, home_base, tagItPlayerId>>

-----------------------------------------------------------------------------
(* A frame.                                                                *)

(* Update_players: some have recovered, unless dead for this race. *)
Update_players ==
    /\ phase = "input" /\ phase' = "collide"
    /\ \E R \in SUBSET {p \in Present :
                          \/ state[p] = "appearing"
                          \/ state[p] = "dead" /\ ~LIMITED_LIVES} :
          state' = [p \in Player |-> IF p \in R THEN "alive" ELSE state[p]]
    /\ UNCHANGED <<LIMITED_LIVES, PlayersArray, round, check, best_lap, FINISH,
                   RACE_OVER, pl_life, home_base, tagItPlayerId>>

(* A lap that took t ends or, with round = 0, the first one starts. *)
Lap(best, r, t) ==
    IF r # 0 /\ (best > t \/ best = 0) THEN t ELSE best

(* Player_death_reset: a life less in limited lives. *)
LivesLeft(life) == IF LIMITED_LIVES /\ life > 0 THEN life - 1 ELSE life

(* Player_pass_checkpoint: whoever finishes is out until the next race, or *)
(* until he has recovered.                                                 *)
AfterPass(p) ==
    IF check[p] = 0 /\ round[p] >= raceLaps THEN "dead" ELSE "alive"

(* Rounds after the last are counted as one: a bound. *)
NextRound(p) ==
    IF check[p] # 0 \/ round[p] > raceLaps THEN round[p] ELSE round[p] + 1

(* Whoever kills the player who is "it" is "it" then (Transfer_tag), be he *)
(* dead or paused by now.                                                  *)
Transfer_tag(killed) ==
    IF tagItPlayerId \in killed THEN tagItPlayerId' \in Present
                                ELSE UNCHANGED tagItPlayerId

(* PlayerCollision and what else kills: players pass their next checkpoint *)
(* (PlayerCheckpointCollision) and those who race on may be killed after.  *)
Check_collision ==
    /\ phase = "collide" /\ phase' = "cleanup"
    /\ \E passing \in SUBSET {p \in Present : state[p] = "alive"} :
       \E killed \in SUBSET {p \in Present : state[p] = "alive"
                                 /\ (p \in passing => AfterPass(p) = "alive")},
          t \in [passing -> LapTimes] :
          LET lap == {p \in passing : check[p] = 0}
              finish == {p \in lap : round[p] >= raceLaps}
          IN
          /\ state' = [p \in Player |->
                          IF p \in killed THEN "killed"
                          ELSE IF p \in passing THEN AfterPass(p) ELSE state[p]]
          /\ round' = [p \in Player |-> IF p \in passing THEN NextRound(p) ELSE round[p]]
          /\ best_lap' = [p \in Player |->
                IF p \in lap THEN Lap(best_lap[p], round[p], t[p]) ELSE best_lap[p]]
          /\ check' = [p \in Player |->
                IF p \in passing THEN (check[p] + 1) % NumChecks ELSE check[p]]
          /\ FINISH' = FINISH \cup finish
          /\ pl_life' = [p \in Player |->
                IF p \in finish THEN LivesLeft(pl_life[p]) ELSE pl_life[p]]
          /\ Transfer_tag(killed)
    /\ UNCHANGED <<LIMITED_LIVES, PlayersArray, RACE_OVER, home_base>>

-----------------------------------------------------------------------------
(* The end of a frame.                                                     *)

(* Kill_player. *)
AfterDeath(p) ==
    IF LIMITED_LIVES /\ pl_life[p] = 0 THEN "dead" ELSE "appearing"

Taggable == {p \in Present : state'[p] # "paused"}

(* Bug: a random player is looked for among all, and none comes after him. *)
CandidatesAny == 1 .. Len(PlayersArray)

Candidates == 1 .. Cardinality(Taggable)

(* The players the first loop of Check_tag can end at: the first who can   *)
(* be tagged, from a candidate on.  When there is none the id stays.       *)
Tagged ==
    LET From(i) == SelectInSubSeq(PlayersArray, i, Len(PlayersArray),
                                  LAMBDA p : p \in Taggable)
    IN  {IF From(i) = 0 THEN tagItPlayerId ELSE PlayersArray[From(i)] : i \in Candidates}

Check_tag ==
    IF tagItPlayerId \in Taggable THEN UNCHANGED tagItPlayerId
    ELSE IF Taggable = {} THEN tagItPlayerId' = NoId
    ELSE tagItPlayerId' \in Tagged

(* Race_compute_game_status counts those who are not paused and do not     *)
(* wait: those who have got a position, and those who finish now.          *)
Counted == {p \in Present : state'[p] \notin {"paused", "waiting"}}
Waiting == {p \in Present : state'[p] = "waiting"}
Alive == {p \in Counted : state'[p] # "dead"}
Finished == {p \in (FINISH \cap Counted) \ RACE_OVER : round[p] > raceLaps}

(* Bug: those who wait are forgotten. *)
NobodyThereBut == Counted = {}

NobodyThere == Counted = {} /\ Waiting = {}

(* Everyone in S gets the same position.  FINISH bits of a lap before a   *)
(* pause are cleared.                                                      *)
GivePositions(S) ==
    /\ FINISH' = {p \in FINISH \ S : p \in RACE_OVER \/ p \notin Counted}
    /\ RACE_OVER' = RACE_OVER \cup S

(* Limited lives wait for all but the last to die or finish; otherwise the *)
(* race ends with a finish that leaves one player.                         *)
Decided ==
    IF LIMITED_LIVES
    THEN ~(Cardinality(Alive) > 1 \/ (Cardinality(Alive) = 1 /\ Cardinality(Counted) = 1))
    ELSE Finished # {} /\ Cardinality(Alive) <= 1

(* The rest of Update_objects, with the round time expired or not. *)
Cleanup ==
    /\ phase = "cleanup"
    /\ state' = [p \in Player |-> IF state[p] = "killed" THEN AfterDeath(p) ELSE state[p]]
    /\ pl_life' = [p \in Player |-> IF state[p] = "killed" THEN LivesLeft(pl_life[p])
                                                           ELSE pl_life[p]]
    /\ Check_tag
    /\ IF NobodyThere
       THEN phase' = "input" /\ UNCHANGED <<FINISH, RACE_OVER>>
       ELSE /\ GivePositions(IF Finished = {} THEN {}
                             ELSE Finished \cup (FINISH \cap RACE_OVER \cap Counted))
            /\ \E expired \in BOOLEAN :
                  phase' = IF expired \/ Decided THEN "over" ELSE "input"
    /\ UNCHANGED <<LIMITED_LIVES, PlayersArray, round, check, best_lap, home_base>>

-----------------------------------------------------------------------------
(* Race_game_over.                                                         *)

(* Bug: a lap is compared with the first in line alone. *)
PlaceByFirst(order, p) ==
    IF Out(p) \/ best_lap[p] = 0 \/ order = <<>> THEN Len(order) + 1
    ELSE IF best_lap[p] < best_lap[order[1]] THEN 1 ELSE Len(order) + 1

(* Where p comes in an order of those before it in PlayersArray: before    *)
(* the first who was slower, or is out.                                    *)
Place(order, p) ==
    LET behind == {j \in DOMAIN order : best_lap[p] < best_lap[order[j]] \/ Out(order[j])}
    IN  IF Out(p) \/ best_lap[p] = 0 \/ behind = {} THEN Len(order) + 1
        ELSE CHOOSE j \in behind : \A k \in behind : j <= k

Order ==
    LET order[n \in 0 .. Len(PlayersArray)] ==
          IF n = 0 THEN <<>>
          ELSE LET p == PlayersArray[n]
               IN  InsertAt(order[n - 1], Place(order[n - 1], p), p)
    IN  order[Len(PlayersArray)]

(* Everyone gets a base by the order and, with Reset_all_players, is ready *)
(* for the next race, those who waited too.                                *)
Race_game_over ==
    /\ phase = "over" /\ phase' = "input"
    /\ home_base' = [p \in Player |-> IF p \in Present
                                      THEN CHOOSE b \in DOMAIN Order : Order[b] = p
                                      ELSE 0]
    /\ FINISH' = {} /\ RACE_OVER' = {}
    /\ state' = [p \in Player |-> IF p \in Present /\ state[p] # "paused"
                                  THEN "appearing" ELSE state[p]]
    /\ pl_life' = [p \in Player |-> IF state'[p] = "appearing" THEN lives ELSE pl_life[p]]
    /\ round' = [p \in Player |-> 0] /\ check' = [p \in Player |-> 0]
    /\ best_lap' = [p \in Player |-> 0]
    /\ UNCHANGED <<LIMITED_LIVES, PlayersArray, tagItPlayerId>>

RaceNext ==
    \/ \E p \in Player :
          Handle_login(p) \/ Delete_player(p) \/ PauseOn(p) \/ Unpause(p)
    \/ Update_players \/ Check_collision \/ Cleanup \/ Race_game_over

RaceSpec == RaceInit /\ [][RaceNext]_raceVars

-----------------------------------------------------------------------------
(* Properties.                                                             *)

(* A race leads somewhere: in limited lives no frame ends with everybody   *)
(* who has not paused dead or waiting, which only a new race could change  *)
(* (Race_compute_game_status, after whatever deaths, pauses and departures *)
(* of the ones that raced).                                                *)
SomebodyRaces ==
    [][phase = "cleanup" /\ phase' = "input" /\ LIMITED_LIVES
       => \/ \A p \in Present : state'[p] = "paused"
          \/ \E p \in Present : state'[p] \in {"alive", "appearing"}]_raceVars

(* "Everyone who finished the race in the last frame gets the current      *)
(* position" (Race_compute_game_status), and one position each.  It does   *)
(* not hold without limited lives: who has finished recovers, crosses the  *)
(* line again and gets another position with the next who finishes.        *)
PositionsOnce == FINISH \cap RACE_OVER = {}

(* The starting grid: everyone has a base to himself, a better lap has a   *)
(* lower base, and those who are out come behind everyone with a lap.      *)
StartingGrid ==
    [][phase = "over" =>
        \A p, q \in Present : p # q =>
            /\ home_base'[p] # home_base'[q]
            /\ ~Out(p) /\ best_lap[p] # 0
                  /\ (Out(q) \/ best_lap[p] < best_lap[q])
               => home_base'[p] < home_base'[q]]_raceVars

(* Whoever has been killed, paused or left, at the end of a frame "it" is  *)
(* somebody who is not paused, if there is such a player: the second loop  *)
(* of Check_tag, which a stale id would keep from running, is not needed.  *)
SomebodyIsIt ==
    [][phase = "cleanup" =>
        \/ tagItPlayerId' \in Present /\ state'[tagItPlayerId'] # "paused"
        \/ tagItPlayerId' = NoId /\ \A p \in Present : state'[p] = "paused"]_raceVars
=============================================================================
