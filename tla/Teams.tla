-------------------------------- MODULE Teams --------------------------------
(***************************************************************************)
(* Who plays for which team from which base: the changes of team and swaps *)
(* of Cmd_team (command.c), pausing and changes of home (event.c), logins  *)
(* and their choice of a team (contact.c, netserver.c, server.c), robots   *)
(* (robot.c), and what all of them do to the counts of each team.          *)
(*                                                                         *)
(* Scores and positions are left out: where a score or a place decides,    *)
(* anything goes.  So are tanks, spectators and the privileges about       *)
(* automatic kicks.  A player is paused or is not: waiting, appearing,     *)
(* alive and dead players are told apart in Races.  fault is the end of    *)
(* the server: a null pointer or an assertion ("crash"), End_game ("end"), *)
(* or a loop in Cmd_team that does not end ("hang").                       *)
(***************************************************************************)
EXTENDS Integers, FiniteSets

CONSTANTS
    Human, Robot,   \* ids of players with a connection and of robots
    MaxTeams,       \* MAX_TEAMS
    NumBases,       \* of each team on the map
    MaxDrift,       \* bound on wrong counts of members, see Running
    MaxRobotDrift,  \* and of robots
    Options         \* the settings a server may run with

Team == 0 .. MaxTeams - 1
Player == Human \cup Robot
Base == UNION {{t} \X (1 .. NumBases[t]) : t \in Team}

NoId == "NO_ID"
NotSet == -1        \* TEAM_NOT_SET
NoBase == <<>>      \* home_base is NULL
NoLogin == -2

ASSUME TeamsOfBases ==
    /\ MaxTeams \in Nat \ {0} /\ NumBases \in [Team -> Nat]
    /\ MaxDrift \in Nat /\ MaxRobotDrift \in Nat

ASSUME DisjointIds ==
    IsFiniteSet(Player) /\ Human \cap Robot = {} /\ NoId \notin Player

ASSUME OptionsKnown ==
    Options \subseteq [baselessPausing : BOOLEAN, restrictRobots : BOOLEAN,
                       reserveRobotTeam : BOOLEAN, limitedLives : BOOLEAN,
                       robotTeam : Team, maxRobots : Nat]

VARIABLES
    options,        \* set when the server starts
    game_lock,
    players,        \* the ids in PlayersArray
    team, home_base, paused, pl_prev_team,      \* of each player
    NumMembers, NumRobots, SwapperId,           \* of each team
    login,          \* connp->team of each login in progress
    fault

tables == <<players, team, home_base, paused, pl_prev_team,
            NumMembers, NumRobots, SwapperId, login>>
vars == <<options, game_lock, tables, fault>>

TypeOK ==
    /\ options \in Options
    /\ game_lock \in BOOLEAN
    /\ players \subseteq Player
    /\ team \in [Player -> Team]
    /\ home_base \in [Player -> Base \cup {NoBase}]
    /\ paused \in [Player -> BOOLEAN]
    /\ pl_prev_team \in [Player -> Team]
    /\ NumMembers \in [Team -> Int]
    /\ NumRobots \in [Team -> Int]
    /\ SwapperId \in [Team -> Player \cup {NoId}]
    /\ login \in [Human -> Team \cup {NotSet, NoLogin}]
    /\ fault \in {"none", "crash", "end", "hang"}

Init ==
    /\ options \in Options
    /\ game_lock = FALSE
    /\ players = {}
    /\ team = [p \in Player |-> 0]
    /\ home_base = [p \in Player |-> NoBase]
    /\ paused = [p \in Player |-> FALSE]
    /\ pl_prev_team = [p \in Player |-> 0]
    /\ NumMembers = [t \in Team |-> 0]
    /\ NumRobots = [t \in Team |-> 0]
    /\ SwapperId = [t \in Team |-> NoId]
    /\ login = [h \in Human |-> NoLogin]
    /\ fault = "none"

-----------------------------------------------------------------------------
(* The tables as one value, so that the functions can be composed the way  *)
(* they call each other.                                                   *)

Tables == [players |-> players, team |-> team, base |-> home_base,
           paused |-> paused, prev |-> pl_prev_team, members |-> NumMembers,
           robots |-> NumRobots, swapper |-> SwapperId, login |-> login,
           fault |-> "none"]

Become(t) ==
    /\ players' = t.players
    /\ team' = t.team
    /\ home_base' = t.base
    /\ paused' = t.paused
    /\ pl_prev_team' = t.prev
    /\ NumMembers' = t.members
    /\ NumRobots' = t.robots
    /\ SwapperId' = t.swapper
    /\ login' = t.login
    /\ fault' = t.fault
    /\ UNCHANGED <<options, game_lock>>

Fault(what) == fault' = what /\ UNCHANGED <<options, game_lock, tables>>

(* Once players without a base play, the counts of members run away, once  *)
(* an operator moves robots those of robots do.  MaxDrift and              *)
(* MaxRobotDrift bound how far they are followed.                          *)
Running ==
    /\ fault = "none"
    /\ \A x \in Team :
          /\ NumMembers[x] \in -MaxDrift .. NumBases[x] + MaxDrift
          /\ NumRobots[x] \in -MaxRobotDrift .. Cardinality(Robot) + MaxRobotDrift

LoginInProgress(t) == {h \in Human : t.login[h] # NoLogin}
Ships(t) == Cardinality(t.players) + Cardinality(LoginInProgress(t))
Limit == IF options.baselessPausing THEN Cardinality(Player) + 1
         ELSE Cardinality(Base)

Unqueue(t, p) ==
    [t EXCEPT !.swapper = [x \in Team |-> IF @[x] = p THEN NoId ELSE @[x]]]

(* Pick_startpos: any free base of the player's team, or End_game. *)
FreeBases(t, p) ==
    {b \in Base : b[1] = t.team[p]
                  /\ \A q \in t.players \ {p} : t.base[q] # b}

Pick_startpos(t, p) ==
    IF FreeBases(t, p) = {} THEN {[t EXCEPT !.fault = "end"]}
    ELSE {[t EXCEPT !.base[p] = b] : b \in FreeBases(t, p)}

(* Set_swapper_state: with limited lives, whoever joins a team against     *)
(* others waits for the next round, paused or not.                         *)
Set_swapper_state(t, p) ==
    IF options.limitedLives
       /\ \E q \in t.players : t.team[q] # t.team[p] /\ ~t.paused[q]
    THEN [t EXCEPT !.paused[p] = FALSE] ELSE t

(* Check_team_members *)
Recount(t, x) ==
    [t EXCEPT !.members[x] =
        Cardinality({p \in t.players : t.team[p] = x /\ t.base[p] # NoBase})]

(* Delete_player *)
Delete(t, p) ==
    LET based == t.base[p] # NoBase
        robot == p \in Robot
        tm == t.team[p]
    IN  Recount([Unqueue(t, p) EXCEPT
                  !.players = @ \ {p},
                  !.members[tm] = @ - (IF based THEN 1 ELSE 0),
                  !.robots[tm] = @ - (IF based /\ robot THEN 1 ELSE 0),
                  !.team[p] = 0, !.base[p] = NoBase,
                  !.paused[p] = FALSE, !.prev[p] = 0], tm)

DeleteAll(t, S) ==
    LET del[n \in 0 .. Cardinality(S)] ==
          IF n = 0 THEN [tab |-> t, left |-> S]
          ELSE LET p == CHOOSE q \in del[n - 1].left : TRUE
               IN  [tab |-> Delete(del[n - 1].tab, p),
                    left |-> del[n - 1].left \ {p}]
    IN  del[Cardinality(S)].tab

-----------------------------------------------------------------------------
(* The choice of a team, and room for it.                                  *)

Playing(t, x) == Cardinality({p \in t.players : ~t.paused[p] /\ t.team[p] = x})

HasRoom(t, x) == t.members[x] < NumBases[x]

(* Pick_team: the teams one of which is taken, the score decides which.    *)
Balanced(t, free) ==
    LET playing == {x \in Team : Playing(t, x) > 0}
        least == {x \in playing \cap free :
                     \A y \in playing \cap free : Playing(t, x) <= Playing(t, y)}
        even == {x \in free : \/ least = {}
                              \/ \E y \in least : \/ Playing(t, x) = Playing(t, y)
                                                  \/ Playing(t, y) = Cardinality(t.players)}
        best == IF Cardinality(playing) <= 1 THEN free \ playing ELSE even
    IN  IF best = {} THEN free ELSE best

OneOf(avail) ==
    IF avail = {} THEN {NotSet}
    ELSE IF Cardinality(avail) = 1 THEN avail
    ELSE avail \ {options.robotTeam}

PickHuman(t) ==
    IF game_lock THEN {NotSet}
    ELSE LET free == {x \in Team : HasRoom(t, x)}
         IN  OneOf(Balanced(t, IF options.reserveRobotTeam
                               THEN free \ {options.robotTeam} ELSE free))

PickRobot(t) ==
    IF options.restrictRobots
    THEN {IF HasRoom(t, options.robotTeam) THEN options.robotTeam ELSE NotSet}
    ELSE OneOf(Balanced(t, {x \in Team : HasRoom(t, x)}))

(* Kick_robot_players: the robots one of which is kicked. *)
Kickable(t, x) ==
    {r \in Robot \cap t.players :
        IF x # NotSet THEN t.team[r] = x
        ELSE options.reserveRobotTeam => t.team[r] # options.robotTeam}

KickRobot(t, x) ==
    IF Kickable(t, x) = {} THEN {t} ELSE {Delete(t, r) : r \in Kickable(t, x)}

(* Bug: whoever has a base of the team will do. *)
IdleOrNot(t, x) ==
    {h \in Human \cap t.players : x # NotSet => t.team[h] = x /\ t.base[h] # NoBase}

(* Kick_paused_players *)
Idle(t, x) ==
    {h \in Human \cap t.players :
        /\ t.paused[h]
        /\ x # NotSet => t.team[h] = x /\ t.base[h] # NoBase}

KickPaused(t, x) == DeleteAll(t, Idle(t, x))

(* Is there a homebase available?  If not, a robot is kicked, if that is   *)
(* not enough all who are paused.                                          *)
Seats(t) ==
    IF Ships(t) < Limit \/ game_lock THEN {t}
    ELSE UNION {IF Kickable(t, NotSet) # {} /\ Ships(u) < Limit THEN {u}
                ELSE {KickPaused(u, NotSet)} : u \in KickRobot(t, NotSet)}

(* The team asked for, if it has room or room can be made in it. *)
Suggestion(t, x) ==
    IF game_lock \/ (x = options.robotTeam /\ options.reserveRobotTeam)
    THEN {<<t, NotSet>>}
    ELSE IF HasRoom(t, x) THEN {<<t, x>>}
    ELSE IF Kickable(t, x) # {} THEN KickRobot(t, x) \X {x}
    ELSE IF Idle(t, x) # {} THEN {<<KickPaused(t, x), x>>}
    ELSE {<<t, NotSet>>}

(* Otherwise a team is picked, if need be by kicking one more robot. *)
Assign(t) ==
    UNION {IF x # NotSet \/ game_lock
              \/ Cardinality(Robot \cap t.players) <= t.robots[options.robotTeam]
           THEN {<<t, x>>}
           ELSE UNION {{u} \X PickHuman(u) : u \in KickRobot(t, NotSet)}
           : x \in PickHuman(t)}

FindTeam(t, x) ==
    IF x = NotSet THEN Assign(t)
    ELSE UNION {IF s[2] = NotSet THEN Assign(s[1]) ELSE {s}
                : s \in Suggestion(t, x)}

-----------------------------------------------------------------------------
(* Entering and leaving.                                                   *)

(* Queue_loop, for the first player in the queue without a login port. *)
Queue_loop(h) ==
    /\ Running
    /\ h \notin players /\ login[h] = NoLogin
    /\ \E suggested \in Team \cup {NotSet}, t \in Seats(Tables) :
         IF Ships(t) >= Limit THEN Become(t)
         ELSE \E s \in FindTeam(t, suggested) :
                Become([s[1] EXCEPT !.login[h] = s[2]])

(* A player with a team gets one of its bases, and counts. *)
Enter(t, h) ==
    {[u EXCEPT !.members[t.team[h]] = @ + 1] : u \in Pick_startpos(t, h)}

(* Bug: the team is not looked at again. *)
OpenStill(t, x) == TRUE

(* Robots of the team are taken to have been kicked. *)
Open(t, x) == t.members[x] - t.robots[x] < NumBases[x]

(* Handle_login.  A player for whom there is no team enters paused, in     *)
(* team 0 and without a base.                                              *)
Wants(x) ==
    /\ x # NotSet
    /\ ~(options.reserveRobotTeam /\ x = options.robotTeam)
    /\ NumBases[x] > 0

LoginTeam(t, x) == IF Wants(x) /\ Open(t, x) THEN {x} ELSE PickHuman(t)

Handle_login(h) ==
    /\ Running
    /\ login[h] # NoLogin
    /\ LET asked == login[h]
           t == IF Wants(asked) THEN Recount(Tables, asked) ELSE Tables
           in == [t EXCEPT !.players = @ \cup {h}, !.login[h] = NoLogin]
       IN  \E x \in LoginTeam(t, asked) :
             IF x = NotSet THEN Become([in EXCEPT !.paused[h] = TRUE])
             ELSE \E u \in Enter([in EXCEPT !.team[h] = x], h) : Become(u)

(* Destroy_connection: of a player who plays or who is about to. *)
Destroy_connection(h) ==
    /\ Running
    /\ \/ h \in players /\ Become(Delete(Tables, h))
       \/ login[h] # NoLogin /\ Become([Tables EXCEPT !.login[h] = NoLogin])

(* Robot_update and Robot_create; minRobots is maxRobots by default. *)
Robot_create(r) ==
    /\ Running
    /\ r \notin players
    /\ Cardinality(Robot \cap players) < options.maxRobots
    /\ options.baselessPausing \/ Ships(Tables) < Cardinality(Base)
    /\ options.restrictRobots => HasRoom(Tables, options.robotTeam)
    /\ \E x \in PickRobot(Tables) :
         IF x = NotSet THEN Fault("crash")
         ELSE \E t \in Pick_startpos([Tables EXCEPT
                            !.team[r] = x, !.members[x] = @ + 1,
                            !.robots[x] = @ + 1], r) :
                Become([t EXCEPT !.players = @ \cup {r}])

(* Robot_delete: by Robot_update when ships are too many, Robot_check_leave *)
(* when it has had enough, or the tuner of maxRobots.                       *)
Robot_delete(r) == Running /\ r \in players /\ Become(Delete(Tables, r))

-----------------------------------------------------------------------------
(* Pauses and bases.                                                       *)

(* Pause_player(pl, true) *)
PauseOn(t, p) ==
    LET tm == t.team[p]
        on == [t EXCEPT !.swapper[tm] = NoId, !.paused[p] = TRUE]
        off == [on EXCEPT !.members[tm] = @ - 1, !.prev[p] = tm,
                          !.team[p] = 0, !.base[p] = NoBase]
    IN  IF ~options.baselessPausing THEN Unqueue(on, p)
        ELSE IF t.base[p] = NoBase THEN [t EXCEPT !.fault = "crash"]
        ELSE Unqueue(off, p)

(* By an operator, for idling, or in place of an appearance. *)
Pause_player(p) ==
    /\ Running
    /\ p \in players \cap Human /\ ~paused[p]
    /\ Become(PauseOn(Tables, p))

(* Pause_player(pl, false), ten seconds after the pause began. *)
Unpause(t, p) ==
    LET x == t.prev[p]
        back == Set_swapper_state([t EXCEPT !.team[p] = x, !.members[x] = @ + 1], p)
    IN  IF t.base[p] # NoBase THEN {[t EXCEPT !.paused[p] = FALSE]}
        ELSE IF x > 0 /\ HasRoom(t, x)
        THEN {[u EXCEPT !.paused[p] = FALSE] : u \in Pick_startpos(back, p)}
        ELSE {t}

(* Player_toggle_pause looks for the base of a player who is neither       *)
(* paused nor appearing.                                                   *)
Player_toggle_pause(p) ==
    /\ Running
    /\ p \in players \cap Human
    /\ IF paused[p] THEN \E t \in Unpause(Tables, p) : Become(t)
       ELSE \/ home_base[p] = NoBase /\ Fault("crash")
            \/ Become(PauseOn(Tables, p))

(* Change_home: whoever has the base has to find another one. *)
Change_home(p, b) ==
    /\ Running
    /\ p \in players \cap Human /\ ~paused[p]
    /\ b[1] = team[p] /\ b # home_base[p]
    /\ LET t == [Tables EXCEPT !.base[p] = b]
           had == {q \in players \ {p} : home_base[q] = b}
       IN  IF had = {} THEN Become(t)
           ELSE \E q \in had : \E u \in Pick_startpos(t, q) : Become(u)

Cmd_lock == Running /\ game_lock' = ~game_lock /\ UNCHANGED <<options, tables, fault>>

-----------------------------------------------------------------------------
(* Cmd_team: p asks for team x, or an operator does so for p, who may be   *)
(* a robot.                                                                *)

MayAsk(t, p, x) ==
    /\ ~(game_lock /\ t.base[p] = NoBase)
    /\ ~(x = t.team[p] /\ t.base[p] # NoBase)
    /\ NumBases[x] > 0
    /\ ~(options.reserveRobotTeam /\ x = options.robotTeam)

(* Bug: the team that is left still counts the player. *)
MoveUncounted(t, p, x) ==
    LET moved == Set_swapper_state([t EXCEPT !.team[p] = x, !.members[x] = @ + 1], p)
    IN  UNION {{u} \cup Unpause(u, p) : u \in Pick_startpos(moved, p)}

(* There is a base for him.  Without one before, he is done with his pause *)
(* unless it is too soon.                                                  *)
Move(t, p, x) ==
    LET based == t.base[p] # NoBase
        left == [t EXCEPT !.members[t.team[p]] = @ - (IF based THEN 1 ELSE 0)]
        moved == Set_swapper_state([left EXCEPT !.team[p] = x, !.members[x] = @ + 1], p)
    IN  UNION {IF based \/ ~u.paused[p] THEN {u} ELSE {u} \cup Unpause(u, p)
               : u \in Pick_startpos(moved, p)}

(* The teams on the way from p's along those who are queued for them:      *)
(* walk[n] is that of the player who waits for walk[n - 1].                *)
Walk(t, p) ==
    LET walk[n \in 0 .. MaxTeams + 1] ==
          IF n = 0 THEN t.team[p]
          ELSE IF walk[n - 1] = NotSet \/ t.swapper[walk[n - 1]] = NoId THEN NotSet
          ELSE t.team[t.swapper[walk[n - 1]]]
    IN  walk

(* Bug: only a swap of two is looked for. *)
ReachesDirect(t, p, x) == Walk(t, p)[1] = x

Reaches(t, p, x) == \E n \in 1 .. MaxTeams + 1 : Walk(t, p)[n] = x
Ends(t, p) == \E n \in 1 .. MaxTeams + 1 : Walk(t, p)[n] = NotSet

(* Bug: only those who have waited move, p keeps its place. *)
SwapOthers(t, p, x) ==
    [t EXCEPT !.team[t.swapper[t.team[p]]] = t.team[p],
              !.base[t.swapper[t.team[p]]] = t.base[p],
              !.swapper[t.team[p]] = NoId]

(* A cycle is found: everyone on the way gets the place of the one before. *)
SwapCycle(t, p, x) ==
    LET walk == Walk(t, p)
        len == CHOOSE n \in 1 .. MaxTeams + 1 :
                  walk[n] = x /\ \A k \in 1 .. n - 1 : walk[k] # x
        who == [n \in 0 .. len |-> IF n = 0 THEN p ELSE t.swapper[walk[n - 1]]]
        swap[n \in 0 .. len] ==
          IF n = 0 THEN t
          ELSE Set_swapper_state([swap[n - 1] EXCEPT
                  !.swapper[walk[n - 1]] = NoId,
                  !.team[who[n]] = walk[n - 1],
                  !.base[who[n]] = t.base[who[n - 1]]], who[n])
    IN  Set_swapper_state([swap[len] EXCEPT !.team[p] = x,
                                            !.base[p] = t.base[who[len]]], p)

(* Swap a paused player away from the full team. *)
SwapPaused(t, p, q) ==
    Set_swapper_state(
        Set_swapper_state([t EXCEPT !.team[p] = t.team[q], !.team[q] = t.team[p],
                                    !.base[p] = t.base[q], !.base[q] = t.base[p]],
                          q), p)

Queue(t, p, x) == [t EXCEPT !.swapper[x] = p]

Cmd_team(p, x) ==
    /\ Running
    /\ p \in players
    /\ LET t == Unqueue(Tables, p)
           idle == Idle(t, x)
       IN  IF ~MayAsk(t, p, x) THEN Become(t)
           ELSE IF HasRoom(t, x) THEN \E u \in Move(t, p, x) : Become(u)
           ELSE IF t.base[p] # NoBase /\ Reaches(t, p, x) THEN Become(SwapCycle(t, p, x))
           ELSE IF t.base[p] # NoBase /\ ~Ends(t, p) THEN Fault("hang")
           ELSE IF idle # {} THEN \E q \in idle : Become(SwapPaused(t, p, q))
           ELSE Become(Queue(t, p, x))

Next ==
    \/ \E h \in Human : Queue_loop(h) \/ Handle_login(h) \/ Destroy_connection(h)
    \/ \E r \in Robot : Robot_create(r) \/ Robot_delete(r)
    \/ \E p \in Human : Pause_player(p) \/ Player_toggle_pause(p)
    \/ \E p \in Human, b \in Base : Change_home(p, b)
    \/ \E p \in Player, x \in Team : Cmd_team(p, x)
    \/ Cmd_lock

Spec == Init /\ [][Next]_vars

-----------------------------------------------------------------------------
(* Properties.                                                             *)

MembersRight(x) ==
    NumMembers[x] = Cardinality({p \in players :
                        team[p] = x /\ home_base[p] # NoBase})

RobotsRight(x) == NumRobots[x] = Cardinality({r \in Robot \cap players : team[r] = x})

AllBased == \A p \in players : paused[p] \/ home_base[p] # NoBase

(* An operator has moved a robot to another team. *)
RobotMoves == \E r \in Robot \cap players \cap players' : team'[r] # team[r]

(* The counts that let players into a team are those of its members with a *)
(* base and of its robots.  They stay so whatever is paused, swapped or    *)
(* kicked, until somebody has come to play without a base; those of robots *)
(* only until an operator moves a robot, which Cmd_team does not count.    *)
CountsKeepPace ==
    [][AllBased /\ fault' = "none"
         => /\ (\A x \in Team : MembersRight(x)) => \A x \in Team : MembersRight(x)'
            /\ (\A x \in Team : RobotsRight(x)) /\ ~RobotMoves
                  => \A x \in Team : RobotsRight(x)']_vars

(* A base is home to one player, of the team it belongs to.                *)
OwnBases ==
    fault = "none" =>
    \A p \in players :
        home_base[p] # NoBase =>
            /\ home_base[p][1] = team[p]
            /\ \A q \in players \ {p} : home_base[q] # home_base[p]

WaitsFor(x) ==
    IF SwapperId[x] = NoId \/ home_base[SwapperId[x]] = NoBase THEN NotSet
    ELSE team[SwapperId[x]]

WaitInCircle == \E X \in SUBSET Team \ {{}} : \A x \in X : WaitsFor(x) \in X

(* Cmd_team swaps as soon as the wishes of players with a base close a     *)
(* cycle: as long as all who play have one, such players do not come to    *)
(* wait for each other in a circle, which the search for a cycle would not *)
(* leave.                                                                  *)
CyclesAreSwapped ==
    [][(AllBased /\ ~options.baselessPausing /\ ~WaitInCircle)
          => ~WaitInCircle']_vars

(* Swaps give everyone what was asked for: in a step only one player who   *)
(* does not pause moves to a team without having queued for it.            *)
SwapsAsAsked ==
    [][Cardinality({p \in players \cap players' :
            /\ team'[p] # team[p] /\ ~paused[p] /\ ~paused'[p]
            /\ SwapperId[team'[p]] # p}) <= 1]_vars

(* Handle_login lets h into a full team for the robots it is said to have. *)
TakenForKicked(h) ==
    /\ login[h] # NoLogin /\ Wants(login[h])
    /\ ~HasRoom(Tables, login[h]) /\ NumRobots[login[h]] > 0

(* Whoever is let in, moves or pauses no more finds a base as long as all  *)
(* who play have one, but for one case: a player logs in to a full team    *)
(* that has robots, which are taken to have been kicked.  Pick_startpos    *)
(* then ends the server.  With the settings by default that does not       *)
(* happen, wherever operators move the robots.                             *)
BaseForEveryone ==
    [][AllBased /\ (\A x \in Team : MembersRight(x)) /\ fault' = "end"
         => /\ \E h \in Human : TakenForKicked(h)
            /\ ~(options.restrictRobots /\ options.reserveRobotTeam)]_vars

(* "You don't have a base.  Select team to unpause": whoever plays has a   *)
(* base.  It does not hold: SwapCycle and SwapPaused ask no base of a      *)
(* player whose place they give away.                                      *)
BaseToUnpause == fault = "none" => AllBased
=============================================================================
