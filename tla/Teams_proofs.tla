---------------------------- MODULE Teams_proofs ----------------------------
(***************************************************************************)
(* Proofs about players, teams and bases, for any number of players, teams *)
(* and bases and any settings of the server.                               *)
(*                                                                         *)
(* The invariant is one of the tables as a value.  What a command does to  *)
(* the tables is told once for all the properties (Fine), and most of the  *)
(* proof is that each function does no more than that.                     *)
(***************************************************************************)
EXTENDS Teams, FiniteSetTheorems, WellFoundedInduction, TLAPS

TablesType ==
    [players : SUBSET Player, team : [Player -> Team],
     base : [Player -> Base \cup {NoBase}], paused : [Player -> BOOLEAN],
     prev : [Player -> Team], members : [Team -> Int], robots : [Team -> Int],
     swapper : [Team -> Player \cup {NoId}],
     login : [Human -> Team \cup {NotSet, NoLogin}],
     fault : {"none", "crash", "end", "hang"}]

(* A base is home to one player, of the team it belongs to. *)
OwnHomes(t) ==
    \A p \in t.players : t.base[p] # NoBase =>
        /\ t.base[p][1] = t.team[p]
        /\ \A q \in t.players \ {p} : t.base[q] # t.base[p]

(* Whoever is not there has no base, whoever logs in is not there yet. *)
Absent(t) ==
    /\ \A p \in Player \ t.players : t.base[p] = NoBase
    /\ \A h \in Human : t.login[h] # NoLogin => h \notin t.players

(* Whoever waits for a swap plays, and waits for one. *)
QueuedOnce(t) ==
    \A x \in Team : t.swapper[x] # NoId =>
        /\ t.swapper[x] \in t.players
        /\ \A y \in Team : t.swapper[y] = t.swapper[x] => y = x

(* Robots do not pause, and are counted in no team but theirs if they keep *)
(* to one.                                                                 *)
RobotsKeep(t) ==
    /\ \A r \in Robot : ~t.paused[r]
    /\ options.restrictRobots => \A x \in Team \ {options.robotTeam} : t.robots[x] <= 0

(* A pause keeps the base unless it is set to give it up. *)
NoReturn(t) == ~options.baselessPausing => \A p \in Player : t.prev[p] = 0

Sound(t) == OwnHomes(t) /\ Absent(t) /\ QueuedOnce(t) /\ RobotsKeep(t) /\ NoReturn(t)

(* The inductive invariant. *)
IInv == TypeOK /\ (fault = "none" => Sound(Tables))

-----------------------------------------------------------------------------
(* What a command may do to the tables.                                    *)

MembersOf(t, x) == {p \in t.players : t.team[p] = x /\ t.base[p] # NoBase}
RobotsOf(t, x) == {r \in Robot \cap t.players : t.team[r] = x}

Right(t) == \A x \in Team : t.members[x] = Cardinality(MembersOf(t, x))

Tallied(t) == \A x \in Team : t.robots[x] = Cardinality(RobotsOf(t, x))

(* No robot changes team. *)
RobotsStay(t, r) == \A o \in Robot \cap t.players \cap r.players : r.team[o] = t.team[o]

Based(t) == \A p \in t.players : t.paused[p] \/ t.base[p] # NoBase

Waits(t, x) ==
    IF t.swapper[x] = NoId \/ t.base[t.swapper[x]] = NoBase THEN NotSet
    ELSE t.team[t.swapper[x]]

Circle(t) == \E X \in SUBSET Team \ {{}} : \A x \in X : Waits(t, x) \in X

OneMoves(t, r, p) ==
    \A q \in (t.players \cap r.players) \ {p} :
        r.team[q] = t.team[q] \/ t.paused[q] \/ t.swapper[r.team[q]] = q

(* Somebody is about to log in to a full team, for robots it may have.     *)
Excused(t) ==
    /\ ~(options.restrictRobots /\ options.reserveRobotTeam)
    /\ \E h \in Human :
          /\ t.login[h] # NoLogin /\ Wants(t.login[h])
          /\ ~HasRoom(t, t.login[h]) /\ t.robots[t.login[h]] > 0

(* There is to be a base for everybody. *)
Settled(t) == Based(t) /\ Right(t) /\ ~Excused(t)

Fine(t, r) ==
    /\ r \in TablesType
    /\ r.fault = "none" => Sound(r)
    /\ Based(t) /\ Right(t) /\ r.fault = "none" => Right(r)
    /\ Based(t) /\ Tallied(t) /\ RobotsStay(t, r) /\ r.fault = "none" => Tallied(r)
    /\ Settled(t) => r.fault # "end"
    /\ \E p \in Player : OneMoves(t, r, p)
    /\ Based(t) /\ ~options.baselessPausing /\ ~Circle(t) => ~Circle(r)

-----------------------------------------------------------------------------
(* Tables.                                                                 *)

LEMMA Ids ==
    /\ NoId \notin Player /\ Human \subseteq Player /\ Robot \subseteq Player
    /\ \A h \in Human : h \notin Robot
    /\ 0 \in Team /\ NotSet \notin Team /\ NoLogin \notin Team /\ Team \subseteq Nat
    /\ NotSet # NoLogin /\ NotSet \in Int
  BY DisjointIds, TeamsOfBases DEF Player, Team, NotSet, NoLogin

LEMMA Fields ==
    ASSUME NEW t \in TablesType
    PROVE  /\ t.players \in SUBSET Player /\ t.team \in [Player -> Team]
           /\ t.base \in [Player -> Base \cup {NoBase}] /\ t.paused \in [Player -> BOOLEAN]
           /\ t.prev \in [Player -> Team] /\ t.members \in [Team -> Int]
           /\ t.robots \in [Team -> Int] /\ t.swapper \in [Team -> Player \cup {NoId}]
           /\ t.login \in [Human -> Team \cup {NotSet, NoLogin}]
           /\ t.fault \in {"none", "crash", "end", "hang"}
  BY DEF TablesType

LEMMA BaseIs ==
    /\ NoBase \notin Base
    /\ \A b \in Base : b[1] \in Team /\ b[2] \in 1 .. NumBases[b[1]] /\ b = <<b[1], b[2]>>
    /\ \A x \in Team : \A i \in 1 .. NumBases[x] : <<x, i>> \in Base
  BY DEF Base, NoBase

LEMMA MembersFinite ==
    ASSUME NEW t \in TablesType, NEW x
    PROVE  /\ IsFiniteSet(t.players) /\ IsFiniteSet(MembersOf(t, x)) /\ IsFiniteSet(RobotsOf(t, x))
           /\ Cardinality(MembersOf(t, x)) \in Nat /\ Cardinality(RobotsOf(t, x)) \in Nat
<1>1. IsFiniteSet(Player) /\ t.players \subseteq Player
  BY DisjointIds DEF TablesType
<1>2. IsFiniteSet(t.players)
  BY <1>1, FS_Subset
<1>3. MembersOf(t, x) \subseteq t.players /\ RobotsOf(t, x) \subseteq t.players
  BY DEF MembersOf, RobotsOf
<1>4. IsFiniteSet(MembersOf(t, x)) /\ IsFiniteSet(RobotsOf(t, x))
  BY <1>2, <1>3, FS_Subset
<1>5. QED
  BY <1>2, <1>4, FS_CardinalityType

(* What the functions of the tables return, field by field. *)

Unqueued(t, p, u) ==
    /\ u \in TablesType
    /\ u.players = t.players /\ u.team = t.team /\ u.base = t.base
    /\ u.paused = t.paused /\ u.prev = t.prev /\ u.members = t.members
    /\ u.robots = t.robots /\ u.login = t.login /\ u.fault = t.fault
    /\ u.swapper = [x \in Team |-> IF t.swapper[x] = p THEN NoId ELSE t.swapper[x]]

LEMMA UnqueueIs ==
    ASSUME NEW t \in TablesType, NEW p \in Player, NEW u, u = Unqueue(t, p)
    PROVE  Unqueued(t, p, u)
<1> USE DEF Unqueued
<1> DEFINE s == [x \in Team |-> IF t.swapper[x] = p THEN NoId ELSE t.swapper[x]]
<1>1. s \in [Team -> Player \cup {NoId}]
  BY DEF TablesType
<1>2. u = [t EXCEPT !.swapper = s]
  BY DEF Unqueue
<1> HIDE DEF s
<1>3. /\ u \in TablesType
      /\ u.players = t.players /\ u.team = t.team /\ u.base = t.base
      /\ u.paused = t.paused /\ u.prev = t.prev /\ u.members = t.members
      /\ u.robots = t.robots /\ u.login = t.login /\ u.fault = t.fault
      /\ u.swapper = s
  BY <1>1, <1>2 DEF TablesType
<1>4. QED
  BY <1>3 DEF s

Recounted(t, x, u) ==
    /\ u \in TablesType
    /\ u.players = t.players /\ u.team = t.team /\ u.base = t.base
    /\ u.paused = t.paused /\ u.prev = t.prev /\ u.swapper = t.swapper
    /\ u.robots = t.robots /\ u.login = t.login /\ u.fault = t.fault
    /\ u.members = [t.members EXCEPT ![x] = Cardinality(MembersOf(t, x))]

LEMMA RecountIs ==
    ASSUME NEW t \in TablesType, NEW x \in Team, NEW u, u = Recount(t, x)
    PROVE  Recounted(t, x, u)
<1> USE DEF Recounted
<1> DEFINE m == [t.members EXCEPT ![x] = Cardinality(MembersOf(t, x))]
<1>1. m \in [Team -> Int]
  BY MembersFinite DEF TablesType
<1>2. u = [t EXCEPT !.members = m]
  BY DEF Recount, MembersOf
<1> HIDE DEF m
<1>3. /\ u \in TablesType
      /\ u.players = t.players /\ u.team = t.team /\ u.base = t.base
      /\ u.paused = t.paused /\ u.prev = t.prev /\ u.swapper = t.swapper
      /\ u.robots = t.robots /\ u.login = t.login /\ u.fault = t.fault
      /\ u.members = m
  BY <1>1, <1>2 DEF TablesType
<1>4. QED
  BY <1>3 DEF m

Deleted(t, p, d) ==
    /\ d \in TablesType
    /\ d.players = t.players \ {p} /\ d.team = [t.team EXCEPT ![p] = 0]
    /\ d.base = [t.base EXCEPT ![p] = NoBase]
    /\ d.paused = [t.paused EXCEPT ![p] = FALSE] /\ d.prev = [t.prev EXCEPT ![p] = 0]
    /\ d.swapper = [x \in Team |-> IF t.swapper[x] = p THEN NoId ELSE t.swapper[x]]
    /\ d.login = t.login /\ d.fault = t.fault
    /\ d.members = [t.members EXCEPT ![t.team[p]] = Cardinality(MembersOf(d, t.team[p]))]
    /\ d.robots = [t.robots EXCEPT ![t.team[p]] =
                     @ - (IF t.base[p] # NoBase /\ p \in Robot THEN 1 ELSE 0)]

LEMMA DeleteIs ==
    ASSUME NEW t \in TablesType, NEW p \in Player, NEW d, d = Delete(t, p)
    PROVE  Deleted(t, p, d)
<1> USE DEF Deleted
<1> DEFINE based == t.base[p] # NoBase
           tm == t.team[p]
           q == Unqueue(t, p)
           m == [t.members EXCEPT ![tm] = @ - (IF based THEN 1 ELSE 0)]
           k == [t.robots EXCEPT ![tm] = @ - (IF based /\ p \in Robot THEN 1 ELSE 0)]
           tms == [t.team EXCEPT ![p] = 0]
           bs == [t.base EXCEPT ![p] = NoBase]
           ps == [t.paused EXCEPT ![p] = FALSE]
           prs == [t.prev EXCEPT ![p] = 0]
           u == [q EXCEPT !.players = t.players \ {p}, !.members = m, !.robots = k,
                          !.team = tms, !.base = bs, !.paused = ps, !.prev = prs]
<1>1. /\ q \in TablesType
      /\ q.players = t.players /\ q.team = t.team /\ q.base = t.base
      /\ q.paused = t.paused /\ q.prev = t.prev /\ q.members = t.members
      /\ q.robots = t.robots /\ q.login = t.login /\ q.fault = t.fault
      /\ q.swapper = [x \in Team |-> IF t.swapper[x] = p THEN NoId ELSE t.swapper[x]]
  <2>1. Unqueued(t, p, q)
    BY UnqueueIs
  <2>2. QED
    BY <2>1 DEF Unqueued
<1>2. tm \in Team
  BY DEF TablesType
<1>3. d = Recount(u, tm)
  <2>1. d = Recount([q EXCEPT !.players = @ \ {p},
                       !.members[tm] = @ - (IF based THEN 1 ELSE 0),
                       !.robots[tm] = @ - (IF based /\ p \in Robot THEN 1 ELSE 0),
                       !.team[p] = 0, !.base[p] = NoBase,
                       !.paused[p] = FALSE, !.prev[p] = 0], tm)
    BY DEF Delete
  <2>2. q.players = t.players /\ q.team = t.team /\ q.base = t.base /\ q.paused = t.paused
        /\ q.prev = t.prev /\ q.members = t.members /\ q.robots = t.robots
    BY <1>1
  <2>3. u = [q EXCEPT !.players = q.players \ {p},
               !.members = [q.members EXCEPT ![tm] = @ - (IF based THEN 1 ELSE 0)],
               !.robots = [q.robots EXCEPT ![tm] = @ - (IF based /\ p \in Robot THEN 1 ELSE 0)],
               !.team = [q.team EXCEPT ![p] = 0], !.base = [q.base EXCEPT ![p] = NoBase],
               !.paused = [q.paused EXCEPT ![p] = FALSE], !.prev = [q.prev EXCEPT ![p] = 0]]
    <3> HIDE DEF q, based, tm
    <3>1. QED
      BY <2>2
  <2> HIDE DEF q, based, tm, u
  <2>4. QED
    BY <2>1, <2>3
<1>4. /\ m \in [Team -> Int] /\ k \in [Team -> Int] /\ tms \in [Player -> Team]
      /\ bs \in [Player -> Base \cup {NoBase}] /\ ps \in [Player -> BOOLEAN]
      /\ prs \in [Player -> Team]
  <2>1. m \in [Team -> Int]
    <3>1. \A n \in Int : n - (IF based THEN 1 ELSE 0) \in Int
      OBVIOUS
    <3>2. t.members \in [Team -> Int]
      BY Fields
    <3> HIDE DEF based, tm
    <3>3. QED
      BY <1>2, <3>1, <3>2
  <2>2. k \in [Team -> Int]
    <3>1. \A n \in Int : n - (IF based /\ p \in Robot THEN 1 ELSE 0) \in Int
      OBVIOUS
    <3>2. t.robots \in [Team -> Int]
      BY Fields
    <3> HIDE DEF based, tm
    <3>3. QED
      BY <1>2, <3>1, <3>2
  <2>3. tms \in [Player -> Team] /\ bs \in [Player -> Base \cup {NoBase}]
    BY Ids, Fields
  <2>4. ps \in [Player -> BOOLEAN] /\ prs \in [Player -> Team]
    BY Ids, Fields
  <2>5. QED
    BY <2>1, <2>2, <2>3, <2>4
<1>5. t.players \ {p} \in SUBSET Player
  BY Fields
<1> HIDE DEF q, m, k, tms, bs, ps, prs
<1>6. /\ u \in TablesType
      /\ u.players = t.players \ {p} /\ u.team = tms /\ u.base = bs
      /\ u.paused = ps /\ u.prev = prs /\ u.members = m
      /\ u.robots = k /\ u.login = q.login /\ u.fault = q.fault
      /\ u.swapper = q.swapper
  BY <1>1, <1>4, <1>5 DEF TablesType
<1> HIDE DEF u
<1>7. /\ d \in TablesType
      /\ d.players = u.players /\ d.team = u.team /\ d.base = u.base
      /\ d.paused = u.paused /\ d.prev = u.prev /\ d.swapper = u.swapper
      /\ d.robots = u.robots /\ d.login = u.login /\ d.fault = u.fault
      /\ d.members = [u.members EXCEPT ![tm] = Cardinality(MembersOf(u, tm))]
  <2>1. u \in TablesType
    BY <1>6
  <2> HIDE DEF tm
  <2>2. Recounted(u, tm, d)
    BY <1>2, <1>3, <2>1, RecountIs
  <2>3. QED
    BY <2>2 DEF Recounted
<1>8. MembersOf(u, tm) = MembersOf(d, tm)
  BY <1>7 DEF MembersOf
<1>9. d.members = [t.members EXCEPT ![tm] = Cardinality(MembersOf(d, tm))]
  BY <1>6, <1>7, <1>8, Fields DEF m
<1>10. QED
  BY <1>1, <1>6, <1>7, <1>9 DEF k, tms, bs, ps, prs

IsPicked(t, p, u) ==
    /\ u \in TablesType
    /\ u.players = t.players /\ u.team = t.team /\ u.paused = t.paused
    /\ u.prev = t.prev /\ u.members = t.members /\ u.robots = t.robots
    /\ u.swapper = t.swapper /\ u.login = t.login
    /\ \/ FreeBases(t, p) = {} /\ u.fault = "end" /\ u.base = t.base
       \/ \E b \in FreeBases(t, p) :
             u.fault = t.fault /\ u.base = [t.base EXCEPT ![p] = b]

LEMMA PickIs ==
    ASSUME NEW t \in TablesType, NEW p \in Player, NEW u \in Pick_startpos(t, p)
    PROVE  IsPicked(t, p, u)
<1> USE DEF IsPicked
<1>1. CASE FreeBases(t, p) = {}
  <2>1. u = [t EXCEPT !.fault = "end"]
    BY <1>1 DEF Pick_startpos
  <2>2. QED
    BY <1>1, <2>1 DEF TablesType
<1>2. CASE FreeBases(t, p) # {}
  <2>1. PICK b \in FreeBases(t, p) : u = [t EXCEPT !.base[p] = b]
    BY <1>2 DEF Pick_startpos
  <2> DEFINE bs == [t.base EXCEPT ![p] = b]
  <2>2. u = [t EXCEPT !.base = bs]
    BY <2>1
  <2>3. bs \in [Player -> Base \cup {NoBase}]
    BY Fields DEF FreeBases
  <2> HIDE DEF bs
  <2>4. /\ u \in TablesType
        /\ u.players = t.players /\ u.team = t.team /\ u.paused = t.paused
        /\ u.prev = t.prev /\ u.members = t.members /\ u.robots = t.robots
        /\ u.swapper = t.swapper /\ u.login = t.login /\ u.fault = t.fault /\ u.base = bs
    BY <2>2, <2>3 DEF TablesType
  <2>5. QED
    BY <2>4 DEF bs
<1>3. QED
  BY <1>1, <1>2

Stated(t, p, u) ==
    /\ u \in TablesType
    /\ u.players = t.players /\ u.team = t.team /\ u.base = t.base
    /\ u.prev = t.prev /\ u.members = t.members /\ u.robots = t.robots
    /\ u.swapper = t.swapper /\ u.login = t.login /\ u.fault = t.fault
    /\ u.paused = t.paused \/ u.paused = [t.paused EXCEPT ![p] = FALSE]

LEMMA StateIs ==
    ASSUME NEW t \in TablesType, NEW p \in Player, NEW u, u = Set_swapper_state(t, p)
    PROVE  Stated(t, p, u)
<1> USE DEF Stated
<1> DEFINE ps == [t.paused EXCEPT ![p] = FALSE]
<1>1. ps \in [Player -> BOOLEAN]
  BY Fields
<1>2. u = [t EXCEPT !.paused = ps] \/ u = t
  BY DEF Set_swapper_state
<1> HIDE DEF ps
<1>3. CASE u = t
  BY <1>3
<1>4. CASE u = [t EXCEPT !.paused = ps]
  <2>1. /\ u \in TablesType
        /\ u.players = t.players /\ u.team = t.team /\ u.base = t.base
        /\ u.prev = t.prev /\ u.members = t.members /\ u.robots = t.robots
        /\ u.swapper = t.swapper /\ u.login = t.login /\ u.fault = t.fault
        /\ u.paused = ps
    BY <1>1, <1>4 DEF TablesType
  <2>2. QED
    BY <2>1 DEF ps
<1>5. QED
  BY <1>2, <1>3, <1>4

Unpaused(t, p, u) ==
    /\ u \in TablesType
    /\ u.players = t.players /\ u.team = t.team /\ u.base = t.base
    /\ u.prev = t.prev /\ u.members = t.members /\ u.robots = t.robots
    /\ u.swapper = t.swapper /\ u.login = t.login /\ u.fault = t.fault
    /\ u.paused = [t.paused EXCEPT ![p] = FALSE]

LEMMA PausedIs ==
    ASSUME NEW t \in TablesType, NEW p \in Player, NEW u, u = [t EXCEPT !.paused[p] = FALSE]
    PROVE  Unpaused(t, p, u)
<1> USE DEF Unpaused
<1> DEFINE ps == [t.paused EXCEPT ![p] = FALSE]
<1>1. ps \in [Player -> BOOLEAN]
  BY Fields
<1>2. u = [t EXCEPT !.paused = ps]
  OBVIOUS
<1> HIDE DEF ps
<1>3. /\ u \in TablesType
      /\ u.players = t.players /\ u.team = t.team /\ u.base = t.base
      /\ u.prev = t.prev /\ u.members = t.members /\ u.robots = t.robots
      /\ u.swapper = t.swapper /\ u.login = t.login /\ u.fault = t.fault
      /\ u.paused = ps
  BY <1>1, <1>2 DEF TablesType
<1>4. QED
  BY <1>3 DEF ps

-----------------------------------------------------------------------------
(* Bases.                                                                  *)

(* While a team has fewer members than bases, one of them is free.         *)
LEMMA FindBase ==
    ASSUME NEW t \in TablesType, OwnHomes(t), NEW p \in Player, NEW x \in Team,
           Cardinality(MembersOf(t, x) \ {p}) < NumBases[x]
    PROVE  \E b \in Base : b[1] = x /\ \A q \in t.players \ {p} : t.base[q] # b
<1>1. SUFFICES ASSUME \A b \in Base : b[1] = x => \E q \in t.players \ {p} : t.base[q] = b
               PROVE  FALSE
  OBVIOUS
<1> DEFINE M == MembersOf(t, x) \ {p}
           f == [q \in M |-> t.base[q][2]]
<1>2. IsFiniteSet(M) /\ Cardinality(M) \in Nat
  BY MembersFinite, FS_Subset, FS_CardinalityType
<1>3. ASSUME NEW q \in M PROVE t.base[q][2] \in 1 .. NumBases[x]
  <2>1. q \in t.players /\ t.team[q] = x /\ t.base[q] # NoBase /\ t.base[q] \in Base
    BY Fields DEF MembersOf
  <2>2. t.base[q][1] = x
    BY <2>1 DEF OwnHomes
  <2>3. QED
    BY <2>1, <2>2, BaseIs
<1>4. ASSUME NEW i \in 1 .. NumBases[x] PROVE \E q \in M : f[q] = i
  <2>1. <<x, i>> \in Base
    BY BaseIs
  <2>2. PICK q \in t.players \ {p} : t.base[q] = <<x, i>>
    BY <1>1, <2>1
  <2>3. t.base[q] # NoBase
    BY <2>1, <2>2, BaseIs
  <2>4. t.team[q] = x
    <3>1. t.base[q][1] = t.team[q]
      BY <2>2, <2>3 DEF OwnHomes
    <3>2. <<x, i>>[1] = x
      OBVIOUS
    <3>3. QED
      BY <2>2, <3>1, <3>2
  <2>5. q \in M
    BY <2>2, <2>3, <2>4 DEF MembersOf
  <2>6. f[q] = i
    BY <2>2, <2>5
  <2>7. QED
    BY <2>5, <2>6
<1>5. f \in Surjection(M, 1 .. NumBases[x])
  <2> HIDE DEF M
  <2>1. f \in [M -> 1 .. NumBases[x]]
    BY <1>3
  <2> HIDE DEF f
  <2>2. QED
    BY <1>4, <2>1 DEF Surjection
<1>6. NumBases[x] \in Nat
  BY TeamsOfBases
<1>7. Cardinality(1 .. NumBases[x]) = NumBases[x]
  BY <1>6, FS_Interval
<1> HIDE DEF f, M
<1>8. Cardinality(1 .. NumBases[x]) <= Cardinality(M)
  BY <1>2, <1>5, FS_Surjection
<1>9. QED
  BY <1>2, <1>6, <1>7, <1>8 DEF M

(* Fewer wishes close no circle. *)
LEMMA FewerWait ==
    ASSUME NEW t, NEW r, \A x \in Team : Waits(r, x) = Waits(t, x) \/ Waits(r, x) = NotSet,
           Circle(r)
    PROVE  Circle(t)
<1>1. PICK X \in SUBSET Team \ {{}} : \A x \in X : Waits(r, x) \in X
  BY DEF Circle
<1>2. \A x \in X : Waits(t, x) \in X
  BY <1>1, Ids
<1>3. QED
  BY <1>1, <1>2 DEF Circle

-----------------------------------------------------------------------------
(* One player gets a place.                                                *)

(* p comes to be in team x and, unless the server ends, has base b there.  *)
PlacedAt(t, r, p, x, b) ==
    /\ r \in TablesType
    /\ r.players = t.players \cup {p}
    /\ r.team = [t.team EXCEPT ![p] = x]
    /\ r.base = [t.base EXCEPT ![p] = b]
    /\ \A q \in Player \ {p} : r.paused[q] = t.paused[q]
    /\ p \in Robot => ~r.paused[p]
    /\ r.prev = t.prev /\ r.swapper = t.swapper
    /\ \A h \in Human : r.login[h] # NoLogin => t.login[h] # NoLogin /\ h # p

(* With the counts that go with it; that of robots is of those who come.   *)
CountedIn(t, r, p, x) ==
    \A y \in Team :
        r.members[y] = t.members[y] - (IF p \in MembersOf(t, y) THEN 1 ELSE 0)
                                    + (IF y = x THEN 1 ELSE 0)

RobotsIn(t, r, p, x) ==
    \A y \in Team :
        r.robots[y] = t.robots[y] + (IF y = x /\ p \in Robot \ t.players THEN 1 ELSE 0)

(* Nobody else has the base. *)
Vacant(t, p, x, b) ==
    b \in Base /\ b[1] = x /\ \A q \in t.players \ {p} : t.base[q] # b

LEMMA PlacedSound ==
    ASSUME NEW t \in TablesType, NEW r, NEW p \in Player, NEW x \in Team, NEW b,
           Sound(t), PlacedAt(t, r, p, x, b), Vacant(t, p, x, b), RobotsIn(t, r, p, x),
           p \in Robot \ t.players /\ options.restrictRobots => x = options.robotTeam
    PROVE  Sound(r)
<1> USE DEF PlacedAt
<1>1. /\ r.team[p] = x /\ r.base[p] = b
      /\ \A q \in Player \ {p} : r.team[q] = t.team[q] /\ r.base[q] = t.base[q]
  BY Fields
<1>2. t.players \subseteq Player /\ r.players \subseteq Player /\ r.players = t.players \cup {p}
  BY Fields
<1>3. OwnHomes(r)
  <2>1. ASSUME NEW q \in r.players, r.base[q] # NoBase
        PROVE  /\ r.base[q][1] = r.team[q]
               /\ \A o \in r.players \ {q} : r.base[o] # r.base[q]
    <3>1. CASE q = p
      BY <1>1, <1>2, <3>1 DEF Vacant
    <3>2. CASE q # p
      <4>1. q \in t.players /\ t.base[q] # NoBase /\ q \in Player \ {p}
        BY <1>1, <1>2, <2>1, <3>2
      <4>2. r.base[q][1] = r.team[q]
        BY <1>1, <4>1 DEF Sound, OwnHomes
      <4>3. ASSUME NEW o \in r.players \ {q} PROVE r.base[o] # r.base[q]
        <5>1. CASE o = p
          BY <1>1, <4>1, <5>1 DEF Vacant
        <5>2. CASE o # p
          BY <1>1, <1>2, <4>1, <5>2 DEF Sound, OwnHomes
        <5>3. QED
          BY <5>1, <5>2
      <4>4. QED
        BY <4>2, <4>3
    <3>3. QED
      BY <3>1, <3>2
  <2>2. QED
    BY <2>1 DEF OwnHomes
<1>4. Absent(r)
  BY <1>1, <1>2, Ids DEF Sound, Absent
<1>5. QueuedOnce(r)
  BY <1>2 DEF Sound, QueuedOnce
<1>6. RobotsKeep(r)
  <2>1. \A o \in Robot : ~r.paused[o]
    BY Ids DEF Sound, RobotsKeep
  <2>2. ASSUME options.restrictRobots, NEW y \in Team \ {options.robotTeam}
        PROVE  r.robots[y] <= 0
    <3>1. t.robots[y] <= 0
      BY <2>2 DEF Sound, RobotsKeep
    <3>2. r.robots[y] = t.robots[y] + 0
      BY <2>2 DEF RobotsIn
    <3>3. t.robots[y] \in Int
      BY Fields
    <3>4. QED
      BY <3>1, <3>2, <3>3
  <2>3. QED
    BY <2>1, <2>2 DEF RobotsKeep
<1>7. NoReturn(r)
  BY DEF Sound, NoReturn
<1>8. QED
  BY <1>3, <1>4, <1>5, <1>6, <1>7 DEF Sound

LEMMA PlacedRight ==
    ASSUME NEW t \in TablesType, NEW r, NEW p \in Player, NEW x \in Team, NEW b \in Base,
           PlacedAt(t, r, p, x, b), CountedIn(t, r, p, x), Right(t)
    PROVE  Right(r)
<1> USE DEF PlacedAt
<1>1. /\ r.team[p] = x /\ r.base[p] = b /\ b # NoBase
      /\ \A q \in Player \ {p} : r.team[q] = t.team[q] /\ r.base[q] = t.base[q]
  BY Fields, BaseIs
<1>2. t.players \subseteq Player /\ r.players \subseteq Player /\ r.players = t.players \cup {p}
  BY Fields
<1>3. SUFFICES ASSUME NEW y \in Team
               PROVE  r.members[y] = Cardinality(MembersOf(r, y))
  BY DEF Right
<1> DEFINE M == MembersOf(t, y)
<1>4. IsFiniteSet(M) /\ Cardinality(M) \in Nat /\ t.members[y] = Cardinality(M)
  BY MembersFinite DEF Right
<1>5. MembersOf(r, y) = (M \ {p}) \cup (IF y = x THEN {p} ELSE {})
  BY <1>1, <1>2 DEF MembersOf
<1>6. /\ IsFiniteSet(M \ {p})
      /\ Cardinality(M \ {p}) = Cardinality(M) - (IF p \in M THEN 1 ELSE 0)
      /\ Cardinality((M \ {p}) \cup {p}) = Cardinality(M \ {p}) + 1
  <2> HIDE DEF M
  <2>1. /\ IsFiniteSet(M \ {p})
        /\ Cardinality(M \ {p}) = IF p \in M THEN Cardinality(M) - 1 ELSE Cardinality(M)
    BY <1>4, FS_RemoveElement
  <2>2. Cardinality((M \ {p}) \cup {p}) = Cardinality(M \ {p}) + 1
    BY <2>1, FS_AddElement
  <2>3. QED
    BY <1>4, <2>1, <2>2
<1>7. r.members[y] = Cardinality(MembersOf(r, y))
  <2>1. r.members[y] = Cardinality(M) - (IF p \in M THEN 1 ELSE 0) + (IF y = x THEN 1 ELSE 0)
    BY <1>4 DEF CountedIn
  <2> HIDE DEF M
  <2>2. CASE y = x
    BY <1>4, <1>5, <1>6, <2>1, <2>2
  <2>3. CASE y # x
    <3>1. MembersOf(r, y) = M \ {p}
      BY <1>5, <2>3
    <3>2. QED
      BY <1>4, <1>6, <2>1, <2>3, <3>1
  <2>4. QED
    BY <2>2, <2>3
<1>8. QED
  BY <1>7

LEMMA PlacedTallied ==
    ASSUME NEW t \in TablesType, NEW r, NEW p \in Player, NEW x \in Team, NEW b,
           PlacedAt(t, r, p, x, b), RobotsIn(t, r, p, x), Tallied(t), RobotsStay(t, r)
    PROVE  Tallied(r)
<1> USE DEF PlacedAt
<1>1. r.team[p] = x /\ \A q \in Player \ {p} : r.team[q] = t.team[q]
  BY Fields
<1>2. t.players \subseteq Player /\ r.players = t.players \cup {p}
  BY Fields
<1>3. SUFFICES ASSUME NEW y \in Team
               PROVE  r.robots[y] = Cardinality(RobotsOf(r, y))
  BY DEF Tallied
<1>4. /\ IsFiniteSet(RobotsOf(t, y)) /\ Cardinality(RobotsOf(t, y)) \in Nat
      /\ t.robots[y] = Cardinality(RobotsOf(t, y))
  BY MembersFinite DEF Tallied
<1>5. CASE y = x /\ p \in Robot \ t.players
  <2>1. RobotsOf(r, y) = RobotsOf(t, y) \cup {p} /\ p \notin RobotsOf(t, y)
    BY <1>1, <1>2, <1>5 DEF RobotsOf
  <2>2. r.robots[y] = t.robots[y] + 1
    BY <1>5 DEF RobotsIn
  <2>3. Cardinality(RobotsOf(r, y)) = Cardinality(RobotsOf(t, y)) + 1
    <3> DEFINE S == RobotsOf(t, y)
    <3>1. IsFiniteSet(S) /\ p \notin S /\ RobotsOf(r, y) = S \cup {p}
      BY <1>4, <2>1
    <3> HIDE DEF S
    <3>2. Cardinality(S \cup {p}) = Cardinality(S) + 1
      BY <3>1, FS_AddElement
    <3>3. QED
      BY <3>1, <3>2 DEF S
  <2>4. QED
    BY <1>4, <2>2, <2>3
<1>6. CASE ~(y = x /\ p \in Robot \ t.players)
  <2>1. RobotsOf(r, y) = RobotsOf(t, y)
    BY <1>1, <1>2, <1>6 DEF RobotsOf, RobotsStay
  <2>2. r.robots[y] = t.robots[y] + 0
    BY <1>6 DEF RobotsIn
  <2>3. QED
    BY <1>4, <2>1, <2>2
<1>7. QED
  BY <1>5, <1>6

(* The count of robots is left alone where no robots come or go.           *)
LEMMA StayTallied ==
    ASSUME NEW t \in TablesType, NEW r, r.robots = t.robots, Tallied(t), RobotsStay(t, r),
           Robot \cap r.players = Robot \cap t.players
    PROVE  Tallied(r)
<1>1. \A y \in Team : RobotsOf(r, y) = RobotsOf(t, y)
  BY DEF RobotsOf, RobotsStay
<1>2. QED
  BY <1>1 DEF Tallied
(* Nothing about the others changes, and p, who may lose or get a base,    *)
(* does not wait for anybody.                                              *)
OthersStay(t, r, p) ==
    /\ \A q \in Player \ {p} : r.team[q] = t.team[q] /\ r.base[q] = t.base[q]
    /\ r.swapper = t.swapper
    /\ options.baselessPausing \/ \A y \in Team : t.swapper[y] # p

LEMMA StayFine ==
    ASSUME NEW t \in TablesType, NEW r \in TablesType, NEW p \in Player, OthersStay(t, r, p)
    PROVE  /\ OneMoves(t, r, p)
           /\ ~options.baselessPausing /\ Circle(r) => Circle(t)
<1>1. OneMoves(t, r, p)
  BY Fields DEF OneMoves, OthersStay
<1>2. ASSUME ~options.baselessPausing, NEW x \in Team PROVE Waits(r, x) = Waits(t, x)
  <2>1. CASE t.swapper[x] = NoId
    BY <2>1 DEF Waits, OthersStay
  <2>2. CASE t.swapper[x] # NoId
    <3>1. t.swapper[x] \in Player \ {p}
      BY <1>2, <2>2, Fields DEF OthersStay
    <3>2. QED
      BY <3>1 DEF Waits, OthersStay
  <2>3. QED
    BY <2>1, <2>2
<1>3. QED
  BY <1>1, <1>2, FewerWait

(* p gets a place, unless the server ends. *)
Placing(t, r, p, x, b) ==
    /\ PlacedAt(t, r, p, x, b)
    /\ options.baselessPausing \/ \A y \in Team : t.swapper[y] # p
    /\ Right(t) => CountedIn(t, r, p, x)
    /\ RobotsIn(t, r, p, x)
    /\ p \in Robot \ t.players /\ options.restrictRobots => x = options.robotTeam
    /\ r.fault = "none" => Vacant(t, p, x, b)
    /\ r.fault = "end" => ~Settled(t)

LEMMA PlacedFine ==
    ASSUME NEW t \in TablesType, NEW r, NEW p \in Player, NEW x \in Team, NEW b,
           Sound(t), Placing(t, r, p, x, b)
    PROVE  Fine(t, r)
<1> USE DEF Placing
<1>1. r \in TablesType
  BY DEF PlacedAt
<1>2. OthersStay(t, r, p)
  BY Fields DEF PlacedAt, OthersStay
<1>3. OneMoves(t, r, p) /\ (~options.baselessPausing /\ Circle(r) => Circle(t))
  BY <1>1, <1>2, StayFine
<1>4. r.fault = "none" => Sound(r) /\ (Right(t) => Right(r))
  BY PlacedSound, PlacedRight DEF Vacant
<1>5. Tallied(t) /\ RobotsStay(t, r) => Tallied(r)
  BY PlacedTallied
<1>6. QED
  BY <1>1, <1>3, <1>4, <1>5 DEF Fine

(* The server ends, or hangs up on a null pointer. *)
LEMMA FaultFine ==
    ASSUME NEW t \in TablesType, NEW r \in TablesType, NEW p \in Player, OthersStay(t, r, p),
           r.fault # "none", r.fault = "end" => ~Settled(t)
    PROVE  Fine(t, r)
  BY StayFine DEF Fine

(* Nobody moves, a human pauses or plays again. *)
LEMMA PausedFine ==
    ASSUME NEW t \in TablesType, NEW r \in TablesType, Sound(t), NEW p \in Human, r.fault # "end",
           r.players = t.players, r.team = t.team, r.base = t.base, r.prev = t.prev,
           r.members = t.members, r.robots = t.robots, r.login = t.login,
           \A x \in Team : r.swapper[x] = t.swapper[x] \/ r.swapper[x] = NoId,
           \A q \in Player \ {p} : r.paused[q] = t.paused[q]
    PROVE  Fine(t, r)
<1>1. OneMoves(t, r, p) /\ p \in Player
  BY Ids, Fields DEF OneMoves
<1>2. \A x \in Team : Waits(r, x) = Waits(t, x) \/ Waits(r, x) = NotSet
  BY DEF Waits
<1>3. Circle(r) => Circle(t)
  BY <1>2, FewerWait
<1>4. Sound(r)
  <2>1. OwnHomes(r) /\ Absent(r) /\ NoReturn(r)
    BY DEF Sound, OwnHomes, Absent, NoReturn
  <2>2. QueuedOnce(r)
    BY DEF Sound, QueuedOnce
  <2>3. RobotsKeep(r)
    BY Ids DEF Sound, RobotsKeep
  <2>4. QED
    BY <2>1, <2>2, <2>3 DEF Sound
<1>5. Right(t) => Right(r)
  BY DEF Right, MembersOf
<1>6. Tallied(t) /\ RobotsStay(t, r) => Tallied(r)
  BY StayTallied
<1>7. QED
  BY <1>1, <1>3, <1>4, <1>5, <1>6 DEF Fine

LEMMA NothingFine ==
    ASSUME NEW t \in TablesType, Sound(t), t.fault = "none", NEW p \in Player
    PROVE  Fine(t, t)
  BY DEF Fine, OneMoves

(* What Pick_startpos finds. *)
FindsBase(t, p, x, u) ==
    \E b : /\ u.base = [t.base EXCEPT ![p] = b]
           /\ \/ u.fault = "none" /\ Vacant(t, p, x, b)
              \/ /\ u.fault = "end" /\ b = t.base[p]
                 /\ Right(t) => t.members[x] >= NumBases[x]

LEMMA Picked ==
    ASSUME NEW t \in TablesType, Sound(t), NEW m \in TablesType, NEW p \in Player, NEW x \in Team,
           m.team = [t.team EXCEPT ![p] = x], m.base = t.base, m.fault = "none",
           t.players \subseteq m.players, m.players \subseteq t.players \cup {p},
           NEW u \in Pick_startpos(m, p)
    PROVE  FindsBase(t, p, x, u)
<1> USE DEF FindsBase
<1>1. IsPicked(m, p, u)
  BY PickIs
<1>2. m.team[p] = x
  BY Fields
<1>3. \A b : b \in FreeBases(m, p) <=> Vacant(t, p, x, b)
  BY <1>2 DEF FreeBases, Vacant
<1>4. CASE FreeBases(m, p) = {} /\ u.fault = "end" /\ u.base = m.base
  <2>1. ASSUME Right(t) PROVE t.members[x] >= NumBases[x]
    <3> DEFINE M == MembersOf(t, x)
    <3>1. IsFiniteSet(M) /\ Cardinality(M) \in Nat /\ t.members[x] = Cardinality(M)
      BY <2>1, MembersFinite DEF Right
    <3>2. Cardinality(M \ {p}) <= Cardinality(M) /\ Cardinality(M \ {p}) \in Nat
      <4> HIDE DEF M
      <4>1. QED
        BY <3>1, FS_Subset, FS_CardinalityType
    <3>3. ~(Cardinality(M \ {p}) < NumBases[x])
      BY <1>3, <1>4, FindBase DEF Vacant, Sound
    <3>4. NumBases[x] \in Nat
      BY TeamsOfBases
    <3>5. QED
      BY <3>1, <3>2, <3>3, <3>4
  <2>2. u.base = [t.base EXCEPT ![p] = t.base[p]]
    BY <1>4, Fields
  <2>3. QED
    BY <1>4, <2>1, <2>2
<1>5. CASE \E b \in FreeBases(m, p) : u.fault = m.fault /\ u.base = [m.base EXCEPT ![p] = b]
  BY <1>3, <1>5
<1>6. QED
  BY <1>1, <1>4, <1>5 DEF IsPicked

-----------------------------------------------------------------------------
(* Pauses and changes of team.                                             *)

Joined(t, p, x, m) ==
    /\ m \in TablesType
    /\ m.players = t.players /\ m.base = t.base /\ m.paused = t.paused
    /\ m.prev = t.prev /\ m.robots = t.robots
    /\ m.swapper = t.swapper /\ m.login = t.login /\ m.fault = t.fault
    /\ m.team = [t.team EXCEPT ![p] = x]
    /\ m.members = [t.members EXCEPT ![x] = @ + 1]

LEMMA JoinIs ==
    ASSUME NEW t \in TablesType, NEW p \in Player, NEW x \in Team,
           NEW m, m = [t EXCEPT !.team[p] = x, !.members[x] = @ + 1]
    PROVE  Joined(t, p, x, m)
<1> USE DEF Joined
<1> DEFINE tms == [t.team EXCEPT ![p] = x]
           mbs == [t.members EXCEPT ![x] = @ + 1]
<1>1. tms \in [Player -> Team] /\ mbs \in [Team -> Int]
  BY Fields
<1>2. m = [t EXCEPT !.team = tms, !.members = mbs]
  OBVIOUS
<1> HIDE DEF tms, mbs
<1>3. /\ m \in TablesType
      /\ m.players = t.players /\ m.base = t.base /\ m.paused = t.paused
      /\ m.prev = t.prev /\ m.robots = t.robots
      /\ m.swapper = t.swapper /\ m.login = t.login /\ m.fault = t.fault
      /\ m.team = tms /\ m.members = mbs
  BY <1>1, <1>2 DEF TablesType
<1>4. QED
  BY <1>3 DEF tms, mbs

(* The way into a team, by a pause that ends or by Cmd_team. *)
Joining(t, m, s, p, x) ==
    /\ m \in TablesType /\ s \in TablesType
    /\ m = [t EXCEPT !.team[p] = x, !.members[x] = @ + 1]
    /\ s = Set_swapper_state(m, p)

(* Pauses end in a place of one's own, or go on. *)
Returns(t, m, s, u, p, r) ==
    /\ t.base[p] = NoBase /\ t.prev[p] > 0 /\ HasRoom(t, t.prev[p])
    /\ Joining(t, m, s, p, t.prev[p])
    /\ u \in Pick_startpos(s, p)
    /\ r = [u EXCEPT !.paused[p] = FALSE]

LEMMA UnpauseIs ==
    ASSUME NEW t \in TablesType, NEW p \in Player, NEW r \in Unpause(t, p)
    PROVE  \/ t.base[p] # NoBase /\ r = [t EXCEPT !.paused[p] = FALSE]
           \/ t.base[p] = NoBase /\ r = t
           \/ \E m, s, u : Returns(t, m, s, u, p, r)
<1>1. CASE t.base[p] # NoBase
  BY <1>1 DEF Unpause
<1>2. CASE t.base[p] = NoBase /\ ~(t.prev[p] > 0 /\ HasRoom(t, t.prev[p]))
  BY <1>2 DEF Unpause
<1>3. CASE t.base[p] = NoBase /\ t.prev[p] > 0 /\ HasRoom(t, t.prev[p])
  <2> DEFINE m == [t EXCEPT !.team[p] = t.prev[p], !.members[t.prev[p]] = @ + 1]
             s == Set_swapper_state(m, p)
  <2>1. \E u \in Pick_startpos(s, p) : r = [u EXCEPT !.paused[p] = FALSE]
    BY <1>3 DEF Unpause
  <2>2. t.prev[p] \in Team
    BY Fields
  <2>3. m \in TablesType
    <3>1. Joined(t, p, t.prev[p], m)
      BY <2>2, JoinIs
    <3>2. QED
      BY <3>1 DEF Joined
  <2>4. s \in TablesType
    <3> HIDE DEF m
    <3>1. Stated(m, p, s)
      BY <2>3, StateIs
    <3>2. QED
      BY <3>1 DEF Stated
  <2> HIDE DEF s
  <2>5. s = Set_swapper_state(m, p)
    BY DEF s
  <2>6. m = [t EXCEPT !.team[p] = t.prev[p], !.members[t.prev[p]] = @ + 1]
    OBVIOUS
  <2> HIDE DEF m
  <2>7. PICK u \in Pick_startpos(s, p) : r = [u EXCEPT !.paused[p] = FALSE]
    BY <2>1
  <2>8. Returns(t, m, s, u, p, r)
    BY <1>3, <2>3, <2>4, <2>5, <2>6, <2>7 DEF Returns, Joining
  <2>9. QED
    BY <2>8
<1>4. QED
  BY <1>1, <1>2, <1>3

HasJoined(t, s, p, x, u) ==
    /\ u \in TablesType
    /\ u.players = t.players /\ u.team = [t.team EXCEPT ![p] = x]
    /\ \A q \in Player \ {p} : u.paused[q] = t.paused[q]
    /\ t.paused[p] = FALSE => u.paused[p] = FALSE
    /\ u.prev = t.prev /\ u.members = [t.members EXCEPT ![x] = @ + 1]
    /\ u.robots = t.robots /\ u.swapper = t.swapper /\ u.login = t.login
    /\ s.team = [t.team EXCEPT ![p] = x] /\ s.base = t.base
    /\ s.fault = t.fault /\ s.players = t.players

LEMMA JoiningIs ==
    ASSUME NEW t \in TablesType, NEW p \in Player, NEW x \in Team, NEW m, NEW s,
           Joining(t, m, s, p, x), NEW u \in Pick_startpos(s, p)
    PROVE  HasJoined(t, s, p, x, u)
<1> USE DEF HasJoined
<1>1. Joined(t, p, x, m)
  BY JoinIs DEF Joining
<1>2. Stated(m, p, s)
  BY StateIs DEF Joining
<1>3. IsPicked(s, p, u)
  BY PickIs DEF Joining
<1> USE DEF Joined, Stated, IsPicked
<1>4. \A q \in Player \ {p} : u.paused[q] = t.paused[q]
  BY <1>1, <1>2, <1>3, Fields
<1>5. t.paused[p] = FALSE => u.paused[p] = FALSE
  BY <1>1, <1>2, <1>3, Fields
<1>6. QED
  BY <1>1, <1>2, <1>3, <1>4, <1>5

LEMMA UnpauseFine ==
    ASSUME NEW t \in TablesType, Sound(t), t.fault = "none", NEW p \in Human,
           p \in t.players, NEW r \in Unpause(t, p)
    PROVE  Fine(t, r)
<1>1. p \in Player
  BY Ids
<1>2. CASE t.base[p] # NoBase /\ r = [t EXCEPT !.paused[p] = FALSE]
  <2>1. Unpaused(t, p, r)
    BY <1>1, <1>2, PausedIs
  <2> USE DEF Unpaused
  <2>2. \A q \in Player \ {p} : r.paused[q] = t.paused[q]
    BY <2>1, Fields
  <2>3. r.fault # "end"
    BY <2>1
  <2>4. QED
    BY <2>1, <2>2, <2>3, PausedFine
<1>3. CASE t.base[p] = NoBase /\ r = t
  BY <1>1, <1>3, NothingFine
<1>4. ASSUME NEW m, NEW s, NEW u, Returns(t, m, s, u, p, r)
      PROVE  Fine(t, r)
  <2> USE <1>4 DEF Returns
  <2> DEFINE x == t.prev[p]
  <2>1. x \in Team /\ options.baselessPausing
    BY <1>1, Fields, Ids DEF Sound, NoReturn
  <2>2. Joining(t, m, s, p, x) /\ m \in TablesType /\ s \in TablesType
    BY DEF Joining
  <2> HIDE DEF x
  <2>3. HasJoined(t, s, p, x, u)
    <3>1. u \in Pick_startpos(s, p)
      OBVIOUS
    <3> HIDE <1>4
    <3>2. QED
      BY <1>1, <2>1, <2>2, <3>1, JoiningIs
  <2> USE DEF HasJoined
  <2>4. PICK b : /\ u.base = [t.base EXCEPT ![p] = b]
                 /\ \/ u.fault = "none" /\ Vacant(t, p, x, b)
                    \/ /\ u.fault = "end" /\ b = t.base[p]
                       /\ Right(t) => t.members[x] >= NumBases[x]
    <3>1. FindsBase(t, p, x, u)
      <4>1. u \in Pick_startpos(s, p)
        OBVIOUS
      <4> HIDE <1>4
      <4>2. QED
        BY <1>1, <2>1, <2>2, <2>3, <4>1, Picked
    <3>2. QED
      BY <3>1 DEF FindsBase
  <2>5. Unpaused(u, p, r)
    <3>1. r = [u EXCEPT !.paused[p] = FALSE]
      OBVIOUS
    <3> HIDE <1>4
    <3>2. QED
      BY <1>1, <2>3, <3>1, PausedIs
  <2> USE DEF Unpaused
  <2>6. \A q \in Player \ {p} : r.paused[q] = t.paused[q]
    BY <2>3, <2>5, Fields
  <2>7. PlacedAt(t, r, p, x, b)
    <3>1. r.players = t.players \cup {p}
      BY <2>3, <2>5
    <3>2. \A h \in Human : r.login[h] # NoLogin => t.login[h] # NoLogin /\ h # p
      BY <2>3, <2>5 DEF Sound, Absent
    <3>3. QED
      BY <2>3, <2>4, <2>5, <2>6, <3>1, <3>2, Ids DEF PlacedAt
  <2>8. CountedIn(t, r, p, x) /\ RobotsIn(t, r, p, x)
    <3>1. \A y \in Team : p \notin MembersOf(t, y)
      BY DEF MembersOf
    <3>2. ASSUME NEW y \in Team
          PROVE  r.members[y] = t.members[y] - 0 + (IF y = x THEN 1 ELSE 0) /\ r.robots[y] = t.robots[y] + 0
      BY <2>3, <2>5, Fields
    <3>3. p \notin Robot
      BY Ids
    <3>4. QED
      BY <3>1, <3>2, <3>3 DEF CountedIn, RobotsIn
  <2>9. t.members[x] < NumBases[x]
    BY DEF HasRoom, x
  <2>10. r.fault = "end" => ~Settled(t)
    BY <2>1, <2>4, <2>5, <2>9, Fields, TeamsOfBases DEF Settled
  <2>11. QED
    <3>1. Placing(t, r, p, x, b)
      BY <2>1, <2>4, <2>5, <2>7, <2>8, <2>10, Ids DEF Placing
    <3>2. QED
      BY <1>1, <2>1, <3>1, PlacedFine
<1>5. QED
  BY <1>1, <1>2, <1>3, <1>4, UnpauseIs

(* The team has one member with a base less. *)
LEMMA OneLess ==
    ASSUME NEW t \in TablesType, NEW x, NEW p \in MembersOf(t, x)
    PROVE  Cardinality(MembersOf(t, x) \ {p}) = Cardinality(MembersOf(t, x)) - 1
<1> DEFINE M == MembersOf(t, x)
<1>1. IsFiniteSet(M) /\ Cardinality(M) \in Nat /\ p \in M
  BY MembersFinite
<1> HIDE DEF M
<1>2. Cardinality(M \ {p}) = Cardinality(M) - 1
  BY <1>1, FS_RemoveElement
<1>3. QED
  BY <1>2 DEF M

(* A pause gives up the base. *)
GivesUp(t, r, p) ==
    /\ r \in TablesType
    /\ r.players = t.players /\ r.team = [t.team EXCEPT ![p] = 0]
    /\ r.base = [t.base EXCEPT ![p] = NoBase]
    /\ \A q \in Player \ {p} : r.paused[q] = t.paused[q]
    /\ r.members = [t.members EXCEPT ![t.team[p]] = @ - 1]
    /\ r.robots = t.robots /\ r.login = t.login /\ r.fault = t.fault
    /\ \A x \in Team : r.swapper[x] = t.swapper[x] \/ r.swapper[x] = NoId

LEMMA GivesUpFine ==
    ASSUME NEW t \in TablesType, NEW r, NEW p \in Human, p \in t.players, Sound(t),
           t.fault = "none", GivesUp(t, r, p), options.baselessPausing, t.base[p] # NoBase
    PROVE  Fine(t, r)
<1> USE DEF GivesUp
<1>1. p \in Player /\ p \notin Robot /\ t.players \subseteq Player
  BY Ids, Fields
<1>2. /\ r.team[p] = 0 /\ r.base[p] = NoBase
      /\ \A q \in Player \ {p} : r.team[q] = t.team[q] /\ r.base[q] = t.base[q]
  BY <1>1, Fields
<1>3. OneMoves(t, r, p)
  BY <1>1, <1>2 DEF OneMoves
<1>4. Sound(r)
  <2>1. OwnHomes(r)
    BY <1>1, <1>2 DEF Sound, OwnHomes
  <2>2. Absent(r) /\ NoReturn(r)
    BY <1>1, <1>2 DEF Sound, Absent, NoReturn
  <2>3. QueuedOnce(r)
    BY DEF Sound, QueuedOnce
  <2>4. RobotsKeep(r)
    BY <1>1, <1>2, Ids DEF Sound, RobotsKeep
  <2>5. QED
    BY <2>1, <2>2, <2>3, <2>4 DEF Sound
<1>5. ASSUME Right(t) PROVE Right(r)
  <2>1. SUFFICES ASSUME NEW y \in Team
                 PROVE  r.members[y] = Cardinality(MembersOf(r, y))
    BY DEF Right
  <2>3. MembersOf(r, y) = MembersOf(t, y) \ {p}
    BY <1>1, <1>2 DEF MembersOf
  <2>4. CASE y = t.team[p]
    <3>1. p \in MembersOf(t, y)
      BY <2>4 DEF MembersOf
    <3>2. r.members[y] = t.members[y] - 1
      BY <2>4, Fields
    <3>3. QED
      BY <1>5, <2>3, <3>1, <3>2, OneLess DEF Right
  <2>5. CASE y # t.team[p]
    <3>1. MembersOf(t, y) \ {p} = MembersOf(t, y)
      BY <2>5 DEF MembersOf
    <3>2. r.members[y] = t.members[y]
      BY <2>5, Fields
    <3>3. QED
      BY <1>5, <2>3, <3>1, <3>2 DEF Right
  <2>6. QED
    BY <2>4, <2>5
<1>6. Tallied(t) /\ RobotsStay(t, r) => Tallied(r)
  BY StayTallied
<1>7. QED
  BY <1>1, <1>3, <1>4, <1>5, <1>6 DEF Fine

LEMMA PauseOnFine ==
    ASSUME NEW t \in TablesType, Sound(t), t.fault = "none", NEW p \in Human,
           p \in t.players, NEW r, r = PauseOn(t, p)
    PROVE  Fine(t, r)
<1> DEFINE tm == t.team[p]
           sw == [t.swapper EXCEPT ![tm] = NoId]
           ps == [t.paused EXCEPT ![p] = TRUE]
           mbs == [t.members EXCEPT ![tm] = @ - 1]
           prs == [t.prev EXCEPT ![p] = tm]
           tms == [t.team EXCEPT ![p] = 0]
           bs == [t.base EXCEPT ![p] = NoBase]
           on == [t EXCEPT !.swapper = sw, !.paused = ps]
           off == [t EXCEPT !.swapper = sw, !.paused = ps, !.members = mbs, !.prev = prs,
                            !.team = tms, !.base = bs]
<1>1. p \in Player /\ tm \in Team
  BY Ids, Fields
<1>2. /\ sw \in [Team -> Player \cup {NoId}] /\ ps \in [Player -> BOOLEAN]
      /\ tms \in [Player -> Team] /\ bs \in [Player -> Base \cup {NoBase}]
  BY <1>1, Ids, Fields
<1>3. mbs \in [Team -> Int] /\ prs \in [Player -> Team]
  BY <1>1, Fields
<1>4. /\ \A x \in Team : sw[x] = t.swapper[x] \/ sw[x] = NoId
      /\ \A q \in Player \ {p} : ps[q] = t.paused[q]
  BY Fields
<1>5. CASE ~options.baselessPausing
  <2>1. r = Unqueue(on, p)
    BY <1>5 DEF PauseOn
  <2> HIDE DEF sw, ps, tm
  <2>2. /\ on \in TablesType
        /\ on.players = t.players /\ on.team = t.team /\ on.base = t.base /\ on.prev = t.prev
        /\ on.members = t.members /\ on.robots = t.robots /\ on.login = t.login
        /\ on.fault = t.fault /\ on.swapper = sw /\ on.paused = ps
    BY <1>2 DEF TablesType
  <2> HIDE DEF on
  <2>3. Unqueued(on, p, r)
    BY <1>1, <2>1, <2>2, UnqueueIs
  <2> USE DEF Unqueued
  <2>4. \A x \in Team : r.swapper[x] = t.swapper[x] \/ r.swapper[x] = NoId
    BY <1>4, <2>2, <2>3
  <2>5. \A q \in Player \ {p} : r.paused[q] = t.paused[q]
    BY <1>4, <2>2, <2>3
  <2>6. r.fault # "end"
    BY <2>2, <2>3
  <2>7. QED
    BY <2>2, <2>3, <2>4, <2>5, <2>6, PausedFine
<1>6. CASE options.baselessPausing /\ t.base[p] = NoBase
  <2>1. r = [t EXCEPT !.fault = "crash"]
    BY <1>6 DEF PauseOn
  <2>2. r \in TablesType /\ r.fault = "crash"
    BY <2>1 DEF TablesType
  <2>3. OthersStay(t, r, p)
    BY <1>6, <2>1, Fields DEF OthersStay
  <2>4. QED
    BY <1>1, <2>2, <2>3, FaultFine
<1>7. CASE options.baselessPausing /\ t.base[p] # NoBase
  <2>1. r = Unqueue(off, p)
    <3>1. r = Unqueue([[t EXCEPT !.swapper[tm] = NoId, !.paused[p] = TRUE] EXCEPT
                         !.members[tm] = @ - 1, !.prev[p] = tm,
                         !.team[p] = 0, !.base[p] = NoBase], p)
      BY <1>7 DEF PauseOn
    <3>2. [[t EXCEPT !.swapper[tm] = NoId, !.paused[p] = TRUE] EXCEPT
             !.members[tm] = @ - 1, !.prev[p] = tm,
             !.team[p] = 0, !.base[p] = NoBase] = off
      BY DEF TablesType
    <3>3. QED
      BY <3>1, <3>2
  <2> HIDE DEF sw, ps, tms, bs, mbs, prs
  <2>2. /\ off \in TablesType
        /\ off.players = t.players /\ off.team = tms /\ off.base = bs /\ off.prev = prs
        /\ off.members = mbs /\ off.robots = t.robots /\ off.login = t.login
        /\ off.fault = t.fault /\ off.swapper = sw /\ off.paused = ps
    BY <1>2, <1>3 DEF TablesType
  <2> HIDE DEF off
  <2>3. Unqueued(off, p, r)
    BY <1>1, <2>1, <2>2, UnqueueIs
  <2> USE DEF Unqueued
  <2>4. \A x \in Team : r.swapper[x] = t.swapper[x] \/ r.swapper[x] = NoId
    BY <1>4, <2>2, <2>3
  <2>5. \A q \in Player \ {p} : r.paused[q] = t.paused[q]
    BY <1>4, <2>2, <2>3
  <2>6. GivesUp(t, r, p)
    BY <2>2, <2>3, <2>4, <2>5 DEF GivesUp, tms, bs, mbs
  <2> HIDE DEF Unqueued
  <2>7. QED
    BY <1>7, <2>6, GivesUpFine
<1>8. QED
  BY <1>5, <1>6, <1>7

(* A team has been left. *)
Left(t, p, l) ==
    /\ l \in TablesType
    /\ l.players = t.players /\ l.team = t.team /\ l.base = t.base /\ l.paused = t.paused
    /\ l.prev = t.prev /\ l.robots = t.robots /\ l.swapper = t.swapper
    /\ l.login = t.login /\ l.fault = t.fault
    /\ l.members = [t.members EXCEPT ![t.team[p]] = @ - (IF t.base[p] # NoBase THEN 1 ELSE 0)]

LEMMA LeftIs ==
    ASSUME NEW t \in TablesType, NEW p \in Player,
           NEW l, l = [t EXCEPT !.members[t.team[p]] = @ - (IF t.base[p] # NoBase THEN 1 ELSE 0)]
    PROVE  Left(t, p, l)
<1> DEFINE tm == t.team[p]
           n == IF t.base[p] # NoBase THEN 1 ELSE 0
           mbs == [t.members EXCEPT ![tm] = @ - n]
<1>1. tm \in Team /\ n \in Int /\ t.members \in [Team -> Int]
  BY Fields
<1>2. mbs \in [Team -> Int]
  <2> HIDE DEF tm, n
  <2>1. QED
    BY <1>1
<1>3. l = [t EXCEPT !.members = mbs]
  OBVIOUS
<1> HIDE DEF mbs
<1>4. /\ l \in TablesType
      /\ l.players = t.players /\ l.team = t.team /\ l.base = t.base /\ l.paused = t.paused
      /\ l.prev = t.prev /\ l.robots = t.robots /\ l.swapper = t.swapper
      /\ l.login = t.login /\ l.fault = t.fault
      /\ l.members = mbs
  BY <1>2, <1>3 DEF TablesType
<1>5. QED
  BY <1>4 DEF mbs, Left

(* One way through Move. *)
Moving(t, l, m, s, u, p, x, r) ==
    /\ l = [t EXCEPT !.members[t.team[p]] = @ - (IF t.base[p] # NoBase THEN 1 ELSE 0)]
    /\ Left(t, p, l) /\ Joining(l, m, s, p, x)
    /\ u \in Pick_startpos(s, p)
    /\ r = u \/ (t.base[p] = NoBase /\ r \in Unpause(u, p))

LEMMA MoveIs ==
    ASSUME NEW t \in TablesType, NEW p \in Player, NEW x \in Team, NEW r \in Move(t, p, x)
    PROVE  \E l, m, s, u : Moving(t, l, m, s, u, p, x, r)
<1> DEFINE l == [t EXCEPT !.members[t.team[p]] = @ - (IF t.base[p] # NoBase THEN 1 ELSE 0)]
           m == [l EXCEPT !.team[p] = x, !.members[x] = @ + 1]
           s == Set_swapper_state(m, p)
<1>1. PICK u \in Pick_startpos(s, p) :
         r \in (IF t.base[p] # NoBase \/ ~u.paused[p] THEN {u} ELSE {u} \cup Unpause(u, p))
  BY DEF Move
<1>2. Left(t, p, l)
  BY LeftIs
<1>3. l = [t EXCEPT !.members[t.team[p]] = @ - (IF t.base[p] # NoBase THEN 1 ELSE 0)]
  OBVIOUS
<1> HIDE DEF l
<1>4. l \in TablesType
  BY <1>2 DEF Left
<1>5. Joined(l, p, x, m)
  BY <1>4, JoinIs
<1>6. m = [l EXCEPT !.team[p] = x, !.members[x] = @ + 1]
  OBVIOUS
<1> HIDE DEF m
<1>7. m \in TablesType
  BY <1>5 DEF Joined
<1>8. Stated(m, p, s)
  BY <1>7, StateIs
<1>9. Joining(l, m, s, p, x)
  BY <1>6, <1>7, <1>8 DEF Joining, Stated
<1> HIDE DEF s
<1>10. r = u \/ (t.base[p] = NoBase /\ r \in Unpause(u, p))
  BY <1>1
<1>11. Moving(t, l, m, s, u, p, x, r)
  BY <1>1, <1>2, <1>3, <1>9, <1>10 DEF Moving
<1>12. QED
  BY <1>11

(* A pause that ends after the server has. *)
Ended(t, r, p) ==
    /\ r \in TablesType /\ r.fault = "end" /\ r.swapper = t.swapper
    /\ \A q \in Player \ {p} : r.team[q] = t.team[q] /\ r.base[q] = t.base[q]

LEMMA UnpauseEnds ==
    ASSUME NEW t \in TablesType, t.fault = "end", NEW p \in Player, NEW r \in Unpause(t, p)
    PROVE  Ended(t, r, p)
<1> USE DEF Ended
<1>1. CASE t.base[p] # NoBase /\ r = [t EXCEPT !.paused[p] = FALSE]
  <2>1. Unpaused(t, p, r)
    BY <1>1, PausedIs
  <2>2. QED
    BY <2>1 DEF Unpaused
<1>2. CASE t.base[p] = NoBase /\ r = t
  BY <1>2
<1>3. ASSUME NEW m, NEW s, NEW u, Returns(t, m, s, u, p, r)
      PROVE  Ended(t, r, p)
  <2>1. /\ Joining(t, m, s, p, t.prev[p]) /\ u \in Pick_startpos(s, p)
        /\ r = [u EXCEPT !.paused[p] = FALSE] /\ s \in TablesType /\ t.prev[p] \in Team
    BY <1>3, Fields DEF Returns, Joining
  <2>2. HasJoined(t, s, p, t.prev[p], u)
    BY <2>1, JoiningIs
  <2>3. IsPicked(s, p, u)
    BY <2>1, PickIs
  <2>4. Unpaused(u, p, r)
    BY <2>1, <2>2, PausedIs DEF HasJoined
  <2>5. u.fault = "end" /\ \A q \in Player \ {p} : u.base[q] = s.base[q]
    <3>1. s.fault = "end"
      BY <2>2 DEF HasJoined
    <3>2. CASE u.fault = "end" /\ u.base = s.base
      BY <3>2
    <3>3. CASE \E b \in FreeBases(s, p) : u.fault = s.fault /\ u.base = [s.base EXCEPT ![p] = b]
      BY <2>1, <3>1, <3>3, Fields
    <3>4. QED
      BY <2>3, <3>2, <3>3 DEF IsPicked
  <2>6. \A q \in Player \ {p} : u.team[q] = t.team[q]
    BY <2>2, Fields DEF HasJoined
  <2>7. QED
    BY <2>2, <2>4, <2>5, <2>6 DEF HasJoined, Unpaused
<1>4. QED
  BY <1>1, <1>2, <1>3, UnpauseIs

LEMMA MoveFine ==
    ASSUME NEW t \in TablesType, Sound(t), t.fault = "none", NEW p \in t.players,
           NEW x \in Team, HasRoom(t, x), t.base[p] # NoBase => t.team[p] # x,
           \A y \in Team : t.swapper[y] # p, NEW r \in Move(t, p, x)
    PROVE  Fine(t, r)
<1>1. p \in Player /\ (p \in Robot => ~t.paused[p])
  BY Fields DEF Sound, RobotsKeep
<1>2. PICK l, m, s, u : Moving(t, l, m, s, u, p, x, r)
  BY <1>1, MoveIs
<1>3. l \in TablesType /\ Left(t, p, l) /\ Joining(l, m, s, p, x) /\ s \in TablesType
      /\ u \in Pick_startpos(s, p)
  BY <1>2 DEF Moving, Left, Joining
<1>4. HasJoined(l, s, p, x, u)
  BY <1>1, <1>3, JoiningIs
<1>5. s.team = [t.team EXCEPT ![p] = x] /\ s.base = t.base /\ s.fault = "none" /\ s.players = t.players
  BY <1>3, <1>4 DEF Left, HasJoined
<1>6. FindsBase(t, p, x, u)
  BY <1>1, <1>3, <1>5, Picked
<1>7. PICK b : /\ u.base = [t.base EXCEPT ![p] = b]
               /\ \/ u.fault = "none" /\ Vacant(t, p, x, b)
                  \/ /\ u.fault = "end" /\ b = t.base[p]
                     /\ Right(t) => t.members[x] >= NumBases[x]
  BY <1>6 DEF FindsBase
<1>8. /\ u \in TablesType /\ u.players = t.players /\ u.team = [t.team EXCEPT ![p] = x]
      /\ \A q \in Player \ {p} : u.paused[q] = t.paused[q]
      /\ u.prev = t.prev /\ u.robots = t.robots /\ u.swapper = t.swapper /\ u.login = t.login
      /\ u.members = [l.members EXCEPT ![x] = @ + 1]
  BY <1>3, <1>4 DEF Left, HasJoined
<1>9. p \in Robot => ~u.paused[p]
  <2>1. t.paused[p] = FALSE => u.paused[p] = FALSE
    BY <1>3, <1>4 DEF Left, HasJoined
  <2>2. QED
    BY <1>1, <2>1, Fields
<1>10. u.fault = "end" => ~Settled(t)
  <2>1. t.members[x] < NumBases[x] /\ t.members[x] \in Int /\ NumBases[x] \in Int
    BY Fields, TeamsOfBases DEF HasRoom
  <2>2. QED
    BY <1>7, <2>1 DEF Settled
<1>11. ASSUME NEW y \in Team
       PROVE  u.members[y] = t.members[y] - (IF p \in MembersOf(t, y) THEN 1 ELSE 0)
                                          + (IF y = x THEN 1 ELSE 0)
  <2> DEFINE n == IF t.base[p] # NoBase THEN 1 ELSE 0
  <2>1. t.team[p] \in Team /\ n \in Int /\ t.members \in [Team -> Int]
    BY <1>1, Fields
  <2>2. l.members = [t.members EXCEPT ![t.team[p]] = @ - n] /\ l.members \in [Team -> Int]
    BY <1>3, Fields DEF Left
  <2>3. p \in MembersOf(t, y) <=> t.base[p] # NoBase /\ y = t.team[p]
    BY DEF MembersOf
  <2>4. l.members[y] = IF y = t.team[p] THEN t.members[y] - n ELSE t.members[y]
    <3> HIDE DEF n
    <3>1. QED
      BY <2>1, <2>2
  <2>5. u.members[y] = IF y = x THEN l.members[y] + 1 ELSE l.members[y]
    BY <1>8, <2>2
  <2>6. l.members[y] = t.members[y] - (IF p \in MembersOf(t, y) THEN 1 ELSE 0)
    BY <2>1, <2>3, <2>4
  <2>7. QED
    BY <2>1, <2>2, <2>5, <2>6
<1>12. \A y \in Team : u.robots[y] = t.robots[y] + 0
  BY <1>8, Fields
<1>13. CountedIn(t, u, p, x) /\ RobotsIn(t, u, p, x)
  BY <1>11, <1>12 DEF CountedIn, RobotsIn
<1>14. CASE r = u
  <2>1. PlacedAt(t, r, p, x, b)
    BY <1>1, <1>7, <1>8, <1>14, <1>9 DEF PlacedAt, Sound, Absent
  <2>2. Placing(t, r, p, x, b)
    BY <1>1, <1>7, <1>10, <1>13, <1>14, <2>1 DEF Placing
  <2>3. QED
    BY <1>1, <2>2, PlacedFine
<1>15. CASE t.base[p] = NoBase /\ r \in Unpause(u, p) /\ u.fault = "none"
  <2>1. u.base[p] # NoBase
    BY <1>1, <1>7, <1>15, Fields, BaseIs DEF Vacant
  <2>2. r = [u EXCEPT !.paused[p] = FALSE]
    BY <1>15, <2>1 DEF Unpause
  <2>3. Unpaused(u, p, r)
    BY <1>1, <1>8, <2>2, PausedIs
  <2>4. \A q \in Player \ {p} : r.paused[q] = t.paused[q]
    BY <1>8, <2>3, Fields DEF Unpaused
  <2>5. PlacedAt(t, r, p, x, b)
    <3>1. r.players = t.players \cup {p}
      BY <1>8, <2>3 DEF Unpaused
    <3>2. \A h \in Human : r.login[h] # NoLogin => t.login[h] # NoLogin /\ h # p
      BY <1>8, <2>3 DEF Unpaused, Sound, Absent
    <3>3. p \in Robot => ~r.paused[p]
      <4>1. r.paused = [u.paused EXCEPT ![p] = FALSE]
        BY <1>8, <2>2, Fields
      <4>2. u.paused \in [Player -> BOOLEAN]
        BY <1>8, Fields
      <4>3. r.paused[p] = FALSE
        BY <1>1, <4>1, <4>2
      <4>4. QED
        BY <4>3
    <3>4. QED
      BY <1>1, <1>7, <1>8, <2>3, <2>4, <3>1, <3>2, <3>3 DEF PlacedAt, Unpaused
  <2>6. CountedIn(t, r, p, x) /\ RobotsIn(t, r, p, x)
    BY <1>13, <2>3 DEF CountedIn, RobotsIn, Unpaused
  <2>7. r.fault = "none"
    BY <1>15, <2>3 DEF Unpaused
  <2>8. Placing(t, r, p, x, b)
    BY <1>1, <1>7, <1>15, <2>5, <2>6, <2>7 DEF Placing
  <2>9. QED
    BY <1>1, <2>8, PlacedFine
<1>16. CASE r \in Unpause(u, p) /\ u.fault = "end"
  <2>1. /\ r \in TablesType /\ r.fault = "end" /\ r.swapper = u.swapper
        /\ \A q \in Player \ {p} : r.team[q] = u.team[q] /\ r.base[q] = u.base[q]
    <3>1. Ended(u, r, p)
      BY <1>1, <1>8, <1>16, UnpauseEnds
    <3>2. QED
      BY <3>1 DEF Ended
  <2>2. \A q \in Player \ {p} : u.team[q] = t.team[q] /\ u.base[q] = t.base[q]
    BY <1>7, <1>8, Fields
  <2>3. OthersStay(t, r, p)
    BY <1>8, <2>1, <2>2 DEF OthersStay
  <2>4. ~Settled(t)
    BY <1>10, <1>16
  <2>5. QED
    BY <1>1, <2>1, <2>3, <2>4, FaultFine
<1>17. QED
  BY <1>2, <1>7, <1>14, <1>15, <1>16 DEF Moving

-----------------------------------------------------------------------------
(* Players leave.                                                          *)

(* Players have left, the others are as they were.                         *)
Reduced(t, r) ==
    /\ r \in TablesType
    /\ r.players \subseteq t.players
    /\ \A p \in r.players :
          r.team[p] = t.team[p] /\ r.base[p] = t.base[p] /\ r.paused[p] = t.paused[p]
    /\ \A x \in Team : r.swapper[x] = t.swapper[x] \/ r.swapper[x] = NoId
    /\ r.login = t.login /\ r.fault = t.fault
    /\ Sound(r)
    /\ Based(t) /\ Right(t) => Right(r)
    /\ Based(t) /\ Tallied(t) => Tallied(r)

LEMMA ReducedItself ==
    ASSUME NEW t \in TablesType, Sound(t)
    PROVE  Reduced(t, t)
  BY DEF Reduced

LEMMA ReducedFurther ==
    ASSUME NEW t, NEW u, NEW r, Reduced(t, u), Reduced(u, r)
    PROVE  Reduced(t, r)
<1>1. Based(t) => Based(u)
  BY DEF Reduced, Based
<1>2. QED
  BY <1>1 DEF Reduced

LEMMA DeleteReduced ==
    ASSUME NEW t \in TablesType, Sound(t), NEW p \in t.players
    PROVE  Reduced(t, Delete(t, p))
<1> DEFINE d == Delete(t, p)
           tm == t.team[p]
<1>1. p \in Player /\ t.players \subseteq Player /\ tm \in Team
  BY Fields
<1>2. Deleted(t, p, d)
  BY <1>1, DeleteIs
<1> HIDE DEF d
<1> USE DEF Deleted
<1>3. /\ d.team[p] = 0 /\ d.base[p] = NoBase /\ d.paused[p] = FALSE /\ d.prev[p] = 0
      /\ \A q \in Player \ {p} : /\ d.team[q] = t.team[q] /\ d.base[q] = t.base[q]
                                 /\ d.paused[q] = t.paused[q] /\ d.prev[q] = t.prev[q]
  BY <1>1, <1>2, Fields
<1>4. \A x \in Team : d.swapper[x] = IF t.swapper[x] = p THEN NoId ELSE t.swapper[x]
  BY <1>2
<1>5. d \in TablesType /\ d.players = t.players \ {p} /\ d.login = t.login /\ d.fault = t.fault
  BY <1>2
<1>6. Sound(d)
  <2>1. OwnHomes(d)
    BY <1>1, <1>3, <1>5 DEF Sound, OwnHomes
  <2>2. Absent(d)
    BY <1>1, <1>3, <1>5 DEF Sound, Absent
  <2>3. QueuedOnce(d)
    BY <1>4, <1>5 DEF Sound, QueuedOnce
  <2>4. RobotsKeep(d)
    <3>1. \A o \in Robot : ~d.paused[o]
      BY <1>3, Ids DEF Sound, RobotsKeep
    <3>2. \A y \in Team : d.robots[y] <= t.robots[y] /\ t.robots[y] \in Int /\ d.robots[y] \in Int
      <4> DEFINE n == IF t.base[p] # NoBase /\ p \in Robot THEN 1 ELSE 0
      <4>1. d.robots = [t.robots EXCEPT ![tm] = @ - n] /\ t.robots \in [Team -> Int]
        BY <1>2, Fields
      <4>2. n \in {0, 1}
        OBVIOUS
      <4> HIDE DEF n, tm
      <4>3. QED
        BY <1>1, <4>1, <4>2
    <3>3. options.restrictRobots => \A y \in Team \ {options.robotTeam} : t.robots[y] <= 0
      BY DEF Sound, RobotsKeep
    <3>4. options.restrictRobots => \A y \in Team \ {options.robotTeam} : d.robots[y] <= 0
      BY <3>2, <3>3
    <3>5. QED
      BY <3>1, <3>4 DEF RobotsKeep
  <2>5. NoReturn(d)
    BY <1>1, <1>3 DEF Sound, NoReturn
  <2>6. QED
    BY <2>1, <2>2, <2>3, <2>4, <2>5 DEF Sound
<1>7. ASSUME Based(t), Right(t), NEW y \in Team
      PROVE  d.members[y] = Cardinality(MembersOf(d, y))
  <2>1. CASE y = tm
    <3>1. d.members = [t.members EXCEPT ![tm] = Cardinality(MembersOf(d, tm))]
      BY <1>2
    <3>2. t.members \in [Team -> Int]
      BY Fields
    <3> HIDE DEF tm
    <3>3. QED
      BY <1>1, <2>1, <3>1, <3>2
  <2>2. CASE y # tm
    <3>1. MembersOf(d, y) = MembersOf(t, y)
      BY <1>1, <1>3, <1>5, <2>2 DEF MembersOf
    <3>2. d.members[y] = t.members[y]
      BY <1>2, <2>2, Fields
    <3>3. QED
      BY <1>7, <3>1, <3>2 DEF Right
  <2>3. QED
    BY <2>1, <2>2
<1>8. ASSUME Based(t), Tallied(t), NEW y \in Team
      PROVE  d.robots[y] = Cardinality(RobotsOf(d, y))
  <2> DEFINE R == RobotsOf(t, y)
  <2>1. IsFiniteSet(R) /\ Cardinality(R) \in Nat /\ t.robots[y] = Cardinality(R)
    BY <1>8, MembersFinite DEF Tallied
  <2>2. RobotsOf(d, y) = R \ {p}
    BY <1>1, <1>3, <1>5 DEF RobotsOf
  <2>3. CASE y = tm /\ p \in Robot
    <3>1. t.base[p] # NoBase
      BY <1>8, <2>3 DEF Based, Sound, RobotsKeep
    <3>2. d.robots = [t.robots EXCEPT ![tm] = @ - 1]
      BY <1>2, <2>3, <3>1
    <3>3. t.robots \in [Team -> Int]
      BY Fields
    <3>4. d.robots[y] = t.robots[y] - 1
      <4> HIDE DEF tm
      <4>1. QED
        BY <1>1, <2>3, <3>2, <3>3
    <3>5. p \in R
      BY <2>3 DEF RobotsOf
    <3>6. Cardinality(R \ {p}) = Cardinality(R) - 1
      <4> HIDE DEF R
      <4>1. QED
        BY <2>1, <3>5, FS_RemoveElement
    <3>7. QED
      BY <2>1, <2>2, <3>4, <3>6
  <2>4. CASE ~(y = tm /\ p \in Robot)
    <3>1. R \ {p} = R
      BY <2>4 DEF RobotsOf
    <3>2. d.robots[y] = t.robots[y]
      <4> DEFINE n == IF t.base[p] # NoBase /\ p \in Robot THEN 1 ELSE 0
      <4>1. d.robots = [t.robots EXCEPT ![tm] = @ - n] /\ t.robots \in [Team -> Int]
        BY <1>2, Fields
      <4>2. y = tm => n = 0
        BY <2>4
      <4> HIDE DEF n, tm
      <4>3. QED
        BY <1>1, <4>1, <4>2
    <3>3. QED
      BY <2>1, <2>2, <3>1, <3>2
  <2>5. QED
    BY <2>3, <2>4
<1>9. (Based(t) /\ Right(t) => Right(d)) /\ (Based(t) /\ Tallied(t) => Tallied(d))
  BY <1>7, <1>8 DEF Right, Tallied
<1>10. Reduced(t, d)
  BY <1>1, <1>3, <1>4, <1>5, <1>6, <1>9 DEF Reduced
<1>11. QED
  BY <1>10 DEF d

-----------------------------------------------------------------------------
(* Functions that are defined from one number to the next.                 *)

(* A set of numbers has a least. *)
LEMMA Least ==
    ASSUME NEW S \in SUBSET Nat, S # {}
    PROVE  \E n \in S : \A m \in S : n <= m
<1> DEFINE R == OpToRel(<, Nat)
<1>1. IsWellFoundedOn(R, Nat)
  BY NatLessThanWellFounded
<1>2. \A x, y \in Nat : <<x, y>> \notin R => y <= x
  BY DEF OpToRel
<1> HIDE DEF R
<1>3. PICK n \in S : \A m \in S : <<m, n>> \notin R
  BY <1>1, WFMin
<1>4. QED
  BY <1>2, <1>3

(* Induction up to a bound, for what the members of a set are. *)
LEMMA UpTo ==
    ASSUME NEW N \in Nat, NEW G, 0 \in G,
           \A n \in 1 .. N : n - 1 \in G => n \in G
    PROVE  \A n \in 0 .. N : n \in G
<1> DEFINE Rest == {n \in 0 .. N : n \notin G}
<1>1. SUFFICES ASSUME Rest # {} PROVE FALSE
  OBVIOUS
<1>2. Rest \in SUBSET Nat
  OBVIOUS
<1> HIDE DEF Rest
<1>3. PICK n \in Rest : \A m \in Rest : n <= m
  BY <1>1, <1>2, Least
<1>4. n \in 1 .. N /\ n - 1 \notin Rest
  BY <1>2, <1>3 DEF Rest
<1>5. QED
  BY <1>3, <1>4 DEF Rest

(* What is defined from the value before is defined for all. *)
Iterates(f, m, S, base, step) ==
    /\ f \in [0 .. m -> S] /\ f[0] = base
    /\ \A n \in 1 .. m : f[n] = step[n][f[n - 1]]

LEMMA Recursion ==
    ASSUME NEW N \in Nat, NEW S, NEW base \in S, NEW step \in [1 .. N -> [S -> S]]
    PROVE  \E f : Iterates(f, N, S, base, step)
<1> USE DEF Iterates
<1> DEFINE To(m, f) == Iterates(f, m, S, base, step)
           G == {m \in 0 .. N : \E f : To(m, f)}
<1>1. 0 \in G
  <2>1. To(0, [n \in 0 .. 0 |-> base])
    OBVIOUS
  <2> HIDE DEF To
  <2>2. QED
    BY <2>1
<1>2. ASSUME NEW m \in 1 .. N, m - 1 \in G PROVE m \in G
  <2>1. PICK f : To(m - 1, f)
    BY <1>2
  <2>2. f \in [0 .. m - 1 -> S] /\ f[m - 1] \in S /\ step[m][f[m - 1]] \in S
    BY <2>1
  <2> DEFINE g == [n \in 0 .. m |-> IF n < m THEN f[n] ELSE step[m][f[m - 1]]]
  <2>3. g \in [0 .. m -> S] /\ g[0] = base
    BY <2>1, <2>2
  <2>4. \A n \in 0 .. m - 1 : g[n] = f[n]
    OBVIOUS
  <2>5. g[m] = step[m][g[m - 1]]
    OBVIOUS
  <2>6. ASSUME NEW n \in 1 .. m PROVE g[n] = step[n][g[n - 1]]
    <3>1. CASE n = m
      BY <2>5, <3>1
    <3>2. CASE n # m
      <4>1. n \in 1 .. m - 1 /\ n \in 0 .. m - 1 /\ n - 1 \in 0 .. m - 1
        BY <3>2
      <4>2. f[n] = step[n][f[n - 1]]
        BY <2>1, <4>1
      <4>3. QED
        BY <2>4, <4>1, <4>2
    <3>3. QED
      BY <3>1, <3>2
  <2> HIDE DEF g
  <2>7. To(m, g)
    BY <2>3, <2>6
  <2> HIDE DEF To
  <2>8. QED
    BY <2>7
<1> HIDE DEF G
<1>3. \A m \in 1 .. N : m - 1 \in G => m \in G
  BY <1>2
<1>4. \A n \in 0 .. N : n \in G
  BY <1>1, <1>3, UpTo
<1>5. N \in G
  BY <1>4
<1>6. QED
  BY <1>5 DEF G

(* The loops of Kick_paused_players. *)
LEMMA DeleteAllReduced ==
    ASSUME NEW t \in TablesType, Sound(t), NEW S \in SUBSET t.players
    PROVE  Reduced(t, DeleteAll(t, S))
<1> DEFINE N == Cardinality(S)
           Someone(v) == CHOOSE q \in v.left : TRUE
           Next1(v) == [tab |-> Delete(v.tab, Someone(v)), left |-> v.left \ {Someone(v)}]
           D == [tab : TablesType, left : SUBSET S]
           pass == [v \in D |-> IF v.left = {} THEN v ELSE Next1(v)]
           step == [n \in 1 .. N |-> pass]
           base == [tab |-> t, left |-> S]
           Def(g) == g = [n \in 0 .. N |-> IF n = 0 THEN base ELSE Next1(g[n - 1])]
           h == CHOOSE g : Def(g)
<1>1. IsFiniteSet(S) /\ N \in Nat /\ S \subseteq Player
  <2>1. IsFiniteSet(t.players) /\ t.players \subseteq Player
    BY MembersFinite, Fields
  <2>2. QED
    BY <2>1, FS_Subset, FS_CardinalityType
<1>2. DeleteAll(t, S) = h[N].tab
  BY DEF DeleteAll
<1> HIDE DEF N
<1>3. \A v \in D : v.left # {} => Someone(v) \in v.left
  OBVIOUS
<1> HIDE DEF Someone
<1>4. pass \in [D -> D]
  <2>1. ASSUME NEW v \in D, v.left # {} PROVE Next1(v) \in D
    <3>1. Someone(v) \in Player /\ v.tab \in TablesType
      BY <1>1, <1>3, <2>1
    <3>2. Deleted(v.tab, Someone(v), Delete(v.tab, Someone(v)))
      BY <3>1, DeleteIs
    <3>3. Delete(v.tab, Someone(v)) \in TablesType
      BY <3>2 DEF Deleted
    <3>4. v.left \ {Someone(v)} \in SUBSET S
      OBVIOUS
    <3>5. QED
      BY <3>3, <3>4
  <2> HIDE DEF Next1, D
  <2>2. QED
    BY <2>1
<1>5. base \in D
  OBVIOUS
<1>6. \A v \in D : v.left # {} => pass[v] = Next1(v)
  OBVIOUS
<1> HIDE DEF pass
<1>7. step \in [1 .. N -> [D -> D]] /\ \A n \in 1 .. N : step[n] = pass
  BY <1>4
<1> HIDE DEF step, D
<1>8. PICK f : Iterates(f, N, D, base, step)
  BY <1>1, <1>5, <1>7, Recursion
<1>9. /\ f \in [0 .. N -> D] /\ f[0] = base
      /\ \A n \in 1 .. N : f[n] = pass[f[n - 1]]
  BY <1>7, <1>8 DEF Iterates
<1> DEFINE Good(n, v) == /\ Reduced(t, v.tab) /\ v.left \subseteq v.tab.players
                         /\ IsFiniteSet(v.left) /\ Cardinality(v.left) = N - n
           G == {n \in 0 .. N : Good(n, f[n])}
<1>10. Good(0, base)
  BY <1>1, ReducedItself DEF N
<1>11. ASSUME NEW n \in 1 .. N, NEW v \in D, Good(n - 1, v)
       PROVE  v.left # {} /\ Good(n, Next1(v))
  <2>1. v.left # {}
    <3>1. Cardinality(v.left) > 0
      BY <1>1, <1>11
    <3>2. QED
      BY <3>1, FS_EmptySet
  <2> DEFINE p == Someone(v)
  <2>2. p \in v.left /\ p \in v.tab.players
    BY <1>3, <1>11, <2>1
  <2>3. v.tab \in TablesType /\ Sound(v.tab)
    BY <1>11 DEF Reduced
  <2> HIDE DEF p
  <2>4. Reduced(v.tab, Delete(v.tab, p))
    BY <2>2, <2>3, DeleteReduced
  <2>5. Reduced(t, Delete(v.tab, p))
    BY <1>11, <2>4, ReducedFurther
  <2>6. Deleted(v.tab, p, Delete(v.tab, p))
    BY <2>2, <2>3, Fields, DeleteIs
  <2>7. v.left \ {p} \subseteq Delete(v.tab, p).players
    BY <1>11, <2>6 DEF Deleted
  <2>8. IsFiniteSet(v.left \ {p}) /\ Cardinality(v.left \ {p}) = N - n
    <3>1. IsFiniteSet(v.left \ {p}) /\ Cardinality(v.left \ {p}) = Cardinality(v.left) - 1
      BY <1>11, <2>2, FS_RemoveElement
    <3>2. QED
      BY <1>1, <1>11, <3>1
  <2>9. Next1(v).tab = Delete(v.tab, p) /\ Next1(v).left = v.left \ {p}
    BY DEF p
  <2> HIDE DEF Next1
  <2>10. QED
    BY <2>1, <2>5, <2>7, <2>8, <2>9
<1> HIDE DEF Good, Next1, base
<1>12. 0 \in G
  BY <1>1, <1>9, <1>10
<1>13. \A n \in 1 .. N : f[n - 1] \in D
  BY <1>1, <1>9
<1>14. \A n \in 1 .. N : n - 1 \in G => n \in G /\ f[n] = Next1(f[n - 1])
  <2>1. ASSUME NEW n \in 1 .. N, n - 1 \in G PROVE n \in G /\ f[n] = Next1(f[n - 1])
    <3>1. Good(n - 1, f[n - 1]) /\ f[n - 1] \in D
      BY <1>13, <2>1
    <3>2. f[n - 1].left # {} /\ Good(n, Next1(f[n - 1]))
      BY <1>11, <3>1
    <3>3. f[n] = Next1(f[n - 1])
      BY <1>6, <1>9, <3>1, <3>2
    <3>4. QED
      BY <3>2, <3>3
  <2>2. QED
    BY <2>1
<1> HIDE DEF G
<1>15. \A n \in 0 .. N : n \in G
  BY <1>1, <1>12, <1>14, UpTo
<1>16. \A n \in 1 .. N : f[n] = Next1(f[n - 1])
  <2>1. \A n \in 1 .. N : n - 1 \in 0 .. N
    BY <1>1
  <2>2. QED
    BY <1>14, <1>15, <2>1
<1>17. Def(f)
  <2>1. \A n \in 0 .. N : f[n] = IF n = 0 THEN base ELSE Next1(f[n - 1])
    BY <1>9, <1>16
  <2>2. QED
    BY <1>9, <2>1
<1>18. Def(h)
  <2> HIDE DEF Def
  <2>1. QED
    BY <1>17
<1> HIDE DEF h
<1>19. h[0] = base /\ \A n \in 1 .. N : h[n] = Next1(h[n - 1])
  <2>1. h = [n \in 0 .. N |-> IF n = 0 THEN base ELSE Next1(h[n - 1])]
    BY <1>18
  <2>2. 0 \in 0 .. N /\ \A n \in 1 .. N : n \in 0 .. N /\ n # 0
    BY <1>1
  <2>3. QED
    BY <2>1, <2>2
<1> HIDE DEF Def
<1> DEFINE Same == {n \in 0 .. N : h[n] = f[n]}
<1>20. 0 \in Same /\ \A n \in 1 .. N : n - 1 \in Same => n \in Same
  BY <1>1, <1>9, <1>16, <1>19
<1> HIDE DEF Same
<1>21. N \in Same /\ N \in G
  BY <1>1, <1>15, <1>20, UpTo
<1>22. Good(N, f[N]) /\ h[N] = f[N]
  BY <1>21 DEF Same, G
<1>23. QED
  BY <1>2, <1>22 DEF Good

(* Functions that may let players leave, and find a team that has room. *)
LEMMA KickRobotReduced ==
    ASSUME NEW t \in TablesType, Sound(t), NEW x, NEW u \in KickRobot(t, x)
    PROVE  Reduced(t, u)
<1>1. Kickable(t, x) \subseteq t.players
  BY DEF Kickable
<1>2. CASE Kickable(t, x) = {}
  BY <1>2, ReducedItself DEF KickRobot
<1>3. CASE Kickable(t, x) # {}
  <2>1. PICK q \in Kickable(t, x) : u = Delete(t, q)
    BY <1>3 DEF KickRobot
  <2>2. QED
    BY <1>1, <2>1, DeleteReduced
<1>4. QED
  BY <1>2, <1>3

LEMMA KickPausedReduced ==
    ASSUME NEW t \in TablesType, Sound(t), NEW x
    PROVE  Reduced(t, KickPaused(t, x))
<1>1. Idle(t, x) \in SUBSET t.players
  BY DEF Idle
<1>2. QED
  BY <1>1, DeleteAllReduced DEF KickPaused

LEMMA SeatsReduced ==
    ASSUME NEW t \in TablesType, Sound(t), NEW u \in Seats(t)
    PROVE  Reduced(t, u)
<1>1. CASE Ships(t) < Limit \/ game_lock
  BY <1>1, ReducedItself DEF Seats
<1>2. CASE ~(Ships(t) < Limit \/ game_lock)
  <2>1. PICK k \in KickRobot(t, NotSet) : u = k \/ u = KickPaused(k, NotSet)
    BY <1>2 DEF Seats
  <2>2. Reduced(t, k)
    BY KickRobotReduced
  <2>3. k \in TablesType /\ Sound(k)
    BY <2>2 DEF Reduced
  <2>4. Reduced(k, KickPaused(k, NotSet))
    BY <2>3, KickPausedReduced
  <2>5. Reduced(t, KickPaused(k, NotSet))
    BY <2>2, <2>4, ReducedFurther
  <2>6. QED
    BY <2>1, <2>2, <2>5
<1>3. QED
  BY <1>1, <1>2

LEMMA OneOfIs ==
    ASSUME NEW avail, NEW x \in OneOf(avail)
    PROVE  x = NotSet \/ x \in avail
  BY DEF OneOf

LEMMA BalancedIs ==
    ASSUME NEW t, NEW free
    PROVE  Balanced(t, free) \subseteq free
  BY DEF Balanced

(* A team that is picked has room. *)
LEMMA PickHumanIs ==
    ASSUME NEW t, NEW x \in PickHuman(t)
    PROVE  x = NotSet \/ (x \in Team /\ HasRoom(t, x))
<1> DEFINE free == {y \in Team : HasRoom(t, y)}
           open == IF options.reserveRobotTeam THEN free \ {options.robotTeam} ELSE free
<1>1. CASE game_lock
  BY <1>1 DEF PickHuman
<1>2. CASE ~game_lock
  <2>1. x \in OneOf(Balanced(t, open))
    BY <1>2 DEF PickHuman
  <2>2. Balanced(t, open) \subseteq open
    BY BalancedIs
  <2>3. open \subseteq free
    OBVIOUS
  <2> HIDE DEF open
  <2>4. QED
    BY <2>1, <2>2, <2>3, OneOfIs
<1>3. QED
  BY <1>1, <1>2

LEMMA PickRobotIs ==
    ASSUME NEW t, NEW x \in PickRobot(t), options \in Options
    PROVE  /\ x = NotSet \/ (x \in Team /\ HasRoom(t, x))
           /\ x # NotSet /\ options.restrictRobots => x = options.robotTeam
<1>1. CASE options.restrictRobots
  <2>1. options.robotTeam \in Team
    BY OptionsKnown
  <2>2. QED
    BY <1>1, <2>1 DEF PickRobot
<1>2. CASE ~options.restrictRobots
  <2> DEFINE free == {y \in Team : HasRoom(t, y)}
  <2>1. x \in OneOf(Balanced(t, free))
    BY <1>2 DEF PickRobot
  <2>2. Balanced(t, free) \subseteq free
    BY BalancedIs
  <2>3. x = NotSet \/ x \in free
    <3> HIDE DEF free
    <3>1. QED
      BY <2>1, <2>2, OneOfIs
  <2>4. QED
    BY <1>2, <2>3
<1>3. QED
  BY <1>1, <1>2

(* A table that is left by players and a team, if any, that is found. *)
Found(t, s) == Reduced(t, s[1]) /\ s[2] \in Team \cup {NotSet}

LEMMA SuggestionFound ==
    ASSUME NEW t \in TablesType, Sound(t), NEW x \in Team, NEW s \in Suggestion(t, x)
    PROVE  Found(t, s)
<1> USE DEF Found
<1>1. Reduced(t, t)
  BY ReducedItself
<1>2. CASE s = <<t, NotSet>>
  BY <1>1, <1>2
<1>3. CASE s = <<t, x>>
  BY <1>1, <1>3
<1>4. CASE s \in KickRobot(t, x) \X {x}
  BY <1>4, KickRobotReduced
<1>5. CASE s = <<KickPaused(t, x), x>>
  BY <1>5, KickPausedReduced
<1>6. QED
  BY <1>2, <1>3, <1>4, <1>5 DEF Suggestion

LEMMA AssignFound ==
    ASSUME NEW t \in TablesType, Sound(t), NEW s \in Assign(t)
    PROVE  Found(t, s)
<1>1. PICK x \in PickHuman(t) :
         \/ s = <<t, x>>
         \/ \E k \in KickRobot(t, NotSet) : s \in {k} \X PickHuman(k)
  <2>1. PICK x \in PickHuman(t) :
           s \in (IF x # NotSet \/ game_lock
                     \/ Cardinality(Robot \cap t.players) <= t.robots[options.robotTeam]
                  THEN {<<t, x>>}
                  ELSE UNION {{k} \X PickHuman(k) : k \in KickRobot(t, NotSet)})
    BY DEF Assign
  <2>2. QED
    BY <2>1
<1>2. CASE s = <<t, x>>
  <2>1. x \in Team \cup {NotSet}
    BY PickHumanIs
  <2>2. QED
    BY <1>2, <2>1, ReducedItself DEF Found
<1>3. ASSUME NEW k \in KickRobot(t, NotSet), s \in {k} \X PickHuman(k)
      PROVE  Found(t, s)
  <2>1. s[1] = k /\ s[2] \in PickHuman(k)
    BY <1>3
  <2>2. s[2] \in Team \cup {NotSet}
    BY <2>1, PickHumanIs
  <2>3. QED
    BY <2>1, <2>2, KickRobotReduced DEF Found
<1>4. QED
  BY <1>1, <1>2, <1>3

LEMMA FindTeamFound ==
    ASSUME NEW t \in TablesType, Sound(t), NEW x \in Team \cup {NotSet}, NEW s \in FindTeam(t, x)
    PROVE  Found(t, s)
<1>1. CASE x = NotSet
  BY <1>1, AssignFound DEF FindTeam
<1>2. CASE x # NotSet
  <2>1. PICK g \in Suggestion(t, x) : s \in (IF g[2] = NotSet THEN Assign(g[1]) ELSE {g})
    BY <1>2 DEF FindTeam
  <2>2. Found(t, g)
    BY <1>2, SuggestionFound
  <2>3. g[1] \in TablesType /\ Sound(g[1])
    BY <2>2 DEF Found, Reduced
  <2>4. CASE g[2] = NotSet
    <3>1. Found(g[1], s)
      BY <2>1, <2>3, <2>4, AssignFound
    <3>2. Reduced(t, s[1])
      BY <2>2, <3>1, ReducedFurther DEF Found
    <3>3. QED
      BY <3>1, <3>2 DEF Found
  <2>5. CASE g[2] # NotSet
    BY <2>1, <2>2, <2>5
  <2>6. QED
    BY <2>4, <2>5
<1>3. QED
  BY <1>1, <1>2

LEMMA ReducedFine ==
    ASSUME NEW t \in TablesType, NEW r, Reduced(t, r), t.fault = "none", NEW p \in Player
    PROVE  Fine(t, r)
<1>1. OneMoves(t, r, p)
  BY DEF OneMoves, Reduced
<1>2. ASSUME NEW x \in Team PROVE Waits(r, x) = Waits(t, x) \/ Waits(r, x) = NotSet
  <2>1. CASE r.swapper[x] = NoId
    BY <2>1 DEF Waits
  <2>2. CASE r.swapper[x] # NoId
    <3>1. r.swapper[x] = t.swapper[x] /\ r.swapper[x] \in r.players
      BY <2>2 DEF Reduced, Sound, QueuedOnce
    <3>2. r.base[r.swapper[x]] = t.base[t.swapper[x]] /\ r.team[r.swapper[x]] = t.team[t.swapper[x]]
      BY <3>1 DEF Reduced
    <3>3. QED
      BY <3>1, <3>2 DEF Waits
  <2>3. QED
    BY <2>1, <2>2
<1>3. Circle(r) => Circle(t)
  BY <1>2, FewerWait
<1>4. QED
  BY <1>1, <1>3 DEF Fine, Reduced

(* A login that is in progress changes nothing else. *)
LEMMA LoginSet ==
    ASSUME NEW t \in TablesType, NEW r \in TablesType, Fine(t, r), NEW h \in Human,
           NEW v \in Team \cup {NotSet, NoLogin}, v # NoLogin => h \notin r.players
    PROVE  Fine(t, [r EXCEPT !.login[h] = v])
<1> DEFINE lg == [r.login EXCEPT ![h] = v]
           s == [r EXCEPT !.login = lg]
<1>1. lg \in [Human -> Team \cup {NotSet, NoLogin}]
  BY Fields
<1>2. \A o \in Human : lg[o] # NoLogin => r.login[o] # NoLogin \/ (o = h /\ v # NoLogin)
  BY Fields
<1> HIDE DEF lg
<1>3. /\ s \in TablesType
      /\ s.players = r.players /\ s.team = r.team /\ s.base = r.base /\ s.paused = r.paused
      /\ s.prev = r.prev /\ s.members = r.members /\ s.robots = r.robots
      /\ s.swapper = r.swapper /\ s.fault = r.fault /\ s.login = lg
  BY <1>1 DEF TablesType
<1> HIDE DEF s
<1>4. Sound(r) => Sound(s)
  <2>1. Absent(r) => Absent(s)
    BY <1>2, <1>3 DEF Absent
  <2>2. OwnHomes(r) => OwnHomes(s)
    BY <1>3 DEF OwnHomes
  <2>3. QueuedOnce(r) /\ RobotsKeep(r) /\ NoReturn(r)
           => QueuedOnce(s) /\ RobotsKeep(s) /\ NoReturn(s)
    BY <1>3 DEF QueuedOnce, RobotsKeep, NoReturn
  <2>4. QED
    BY <2>1, <2>2, <2>3 DEF Sound
<1>5. /\ Right(r) => Right(s)
      /\ Tallied(r) => Tallied(s)
      /\ RobotsStay(t, s) => RobotsStay(t, r)
  BY <1>3 DEF Right, MembersOf, Tallied, RobotsOf, RobotsStay
<1>6. \A p : OneMoves(t, r, p) => OneMoves(t, s, p)
  BY <1>3 DEF OneMoves
<1>7. Circle(s) => Circle(r)
  BY <1>3 DEF Circle, Waits
<1>8. Fine(t, s)
  BY <1>3, <1>4, <1>5, <1>6, <1>7 DEF Fine
<1>9. QED
  BY <1>8 DEF s, lg

-----------------------------------------------------------------------------
(* Players enter.                                                          *)

(* The tables with h in them, and not logging in any more. *)
Let(c, h) == [c EXCEPT !.players = @ \cup {h}, !.login[h] = NoLogin]

LetIn(c, h, i) ==
    /\ i \in TablesType
    /\ i.players = c.players \cup {h} /\ i.team = c.team /\ i.base = c.base
    /\ i.paused = c.paused /\ i.prev = c.prev /\ i.members = c.members
    /\ i.robots = c.robots /\ i.swapper = c.swapper /\ i.fault = c.fault
    /\ i.login = [c.login EXCEPT ![h] = NoLogin]

LEMMA LetInIs ==
    ASSUME NEW c \in TablesType, NEW h \in Human
    PROVE  LetIn(c, h, Let(c, h))
<1> DEFINE pls == c.players \cup {h}
           lg == [c.login EXCEPT ![h] = NoLogin]
           i == Let(c, h)
<1>1. pls \in SUBSET Player /\ lg \in [Human -> Team \cup {NotSet, NoLogin}]
  BY Ids, Fields
<1>2. i = [c EXCEPT !.players = pls, !.login = lg]
  BY DEF Let
<1> HIDE DEF pls, lg, i
<1>3. /\ i \in TablesType
      /\ i.players = pls /\ i.team = c.team /\ i.base = c.base
      /\ i.paused = c.paused /\ i.prev = c.prev /\ i.members = c.members
      /\ i.robots = c.robots /\ i.swapper = c.swapper /\ i.fault = c.fault
      /\ i.login = lg
  BY <1>1, <1>2 DEF TablesType
<1>4. LetIn(c, h, i)
  BY <1>3 DEF LetIn, pls, lg
<1>5. QED
  BY <1>4 DEF i

(* Without a team, and so without a base. *)
Stays(t, r, h) ==
    /\ r \in TablesType
    /\ r.players = t.players \cup {h} /\ r.team = t.team /\ r.base = t.base
    /\ \A q \in Player \ {h} : r.paused[q] = t.paused[q]
    /\ r.prev = t.prev /\ r.swapper = t.swapper
    /\ r.login = [t.login EXCEPT ![h] = NoLogin]
    /\ r.robots = t.robots
    /\ Right(t) => r.members = t.members

LEMMA StaysFine ==
    ASSUME NEW t \in TablesType, Sound(t), NEW h \in Human, h \notin t.players,
           NEW r, Stays(t, r, h), r.fault = "none"
    PROVE  Fine(t, r)
<1> USE DEF Stays
<1>1. h \in Player /\ h \notin Robot /\ t.players \subseteq Player
  BY Ids, Fields
<1>2. t.base[h] = NoBase /\ \A y \in Team : t.swapper[y] # h
  BY <1>1, Ids, Fields DEF Sound, Absent, QueuedOnce
<1>3. OthersStay(t, r, h)
  BY <1>2 DEF OthersStay
<1>4. OneMoves(t, r, h) /\ (~options.baselessPausing /\ Circle(r) => Circle(t))
  BY <1>1, <1>3, StayFine
<1>5. Sound(r)
  <2>1. OwnHomes(r)
    BY <1>2 DEF Sound, OwnHomes
  <2>2. Absent(r)
    BY Fields DEF Sound, Absent
  <2>3. QueuedOnce(r) /\ NoReturn(r)
    BY DEF Sound, QueuedOnce, NoReturn
  <2>4. RobotsKeep(r)
    BY <1>1, Ids DEF Sound, RobotsKeep
  <2>5. QED
    BY <2>1, <2>2, <2>3, <2>4 DEF Sound
<1>6. \A y \in Team : MembersOf(r, y) = MembersOf(t, y)
  BY <1>1, <1>2 DEF MembersOf
<1>7. Right(t) => Right(r)
  BY <1>6 DEF Right
<1>8. Tallied(t) /\ RobotsStay(t, r) => Tallied(r)
  BY <1>1, StayTallied
<1>9. QED
  BY <1>1, <1>4, <1>5, <1>7, <1>8 DEF Fine

(* The team is counted again before it is looked at. *)
Looked(t, asked) == IF Wants(asked) THEN Recount(t, asked) ELSE t

LookedAt(t, c) ==
    /\ c \in TablesType
    /\ c.players = t.players /\ c.team = t.team /\ c.base = t.base /\ c.paused = t.paused
    /\ c.prev = t.prev /\ c.swapper = t.swapper /\ c.robots = t.robots
    /\ c.login = t.login /\ c.fault = t.fault
    /\ Right(t) => c.members = t.members

LEMMA LookedIs ==
    ASSUME NEW t \in TablesType, NEW asked \in Team \cup {NotSet, NoLogin}, asked # NoLogin
    PROVE  LookedAt(t, Looked(t, asked))
<1>1. CASE Wants(asked)
  <2> DEFINE c == Recount(t, asked)
  <2>1. asked \in Team
    BY <1>1 DEF Wants
  <2>2. Recounted(t, asked, c)
    BY <2>1, RecountIs
  <2> HIDE DEF c
  <2>3. Right(t) => c.members = t.members
    <3>1. SUFFICES ASSUME Right(t) PROVE c.members = t.members
      OBVIOUS
    <3>2. t.members[asked] = Cardinality(MembersOf(t, asked)) /\ t.members \in [Team -> Int]
      BY <2>1, <3>1, Fields DEF Right
    <3>3. c.members = [t.members EXCEPT ![asked] = t.members[asked]]
      BY <2>2, <3>2 DEF Recounted
    <3>4. QED
      BY <2>1, <3>2, <3>3
  <2>4. LookedAt(t, c)
    BY <2>2, <2>3 DEF LookedAt, Recounted
  <2>5. QED
    BY <1>1, <2>4 DEF Looked, c
<1>2. CASE ~Wants(asked)
  BY <1>2 DEF Looked, LookedAt
<1>3. QED
  BY <1>1, <1>2

(* There is room for a login unless it is let in for the robots of a team. *)
LEMMA LoginTeamHasRoom ==
    ASSUME NEW t \in TablesType, Sound(t), Settled(t), NEW asked \in Team \cup {NotSet, NoLogin},
           asked # NoLogin, \E h \in Human : t.login[h] = asked, NEW x \in LoginTeam(Looked(t, asked), asked), x # NotSet
    PROVE  x \in Team /\ HasRoom(t, x)
<1> DEFINE c == Looked(t, asked)
<1>1. LookedAt(t, c)
  BY LookedIs
<1>2. c.members = t.members /\ c.robots = t.robots
  BY <1>1 DEF LookedAt, Settled
<1> HIDE DEF c
<1>3. CASE Wants(asked) /\ Open(c, asked)
  <2>1. x = asked /\ x \in Team
    BY <1>3 DEF LoginTeam, Wants, c
  <2>2. t.members[x] - t.robots[x] < NumBases[x]
    BY <1>2, <1>3, <2>1 DEF Open
  <2>3. t.members[x] \in Int /\ t.robots[x] \in Int /\ NumBases[x] \in Int
    BY <2>1, Fields, TeamsOfBases
  <2>4. SUFFICES ASSUME ~HasRoom(t, x) PROVE FALSE
    BY <2>1
  <2>5. t.robots[x] > 0
    BY <2>2, <2>3, <2>4 DEF HasRoom
  <2>6. CASE options.restrictRobots /\ options.reserveRobotTeam
    <3>1. x # options.robotTeam
      BY <1>3, <2>1, <2>6 DEF Wants
    <3>2. t.robots[x] <= 0
      BY <2>1, <2>6, <3>1 DEF Sound, RobotsKeep
    <3>3. QED
      BY <2>3, <2>5, <3>2
  <2>7. CASE ~(options.restrictRobots /\ options.reserveRobotTeam)
    <3>1. PICK h \in Human : t.login[h] = x
      BY <2>1
    <3>2. t.login[h] # NoLogin /\ Wants(t.login[h])
      BY <1>3, <2>1, <3>1
    <3>3. Excused(t)
      BY <2>4, <2>5, <2>7, <3>1, <3>2 DEF Excused
    <3>4. QED
      BY <3>3 DEF Settled
  <2>8. QED
    BY <2>6, <2>7
<1>4. CASE ~(Wants(asked) /\ Open(c, asked))
  <2>1. x \in PickHuman(c)
    BY <1>4 DEF LoginTeam, c
  <2>2. QED
    BY <1>2, <2>1, PickHumanIs DEF HasRoom
<1>5. QED
  BY <1>3, <1>4

LEMMA LoginTeamIs ==
    ASSUME NEW c, NEW asked, NEW x \in LoginTeam(c, asked), asked \in Team \cup {NotSet, NoLogin}, asked # NoLogin
    PROVE  x \in Team \cup {NotSet}
  BY PickHumanIs DEF LoginTeam

TeamSet(t, p, x, m) ==
    /\ m \in TablesType
    /\ m.players = t.players /\ m.base = t.base /\ m.paused = t.paused
    /\ m.prev = t.prev /\ m.members = t.members /\ m.robots = t.robots
    /\ m.swapper = t.swapper /\ m.login = t.login /\ m.fault = t.fault
    /\ m.team = [t.team EXCEPT ![p] = x]

LEMMA TeamSetIs ==
    ASSUME NEW t \in TablesType, NEW p \in Player, NEW x \in Team,
           NEW m, m = [t EXCEPT !.team[p] = x]
    PROVE  TeamSet(t, p, x, m)
<1> DEFINE tms == [t.team EXCEPT ![p] = x]
<1>1. tms \in [Player -> Team]
  BY Fields
<1>2. m = [t EXCEPT !.team = tms]
  OBVIOUS
<1> HIDE DEF tms
<1>3. /\ m \in TablesType
      /\ m.players = t.players /\ m.base = t.base /\ m.paused = t.paused
      /\ m.prev = t.prev /\ m.members = t.members /\ m.robots = t.robots
      /\ m.swapper = t.swapper /\ m.login = t.login /\ m.fault = t.fault
      /\ m.team = tms
  BY <1>1, <1>2 DEF TablesType
<1>4. QED
  BY <1>3 DEF tms, TeamSet

OneMore(t, x, m) ==
    /\ m \in TablesType
    /\ m.players = t.players /\ m.base = t.base /\ m.paused = t.paused
    /\ m.prev = t.prev /\ m.team = t.team /\ m.robots = t.robots
    /\ m.swapper = t.swapper /\ m.login = t.login /\ m.fault = t.fault
    /\ m.members = [t.members EXCEPT ![x] = @ + 1]

LEMMA OneMoreIs ==
    ASSUME NEW t \in TablesType, NEW x \in Team, NEW m, m = [t EXCEPT !.members[x] = @ + 1]
    PROVE  OneMore(t, x, m)
<1> DEFINE mbs == [t.members EXCEPT ![x] = @ + 1]
<1>1. mbs \in [Team -> Int]
  BY Fields
<1>2. m = [t EXCEPT !.members = mbs]
  OBVIOUS
<1> HIDE DEF mbs
<1>3. /\ m \in TablesType
      /\ m.players = t.players /\ m.base = t.base /\ m.paused = t.paused
      /\ m.prev = t.prev /\ m.team = t.team /\ m.robots = t.robots
      /\ m.swapper = t.swapper /\ m.login = t.login /\ m.fault = t.fault
      /\ m.members = mbs
  BY <1>1, <1>2 DEF TablesType
<1>4. QED
  BY <1>3 DEF mbs, OneMore

LEMMA EnterFine ==
    ASSUME NEW t \in TablesType, Sound(t), t.fault = "none", NEW h \in Human,
           t.login[h] # NoLogin, NEW asked, asked = t.login[h],
           NEW x \in LoginTeam(Looked(t, asked), asked), x # NotSet,
           NEW r \in Enter([Let(Looked(t, asked), h) EXCEPT !.team[h] = x], h)
    PROVE  Fine(t, r)
<1> DEFINE c == Looked(t, asked)
           i == Let(c, h)
           m == [i EXCEPT !.team[h] = x]
<1>1. /\ h \in Player /\ h \notin Robot /\ h \notin t.players /\ t.players \subseteq Player
      /\ t.base[h] = NoBase /\ \A y \in Team : t.swapper[y] # h
  BY Ids, Fields DEF Sound, Absent, QueuedOnce
<1>2. asked \in Team \cup {NotSet, NoLogin} /\ asked # NoLogin
  BY Fields
<1>3. x \in Team
  BY <1>2, LoginTeamIs
<1>4. LookedAt(t, c)
  BY <1>2, LookedIs
<1>5. PICK u \in Pick_startpos(m, h) : r = [u EXCEPT !.members[m.team[h]] = @ + 1]
  BY DEF Enter
<1>6. Settled(t) => HasRoom(t, x)
  <2>1. \E o \in Human : t.login[o] = asked
    OBVIOUS
  <2> HIDE DEF c
  <2>2. QED
    BY <1>2, <2>1, LoginTeamHasRoom DEF c
<1> HIDE DEF c
<1>7. LetIn(c, h, i)
  BY <1>4, LetInIs DEF LookedAt
<1> HIDE DEF i
<1>8. TeamSet(i, h, x, m)
  BY <1>1, <1>3, <1>7, TeamSetIs DEF LetIn
<1> HIDE DEF m
<1>9. m.team[h] = x
  BY <1>1, <1>7, <1>8, Fields DEF TeamSet, LetIn
<1>10. /\ m \in TablesType /\ m.team = [t.team EXCEPT ![h] = x] /\ m.base = t.base
       /\ m.fault = "none" /\ m.players = t.players \cup {h} /\ m.paused = t.paused
       /\ m.prev = t.prev /\ m.robots = t.robots /\ m.swapper = t.swapper
       /\ m.login = [t.login EXCEPT ![h] = NoLogin] /\ (Right(t) => m.members = t.members)
  BY <1>4, <1>7, <1>8 DEF TeamSet, LetIn, LookedAt
<1>11. FindsBase(t, h, x, u)
  <2>1. t.players \subseteq m.players /\ m.players \subseteq t.players \cup {h}
    BY <1>10
  <2>2. QED
    BY <1>1, <1>3, <1>10, <2>1, Picked
<1>12. PICK b : /\ u.base = [t.base EXCEPT ![h] = b]
                /\ \/ u.fault = "none" /\ Vacant(t, h, x, b)
                   \/ /\ u.fault = "end" /\ b = t.base[h]
                      /\ Right(t) => t.members[x] >= NumBases[x]
  BY <1>11 DEF FindsBase
<1>13. IsPicked(m, h, u)
  BY <1>1, <1>10, PickIs
<1>14. OneMore(u, x, r)
  BY <1>3, <1>5, <1>9, <1>13, OneMoreIs DEF IsPicked
<1>15. /\ r \in TablesType /\ r.players = t.players \cup {h} /\ r.team = [t.team EXCEPT ![h] = x]
       /\ r.base = [t.base EXCEPT ![h] = b] /\ r.paused = t.paused /\ r.prev = t.prev
       /\ r.robots = t.robots /\ r.swapper = t.swapper
       /\ r.login = [t.login EXCEPT ![h] = NoLogin] /\ r.fault = u.fault
       /\ r.members = [m.members EXCEPT ![x] = @ + 1]
  BY <1>10, <1>12, <1>13, <1>14 DEF OneMore, IsPicked
<1>16. PlacedAt(t, r, h, x, b)
  <2>1. \A o \in Human : r.login[o] # NoLogin => t.login[o] # NoLogin /\ o # h
    BY <1>15, Fields
  <2>2. QED
    BY <1>1, <1>15, <2>1 DEF PlacedAt
<1>17. ASSUME Right(t) PROVE CountedIn(t, r, h, x)
  <2>1. \A y \in Team : h \notin MembersOf(t, y)
    BY <1>1 DEF MembersOf
  <2>2. r.members = [t.members EXCEPT ![x] = @ + 1]
    BY <1>10, <1>15, <1>17
  <2>3. ASSUME NEW y \in Team
        PROVE  r.members[y] = t.members[y] - 0 + (IF y = x THEN 1 ELSE 0)
    BY <2>2, Fields
  <2>4. QED
    BY <2>1, <2>3 DEF CountedIn
<1>19. RobotsIn(t, r, h, x)
  <2>1. \A y \in Team : r.robots[y] = t.robots[y] + 0
    BY <1>15, Fields
  <2>2. QED
    BY <1>1, <2>1 DEF RobotsIn
<1>18. r.fault = "end" => ~Settled(t)
  <2>1. t.members[x] \in Int /\ NumBases[x] \in Int
    BY <1>3, Fields, TeamsOfBases
  <2>2. QED
    BY <1>6, <1>12, <1>15, <2>1 DEF HasRoom, Settled
<1>20. Placing(t, r, h, x, b)
  BY <1>1, <1>12, <1>15, <1>16, <1>17, <1>18, <1>19 DEF Placing
<1>21. QED
  BY <1>1, <1>3, <1>20, PlacedFine

LEMMA StaysOutFine ==
    ASSUME NEW t \in TablesType, Sound(t), t.fault = "none", NEW h \in Human,
           t.login[h] # NoLogin, NEW asked, asked = t.login[h],
           NEW r, r = [Let(Looked(t, asked), h) EXCEPT !.paused[h] = TRUE]
    PROVE  Fine(t, r)
<1> DEFINE c == Looked(t, asked)
           i == Let(c, h)
           ps == [i.paused EXCEPT ![h] = TRUE]
<1>1. h \in Player /\ h \notin t.players /\ asked \in Team \cup {NotSet, NoLogin}
  BY Ids, Fields DEF Sound, Absent
<1>2. LookedAt(t, c)
  BY <1>1, LookedIs
<1> HIDE DEF c
<1>3. LetIn(c, h, i)
  BY <1>2, LetInIs DEF LookedAt
<1>4. r = [i EXCEPT !.paused = ps]
  BY DEF c
<1> HIDE DEF i
<1>5. i \in TablesType
  BY <1>3 DEF LetIn
<1>6. ps \in [Player -> BOOLEAN] /\ \A q \in Player \ {h} : ps[q] = i.paused[q]
  BY <1>5, Fields
<1> HIDE DEF ps
<1>7. /\ r \in TablesType
      /\ r.players = i.players /\ r.base = i.base /\ r.paused = ps
      /\ r.prev = i.prev /\ r.team = i.team /\ r.robots = i.robots
      /\ r.swapper = i.swapper /\ r.login = i.login /\ r.fault = i.fault
      /\ r.members = i.members
  BY <1>4, <1>5, <1>6 DEF TablesType
<1>8. Stays(t, r, h) /\ r.fault = "none"
  BY <1>2, <1>3, <1>6, <1>7 DEF Stays, LookedAt, LetIn
<1>9. QED
  BY <1>1, <1>8, StaysFine

LEMMA CreateFine ==
    ASSUME NEW t \in TablesType, Sound(t), t.fault = "none", options \in Options,
           NEW o \in Robot, o \notin t.players, NEW x \in PickRobot(t), x # NotSet,
           NEW u \in Pick_startpos([t EXCEPT !.team[o] = x, !.members[x] = @ + 1,
                                             !.robots[x] = @ + 1], o),
           NEW r, r = [u EXCEPT !.players = @ \cup {o}]
    PROVE  Fine(t, r)
<1> DEFINE tms == [t.team EXCEPT ![o] = x]
           mbs == [t.members EXCEPT ![x] = @ + 1]
           rbs == [t.robots EXCEPT ![x] = @ + 1]
           m == [t EXCEPT !.team = tms, !.members = mbs, !.robots = rbs]
<1>1. /\ o \in Player /\ t.players \subseteq Player /\ ~t.paused[o] /\ t.base[o] = NoBase
      /\ (\A y \in Team : t.swapper[y] # o) /\ (\A h \in Human : h # o)
  BY Ids, Fields DEF Sound, Absent, QueuedOnce, RobotsKeep
<1>2. x \in Team /\ HasRoom(t, x) /\ (options.restrictRobots => x = options.robotTeam)
  BY PickRobotIs
<1>3. tms \in [Player -> Team] /\ mbs \in [Team -> Int] /\ rbs \in [Team -> Int]
  BY <1>1, <1>2, Fields
<1>4. u \in Pick_startpos(m, o)
  OBVIOUS
<1> HIDE DEF tms, mbs, rbs
<1>5. /\ m \in TablesType
      /\ m.players = t.players /\ m.team = tms /\ m.base = t.base /\ m.paused = t.paused
      /\ m.prev = t.prev /\ m.members = mbs /\ m.robots = rbs
      /\ m.swapper = t.swapper /\ m.login = t.login /\ m.fault = t.fault
  BY <1>3 DEF TablesType
<1> HIDE DEF m
<1>6. FindsBase(t, o, x, u)
  <2>1. m.team = [t.team EXCEPT ![o] = x] /\ m.fault = "none"
    BY <1>5 DEF tms
  <2>2. t.players \subseteq m.players /\ m.players \subseteq t.players \cup {o}
    BY <1>5
  <2>3. QED
    BY <1>1, <1>2, <1>4, <1>5, <2>1, <2>2, Picked
<1>7. IsPicked(m, o, u)
  BY <1>1, <1>4, <1>5, PickIs
<1>8. PICK b : /\ u.base = [t.base EXCEPT ![o] = b]
               /\ \/ u.fault = "none" /\ Vacant(t, o, x, b)
                  \/ /\ u.fault = "end" /\ b = t.base[o]
                     /\ Right(t) => t.members[x] >= NumBases[x]
  BY <1>6 DEF FindsBase
<1>9. /\ r \in TablesType /\ r.players = u.players \cup {o} /\ r.team = u.team
      /\ r.base = u.base /\ r.paused = u.paused /\ r.prev = u.prev /\ r.members = u.members
      /\ r.robots = u.robots /\ r.swapper = u.swapper /\ r.login = u.login /\ r.fault = u.fault
  <2>1. u \in TablesType /\ u.players \cup {o} \in SUBSET Player
    BY <1>1, <1>7, Fields DEF IsPicked
  <2>2. QED
    BY <2>1 DEF TablesType
<1>10. PlacedAt(t, r, o, x, b)
  <2>1. \A h \in Human : r.login[h] # NoLogin => t.login[h] # NoLogin /\ h # o
    BY <1>1, <1>5, <1>7, <1>9 DEF IsPicked
  <2>2. QED
    BY <1>1, <1>5, <1>7, <1>8, <1>9, <2>1 DEF PlacedAt, IsPicked, tms
<1>11. CountedIn(t, r, o, x) /\ RobotsIn(t, r, o, x)
  <2>1. \A y \in Team : o \notin MembersOf(t, y)
    BY <1>1 DEF MembersOf
  <2>2. r.members = mbs /\ r.robots = rbs
    BY <1>5, <1>7, <1>9 DEF IsPicked
  <2>3. ASSUME NEW y \in Team
        PROVE  /\ r.members[y] = t.members[y] - 0 + (IF y = x THEN 1 ELSE 0)
               /\ r.robots[y] = t.robots[y] + (IF y = x THEN 1 ELSE 0)
    BY <2>2, Fields DEF mbs, rbs
  <2>4. QED
    BY <2>1, <2>3 DEF CountedIn, RobotsIn
<1>12. r.fault = "end" => ~Settled(t)
  <2>1. t.members[x] \in Int /\ NumBases[x] \in Int
    BY <1>2, Fields, TeamsOfBases
  <2>2. QED
    BY <1>2, <1>8, <1>9, <2>1 DEF HasRoom, Settled
<1>13. Placing(t, r, o, x, b)
  BY <1>1, <1>2, <1>8, <1>9, <1>10, <1>11, <1>12 DEF Placing
<1>14. QED
  BY <1>1, <1>2, <1>13, PlacedFine

-----------------------------------------------------------------------------
(* Changes of home.                                                        *)

(* Nobody changes team, and a base, if any, for another one.               *)
Rehoused(t, r) ==
    /\ r \in TablesType
    /\ r.players = t.players /\ r.team = t.team /\ r.paused = t.paused /\ r.prev = t.prev
    /\ r.members = t.members /\ r.robots = t.robots
    /\ r.swapper = t.swapper /\ r.login = t.login

(* Nobody is left out. *)
KeepsBases(t, r) == \A p \in Player : t.base[p] = NoBase <=> r.base[p] = NoBase

LEMMA RehousedFine ==
    ASSUME NEW t \in TablesType, Sound(t), NEW r, Rehoused(t, r), NEW p \in Player,
           Based(t) => KeepsBases(t, r), Settled(t) => r.fault # "end",
           r.fault = "none" => OwnHomes(r) /\ \A q \in Player \ r.players : r.base[q] = NoBase
    PROVE  Fine(t, r)
<1> USE DEF Rehoused
<1>1. OneMoves(t, r, p)
  BY DEF OneMoves
<1>2. r.fault = "none" => Sound(r)
  BY DEF Sound, Absent, QueuedOnce, RobotsKeep, NoReturn
<1>3. ASSUME KeepsBases(t, r), Right(t) PROVE Right(r)
  <2>1. \A y \in Team : MembersOf(r, y) = MembersOf(t, y)
    BY <1>3, Fields DEF MembersOf, KeepsBases
  <2>2. QED
    BY <1>3, <2>1 DEF Right
<1>4. ASSUME KeepsBases(t, r), Circle(r) PROVE Circle(t)
  <2>1. \A x \in Team : t.swapper[x] \in Player \cup {NoId}
    BY Fields
  <2>2. \A x \in Team : Waits(r, x) = Waits(t, x)
    BY <1>4, <2>1 DEF Waits, KeepsBases
  <2>3. QED
    BY <1>4, <2>2, FewerWait
<1>5. Tallied(t) /\ RobotsStay(t, r) => Tallied(r)
  BY StayTallied
<1>6. QED
  BY <1>1, <1>2, <1>3, <1>4, <1>5 DEF Fine, Settled

HomeIs(t, p, b, m) ==
    /\ m \in TablesType /\ Rehoused(t, m) /\ m.fault = t.fault
    /\ m.base = [t.base EXCEPT ![p] = b]

LEMMA HomeSet ==
    ASSUME NEW t \in TablesType, NEW p \in Player, NEW b \in Base, NEW m, m = [t EXCEPT !.base[p] = b]
    PROVE  HomeIs(t, p, b, m)
<1> DEFINE bs == [t.base EXCEPT ![p] = b]
<1>1. bs \in [Player -> Base \cup {NoBase}]
  BY Fields
<1>2. m = [t EXCEPT !.base = bs]
  OBVIOUS
<1> HIDE DEF bs
<1>3. /\ m \in TablesType
      /\ m.players = t.players /\ m.team = t.team /\ m.paused = t.paused
      /\ m.prev = t.prev /\ m.members = t.members /\ m.robots = t.robots
      /\ m.swapper = t.swapper /\ m.login = t.login /\ m.fault = t.fault
      /\ m.base = bs
  BY <1>1, <1>2 DEF TablesType
<1>4. QED
  BY <1>3 DEF bs, HomeIs, Rehoused

LEMMA NewHomeFine ==
    ASSUME NEW t \in TablesType, Sound(t), t.fault = "none", NEW p \in Player, p \in t.players,
           ~t.paused[p], NEW b \in Base, b[1] = t.team[p], b # t.base[p],
           \A q \in t.players \ {p} : t.base[q] # b,
           NEW r, HomeIs(t, p, b, r)
    PROVE  Fine(t, r)
<1> USE DEF HomeIs
<1>1. /\ r.base[p] = b /\ b # NoBase /\ t.players \subseteq Player
      /\ \A q \in Player \ {p} : r.base[q] = t.base[q]
  BY Fields, BaseIs
<1>2. Rehoused(t, r) /\ r.fault = "none"
  OBVIOUS
<1> HIDE DEF HomeIs
<1>3. OwnHomes(r)
  BY <1>1, <1>2 DEF Rehoused, Sound, OwnHomes
<1>4. \A q \in Player \ r.players : r.base[q] = NoBase
  BY <1>1, <1>2 DEF Rehoused, Sound, Absent
<1>5. Based(t) => KeepsBases(t, r)
  BY <1>1 DEF Based, KeepsBases
<1>6. QED
  BY <1>2, <1>3, <1>4, <1>5, RehousedFine

(* Whoever had the base can at least have the one that is given up. *)
LEMMA SwapHomeFine ==
    ASSUME NEW t \in TablesType, Sound(t), t.fault = "none", NEW p \in Player, p \in t.players,
           ~t.paused[p], NEW b \in Base, b[1] = t.team[p], b # t.base[p],
           NEW q \in t.players \ {p}, t.base[q] = b, NEW m, m = [t EXCEPT !.base[p] = b],
           NEW r \in Pick_startpos(m, q)
    PROVE  Fine(t, r)
<1>1. HomeIs(t, p, b, m)
  BY HomeSet
<1>2. m \in TablesType /\ q \in Player /\ t.players \subseteq Player
  BY <1>1, Fields DEF HomeIs
<1>3. IsPicked(m, q, r)
  BY <1>2, PickIs
<1>4. /\ m.base[p] = b /\ b # NoBase
      /\ \A o \in Player \ {p} : m.base[o] = t.base[o]
  BY <1>1, Fields, BaseIs DEF HomeIs
<1>5. m.team = t.team /\ m.players = t.players /\ m.fault = "none"
  BY <1>1 DEF HomeIs, Rehoused
<1>6. Rehoused(t, r)
  BY <1>1, <1>3 DEF IsPicked, HomeIs, Rehoused
<1>7. t.team[q] = t.team[p]
  BY <1>4 DEF Sound, OwnHomes
<1>8. ASSUME Based(t) PROVE t.base[p] \in FreeBases(m, q)
  <2>1. t.base[p] # NoBase /\ t.base[p] \in Base
    BY <1>8, Fields DEF Based
  <2>2. t.base[p][1] = t.team[q]
    BY <1>7, <2>1 DEF Sound, OwnHomes
  <2>3. \A o \in t.players \ {q} : m.base[o] # t.base[p]
    BY <1>2, <1>4, <2>1 DEF Sound, OwnHomes
  <2>4. QED
    BY <1>5, <2>1, <2>2, <2>3 DEF FreeBases
<1>9. CASE FreeBases(m, q) = {} /\ r.fault = "end" /\ r.base = m.base
  <2>1. ~Based(t)
    BY <1>8, <1>9
  <2>2. r.fault # "none"
    BY <1>9
  <2>3. QED
    BY <1>6, <2>1, <2>2, RehousedFine DEF Settled
<1>10. ASSUME NEW c \in FreeBases(m, q), r.fault = m.fault, r.base = [m.base EXCEPT ![q] = c]
       PROVE  Fine(t, r)
  <2>1. /\ c \in Base /\ c # NoBase /\ c[1] = t.team[q]
        /\ \A o \in t.players \ {q} : m.base[o] # c
    BY <1>5, BaseIs DEF FreeBases
  <2>2. /\ r.base[q] = c /\ r.base[p] = b
        /\ \A o \in Player \ {p, q} : r.base[o] = t.base[o]
    BY <1>2, <1>4, <1>10, Fields
  <2>3. OwnHomes(r)
    <3>1. r.players = t.players /\ r.team = t.team
      BY <1>6 DEF Rehoused
    <3>2. ASSUME NEW o \in t.players, r.base[o] # NoBase
          PROVE  /\ r.base[o][1] = t.team[o]
                 /\ \A z \in t.players \ {o} : r.base[z] # r.base[o]
      <4>1. b # c
        BY <1>4, <2>1
      <4>2. \A z \in t.players \ {p, q} : t.base[z] # b /\ t.base[z] # c
        BY <1>2, <1>4, <2>1 DEF Sound, OwnHomes
      <4>3. CASE o = p
        BY <1>2, <2>2, <4>1, <4>2, <4>3
      <4>4. CASE o = q
        BY <1>2, <2>1, <2>2, <4>1, <4>2, <4>4
      <4>5. CASE o # p /\ o # q
        <5>1. t.base[o] # NoBase /\ r.base[o] = t.base[o]
          BY <1>2, <2>2, <3>2, <4>5
        <5>2. r.base[o][1] = t.team[o]
          BY <5>1 DEF Sound, OwnHomes
        <5>3. ASSUME NEW z \in t.players \ {o} PROVE r.base[z] # r.base[o]
          <6>1. CASE z = p \/ z = q
            BY <2>2, <4>2, <4>5, <5>1, <6>1
          <6>2. CASE z # p /\ z # q
            BY <1>2, <2>2, <5>1, <6>2 DEF Sound, OwnHomes
          <6>3. QED
            BY <6>1, <6>2
        <5>4. QED
          BY <5>2, <5>3
      <4>6. QED
        BY <4>3, <4>4, <4>5
    <3>3. QED
      BY <3>1, <3>2 DEF OwnHomes
  <2>4. \A o \in Player \ r.players : r.base[o] = NoBase
    BY <1>6, <2>2 DEF Rehoused, Sound, Absent
  <2>5. Based(t) => KeepsBases(t, r)
    BY <1>2, <1>4, <2>1, <2>2 DEF Based, KeepsBases
  <2>6. r.fault = "none"
    BY <1>5, <1>10
  <2>7. QED
    BY <1>6, <2>3, <2>4, <2>5, <2>6, RehousedFine
<1>11. QED
  BY <1>3, <1>9, <1>10 DEF IsPicked

-----------------------------------------------------------------------------
(* Exchanges of places.                                                    *)

(* Everyone has the place, team and base, that f[q] had.                   *)
Exchanged(t, r, f) ==
    /\ r \in TablesType
    /\ r.players = t.players /\ r.prev = t.prev /\ r.members = t.members
    /\ r.robots = t.robots /\ r.login = t.login /\ r.fault = t.fault
    /\ \A q \in t.players : r.team[q] = t.team[f[q]] /\ r.base[q] = t.base[f[q]]
    /\ \A q \in Player \ t.players : r.base[q] = t.base[q]
    /\ \A o \in Robot : ~r.paused[o]
    /\ \A x \in Team : r.swapper[x] = t.swapper[x] \/ r.swapper[x] = NoId

Permutes(t, f) ==
    /\ f \in [t.players -> t.players]
    /\ \A q, z \in t.players : f[q] = f[z] => q = z

LEMMA Onto ==
    ASSUME NEW t \in TablesType, NEW f, Permutes(t, f)
    PROVE  \A z \in t.players : \E q \in t.players : f[q] = z
<1> DEFINE P == t.players
<1>1. f \in Injection(P, P)
  BY DEF Permutes, Injection, IsInjective
<1>2. IsFiniteSet(P)
  BY MembersFinite
<1> HIDE DEF P
<1>3. f \in Surjection(P, P)
  BY <1>1, <1>2, FS_Injection
<1>4. QED
  BY <1>3 DEF Surjection, P

LEMMA ExchangedSound ==
    ASSUME NEW t \in TablesType, Sound(t), NEW r, NEW f, Permutes(t, f), Exchanged(t, r, f)
    PROVE  Sound(r)
<1> USE DEF Permutes, Exchanged
<1>1. t.players \subseteq Player
  BY Fields
<1>2. OwnHomes(r)
  <2>1. ASSUME NEW q \in t.players, r.base[q] # NoBase
        PROVE  /\ r.base[q][1] = r.team[q]
               /\ \A z \in t.players \ {q} : r.base[z] # r.base[q]
    <3>1. f[q] \in t.players /\ r.base[q] = t.base[f[q]] /\ r.team[q] = t.team[f[q]]
      OBVIOUS
    <3>2. r.base[q][1] = r.team[q]
      BY <2>1, <3>1 DEF Sound, OwnHomes
    <3>3. ASSUME NEW z \in t.players \ {q} PROVE r.base[z] # r.base[q]
      <4>1. f[z] \in t.players \ {f[q]} /\ r.base[z] = t.base[f[z]]
        OBVIOUS
      <4>2. QED
        BY <2>1, <3>1, <4>1 DEF Sound, OwnHomes
    <3>4. QED
      BY <3>2, <3>3
  <2>2. QED
    BY <2>1 DEF OwnHomes
<1>3. Absent(r) /\ NoReturn(r)
  BY DEF Sound, Absent, NoReturn
<1>4. QueuedOnce(r)
  BY DEF Sound, QueuedOnce
<1>5. RobotsKeep(r)
  BY DEF Sound, RobotsKeep
<1>6. QED
  BY <1>2, <1>3, <1>4, <1>5 DEF Sound

LEMMA ExchangedRight ==
    ASSUME NEW t \in TablesType, NEW r, NEW f, Permutes(t, f), Exchanged(t, r, f), Right(t)
    PROVE  Right(r)
<1>1. SUFFICES ASSUME NEW y \in Team
               PROVE  r.members[y] = Cardinality(MembersOf(r, y))
  BY DEF Right
<1>2. \A z \in t.players : \E q \in t.players : f[q] = z
  BY Onto
<1>3. r.members = t.members /\ r.robots = t.robots /\ r.players = t.players /\ r \in TablesType
  BY DEF Exchanged
<1> DEFINE M == MembersOf(r, y)
           T == MembersOf(t, y)
           g == [q \in M |-> f[q]]
<1>4. \A q \in t.players : q \in M <=> f[q] \in T
  BY <1>3 DEF MembersOf, Exchanged, Permutes
<1>5. M \subseteq t.players /\ T \subseteq t.players
  BY <1>3 DEF MembersOf
<1>6. IsFiniteSet(M)
  BY <1>3, MembersFinite
<1> HIDE DEF M, T
<1>7. g \in [M -> T] /\ \A q, z \in M : g[q] = g[z] => q = z
  BY <1>4, <1>5 DEF Permutes
<1>8. \A z \in T : \E q \in M : g[q] = z
  BY <1>2, <1>4, <1>5
<1> HIDE DEF g
<1>9. g \in Bijection(M, T)
  BY <1>7, <1>8 DEF Bijection, Injection, Surjection, IsInjective
<1>10. ExistsBijection(M, T)
  BY <1>9 DEF ExistsBijection
<1>11. Cardinality(M) = Cardinality(T)
  BY <1>6, <1>10, FS_Bijection
<1>12. QED
  BY <1>3, <1>11 DEF Right, M, T

LEMMA ExchangedFine ==
    ASSUME NEW t \in TablesType, Sound(t), t.fault = "none", NEW r, NEW f,
           Permutes(t, f), Exchanged(t, r, f), NEW p \in Player, OneMoves(t, r, p),
           Based(t) /\ ~options.baselessPausing /\ Circle(r) => Circle(t)
    PROVE  Fine(t, r)
<1>1. Sound(r) /\ (Right(t) => Right(r))
  BY ExchangedSound, ExchangedRight
<1>2. r \in TablesType /\ r.fault = "none"
  BY DEF Exchanged
<1>3. Tallied(t) /\ RobotsStay(t, r) => Tallied(r)
  BY StayTallied DEF Exchanged
<1>4. QED
  BY <1>1, <1>2, <1>3 DEF Fine

(* The one at the head of a queue goes to its end, all others one up.      *)
Turn(f, S, who, len) ==
    /\ f \in [S -> S]
    /\ \A q, z \in S : f[q] = f[z] => q = z
    /\ f[who[0]] = who[len]
    /\ \A k \in 1 .. len : f[who[k]] = who[k - 1]
    /\ \A q \in S : (\A k \in 0 .. len : who[k] # q) => f[q] = q

LEMMA Turns ==
    ASSUME NEW S, NEW len \in Nat, NEW who \in [0 .. len -> S],
           \A i, j \in 0 .. len : who[i] = who[j] => i = j
    PROVE  \E f : Turn(f, S, who, len)
<1> DEFINE In(q) == \E k \in 0 .. len : who[k] = q
           At(q) == CHOOSE k \in 0 .. len : who[k] = q
           Prev(k) == IF k = 0 THEN len ELSE k - 1
           f == [q \in S |-> IF In(q) THEN who[Prev(At(q))] ELSE q]
<1>1. \A q : In(q) => At(q) \in 0 .. len /\ who[At(q)] = q
  OBVIOUS
<1>2. \A k \in 0 .. len : Prev(k) \in 0 .. len
  OBVIOUS
<1>3. \A i, j \in 0 .. len : Prev(i) = Prev(j) => i = j
  OBVIOUS
<1>4. \A k \in 0 .. len : In(who[k]) /\ who[k] \in S
  OBVIOUS
<1> HIDE DEF At, In
<1>5. \A k \in 0 .. len : At(who[k]) = k
  BY <1>1, <1>4
<1>6. \A k \in 0 .. len : f[who[k]] = who[Prev(k)]
  BY <1>4, <1>5
<1>7. \A q \in S : IF In(q) THEN f[q] = who[Prev(At(q))] ELSE f[q] = q
  OBVIOUS
<1>8. f \in [S -> S]
  <2> HIDE DEF Prev
  <2>1. \A q \in S : (IF In(q) THEN who[Prev(At(q))] ELSE q) \in S
    BY <1>1, <1>2
  <2>2. QED
    BY <2>1
<1> HIDE DEF f
<1>9. ASSUME NEW q \in S, NEW z \in S, f[q] = f[z] PROVE q = z
  <2> HIDE DEF Prev
  <2>1. CASE In(q) /\ In(z)
    <3>1. who[Prev(At(q))] = who[Prev(At(z))]
      BY <1>7, <1>9, <2>1
    <3>2. Prev(At(q)) = Prev(At(z))
      BY <1>1, <1>2, <2>1, <3>1
    <3>3. At(q) = At(z)
      BY <1>1, <1>3, <2>1, <3>2
    <3>4. QED
      BY <1>1, <2>1, <3>3
  <2>2. CASE In(q) /\ ~In(z)
    BY <1>1, <1>2, <1>4, <1>7, <1>9, <2>2
  <2>3. CASE ~In(q) /\ In(z)
    BY <1>1, <1>2, <1>4, <1>7, <1>9, <2>3
  <2>4. CASE ~In(q) /\ ~In(z)
    BY <1>7, <1>9, <2>4
  <2>5. QED
    BY <2>1, <2>2, <2>3, <2>4
<1>10. f[who[0]] = who[len]
  BY <1>6
<1>11. \A k \in 1 .. len : f[who[k]] = who[k - 1]
  BY <1>6
<1>12. \A q \in S : (\A k \in 0 .. len : who[k] # q) => f[q] = q
  BY <1>7 DEF In
<1>13. Turn(f, S, who, len)
  BY <1>8, <1>9, <1>10, <1>11, <1>12 DEF Turn
<1>14. QED
  BY <1>13

-----------------------------------------------------------------------------
(* Who waits for whom.                                                     *)

Onwards(t, y) == IF y = NotSet \/ t.swapper[y] = NoId THEN NotSet ELSE t.team[t.swapper[y]]

IsWalk(t, p, w) ==
    /\ w \in [0 .. MaxTeams + 1 -> Team \cup {NotSet}]
    /\ w[0] = t.team[p]
    /\ \A n \in 1 .. MaxTeams + 1 : w[n] = Onwards(t, w[n - 1])

LEMMA WalkIs ==
    ASSUME NEW t \in TablesType, NEW p \in Player
    PROVE  IsWalk(t, p, Walk(t, p))
<1> DEFINE N == MaxTeams + 1
           D == Team \cup {NotSet}
           pass == [v \in D |-> Onwards(t, v)]
           step == [n \in 1 .. N |-> pass]
           base == t.team[p]
           Def(g) == g = [n \in 0 .. N |->
                            IF n = 0 THEN t.team[p]
                            ELSE IF g[n - 1] = NotSet \/ t.swapper[g[n - 1]] = NoId THEN NotSet
                            ELSE t.team[t.swapper[g[n - 1]]]]
           h == CHOOSE g : Def(g)
<1>1. N \in Nat
  BY TeamsOfBases
<1>2. Walk(t, p) = h
  BY DEF Walk
<1>3. \A v \in D : Onwards(t, v) \in D
  BY Fields DEF Onwards
<1>4. pass \in [D -> D] /\ \A v \in D : pass[v] = Onwards(t, v)
  BY <1>3
<1>5. base \in D
  BY Fields
<1> HIDE DEF pass, D
<1>6. step \in [1 .. N -> [D -> D]] /\ \A n \in 1 .. N : step[n] = pass
  BY <1>4
<1> HIDE DEF step, N
<1>7. PICK f : Iterates(f, N, D, base, step)
  BY <1>1, <1>5, <1>6, Recursion
<1>8. /\ f \in [0 .. N -> D] /\ f[0] = base
      /\ \A n \in 1 .. N : f[n] = Onwards(t, f[n - 1])
  <2>1. \A n \in 1 .. N : n - 1 \in 0 .. N
    BY <1>1
  <2>2. QED
    BY <1>4, <1>6, <1>7, <2>1 DEF Iterates
<1>9. Def(f)
  <2>1. \A n \in 0 .. N : f[n] = IF n = 0 THEN base ELSE Onwards(t, f[n - 1])
    BY <1>1, <1>8
  <2>2. f = [n \in 0 .. N |-> IF n = 0 THEN base ELSE Onwards(t, f[n - 1])]
    BY <1>8, <2>1
  <2>3. QED
    BY <2>2 DEF Onwards
<1>10. Def(h)
  <2> HIDE DEF Def
  <2>1. QED
    BY <1>9
<1> HIDE DEF h
<1>11. h[0] = base /\ \A n \in 1 .. N : h[n] = Onwards(t, h[n - 1])
  <2>1. h = [n \in 0 .. N |-> IF n = 0 THEN base ELSE Onwards(t, h[n - 1])]
    BY <1>10 DEF Onwards
  <2>2. 0 \in 0 .. N /\ \A n \in 1 .. N : n \in 0 .. N /\ n # 0
    BY <1>1
  <2>3. QED
    BY <2>1, <2>2
<1>12. h = [n \in 0 .. N |-> h[n]]
  BY <1>10
<1> HIDE DEF Def
<1> DEFINE G == {n \in 0 .. N : h[n] \in D}
<1>13. 0 \in G /\ \A n \in 1 .. N : n - 1 \in G => n \in G
  BY <1>1, <1>3, <1>5, <1>11 DEF D
<1> HIDE DEF G
<1>14. \A n \in 0 .. N : n \in G
  BY <1>1, <1>13, UpTo
<1>15. \A n \in 0 .. N : h[n] \in D
  BY <1>14 DEF G
<1>16. h \in [0 .. N -> D]
  BY <1>12, <1>15
<1>17. QED
  BY <1>2, <1>11, <1>16 DEF IsWalk, N, D

(* A way that has ended does not go on. *)
LEMMA WalkEnds ==
    ASSUME NEW t \in TablesType, NEW p \in Player, NEW w, IsWalk(t, p, w),
           NEW n \in 0 .. MaxTeams + 1, w[n] = NotSet, NEW m \in n .. MaxTeams + 1
    PROVE  w[m] = NotSet
<1> DEFINE N == MaxTeams + 1 - n
           G == {k \in 0 .. N : w[n + k] = NotSet}
<1>1. MaxTeams \in Nat /\ N \in Nat
  BY TeamsOfBases
<1>2. 0 \in G
  BY <1>1
<1>3. ASSUME NEW k \in 1 .. N, k - 1 \in G PROVE k \in G
  <2>1. n + k \in 1 .. MaxTeams + 1 /\ (n + k) - 1 = n + (k - 1)
    BY <1>1
  <2>2. w[n + k] = Onwards(t, w[n + (k - 1)])
    BY <2>1 DEF IsWalk
  <2>3. QED
    BY <1>3, <2>2 DEF Onwards
<1> HIDE DEF G
<1>4. \A k \in 0 .. N : k \in G
  BY <1>1, <1>2, <1>3, UpTo
<1>5. m - n \in 0 .. N /\ n + (m - n) = m
  BY <1>1
<1>6. m - n \in G
  BY <1>4, <1>5
<1>7. QED
  BY <1>5, <1>6 DEF G

(* From where the way comes to the same team twice it goes the same way.   *)
LEMMA WalkRepeats ==
    ASSUME NEW t \in TablesType, NEW p \in Player, NEW w, IsWalk(t, p, w),
           NEW i \in 0 .. MaxTeams + 1, NEW j \in i .. MaxTeams + 1, w[i] = w[j],
           NEW m \in j .. MaxTeams + 1
    PROVE  w[i + (m - j)] = w[m]
<1> DEFINE N == MaxTeams + 1 - j
           G == {k \in 0 .. N : w[i + k] = w[j + k]}
<1>1. MaxTeams \in Nat /\ N \in Nat
  BY TeamsOfBases
<1>2. 0 \in G
  BY <1>1
<1>3. ASSUME NEW k \in 1 .. N, k - 1 \in G PROVE k \in G
  <2>1. /\ i + k \in 1 .. MaxTeams + 1 /\ (i + k) - 1 = i + (k - 1)
        /\ j + k \in 1 .. MaxTeams + 1 /\ (j + k) - 1 = j + (k - 1)
    BY <1>1
  <2>2. w[i + k] = Onwards(t, w[i + (k - 1)]) /\ w[j + k] = Onwards(t, w[j + (k - 1)])
    BY <2>1 DEF IsWalk
  <2>3. QED
    BY <1>3, <2>2
<1> HIDE DEF G
<1>4. \A k \in 0 .. N : k \in G
  BY <1>1, <1>2, <1>3, UpTo
<1>5. m - j \in 0 .. N /\ j + (m - j) = m
  BY <1>1
<1>6. m - j \in G
  BY <1>4, <1>5
<1>7. QED
  BY <1>5, <1>6 DEF G

(* The way to the team that is asked for, by teams that are all different. *)
OnCycle(t, p, x, w, len) ==
    /\ len \in 1 .. MaxTeams + 1 /\ w[0] = t.team[p] /\ w[len] = x
    /\ \A n \in 0 .. len : w[n] \in Team
    /\ \A n \in 1 .. len : t.swapper[w[n - 1]] # NoId /\ t.team[t.swapper[w[n - 1]]] = w[n]
    /\ \A i, j \in 0 .. len : w[i] = w[j] => i = j

LEMMA CycleIs ==
    ASSUME NEW t \in TablesType, NEW p \in Player, NEW w, IsWalk(t, p, w), NEW x \in Team,
           x # t.team[p], NEW len \in 1 .. MaxTeams + 1, w[len] = x,
           \A k \in 1 .. len - 1 : w[k] # x
    PROVE  OnCycle(t, p, x, w, len)
<1>1. MaxTeams \in Nat
  BY TeamsOfBases
<1>2. ASSUME NEW n \in 0 .. len PROVE w[n] \in Team
  <2>1. n \in 0 .. MaxTeams + 1 /\ len \in n .. MaxTeams + 1
    BY <1>1
  <2>2. w[n] # NotSet
    BY <2>1, WalkEnds, Ids
  <2>3. QED
    BY <2>1, <2>2 DEF IsWalk
<1>3. ASSUME NEW n \in 1 .. len
      PROVE  t.swapper[w[n - 1]] # NoId /\ t.team[t.swapper[w[n - 1]]] = w[n]
  <2>1. w[n] = Onwards(t, w[n - 1]) /\ w[n] # NotSet
    BY <1>1, <1>2, Ids DEF IsWalk
  <2>2. QED
    BY <2>1 DEF Onwards
<1>4. ASSUME NEW i \in 0 .. len, NEW j \in 0 .. len, i < j PROVE w[i] # w[j]
  <2>1. SUFFICES ASSUME w[i] = w[j] PROVE FALSE
    OBVIOUS
  <2>2. i \in 0 .. MaxTeams + 1 /\ j \in i .. MaxTeams + 1 /\ len \in j .. MaxTeams + 1
    BY <1>1, <1>4
  <2>3. w[i + (len - j)] = w[len]
    BY <2>1, <2>2, WalkRepeats
  <2>4. i + (len - j) \in 0 .. len - 1
    BY <1>4
  <2>5. w[0] # x
    BY DEF IsWalk
  <2>6. QED
    BY <2>3, <2>4, <2>5
<1>5. \A i, j \in 0 .. len : w[i] = w[j] => i = j
  BY <1>4
<1>6. QED
  BY <1>2, <1>3, <1>5 DEF OnCycle, IsWalk

-----------------------------------------------------------------------------
(* Cmd_team along a cycle.                                                 *)

(* v with player q given the place in team y with base b. *)
Given(v, q, y, b, m) ==
    /\ m \in TablesType
    /\ m.players = v.players /\ m.prev = v.prev /\ m.members = v.members
    /\ m.robots = v.robots /\ m.login = v.login /\ m.fault = v.fault
    /\ m.team = [v.team EXCEPT ![q] = y] /\ m.base = [v.base EXCEPT ![q] = b]
    /\ \A z \in Player : m.paused[z] = v.paused[z] \/ m.paused[z] = FALSE

Turned(v, q, y, b) ==
    Set_swapper_state([v EXCEPT !.swapper[y] = NoId, !.team[q] = y, !.base[q] = b], q)

(* And nobody queued for the team any more. *)
GivenUp(v, q, y, b, m) ==
    Given(v, q, y, b, m) /\ m.swapper = [v.swapper EXCEPT ![y] = NoId]

LEMMA TurnedIs ==
    ASSUME NEW v \in TablesType, NEW q \in Player, NEW y \in Team, NEW b \in Base \cup {NoBase}
    PROVE  GivenUp(v, q, y, b, Turned(v, q, y, b))
<1> DEFINE sw == [v.swapper EXCEPT ![y] = NoId]
           tms == [v.team EXCEPT ![q] = y]
           bs == [v.base EXCEPT ![q] = b]
           u == [v EXCEPT !.swapper = sw, !.team = tms, !.base = bs]
           m == Turned(v, q, y, b)
<1>1. sw \in [Team -> Player \cup {NoId}]
  BY Fields
<1>2. tms \in [Player -> Team] /\ bs \in [Player -> Base \cup {NoBase}]
  BY Fields
<1>3. m = Set_swapper_state(u, q)
  BY DEF Turned
<1> HIDE DEF sw, tms, bs, m
<1>4. /\ u \in TablesType
      /\ u.players = v.players /\ u.prev = v.prev /\ u.members = v.members
      /\ u.robots = v.robots /\ u.login = v.login /\ u.fault = v.fault /\ u.paused = v.paused
      /\ u.team = tms /\ u.base = bs /\ u.swapper = sw
  BY <1>1, <1>2 DEF TablesType
<1> HIDE DEF u
<1>5. Stated(u, q, m)
  BY <1>3, <1>4, StateIs
<1>6. \A z \in Player : m.paused[z] = v.paused[z] \/ m.paused[z] = FALSE
  BY <1>4, <1>5, Fields DEF Stated
<1>7. Given(v, q, y, b, m) /\ m.swapper = sw
  BY <1>4, <1>5, <1>6 DEF Given, Stated, tms, bs
<1>8. QED
  BY <1>7 DEF m, sw, GivenUp

(* The one who has asked comes last. *)
LastTurn(v, p, x, b) == Set_swapper_state([v EXCEPT !.team[p] = x, !.base[p] = b], p)

GivenLast(v, p, x, b, m) == Given(v, p, x, b, m) /\ m.swapper = v.swapper

LEMMA LastTurnIs ==
    ASSUME NEW v \in TablesType, NEW p \in Player, NEW x \in Team, NEW b \in Base \cup {NoBase}
    PROVE  GivenLast(v, p, x, b, LastTurn(v, p, x, b))
<1> DEFINE tms == [v.team EXCEPT ![p] = x]
           bs == [v.base EXCEPT ![p] = b]
           u == [v EXCEPT !.team = tms, !.base = bs]
           m == LastTurn(v, p, x, b)
<1>1. tms \in [Player -> Team] /\ bs \in [Player -> Base \cup {NoBase}]
  BY Fields
<1>2. m = Set_swapper_state(u, p)
  BY DEF LastTurn
<1> HIDE DEF tms, bs, m
<1>3. /\ u \in TablesType
      /\ u.players = v.players /\ u.prev = v.prev /\ u.members = v.members
      /\ u.robots = v.robots /\ u.login = v.login /\ u.fault = v.fault /\ u.paused = v.paused
      /\ u.team = tms /\ u.base = bs /\ u.swapper = v.swapper
  BY <1>1 DEF TablesType
<1> HIDE DEF u
<1>4. Stated(u, p, m)
  BY <1>2, <1>3, StateIs
<1>5. \A z \in Player : m.paused[z] = v.paused[z] \/ m.paused[z] = FALSE
  BY <1>3, <1>4, Fields DEF Stated
<1>6. Given(v, p, x, b, m) /\ m.swapper = v.swapper
  BY <1>3, <1>4, <1>5 DEF Given, Stated, tms, bs
<1>7. QED
  BY <1>6 DEF m, GivenLast

(* How far the loop has come after n turns. *)
TurnedTo(t, w, who, n, v) ==
    /\ v \in TablesType
    /\ v.players = t.players /\ v.prev = t.prev /\ v.members = t.members
    /\ v.robots = t.robots /\ v.login = t.login /\ v.fault = t.fault
    /\ \A k \in 1 .. n : /\ v.team[who[k]] = w[k - 1] /\ v.base[who[k]] = t.base[who[k - 1]]
                         /\ v.swapper[w[k - 1]] = NoId
    /\ \A q \in Player : (\A k \in 1 .. n : who[k] # q)
                            => v.team[q] = t.team[q] /\ v.base[q] = t.base[q]
    /\ \A y \in Team : v.swapper[y] = t.swapper[y] \/ v.swapper[y] = NoId
    /\ \A z \in Player : v.paused[z] = t.paused[z] \/ v.paused[z] = FALSE

LEMMA OneTurn ==
    ASSUME NEW t \in TablesType, NEW w, NEW who, NEW len \in Nat, NEW n \in 1 .. len,
           \A k \in 0 .. len : w[k] \in Team /\ who[k] \in Player,
           \A i, j \in 0 .. len : who[i] = who[j] => i = j,
           NEW v, TurnedTo(t, w, who, n - 1, v)
    PROVE  TurnedTo(t, w, who, n, Turned(v, who[n], w[n - 1], t.base[who[n - 1]]))
<1> DEFINE m == Turned(v, who[n], w[n - 1], t.base[who[n - 1]])
<1>1. /\ v \in TablesType /\ n - 1 \in 0 .. len /\ n \in 0 .. len
      /\ w[n - 1] \in Team /\ who[n] \in Player /\ who[n - 1] \in Player
      /\ t.base[who[n - 1]] \in Base \cup {NoBase}
  BY Fields DEF TurnedTo
<1>2. /\ Given(v, who[n], w[n - 1], t.base[who[n - 1]], m)
      /\ m.swapper = [v.swapper EXCEPT ![w[n - 1]] = NoId]
  <2>1. GivenUp(v, who[n], w[n - 1], t.base[who[n - 1]], m)
    BY <1>1, TurnedIs
  <2>2. QED
    BY <2>1 DEF GivenUp
<1> HIDE DEF m
<1>3. /\ m.team[who[n]] = w[n - 1] /\ m.base[who[n]] = t.base[who[n - 1]]
      /\ m.swapper[w[n - 1]] = NoId
      /\ \A q \in Player \ {who[n]} : m.team[q] = v.team[q] /\ m.base[q] = v.base[q]
      /\ \A y \in Team : m.swapper[y] = v.swapper[y] \/ m.swapper[y] = NoId
  BY <1>1, <1>2, Fields DEF Given
<1>4. ASSUME NEW k \in 1 .. n
      PROVE  /\ m.team[who[k]] = w[k - 1] /\ m.base[who[k]] = t.base[who[k - 1]]
             /\ m.swapper[w[k - 1]] = NoId
  <2>1. CASE k = n
    BY <1>3, <2>1
  <2>2. CASE k # n
    <3>1. k \in 1 .. n - 1 /\ k \in 0 .. len /\ k - 1 \in 0 .. len
      BY <2>2
    <3>2. who[k] \in Player \ {who[n]} /\ w[k - 1] \in Team
      BY <1>1, <2>2, <3>1
    <3>3. /\ v.team[who[k]] = w[k - 1] /\ v.base[who[k]] = t.base[who[k - 1]]
          /\ v.swapper[w[k - 1]] = NoId
      BY <3>1 DEF TurnedTo
    <3>4. QED
      BY <1>3, <3>2, <3>3
  <2>3. QED
    BY <2>1, <2>2
<1>5. ASSUME NEW q \in Player, \A k \in 1 .. n : who[k] # q
      PROVE  m.team[q] = t.team[q] /\ m.base[q] = t.base[q]
  <2>1. q # who[n] /\ \A k \in 1 .. n - 1 : who[k] # q
    BY <1>5
  <2>2. QED
    BY <1>3, <2>1 DEF TurnedTo
<1>6. /\ \A y \in Team : m.swapper[y] = t.swapper[y] \/ m.swapper[y] = NoId
      /\ \A z \in Player : m.paused[z] = t.paused[z] \/ m.paused[z] = FALSE
  BY <1>2, <1>3 DEF TurnedTo, Given
<1>7. TurnedTo(t, w, who, n, m)
  BY <1>2, <1>4, <1>5, <1>6 DEF TurnedTo, Given
<1>8. QED
  BY <1>7 DEF m

(* Those who get a new place, and the loop that gives it to them. *)
AlongOf(t, p, w, len) == [n \in 0 .. len |-> IF n = 0 THEN p ELSE t.swapper[w[n - 1]]]

LoopOf(t, w, who, len) ==
    CHOOSE g : g = [n \in 0 .. len |->
                      IF n = 0 THEN t
                      ELSE Set_swapper_state([g[n - 1] EXCEPT
                              !.swapper[w[n - 1]] = NoId,
                              !.team[who[n]] = w[n - 1],
                              !.base[who[n]] = t.base[who[n - 1]]], who[n])]

FirstAt(w, x) ==
    CHOOSE n \in 1 .. MaxTeams + 1 : w[n] = x /\ \A k \in 1 .. n - 1 : w[k] # x

LEMMA SwapCycleIs ==
    ASSUME NEW t, NEW p, NEW x, NEW w, w = Walk(t, p), NEW len, len = FirstAt(w, x),
           NEW who, who = AlongOf(t, p, w, len)
    PROVE  SwapCycle(t, p, x)
              = LastTurn(LoopOf(t, w, who, len)[len], p, x, t.base[who[len]])
  BY DEF SwapCycle, FirstAt, AlongOf, LoopOf, LastTurn

LEMMA LoopIs ==
    ASSUME NEW t \in TablesType, NEW w, NEW who, NEW len \in Nat,
           \A k \in 0 .. len : w[k] \in Team /\ who[k] \in Player,
           \A i, j \in 0 .. len : who[i] = who[j] => i = j
    PROVE  TurnedTo(t, w, who, len, LoopOf(t, w, who, len)[len])
<1> DEFINE D == TablesType
           Once(n, v) == Turned(v, who[n], w[n - 1], t.base[who[n - 1]])
           step == [n \in 1 .. len |-> [v \in D |-> Once(n, v)]]
           Def(g) == g = [n \in 0 .. len |->
                      IF n = 0 THEN t
                      ELSE Set_swapper_state([g[n - 1] EXCEPT
                              !.swapper[w[n - 1]] = NoId,
                              !.team[who[n]] = w[n - 1],
                              !.base[who[n]] = t.base[who[n - 1]]], who[n])]
           h == CHOOSE g : Def(g)
<1>1. LoopOf(t, w, who, len) = h
  BY DEF LoopOf
<1>2. ASSUME NEW n \in 1 .. len, NEW v \in D PROVE Once(n, v) \in D
  <2>1. /\ n - 1 \in 0 .. len /\ n \in 0 .. len
        /\ w[n - 1] \in Team /\ who[n] \in Player /\ who[n - 1] \in Player
        /\ t.base[who[n - 1]] \in Base \cup {NoBase}
    BY Fields
  <2>2. GivenUp(v, who[n], w[n - 1], t.base[who[n - 1]], Once(n, v))
    BY <2>1, TurnedIs
  <2> HIDE DEF Once
  <2>3. QED
    BY <2>2 DEF GivenUp, Given
<1>3. \A g : Def(g) <=> g = [n \in 0 .. len |-> IF n = 0 THEN t ELSE Once(n, g[n - 1])]
  BY DEF Turned
<1> HIDE DEF Once, D, Def
<1>4. step \in [1 .. len -> [D -> D]] /\ \A n \in 1 .. len, v \in D : step[n][v] = Once(n, v)
  BY <1>2
<1> HIDE DEF step
<1>5. t \in D
  BY DEF D
<1>6. PICK f : Iterates(f, len, D, t, step)
  BY <1>4, <1>5, Recursion
<1>7. /\ f \in [0 .. len -> D] /\ f[0] = t
      /\ \A n \in 1 .. len : f[n] = Once(n, f[n - 1])
  <2>1. \A n \in 1 .. len : n - 1 \in 0 .. len
    OBVIOUS
  <2>2. QED
    BY <1>4, <1>6, <2>1 DEF Iterates
<1>8. Def(f)
  <2>1. \A n \in 0 .. len : f[n] = IF n = 0 THEN t ELSE Once(n, f[n - 1])
    BY <1>7
  <2>2. f = [n \in 0 .. len |-> IF n = 0 THEN t ELSE Once(n, f[n - 1])]
    BY <1>7, <2>1
  <2>3. QED
    BY <1>3, <2>2
<1>9. Def(h)
  BY <1>8
<1> HIDE DEF h
<1>10. h[0] = t /\ \A n \in 1 .. len : h[n] = Once(n, h[n - 1])
  <2>1. h = [n \in 0 .. len |-> IF n = 0 THEN t ELSE Once(n, h[n - 1])]
    BY <1>3, <1>9
  <2>2. 0 \in 0 .. len /\ \A n \in 1 .. len : n \in 0 .. len /\ n # 0
    OBVIOUS
  <2>3. QED
    BY <2>1, <2>2
<1> DEFINE G == {n \in 0 .. len : TurnedTo(t, w, who, n, h[n])}
<1>11. TurnedTo(t, w, who, 0, t)
  BY DEF TurnedTo
<1>12. 0 \in G
  BY <1>10, <1>11
<1>13. ASSUME NEW n \in 1 .. len, n - 1 \in G PROVE n \in G
  <2>1. TurnedTo(t, w, who, n - 1, h[n - 1])
    BY <1>13
  <2>2. TurnedTo(t, w, who, n, Turned(h[n - 1], who[n], w[n - 1], t.base[who[n - 1]]))
    BY <2>1, OneTurn
  <2>3. h[n] = Turned(h[n - 1], who[n], w[n - 1], t.base[who[n - 1]])
    BY <1>10 DEF Once
  <2>4. QED
    BY <2>2, <2>3
<1> HIDE DEF G
<1>14. \A n \in 0 .. len : n \in G
  BY <1>12, <1>13, UpTo
<1>15. len \in G
  BY <1>14
<1>16. QED
  BY <1>1, <1>15 DEF G

(* Who gets a new place: players who are all different, each of them       *)
(* queued for the team of the one before.                                  *)
Along(t, p, w, who, len) ==
    /\ who \in [0 .. len -> t.players]
    /\ who[0] = p
    /\ \A k \in 0 .. len : who[k] \in Player /\ t.team[who[k]] = w[k]
    /\ \A k \in 1 .. len : t.swapper[w[k - 1]] = who[k]
    /\ \A i, j \in 0 .. len : who[i] = who[j] => i = j

LEMMA AlongIs ==
    ASSUME NEW t \in TablesType, Sound(t), NEW p \in Player, p \in t.players,
           \A y \in Team : t.swapper[y] # p, NEW x, NEW w, NEW len, OnCycle(t, p, x, w, len),
           NEW who, who = AlongOf(t, p, w, len)
    PROVE  Along(t, p, w, who, len)
<1>1. len \in Nat /\ MaxTeams \in Nat
  BY TeamsOfBases DEF OnCycle
<1>2. /\ who = [n \in 0 .. len |-> who[n]] /\ who[0] = p
      /\ \A k \in 1 .. len : who[k] = t.swapper[w[k - 1]]
  BY <1>1 DEF AlongOf
<1>3. \A k \in 1 .. len : w[k - 1] \in Team /\ w[k] \in Team
  BY <1>1 DEF OnCycle
<1>4. ASSUME NEW k \in 1 .. len
      PROVE  who[k] \in Player \cap t.players /\ t.team[who[k]] = w[k] /\ who[k] # p
  <2>1. t.swapper[w[k - 1]] # NoId /\ t.team[t.swapper[w[k - 1]]] = w[k]
    BY DEF OnCycle
  <2>2. t.swapper[w[k - 1]] \in Player \cap t.players
    BY <1>3, <2>1, Fields DEF Sound, QueuedOnce
  <2>3. QED
    BY <1>2, <1>3, <2>1, <2>2
<1>5. ASSUME NEW i \in 0 .. len, NEW j \in 0 .. len, i < j, who[i] = who[j] PROVE FALSE
  <2>1. j \in 1 .. len
    BY <1>1, <1>5
  <2>2. CASE i = 0
    BY <1>2, <1>4, <1>5, <2>1, <2>2
  <2>3. CASE i # 0
    <3>1. i \in 1 .. len /\ i - 1 \in 0 .. len /\ j - 1 \in 0 .. len
      BY <1>1, <1>5, <2>3
    <3>2. t.swapper[w[i - 1]] = t.swapper[w[j - 1]] /\ t.swapper[w[j - 1]] # NoId
      BY <1>2, <1>5, <2>1, <3>1 DEF OnCycle
    <3>3. w[i - 1] \in Team /\ w[j - 1] \in Team
      BY <1>3, <2>1, <3>1
    <3>4. w[i - 1] = w[j - 1]
      BY <3>2, <3>3 DEF Sound, QueuedOnce
    <3>5. i - 1 = j - 1
      BY <3>1, <3>4 DEF OnCycle
    <3>6. QED
      BY <1>5, <3>5
  <2>4. QED
    BY <2>2, <2>3
<1>6. \A i, j \in 0 .. len : who[i] = who[j] => i = j
  BY <1>1, <1>5
<1>7. \A k \in 0 .. len : who[k] \in Player \cap t.players /\ t.team[who[k]] = w[k]
  BY <1>1, <1>2, <1>4 DEF OnCycle
<1>8. who \in [0 .. len -> t.players]
  BY <1>2, <1>7
<1>9. QED
  BY <1>2, <1>6, <1>7, <1>8 DEF Along

(* The places after the swap. *)
SwappedAlong(t, r, p, x, w, who, len) ==
    /\ r \in TablesType
    /\ r.players = t.players /\ r.prev = t.prev /\ r.members = t.members
    /\ r.robots = t.robots /\ r.login = t.login /\ r.fault = t.fault
    /\ r.team[p] = x /\ r.base[p] = t.base[who[len]]
    /\ \A k \in 1 .. len : /\ r.team[who[k]] = w[k - 1] /\ r.base[who[k]] = t.base[who[k - 1]]
                           /\ r.swapper[w[k - 1]] = NoId
    /\ \A q \in Player : (\A k \in 0 .. len : who[k] # q)
                            => r.team[q] = t.team[q] /\ r.base[q] = t.base[q]
    /\ \A y \in Team : r.swapper[y] = t.swapper[y] \/ r.swapper[y] = NoId
    /\ \A z \in Player : r.paused[z] = t.paused[z] \/ r.paused[z] = FALSE

LEMMA SwappedAlongIs ==
    ASSUME NEW t \in TablesType, NEW p \in Player, NEW x \in Team, NEW w, NEW len,
           OnCycle(t, p, x, w, len), NEW who, Along(t, p, w, who, len),
           NEW m, TurnedTo(t, w, who, len, m),
           NEW r, r = LastTurn(m, p, x, t.base[who[len]])
    PROVE  SwappedAlong(t, r, p, x, w, who, len)
<1>1. len \in Nat /\ 0 \in 0 .. len /\ len \in 0 .. len
  BY TeamsOfBases DEF OnCycle
<1>2. p \in Player /\ who[len] \in Player /\ \A k \in 0 .. len : who[k] \in Player
  BY <1>1, Ids DEF Along
<1>3. m \in TablesType /\ t.base[who[len]] \in Base \cup {NoBase}
  BY <1>2, Fields DEF TurnedTo
<1>4. GivenLast(m, p, x, t.base[who[len]], r)
  BY <1>2, <1>3, LastTurnIs
<1>5. /\ r \in TablesType /\ r.swapper = m.swapper
      /\ r.team[p] = x /\ r.base[p] = t.base[who[len]]
      /\ \A q \in Player \ {p} : r.team[q] = m.team[q] /\ r.base[q] = m.base[q]
      /\ \A z \in Player : r.paused[z] = m.paused[z] \/ r.paused[z] = FALSE
      /\ r.players = m.players /\ r.prev = m.prev /\ r.members = m.members
      /\ r.robots = m.robots /\ r.login = m.login /\ r.fault = m.fault
  <2> DEFINE b == t.base[who[len]]
  <2>1. /\ r \in TablesType /\ r.swapper = m.swapper
        /\ r.team = [m.team EXCEPT ![p] = x] /\ r.base = [m.base EXCEPT ![p] = b]
        /\ \A z \in Player : r.paused[z] = m.paused[z] \/ r.paused[z] = FALSE
        /\ r.players = m.players /\ r.prev = m.prev /\ r.members = m.members
        /\ r.robots = m.robots /\ r.login = m.login /\ r.fault = m.fault
    BY <1>4 DEF GivenLast, Given
  <2> HIDE DEF b
  <2>2. m.team \in [Player -> Team] /\ m.base \in [Player -> Base \cup {NoBase}]
    BY <1>3, Fields
  <2>3. /\ r.team[p] = x /\ r.base[p] = b
        /\ \A q \in Player \ {p} : r.team[q] = m.team[q] /\ r.base[q] = m.base[q]
    BY <1>2, <2>1, <2>2
  <2>4. QED
    BY <2>1, <2>3 DEF b
<1>6. ASSUME NEW k \in 1 .. len
      PROVE  /\ r.team[who[k]] = w[k - 1] /\ r.base[who[k]] = t.base[who[k - 1]]
             /\ r.swapper[w[k - 1]] = NoId
  <2>1. who[k] \in Player \ {p}
    BY <1>1, <1>2 DEF Along
  <2>2. QED
    BY <1>5, <2>1 DEF TurnedTo
<1>7. ASSUME NEW q \in Player, \A k \in 0 .. len : who[k] # q
      PROVE  r.team[q] = t.team[q] /\ r.base[q] = t.base[q]
  <2>1. q # p /\ \A k \in 1 .. len : who[k] # q
    BY <1>1, <1>7 DEF Along
  <2>2. QED
    BY <1>5, <2>1 DEF TurnedTo
<1>8. /\ r.players = t.players /\ r.prev = t.prev /\ r.members = t.members
      /\ r.robots = t.robots /\ r.login = t.login /\ r.fault = t.fault
  BY <1>5 DEF TurnedTo
<1>9. \A y \in Team : r.swapper[y] = t.swapper[y] \/ r.swapper[y] = NoId
  BY <1>5 DEF TurnedTo
<1>10. \A z \in Player : r.paused[z] = t.paused[z] \/ r.paused[z] = FALSE
  <2>1. \A z \in Player : m.paused[z] = t.paused[z] \/ m.paused[z] = FALSE
    BY DEF TurnedTo
  <2>2. \A z \in Player : r.paused[z] = m.paused[z] \/ r.paused[z] = FALSE
    BY <1>5
  <2>3. QED
    BY <2>1, <2>2
<1>11. r \in TablesType /\ r.team[p] = x /\ r.base[p] = t.base[who[len]]
  BY <1>5
<1>12. QED
  BY <1>6, <1>7, <1>8, <1>9, <1>10, <1>11 DEF SwappedAlong

LEMMA SwapCycleFine ==
    ASSUME NEW t \in TablesType, Sound(t), t.fault = "none", NEW p \in Player, p \in t.players,
           NEW x \in Team, x # t.team[p], \A y \in Team : t.swapper[y] # p,
           Reaches(t, p, x), NEW r, r = SwapCycle(t, p, x)
    PROVE  Fine(t, r)
<1> DEFINE w == Walk(t, p)
           len == FirstAt(w, x)
           who == AlongOf(t, p, w, len)
           m == LoopOf(t, w, who, len)[len]
<1>1. p \in Player /\ MaxTeams \in Nat
  BY Ids, TeamsOfBases
<1>2. IsWalk(t, p, w)
  BY <1>1, WalkIs
<1>3. r = LastTurn(m, p, x, t.base[who[len]])
  BY SwapCycleIs
<1>4. \E n \in 1 .. MaxTeams + 1 : w[n] = x
  BY DEF Reaches
<1> HIDE DEF w
<1>5. len \in 1 .. MaxTeams + 1 /\ w[len] = x /\ \A k \in 1 .. len - 1 : w[k] # x
  <2> DEFINE S == {n \in 1 .. MaxTeams + 1 : w[n] = x}
  <2>1. S \in SUBSET Nat /\ S # {}
    BY <1>4
  <2>2. PICK n \in S : \A k \in S : n <= k
    BY <2>1, Least
  <2>3. n \in 1 .. MaxTeams + 1 /\ w[n] = x /\ \A k \in 1 .. n - 1 : w[k] # x
    <3>1. n \in 1 .. MaxTeams + 1 /\ w[n] = x
      BY <2>2
    <3>2. ASSUME NEW k \in 1 .. n - 1, w[k] = x PROVE FALSE
      <4>1. k \in S /\ k < n
        BY <1>1, <3>1, <3>2
      <4>2. QED
        BY <2>2, <3>1, <4>1
    <3>3. QED
      BY <3>1, <3>2
  <2>4. QED
    BY <2>3 DEF FirstAt
<1> HIDE DEF len
<1>6. OnCycle(t, p, x, w, len)
  BY <1>1, <1>2, <1>5, CycleIs
<1>7. Along(t, p, w, who, len)
  BY <1>6, AlongIs
<1> HIDE DEF who
<1>8. len \in Nat /\ 0 \in 0 .. len /\ len \in 0 .. len /\ \A k \in 1 .. len : k - 1 \in 0 .. len
  BY <1>1, <1>5
<1>9. TurnedTo(t, w, who, len, m)
  <2>1. \A k \in 0 .. len : w[k] \in Team /\ who[k] \in Player
    BY <1>6, <1>7, Ids DEF OnCycle, Along
  <2>2. \A i, j \in 0 .. len : who[i] = who[j] => i = j
    BY <1>7 DEF Along
  <2> HIDE DEF m
  <2>3. QED
    BY <1>8, <2>1, <2>2, LoopIs DEF m
<1> HIDE DEF m
<1>10. SwappedAlong(t, r, p, x, w, who, len)
  BY <1>3, <1>6, <1>7, <1>9, SwappedAlongIs
<1>11. PICK f : Turn(f, t.players, who, len)
  BY <1>7, <1>8, Turns DEF Along
<1>12. Permutes(t, f)
  BY <1>11 DEF Turn, Permutes
<1>13. ASSUME NEW q \in t.players PROVE r.team[q] = t.team[f[q]] /\ r.base[q] = t.base[f[q]]
  <2>1. CASE \A k \in 0 .. len : who[k] # q
    BY <1>10, <1>11, <2>1, Fields DEF Turn, SwappedAlong
  <2>2. CASE q = p
    <3>1. f[q] = who[len] /\ t.team[who[len]] = w[len]
      BY <1>7, <1>8, <1>11, <2>2 DEF Turn, Along
    <3>2. QED
      BY <1>5, <1>10, <2>2, <3>1 DEF SwappedAlong
  <2>3. ASSUME NEW k \in 1 .. len, who[k] = q
        PROVE  r.team[q] = t.team[f[q]] /\ r.base[q] = t.base[f[q]]
    <3>1. f[q] = who[k - 1] /\ t.team[who[k - 1]] = w[k - 1]
      BY <1>7, <1>8, <1>11, <2>3 DEF Turn, Along
    <3>2. r.team[q] = w[k - 1] /\ r.base[q] = t.base[who[k - 1]]
      BY <1>10, <2>3 DEF SwappedAlong
    <3>3. QED
      BY <3>1, <3>2
  <2>4. (\A k \in 0 .. len : who[k] # q) \/ who[0] = q \/ \E k \in 1 .. len : who[k] = q
    BY <1>8
  <2>5. QED
    BY <1>7, <2>1, <2>2, <2>3, <2>4 DEF Along
<1>14. Exchanged(t, r, f)
  <2>1. \A q \in Player \ t.players : r.base[q] = t.base[q]
    <3>1. \A q \in Player \ t.players : \A k \in 0 .. len : who[k] # q
      BY <1>7 DEF Along
    <3>2. QED
      BY <1>10, <3>1 DEF SwappedAlong
  <2>2. \A o \in Robot : ~r.paused[o]
    BY <1>10, Ids DEF SwappedAlong, Sound, RobotsKeep
  <2>3. QED
    BY <1>10, <1>13, <2>1, <2>2 DEF SwappedAlong, Exchanged
<1>15. OneMoves(t, r, p)
  <2>1. ASSUME NEW q \in t.players, q # p
        PROVE  r.team[q] = t.team[q] \/ t.swapper[r.team[q]] = q
    <3>1. CASE \A k \in 0 .. len : who[k] # q
      BY <1>10, <3>1, Fields DEF SwappedAlong
    <3>2. ASSUME NEW k \in 1 .. len, who[k] = q PROVE t.swapper[r.team[q]] = q
      BY <1>7, <1>10, <3>2 DEF SwappedAlong, Along
    <3>3. (\A k \in 0 .. len : who[k] # q) \/ who[0] = q \/ \E k \in 1 .. len : who[k] = q
      BY <1>8
    <3>4. QED
      BY <1>7, <2>1, <3>1, <3>2, <3>3 DEF Along
  <2>2. QED
    BY <2>1 DEF OneMoves
<1>16. ASSUME NEW y \in Team PROVE Waits(r, y) = Waits(t, y) \/ Waits(r, y) = NotSet
  <2>1. SUFFICES ASSUME r.swapper[y] # NoId PROVE Waits(r, y) = Waits(t, y)
    BY DEF Waits
  <2>2. r.swapper[y] = t.swapper[y]
    BY <1>10, <2>1 DEF SwappedAlong
  <2>3. ASSUME NEW k \in 0 .. len, who[k] = t.swapper[y] PROVE FALSE
    <3>1. k # 0
      BY <1>7, <2>3 DEF Along
    <3>2. k \in 1 .. len
      BY <1>8, <3>1
    <3>3. t.swapper[w[k - 1]] = t.swapper[y] /\ w[k - 1] \in Team
      BY <1>6, <1>7, <1>8, <2>3, <3>2 DEF Along, OnCycle
    <3>4. w[k - 1] = y
      BY <2>1, <2>2, <3>3 DEF Sound, QueuedOnce
    <3>5. QED
      BY <1>10, <2>1, <3>2, <3>4 DEF SwappedAlong
  <2>4. t.swapper[y] \in Player
    BY <2>1, <2>2, Fields
  <2>5. r.team[t.swapper[y]] = t.team[t.swapper[y]] /\ r.base[t.swapper[y]] = t.base[t.swapper[y]]
    BY <1>10, <2>3, <2>4 DEF SwappedAlong
  <2>6. QED
    BY <2>2, <2>5 DEF Waits
<1>17. Circle(r) => Circle(t)
  BY <1>16, FewerWait
<1>18. QED
  BY <1>1, <1>12, <1>14, <1>15, <1>17, ExchangedFine

-----------------------------------------------------------------------------
(* Cmd_team where no cycle is closed.                                      *)

(* A way that goes from teams of X to teams of X unless it comes to x.     *)
LEMMA KeepsOn ==
    ASSUME NEW t \in TablesType, NEW p \in Player, NEW x, NEW X \in SUBSET Team,
           t.team[p] \in X, \A y \in X : Onwards(t, y) \in X \cup {x},
           ~Reaches(t, p, x), Ends(t, p)
    PROVE  FALSE
<1> DEFINE w == Walk(t, p)
           N == MaxTeams + 1
           G == {n \in 0 .. N : w[n] \in X}
<1>1. N \in Nat
  BY TeamsOfBases
<1>2. IsWalk(t, p, w)
  BY WalkIs
<1>3. (\A n \in 1 .. N : w[n] # x) /\ \E n \in 1 .. N : w[n] = NotSet
  BY DEF Reaches, Ends
<1> HIDE DEF w
<1>4. w[0] = t.team[p] /\ \A n \in 1 .. N : w[n] = Onwards(t, w[n - 1])
  BY <1>2 DEF IsWalk
<1> HIDE DEF N
<1>5. 0 \in G /\ \A n \in 1 .. N : n - 1 \in G => n \in G
  BY <1>1, <1>3, <1>4
<1> HIDE DEF G
<1>6. \A n \in 0 .. N : n \in G
  BY <1>1, <1>5, UpTo
<1>7. \A n \in 1 .. N : w[n] \in Team
  BY <1>6 DEF G
<1>8. QED
  BY <1>3, <1>7, Ids

(* Who waits for a team, waits with a base. *)
LEMMA WaitsOnwards ==
    ASSUME NEW t, NEW y \in Team, Waits(t, y) \in Team
    PROVE  /\ t.swapper[y] # NoId /\ t.base[t.swapper[y]] # NoBase
           /\ Onwards(t, y) = Waits(t, y) /\ Waits(t, y) = t.team[t.swapper[y]]
  BY Ids DEF Waits, Onwards

(* p gets the place of q and q that of p. *)
Traded(t, r, p, q) ==
    /\ r \in TablesType
    /\ r.players = t.players /\ r.prev = t.prev /\ r.members = t.members
    /\ r.robots = t.robots /\ r.login = t.login /\ r.fault = t.fault
    /\ r.team[p] = t.team[q] /\ r.base[p] = t.base[q]
    /\ r.team[q] = t.team[p] /\ r.base[q] = t.base[p]
    /\ \A z \in Player \ {p, q} : r.team[z] = t.team[z] /\ r.base[z] = t.base[z]
    /\ r.swapper = t.swapper
    /\ \A z \in Player : r.paused[z] = t.paused[z] \/ r.paused[z] = FALSE

LEMMA SwapPausedIs ==
    ASSUME NEW t \in TablesType, NEW p \in Player, NEW q \in Player, p # q,
           NEW r, r = SwapPaused(t, p, q)
    PROVE  Traded(t, r, p, q)
<1> DEFINE tms == [t.team EXCEPT ![p] = t.team[q], ![q] = t.team[p]]
           bs == [t.base EXCEPT ![p] = t.base[q], ![q] = t.base[p]]
           m == [t EXCEPT !.team = tms, !.base = bs]
           u == Set_swapper_state(m, q)
<1>1. tms \in [Player -> Team] /\ bs \in [Player -> Base \cup {NoBase}]
  BY Fields
<1>2. r = Set_swapper_state(u, p)
  BY DEF SwapPaused
<1>3. /\ tms[p] = t.team[q] /\ bs[p] = t.base[q] /\ tms[q] = t.team[p] /\ bs[q] = t.base[p]
      /\ \A z \in Player \ {p, q} : tms[z] = t.team[z] /\ bs[z] = t.base[z]
  BY Fields
<1> HIDE DEF tms, bs, u
<1>4. /\ m \in TablesType
      /\ m.players = t.players /\ m.prev = t.prev /\ m.members = t.members
      /\ m.robots = t.robots /\ m.login = t.login /\ m.fault = t.fault /\ m.paused = t.paused
      /\ m.team = tms /\ m.base = bs /\ m.swapper = t.swapper
  BY <1>1 DEF TablesType
<1> HIDE DEF m
<1>5. Stated(m, q, u)
  BY <1>4, StateIs DEF u
<1>6. u \in TablesType
  BY <1>5 DEF Stated
<1>7. Stated(u, p, r)
  BY <1>2, <1>6, StateIs
<1>8. \A z \in Player : u.paused[z] = t.paused[z] \/ u.paused[z] = FALSE
  BY <1>4, <1>5, Fields DEF Stated
<1>9. \A z \in Player : r.paused[z] = t.paused[z] \/ r.paused[z] = FALSE
  BY <1>6, <1>7, <1>8, Fields DEF Stated
<1>10. QED
  BY <1>3, <1>4, <1>5, <1>7, <1>9 DEF Traded, Stated

(* As for a swap with a paused player and for a wish: the way ends.        *)
NoCycle(t, p, x) == t.base[p] # NoBase => ~Reaches(t, p, x) /\ Ends(t, p)

LEMMA TradedNoCircle ==
    ASSUME NEW t \in TablesType, Sound(t), NEW p \in Player, NEW q \in Player, p # q,
           \A y \in Team : t.swapper[y] # p, NEW x \in Team, t.team[q] = x, t.base[q] # NoBase,
           NoCycle(t, p, x), NEW r, Traded(t, r, p, q), Circle(r)
    PROVE  Circle(t)
<1>1. PICK X \in SUBSET Team \ {{}} : \A y \in X : Waits(r, y) \in X
  BY DEF Circle
<1>2. ASSUME NEW y \in X, t.swapper[y] # q
      PROVE  Waits(t, y) \in X
  <2>1. Waits(r, y) \in Team /\ y \in Team /\ Waits(r, y) \in X
    BY <1>1
  <2>2. r.swapper[y] # NoId /\ r.swapper[y] = t.swapper[y]
    BY <2>1, WaitsOnwards DEF Traded
  <2>3. t.swapper[y] \in Player \ {p, q}
    BY <1>2, <2>1, <2>2, Fields
  <2>4. r.team[t.swapper[y]] = t.team[t.swapper[y]] /\ r.base[t.swapper[y]] = t.base[t.swapper[y]]
    BY <2>3 DEF Traded
  <2>5. Waits(r, y) = Waits(t, y)
    BY <2>2, <2>4 DEF Waits
  <2>6. QED
    BY <2>1, <2>5
<1>3. CASE \A y \in X : t.swapper[y] # q
  BY <1>1, <1>2, <1>3 DEF Circle
<1>4. ASSUME NEW y \in X, t.swapper[y] = q PROVE Circle(t)
  <2>1. Waits(r, y) \in Team /\ y \in Team /\ Waits(r, y) \in X
    BY <1>1
  <2>2. r.swapper[y] = q /\ r.base[q] # NoBase /\ Waits(r, y) = r.team[q]
    BY <1>4, <2>1, WaitsOnwards DEF Traded
  <2>3. t.base[p] # NoBase /\ t.team[p] \in X
    BY <2>1, <2>2 DEF Traded
  <2>4. q # NoId
    BY Ids
  <2>5. Waits(t, y) = x /\ Onwards(t, y) = x
    <3>1. Waits(t, y) = x
      BY <1>4, <2>4 DEF Waits
    <3>2. QED
      BY <2>1, <3>1, WaitsOnwards
  <2>6. \A z \in X : z # y => t.swapper[z] # q
    BY <1>4, <2>1, <2>4 DEF Sound, QueuedOnce
  <2>7. CASE x \in X
    BY <1>1, <1>2, <2>5, <2>6, <2>7 DEF Circle
  <2>8. CASE x \notin X
    <3>1. ASSUME NEW z \in X PROVE Onwards(t, z) \in X \cup {x}
      <4>1. CASE z = y
        BY <2>5, <4>1
      <4>2. CASE z # y
        <5>1. Waits(t, z) \in X /\ Waits(t, z) \in Team
          BY <1>1, <1>2, <2>6, <4>2
        <5>2. QED
          BY <1>1, <5>1, WaitsOnwards
      <4>3. QED
        BY <4>1, <4>2
    <3>2. X \in SUBSET Team
      BY <1>1
    <3>3. QED
      BY <2>3, <3>1, <3>2, KeepsOn DEF NoCycle
  <2>9. QED
    BY <2>7, <2>8
<1>5. QED
  BY <1>3, <1>4

LEMMA SwapPausedFine ==
    ASSUME NEW t \in TablesType, Sound(t), t.fault = "none", NEW p \in Player, p \in t.players,
           NEW x \in Team, \A y \in Team : t.swapper[y] # p, t.base[p] # NoBase => x # t.team[p],
           NoCycle(t, p, x), NEW q \in Idle(t, x), NEW r, r = SwapPaused(t, p, q)
    PROVE  Fine(t, r)
<1> DEFINE f == [z \in t.players |-> IF z = p THEN q ELSE IF z = q THEN p ELSE z]
<1>1. x # NotSet /\ p \in Player /\ q \in Player
  BY Ids DEF Idle
<1>2. q \in Human /\ q \in t.players /\ t.paused[q] /\ t.team[q] = x /\ t.base[q] # NoBase
  BY <1>1 DEF Idle
<1>3. p # q
  BY <1>2
<1>4. Traded(t, r, p, q)
  BY <1>1, <1>3, SwapPausedIs
<1>5. Permutes(t, f)
  BY <1>2, Ids DEF Permutes
<1>6. \A z \in t.players : r.team[z] = t.team[f[z]] /\ r.base[z] = t.base[f[z]]
  <2>1. \A z \in t.players : z \in Player
    BY Fields
  <2>2. QED
    BY <1>4, <2>1 DEF Traded
<1>7. Exchanged(t, r, f)
  <2>1. \A z \in Player \ t.players : r.base[z] = t.base[z]
    BY <1>2, <1>4 DEF Traded
  <2>2. \A o \in Robot : ~r.paused[o]
    BY <1>4, Ids DEF Traded, Sound, RobotsKeep
  <2> HIDE DEF f
  <2>3. QED
    BY <1>4, <1>6, <2>1, <2>2 DEF Traded, Exchanged
<1> HIDE DEF f
<1>8. OneMoves(t, r, p)
  <2>1. \A z \in t.players : z \in Player
    BY Fields
  <2>2. QED
    BY <1>2, <1>4, <2>1 DEF Traded, OneMoves
<1>9. Circle(r) => Circle(t)
  BY <1>1, <1>2, <1>3, <1>4, TradedNoCircle
<1>10. QED
  BY <1>1, <1>5, <1>7, <1>8, <1>9, ExchangedFine

(* p waits for a swap into team x. *)
QueuedFor(t, r, p, x) ==
    /\ r \in TablesType
    /\ r.players = t.players /\ r.team = t.team /\ r.base = t.base /\ r.paused = t.paused
    /\ r.prev = t.prev /\ r.members = t.members /\ r.robots = t.robots
    /\ r.login = t.login /\ r.fault = t.fault
    /\ r.swapper = [t.swapper EXCEPT ![x] = p]

LEMMA QueueIs ==
    ASSUME NEW t \in TablesType, NEW p \in Player, NEW x \in Team, NEW r, r = Queue(t, p, x)
    PROVE  QueuedFor(t, r, p, x)
<1> DEFINE s == [t.swapper EXCEPT ![x] = p]
<1>1. s \in [Team -> Player \cup {NoId}]
  BY Fields
<1>2. r = [t EXCEPT !.swapper = s]
  BY DEF Queue
<1> HIDE DEF s
<1>3. /\ r \in TablesType
      /\ r.players = t.players /\ r.team = t.team /\ r.base = t.base /\ r.paused = t.paused
      /\ r.prev = t.prev /\ r.members = t.members /\ r.robots = t.robots
      /\ r.login = t.login /\ r.fault = t.fault /\ r.swapper = s
  BY <1>1, <1>2 DEF TablesType
<1>4. QED
  BY <1>3 DEF QueuedFor, s

LEMMA QueueNoCircle ==
    ASSUME NEW t \in TablesType, NEW p \in Player, NEW x \in Team,
           t.base[p] # NoBase => x # t.team[p], NoCycle(t, p, x),
           NEW r, QueuedFor(t, r, p, x), Circle(r)
    PROVE  Circle(t)
<1>1. PICK X \in SUBSET Team \ {{}} : \A y \in X : Waits(r, y) \in X
  BY DEF Circle
<1>2. ASSUME NEW y \in X, y # x PROVE Waits(t, y) \in X /\ Onwards(t, y) \in X
  <2>1. y \in Team /\ r.swapper[y] = t.swapper[y]
    BY <1>1, <1>2, Fields DEF QueuedFor
  <2>2. Waits(t, y) = Waits(r, y)
    BY <2>1 DEF Waits, QueuedFor
  <2>3. Waits(t, y) \in Team
    BY <1>1, <2>2
  <2>4. QED
    BY <1>1, <2>1, <2>2, <2>3, WaitsOnwards
<1>3. CASE x \notin X
  BY <1>1, <1>2, <1>3 DEF Circle
<1>4. CASE x \in X
  <2>1. Waits(r, x) \in Team /\ Waits(r, x) \in X /\ r.swapper[x] = p
    BY <1>1, <1>4, Fields DEF QueuedFor
  <2>2. r.base[p] # NoBase /\ Waits(r, x) = r.team[p]
    BY <2>1, WaitsOnwards
  <2>3. t.base[p] # NoBase /\ t.team[p] \in X
    BY <2>1, <2>2 DEF QueuedFor
  <2> DEFINE Y == X \ {x}
  <2>4. t.team[p] \in Y /\ Y \in SUBSET Team
    BY <1>1, <2>3
  <2>5. \A y \in Y : Onwards(t, y) \in Y \cup {x}
    BY <1>2
  <2> HIDE DEF Y
  <2>6. QED
    BY <2>3, <2>4, <2>5, KeepsOn DEF NoCycle
<1>5. QED
  BY <1>3, <1>4

LEMMA QueueFine ==
    ASSUME NEW t \in TablesType, Sound(t), t.fault = "none", NEW p \in Player, p \in t.players,
           NEW x \in Team, \A y \in Team : t.swapper[y] # p, t.base[p] # NoBase => x # t.team[p],
           NoCycle(t, p, x), NEW r, r = Queue(t, p, x)
    PROVE  Fine(t, r)
<1>1. p \in Player
  BY Ids
<1>2. QueuedFor(t, r, p, x)
  BY <1>1, QueueIs
<1>3. \A y \in Team : r.swapper[y] = IF y = x THEN p ELSE t.swapper[y]
  BY <1>2, Fields DEF QueuedFor
<1>4. QueuedOnce(r)
  <2>1. QueuedOnce(t) /\ r.players = t.players
    BY <1>2 DEF Sound, QueuedFor
  <2>2. QED
    BY <1>3, <2>1 DEF QueuedOnce
<1>5. OwnHomes(r) /\ Absent(r) /\ RobotsKeep(r) /\ NoReturn(r)
  BY <1>2 DEF QueuedFor, Sound, OwnHomes, Absent, RobotsKeep, NoReturn
<1>6. (Right(t) => Right(r)) /\ (Tallied(t) /\ RobotsStay(t, r) => Tallied(r))
  <2>1. \A y \in Team : MembersOf(r, y) = MembersOf(t, y)
    BY <1>2 DEF QueuedFor, MembersOf
  <2>2. r.members = t.members /\ r.robots = t.robots /\ r.players = t.players
    BY <1>2 DEF QueuedFor
  <2>3. QED
    BY <2>1, <2>2, StayTallied DEF Right
<1>7. OneMoves(t, r, p)
  BY <1>2 DEF QueuedFor, OneMoves
<1>8. Circle(r) => Circle(t)
  BY <1>1, <1>2, QueueNoCircle
<1>9. r \in TablesType /\ r.fault = "none"
  BY <1>2 DEF QueuedFor
<1>10. QED
  BY <1>1, <1>4, <1>5, <1>6, <1>7, <1>8, <1>9 DEF Fine, Sound

-----------------------------------------------------------------------------
(* Cmd_team, after whatever p waited for is given up.                      *)

LEMMA UnqueuedFine ==
    ASSUME NEW t \in TablesType, Sound(t), NEW p \in Player, NEW u, Unqueued(t, p, u)
    PROVE  Sound(u) /\ \A y \in Team : u.swapper[y] # p
<1>1. \A y \in Team : u.swapper[y] # p /\ (u.swapper[y] = t.swapper[y] \/ u.swapper[y] = NoId)
  BY Ids DEF Unqueued
<1>2. QueuedOnce(u)
  <2>1. QueuedOnce(t) /\ u.players = t.players
    BY DEF Sound, Unqueued
  <2>2. QED
    BY <1>1, <2>1 DEF QueuedOnce
<1>3. OwnHomes(u) /\ Absent(u) /\ RobotsKeep(u) /\ NoReturn(u)
  BY DEF Unqueued, Sound, OwnHomes, Absent, RobotsKeep, NoReturn
<1>4. QED
  BY <1>1, <1>2, <1>3 DEF Sound

LEMMA AfterUnqueue ==
    ASSUME NEW t \in TablesType, NEW p \in Player, NEW u, Unqueued(t, p, u), NEW r, Fine(u, r)
    PROVE  Fine(t, r)
<1>1. /\ u.players = t.players /\ u.team = t.team /\ u.base = t.base /\ u.paused = t.paused
      /\ u.members = t.members /\ u.robots = t.robots /\ u.login = t.login
      /\ \A y \in Team : u.swapper[y] = t.swapper[y] \/ u.swapper[y] = NoId
  BY DEF Unqueued
<1>2. /\ Based(u) <=> Based(t)
      /\ Right(u) <=> Right(t)
      /\ Tallied(u) <=> Tallied(t)
      /\ RobotsStay(u, r) <=> RobotsStay(t, r)
      /\ Settled(u) <=> Settled(t)
  <2>1. /\ Based(u) <=> Based(t)
        /\ Right(u) <=> Right(t)
        /\ Tallied(u) <=> Tallied(t)
        /\ RobotsStay(u, r) <=> RobotsStay(t, r)
    BY <1>1 DEF Based, Right, MembersOf, Tallied, RobotsOf, RobotsStay
  <2>2. Excused(u) <=> Excused(t)
    BY <1>1 DEF Excused, HasRoom
  <2>3. QED
    BY <2>1, <2>2 DEF Settled
<1>3. Circle(u) => Circle(t)
  <2>1. \A y \in Team : Waits(u, y) = Waits(t, y) \/ Waits(u, y) = NotSet
    BY <1>1 DEF Waits
  <2>2. QED
    BY <2>1, FewerWait
<1>4. PICK z \in Player : OneMoves(u, r, z)
  BY DEF Fine
<1>5. OneMoves(t, r, z)
  <2>1. ASSUME NEW q \in (t.players \cap r.players) \ {z}
        PROVE  r.team[q] = t.team[q] \/ t.paused[q] \/ t.swapper[r.team[q]] = q
    <3>1. r.team[q] = u.team[q] \/ u.paused[q] \/ u.swapper[r.team[q]] = q
      BY <1>1, <1>4 DEF OneMoves
    <3>2. q \in Player /\ r.team[q] \in Team
      BY Fields DEF Fine
    <3>3. QED
      BY <1>1, <3>1, <3>2, Ids
  <2>2. QED
    BY <2>1 DEF OneMoves
<1>6. QED
  BY <1>2, <1>3, <1>5 DEF Fine

(* What Cmd_team does, unless it hangs up in the search for a cycle. *)
Commanded(u, p, x, r) ==
    \/ ~MayAsk(u, p, x) /\ r = u
    \/ MayAsk(u, p, x) /\ HasRoom(u, x) /\ r \in Move(u, p, x)
    \/ MayAsk(u, p, x) /\ u.base[p] # NoBase /\ Reaches(u, p, x) /\ r = SwapCycle(u, p, x)
    \/ MayAsk(u, p, x) /\ NoCycle(u, p, x) /\ \E q \in Idle(u, x) : r = SwapPaused(u, p, q)
    \/ MayAsk(u, p, x) /\ NoCycle(u, p, x) /\ r = Queue(u, p, x)

LEMMA CommandFine ==
    ASSUME NEW t \in TablesType, Sound(t), t.fault = "none", NEW p \in Player, p \in t.players,
           NEW x \in Team, NEW u, u = Unqueue(t, p), NEW r, Commanded(u, p, x, r)
    PROVE  Fine(t, r)
<1>1. p \in Player
  BY Ids
<1>2. Unqueued(t, p, u)
  BY <1>1, UnqueueIs
<1>3. u \in TablesType /\ u.fault = "none" /\ p \in u.players
  BY <1>2 DEF Unqueued
<1>4. Sound(u) /\ \A y \in Team : u.swapper[y] # p
  BY <1>2, UnqueuedFine
<1>5. MayAsk(u, p, x) => (u.base[p] # NoBase => x # u.team[p])
  BY DEF MayAsk
<1>6. Fine(u, r)
  <2>1. CASE ~MayAsk(u, p, x) /\ r = u
    BY <1>1, <1>3, <1>4, <2>1, NothingFine
  <2>2. CASE MayAsk(u, p, x) /\ HasRoom(u, x) /\ r \in Move(u, p, x)
    <3>1. u.base[p] # NoBase => u.team[p] # x
      BY <1>5, <2>2
    <3>2. QED
      BY <1>3, <1>4, <2>2, <3>1, MoveFine
  <2>3. CASE MayAsk(u, p, x) /\ u.base[p] # NoBase /\ Reaches(u, p, x) /\ r = SwapCycle(u, p, x)
    <3>1. x # u.team[p]
      BY <1>5, <2>3
    <3>2. QED
      BY <1>3, <1>4, <2>3, <3>1, SwapCycleFine
  <2>4. CASE MayAsk(u, p, x) /\ NoCycle(u, p, x) /\ \E q \in Idle(u, x) : r = SwapPaused(u, p, q)
    BY <1>3, <1>4, <1>5, <2>4, SwapPausedFine
  <2>5. CASE MayAsk(u, p, x) /\ NoCycle(u, p, x) /\ r = Queue(u, p, x)
    BY <1>3, <1>4, <1>5, <2>5, QueueFine
  <2>6. QED
    BY <2>1, <2>2, <2>3, <2>4, <2>5 DEF Commanded
<1>7. QED
  BY <1>2, <1>6, AfterUnqueue

-----------------------------------------------------------------------------
(* Steps of the program.                                                   *)

LEMMA TablesAre ==
    ASSUME TypeOK
    PROVE  /\ Tables \in TablesType /\ Tables.fault = "none"
           /\ Tables.players = players /\ Tables.team = team /\ Tables.base = home_base
           /\ Tables.paused = paused /\ Tables.prev = pl_prev_team
           /\ Tables.members = NumMembers /\ Tables.robots = NumRobots
           /\ Tables.swapper = SwapperId /\ Tables.login = login
  BY DEF TypeOK, Tables, TablesType

(* What a step may do: nothing, turn the lock, end the server before the   *)
(* tables are touched, or do to the tables what it may do.                 *)
Done ==
    \/ UNCHANGED vars
    \/ UNCHANGED <<options, tables, fault>> /\ game_lock' \in BOOLEAN
    \/ fault' \in {"crash", "hang"} /\ UNCHANGED <<options, game_lock, tables>>
    \/ \E r : Become(r) /\ Fine(Tables, r)

LEMMA Queue_loopDone ==
    ASSUME IInv, NEW h \in Human, Queue_loop(h)
    PROVE  Done
<1>1. /\ Tables \in TablesType /\ Tables.fault = "none" /\ Sound(Tables) /\ h \in Player
      /\ h \notin Tables.players
  BY TablesAre, Ids DEF IInv, Queue_loop, Running
<1> DEFINE T == Tables
<1>2. PICK suggested \in Team \cup {NotSet}, t \in Seats(T) :
         IF Ships(t) >= Limit THEN Become(t)
         ELSE \E s \in FindTeam(t, suggested) : Become([s[1] EXCEPT !.login[h] = s[2]])
  BY DEF Queue_loop
<1> HIDE DEF T
<1>3. Reduced(T, t)
  BY <1>1, SeatsReduced DEF T
<1>4. CASE Become(t)
  <2>1. Fine(T, t)
    BY <1>1, <1>3, ReducedFine DEF T
  <2>2. QED
    BY <1>4, <2>1 DEF Done, T
<1>5. ASSUME NEW s \in FindTeam(t, suggested), Become([s[1] EXCEPT !.login[h] = s[2]])
      PROVE  Done
  <2>1. t \in TablesType /\ Sound(t)
    BY <1>3 DEF Reduced
  <2>2. Found(t, s)
    BY <2>1, FindTeamFound
  <2>3. Reduced(t, s[1]) /\ s[2] \in Team \cup {NotSet, NoLogin}
    BY <2>2 DEF Found
  <2>4. Reduced(T, s[1])
    BY <1>3, <2>3, ReducedFurther
  <2>5. Fine(T, s[1])
    BY <1>1, <2>4, ReducedFine DEF T
  <2>6. s[1] \in TablesType /\ h \notin s[1].players
    BY <1>1, <2>4 DEF Reduced, T
  <2> DEFINE r == [s[1] EXCEPT !.login[h] = s[2]]
  <2>7. Fine(T, r)
    BY <1>1, <2>3, <2>5, <2>6, LoginSet DEF T
  <2> HIDE DEF r
  <2>8. Become(r)
    BY <1>5 DEF r
  <2>9. QED
    BY <2>7, <2>8 DEF Done, T
<1>6. QED
  BY <1>2, <1>4, <1>5

LEMMA Handle_loginDone ==
    ASSUME IInv, NEW h \in Human, Handle_login(h)
    PROVE  Done
<1> DEFINE T == Tables
           asked == login[h]
           c == Looked(T, asked)
           i == Let(c, h)
<1>1. /\ T \in TablesType /\ T.fault = "none" /\ Sound(T) /\ h \in Player
      /\ T.login[h] # NoLogin /\ asked = T.login[h]
      /\ asked \in Team \cup {NotSet, NoLogin} /\ asked # NoLogin
  BY TablesAre, Ids DEF IInv, Handle_login, Running, TypeOK
<1>2. \E x \in LoginTeam(c, asked) :
         IF x = NotSet THEN Become([i EXCEPT !.paused[h] = TRUE])
         ELSE \E u \in Enter([i EXCEPT !.team[h] = x], h) : Become(u)
  BY DEF Handle_login, Looked, Let
<1>3. PICK x \in LoginTeam(c, asked) :
         IF x = NotSet THEN Become([i EXCEPT !.paused[h] = TRUE])
         ELSE \E u \in Enter([i EXCEPT !.team[h] = x], h) : Become(u)
  BY <1>2
<1> HIDE DEF T, asked
<1>4. CASE x = NotSet
  <2> DEFINE r == [i EXCEPT !.paused[h] = TRUE]
  <2>1. Fine(T, r)
    BY <1>1, StaysOutFine
  <2> HIDE DEF r
  <2>2. Become(r)
    BY <1>3, <1>4 DEF r
  <2>3. QED
    BY <2>1, <2>2 DEF Done, T
<1>5. CASE x # NotSet
  <2>1. PICK u \in Enter([i EXCEPT !.team[h] = x], h) : Become(u)
    BY <1>3, <1>5
  <2>2. Fine(T, u)
    BY <1>1, <1>5, EnterFine
  <2>3. QED
    BY <2>1, <2>2 DEF Done, T
<1>6. QED
  BY <1>4, <1>5

LEMMA Destroy_connectionDone ==
    ASSUME IInv, NEW h \in Human, Destroy_connection(h)
    PROVE  Done
<1> DEFINE T == Tables
<1>1. T \in TablesType /\ T.fault = "none" /\ Sound(T) /\ h \in Player /\ T.players = players
  BY TablesAre, Ids DEF IInv, Destroy_connection, Running
<1>2. \/ h \in players /\ Become(Delete(T, h))
      \/ Become([T EXCEPT !.login[h] = NoLogin])
  BY DEF Destroy_connection
<1> HIDE DEF T
<1>3. CASE h \in players /\ Become(Delete(T, h))
  <2>1. Reduced(T, Delete(T, h))
    BY <1>1, <1>3, DeleteReduced
  <2> DEFINE r == Delete(T, h)
  <2> HIDE DEF r
  <2>2. Fine(T, r)
    BY <1>1, <2>1, ReducedFine DEF r
  <2>3. QED
    BY <1>3, <2>2 DEF Done, T, r
<1>4. CASE Become([T EXCEPT !.login[h] = NoLogin])
  <2> DEFINE r == [T EXCEPT !.login[h] = NoLogin]
  <2>1. Fine(T, T)
    BY <1>1, NothingFine
  <2>2. Fine(T, r)
    BY <1>1, <2>1, LoginSet
  <2> HIDE DEF r
  <2>3. Become(r)
    BY <1>4 DEF r
  <2>4. QED
    BY <2>2, <2>3 DEF Done, T
<1>5. QED
  BY <1>2, <1>3, <1>4

LEMMA RobotDone ==
    ASSUME IInv, NEW o \in Robot, Robot_create(o) \/ Robot_delete(o)
    PROVE  Done
<1> DEFINE T == Tables
<1>1. /\ T \in TablesType /\ T.fault = "none" /\ Sound(T) /\ o \in Player
      /\ T.players = players /\ options \in Options
  BY TablesAre, Ids DEF IInv, Robot_create, Robot_delete, Running, TypeOK
<1>2. CASE Robot_create(o)
  <2>1. PICK x \in PickRobot(T) :
           IF x = NotSet THEN Fault("crash")
           ELSE \E t \in Pick_startpos([T EXCEPT !.team[o] = x, !.members[x] = @ + 1,
                                                !.robots[x] = @ + 1], o) :
                   Become([t EXCEPT !.players = @ \cup {o}])
    BY <1>2 DEF Robot_create
  <2>2. o \notin T.players
    BY <1>1, <1>2 DEF Robot_create
  <2> HIDE DEF T
  <2>3. CASE x = NotSet
    BY <2>1, <2>3 DEF Done, Fault
  <2>4. CASE x # NotSet
    <3>1. PICK t \in Pick_startpos([T EXCEPT !.team[o] = x, !.members[x] = @ + 1,
                                             !.robots[x] = @ + 1], o) :
             Become([t EXCEPT !.players = @ \cup {o}])
      BY <2>1, <2>4
    <3> DEFINE r == [t EXCEPT !.players = @ \cup {o}]
    <3>2. Fine(T, r)
      BY <1>1, <2>2, <2>4, CreateFine
    <3> HIDE DEF r
    <3>3. Become(r)
      BY <3>1 DEF r
    <3>4. QED
      BY <3>2, <3>3 DEF Done, T
  <2>5. QED
    BY <2>3, <2>4
<1>3. CASE Robot_delete(o)
  <2> DEFINE r == Delete(T, o)
  <2>1. Become(r) /\ o \in T.players
    BY <1>1, <1>3 DEF Robot_delete
  <2> HIDE DEF T
  <2>2. Reduced(T, r)
    BY <1>1, <2>1, DeleteReduced
  <2> HIDE DEF r
  <2>3. Fine(T, r)
    BY <1>1, <2>2, ReducedFine
  <2>4. QED
    BY <2>1, <2>3 DEF Done, T
<1>4. QED
  BY <1>2, <1>3

LEMMA PauseDone ==
    ASSUME IInv, NEW p \in Human, Pause_player(p) \/ Player_toggle_pause(p)
    PROVE  Done
<1> DEFINE T == Tables
<1>1. /\ T \in TablesType /\ T.fault = "none" /\ Sound(T) /\ p \in T.players
  BY TablesAre, Ids DEF IInv, Pause_player, Player_toggle_pause, Running
<1>2. \/ Become(PauseOn(T, p))
      \/ \E r \in Unpause(T, p) : Become(r)
      \/ Fault("crash")
  BY DEF Pause_player, Player_toggle_pause
<1> HIDE DEF T
<1>3. CASE Become(PauseOn(T, p))
  <2> DEFINE r == PauseOn(T, p)
  <2>1. Fine(T, r)
    BY <1>1, PauseOnFine
  <2> HIDE DEF r
  <2>2. QED
    BY <1>3, <2>1 DEF Done, T, r
<1>4. ASSUME NEW r \in Unpause(T, p), Become(r) PROVE Done
  <2>1. Fine(T, r)
    BY <1>1, UnpauseFine
  <2>2. QED
    BY <1>4, <2>1 DEF Done, T
<1>5. CASE Fault("crash")
  BY <1>5 DEF Done, Fault
<1>6. QED
  BY <1>2, <1>3, <1>4, <1>5

LEMMA Change_homeDone ==
    ASSUME IInv, NEW p \in Human, NEW b \in Base, Change_home(p, b)
    PROVE  Done
<1> DEFINE T == Tables
           m == [T EXCEPT !.base[p] = b]
           had == {q \in T.players \ {p} : T.base[q] = b}
<1>1. /\ T \in TablesType /\ T.fault = "none" /\ Sound(T) /\ p \in T.players /\ p \in Player
      /\ ~T.paused[p] /\ b[1] = T.team[p] /\ b # T.base[p]
      /\ T.players = players /\ T.base = home_base
  BY TablesAre, Ids DEF IInv, Change_home, Running
<1>2. IF had = {} THEN Become(m) ELSE \E q \in had : \E u \in Pick_startpos(m, q) : Become(u)
  BY <1>1 DEF Change_home
<1> HIDE DEF T
<1>3. HomeIs(T, p, b, m)
  BY <1>1, HomeSet
<1>4. CASE had = {}
  <2>1. Become(m)
    BY <1>2, <1>4
  <2>2. \A q \in T.players \ {p} : T.base[q] # b
    BY <1>4
  <2> HIDE DEF m
  <2>3. Fine(T, m)
    BY <1>1, <1>3, <2>2, NewHomeFine
  <2>4. QED
    BY <2>1, <2>3 DEF Done, T
<1>5. CASE had # {}
  <2>1. PICK q \in had : \E u \in Pick_startpos(m, q) : Become(u)
    BY <1>2, <1>5
  <2>2. PICK u \in Pick_startpos(m, q) : Become(u)
    BY <2>1
  <2>3. q \in T.players \ {p} /\ T.base[q] = b
    BY <2>1
  <2>4. Fine(T, u)
    BY <1>1, <2>2, <2>3, SwapHomeFine
  <2>5. QED
    BY <2>2, <2>4 DEF Done, T
<1>6. QED
  BY <1>4, <1>5

LEMMA Cmd_teamDone ==
    ASSUME IInv, NEW p \in Player, NEW x \in Team, Cmd_team(p, x)
    PROVE  Done
<1> DEFINE T == Tables
           u == Unqueue(T, p)
<1>1. /\ T \in TablesType /\ T.fault = "none" /\ Sound(T) /\ p \in T.players /\ p \in Player
  BY TablesAre, Ids DEF IInv, Cmd_team, Running
<1>2. IF ~MayAsk(u, p, x) THEN Become(u)
      ELSE IF HasRoom(u, x) THEN \E r \in Move(u, p, x) : Become(r)
      ELSE IF u.base[p] # NoBase /\ Reaches(u, p, x) THEN Become(SwapCycle(u, p, x))
      ELSE IF u.base[p] # NoBase /\ ~Ends(u, p) THEN Fault("hang")
      ELSE IF Idle(u, x) # {} THEN \E q \in Idle(u, x) : Become(SwapPaused(u, p, q))
      ELSE Become(Queue(u, p, x))
  BY DEF Cmd_team
<1> HIDE DEF u
<1>3. (\E r : Become(r) /\ Commanded(u, p, x, r)) \/ Fault("hang")
  <2>1. CASE ~MayAsk(u, p, x)
    BY <1>2, <2>1 DEF Commanded
  <2>2. CASE MayAsk(u, p, x) /\ HasRoom(u, x)
    BY <1>2, <2>2 DEF Commanded
  <2>3. CASE MayAsk(u, p, x) /\ ~HasRoom(u, x) /\ u.base[p] # NoBase /\ Reaches(u, p, x)
    BY <1>2, <2>3 DEF Commanded
  <2>4. CASE MayAsk(u, p, x) /\ ~HasRoom(u, x) /\ ~(u.base[p] # NoBase /\ Reaches(u, p, x))
    <3>1. CASE u.base[p] # NoBase /\ ~Ends(u, p)
      BY <1>2, <2>4, <3>1
    <3>2. CASE ~(u.base[p] # NoBase /\ ~Ends(u, p))
      <4>1. NoCycle(u, p, x)
        BY <2>4, <3>2 DEF NoCycle
      <4>2. CASE Idle(u, x) # {}
        BY <1>2, <2>4, <3>2, <4>1, <4>2 DEF Commanded
      <4>3. CASE Idle(u, x) = {}
        BY <1>2, <2>4, <3>2, <4>1, <4>3 DEF Commanded
      <4>4. QED
        BY <4>2, <4>3
    <3>3. QED
      BY <3>1, <3>2
  <2>5. QED
    BY <2>1, <2>2, <2>3, <2>4
<1>4. ASSUME NEW r, Become(r), Commanded(u, p, x, r) PROVE Done
  <2> HIDE DEF T
  <2>1. Fine(T, r)
    BY <1>1, <1>4, CommandFine DEF u
  <2>2. QED
    BY <1>4, <2>1 DEF Done, T
<1>5. CASE Fault("hang")
  BY <1>5 DEF Done, Fault
<1>6. QED
  BY <1>3, <1>4, <1>5

LEMMA NextDone ==
    ASSUME IInv, [Next]_vars
    PROVE  Done
<1>1. CASE UNCHANGED vars
  BY <1>1 DEF Done
<1>2. ASSUME NEW h \in Human, Queue_loop(h) \/ Handle_login(h) \/ Destroy_connection(h)
      PROVE  Done
  BY <1>2, Queue_loopDone, Handle_loginDone, Destroy_connectionDone
<1>3. ASSUME NEW o \in Robot, Robot_create(o) \/ Robot_delete(o)
      PROVE  Done
  BY <1>3, RobotDone
<1>4. ASSUME NEW p \in Human, Pause_player(p) \/ Player_toggle_pause(p)
      PROVE  Done
  BY <1>4, PauseDone
<1>5. ASSUME NEW p \in Human, NEW b \in Base, Change_home(p, b)
      PROVE  Done
  BY <1>5, Change_homeDone
<1>6. ASSUME NEW p \in Player, NEW x \in Team, Cmd_team(p, x)
      PROVE  Done
  BY <1>6, Cmd_teamDone
<1>7. CASE Cmd_lock
  BY <1>7 DEF Cmd_lock, Done
<1>8. QED
  BY <1>1, <1>2, <1>3, <1>4, <1>5, <1>6, <1>7 DEF Next

-----------------------------------------------------------------------------
(* The theorems.                                                           *)

LEMMA InitSound ==
    ASSUME Init
    PROVE  IInv
<1>1. TypeOK
  <2>1. /\ options \in Options /\ game_lock \in BOOLEAN /\ players \subseteq Player
        /\ fault \in {"none", "crash", "end", "hang"}
    BY DEF Init
  <2>2. /\ team \in [Player -> Team] /\ home_base \in [Player -> Base \cup {NoBase}]
        /\ paused \in [Player -> BOOLEAN] /\ pl_prev_team \in [Player -> Team]
    BY Ids DEF Init
  <2>3. NumMembers \in [Team -> Int] /\ NumRobots \in [Team -> Int]
    BY DEF Init
  <2>4. /\ SwapperId \in [Team -> Player \cup {NoId}]
        /\ login \in [Human -> Team \cup {NotSet, NoLogin}]
    BY DEF Init
  <2>5. QED
    BY <2>1, <2>2, <2>3, <2>4 DEF TypeOK
<1>2. Sound(Tables)
  <2>1. /\ Tables.players = {} /\ Tables.base = [p \in Player |-> NoBase]
        /\ Tables.paused = [p \in Player |-> FALSE] /\ Tables.prev = [p \in Player |-> 0]
        /\ Tables.robots = [x \in Team |-> 0]
        /\ Tables.swapper = [x \in Team |-> NoId] /\ Tables.login = [h \in Human |-> NoLogin]
    BY DEF Init, Tables
  <2>2. OwnHomes(Tables) /\ Absent(Tables) /\ QueuedOnce(Tables)
    BY <2>1 DEF OwnHomes, Absent, QueuedOnce
  <2>3. RobotsKeep(Tables) /\ NoReturn(Tables)
    BY <2>1, Ids DEF RobotsKeep, NoReturn
  <2>4. QED
    BY <2>2, <2>3 DEF Sound
<1>3. QED
  BY <1>1, <1>2 DEF IInv

(* The tables of the next state.                                           *)
LEMMA Carried ==
    ASSUME NEW r \in TablesType, Become(r), TypeOK
    PROVE  /\ TypeOK'
           /\ Tables' = [r EXCEPT !.fault = "none"]
           /\ fault' = r.fault /\ options' = options
<1>1. TypeOK'
  BY Fields DEF Become, TypeOK
<1>2. r = [players |-> r.players, team |-> r.team, base |-> r.base, paused |-> r.paused,
           prev |-> r.prev, members |-> r.members, robots |-> r.robots,
           swapper |-> r.swapper, login |-> r.login, fault |-> r.fault]
  BY DEF TablesType
<1>3. Tables' = [players |-> r.players, team |-> r.team, base |-> r.base, paused |-> r.paused,
           prev |-> r.prev, members |-> r.members, robots |-> r.robots,
           swapper |-> r.swapper, login |-> r.login, fault |-> "none"]
  BY DEF Become, Tables
<1>4. QED
  BY <1>1, <1>2, <1>3 DEF Become

(* What is said about the tables is said about their values one step on.   *)
LEMMA SoundNext ==
    ASSUME NEW r, r = Tables', options' = options, Sound(r)
    PROVE  Sound(Tables)'
<1>1. OwnHomes(Tables)' /\ Absent(Tables)' /\ QueuedOnce(Tables)'
  BY DEF Sound, OwnHomes, Absent, QueuedOnce
<1>2. RobotsKeep(Tables)' /\ NoReturn(Tables)'
  BY DEF Sound, RobotsKeep, NoReturn
<1>3. QED
  BY <1>1, <1>2 DEF Sound

LEMMA SoundAnyFault ==
    ASSUME NEW r \in TablesType, Sound(r), NEW u, u = [r EXCEPT !.fault = "none"]
    PROVE  Sound(u)
<1>1. /\ u.players = r.players /\ u.team = r.team /\ u.base = r.base /\ u.paused = r.paused
      /\ u.prev = r.prev /\ u.swapper = r.swapper /\ u.login = r.login
      /\ u.robots = r.robots
  BY DEF TablesType
<1>2. QED
  BY <1>1 DEF Sound, OwnHomes, Absent, QueuedOnce, RobotsKeep, NoReturn

(* The four kinds of steps.                                                *)
StaysPut == UNCHANGED <<options, tables, fault>>
EndsBefore == fault' \in {"crash", "hang"} /\ UNCHANGED <<options, tables>>
Changes(r) == Become(r) /\ Fine(Tables, r) /\ r \in TablesType

LEMMA Steps ==
    ASSUME IInv, [Next]_vars
    PROVE  StaysPut \/ EndsBefore \/ \E r : Changes(r)
<1>1. Done
  BY NextDone
<1>2. QED
  BY <1>1 DEF Done, StaysPut, EndsBefore, Changes, Fine, vars

LEMMA StepSound ==
    ASSUME IInv, [Next]_vars
    PROVE  IInv'
<1>1. game_lock' \in BOOLEAN
  BY NextDone DEF Done, IInv, TypeOK, vars, Become
<1>2. CASE StaysPut
  <2>1. TypeOK'
    BY <1>1, <1>2 DEF StaysPut, IInv, TypeOK, tables
  <2>2. Tables' = Tables /\ options' = options /\ fault' = fault
    BY <1>2 DEF StaysPut, Tables, tables
  <2>3. fault = "none" => Sound(Tables)'
    BY <2>2, SoundNext DEF IInv
  <2>4. QED
    BY <2>1, <2>2, <2>3 DEF IInv
<1>3. CASE EndsBefore
  <2>1. TypeOK'
    BY <1>1, <1>3 DEF EndsBefore, IInv, TypeOK, tables
  <2>2. QED
    BY <1>3, <2>1 DEF IInv, EndsBefore
<1>4. ASSUME NEW r, Changes(r) PROVE IInv'
  <2>1. TypeOK' /\ Tables' = [r EXCEPT !.fault = "none"] /\ fault' = r.fault /\ options' = options
    BY <1>4, Carried DEF IInv, Changes
  <2>2. r.fault = "none" => Sound(Tables)'
    <3>1. ASSUME r.fault = "none" PROVE Sound(Tables)'
      <4>1. r \in TablesType /\ Sound(r)
        BY <1>4, <3>1 DEF Changes, Fine
      <4> DEFINE u == [r EXCEPT !.fault = "none"]
      <4>2. u = Tables' /\ options' = options
        BY <2>1
      <4>3. Sound(u)
        BY <4>1, SoundAnyFault
      <4> HIDE DEF u
      <4>4. QED
        BY <4>2, <4>3, SoundNext
    <3>2. QED
      BY <3>1
  <2>3. QED
    BY <2>1, <2>2 DEF IInv
<1>5. QED
  BY <1>2, <1>3, <1>4, Steps

(* The invariant, in every state that can be reached.                      *)
THEOREM Inductive == Spec => []IInv
BY InitSound, StepSound, PTL DEF Spec

(* The tables keep their types, whatever is paused, swapped or kicked.     *)
THEOREM TypeCorrect == Spec => []TypeOK
<1>1. IInv => TypeOK
  BY DEF IInv
<1>2. QED
  BY <1>1, Inductive, PTL

(* A base is home to one player, of the team it belongs to.                *)
THEOREM BasesAreOwn == Spec => []OwnBases
<1>1. IInv => OwnBases
  <2> SUFFICES ASSUME IInv, fault = "none" PROVE OwnBases
    BY DEF OwnBases
  <2>1. OwnHomes(Tables) /\ Tables.players = players /\ Tables.team = team /\ Tables.base = home_base
    BY TablesAre DEF IInv, Sound
  <2>2. QED
    BY <2>1 DEF OwnHomes, OwnBases
<1>2. QED
  BY <1>1, Inductive, PTL

(* The terms of the properties are those of the proof.                     *)
LEMMA Terms ==
    ASSUME TypeOK
    PROVE  /\ AllBased => Based(Tables)
           /\ (\A x \in Team : MembersRight(x)) => Right(Tables)
           /\ (\A x \in Team : RobotsRight(x)) => Tallied(Tables)
           /\ Circle(Tables) => WaitInCircle
<1>1. AllBased => Based(Tables)
  BY TablesAre DEF AllBased, Based
<1>2. ASSUME \A x \in Team : MembersRight(x) PROVE Right(Tables)
  BY <1>2, TablesAre DEF MembersRight, Right, MembersOf
<1>3. ASSUME \A x \in Team : RobotsRight(x) PROVE Tallied(Tables)
  BY <1>3, TablesAre DEF RobotsRight, Tallied, RobotsOf
<1>4. \A x \in Team : WaitsFor(x) = Waits(Tables, x)
  BY TablesAre DEF WaitsFor, Waits
<1>5. Circle(Tables) => WaitInCircle
  BY <1>4 DEF Circle, WaitInCircle
<1>6. QED
  BY <1>1, <1>2, <1>3, <1>5

(* The counts that let players into a team are those of its members with a *)
(* base and of its robots.  They stay so whatever is paused, swapped or    *)
(* kicked, until somebody has come to play without a base; those of robots *)
(* only until an operator moves a robot, which Cmd_team does not count.    *)
THEOREM CountsRight == Spec => CountsKeepPace
<1> DEFINE A == AllBased /\ fault' = "none"
           M == (\A x \in Team : MembersRight(x)) => \A x \in Team : MembersRight(x)'
           R == (\A x \in Team : RobotsRight(x)) /\ ~RobotMoves
                  => \A x \in Team : RobotsRight(x)'
           B == /\ (\A x \in Team : MembersRight(x)) => \A x \in Team : MembersRight(x)'
                /\ (\A x \in Team : RobotsRight(x)) /\ ~RobotMoves
                     => \A x \in Team : RobotsRight(x)'
<1>1. IInv /\ [Next]_vars => (A => B)
  <2> SUFFICES ASSUME IInv, [Next]_vars, A PROVE M /\ R
    OBVIOUS
  <2>1. CASE StaysPut
    BY <2>1 DEF StaysPut, tables, MembersRight, RobotsRight
  <2>2. CASE EndsBefore
    BY <2>2 DEF EndsBefore
  <2>3. ASSUME NEW r, Changes(r) PROVE M /\ R
    <3>1. /\ players' = r.players /\ team' = r.team /\ home_base' = r.base
          /\ NumMembers' = r.members /\ NumRobots' = r.robots /\ r.fault = "none"
      BY <2>3 DEF Changes, Become
    <3>2. Based(Tables) /\ Fine(Tables, r)
      BY <2>3, Terms DEF IInv, Changes
    <3>3. M
      <4>1. Right(Tables) => Right(r)
        BY <3>1, <3>2 DEF Fine
      <4>2. ASSUME \A x \in Team : MembersRight(x) PROVE \A x \in Team : MembersRight(x)'
        BY <3>1, <4>1, <4>2, Terms DEF IInv, Right, MembersOf, MembersRight
      <4>3. QED
        BY <4>2
    <3>4. R
      <4>1. SUFFICES ASSUME \A x \in Team : RobotsRight(x), ~RobotMoves
                     PROVE  \A x \in Team : RobotsRight(x)'
        OBVIOUS
      <4>2. RobotsStay(Tables, r)
        BY <3>1, <4>1, TablesAre DEF IInv, RobotMoves, RobotsStay
      <4>3. Tallied(r)
        BY <3>1, <3>2, <4>1, <4>2, Terms DEF IInv, Fine
      <4>4. QED
        BY <3>1, <4>3 DEF Tallied, RobotsOf, RobotsRight
    <3>5. QED
      BY <3>3, <3>4
  <2>4. QED
    BY <2>1, <2>2, <2>3, Steps
<1>2. Spec => [][A => B]_vars
  BY <1>1, Inductive, PTL DEF Spec
<1>3. QED
  BY <1>2 DEF CountsKeepPace

(* Wishes for a team that close a cycle are granted at once: players who   *)
(* have a base never come to wait for each other in a circle.              *)
THEOREM NoCircles == Spec => CyclesAreSwapped
<1> DEFINE A == AllBased /\ ~options.baselessPausing /\ ~WaitInCircle
           B == ~WaitInCircle'
<1>1. IInv /\ [Next]_vars => (A => B)
  <2> SUFFICES ASSUME IInv, [Next]_vars, A PROVE B
    OBVIOUS
  <2>1. CASE StaysPut \/ EndsBefore
    BY <2>1 DEF StaysPut, EndsBefore, tables, WaitInCircle, WaitsFor
  <2>2. ASSUME NEW r, Changes(r) PROVE B
    <3>1. Based(Tables) /\ ~Circle(Tables)
      <4>1. Circle(Tables) => WaitInCircle
        BY Terms DEF IInv
      <4>2. Based(Tables)
        BY Terms DEF IInv
      <4>3. QED
        BY <4>1, <4>2
    <3>2. ~Circle(r)
      BY <2>2, <3>1 DEF Changes, Fine
    <3>3. team' = r.team /\ home_base' = r.base /\ SwapperId' = r.swapper
      BY <2>2 DEF Changes, Become
    <3>4. \A x \in Team : WaitsFor(x)' = Waits(r, x)
      BY <3>3 DEF WaitsFor, Waits
    <3>5. QED
      BY <3>2, <3>4 DEF Circle, WaitInCircle
  <2>3. QED
    BY <2>1, <2>2, Steps
<1>2. Spec => [][A => B]_vars
  BY <1>1, Inductive, PTL DEF Spec
<1>3. QED
  BY <1>2 DEF CyclesAreSwapped

(* Swaps give everyone what was asked for: in a step only one player who   *)
(* does not pause moves to a team without having queued for it.            *)
THEOREM OnlyAsAsked == Spec => SwapsAsAsked
<1> DEFINE S == {p \in players \cap players' :
                   /\ team'[p] # team[p] /\ ~paused[p] /\ ~paused'[p]
                   /\ SwapperId[team'[p]] # p}
           B == Cardinality(S) <= 1
<1>1. IInv /\ [Next]_vars => B
  <2> SUFFICES ASSUME IInv, [Next]_vars PROVE B
    OBVIOUS
  <2>1. CASE StaysPut \/ EndsBefore
    <3>1. S = {}
      BY <2>1 DEF StaysPut, EndsBefore, tables
    <3> HIDE DEF S
    <3>2. QED
      BY <3>1, FS_EmptySet
  <2>2. ASSUME NEW r, Changes(r) PROVE B
    <3>1. PICK p \in Player : OneMoves(Tables, r, p)
      BY <2>2 DEF Changes, Fine
    <3>2. players' = r.players /\ team' = r.team
      BY <2>2 DEF Changes, Become
    <3>3. S \subseteq {p}
      BY <3>1, <3>2, TablesAre DEF IInv, OneMoves
    <3> HIDE DEF S
    <3>4. S = {} \/ S = {p}
      BY <3>3
    <3>5. Cardinality({}) = 0 /\ Cardinality({p}) = 1
      BY FS_EmptySet, FS_Singleton
    <3>6. QED
      BY <3>4, <3>5
  <2>3. QED
    BY <2>1, <2>2, Steps
<1>2. QED
  BY <1>1, Inductive, PTL DEF Spec, SwapsAsAsked

(* Whoever is let in, moves or pauses no more finds a base as long as all  *)
(* who play have one, but for one case: a player logs in to a full team    *)
(* that has robots, which are taken to have been kicked.  Pick_startpos    *)
(* then ends the server.  With the settings by default that does not       *)
(* happen, wherever operators move the robots.                             *)
THEOREM BasesSuffice == Spec => BaseForEveryone
<1> DEFINE A == AllBased /\ (\A x \in Team : MembersRight(x)) /\ fault' = "end"
           B == /\ \E h \in Human : TakenForKicked(h)
                /\ ~(options.restrictRobots /\ options.reserveRobotTeam)
<1>1. IInv /\ [Next]_vars => [A => B]_vars
  <2> SUFFICES ASSUME IInv, [Next]_vars, A, vars' # vars PROVE B
    OBVIOUS
  <2>1. fault = "none"
    BY DEF Next, Queue_loop, Handle_login, Destroy_connection, Robot_create, Robot_delete,
           Pause_player, Player_toggle_pause, Change_home, Cmd_team, Cmd_lock, Running
  <2>2. CASE StaysPut \/ EndsBefore
    BY <2>1, <2>2 DEF StaysPut, EndsBefore
  <2>3. ASSUME NEW r, Changes(r) PROVE B
    <3>1. Based(Tables) /\ Right(Tables)
      BY Terms DEF IInv
    <3>2. r.fault = "end" /\ Fine(Tables, r)
      BY <2>3 DEF Changes, Become
    <3>3. Excused(Tables)
      BY <3>1, <3>2 DEF Fine, Settled
    <3>4. QED
      BY <3>3, TablesAre DEF IInv, Excused, TakenForKicked, HasRoom
  <2>4. QED
    BY <2>2, <2>3, Steps
<1>2. Spec => [][A => B]_vars
  BY <1>1, Inductive, PTL DEF Spec
<1>3. QED
  BY <1>2 DEF BaseForEveryone

=============================================================================
