--------------------------- MODULE Treasures_proofs ---------------------------
(***************************************************************************)
(* Proofs that balls, treasures and carriers stay in step, for any number  *)
(* of players, teams, treasures and slots.                                 *)
(*                                                                         *)
(* The invariant is one of the world as a value.  Each function of the     *)
(* world keeps it, but for those that Reset_all_players is made of: balls  *)
(* are unmade while their treasures are still said to have them.           *)
(***************************************************************************)
EXTENDS Treasures, FiniteSetTheorems, FunctionTheorems, SequenceTheorems, WellFoundedInduction, TLAPS

Cap == Cardinality(Slot)

States == {"none", "alive", "killed", "dead", "paused"}

Object ==
    [treasure : 0 .. NumTreasures, id : Player \cup {NoId}, owner : Player \cup {NoId},
     life : {0, 1}, recreate : BOOLEAN, gravity : BOOLEAN]

Worlds ==
    [state : [Player -> States], hasBall : SUBSET Player,
     ptr : [Player -> Slot \cup {Null}], ball : [Slot -> Object],
     Obj : [1 .. Cap -> Slot], n : 0 .. Cap,
     have : [Treasure -> BOOLEAN], destroyed : [Treasure -> Nat],
     left : [Team -> Int], won : [Team -> Nat],
     strayed : SUBSET Player, robbed : SUBSET Treasure]

InUse(w, s) == \E i \in 1 .. w.n : w.Obj[i] = s

(* The balls are where Obj says, each in a slot of its own. *)
Placed(w) ==
    /\ \A i, j \in 1 .. Cap : w.Obj[i] = w.Obj[j] => i = j
    /\ \A s \in Slot :
          /\ w.ball[s].treasure # 0 => InUse(w, s)
          /\ ~InUse(w, s) => w.ball[s] = Gone
          /\ w.ball[s].treasure = 0 => w.ball[s].owner = NoId

(* The other objects leave room for the balls. *)
Others(w) == {s \in Slot : InUse(w, s) /\ w.ball[s].treasure = 0}

Roomy(w) == Cardinality(Others(w)) <= Cap - NumTreasures

(* A treasure has one ball at most. *)
OneEach(w) ==
    \A r, s \in Slot :
       w.ball[r].treasure # 0 /\ w.ball[r].treasure = w.ball[s].treasure => r = s

(* A treasure whose ball is missing, or will be, has lost it. *)
Lost(w) ==
    /\ \A t \in Treasure : (\A s \in Slot : w.ball[s].treasure # t) => w.destroyed[t] > 0
    /\ \A s \in Slot : w.ball[s].treasure # 0 /\ ~w.ball[s].recreate
                          => w.destroyed[w.ball[s].treasure] > 0

(* A treasure has its ball while nobody has touched it, nor strayed. *)
Untaken(w, t) == \E s \in Slot : w.ball[s].treasure = t /\ ~w.ball[s].gravity

Had(w) ==
    /\ \A t \in Treasure : /\ w.have[t] => Untaken(w, t)
                           /\ Untaken(w, t) => w.have[t] \/ t \in w.robbed
    /\ \A s \in Slot : w.ball[s].treasure # 0 /\ ~w.ball[s].gravity
                          => /\ w.ball[s].id = NoId
                             /\ w.ball[s].owner = NoId \/ ~w.have[w.ball[s].treasure]

Holds(w, p) == \E s \in Slot : w.ball[s].treasure # 0 /\ w.ball[s].id = p

Carried(w) ==
    \A p \in Player : /\ Holds(w, p) => p \in w.hasBall
                      /\ p \in w.hasBall => Holds(w, p) \/ p \in w.strayed

Playing(w) == \A p \in w.hasBall : w.state[p] \in {"alive", "killed"}

OwnersPresent(w) == \A s \in Slot : w.ball[s].owner # NoId => w.state[w.ball[s].owner] # "none"

(* Each ball that is missing is counted. *)
Counted(w) ==
    /\ \A x \in Team : w.left[x] <= Owned(x)
    /\ \A t \in Treasure : w.destroyed[t] > 0 => w.left[team[t]] < Owned(team[t])

Good(w) ==
    /\ w \in Worlds /\ Placed(w) /\ Roomy(w) /\ OneEach(w) /\ Lost(w) /\ Had(w)
    /\ Carried(w) /\ Playing(w) /\ OwnersPresent(w) /\ Counted(w)

(* What is still to be visited. *)
Awaited ==
    /\ options \in Options
    /\ phase \in {"input", "objects", "players", "collide", "cleanup"}
    /\ todo \subseteq Player \cup Slot \cup (Player \X Slot)
    /\ phase = "objects" => todo \subseteq Balls
    /\ phase = "collide" => \A p \in Player, s \in Slot : <<p, s>> \in todo => s \in Balls

(* Nobody has strayed without HAS_BALL, nor is a treasure robbed that has its ball. *)
Settled == strayed \subseteq hasBall /\ robbed \subseteq {t \in Treasure : ~have[t]}

(* The inductive invariant. *)
IInv == Good(World) /\ Settled /\ Awaited

-----------------------------------------------------------------------------
(* Folds.                                                                  *)

(* A set of numbers has a least. *)
LEMMA Least ==
    ASSUME NEW S \in SUBSET Nat, S # {}
    PROVE  \E n \in S : \A m \in S : n <= m
<1> DEFINE R == OpToRel(<, Nat)
<1>1. IsWellFoundedOn(R, Nat)
  BY NatLessThanWellFounded
<1>2. \A x, y \in Nat : <<x, y>> \notin R => y <= x
  BY DEF OpToRel
<1> HIDE DEF R
<1>3. PICK n \in S : \A m \in S : <<m, n>> \notin R
  BY <1>1, WFMin
<1>4. QED
  BY <1>2, <1>3

(* Induction up to a bound, for what the members of a set are. *)
LEMMA UpTo ==
    ASSUME NEW N \in Nat, NEW G, 0 \in G,
           \A n \in 1 .. N : n - 1 \in G => n \in G
    PROVE  \A n \in 0 .. N : n \in G
<1> DEFINE Rest == {n \in 0 .. N : n \notin G}
<1>1. SUFFICES ASSUME Rest # {} PROVE FALSE
  OBVIOUS
<1>2. Rest \in SUBSET Nat
  OBVIOUS
<1> HIDE DEF Rest
<1>3. PICK n \in Rest : \A m \in Rest : n <= m
  BY <1>1, <1>2, Least
<1>4. n \in 1 .. N /\ n - 1 \notin Rest
  BY <1>2, <1>3 DEF Rest
<1>5. QED
  BY <1>3, <1>4 DEF Rest

(* What is defined from the value before is defined for all. *)
Iterates(f, m, S, base, step) ==
    /\ f \in [0 .. m -> S] /\ f[0] = base
    /\ \A n \in 1 .. m : f[n] = step[n][f[n - 1]]

LEMMA Recursion ==
    ASSUME NEW N \in Nat, NEW S, NEW base \in S, NEW step \in [1 .. N -> [S -> S]]
    PROVE  \E f : Iterates(f, N, S, base, step)
<1> USE DEF Iterates
<1> DEFINE To(m, f) == Iterates(f, m, S, base, step)
           G == {m \in 0 .. N : \E f : To(m, f)}
<1>1. 0 \in G
  <2>1. To(0, [n \in 0 .. 0 |-> base])
    OBVIOUS
  <2> HIDE DEF To
  <2>2. QED
    BY <2>1
<1>2. ASSUME NEW m \in 1 .. N, m - 1 \in G PROVE m \in G
  <2>1. PICK f : To(m - 1, f)
    BY <1>2
  <2>2. f \in [0 .. m - 1 -> S] /\ f[m - 1] \in S /\ step[m][f[m - 1]] \in S
    BY <2>1
  <2> DEFINE g == [n \in 0 .. m |-> IF n < m THEN f[n] ELSE step[m][f[m - 1]]]
  <2>3. g \in [0 .. m -> S] /\ g[0] = base
    BY <2>1, <2>2
  <2>4. \A n \in 0 .. m - 1 : g[n] = f[n]
    OBVIOUS
  <2>5. g[m] = step[m][g[m - 1]]
    OBVIOUS
  <2>6. ASSUME NEW n \in 1 .. m PROVE g[n] = step[n][g[n - 1]]
    <3>1. CASE n = m
      BY <2>5, <3>1
    <3>2. CASE n # m
      <4>1. n \in 1 .. m - 1 /\ n \in 0 .. m - 1 /\ n - 1 \in 0 .. m - 1
        BY <3>2
      <4>2. f[n] = step[n][f[n - 1]]
        BY <2>1, <4>1
      <4>3. QED
        BY <2>4, <4>1, <4>2
    <3>3. QED
      BY <3>1, <3>2
  <2> HIDE DEF g
  <2>7. To(m, g)
    BY <2>3, <2>6
  <2> HIDE DEF To
  <2>8. QED
    BY <2>7
<1> HIDE DEF G
<1>3. \A m \in 1 .. N : m - 1 \in G => m \in G
  BY <1>2
<1>4. \A n \in 0 .. N : n \in G
  BY <1>1, <1>3, UpTo
<1>5. N \in G
  BY <1>4
<1>6. QED
  BY <1>5 DEF G

-----------------------------------------------------------------------------
(* The world.                                                              *)

LEMMA Bounds ==
    /\ Cap \in Nat /\ NumTreasures \in Nat /\ NumTreasures <= Cap
    /\ \A t \in Treasure : t \in Nat /\ t # 0 /\ t \in 0 .. NumTreasures
    /\ 0 \in 0 .. NumTreasures
<1>1. Cap \in Nat
  BY Sizes, FS_CardinalityType DEF Cap
<1>2. NumTreasures \in Nat /\ NumTreasures <= Cap
  BY <1>1, Sizes DEF Cap
<1>3. QED
  BY <1>1, <1>2 DEF Treasure

LEMMA Owning ==
    /\ \A x \in Team : Owned(x) \in Nat
    /\ \A t \in Treasure : team[t] \in Team /\ Owned(team[t]) > 0
    /\ \A p \in Player : team[p] \in Team
<1>1. IsFiniteSet(Treasure)
  BY Sizes, FS_Interval DEF Treasure
<1>2. ASSUME NEW x PROVE Owned(x) \in Nat /\ IsFiniteSet({t \in Treasure : team[t] = x})
  <2>1. {t \in Treasure : team[t] = x} \subseteq Treasure
    OBVIOUS
  <2>2. IsFiniteSet({t \in Treasure : team[t] = x})
    BY <1>1, <2>1, FS_Subset
  <2>3. QED
    BY <2>2, FS_CardinalityType DEF Owned
<1>3. (\A t \in Treasure : team[t] \in Team) /\ \A p \in Player : team[p] \in Team
  BY Teams
<1>4. ASSUME NEW t \in Treasure PROVE Owned(team[t]) > 0
  <2> DEFINE S == {u \in Treasure : team[u] = team[t]}
  <2>1. t \in S /\ IsFiniteSet(S)
    BY <1>2
  <2>2. S # {}
    BY <2>1
  <2> HIDE DEF S
  <2>3. Cardinality(S) # 0 /\ Cardinality(S) \in Nat
    BY <2>1, <2>2, FS_EmptySet, FS_CardinalityType
  <2>4. Owned(team[t]) = Cardinality(S)
    BY DEF Owned, S
  <2>5. QED
    BY <2>3, <2>4
<1>5. QED
  BY <1>2, <1>3, <1>4

LEMMA GoneIs ==
    /\ Gone \in Object /\ Gone.treasure = 0 /\ Gone.id = NoId /\ Gone.owner = NoId
    /\ Gone.life = 0
BY Bounds DEF Gone, Object

LEMMA FreshIs ==
    ASSUME NEW t \in Treasure
    PROVE  /\ Fresh(t) \in Object /\ Fresh(t).treasure = t /\ Fresh(t).id = NoId
           /\ Fresh(t).owner = NoId /\ Fresh(t).life = 1
           /\ Fresh(t).recreate = TRUE /\ Fresh(t).gravity = FALSE
<1>1. t \in 0 .. NumTreasures
  BY Bounds
<1>2. QED
  BY <1>1 DEF Fresh, Gone, Object

LEMMA WorldFields ==
    ASSUME NEW w \in Worlds
    PROVE  /\ w.state \in [Player -> States] /\ w.hasBall \in SUBSET Player
           /\ w.ptr \in [Player -> Slot \cup {Null}] /\ w.ball \in [Slot -> Object]
           /\ w.Obj \in [1 .. Cap -> Slot] /\ w.n \in 0 .. Cap
           /\ w.have \in [Treasure -> BOOLEAN] /\ w.destroyed \in [Treasure -> Nat]
           /\ w.left \in [Team -> Int] /\ w.won \in [Team -> Nat]
           /\ w.strayed \in SUBSET Player /\ w.robbed \in SUBSET Treasure
BY DEF Worlds

LEMMA WorldCounts ==
    ASSUME NEW w \in Worlds
    PROVE  /\ w.n \in Nat /\ w.n <= Cap /\ Cap \in Nat /\ Len(w.Obj) = Cap
           /\ w.Obj \in Seq(Slot)
<1>1. w.n \in 0 .. Cap /\ w.Obj \in [1 .. Cap -> Slot]
  BY WorldFields
<1>2. QED
  BY <1>1, Bounds

LEMMA BallFields ==
    ASSUME NEW w \in Worlds, NEW s \in Slot
    PROVE  /\ w.ball[s] \in Object
           /\ w.ball[s].treasure \in 0 .. NumTreasures
           /\ w.ball[s].treasure # 0 => w.ball[s].treasure \in Treasure
           /\ w.ball[s].id \in Player \cup {NoId}
           /\ w.ball[s].owner \in Player \cup {NoId}
           /\ w.ball[s].life \in {0, 1}
           /\ w.ball[s].recreate \in BOOLEAN /\ w.ball[s].gravity \in BOOLEAN
<1>1. w.ball[s] \in Object
  BY WorldFields
<1>2. w.ball[s].treasure \in 0 .. NumTreasures
  BY <1>1 DEF Object
<1>3. w.ball[s].treasure # 0 => w.ball[s].treasure \in Treasure
  BY <1>2, Bounds DEF Treasure
<1>4. QED
  BY <1>1, <1>2, <1>3 DEF Object

(* A new ball in the slot that is next. *)
LEMMA Make_treasure_ballIs ==
    ASSUME NEW w \in Worlds, NEW t \in Treasure, ~w.have[t], w.n < Cap
    PROVE  LET r == Make_treasure_ball(w, t)
               s == w.Obj[w.n + 1]
           IN  /\ r \in Worlds /\ s \in Slot /\ r.n = w.n + 1
               /\ r.ball = [w.ball EXCEPT ![s] = Fresh(t)]
               /\ r.have = [w.have EXCEPT ![t] = TRUE]
               /\ r.state = w.state /\ r.hasBall = w.hasBall /\ r.ptr = w.ptr
               /\ r.Obj = w.Obj /\ r.destroyed = w.destroyed
               /\ r.left = w.left /\ r.won = w.won /\ r.strayed = w.strayed /\ r.robbed = w.robbed
<1> DEFINE s == w.Obj[w.n + 1]
           f == Fresh(t)
           r == [w EXCEPT !.ball[s] = f, !.n = @ + 1, !.have[t] = TRUE]
<1>1. w.n + 1 \in 1 .. Cap /\ w.n + 1 \in 0 .. Cap /\ w.n # Len(w.Obj)
  BY WorldCounts
<1>2. s \in Slot
  BY <1>1, WorldFields
<1>3. f \in Object
  BY FreshIs
<1>4. Make_treasure_ball(w, t) = r
  BY <1>1 DEF Make_treasure_ball
<1> HIDE DEF s, f
<1>5. /\ [w.ball EXCEPT ![s] = f] \in [Slot -> Object]
      /\ [w.have EXCEPT ![t] = TRUE] \in [Treasure -> BOOLEAN]
  BY <1>2, <1>3, WorldFields
<1>6. r \in Worlds
  BY <1>1, <1>5 DEF Worlds
<1>7. /\ r.n = w.n + 1
      /\ r.ball = [w.ball EXCEPT ![s] = f]
      /\ r.have = [w.have EXCEPT ![t] = TRUE]
      /\ r.state = w.state /\ r.hasBall = w.hasBall /\ r.ptr = w.ptr
      /\ r.Obj = w.Obj /\ r.destroyed = w.destroyed
      /\ r.left = w.left /\ r.won = w.won /\ r.strayed = w.strayed /\ r.robbed = w.robbed
  BY <1>1 DEF Worlds
<1> HIDE DEF r
<1>8. QED
  BY <1>2, <1>4, <1>6, <1>7 DEF s, f

LEMMA Object_free_indIs ==
    ASSUME NEW w \in Worlds, NEW i \in 1 .. w.n
    PROVE  LET r == Object_free_ind(w, i)
           IN  /\ r \in Worlds /\ r.n = w.n - 1
               /\ r.ball = [w.ball EXCEPT ![w.Obj[i]] = Gone]
               /\ r.Obj = [w.Obj EXCEPT ![i] = w.Obj[w.n], ![w.n] = w.Obj[i]]
               /\ r.have = w.have
               /\ r.state = w.state /\ r.hasBall = w.hasBall /\ r.ptr = w.ptr
               /\ r.destroyed = w.destroyed /\ r.left = w.left /\ r.won = w.won /\ r.strayed = w.strayed /\ r.robbed = w.robbed
<1> DEFINE s == w.Obj[i]
           l == w.Obj[w.n]
           r == [w EXCEPT !.ball[s] = Gone, !.n = @ - 1, !.Obj[i] = l, !.Obj[w.n] = s]
<1>1. i \in 1 .. Cap /\ w.n \in 1 .. Cap /\ w.n - 1 \in 0 .. Cap /\ w.n \in Nat
  BY WorldCounts
<1>2. s \in Slot /\ l \in Slot
  BY <1>1, WorldFields
<1>3. Object_free_ind(w, i) = r
  BY DEF Object_free_ind
<1> HIDE DEF s, l
<1> DEFINE b == [w.ball EXCEPT ![s] = Gone]
           o == [w.Obj EXCEPT ![i] = l, ![w.n] = s]
<1>4. b \in [Slot -> Object] /\ o \in [1 .. Cap -> Slot]
  BY <1>1, <1>2, WorldFields, GoneIs
<1>5. r = [w EXCEPT !.ball = b, !.n = @ - 1, !.Obj = o]
  BY DEF Worlds
<1> HIDE DEF b, o, r
<1>6. /\ r \in Worlds /\ r.n = w.n - 1 /\ r.ball = b /\ r.Obj = o
      /\ r.have = w.have
      /\ r.state = w.state /\ r.hasBall = w.hasBall /\ r.ptr = w.ptr
      /\ r.destroyed = w.destroyed /\ r.left = w.left /\ r.won = w.won /\ r.strayed = w.strayed /\ r.robbed = w.robbed
  BY <1>1, <1>4, <1>5 DEF Worlds
<1>7. QED
  BY <1>3, <1>6 DEF b, o, s, l

(* Worlds that differ in who carries what, and in what is reached for. *)
SameButCarried(w, r) ==
    /\ r.state = w.state /\ r.Obj = w.Obj /\ r.n = w.n /\ r.have = w.have
    /\ r.destroyed = w.destroyed /\ r.left = w.left /\ r.won = w.won /\ r.strayed = w.strayed /\ r.robbed = w.robbed

Has(w, s, p) == w.ball[s].treasure # 0 /\ w.ball[s].id = p

LEMMA Detach_ballIs ==
    ASSUME NEW w \in Worlds, Carried(w), NEW p \in Player, NEW S \in SUBSET Slot
    PROVE  LET r == Detach_ball(w, p, S)
           IN  /\ r \in Worlds /\ SameButCarried(w, r)
               /\ \A s \in Slot :
                     r.ball[s] = IF Has(w, s, p) /\ s \in S
                                 THEN [w.ball[s] EXCEPT !.id = NoId] ELSE w.ball[s]
               /\ r.hasBall \subseteq w.hasBall
               /\ (\A s \in Slot : Has(w, s, p) => s \in S) => p \notin r.hasBall
               /\ Carried(r)
<1> DEFINE held == {s \in Slot : w.ball[s].treasure # 0 /\ w.ball[s].id = p}
           q == [x \in Player |-> IF x = p THEN (IF w.ptr[p] \in S THEN Null ELSE w.ptr[p])
                                  ELSE w.ptr[x]]
           w1 == [w EXCEPT !.ptr[p] = IF @ \in S THEN Null ELSE @]
           b == [s \in Slot |-> IF s \in held \cap S THEN [w.ball[s] EXCEPT !.id = NoId]
                                ELSE w.ball[s]]
           h == IF held \subseteq S THEN w.hasBall \ {p} ELSE w.hasBall
           r == Detach_ball(w, p, S)
<1>1. q \in [Player -> Slot \cup {Null}]
  BY WorldFields
<1>2. w1 = [w EXCEPT !.ptr = q]
  <2>1. w.ptr \in [Player -> Slot \cup {Null}]
    BY WorldFields
  <2>2. q = [w.ptr EXCEPT ![p] = IF @ \in S THEN Null ELSE @]
    BY <2>1
  <2> HIDE DEF q
  <2>3. QED
    BY <2>2 DEF Worlds
<1> HIDE DEF q
<1>3. w1 \in Worlds /\ SameButCarried(w, w1) /\ w1.ball = w.ball /\ w1.hasBall = w.hasBall
  BY <1>1, <1>2 DEF Worlds, SameButCarried
<1>4. CASE p \notin w.hasBall
  <2>1. r = w1
    BY <1>4 DEF Detach_ball
  <2>2. \A s \in Slot : ~Has(w, s, p)
    BY <1>4 DEF Carried, Holds, Has
  <2> HIDE DEF w1, r
  <2>3. Carried(w1)
    BY <1>3 DEF Carried, Holds, SameButCarried
  <2>4. QED
    BY <1>3, <1>4, <2>1, <2>2, <2>3 DEF r
<1>5. CASE p \in w.hasBall
  <2>1. r = [w1 EXCEPT !.ball = b, !.hasBall = h]
    <3>1. w1.ball = w.ball /\ w1.hasBall = w.hasBall
      BY <1>3
    <3>2. r = [w1 EXCEPT !.ball = [s \in Slot |->
                   IF s \in held \cap S THEN [@[s] EXCEPT !.id = NoId] ELSE @[s]],
                          !.hasBall = IF held \subseteq S THEN @ \ {p} ELSE @]
      BY <1>5 DEF Detach_ball
    <3> HIDE DEF w1, r
    <3>3. QED
      BY <1>3, <3>1, <3>2 DEF Worlds
  <2>2. b \in [Slot -> Object]
    <3>1. \A s \in Slot : w.ball[s] \in Object
      BY BallFields
    <3>2. \A x \in Object : [x EXCEPT !.id = NoId] \in Object
      BY DEF Object
    <3> HIDE DEF held
    <3>3. QED
      BY <3>1, <3>2
  <2>3. h \in SUBSET Player /\ h \subseteq w.hasBall
    BY WorldFields
  <2>10. (\A s \in Slot : Has(w, s, p) => s \in S) => p \notin h
    BY DEF Has
  <2>4. \A s \in Slot : b[s] = IF Has(w, s, p) /\ s \in S
                               THEN [w.ball[s] EXCEPT !.id = NoId] ELSE w.ball[s]
    BY DEF Has
  <2>5. \A x \in Player :
           /\ (\E s \in Slot : b[s].treasure # 0 /\ b[s].id = x) => x \in h
           /\ x \in h => (\E s \in Slot : b[s].treasure # 0 /\ b[s].id = x) \/ x \in w.strayed
    <3>1. \A s \in Slot : /\ b[s].id = IF Has(w, s, p) /\ s \in S THEN NoId ELSE w.ball[s].id
                          /\ b[s].treasure = w.ball[s].treasure
      <4>1. \A x \in Object : LET y == [x EXCEPT !.id = NoId]
                              IN  y.id = NoId /\ y.treasure = x.treasure
        BY DEF Object
      <4> HIDE DEF b
      <4>2. TAKE s \in Slot
      <4>3. w.ball[s] \in Object
        BY BallFields
      <4>4. CASE Has(w, s, p) /\ s \in S
        BY <2>4, <4>1, <4>3, <4>4
      <4>5. CASE ~(Has(w, s, p) /\ s \in S)
        BY <2>4, <4>5
      <4>6. QED
        BY <4>4, <4>5
    <3> HIDE DEF b
    <3>2. NoId \notin Player
      BY Names
    <3>3. ASSUME NEW x \in Player, x # p
          PROVE  /\ (\E s \in Slot : b[s].treasure # 0 /\ b[s].id = x) => x \in h
                 /\ x \in h => \/ \E s \in Slot : b[s].treasure # 0 /\ b[s].id = x
                               \/ x \in w.strayed
      <4>1. \A s \in Slot : b[s].id = x <=> w.ball[s].id = x
        BY <3>1, <3>2, <3>3 DEF Has
      <4>2. x \in h <=> x \in w.hasBall
        BY <3>3
      <4>3. QED
        BY <3>1, <4>1, <4>2 DEF Carried, Holds
    <3>4. p \in h <=> \E s \in Slot : b[s].treasure # 0 /\ b[s].id = p
      BY <1>5, <3>1, <3>2 DEF Has
    <3>5. QED
      BY <3>3, <3>4
  <2> HIDE DEF b, h, w1, r
  <2>6. /\ r \in Worlds /\ SameButCarried(w1, r) /\ r.ball = b /\ r.hasBall = h
    BY <1>3, <2>1, <2>2, <2>3 DEF Worlds, SameButCarried
  <2>7. Carried(r)
    BY <1>3, <2>5, <2>6 DEF Carried, Holds, SameButCarried
  <2>8. SameButCarried(w, r)
    BY <1>3, <2>6 DEF SameButCarried
  <2>9. QED
    BY <2>3, <2>4, <2>6, <2>7, <2>8, <2>10 DEF r
<1>6. QED
  BY <1>4, <1>5

-----------------------------------------------------------------------------
(* The parts of the invariant.                                             *)

KeepsPlaces(w, r) ==
    /\ r.Obj = w.Obj /\ r.n = w.n
    /\ \A s \in Slot : /\ r.ball[s].treasure = w.ball[s].treasure
                       /\ w.ball[s].treasure = 0 => r.ball[s] = w.ball[s]

LEMMA PlacesKept ==
    ASSUME NEW w, NEW r, KeepsPlaces(w, r), Placed(w), OneEach(w)
    PROVE  Placed(r) /\ OneEach(r) /\ (Roomy(w) => Roomy(r))
<1>1. Placed(r)
  BY GoneIs DEF KeepsPlaces, Placed, InUse
<1>2. OneEach(r)
  BY DEF KeepsPlaces, OneEach
<1>3. Others(r) = Others(w)
  BY DEF KeepsPlaces, Others, InUse
<1>4. QED
  BY <1>1, <1>2, <1>3 DEF Roomy

LEMMA LostKept ==
    ASSUME NEW w \in Worlds, NEW r, KeepsPlaces(w, r), Lost(w),
           \A t \in Treasure : w.destroyed[t] > 0 => r.destroyed[t] > 0,
           \A s \in Slot : w.ball[s].treasure # 0 /\ w.ball[s].recreate
                              => r.ball[s].recreate \/ r.destroyed[w.ball[s].treasure] > 0
    PROVE  Lost(r)
<1>1. \A t \in Treasure : (\A s \in Slot : r.ball[s].treasure # t) => r.destroyed[t] > 0
  BY DEF KeepsPlaces, Lost
<1>2. \A s \in Slot : r.ball[s].treasure # 0 /\ ~r.ball[s].recreate
                         => r.destroyed[r.ball[s].treasure] > 0
  BY BallFields DEF KeepsPlaces, Lost
<1>3. QED
  BY <1>1, <1>2 DEF Lost

LEMMA HadParts ==
    ASSUME NEW w, Had(w), NEW t \in Treasure
    PROVE  /\ w.have[t] => Untaken(w, t)
           /\ Untaken(w, t) => w.have[t] \/ t \in w.robbed
BY DEF Had

LEMMA HadKept ==
    ASSUME NEW w \in Worlds, NEW r, KeepsPlaces(w, r), Had(w),
           r.have = w.have, r.robbed = w.robbed,
           \A s \in Slot :
              /\ r.ball[s].gravity = w.ball[s].gravity
              /\ w.ball[s].treasure # 0 /\ ~w.ball[s].gravity
                    => /\ r.ball[s].id = w.ball[s].id
                       /\ \/ r.ball[s].owner \in {NoId, w.ball[s].owner}
                          \/ ~w.have[w.ball[s].treasure]
    PROVE  Had(r)
<1>1. \A t \in Treasure : Untaken(r, t) <=> Untaken(w, t)
  BY DEF KeepsPlaces, Untaken
<1>2. QED
  BY <1>1 DEF KeepsPlaces, Had

(* The connector of p to the balls in S breaks. *)
LEMMA Detach_ballGood ==
    ASSUME NEW w, Good(w), NEW p \in Player, NEW S \in SUBSET Slot
    PROVE  LET r == Detach_ball(w, p, S)
           IN  /\ Good(r) /\ r.hasBall \subseteq w.hasBall /\ r.state = w.state
               /\ \A s \in Slot : r.ball[s].treasure = w.ball[s].treasure
               /\ \A s \in S : ~Has(r, s, p)
               /\ \A s \in Slot : /\ r.ball[s].owner = w.ball[s].owner
                                  /\ r.ball[s].gravity = w.ball[s].gravity
                                  /\ r.ball[s].recreate = w.ball[s].recreate
               /\ r.have = w.have
<1> DEFINE r == Detach_ball(w, p, S)
<1>1. w \in Worlds
  BY DEF Good
<1>2. /\ r \in Worlds /\ SameButCarried(w, r) /\ r.hasBall \subseteq w.hasBall /\ Carried(r)
      /\ \A s \in Slot :
            r.ball[s] = IF Has(w, s, p) /\ s \in S
                        THEN [w.ball[s] EXCEPT !.id = NoId] ELSE w.ball[s]
  BY <1>1, Detach_ballIs DEF Good
<1> HIDE DEF r
<1>3. ASSUME NEW s \in Slot
      PROVE  /\ r.ball[s].treasure = w.ball[s].treasure
             /\ r.ball[s].owner = w.ball[s].owner
             /\ r.ball[s].recreate = w.ball[s].recreate
             /\ r.ball[s].gravity = w.ball[s].gravity
             /\ r.ball[s].id = IF Has(w, s, p) /\ s \in S THEN NoId ELSE w.ball[s].id
  <2>1. \A x \in Object : LET y == [x EXCEPT !.id = NoId]
                          IN  /\ y.treasure = x.treasure /\ y.owner = x.owner
                              /\ y.recreate = x.recreate /\ y.gravity = x.gravity
                              /\ y.id = NoId
    BY DEF Object
  <2>2. w.ball[s] \in Object
    BY <1>1, BallFields
  <2>3. CASE Has(w, s, p) /\ s \in S
    <3>1. r.ball[s] = [w.ball[s] EXCEPT !.id = NoId]
      BY <1>2, <2>3
    <3>2. QED
      BY <2>1, <2>2, <2>3, <3>1
  <2>4. CASE ~(Has(w, s, p) /\ s \in S)
    <3>1. r.ball[s] = w.ball[s]
      BY <1>2, <2>4
    <3>2. QED
      BY <2>4, <3>1
  <2>5. QED
    BY <2>3, <2>4
<1>4. NoId \notin Player
  BY Names
<1>5. KeepsPlaces(w, r)
  <2>1. ASSUME NEW s \in Slot, w.ball[s].treasure = 0 PROVE r.ball[s] = w.ball[s]
    BY <1>2, <2>1 DEF Has
  <2>2. QED
    BY <1>2, <1>3, <2>1 DEF KeepsPlaces, SameButCarried
<1>6. Placed(r) /\ OneEach(r) /\ Roomy(r)
  BY <1>5, PlacesKept DEF Good
<1>7. Lost(r)
  BY <1>1, <1>2, <1>3, <1>5, LostKept DEF Good, SameButCarried
<1>8. Had(r)
  <2>1. \A s \in Slot : w.ball[s].treasure # 0 /\ ~w.ball[s].gravity
                           => r.ball[s].id = w.ball[s].id
    BY <1>3 DEF Good, Had, Has
  <2>2. QED
    BY <1>1, <1>2, <1>3, <1>5, <2>1, HadKept DEF Good, SameButCarried
<1>9. Playing(r) /\ OwnersPresent(r) /\ Counted(r)
  BY <1>2, <1>3 DEF Good, SameButCarried, Playing, OwnersPresent, Counted
<1>10. Good(r)
  BY <1>2, <1>6, <1>7, <1>8, <1>9 DEF Good
<1>11. \A s \in S : ~Has(r, s, p)
  BY <1>3, <1>4 DEF Has
<1>12. QED
  BY <1>2, <1>3, <1>10, <1>11 DEF r, SameButCarried

-----------------------------------------------------------------------------
(* Delete_shot.                                                            *)

(* Index i is freed: the last of n objects is there now, if anything is.   *)
Swapped(f, i, n) == [f EXCEPT ![i] = f[n], ![n] = f[i]]

(* Nobody reaches for the ball in slot s, nor carries it. *)
LetGo(w, s) ==
    LET b == w.ball[s]
    IN  IF b.id # NoId THEN Detach_ball(w, b.id, {s})
        ELSE [w EXCEPT !.ptr = [p \in Player |-> IF @[p] = s THEN Null ELSE @[p]]]

LEMMA LetGoIs ==
    ASSUME NEW w \in Worlds, NEW s \in Slot, w.ball[s].treasure # 0,
           w.ball[s].id # NoId => Carried(w)
    PROVE  LET r == LetGo(w, s)
           IN  /\ r \in Worlds /\ SameButCarried(w, r)
               /\ r.hasBall \subseteq w.hasBall
               /\ \A u \in Slot \ {s} : r.ball[u] = w.ball[u]
               /\ r.ball[s].id = NoId /\ r.ball[s].treasure = w.ball[s].treasure
               /\ Carried(w) => Carried(r)
<1> DEFINE r == LetGo(w, s)
<1>1. CASE w.ball[s].id # NoId
  <2>1. w.ball[s].id \in Player
    BY <1>1, BallFields
  <2>2. r = Detach_ball(w, w.ball[s].id, {s})
    BY <1>1 DEF LetGo
  <2>3. /\ r \in Worlds /\ SameButCarried(w, r) /\ r.hasBall \subseteq w.hasBall
        /\ Carried(r)
        /\ \A u \in Slot :
              r.ball[u] = IF Has(w, u, w.ball[s].id) /\ u \in {s}
                          THEN [w.ball[u] EXCEPT !.id = NoId] ELSE w.ball[u]
    BY <1>1, <2>1, <2>2, Detach_ballIs
  <2> HIDE DEF r
  <2>4. r.ball[s] = [w.ball[s] EXCEPT !.id = NoId]
    BY <2>3 DEF Has
  <2>5. \A x \in Object : LET y == [x EXCEPT !.id = NoId]
                          IN  y.id = NoId /\ y.treasure = x.treasure
    BY DEF Object
  <2>6. r.ball[s].id = NoId /\ r.ball[s].treasure = w.ball[s].treasure
    BY <2>4, <2>5, BallFields
  <2>7. \A u \in Slot \ {s} : r.ball[u] = w.ball[u]
    BY <2>3
  <2>8. QED
    BY <2>3, <2>6, <2>7 DEF r
<1>2. CASE w.ball[s].id = NoId
  <2> DEFINE q == [p \in Player |-> IF w.ptr[p] = s THEN Null ELSE w.ptr[p]]
  <2>1. r = [w EXCEPT !.ptr = q]
    BY <1>2 DEF LetGo, Worlds
  <2>2. q \in [Player -> Slot \cup {Null}]
    BY WorldFields
  <2> HIDE DEF q, r
  <2>3. r \in Worlds /\ SameButCarried(w, r) /\ r.ball = w.ball /\ r.hasBall = w.hasBall
    BY <2>1, <2>2 DEF Worlds, SameButCarried
  <2>4. QED
    BY <1>2, <2>3 DEF Carried, Holds, SameButCarried, r
<1>3. QED
  BY <1>1, <1>2

(* From w to r, ball b in slot s goes, and is made anew in its place or    *)
(* not.                                                                    *)
Deleted(w, i, s, b, r) ==
    /\ r \in Worlds /\ s \in Slot /\ b.treasure \in Treasure
    /\ r.state = w.state /\ r.destroyed = w.destroyed
    /\ r.left = w.left /\ r.won = w.won /\ r.strayed = w.strayed /\ r.robbed = w.robbed
    /\ r.hasBall \subseteq w.hasBall
    /\ r.Obj = Swapped(w.Obj, i, w.n)
    /\ \A u \in Slot \ {s} : r.ball[u] = w.ball[u]
    /\ \/ /\ b.owner = NoId \/ b.recreate
          /\ r.n = w.n /\ r.ball[s] = Fresh(b.treasure)
          /\ r.have = [w.have EXCEPT ![b.treasure] = TRUE]
       \/ /\ b.owner # NoId /\ ~b.recreate
          /\ r.n = w.n - 1 /\ r.ball[s] = Gone
          /\ r.have = w.have
    /\ Carried(w) => Carried(r)

LEMMA Delete_shotIs ==
    ASSUME NEW w \in Worlds, NEW i \in 1 .. w.n,
           w.ball[w.Obj[i]].treasure # 0,
           w.ball[w.Obj[i]].id # NoId => Carried(w),
           w.ball[w.Obj[i]].owner # NoId /\ w.ball[w.Obj[i]].recreate
              => ~w.have[w.ball[w.Obj[i]].treasure]
    PROVE  Deleted(w, i, w.Obj[i], w.ball[w.Obj[i]], Delete_shot(w, i))
<1> DEFINE s == w.Obj[i]
           b == w.ball[s]
           r == Delete_shot(w, i)
<1> DEFINE t == b.treasure
           w1 == LetGo(w, s)
           w2 == [w1 EXCEPT !.have[t] = @ /\ b.owner # NoId]
           w3 == Object_free_ind(w2, i)
           w4 == Make_treasure_ball(w3, t)
<1>1. i \in 1 .. Cap /\ w.n \in 1 .. Cap /\ Cap \in Nat /\ w.n \in Nat
  BY WorldCounts
<1>2. s \in Slot
  BY <1>1, WorldFields
<1>3. t \in Treasure
  BY <1>2, BallFields
<1>4. /\ w1 \in Worlds /\ SameButCarried(w, w1)
      /\ w1.hasBall \subseteq w.hasBall
      /\ \A u \in Slot \ {s} : w1.ball[u] = w.ball[u]
      /\ w1.ball[s].id = NoId
      /\ Carried(w) => Carried(w1)
  BY <1>2, LetGoIs
<1>5. r = IF b.owner = NoId \/ b.recreate THEN w4 ELSE w3
  BY DEF Delete_shot, LetGo
<1>51. /\ t # 0 /\ s = w.Obj[i] /\ b = w.ball[s] /\ t = b.treasure
       /\ b.owner # NoId /\ b.recreate => ~w.have[t]
  OBVIOUS
<1> HIDE DEF w1, r, b, s
<1> DEFINE hv == [w.have EXCEPT ![t] = @ /\ b.owner # NoId]
<1>6. hv \in [Treasure -> BOOLEAN]
  BY WorldFields
<1> HIDE DEF t
<1>7. w2 = [w1 EXCEPT !.have = hv]
  <2>1. w1.have = w.have
    BY <1>4 DEF SameButCarried
  <2>2. hv = [w1.have EXCEPT ![t] = @ /\ b.owner # NoId]
    BY <2>1
  <2> HIDE DEF hv
  <2>3. QED
    BY <1>4, <2>2 DEF Worlds
<1>8. \A u \in Treasure : hv[u] = IF u = t THEN w.have[t] /\ b.owner # NoId ELSE w.have[u]
  BY <1>3, WorldFields
<1> HIDE DEF hv, w2
<1>9. /\ w2 \in Worlds /\ w2.have = hv /\ w2.ball = w1.ball /\ w2.n = w.n
      /\ w2.Obj = w.Obj /\ w2.state = w.state /\ w2.hasBall = w1.hasBall
      /\ w2.destroyed = w.destroyed /\ w2.left = w.left /\ w2.won = w.won /\ w2.strayed = w.strayed /\ w2.robbed = w.robbed
  BY <1>4, <1>6, <1>7 DEF Worlds, SameButCarried
<1>10. /\ w3 \in Worlds /\ w3.n = w.n - 1
       /\ w3.ball = [w1.ball EXCEPT ![s] = Gone]
       /\ w3.Obj = Swapped(w.Obj, i, w.n)
       /\ w3.have = hv
       /\ w3.state = w.state /\ w3.hasBall = w1.hasBall
       /\ w3.destroyed = w.destroyed /\ w3.left = w.left /\ w3.won = w.won /\ w3.strayed = w.strayed /\ w3.robbed = w.robbed
  BY <1>9, Object_free_indIs DEF Swapped, s
<1> HIDE DEF w3
<1>11. w1.ball \in [Slot -> Object]
  BY <1>4, WorldFields
<1>12. /\ w3.ball[s] = Gone
       /\ \A u \in Slot \ {s} : w3.ball[u] = w.ball[u]
  BY <1>2, <1>4, <1>10, <1>11
<1>13. Carried(w) => Carried(w3)
  <2>1. \A u \in Slot, p \in Player : Has(w3, u, p) <=> Has(w1, u, p)
    BY <1>2, <1>4, <1>12, GoneIs, Names DEF Has
  <2>2. QED
    BY <1>4, <1>10, <2>1 DEF Carried, Holds, Has, SameButCarried
<1>14. CASE b.owner # NoId /\ ~b.recreate
  <2>1. hv = w.have
    BY <1>3, <1>6, <1>8, <1>14, WorldFields
  <2>2. r = w3
    BY <1>5, <1>14
  <2>3. Deleted(w, i, s, b, r)
    BY <1>2, <1>3, <1>4, <1>10, <1>12, <1>13, <1>14, <1>51, <2>1, <2>2 DEF Deleted
  <2>4. QED
    BY <2>3 DEF r, s, b
<1>15. CASE b.owner = NoId \/ b.recreate
  <2>1. ~w3.have[t]
    BY <1>3, <1>8, <1>10, <1>15, <1>51
  <2>2. w3.n < Cap /\ w3.n + 1 = w.n
    BY <1>1, <1>10
  <2>3. w3.Obj[w.n] = s
    <3>1. w.Obj \in [1 .. Cap -> Slot]
      BY WorldFields
    <3>2. QED
      BY <1>1, <1>10, <1>51, <3>1 DEF Swapped
  <2>4. /\ w4 \in Worlds /\ w4.n = w.n
        /\ w4.ball = [w3.ball EXCEPT ![s] = Fresh(t)]
        /\ w4.have = [hv EXCEPT ![t] = TRUE]
        /\ w4.state = w3.state /\ w4.hasBall = w3.hasBall
        /\ w4.Obj = w3.Obj /\ w4.destroyed = w3.destroyed
        /\ w4.left = w3.left /\ w4.won = w3.won /\ w4.strayed = w3.strayed /\ w4.robbed = w3.robbed
    <3>1. w3.Obj[w3.n + 1] = s
      BY <2>2, <2>3
    <3>2. w3 \in Worlds /\ w3.have = hv
      BY <1>10
    <3>3. QED
      BY <1>3, <2>1, <2>2, <3>1, <3>2, Make_treasure_ballIs
  <2> HIDE DEF w4
  <2>5. w3.ball \in [Slot -> Object] /\ w4.ball \in [Slot -> Object]
    BY <1>10, <2>4, WorldFields
  <2>6. w4.ball[s] = Fresh(t) /\ \A u \in Slot \ {s} : w4.ball[u] = w3.ball[u]
    BY <1>2, <2>4, <2>5
  <2>7. w4.have = [w.have EXCEPT ![t] = TRUE]
    <3>1. w.have \in [Treasure -> BOOLEAN]
      BY WorldFields
    <3>2. QED
      BY <1>3, <1>6, <1>8, <2>4, <3>1
  <2>8. Carried(w) => Carried(w4)
    <3>1. ASSUME NEW u \in Slot, NEW p \in Player PROVE Has(w4, u, p) <=> Has(w3, u, p)
      <4>1. Fresh(t).id = NoId /\ Gone.id = NoId /\ NoId # p
        BY <1>3, FreshIs, GoneIs, Names
      <4>2. CASE u = s
        BY <1>12, <2>6, <4>1, <4>2 DEF Has
      <4>3. CASE u # s
        BY <2>6, <4>3 DEF Has
      <4>4. QED
        BY <4>2, <4>3
    <3>2. QED
      BY <1>13, <2>4, <3>1 DEF Carried, Holds, Has
  <2>9. QED
    <3>1. r = w4
      BY <1>5, <1>15
    <3>2. Deleted(w, i, s, b, r)
      <4>1. r.Obj = Swapped(w.Obj, i, w.n) /\ \A u \in Slot \ {s} : r.ball[u] = w.ball[u]
        BY <1>10, <1>12, <2>4, <2>6, <3>1
      <4>2. /\ r.state = w.state /\ r.destroyed = w.destroyed
            /\ r.left = w.left /\ r.won = w.won /\ r.strayed = w.strayed /\ r.robbed = w.robbed /\ r.hasBall \subseteq w.hasBall
        BY <1>4, <1>10, <2>4, <3>1
      <4>3. QED
        BY <1>2, <1>3, <1>15, <1>51, <2>4, <2>6, <2>7, <2>8, <3>1, <4>1, <4>2 DEF Deleted
    <3>3. QED
      BY <3>2 DEF r, s, b
<1>16. QED
  BY <1>14, <1>15

Apart(f) == \A j, k \in 1 .. Cap : f[j] = f[k] => j = k

LEMMA SwappedIs ==
    ASSUME NEW f \in [1 .. Cap -> Slot], NEW n \in 1 .. Cap, NEW i \in 1 .. n, Apart(f)
    PROVE  /\ Swapped(f, i, n) \in [1 .. Cap -> Slot]
           /\ Apart(Swapped(f, i, n))
           /\ Swapped(f, i, n)[n] = f[i]
           /\ i # n => Swapped(f, i, n)[i] = f[n]
           /\ \A j \in 1 .. Cap : j # i /\ j # n => Swapped(f, i, n)[j] = f[j]
           /\ i \in 1 .. Cap /\ n \in Nat /\ Cap \in Nat
<1>1. Cap \in Nat /\ i \in 1 .. Cap /\ n \in Nat
  BY Bounds
<1> DEFINE g == Swapped(f, i, n)
<1> DEFINE a == f[n]
           b == f[i]
<1>11. a \in Slot /\ b \in Slot
  BY <1>1
<1>12. g = [f EXCEPT ![i] = a, ![n] = b]
  BY DEF Swapped
<1> HIDE DEF a, b, g
<1>13. g \in [1 .. Cap -> Slot]
  BY <1>1, <1>11, <1>12
<1>14. g[n] = b
  BY <1>1, <1>12
<1>15. i # n => g[i] = a
  BY <1>1, <1>12
<1>16. \A j \in 1 .. Cap : j # i /\ j # n => g[j] = f[j]
  BY <1>1, <1>12
<1>2. /\ g \in [1 .. Cap -> Slot]
      /\ g[n] = f[i] /\ (i # n => g[i] = f[n])
      /\ \A j \in 1 .. Cap : j # i /\ j # n => g[j] = f[j]
  <2>1. a = f[n] /\ b = f[i]
    BY DEF a, b
  <2>2. QED
    BY <1>13, <1>14, <1>15, <1>16, <2>1
<1>3. ASSUME NEW j \in 1 .. Cap, NEW k \in 1 .. Cap, g[j] = g[k] PROVE j = k
  <2>1. CASE j # i /\ j # n /\ k # i /\ k # n
    BY <1>2, <1>3, <2>1 DEF Apart
  <2>2. CASE j \in {i, n} \/ k \in {i, n}
    BY <1>1, <1>2, <1>3, <2>2 DEF Apart
  <2>3. QED
    BY <2>1, <2>2
<1>4. Apart(g)
  BY <1>3 DEF Apart
<1>5. QED
  BY <1>1, <1>2, <1>4 DEF g

(* A slot is in use before and after, or it is the one that was freed. *)
Uses(f, g, i, n, u) ==
    /\ (\E j \in 1 .. n : g[j] = u) <=> (\E j \in 1 .. n : f[j] = u)
    /\ (\E j \in 1 .. n - 1 : g[j] = u) <=> (\E j \in 1 .. n : f[j] = u) /\ u # f[i]

LEMMA SwappedUses ==
    ASSUME NEW f \in [1 .. Cap -> Slot], NEW n \in 1 .. Cap, NEW i \in 1 .. n, Apart(f),
           NEW u \in Slot
    PROVE  Uses(f, Swapped(f, i, n), i, n, u)
<1> DEFINE g == Swapped(f, i, n)
<1> HIDE DEF g
<1>11. Apart(g)
  BY Zenon, SwappedIs DEF g
<1>12. g[n] = f[i]
  BY Zenon, SwappedIs DEF g
<1>13. i # n => g[i] = f[n]
  BY Zenon, SwappedIs DEF g
<1>14. \A j \in 1 .. Cap : j # i /\ j # n => g[j] = f[j]
  BY Zenon, SwappedIs DEF g
<1>15. i \in 1 .. Cap /\ n \in Nat /\ Cap \in Nat
  BY Bounds
<1>1. /\ g[n] = f[i] /\ (i # n => g[i] = f[n])
      /\ \A j \in 1 .. Cap : j # i /\ j # n => g[j] = f[j]
      /\ i \in 1 .. Cap /\ n \in Nat /\ Cap \in Nat
      /\ \A j, k \in 1 .. Cap : g[j] = g[k] => j = k
  BY <1>11, <1>12, <1>13, <1>14, <1>15 DEF Apart
<1>2. ASSUME NEW j \in 1 .. n PROVE \E k \in 1 .. n : g[k] = f[j]
  <2>1. CASE j = i
    BY <1>1, <2>1
  <2>2. CASE j = n /\ j # i
    BY <1>1, <2>2
  <2>3. CASE j # i /\ j # n
    BY <1>1, <2>3
  <2>4. QED
    BY <2>1, <2>2, <2>3
<1>3. ASSUME NEW j \in 1 .. n PROVE \E k \in 1 .. n : f[k] = g[j]
  <2>1. CASE j = n
    BY <1>1, <2>1
  <2>2. CASE j = i /\ j # n
    BY <1>1, <2>2
  <2>3. CASE j # i /\ j # n
    BY <1>1, <2>3
  <2>4. QED
    BY <2>1, <2>2, <2>3
<1>4. ASSUME NEW j \in 1 .. n - 1 PROVE g[j] # f[i] /\ j \in 1 .. n
  BY <1>1
<1>5. ASSUME NEW j \in 1 .. n, f[j] # f[i] PROVE \E k \in 1 .. n - 1 : g[k] = f[j]
  <2>1. PICK k \in 1 .. n : g[k] = f[j]
    BY <1>2
  <2>2. k # n
    BY <1>1, <1>5, <2>1
  <2>3. QED
    BY <1>1, <2>1, <2>2
<1>6. (\E j \in 1 .. n : g[j] = u) <=> (\E j \in 1 .. n : f[j] = u)
  BY <1>2, <1>3
<1>7. (\E j \in 1 .. n - 1 : g[j] = u) <=> (\E j \in 1 .. n : f[j] = u) /\ u # f[i]
  BY <1>3, <1>4, <1>5
<1>8. QED
  BY <1>6, <1>7 DEF g, Uses

LEMMA BallOfIndex ==
    ASSUME NEW w, Good(w), NEW i \in 1 .. w.n
    PROVE  /\ w.Obj[i] \in Slot /\ i \in 1 .. Cap /\ w.n \in 1 .. Cap
           /\ InUse(w, w.Obj[i])
<1>1. w \in Worlds
  BY DEF Good
<1>2. i \in 1 .. Cap /\ w.n \in 1 .. Cap
  BY <1>1, WorldCounts
<1>3. w.Obj[i] \in Slot
  BY <1>1, <1>2, WorldFields
<1>4. QED
  BY <1>2, <1>3 DEF InUse

(* Which slots are in use when one has been freed, and perhaps used again. *)
LEMMA UsesAfter ==
    ASSUME NEW w \in Worlds, Placed(w), NEW i \in 1 .. w.n, NEW r \in Worlds,
           r.Obj = Swapped(w.Obj, i, w.n)
    PROVE  /\ \A j, k \in 1 .. Cap : r.Obj[j] = r.Obj[k] => j = k
           /\ r.n = w.n => \A u \in Slot : InUse(r, u) <=> InUse(w, u)
           /\ r.n = w.n - 1
                 => \A u \in Slot : InUse(r, u) <=> InUse(w, u) /\ u # w.Obj[i]
<1> DEFINE f == w.Obj
           n == w.n
<1>1. f \in [1 .. Cap -> Slot] /\ Apart(f) /\ n \in 1 .. Cap
  BY WorldFields, WorldCounts DEF Placed, Apart
<1>2. \A j, k \in 1 .. Cap : r.Obj[j] = r.Obj[k] => j = k
  <2>1. Apart(Swapped(f, i, n))
    BY <1>1, SwappedIs
  <2>2. QED
    BY <2>1 DEF Apart
<1>3. \A u \in Slot : Uses(f, r.Obj, i, n, u)
  BY <1>1, SwappedUses
<1>4. QED
  BY <1>2, <1>3 DEF Uses, InUse

LEMMA FewerOthers ==
    ASSUME NEW w, NEW r, Roomy(w), Others(r) \subseteq Others(w)
    PROVE  Roomy(r)
<1>1. IsFiniteSet(Others(w))
  BY Sizes, FS_Subset DEF Others
<1>2. /\ IsFiniteSet(Others(r)) /\ Cardinality(Others(r)) <= Cardinality(Others(w))
  BY <1>1, FS_Subset
<1>3. Cardinality(Others(r)) \in Nat /\ Cardinality(Others(w)) \in Nat
  BY <1>1, <1>2, FS_CardinalityType
<1>4. QED
  BY <1>2, <1>3, Bounds DEF Roomy

(* Delete_shot of a ball keeps the invariant. *)
LEMMA Delete_shotGood ==
    ASSUME NEW w, Good(w), NEW i \in 1 .. w.n, w.ball[w.Obj[i]].treasure # 0
    PROVE  LET r == Delete_shot(w, i)
           IN  Good(r) /\ Deleted(w, i, w.Obj[i], w.ball[w.Obj[i]], r)
<1> DEFINE s == w.Obj[i]
           b == w.ball[s]
           t == b.treasure
           r == Delete_shot(w, i)
           f == w.Obj
           n == w.n
<1>1. /\ w \in Worlds /\ s \in Slot /\ i \in 1 .. Cap /\ n \in 1 .. Cap /\ t # 0
  BY BallOfIndex DEF Good
<1>2. b.owner # NoId => ~w.have[t]
  <2>1. t \in Treasure
    BY <1>1, BallFields
  <2>2. b.owner # NoId /\ w.have[t] => b.gravity
    BY <1>1 DEF Good, Had
  <2>3. b.gravity => ~Untaken(w, t)
    BY <1>1 DEF Good, OneEach, Untaken
  <2>4. w.have[t] => Untaken(w, t)
    BY <2>1, HadParts DEF Good
  <2>5. QED
    BY <2>2, <2>3, <2>4
<1>3. Deleted(w, i, s, b, r)
  BY <1>1, <1>2, Delete_shotIs DEF Good
<1> HIDE DEF r
<1>4. /\ r \in Worlds /\ t \in Treasure
      /\ r.state = w.state /\ r.destroyed = w.destroyed
      /\ r.left = w.left /\ r.hasBall \subseteq w.hasBall /\ r.robbed = w.robbed
      /\ r.Obj = Swapped(f, i, n)
      /\ \A u \in Slot \ {s} : r.ball[u] = w.ball[u]
      /\ Carried(r)
  BY <1>3 DEF Deleted, Good
<1>5. /\ f \in [1 .. Cap -> Slot]
      /\ Apart(f)
      /\ w.have \in [Treasure -> BOOLEAN]
  BY <1>1, WorldFields DEF Good, Placed, Apart
<1>6. /\ \A j, k \in 1 .. Cap : r.Obj[j] = r.Obj[k] => j = k
      /\ r.n = n => \A u \in Slot : InUse(r, u) <=> InUse(w, u)
      /\ r.n = n - 1 => \A u \in Slot : InUse(r, u) <=> InUse(w, u) /\ u # s
  BY <1>1, <1>4, UsesAfter DEF Good
<1>7. /\ Fresh(t).treasure = t /\ t # 0 /\ Fresh(t).owner = NoId /\ Fresh(t).id = NoId
      /\ Fresh(t).recreate /\ ~Fresh(t).gravity
      /\ Gone.treasure = 0 /\ Gone.owner = NoId
  BY <1>1, <1>4, FreshIs, GoneIs
<1>8. InUse(w, s)
  BY BallOfIndex
<1>10. \A u \in Slot : w.ball[u].treasure = t => u = s
  BY <1>1 DEF Good, OneEach
<1>11. CASE /\ r.n = n /\ r.ball[s] = Fresh(t)
            /\ r.have = [w.have EXCEPT ![t] = TRUE]
  <2>1. \A u \in Slot : r.ball[u].treasure = w.ball[u].treasure
    BY <1>4, <1>7, <1>11
  <2>2. Placed(r)
    <3>1. ASSUME NEW u \in Slot
          PROVE  /\ r.ball[u].treasure # 0 => InUse(r, u)
                 /\ ~InUse(r, u) => r.ball[u] = Gone
                 /\ r.ball[u].treasure = 0 => r.ball[u].owner = NoId
      <4>1. CASE u = s
        BY <1>1, <1>6, <1>7, <1>8, <1>11, <4>1
      <4>2. CASE u # s
        BY <1>4, <1>6, <1>11, <4>2 DEF Good, Placed
      <4>3. QED
        BY <4>1, <4>2
    <3>2. QED
      BY <1>6, <3>1 DEF Placed
  <2>9. Roomy(r)
    <3>1. Others(r) = Others(w)
      BY <1>6, <1>11, <2>1 DEF Others
    <3>2. QED
      BY <3>1 DEF Good, Roomy
  <2>3. OneEach(r)
    BY <2>1 DEF Good, OneEach
  <2>4. Lost(r)
    <3>1. \A x \in Treasure : (\A u \in Slot : r.ball[u].treasure # x) => r.destroyed[x] > 0
      BY <1>4, <2>1 DEF Good, Lost
    <3>2. \A u \in Slot : r.ball[u].treasure # 0 /\ ~r.ball[u].recreate
                             => r.destroyed[r.ball[u].treasure] > 0
      BY <1>4, <1>7, <1>11 DEF Good, Lost
    <3>3. QED
      BY <3>1, <3>2 DEF Lost
  <2>5. Had(r)
    <3>1. \A x \in Treasure : r.have[x] = IF x = t THEN TRUE ELSE w.have[x]
      BY <1>4, <1>5, <1>11
    <3>2. r.have[t] /\ Untaken(r, t)
      BY <1>1, <1>4, <1>7, <1>11, <3>1 DEF Untaken
    <3>3. ASSUME NEW x \in Treasure, x # t
          PROVE  /\ r.have[x] => Untaken(r, x)
                 /\ Untaken(r, x) => r.have[x] \/ x \in r.robbed
      <4>1. \A u \in Slot : w.ball[u].treasure = x => r.ball[u] = w.ball[u]
        BY <1>4, <3>3
      <4>2. Untaken(r, x) <=> Untaken(w, x)
        BY <2>1, <4>1 DEF Untaken
      <4>3. QED
        BY <1>4, <3>1, <3>3, <4>2, HadParts DEF Good
    <3>4. ASSUME NEW u \in Slot, r.ball[u].treasure # 0, ~r.ball[u].gravity
          PROVE  /\ r.ball[u].id = NoId
                 /\ r.ball[u].owner = NoId \/ ~r.have[r.ball[u].treasure]
      <4>1. CASE u = s
        BY <1>7, <1>11, <4>1
      <4>2. CASE u # s
        <5>1. r.ball[u] = w.ball[u] /\ w.ball[u].treasure # t
          BY <1>4, <1>10, <4>2
        <5>2. w.ball[u].treasure \in Treasure
          BY <1>1, <3>4, <5>1, BallFields
        <5>3. r.have[w.ball[u].treasure] = w.have[w.ball[u].treasure]
          BY <3>1, <5>1, <5>2
        <5>4. w.ball[u].id = NoId /\ (w.ball[u].owner = NoId \/ ~w.have[w.ball[u].treasure])
          BY <3>4, <5>1 DEF Good, Had
        <5>5. QED
          BY <5>1, <5>3, <5>4
      <4>3. QED
        BY <4>1, <4>2
    <3>5. QED
      BY <3>2, <3>3, <3>4 DEF Had
  <2>6. Playing(r) /\ Counted(r)
    BY <1>4 DEF Good, Playing, Counted
  <2>7. OwnersPresent(r)
    <3>1. \A u \in Slot : w.ball[u].owner # NoId => w.state[w.ball[u].owner] # "none"
      BY DEF Good, OwnersPresent
    <3>2. r.ball[s].owner = NoId
      BY <1>7, <1>11
    <3>3. QED
      BY <1>4, <3>1, <3>2 DEF OwnersPresent
  <2>8. QED
    BY <1>3, <1>4, <2>2, <2>3, <2>4, <2>5, <2>6, <2>7, <2>9 DEF Good, r
<1>12. CASE /\ b.owner # NoId /\ ~b.recreate
            /\ r.n = n - 1 /\ r.ball[s] = Gone /\ r.have = w.have
  <2>1. Placed(r)
    <3>1. ASSUME NEW u \in Slot
          PROVE  /\ r.ball[u].treasure # 0 => InUse(r, u)
                 /\ ~InUse(r, u) => r.ball[u] = Gone
                 /\ r.ball[u].treasure = 0 => r.ball[u].owner = NoId
      <4>1. CASE u = s
        BY <1>1, <1>6, <1>7, <1>12, <4>1
      <4>2. CASE u # s
        BY <1>4, <1>6, <1>12, <4>2 DEF Good, Placed
      <4>3. QED
        BY <4>1, <4>2
    <3>2. QED
      BY <1>6, <3>1 DEF Placed
  <2>8. Roomy(r)
    <3>1. Others(r) \subseteq Others(w)
      BY <1>4, <1>6, <1>12 DEF Others
    <3>2. QED
      BY <3>1, FewerOthers DEF Good
  <2>2. OneEach(r)
    BY <1>4, <1>7, <1>12 DEF Good, OneEach
  <2>3. Lost(r)
    <3>1. r.destroyed[t] > 0
      BY <1>1, <1>4, <1>12 DEF Good, Lost
    <3>2. ASSUME NEW x \in Treasure, \A u \in Slot : r.ball[u].treasure # x
          PROVE  r.destroyed[x] > 0
      <4>1. CASE x = t
        BY <3>1, <4>1
      <4>2. CASE x # t
        <5>1. \A u \in Slot : w.ball[u].treasure # x
          BY <1>4, <3>2, <4>2
        <5>2. QED
          BY <1>4, <5>1 DEF Good, Lost
      <4>3. QED
        BY <4>1, <4>2
    <3>3. \A u \in Slot : r.ball[u].treasure # 0 /\ ~r.ball[u].recreate
                             => r.destroyed[r.ball[u].treasure] > 0
      BY <1>4, <1>7, <1>12 DEF Good, Lost
    <3>4. QED
      BY <3>2, <3>3 DEF Lost
  <2>4. Had(r)
    <3>1. ~w.have[t]
      BY <1>2, <1>12
    <3>2. \A u \in Slot : r.ball[u].treasure # t
      BY <1>4, <1>7, <1>10, <1>12
    <3>3. ASSUME NEW x \in Treasure
          PROVE  /\ r.have[x] => Untaken(r, x)
                 /\ Untaken(r, x) => r.have[x] \/ x \in r.robbed
      <4>1. CASE x = t
        BY <1>12, <3>1, <3>2, <4>1 DEF Untaken
      <4>2. CASE x # t
        <5>1. \A u \in Slot : w.ball[u].treasure = x => r.ball[u] = w.ball[u] /\ u # s
          BY <1>4, <4>2
        <5>2. \A u \in Slot : r.ball[u].treasure = x => r.ball[u] = w.ball[u]
          BY <1>4, <1>7, <1>12, Bounds
        <5>3. Untaken(r, x) <=> Untaken(w, x)
          BY <5>1, <5>2 DEF Untaken
        <5>4. QED
          BY <1>4, <1>12, <5>3, HadParts DEF Good
      <4>3. QED
        BY <4>1, <4>2
    <3>4. \A u \in Slot : r.ball[u].treasure # 0 /\ ~r.ball[u].gravity
                             => /\ r.ball[u].id = NoId
                                /\ r.ball[u].owner = NoId \/ ~r.have[r.ball[u].treasure]
      BY <1>4, <1>7, <1>12 DEF Good, Had
    <3>5. QED
      BY <3>3, <3>4 DEF Had
  <2>5. Playing(r) /\ Counted(r)
    BY <1>4 DEF Good, Playing, Counted
  <2>6. OwnersPresent(r)
    <3>1. \A u \in Slot : w.ball[u].owner # NoId => w.state[w.ball[u].owner] # "none"
      BY DEF Good, OwnersPresent
    <3>2. r.ball[s].owner = NoId
      BY <1>7, <1>12
    <3>3. QED
      BY <1>4, <3>1, <3>2 DEF OwnersPresent
  <2>7. QED
    BY <1>3, <1>4, <2>1, <2>2, <2>3, <2>4, <2>5, <2>6, <2>8 DEF Good, r
<1>13. QED
  BY <1>3, <1>11, <1>12 DEF Deleted

(* Delete_shot of another object keeps it, too. *)
LEMMA FreedGood ==
    ASSUME NEW w, Good(w), NEW i \in 1 .. w.n, w.ball[w.Obj[i]].treasure = 0
    PROVE  LET r == Delete_shot(w, i)
           IN  /\ Good(r) /\ r.n = w.n - 1 /\ r.Obj = Swapped(w.Obj, i, w.n)
               /\ r.ball = [w.ball EXCEPT ![w.Obj[i]] = Gone]
               /\ r.state = w.state /\ r.hasBall = w.hasBall /\ r.have = w.have
               /\ r.strayed = w.strayed
<1> DEFINE s == w.Obj[i]
           r == Object_free_ind(w, i)
<1>1. w \in Worlds /\ s \in Slot /\ InUse(w, s)
  BY BallOfIndex DEF Good
<1>2. /\ r \in Worlds /\ r.n = w.n - 1 /\ r.ball = [w.ball EXCEPT ![s] = Gone]
      /\ r.Obj = Swapped(w.Obj, i, w.n)
      /\ r.have = w.have
      /\ r.state = w.state /\ r.hasBall = w.hasBall /\ r.ptr = w.ptr
      /\ r.destroyed = w.destroyed /\ r.left = w.left
      /\ r.strayed = w.strayed /\ r.robbed = w.robbed
  BY <1>1, Object_free_indIs DEF Swapped
<1>3. Delete_shot(w, i) = r
  BY DEF Delete_shot
<1> HIDE DEF r
<1>4. /\ r.ball[s] = Gone /\ \A u \in Slot \ {s} : r.ball[u] = w.ball[u]
  BY <1>1, <1>2, WorldFields
<1>5. /\ \A j, k \in 1 .. Cap : r.Obj[j] = r.Obj[k] => j = k
      /\ \A u \in Slot : InUse(r, u) <=> InUse(w, u) /\ u # s
  BY <1>1, <1>2, UsesAfter DEF Good
<1>6. Gone.treasure = 0 /\ Gone.owner = NoId
  BY GoneIs
<1>7. \A u \in Slot : \/ r.ball[u] = w.ball[u]
                      \/ u = s /\ r.ball[u].treasure = 0 /\ w.ball[u].treasure = 0
  BY <1>4, <1>6
<1>8. Placed(r)
  <2>1. ASSUME NEW u \in Slot
        PROVE  /\ r.ball[u].treasure # 0 => InUse(r, u)
               /\ ~InUse(r, u) => r.ball[u] = Gone
               /\ r.ball[u].treasure = 0 => r.ball[u].owner = NoId
    <3>1. CASE u = s
      BY <1>4, <1>6, <3>1
    <3>2. CASE u # s
      BY <1>4, <1>5, <3>2 DEF Good, Placed
    <3>3. QED
      BY <3>1, <3>2
  <2>2. QED
    BY <1>5, <2>1 DEF Placed
<1>9. Roomy(r)
  <2>1. Others(r) \subseteq Others(w)
    BY <1>5, <1>7 DEF Others
  <2>2. QED
    BY <2>1, FewerOthers DEF Good
<1>10. OneEach(r) /\ Lost(r)
  BY <1>2, <1>7 DEF Good, OneEach, Lost
<1>11. Had(r)
  <2>1. \A x \in Treasure : Untaken(r, x) <=> Untaken(w, x)
    BY <1>7, Bounds DEF Untaken
  <2>2. QED
    BY <1>2, <1>7, <2>1 DEF Good, Had
<1>12. Carried(r) /\ Playing(r) /\ Counted(r)
  BY <1>2, <1>7 DEF Good, Carried, Holds, Playing, Counted
<1>13. OwnersPresent(r)
  BY <1>2, <1>4, <1>6 DEF Good, OwnersPresent
<1>14. Good(r)
  BY <1>2, <1>8, <1>9, <1>10, <1>11, <1>12, <1>13 DEF Good
<1>15. QED
  BY <1>2, <1>3, <1>14

-----------------------------------------------------------------------------
(* Loops over objects and players.                                         *)

(* A loop whose passes keep what is to be true after each of them.         *)
Keeps(step, N, I) == \A n \in 1 .. N : \A v \in I[n - 1] : step[n][v] \in I[n]

Folded(f, N, D, I, base, step) ==
    /\ f \in [0 .. N -> D] /\ f[0] = base
    /\ \A n \in 1 .. N : f[n - 1] \in I[n - 1] /\ f[n] = step[n][f[n - 1]]

LEMMA Folding ==
    ASSUME NEW N \in Nat, NEW D, NEW I \in [0 .. N -> SUBSET D], NEW base \in I[0], NEW step,
           Keeps(step, N, I)
    PROVE  \E f : Folded(f, N, D, I, base, step)
<1> USE DEF Keeps, Folded
<1> DEFINE Part(n) == [v \in D |-> IF v \in I[n - 1] THEN step[n][v] ELSE v]
           total == [n \in 1 .. N |-> Part(n)]
<1>1. ASSUME NEW n \in 1 .. N PROVE Part(n) \in [D -> D]
  <2>1. n - 1 \in 0 .. N /\ n \in 0 .. N
    OBVIOUS
  <2>2. I[n] \subseteq D /\ I[n - 1] \subseteq D
    BY <2>1
  <2>3. \A v \in D : (IF v \in I[n - 1] THEN step[n][v] ELSE v) \in D
    BY <2>2
  <2>4. QED
    BY <2>3
<1>2. \A n \in 1 .. N : \A v \in I[n - 1] : Part(n)[v] = step[n][v]
  <2>1. \A n \in 1 .. N : n - 1 \in 0 .. N /\ I[n - 1] \subseteq D
    OBVIOUS
  <2>2. QED
    BY <2>1
<1> HIDE DEF Part
<1>3. total \in [1 .. N -> [D -> D]] /\ \A n \in 1 .. N : total[n] = Part(n)
  BY <1>1
<1>4. base \in D
  OBVIOUS
<1> HIDE DEF total
<1>5. PICK f : Iterates(f, N, D, base, total)
  BY <1>3, <1>4, Recursion
<1> DEFINE G == {n \in 0 .. N : f[n] \in I[n]}
<1>6. 0 \in G
  BY <1>5 DEF Iterates
<1>7. \A n \in 1 .. N : n - 1 \in G => n \in G /\ f[n] = step[n][f[n - 1]]
  <2>1. \A n \in 1 .. N : f[n] = total[n][f[n - 1]]
    BY <1>5 DEF Iterates
  <2>2. QED
    BY <1>2, <1>3, <2>1
<1> HIDE DEF G
<1>8. \A n \in 0 .. N : n \in G
  BY <1>6, <1>7, UpTo
<1>9. \A n \in 1 .. N : n - 1 \in 0 .. N
  OBVIOUS
<1>10. \A n \in 0 .. N : f[n] \in I[n]
  BY <1>8 DEF G
<1>11. QED
  BY <1>5, <1>7, <1>8, <1>9, <1>10 DEF Iterates

(* The passes of the loops. *)
VisitDead(v, i) == IF v.ball[v.Obj[i]].life = 0 THEN Delete_shot(v, i) ELSE v
VisitAny(v, i) == Delete_shot([v EXCEPT !.ball[v.Obj[i]].life = 0], i)
VisitOf(p, v, i) ==
    LET s == v.Obj[i]
    IN  IF v.ball[s].id = p /\ v.ball[s].treasure # 0 THEN Delete_shot(v, i)
        ELSE IF v.ball[s].id = p THEN [v EXCEPT !.ball[s].id = NoId]
        ELSE IF v.ball[s].owner = p THEN [v EXCEPT !.ball[s].owner = NoId]
        ELSE v
VisitLoose(p, v, s) == Detach_ball(v, p, {s})
VisitOfAll(p, w, seq) == FoldOver(LAMBDA v, i : VisitOf(p, v, i), w, seq)
VisitLooseAll(p, w, seq) == FoldOver(LAMBDA v, s : VisitLoose(p, v, s), w, seq)
VisitKilled(v, p) == IF options.endOfRoundReset THEN Kill_player(v, p, "alive") ELSE v

LEMMA DeadFold ==
    ASSUME NEW N \in Nat, NEW D, NEW I \in [0 .. N -> SUBSET D], NEW base \in I[0],
           NEW seq, Len(seq) = N,
           \A n \in 1 .. N : \A v \in I[n - 1] : VisitDead(v, seq[n]) \in I[n]
    PROVE  FoldOver(VisitDead, base, seq) \in I[N]
<1> DEFINE step == [n \in 1 .. N |-> [v \in D |-> VisitDead(v, seq[n])]]
           Def(g) == g = [n \in 0 .. N |-> IF n = 0 THEN base ELSE VisitDead(g[n - 1], seq[n])]
           h == CHOOSE g : Def(g)
           G == {n \in 0 .. N : h[n] \in I[n]}
<1>1. \A n \in 1 .. N : \A v \in I[n - 1] : step[n][v] = VisitDead(v, seq[n])
  <2>1. \A n \in 1 .. N : n - 1 \in 0 .. N /\ I[n - 1] \subseteq D
    OBVIOUS
  <2>2. QED
    BY <2>1
<1> HIDE DEF step
<1>2. PICK f : Folded(f, N, D, I, base, step)
  <2>1. Keeps(step, N, I)
    BY <1>1 DEF Keeps
  <2>2. QED
    BY <2>1, Folding
<1>3. Def(f)
  <2>1. \A n \in 0 .. N : f[n] = IF n = 0 THEN base ELSE VisitDead(f[n - 1], seq[n])
    BY <1>1, <1>2 DEF Folded
  <2>2. QED
    BY <1>2, <2>1 DEF Folded
<1>4. Def(h)
  <2> HIDE DEF Def
  <2>1. QED
    BY <1>3
<1>5. FoldOver(VisitDead, base, seq) = h[N]
  BY DEF FoldOver
<1> HIDE DEF h
<1>6. h[0] = base /\ \A n \in 1 .. N : h[n] = VisitDead(h[n - 1], seq[n])
  BY <1>4
<1>7. 0 \in G /\ \A n \in 1 .. N : n - 1 \in G => n \in G
  BY <1>6
<1> HIDE DEF G
<1>8. \A n \in 0 .. N : n \in G
  BY <1>7, UpTo
<1>9. N \in G
  BY <1>8
<1>10. QED
  BY <1>5, <1>9 DEF G

LEMMA AnyFold ==
    ASSUME NEW N \in Nat, NEW D, NEW I \in [0 .. N -> SUBSET D], NEW base \in I[0],
           NEW seq, Len(seq) = N,
           \A n \in 1 .. N : \A v \in I[n - 1] : VisitAny(v, seq[n]) \in I[n]
    PROVE  FoldOver(VisitAny, base, seq) \in I[N]
<1> DEFINE step == [n \in 1 .. N |-> [v \in D |-> VisitAny(v, seq[n])]]
           Def(g) == g = [n \in 0 .. N |-> IF n = 0 THEN base ELSE VisitAny(g[n - 1], seq[n])]
           h == CHOOSE g : Def(g)
           G == {n \in 0 .. N : h[n] \in I[n]}
<1>1. \A n \in 1 .. N : \A v \in I[n - 1] : step[n][v] = VisitAny(v, seq[n])
  <2>1. \A n \in 1 .. N : n - 1 \in 0 .. N /\ I[n - 1] \subseteq D
    OBVIOUS
  <2>2. QED
    BY <2>1
<1> HIDE DEF step
<1>2. PICK f : Folded(f, N, D, I, base, step)
  <2>1. Keeps(step, N, I)
    BY <1>1 DEF Keeps
  <2>2. QED
    BY <2>1, Folding
<1>3. Def(f)
  <2>1. \A n \in 0 .. N : f[n] = IF n = 0 THEN base ELSE VisitAny(f[n - 1], seq[n])
    BY <1>1, <1>2 DEF Folded
  <2>2. QED
    BY <1>2, <2>1 DEF Folded
<1>4. Def(h)
  <2> HIDE DEF Def
  <2>1. QED
    BY <1>3
<1>5. FoldOver(VisitAny, base, seq) = h[N]
  BY DEF FoldOver
<1> HIDE DEF h
<1>6. h[0] = base /\ \A n \in 1 .. N : h[n] = VisitAny(h[n - 1], seq[n])
  BY <1>4
<1>7. 0 \in G /\ \A n \in 1 .. N : n - 1 \in G => n \in G
  BY <1>6
<1> HIDE DEF G
<1>8. \A n \in 0 .. N : n \in G
  BY <1>7, UpTo
<1>9. N \in G
  BY <1>8
<1>10. QED
  BY <1>5, <1>9 DEF G

LEMMA OfFold ==
    ASSUME NEW N \in Nat, NEW D, NEW I \in [0 .. N -> SUBSET D], NEW base \in I[0],
           NEW p, NEW seq, Len(seq) = N,
           \A n \in 1 .. N : \A v \in I[n - 1] : VisitOf(p, v, seq[n]) \in I[n]
    PROVE  VisitOfAll(p, base, seq) \in I[N]
<1> DEFINE step == [n \in 1 .. N |-> [v \in D |-> VisitOf(p, v, seq[n])]]
           Def(g) == g = [n \in 0 .. N |-> IF n = 0 THEN base ELSE VisitOf(p, g[n - 1], seq[n])]
           h == CHOOSE g : Def(g)
           G == {n \in 0 .. N : h[n] \in I[n]}
<1>1. \A n \in 1 .. N : \A v \in I[n - 1] : step[n][v] = VisitOf(p, v, seq[n])
  <2>1. \A n \in 1 .. N : n - 1 \in 0 .. N /\ I[n - 1] \subseteq D
    OBVIOUS
  <2>2. QED
    BY <2>1
<1> HIDE DEF step
<1>2. PICK f : Folded(f, N, D, I, base, step)
  <2>1. Keeps(step, N, I)
    BY <1>1 DEF Keeps
  <2>2. QED
    BY <2>1, Folding
<1>3. Def(f)
  <2>1. ASSUME NEW n \in 1 .. N PROVE f[n] = VisitOf(p, f[n - 1], seq[n])
    <3>1. f[n - 1] \in I[n - 1] /\ f[n] = step[n][f[n - 1]]
      BY <1>2 DEF Folded
    <3>2. QED
      BY <1>1, <3>1
  <2>2. QED
    BY <1>2, <2>1 DEF Folded
<1>4. Def(h)
  <2> HIDE DEF Def
  <2>1. QED
    BY <1>3
<1>5. VisitOfAll(p, base, seq) = h[N]
  BY DEF VisitOfAll, FoldOver
<1> HIDE DEF h
<1>6. h[0] = base /\ \A n \in 1 .. N : h[n] = VisitOf(p, h[n - 1], seq[n])
  BY <1>4
<1>7. 0 \in G /\ \A n \in 1 .. N : n - 1 \in G => n \in G
  BY <1>6
<1> HIDE DEF G
<1>8. \A n \in 0 .. N : n \in G
  BY <1>7, UpTo
<1>9. N \in G
  BY <1>8
<1>10. QED
  BY <1>5, <1>9 DEF G

LEMMA LooseFold ==
    ASSUME NEW N \in Nat, NEW D, NEW I \in [0 .. N -> SUBSET D], NEW base \in I[0],
           NEW p, NEW seq, Len(seq) = N,
           \A n \in 1 .. N : \A v \in I[n - 1] : VisitLoose(p, v, seq[n]) \in I[n]
    PROVE  VisitLooseAll(p, base, seq) \in I[N]
<1> DEFINE step == [n \in 1 .. N |-> [v \in D |-> VisitLoose(p, v, seq[n])]]
           Def(g) == g = [n \in 0 .. N |-> IF n = 0 THEN base ELSE VisitLoose(p, g[n - 1], seq[n])]
           h == CHOOSE g : Def(g)
           G == {n \in 0 .. N : h[n] \in I[n]}
<1>1. \A n \in 1 .. N : \A v \in I[n - 1] : step[n][v] = VisitLoose(p, v, seq[n])
  <2>1. \A n \in 1 .. N : n - 1 \in 0 .. N /\ I[n - 1] \subseteq D
    OBVIOUS
  <2>2. QED
    BY <2>1
<1> HIDE DEF step
<1>2. PICK f : Folded(f, N, D, I, base, step)
  <2>1. Keeps(step, N, I)
    BY <1>1 DEF Keeps
  <2>2. QED
    BY <2>1, Folding
<1>3. Def(f)
  <2>1. ASSUME NEW n \in 1 .. N PROVE f[n] = VisitLoose(p, f[n - 1], seq[n])
    <3>1. f[n - 1] \in I[n - 1] /\ f[n] = step[n][f[n - 1]]
      BY <1>2 DEF Folded
    <3>2. QED
      BY <1>1, <3>1
  <2>2. QED
    BY <1>2, <2>1 DEF Folded
<1>4. Def(h)
  <2> HIDE DEF Def
  <2>1. QED
    BY <1>3
<1>5. VisitLooseAll(p, base, seq) = h[N]
  BY DEF VisitLooseAll, FoldOver
<1> HIDE DEF h
<1>6. h[0] = base /\ \A n \in 1 .. N : h[n] = VisitLoose(p, h[n - 1], seq[n])
  BY <1>4
<1>7. 0 \in G /\ \A n \in 1 .. N : n - 1 \in G => n \in G
  BY <1>6
<1> HIDE DEF G
<1>8. \A n \in 0 .. N : n \in G
  BY <1>7, UpTo
<1>9. N \in G
  BY <1>8
<1>10. QED
  BY <1>5, <1>9 DEF G

LEMMA KilledFold ==
    ASSUME NEW N \in Nat, NEW D, NEW I \in [0 .. N -> SUBSET D], NEW base \in I[0],
           NEW seq, Len(seq) = N,
           \A n \in 1 .. N : \A v \in I[n - 1] : VisitKilled(v, seq[n]) \in I[n]
    PROVE  FoldOver(VisitKilled, base, seq) \in I[N]
<1> DEFINE step == [n \in 1 .. N |-> [v \in D |-> VisitKilled(v, seq[n])]]
           Def(g) == g = [n \in 0 .. N |-> IF n = 0 THEN base ELSE VisitKilled(g[n - 1], seq[n])]
           h == CHOOSE g : Def(g)
           G == {n \in 0 .. N : h[n] \in I[n]}
<1>1. \A n \in 1 .. N : \A v \in I[n - 1] : step[n][v] = VisitKilled(v, seq[n])
  <2>1. \A n \in 1 .. N : n - 1 \in 0 .. N /\ I[n - 1] \subseteq D
    OBVIOUS
  <2>2. QED
    BY <2>1
<1> HIDE DEF step
<1>2. PICK f : Folded(f, N, D, I, base, step)
  <2>1. Keeps(step, N, I)
    BY <1>1 DEF Keeps
  <2>2. QED
    BY <2>1, Folding
<1>3. Def(f)
  <2>1. \A n \in 0 .. N : f[n] = IF n = 0 THEN base ELSE VisitKilled(f[n - 1], seq[n])
    BY <1>1, <1>2 DEF Folded
  <2>2. QED
    BY <1>2, <2>1 DEF Folded
<1>4. Def(h)
  <2> HIDE DEF Def
  <2>1. QED
    BY <1>3
<1>5. FoldOver(VisitKilled, base, seq) = h[N]
  BY DEF FoldOver
<1> HIDE DEF h
<1>6. h[0] = base /\ \A n \in 1 .. N : h[n] = VisitKilled(h[n - 1], seq[n])
  BY <1>4
<1>7. 0 \in G /\ \A n \in 1 .. N : n - 1 \in G => n \in G
  BY <1>6
<1> HIDE DEF G
<1>8. \A n \in 0 .. N : n \in G
  BY <1>7, UpTo
<1>9. N \in G
  BY <1>8
<1>10. QED
  BY <1>5, <1>9 DEF G

LEMMA UnmakeFold ==
    ASSUME NEW N \in Nat, NEW D, NEW I \in [0 .. N -> SUBSET D], NEW base \in I[0],
           NEW seq, Len(seq) = N,
           \A n \in 1 .. N : \A v \in I[n - 1] : Unmake(v, seq[n]) \in I[n]
    PROVE  FoldOver(Unmake, base, seq) \in I[N]
<1> DEFINE step == [n \in 1 .. N |-> [v \in D |-> Unmake(v, seq[n])]]
           Def(g) == g = [n \in 0 .. N |-> IF n = 0 THEN base ELSE Unmake(g[n - 1], seq[n])]
           h == CHOOSE g : Def(g)
           G == {n \in 0 .. N : h[n] \in I[n]}
<1>1. \A n \in 1 .. N : \A v \in I[n - 1] : step[n][v] = Unmake(v, seq[n])
  <2>1. \A n \in 1 .. N : n - 1 \in 0 .. N /\ I[n - 1] \subseteq D
    OBVIOUS
  <2>2. QED
    BY <2>1
<1> HIDE DEF step
<1>2. PICK f : Folded(f, N, D, I, base, step)
  <2>1. Keeps(step, N, I)
    BY <1>1 DEF Keeps
  <2>2. QED
    BY <2>1, Folding
<1>3. Def(f)
  <2>1. \A n \in 0 .. N : f[n] = IF n = 0 THEN base ELSE Unmake(f[n - 1], seq[n])
    BY <1>1, <1>2 DEF Folded
  <2>2. QED
    BY <1>2, <2>1 DEF Folded
<1>4. Def(h)
  <2> HIDE DEF Def
  <2>1. QED
    BY <1>3
<1>5. FoldOver(Unmake, base, seq) = h[N]
  BY DEF FoldOver
<1> HIDE DEF h
<1>6. h[0] = base /\ \A n \in 1 .. N : h[n] = Unmake(h[n - 1], seq[n])
  BY <1>4
<1>7. 0 \in G /\ \A n \in 1 .. N : n - 1 \in G => n \in G
  BY <1>6
<1> HIDE DEF G
<1>8. \A n \in 0 .. N : n \in G
  BY <1>7, UpTo
<1>9. N \in G
  BY <1>8
<1>10. QED
  BY <1>5, <1>9 DEF G

LEMMA RemakeFold ==
    ASSUME NEW N \in Nat, NEW D, NEW I \in [0 .. N -> SUBSET D], NEW base \in I[0],
           NEW seq, Len(seq) = N,
           \A n \in 1 .. N : \A v \in I[n - 1] : Remake(v, seq[n]) \in I[n]
    PROVE  FoldOver(Remake, base, seq) \in I[N]
<1> DEFINE step == [n \in 1 .. N |-> [v \in D |-> Remake(v, seq[n])]]
           Def(g) == g = [n \in 0 .. N |-> IF n = 0 THEN base ELSE Remake(g[n - 1], seq[n])]
           h == CHOOSE g : Def(g)
           G == {n \in 0 .. N : h[n] \in I[n]}
<1>1. \A n \in 1 .. N : \A v \in I[n - 1] : step[n][v] = Remake(v, seq[n])
  <2>1. \A n \in 1 .. N : n - 1 \in 0 .. N /\ I[n - 1] \subseteq D
    OBVIOUS
  <2>2. QED
    BY <2>1
<1> HIDE DEF step
<1>2. PICK f : Folded(f, N, D, I, base, step)
  <2>1. Keeps(step, N, I)
    BY <1>1 DEF Keeps
  <2>2. QED
    BY <2>1, Folding
<1>3. Def(f)
  <2>1. \A n \in 0 .. N : f[n] = IF n = 0 THEN base ELSE Remake(f[n - 1], seq[n])
    BY <1>1, <1>2 DEF Folded
  <2>2. QED
    BY <1>2, <2>1 DEF Folded
<1>4. Def(h)
  <2> HIDE DEF Def
  <2>1. QED
    BY <1>3
<1>5. FoldOver(Remake, base, seq) = h[N]
  BY DEF FoldOver
<1> HIDE DEF h
<1>6. h[0] = base /\ \A n \in 1 .. N : h[n] = Remake(h[n - 1], seq[n])
  BY <1>4
<1>7. 0 \in G /\ \A n \in 1 .. N : n - 1 \in G => n \in G
  BY <1>6
<1> HIDE DEF G
<1>8. \A n \in 0 .. N : n \in G
  BY <1>7, UpTo
<1>9. N \in G
  BY <1>8
<1>10. QED
  BY <1>5, <1>9 DEF G

-----------------------------------------------------------------------------
(* Changes that leave every ball where it is.                              *)

Kept(w, r) ==
    /\ r.have = w.have /\ r.destroyed = w.destroyed /\ r.left = w.left
    /\ r.hasBall = w.hasBall /\ r.strayed = w.strayed /\ r.robbed = w.robbed
    /\ \A s \in Slot :
          /\ r.ball[s].id = w.ball[s].id /\ r.ball[s].gravity = w.ball[s].gravity
          /\ w.ball[s].recreate => r.ball[s].recreate
          /\ w.ball[s].treasure # 0 /\ ~w.ball[s].gravity
                => r.ball[s].owner \in {NoId, w.ball[s].owner} \/ ~w.have[w.ball[s].treasure]

LEMMA ChangeGood ==
    ASSUME NEW w, Good(w), NEW r \in Worlds, KeepsPlaces(w, r), Kept(w, r),
           Playing(r), OwnersPresent(r)
    PROVE  Good(r)
<1>1. w \in Worlds /\ Placed(w) /\ OneEach(w) /\ Lost(w) /\ Had(w) /\ Carried(w) /\ Counted(w)
  BY DEF Good
<1>2. Placed(r) /\ OneEach(r) /\ Roomy(r)
  BY <1>1, PlacesKept DEF Good
<1>3. Lost(r)
  BY <1>1, LostKept DEF Kept
<1>4. Had(r)
  BY <1>1, HadKept DEF Kept
<1>5. Carried(r) /\ Counted(r)
  BY <1>1 DEF KeepsPlaces, Kept, Carried, Holds, Counted
<1>6. QED
  BY <1>2, <1>3, <1>4, <1>5 DEF Good

(* How players go on. *)
LEMMA StateGood ==
    ASSUME NEW w, Good(w), NEW st \in [Player -> States],
           \A p \in w.hasBall : st[p] \in {"alive", "killed"},
           \A p \in Player : w.state[p] # "none" => st[p] # "none"
    PROVE  Good([w EXCEPT !.state = st])
<1> DEFINE r == [w EXCEPT !.state = st]
<1>1. w \in Worlds
  BY DEF Good
<1>2. /\ r \in Worlds /\ r.state = st /\ r.hasBall = w.hasBall /\ r.ptr = w.ptr
      /\ r.ball = w.ball /\ r.Obj = w.Obj /\ r.n = w.n /\ r.have = w.have
      /\ r.destroyed = w.destroyed /\ r.left = w.left
      /\ r.strayed = w.strayed /\ r.robbed = w.robbed
  BY <1>1 DEF Worlds
<1> HIDE DEF r
<1>3. KeepsPlaces(w, r) /\ Kept(w, r)
  BY <1>2 DEF KeepsPlaces, Kept
<1>4. Playing(r)
  BY <1>2 DEF Playing
<1>5. OwnersPresent(r)
  <2>1. \A s \in Slot : w.ball[s].owner \in Player \cup {NoId}
    BY <1>1, BallFields
  <2>2. QED
    BY <1>2, <2>1 DEF Good, OwnersPresent
<1>6. QED
  BY <1>2, <1>3, <1>4, <1>5, ChangeGood DEF r

(* One player goes on. *)
LEMMA PlayerGood ==
    ASSUME NEW w, Good(w), NEW p \in Player, NEW st \in States,
           p \in w.hasBall => st \in {"alive", "killed"}, st # "none"
    PROVE  Good([w EXCEPT !.state[p] = st])
<1> DEFINE f == [w.state EXCEPT ![p] = st]
<1>1. w \in Worlds
  BY DEF Good
<1>2. f \in [Player -> States] /\ f[p] = st /\ \A q \in Player \ {p} : f[q] = w.state[q]
  BY <1>1, WorldFields
<1>3. [w EXCEPT !.state[p] = st] = [w EXCEPT !.state = f]
  BY <1>1 DEF Worlds
<1> HIDE DEF f
<1>4. \A q \in w.hasBall : f[q] \in {"alive", "killed"}
  BY <1>1, <1>2, WorldFields DEF Good, Playing
<1>5. \A q \in Player : w.state[q] # "none" => f[q] # "none"
  BY <1>2
<1>6. Good([w EXCEPT !.state = f])
  BY <1>2, <1>4, <1>5, StateGood
<1>7. QED
  BY <1>3, <1>6

(* What players reach for. *)
LEMMA PtrGood ==
    ASSUME NEW w, Good(w), NEW q \in [Player -> Slot \cup {Null}]
    PROVE  Good([w EXCEPT !.ptr = q])
<1> DEFINE r == [w EXCEPT !.ptr = q]
<1>1. w \in Worlds
  BY DEF Good
<1>2. /\ r \in Worlds /\ r.state = w.state /\ r.hasBall = w.hasBall
      /\ r.ball = w.ball /\ r.Obj = w.Obj /\ r.n = w.n /\ r.have = w.have
      /\ r.destroyed = w.destroyed /\ r.left = w.left
      /\ r.strayed = w.strayed /\ r.robbed = w.robbed
  BY <1>1 DEF Worlds
<1> HIDE DEF r
<1>3. KeepsPlaces(w, r) /\ Kept(w, r) /\ Playing(r) /\ OwnersPresent(r)
  BY <1>2 DEF KeepsPlaces, Kept, Good, Playing, OwnersPresent
<1>4. QED
  BY <1>2, <1>3, ChangeGood DEF r

LEMMA ReachGood ==
    ASSUME NEW w, Good(w), NEW p \in Player, NEW a \in Slot \cup {Null}
    PROVE  Good([w EXCEPT !.ptr[p] = a])
<1> DEFINE q == [w.ptr EXCEPT ![p] = a]
<1>1. w \in Worlds
  BY DEF Good
<1>2. q \in [Player -> Slot \cup {Null}]
  BY <1>1, WorldFields
<1>3. [w EXCEPT !.ptr[p] = a] = [w EXCEPT !.ptr = q]
  BY <1>1 DEF Worlds
<1> HIDE DEF q
<1>4. QED
  BY <1>2, <1>3, PtrGood

(* The ball in one slot changes. *)
BallSet(w, s, c, r) ==
    /\ r.ball[s] = c /\ \A u \in Slot \ {s} : r.ball[u] = w.ball[u]
    /\ r.state = w.state /\ r.hasBall = w.hasBall /\ r.ptr = w.ptr
    /\ r.Obj = w.Obj /\ r.n = w.n /\ r.have = w.have
    /\ r.destroyed = w.destroyed /\ r.left = w.left /\ r.won = w.won /\ r.strayed = w.strayed /\ r.robbed = w.robbed

LEMMA BallIsSet ==
    ASSUME NEW w \in Worlds, NEW s \in Slot, NEW c \in Object
    PROVE  LET r == [w EXCEPT !.ball[s] = c] IN r \in Worlds /\ BallSet(w, s, c, r)
<1> DEFINE b == [w.ball EXCEPT ![s] = c]
           r == [w EXCEPT !.ball[s] = c]
<1>1. b \in [Slot -> Object] /\ b[s] = c /\ \A u \in Slot \ {s} : b[u] = w.ball[u]
  BY WorldFields
<1>2. r = [w EXCEPT !.ball = b]
  BY DEF Worlds
<1> HIDE DEF b, r
<1>3. r \in Worlds /\ r.ball = b
      /\ r.state = w.state /\ r.hasBall = w.hasBall /\ r.ptr = w.ptr
      /\ r.Obj = w.Obj /\ r.n = w.n /\ r.have = w.have
      /\ r.destroyed = w.destroyed /\ r.left = w.left /\ r.won = w.won /\ r.strayed = w.strayed /\ r.robbed = w.robbed
  BY <1>1, <1>2 DEF Worlds
<1>4. BallSet(w, s, c, r)
  BY <1>1, <1>3 DEF BallSet
<1>5. QED
  BY <1>3, <1>4 DEF r

LEMMA BallGood ==
    ASSUME NEW w, Good(w), NEW s \in Slot, w.ball[s].treasure # 0, NEW c \in Object,
           c.treasure = w.ball[s].treasure, c.id = w.ball[s].id,
           c.gravity = w.ball[s].gravity, w.ball[s].recreate => c.recreate,
           ~c.gravity => c.owner \in {NoId, w.ball[s].owner} \/ ~w.have[w.ball[s].treasure],
           c.owner # NoId => w.state[c.owner] # "none"
    PROVE  LET r == [w EXCEPT !.ball[s] = c] IN Good(r) /\ BallSet(w, s, c, r)
<1> DEFINE r == [w EXCEPT !.ball[s] = c]
<1>1. w \in Worlds
  BY DEF Good
<1>2. r \in Worlds /\ BallSet(w, s, c, r)
  BY <1>1, BallIsSet
<1> HIDE DEF r
<1>3. KeepsPlaces(w, r)
  BY <1>2 DEF BallSet, KeepsPlaces
<1>4. Kept(w, r)
  BY <1>2 DEF BallSet, Kept
<1>5. Playing(r)
  BY <1>2 DEF BallSet, Playing, Good
<1>6. OwnersPresent(r)
  BY <1>2 DEF BallSet, OwnersPresent, Good
<1>7. QED
  BY <1>2, <1>3, <1>4, <1>5, <1>6, ChangeGood DEF r

(* An object that is no ball changes. *)
LEMMA OtherGood ==
    ASSUME NEW w, Good(w), NEW s \in Slot, w.ball[s].treasure = 0, InUse(w, s),
           NEW c \in Object, c.treasure = 0, c.owner = NoId
    PROVE  LET r == [w EXCEPT !.ball[s] = c] IN Good(r) /\ BallSet(w, s, c, r)
<1> DEFINE r == [w EXCEPT !.ball[s] = c]
<1>1. w \in Worlds
  BY DEF Good
<1>2. r \in Worlds /\ BallSet(w, s, c, r)
  BY <1>1, BallIsSet
<1> HIDE DEF r
<1>3. \A u \in Slot : \/ r.ball[u] = w.ball[u]
                      \/ /\ u = s /\ r.ball[u].treasure = 0 /\ w.ball[u].treasure = 0
                         /\ r.ball[u].owner = NoId
  BY <1>2 DEF BallSet
<1>4. \A u \in Slot : InUse(r, u) <=> InUse(w, u)
  BY <1>2 DEF BallSet, InUse
<1>5. Placed(r)
  BY <1>2, <1>3, <1>4 DEF Good, Placed, BallSet
<1>6. Roomy(r)
  <2>1. Others(r) = Others(w)
    BY <1>3, <1>4 DEF Others
  <2>2. QED
    BY <2>1 DEF Good, Roomy
<1>7. OneEach(r) /\ Lost(r)
  BY <1>2, <1>3 DEF Good, OneEach, Lost, BallSet
<1>8. Had(r)
  <2>1. \A x \in Treasure : Untaken(r, x) <=> Untaken(w, x)
    BY <1>3, Bounds DEF Untaken
  <2>2. QED
    BY <1>2, <1>3, <2>1 DEF Good, Had, BallSet
<1>9. Carried(r) /\ Playing(r) /\ Counted(r)
  BY <1>2, <1>3 DEF Good, Carried, Holds, Playing, Counted, BallSet
<1>10. OwnersPresent(r)
  BY <1>2, <1>3 DEF Good, OwnersPresent, BallSet
<1>11. Good(r)
  BY <1>2, <1>5, <1>6, <1>7, <1>8, <1>9, <1>10 DEF Good
<1>12. QED
  BY <1>2, <1>11 DEF r

(* An object dies. *)
LEMMA LifeGood ==
    ASSUME NEW w, Good(w), NEW s \in Slot, InUse(w, s)
    PROVE  LET r == [w EXCEPT !.ball[s].life = 0]
           IN  Good(r) /\ BallSet(w, s, [w.ball[s] EXCEPT !.life = 0], r)
<1> DEFINE b == w.ball[s]
           c == [b EXCEPT !.life = 0]
<1>1. w \in Worlds
  BY DEF Good
<1>2. b \in Object
  BY <1>1, BallFields
<1>3. [w EXCEPT !.ball[s].life = 0] = [w EXCEPT !.ball[s] = c]
  BY <1>1 DEF Worlds
<1>4. /\ b = w.ball[s]
      /\ b.owner # NoId => w.state[b.owner] # "none"
      /\ b.treasure = 0 => b.owner = NoId
  BY DEF Good, OwnersPresent, Placed
<1> HIDE DEF b
<1>5. /\ c \in Object /\ c.treasure = b.treasure /\ c.id = b.id /\ c.gravity = b.gravity
      /\ c.recreate = b.recreate /\ c.owner = b.owner
  BY <1>2 DEF Object
<1> HIDE DEF c
<1>6. Good([w EXCEPT !.ball[s] = c]) /\ BallSet(w, s, c, [w EXCEPT !.ball[s] = c])
  <2>1. CASE b.treasure # 0
    BY <1>4, <1>5, <2>1, BallGood
  <2>2. CASE b.treasure = 0
    BY <1>4, <1>5, <2>2, OtherGood
  <2>3. QED
    BY <2>1, <2>2
<1>7. QED
  BY <1>3, <1>6 DEF b, c

-----------------------------------------------------------------------------
(* Players who let go of everything.                                       *)

LEMMA LetsGo ==
    ASSUME NEW w, Good(w), NEW p \in Player
    PROVE  LET r == Detach_ball(w, p, Slot)
           IN  Good(r) /\ r.state = w.state /\ p \notin r.hasBall
<1> DEFINE r == Detach_ball(w, p, Slot)
<1>1. Slot \in SUBSET Slot
  OBVIOUS
<1>2. Good(r) /\ r.state = w.state
  BY <1>1, Detach_ballGood
<1>3. p \notin r.hasBall
  BY <1>1, Detach_ballIs DEF Good
<1>4. QED
  BY <1>2, <1>3 DEF r

LEMMA PauseOnGood ==
    ASSUME NEW w, Good(w), NEW p \in Player
    PROVE  Good(PauseOn(w, p))
<1> DEFINE d == Detach_ball(w, p, Slot)
<1>1. Good(d) /\ p \notin d.hasBall
  BY LetsGo
<1>2. PauseOn(w, p) = [d EXCEPT !.state[p] = "paused"]
  BY DEF PauseOn
<1> HIDE DEF d
<1>3. "paused" \in States /\ "paused" # "none"
  BY DEF States
<1>4. QED
  BY <1>1, <1>2, <1>3, PlayerGood

LEMMA Kill_playerGood ==
    ASSUME NEW w, Good(w), NEW p \in Player, NEW st \in {"alive", "dead"}
    PROVE  Good(Kill_player(w, p, st))
<1> DEFINE d == Detach_ball(w, p, Slot)
           r == [d EXCEPT !.state[p] = st, !.hasBall = @ \ {p}]
<1>1. Good(d) /\ p \notin d.hasBall
  BY LetsGo
<1>2. Kill_player(w, p, st) = IF w.state[p] = "paused" THEN w ELSE r
  BY DEF Kill_player
<1> HIDE DEF d
<1>3. d \in Worlds
  BY <1>1 DEF Good
<1>4. d.hasBall \ {p} = d.hasBall
  BY <1>1
<1>5. r = [d EXCEPT !.state[p] = st]
  BY <1>3, <1>4 DEF Worlds
<1>6. st \in States /\ st # "none"
  BY DEF States
<1>7. Good([d EXCEPT !.state[p] = st])
  BY <1>1, <1>6, PlayerGood
<1> HIDE DEF r
<1>8. QED
  BY <1>2, <1>5, <1>7

-----------------------------------------------------------------------------
(* The loops that delete.                                                  *)

LEMMA DownwardsIs ==
    ASSUME NEW w \in Worlds
    PROVE  /\ w.n \in Nat /\ Len(Downwards(w)) = w.n
           /\ \A k \in 1 .. w.n : Downwards(w)[k] = w.n + 1 - k
<1>1. w.n \in Nat
  BY WorldCounts
<1>2. QED
  BY <1>1 DEF Downwards

(* After k passes at least N - k objects are left, and this is good.       *)
StillGood(N) == [k \in 0 .. N |-> {v \in Worlds : Good(v) /\ v.n >= N - k}]

LEMMA StillGoodIs ==
    ASSUME NEW N \in Nat
    PROVE  /\ StillGood(N) \in [0 .. N -> SUBSET Worlds]
           /\ \A k \in 0 .. N : \A v :
                 v \in StillGood(N)[k] <=> v \in Worlds /\ Good(v) /\ v.n >= N - k
           /\ \A k \in 1 .. N : \A v \in StillGood(N)[k - 1] :
                 v \in Worlds /\ Good(v) /\ v.n >= N - k /\ N + 1 - k \in 1 .. v.n
<1>1. StillGood(N) \in [0 .. N -> SUBSET Worlds]
  BY DEF StillGood
<1>2. \A k \in 0 .. N : \A v :
         v \in StillGood(N)[k] <=> v \in Worlds /\ Good(v) /\ v.n >= N - k
  BY DEF StillGood
<1>3. ASSUME NEW k \in 1 .. N, NEW v \in StillGood(N)[k - 1]
      PROVE  v \in Worlds /\ Good(v) /\ v.n >= N - k /\ N + 1 - k \in 1 .. v.n
  <2>1. k - 1 \in 0 .. N
    OBVIOUS
  <2>2. v \in Worlds /\ Good(v) /\ v.n >= N - (k - 1)
    BY <1>2, <2>1
  <2>3. v.n \in Nat
    BY <2>2, WorldCounts
  <2>4. QED
    BY <2>2, <2>3
<1>4. QED
  BY <1>1, <1>2, <1>3

(* At most one object goes at a time. *)
LEMMA OneLess ==
    ASSUME NEW w, Good(w), NEW i \in 1 .. w.n
    PROVE  LET r == Delete_shot(w, i)
           IN  r \in Worlds /\ Good(r) /\ r.n \in Nat /\ w.n \in Nat /\ r.n >= w.n - 1
<1> DEFINE r == Delete_shot(w, i)
<1>1. Good(r) /\ (r.n = w.n \/ r.n = w.n - 1)
  <2>1. CASE w.ball[w.Obj[i]].treasure # 0
    BY <2>1, Delete_shotGood DEF Deleted
  <2>2. CASE w.ball[w.Obj[i]].treasure = 0
    BY <2>2, FreedGood
  <2>3. QED
    BY <2>1, <2>2
<1> HIDE DEF r
<1>2. w \in Worlds /\ r \in Worlds
  BY <1>1 DEF Good
<1>3. w.n \in Nat /\ r.n \in Nat
  BY <1>2, WorldCounts
<1>4. r.n = w.n \/ r.n = w.n - 1
  BY <1>1
<1>5. QED
  BY <1>1, <1>2, <1>3, <1>4 DEF r

LEMMA Delete_deadGood ==
    ASSUME NEW w, Good(w)
    PROVE  Good(Delete_dead(w))
<1> DEFINE N == w.n
           I == StillGood(N)
           seq == Downwards(w)
           res == FoldOver(VisitDead, w, seq)
<1>1. /\ w \in Worlds /\ N \in Nat /\ Len(seq) = N
      /\ \A k \in 1 .. N : seq[k] = N + 1 - k
  BY DownwardsIs DEF Good
<1>2. Delete_dead(w) = res
  BY DEF Delete_dead, VisitDead
<1> HIDE DEF N, I, seq, res
<1>3. /\ I \in [0 .. N -> SUBSET Worlds]
      /\ \A k \in 0 .. N : \A v : v \in I[k] <=> v \in Worlds /\ Good(v) /\ v.n >= N - k
      /\ \A k \in 1 .. N : \A v \in I[k - 1] :
            v \in Worlds /\ Good(v) /\ v.n >= N - k /\ N + 1 - k \in 1 .. v.n
  BY <1>1, StillGoodIs DEF I
<1>4. 0 \in 0 .. N /\ N \in 0 .. N
  BY <1>1
<1>5. w \in I[0]
  BY <1>1, <1>3, <1>4 DEF N
<1>6. ASSUME NEW k \in 1 .. N, NEW v \in I[k - 1]
      PROVE  VisitDead(v, seq[k]) \in I[k]
  <2> DEFINE i == N + 1 - k
             x == Delete_shot(v, i)
  <2>1. v \in Worlds /\ Good(v) /\ v.n >= N - k /\ i \in 1 .. v.n
    BY <1>3
  <2>2. seq[k] = i /\ k \in 0 .. N
    BY <1>1
  <2>3. x \in Worlds /\ Good(x) /\ x.n \in Nat /\ v.n \in Nat /\ x.n >= v.n - 1
    BY <2>1, OneLess
  <2>4. x.n >= N - k
    <3> HIDE DEF x
    <3>1. v.n >= N + 1 - k
      BY <1>1, <2>1, <2>3
    <3>2. QED
      BY <1>1, <2>3, <3>1
  <2> HIDE DEF x, i
  <2>5. v \in I[k] /\ x \in I[k]
    BY <1>3, <2>1, <2>2, <2>3, <2>4
  <2>6. QED
    BY <2>2, <2>5 DEF VisitDead, x
<1>7. res \in I[N]
  BY <1>1, <1>3, <1>5, <1>6, DeadFold DEF res
<1>8. QED
  BY <1>2, <1>3, <1>4, <1>7

(* Cmd_reset deletes every object. *)
LEMMA ClearedGood ==
    ASSUME NEW w, Good(w)
    PROVE  Good(FoldOver(VisitAny, w, Downwards(w)))
<1> DEFINE N == w.n
           I == StillGood(N)
           seq == Downwards(w)
           res == FoldOver(VisitAny, w, seq)
<1>1. /\ w \in Worlds /\ N \in Nat /\ Len(seq) = N
      /\ \A k \in 1 .. N : seq[k] = N + 1 - k
  BY DownwardsIs DEF Good
<1> HIDE DEF N, I, seq
<1>3. /\ I \in [0 .. N -> SUBSET Worlds]
      /\ \A k \in 0 .. N : \A v : v \in I[k] <=> v \in Worlds /\ Good(v) /\ v.n >= N - k
      /\ \A k \in 1 .. N : \A v \in I[k - 1] :
            v \in Worlds /\ Good(v) /\ v.n >= N - k /\ N + 1 - k \in 1 .. v.n
  BY <1>1, StillGoodIs DEF I
<1>4. 0 \in 0 .. N /\ N \in 0 .. N
  BY <1>1
<1>5. w \in I[0]
  BY <1>1, <1>3, <1>4 DEF N
<1>6. ASSUME NEW k \in 1 .. N, NEW v \in I[k - 1]
      PROVE  VisitAny(v, seq[k]) \in I[k]
  <2> DEFINE i == N + 1 - k
             s == v.Obj[i]
             u == [v EXCEPT !.ball[s].life = 0]
             x == Delete_shot(u, i)
  <2>1. v \in Worlds /\ Good(v) /\ v.n >= N - k /\ i \in 1 .. v.n
    BY <1>3
  <2>2. seq[k] = i /\ k \in 0 .. N
    BY <1>1
  <2> HIDE DEF i
  <2>3. s \in Slot /\ InUse(v, s)
    BY <2>1, BallOfIndex
  <2>4. VisitAny(v, i) = x
    BY DEF VisitAny
  <2> HIDE DEF s, x
  <2>5. Good(u) /\ u.n = v.n
    BY <2>1, <2>3, LifeGood DEF BallSet
  <2> HIDE DEF u
  <2>6. x \in Worlds /\ Good(x) /\ x.n \in Nat /\ v.n \in Nat /\ x.n >= v.n - 1
    BY <2>1, <2>5, OneLess DEF x
  <2>7. x.n >= N - k
    <3>1. v.n >= N + 1 - k
      BY <1>1, <2>1, <2>6 DEF i
    <3>2. QED
      BY <1>1, <2>6, <3>1
  <2>8. x \in I[k]
    BY <1>3, <2>2, <2>6, <2>7
  <2>9. QED
    BY <2>2, <2>4, <2>8
<1>7. res \in I[N]
  BY <1>1, <1>3, <1>5, <1>6, AnyFold
<1> HIDE DEF res
<1>8. Good(res)
  BY <1>3, <1>4, <1>7
<1>9. QED
  BY <1>8 DEF res, seq

-----------------------------------------------------------------------------
(* Delete_player.                                                          *)

(* The objects from index i on have nothing to do with player p.           *)
Rid(w, p, i) ==
    \A j \in i .. w.n : w.ball[w.Obj[j]].id # p /\ w.ball[w.Obj[j]].owner # p

LEMMA RidOfDeleted ==
    ASSUME NEW w, Good(w), NEW p \in Player, NEW i \in 1 .. w.n, Rid(w, p, i + 1),
           w.ball[w.Obj[i]].treasure # 0
    PROVE  Rid(Delete_shot(w, i), p, i)
<1> DEFINE r == Delete_shot(w, i)
           s == w.Obj[i]
           b == w.ball[s]
           f == w.Obj
           n == w.n
<1>1. Deleted(w, i, s, b, r)
  BY Delete_shotGood
<1>2. /\ w \in Worlds /\ s \in Slot /\ i \in 1 .. Cap /\ n \in 1 .. Cap
  BY BallOfIndex DEF Good
<1>3. f \in [1 .. Cap -> Slot] /\ Apart(f)
  BY <1>2, WorldFields DEF Good, Placed, Apart
<1> HIDE DEF r
<1>4. r.Obj = Swapped(f, i, n)
  BY <1>1 DEF Deleted
<1>5. r \in Worlds /\ n \in Nat /\ r.n \in Nat /\ Cap \in Nat
  BY <1>1, <1>2, WorldCounts DEF Deleted
<1>6. i \in 1 .. n /\ s = f[i] /\ Rid(w, p, i + 1)
  OBVIOUS
<1>61. \A j \in i + 1 .. n : w.ball[f[j]].id # p /\ w.ball[f[j]].owner # p
  BY DEF Rid
<1> HIDE DEF s, b, f, n
<1>7. /\ r.Obj[n] = s
      /\ i # n => r.Obj[i] = f[n]
      /\ \A j \in 1 .. Cap : j # i /\ j # n => r.Obj[j] = f[j]
  BY <1>2, <1>3, <1>4, <1>6, SwappedIs
<1>8. \A u \in Slot \ {s} : r.ball[u] = w.ball[u]
  BY <1>1 DEF Deleted
<1>9. \/ r.n = n /\ r.ball[s].id = NoId /\ r.ball[s].owner = NoId
      \/ r.n = n - 1
  BY <1>1, FreshIs DEF Deleted, n
<1>10. NoId # p
  BY Names
<1>11. ASSUME NEW j \in i .. r.n PROVE r.ball[r.Obj[j]].id # p /\ r.ball[r.Obj[j]].owner # p
  <2>1. j \in 1 .. n /\ j \in 1 .. Cap
    BY <1>2, <1>5, <1>9
  <2>2. CASE j = n
    <3>1. r.n = n
      BY <1>2, <1>5, <1>9, <2>2
    <3>2. r.ball[s].id = NoId /\ r.ball[s].owner = NoId
      BY <1>5, <1>9, <3>1
    <3>3. QED
      BY <1>7, <1>10, <2>2, <3>2
  <2>3. CASE j = i /\ j # n
    <3>1. n \in i + 1 .. n /\ r.Obj[j] = f[n]
      BY <1>2, <1>5, <1>6, <1>7, <2>3
    <3>2. f[n] # s /\ f[n] \in Slot
      BY <1>2, <1>3, <1>6, <2>3 DEF Apart
    <3>3. QED
      BY <1>8, <1>61, <3>1, <3>2
  <2>4. CASE j # i /\ j # n
    <3>1. j \in i + 1 .. n /\ r.Obj[j] = f[j]
      BY <1>2, <1>5, <1>7, <2>1, <2>4
    <3>2. f[j] # s /\ f[j] \in Slot
      BY <1>2, <1>3, <1>6, <2>1, <2>4 DEF Apart
    <3>3. QED
      BY <1>8, <1>61, <3>1, <3>2
  <2>5. QED
    BY <2>2, <2>3, <2>4
<1>12. QED
  BY <1>11 DEF Rid, r

LEMMA DisownedGood ==
    ASSUME NEW w, Good(w), NEW s \in Slot, w.ball[s].treasure # 0, w.ball[s].owner # NoId
    PROVE  LET r == [w EXCEPT !.ball[s].owner = NoId]
           IN  Good(r) /\ BallSet(w, s, [w.ball[s] EXCEPT !.owner = NoId], r)
<1> DEFINE b == w.ball[s]
           c == [b EXCEPT !.owner = NoId]
<1>1. w \in Worlds
  BY DEF Good
<1>2. b \in Object
  BY <1>1, BallFields
<1>3. [w EXCEPT !.ball[s].owner = NoId] = [w EXCEPT !.ball[s] = c]
  BY <1>1 DEF Worlds
<1>4. b.treasure # 0 /\ b = w.ball[s]
  OBVIOUS
<1> HIDE DEF b
<1>5. /\ c \in Object /\ c.treasure = b.treasure /\ c.id = b.id /\ c.gravity = b.gravity
      /\ c.recreate = b.recreate /\ c.owner = NoId
  BY <1>2 DEF Object
<1> HIDE DEF c
<1>6. Good([w EXCEPT !.ball[s] = c]) /\ BallSet(w, s, c, [w EXCEPT !.ball[s] = c])
  BY <1>4, <1>5, BallGood
<1>7. QED
  BY <1>3, <1>6 DEF b, c

(* Nobody is connected to an object that is no ball. *)
LEMMA UnheldGood ==
    ASSUME NEW w, Good(w), NEW s \in Slot, w.ball[s].treasure = 0, InUse(w, s)
    PROVE  LET r == [w EXCEPT !.ball[s].id = NoId]
           IN  Good(r) /\ BallSet(w, s, [w.ball[s] EXCEPT !.id = NoId], r)
<1> DEFINE b == w.ball[s]
           c == [b EXCEPT !.id = NoId]
<1>1. w \in Worlds
  BY DEF Good
<1>2. b \in Object /\ b.owner = NoId /\ b.treasure = 0
  BY <1>1, BallFields DEF Good, Placed
<1>3. [w EXCEPT !.ball[s].id = NoId] = [w EXCEPT !.ball[s] = c]
  BY <1>1 DEF Worlds
<1>4. b = w.ball[s]
  OBVIOUS
<1> HIDE DEF b
<1>5. c \in Object /\ c.treasure = 0 /\ c.owner = NoId
  BY <1>2 DEF Object
<1> HIDE DEF c
<1>6. Good([w EXCEPT !.ball[s] = c]) /\ BallSet(w, s, c, [w EXCEPT !.ball[s] = c])
  BY <1>4, <1>5, OtherGood
<1>7. QED
  BY <1>3, <1>6 DEF b, c

LEMMA VisitOfGood ==
    ASSUME NEW w, Good(w), NEW p \in Player, NEW i \in 1 .. w.n, Rid(w, p, i + 1)
    PROVE  LET r == VisitOf(p, w, i)
           IN  Good(r) /\ r.n >= w.n - 1 /\ Rid(r, p, i)
<1> DEFINE s == w.Obj[i]
           r == VisitOf(p, w, i)
           x == Delete_shot(w, i)
           y == [w EXCEPT !.ball[s].owner = NoId]
           z == [w EXCEPT !.ball[s].id = NoId]
<1>1. /\ w \in Worlds /\ s \in Slot /\ i \in 1 .. Cap /\ w.n \in 1 .. Cap /\ Cap \in Nat
      /\ InUse(w, s)
  BY BallOfIndex, Bounds DEF Good
<1>2. r = IF w.ball[s].id = p /\ w.ball[s].treasure # 0 THEN x
          ELSE IF w.ball[s].id = p THEN z
          ELSE IF w.ball[s].owner = p THEN y ELSE w
  BY DEF VisitOf
<1>3. s = w.Obj[i] /\ i \in 1 .. w.n
  OBVIOUS
<1>4. NoId # p
  BY Names
<1> HIDE DEF r, s
<1>9. ASSUME NEW v, BallSet(w, s, v.ball[s], v), v.ball[s].id # p, v.ball[s].owner # p
      PROVE  v.n >= w.n - 1 /\ Rid(v, p, i)
  <2>4. v.Obj = w.Obj /\ v.n = w.n /\ \A u \in Slot \ {s} : v.ball[u] = w.ball[u]
    BY <1>9 DEF BallSet
  <2>5. \A j \in 1 .. w.n : w.Obj[j] \in Slot
    BY BallOfIndex
  <2>6. ASSUME NEW j \in i .. w.n
        PROVE  v.ball[w.Obj[j]].id # p /\ v.ball[w.Obj[j]].owner # p
    <3>1. CASE j = i
      BY <1>3, <1>9, <3>1
    <3>2. CASE j # i /\ w.Obj[j] = s
      BY <1>9, <3>2
    <3>3. CASE j # i /\ w.Obj[j] # s
      <4>1. j \in i + 1 .. w.n /\ j \in 1 .. w.n
        BY <1>1, <3>3
      <4>2. w.Obj[j] \in Slot \ {s}
        BY <2>5, <3>3, <4>1
      <4>3. QED
        BY <2>4, <4>1, <4>2 DEF Rid
    <3>4. QED
      BY <3>1, <3>2, <3>3
  <2>7. Rid(v, p, i)
    BY <2>4, <2>6 DEF Rid
  <2>8. v.n >= w.n - 1
    BY <1>1, <2>4
  <2>9. QED
    BY <2>7, <2>8
<1>5. CASE w.ball[s].id = p /\ w.ball[s].treasure # 0
  <2>1. Good(x) /\ x.n >= w.n - 1
    BY OneLess
  <2>2. Rid(x, p, i)
    BY <1>3, <1>5, RidOfDeleted
  <2>3. QED
    BY <1>2, <1>5, <2>1, <2>2 DEF r
<1>10. CASE w.ball[s].id = p /\ w.ball[s].treasure = 0
  <2>1. Good(z) /\ BallSet(w, s, [w.ball[s] EXCEPT !.id = NoId], z)
    BY <1>1, <1>10, UnheldGood
  <2> HIDE DEF z
  <2>2. \A b \in Object : [b EXCEPT !.id = NoId].id = NoId
                          /\ [b EXCEPT !.id = NoId].owner = b.owner
    BY DEF Object
  <2>3. z.ball[s].id # p /\ z.ball[s].owner # p
    <3>1. w.ball[s].owner = NoId /\ w.ball[s] \in Object
      BY <1>1, <1>10, BallFields DEF Good, Placed
    <3>2. QED
      BY <1>4, <2>1, <2>2, <3>1 DEF BallSet
  <2>4. BallSet(w, s, z.ball[s], z)
    BY <2>1 DEF BallSet
  <2>5. z.n >= w.n - 1 /\ Rid(z, p, i)
    BY <1>9, <2>3, <2>4
  <2>6. QED
    BY <1>2, <1>10, <2>1, <2>5 DEF r
<1>6. CASE w.ball[s].id # p /\ w.ball[s].owner = p
  <2>1. Good(y) /\ BallSet(w, s, [w.ball[s] EXCEPT !.owner = NoId], y)
    <3>1. w.ball[s].treasure # 0
      BY <1>1, <1>4, <1>6 DEF Good, Placed
    <3>2. QED
      BY <1>1, <1>4, <1>6, <3>1, DisownedGood
  <2> HIDE DEF y
  <2>2. \A b \in Object : [b EXCEPT !.owner = NoId].id = b.id
                          /\ [b EXCEPT !.owner = NoId].owner = NoId
    BY DEF Object
  <2>3. y.ball[s].id # p /\ y.ball[s].owner # p
    BY <1>1, <1>4, <1>6, <2>1, <2>2, BallFields DEF BallSet
  <2>4. BallSet(w, s, y.ball[s], y)
    BY <2>1 DEF BallSet
  <2>5. y.n >= w.n - 1 /\ Rid(y, p, i)
    BY <1>9, <2>3, <2>4
  <2>6. QED
    BY <1>2, <1>6, <2>1, <2>5 DEF r
<1>7. CASE w.ball[s].id # p /\ w.ball[s].owner # p
  <2>1. Rid(w, p, i)
    <3>1. ASSUME NEW j \in i .. w.n
          PROVE  w.ball[w.Obj[j]].id # p /\ w.ball[w.Obj[j]].owner # p
      <4>1. CASE j = i
        BY <1>3, <1>7, <4>1
      <4>2. CASE j # i
        <5>1. j \in i + 1 .. w.n
          BY <1>1, <4>2
        <5>2. QED
          BY <5>1 DEF Rid
      <4>3. QED
        BY <4>1, <4>2
    <3>2. QED
      BY <3>1 DEF Rid
  <2>2. w.n >= w.n - 1
    BY <1>1
  <2>3. QED
    BY <1>2, <1>7, <2>1, <2>2 DEF r
<1>8. QED
  BY <1>5, <1>6, <1>7, <1>10

(* Who holds no ball does not have one. *)
LEMMA LeftGood ==
    ASSUME NEW w, Good(w), NEW p \in Player, ~Holds(w, p)
    PROVE  LET r == [w EXCEPT !.hasBall = w.hasBall \ {p}]
           IN  /\ Good(r) /\ r.hasBall = w.hasBall \ {p} /\ r.state = w.state
               /\ r.ball = w.ball /\ r.ptr = w.ptr
<1> DEFINE h == w.hasBall \ {p}
           r == [w EXCEPT !.hasBall = h]
<1>1. w \in Worlds
  BY DEF Good
<1>2. h \in SUBSET Player
  BY <1>1, WorldFields
<1>3. h = w.hasBall \ {p}
  OBVIOUS
<1> HIDE DEF h
<1>4. /\ r \in Worlds /\ r.hasBall = h
      /\ r.state = w.state /\ r.ptr = w.ptr /\ r.ball = w.ball /\ r.Obj = w.Obj
      /\ r.n = w.n /\ r.have = w.have /\ r.destroyed = w.destroyed /\ r.left = w.left
      /\ r.strayed = w.strayed /\ r.robbed = w.robbed
  BY <1>1, <1>2 DEF Worlds
<1> HIDE DEF r
<1>5. KeepsPlaces(w, r)
  BY <1>4 DEF KeepsPlaces
<1>6. Placed(r) /\ OneEach(r) /\ Roomy(r)
  BY <1>5, PlacesKept DEF Good
<1>7. Lost(r)
  BY <1>4 DEF Good, Lost
<1>8. Had(r)
  BY <1>1, <1>4, <1>5, HadKept DEF Good
<1>9. Carried(r)
  BY <1>3, <1>4 DEF Good, Carried, Holds
<1>10. Playing(r) /\ OwnersPresent(r) /\ Counted(r)
  BY <1>3, <1>4 DEF Good, Playing, OwnersPresent, Counted
<1>11. Good(r)
  BY <1>4, <1>6, <1>7, <1>8, <1>9, <1>10 DEF Good
<1>12. QED
  BY <1>3, <1>4, <1>11 DEF r, h

LEMMA Delete_playerGood ==
    ASSUME NEW w, Good(w), NEW p \in Player
    PROVE  Good(Delete_player(w, p))
<1> DEFINE N == w.n
           I == [k \in 0 .. N |-> {v \in Worlds : Good(v) /\ v.n >= N - k /\ Rid(v, p, N + 1 - k)}]
           seq == Downwards(w)
           d == VisitOfAll(p, w, seq)
           r == [d EXCEPT !.state[p] = "none", !.ptr[p] = Null, !.hasBall = @ \ {p}]
<1>1. /\ w \in Worlds /\ N \in Nat /\ Len(seq) = N
      /\ \A k \in 1 .. N : seq[k] = N + 1 - k
  BY DownwardsIs DEF Good
<1>2. Delete_player(w, p) = r
  BY DEF Delete_player, VisitOf, VisitOfAll
<1> HIDE DEF N, seq
<1>3. I \in [0 .. N -> SUBSET Worlds]
  OBVIOUS
<1>4. \A k \in 0 .. N : \A v :
         v \in I[k] <=> v \in Worlds /\ Good(v) /\ v.n >= N - k /\ Rid(v, p, N + 1 - k)
  OBVIOUS
<1> HIDE DEF I
<1>5. 0 \in 0 .. N /\ N \in 0 .. N
  BY <1>1
<1>6. w \in I[0]
  <2>1. w.n >= N - 0
    BY <1>1 DEF N
  <2>2. Rid(w, p, N + 1 - 0)
    BY <1>1 DEF N, Rid
  <2>3. QED
    BY <1>1, <1>4, <1>5, <2>1, <2>2
<1>7. ASSUME NEW k \in 1 .. N, NEW v \in I[k - 1]
      PROVE  VisitOf(p, v, seq[k]) \in I[k]
  <2> DEFINE i == N + 1 - k
             x == VisitOf(p, v, i)
  <2>1. k - 1 \in 0 .. N /\ k \in 0 .. N /\ seq[k] = i /\ N + 1 - (k - 1) = i + 1
    BY <1>1
  <2>2. v \in Worlds /\ Good(v) /\ v.n >= N - (k - 1) /\ Rid(v, p, i + 1)
    BY <1>4, <2>1
  <2>3. v.n \in Nat
    BY <2>2, WorldCounts
  <2>4. i \in 1 .. v.n
    BY <1>1, <2>2, <2>3
  <2> HIDE DEF i
  <2>5. Good(x) /\ x.n >= v.n - 1 /\ Rid(x, p, i)
    BY <2>2, <2>4, VisitOfGood
  <2> HIDE DEF x
  <2>6. x \in Worlds
    BY <2>5 DEF Good
  <2>7. x.n \in Nat
    BY <2>6, WorldCounts
  <2>8. x.n >= N - k
    BY <1>1, <2>2, <2>3, <2>5, <2>7
  <2>9. x \in I[k]
    BY <1>4, <2>1, <2>5, <2>6, <2>8 DEF i
  <2>10. QED
    BY <2>1, <2>9 DEF x
<1>8. d \in I[N]
  BY <1>1, <1>3, <1>6, <1>7, OfFold
<1> HIDE DEF d
<1>9. d \in Worlds /\ Good(d) /\ Rid(d, p, 1)
  <2>1. N + 1 - N = 1
    BY <1>1
  <2>2. QED
    BY <1>4, <1>5, <1>8, <2>1
<1>10. \A s \in Slot : d.ball[s].id # p /\ d.ball[s].owner # p
  <2>1. NoId # p
    BY Names
  <2>2. ASSUME NEW s \in Slot PROVE d.ball[s].id # p /\ d.ball[s].owner # p
    <3>1. CASE ~InUse(d, s)
      <4>1. d.ball[s] = Gone
        BY <1>9, <3>1 DEF Good, Placed
      <4>2. QED
        BY <2>1, <4>1, GoneIs
    <3>2. CASE InUse(d, s)
      <4>1. PICK j \in 1 .. d.n : d.Obj[j] = s
        BY <3>2 DEF InUse
      <4>2. QED
        BY <1>9, <4>1 DEF Rid
    <3>3. QED
      BY <3>1, <3>2
  <2>3. QED
    BY <2>2
<1> DEFINE e == [d EXCEPT !.hasBall = d.hasBall \ {p}]
<1>11. /\ Good(e) /\ e.hasBall = d.hasBall \ {p} /\ e.state = d.state
       /\ e.ball = d.ball /\ e.ptr = d.ptr
  <2>1. ~Holds(d, p)
    BY <1>10 DEF Holds
  <2>2. QED
    BY <1>9, <2>1, LeftGood
<1>12. Good(r)
  <2> DEFINE st == [e.state EXCEPT ![p] = "none"]
             q == [e.ptr EXCEPT ![p] = Null]
  <2>1. r = [e EXCEPT !.state = st, !.ptr = q]
    <3>1. r = [d EXCEPT !.state = [d.state EXCEPT ![p] = "none"],
                        !.ptr = [d.ptr EXCEPT ![p] = Null],
                        !.hasBall = d.hasBall \ {p}]
      BY <1>9 DEF Worlds
    <3> HIDE DEF r
    <3>2. QED
      BY <1>9, <1>11, <3>1 DEF Worlds
  <2>2. e \in Worlds
    BY <1>11 DEF Good
  <2> HIDE DEF r, e
  <2>3. /\ st \in [Player -> States] /\ \A x \in Player \ {p} : st[x] = e.state[x]
        /\ q \in [Player -> Slot \cup {Null}]
    BY <2>2, WorldFields DEF States
  <2> HIDE DEF st, q
  <2>4. /\ r \in Worlds /\ r.state = st /\ r.hasBall = e.hasBall
        /\ r.ball = e.ball /\ r.Obj = e.Obj /\ r.n = e.n /\ r.have = e.have
        /\ r.destroyed = e.destroyed /\ r.left = e.left
        /\ r.strayed = e.strayed /\ r.robbed = e.robbed
    BY <2>1, <2>2, <2>3 DEF Worlds
  <2>5. KeepsPlaces(e, r) /\ Kept(e, r)
    BY <2>4 DEF KeepsPlaces, Kept
  <2>6. Playing(r)
    <3>1. e.hasBall \subseteq Player
      BY <2>2, WorldFields
    <3>2. QED
      BY <1>11, <2>3, <2>4, <3>1 DEF Good, Playing
  <2>7. OwnersPresent(r)
    <3>1. \A s \in Slot : e.ball[s].owner \in Player \cup {NoId}
      BY <2>2, BallFields
    <3>2. QED
      BY <1>10, <1>11, <2>3, <2>4, <3>1 DEF Good, OwnersPresent
  <2>8. QED
    BY <1>11, <2>4, <2>5, <2>6, <2>7, ChangeGood
<1>13. QED
  BY <1>2, <1>12

-----------------------------------------------------------------------------
(* Sets in any order.                                                      *)

LEMMA SetToSeqIs ==
    ASSUME NEW S, IsFiniteSet(S)
    PROVE  /\ Len(SetToSeq(S)) \in Nat
           /\ \A k \in 1 .. Len(SetToSeq(S)) : SetToSeq(S)[k] \in S
<1> DEFINE N == Cardinality(S)
           f == SetToSeq(S)
<1>1. N \in Nat /\ ExistsBijection(1 .. N, S)
  BY FS_CardinalityType
<1> HIDE DEF N
<1>2. PICK g : g \in [1 .. N -> S] /\ IsInjective(g)
  BY <1>1 DEF ExistsBijection, Bijection, Injection
<1>3. f \in [1 .. N -> S]
  BY <1>2 DEF SetToSeq, N
<1> HIDE DEF f
<1>4. Len(f) = N
  BY <1>1, <1>3
<1>5. QED
  BY <1>1, <1>3, <1>4 DEF f

(* Some of the balls of p come loose. *)
LEMMA LooseGood ==
    ASSUME NEW w, Good(w), NEW p \in Player, NEW S \in SUBSET Slot
    PROVE  Good(VisitLooseAll(p, w, SetToSeq(S)))
<1> DEFINE seq == SetToSeq(S)
           N == Len(seq)
           I == [k \in 0 .. N |-> {v \in Worlds : Good(v)}]
           res == VisitLooseAll(p, w, seq)
<1>1. IsFiniteSet(S)
  BY Sizes, FS_Subset
<1>2. N \in Nat /\ \A k \in 1 .. N : seq[k] \in S
  BY <1>1, SetToSeqIs
<1> HIDE DEF seq
<1>3. N = Len(seq)
  OBVIOUS
<1> HIDE DEF N
<1>4. /\ I \in [0 .. N -> SUBSET Worlds]
      /\ \A k \in 0 .. N : \A v : v \in I[k] <=> v \in Worlds /\ Good(v)
  OBVIOUS
<1> HIDE DEF I, res
<1>5. 0 \in 0 .. N /\ N \in 0 .. N /\ \A k \in 1 .. N : k - 1 \in 0 .. N /\ k \in 0 .. N
  BY <1>2
<1>6. w \in I[0]
  BY <1>4, <1>5 DEF Good
<1>7. ASSUME NEW k \in 1 .. N, NEW v \in I[k - 1]
      PROVE  VisitLoose(p, v, seq[k]) \in I[k]
  <2> DEFINE s == seq[k]
             x == Detach_ball(v, p, {s})
  <2>1. Good(v) /\ {s} \in SUBSET Slot
    BY <1>2, <1>4, <1>5
  <2> HIDE DEF s
  <2>2. Good(x)
    BY <2>1, Detach_ballGood
  <2> HIDE DEF x
  <2>3. x \in I[k]
    BY <1>4, <1>5, <2>2 DEF Good
  <2>4. QED
    BY <2>3 DEF x, s, VisitLoose
<1>8. res \in I[N]
  BY <1>2, <1>3, <1>4, <1>6, <1>7, LooseFold DEF res
<1>9. QED
  BY <1>4, <1>5, <1>8 DEF res, seq

-----------------------------------------------------------------------------
(* Reset_all_players.                                                      *)

(* Everybody is killed, or nobody. *)
LEMMA KilledGood ==
    ASSUME NEW w, Good(w), NEW S \in SUBSET Player
    PROVE  Good(FoldOver(VisitKilled, w, SetToSeq(S)))
<1> DEFINE seq == SetToSeq(S)
           N == Len(seq)
           I == [k \in 0 .. N |-> {v \in Worlds : Good(v)}]
           res == FoldOver(VisitKilled, w, seq)
<1>1. IsFiniteSet(S)
  BY Sizes, FS_Subset
<1>2. N \in Nat /\ \A k \in 1 .. N : seq[k] \in S
  BY <1>1, SetToSeqIs
<1> HIDE DEF seq
<1>3. N = Len(seq)
  OBVIOUS
<1> HIDE DEF N
<1>4. /\ I \in [0 .. N -> SUBSET Worlds]
      /\ \A k \in 0 .. N : \A v : v \in I[k] <=> v \in Worlds /\ Good(v)
  OBVIOUS
<1> HIDE DEF I, res
<1>5. 0 \in 0 .. N /\ N \in 0 .. N /\ \A k \in 1 .. N : k - 1 \in 0 .. N /\ k \in 0 .. N
  BY <1>2
<1>6. w \in I[0]
  BY <1>4, <1>5 DEF Good
<1>7. ASSUME NEW k \in 1 .. N, NEW v \in I[k - 1]
      PROVE  VisitKilled(v, seq[k]) \in I[k]
  <2> DEFINE p == seq[k]
             x == Kill_player(v, p, "alive")
  <2>1. Good(v) /\ p \in Player /\ v \in I[k]
    BY <1>2, <1>4, <1>5
  <2> HIDE DEF p
  <2>2. Good(x)
    BY <2>1, Kill_playerGood
  <2> HIDE DEF x
  <2>3. x \in I[k]
    BY <1>4, <1>5, <2>2 DEF Good
  <2>4. QED
    BY <2>1, <2>3 DEF x, p, VisitKilled
<1>8. res \in I[N]
  BY <1>2, <1>3, <1>4, <1>6, <1>7, KilledFold DEF res
<1>9. QED
  BY <1>4, <1>5, <1>8 DEF res, seq

(* No balls are left but among the first m objects, and nobody has any. *)
Swept(w, m) ==
    /\ w \in Worlds /\ Placed(w) /\ Roomy(w) /\ w.hasBall = {} /\ m <= w.n
    /\ \A j \in m + 1 .. w.n : w.ball[w.Obj[j]].treasure = 0

LEMMA UnmakeSwept ==
    ASSUME NEW w, NEW m \in 1 .. Cap, Swept(w, m), w.ball[w.Obj[m]].treasure # 0
    PROVE  Swept(Unmake(w, m), m - 1)
<1> DEFINE s == w.Obj[m]
           b == [w.ball[s] EXCEPT !.id = NoId, !.life = 0, !.owner = "0", !.recreate = FALSE]
           t == b.treasure
           u == [w EXCEPT !.ball[s] = b]
           s0 == u.Obj[m]
           b0 == u.ball[s0]
           q == [p \in Player |-> IF w.ptr[p] = s0 THEN Null ELSE w.ptr[p]]
           w1 == [u EXCEPT !.ptr = [p \in Player |-> IF @[p] = s0 THEN Null ELSE @[p]]]
           w2 == [w1 EXCEPT !.have[b0.treasure] = @ /\ b0.owner # NoId]
           r == Object_free_ind(w2, m)
           Wide == [state : [Player -> States], hasBall : SUBSET Player,
                    ptr : [Player -> Slot \cup {Null}], ball : [Slot -> Object \cup {b}],
                    Obj : [1 .. Cap -> Slot], n : 0 .. Cap,
                    have : [Treasure -> BOOLEAN], destroyed : [Treasure -> Nat],
                    left : [Team -> Int], won : [Team -> Nat],
                    strayed : SUBSET Player, robbed : SUBSET Treasure]
<1>1. /\ w \in Worlds /\ w.hasBall = {} /\ m \in 1 .. w.n /\ Cap \in Nat
      /\ w.n \in 1 .. Cap
  BY Bounds, WorldCounts DEF Swept
<1>2. s \in Slot /\ w.ball[s] \in Object
  BY <1>1, WorldFields
<1>3. w.ball[s].treasure # 0
  OBVIOUS
<1>4. /\ b.treasure = w.ball[s].treasure /\ b.id = NoId /\ b.owner = "0" /\ b.recreate = FALSE
  BY <1>2 DEF Object
<1>5. b.owner # NoId
  BY <1>4 DEF NoId
<1>6. t \in Treasure
  BY <1>1, <1>2, <1>3, <1>4, BallFields
<1>7. Unmake(w, m) = Delete_shot(u, m)
  BY <1>3, <1>4 DEF Unmake
<1>8. s = w.Obj[m]
  OBVIOUS
<1>81. t = b.treasure
  OBVIOUS
<1> HIDE DEF s, t
<1> DEFINE B == [w.ball EXCEPT ![s] = b]
<1>9. B \in [Slot -> Object \cup {b}] /\ B[s] = b /\ \A x \in Slot \ {s} : B[x] = w.ball[x]
  BY <1>1, <1>2, WorldFields
<1>10. u = [w EXCEPT !.ball = B]
  BY <1>1 DEF Worlds
<1> HIDE DEF b, B, u
<1>11. /\ u \in Wide /\ u.ball = B /\ u.ptr = w.ptr /\ u.Obj = w.Obj /\ u.n = w.n
       /\ u.hasBall = w.hasBall /\ u.have = w.have
  BY <1>1, <1>9, <1>10 DEF Worlds
<1>111. s0 = s /\ b0 = b
  BY <1>8, <1>9, <1>11
<1>12. Delete_shot(u, m) = r
  <2>1. b0.id = NoId /\ b0.owner # NoId /\ ~b0.recreate /\ b0.treasure # 0
    BY <1>3, <1>4, <1>5, <1>111
  <2>2. QED
    BY <2>1 DEF Delete_shot
<1>13. w1 = [u EXCEPT !.ptr = q]
  BY <1>11
<1>14. q \in [Player -> Slot \cup {Null}]
  BY <1>1, WorldFields
<1> HIDE DEF q, w1, s0, b0
<1>15. /\ w1 \in Wide /\ w1.ball = B /\ w1.Obj = w.Obj /\ w1.n = w.n
       /\ w1.hasBall = w.hasBall /\ w1.have = w.have
  BY <1>11, <1>13, <1>14
<1>16. w2 = w1
  <2> DEFINE hv == [w.have EXCEPT ![b0.treasure] = @ /\ b0.owner # NoId]
  <2>1. hv = w.have
    BY <1>1, <1>5, <1>6, <1>81, <1>111, WorldFields
  <2>2. w2 = [w1 EXCEPT !.have = hv]
    BY <1>15
  <2> HIDE DEF hv, w2
  <2>3. w2 = [w1 EXCEPT !.have = w1.have]
    BY <1>15, <2>1, <2>2
  <2>4. QED
    BY <1>15, <2>3
<1> HIDE DEF w2
<1> DEFINE C == [B EXCEPT ![s] = Gone]
           o == [w.Obj EXCEPT ![m] = w.Obj[w.n], ![w.n] = w.Obj[m]]
<1>17. C \in [Slot -> Object] /\ C[s] = Gone /\ \A x \in Slot \ {s} : C[x] = w.ball[x]
  <2>1. \A x \in Slot : w.ball[x] \in Object
    BY <1>1, BallFields
  <2>2. C[s] = Gone /\ \A x \in Slot \ {s} : C[x] = w.ball[x]
    BY <1>2, <1>9
  <2>3. C \in [Slot -> Object]
    BY <1>2, <1>9, <2>1, <2>2, GoneIs
  <2>4. QED
    BY <2>2, <2>3
<1>18. o = Swapped(w.Obj, m, w.n) /\ o \in [1 .. Cap -> Slot]
  <2>1. w.Obj \in [1 .. Cap -> Slot] /\ Apart(w.Obj)
    BY <1>1, WorldFields DEF Swept, Placed, Apart
  <2>2. o = Swapped(w.Obj, m, w.n)
    BY DEF Swapped
  <2>3. QED
    BY <1>1, <2>1, <2>2, SwappedIs
<1> HIDE DEF C, o
<1>19. r = [w1 EXCEPT !.ball = C, !.n = w.n - 1, !.Obj = o]
  <2>1. r = [w1 EXCEPT !.ball[w.Obj[m]] = Gone, !.n = @ - 1,
                       !.Obj[m] = w.Obj[w.n], !.Obj[w.n] = w.Obj[m]]
    BY <1>15, <1>16 DEF Object_free_ind
  <2> HIDE DEF r
  <2>2. QED
    BY <1>8, <1>15, <2>1 DEF C, o
<1>20. w.n - 1 \in 0 .. Cap
  BY <1>1
<1> HIDE DEF r
<1>21. /\ r \in Worlds /\ r.ball = C /\ r.n = w.n - 1 /\ r.Obj = Swapped(w.Obj, m, w.n)
       /\ r.hasBall = w.hasBall
  BY <1>15, <1>17, <1>18, <1>19, <1>20 DEF Worlds
<1>22. /\ \A j, k \in 1 .. Cap : r.Obj[j] = r.Obj[k] => j = k
       /\ \A x \in Slot : InUse(r, x) <=> InUse(w, x) /\ x # s
  BY <1>1, <1>8, <1>21, UsesAfter DEF Swept
<1>23. /\ r.ball[s] = Gone /\ Gone.treasure = 0 /\ Gone.owner = NoId
       /\ \A x \in Slot \ {s} : r.ball[x] = w.ball[x]
  BY <1>17, <1>21, GoneIs
<1>24. Placed(r)
  <2>1. ASSUME NEW x \in Slot
        PROVE  /\ r.ball[x].treasure # 0 => InUse(r, x)
               /\ ~InUse(r, x) => r.ball[x] = Gone
               /\ r.ball[x].treasure = 0 => r.ball[x].owner = NoId
    <3>1. CASE x = s
      BY <1>23, <3>1
    <3>2. CASE x # s
      BY <1>22, <1>23, <3>2 DEF Swept, Placed
    <3>3. QED
      BY <3>1, <3>2
  <2>2. QED
    BY <1>22, <2>1 DEF Placed
<1>25. Roomy(r)
  <2>1. Others(r) \subseteq Others(w)
    BY <1>22, <1>23 DEF Others
  <2>2. QED
    BY <2>1, FewerOthers DEF Swept
<1>26. ASSUME NEW j \in m - 1 + 1 .. r.n PROVE r.ball[r.Obj[j]].treasure = 0
  <2>1. w.Obj \in [1 .. Cap -> Slot] /\ Apart(w.Obj)
    BY <1>1, WorldFields DEF Swept, Placed, Apart
  <2>2. /\ m # w.n => r.Obj[m] = w.Obj[w.n]
        /\ \A k \in 1 .. Cap : k # m /\ k # w.n => r.Obj[k] = w.Obj[k]
    BY <1>1, <1>21, <2>1, SwappedIs
  <2>3. j \in m .. w.n - 1 /\ j \in 1 .. Cap /\ m \in 1 .. Cap
    BY <1>1, <1>21
  <2>4. PICK k \in m + 1 .. w.n : r.Obj[j] = w.Obj[k]
    <3>1. CASE j = m
      BY <1>1, <2>2, <2>3, <3>1
    <3>2. CASE j # m
      BY <1>1, <2>2, <2>3, <3>2
    <3>3. QED
      BY <3>1, <3>2
  <2>5. k \in 1 .. Cap /\ k # m
    BY <1>1, <2>3
  <2>6. w.Obj[k] \in Slot /\ w.Obj[k] # s
    BY <1>8, <2>1, <2>3, <2>5 DEF Apart
  <2>7. QED
    BY <1>23, <2>4, <2>6 DEF Swept
<1>27. m - 1 <= r.n
  BY <1>1, <1>21
<1>28. QED
  BY <1>1, <1>7, <1>12, <1>21, <1>24, <1>25, <1>26, <1>27 DEF Swept

LEMMA AllUnmade ==
    ASSUME NEW w, NEW N, N = w.n, Swept(w, N)
    PROVE  Swept(FoldOver(Unmake, w, Downwards(w)), 0)
<1> DEFINE I == [k \in 0 .. N |-> {v \in Worlds : Swept(v, N - k)}]
           seq == Downwards(w)
           res == FoldOver(Unmake, w, seq)
<1>1. /\ w \in Worlds /\ N \in Nat /\ N <= Cap /\ Cap \in Nat /\ Len(seq) = N
      /\ \A k \in 1 .. N : seq[k] = N + 1 - k
  BY DownwardsIs, WorldCounts DEF Swept
<1> HIDE DEF seq, res
<1>2. /\ I \in [0 .. N -> SUBSET Worlds]
      /\ \A k \in 0 .. N : \A v : v \in I[k] <=> v \in Worlds /\ Swept(v, N - k)
  OBVIOUS
<1> HIDE DEF I
<1>3. 0 \in 0 .. N /\ N \in 0 .. N /\ N - 0 = N /\ N - N = 0
  BY <1>1
<1>4. w \in I[0]
  BY <1>1, <1>2, <1>3
<1>5. ASSUME NEW k \in 1 .. N, NEW v \in I[k - 1]
      PROVE  Unmake(v, seq[k]) \in I[k]
  <2> DEFINE m == N + 1 - k
             x == Unmake(v, m)
  <2>1. /\ k - 1 \in 0 .. N /\ k \in 0 .. N /\ N - (k - 1) = m /\ m - 1 = N - k
        /\ m \in 1 .. Cap /\ seq[k] = m
    BY <1>1
  <2> HIDE DEF m
  <2>2. Swept(v, m)
    BY <1>2, <2>1
  <2>3. Swept(x, N - k)
    <3>1. CASE v.ball[v.Obj[m]].treasure # 0
      BY <2>1, <2>2, <3>1, UnmakeSwept
    <3>2. CASE v.ball[v.Obj[m]].treasure = 0
      <4>1. x = v
        <5>1. v.Obj[m] \in Slot /\ v.ball[v.Obj[m]] \in Object
          BY <2>1, <2>2, WorldFields DEF Swept
        <5>2. \A b \in Object : [b EXCEPT !.id = NoId, !.life = 0, !.owner = "0",
                                          !.recreate = FALSE].treasure = b.treasure
          BY DEF Object
        <5>3. QED
          BY <3>2, <5>1, <5>2 DEF Unmake
      <4>2. m \in Nat /\ v.n \in Nat
        BY <2>1, <2>2, WorldCounts DEF Swept
      <4>3. ASSUME NEW j \in m - 1 + 1 .. v.n PROVE v.ball[v.Obj[j]].treasure = 0
        <5>1. CASE j = m
          BY <3>2, <5>1
        <5>2. CASE j # m
          <6>1. j \in m + 1 .. v.n
            BY <4>2, <5>2
          <6>2. QED
            BY <2>2, <6>1 DEF Swept
        <5>3. QED
          BY <5>1, <5>2
      <4>4. m - 1 <= v.n
        BY <2>2, <4>2 DEF Swept
      <4>5. Swept(v, m - 1)
        BY <2>2, <4>3, <4>4 DEF Swept
      <4>6. QED
        BY <2>1, <4>1, <4>5
    <3>3. QED
      BY <3>1, <3>2
  <2> HIDE DEF x
  <2>4. x \in I[k]
    BY <1>2, <2>1, <2>3 DEF Swept
  <2>5. QED
    BY <2>1, <2>4 DEF x
<1>6. res \in I[N]
  BY <1>1, <1>2, <1>4, <1>5, UnmakeFold DEF res
<1>7. QED
  BY <1>2, <1>3, <1>6 DEF res, seq

(* As many slots are in use as Obj says. *)
LEMMA UsedCount ==
    ASSUME NEW w \in Worlds, Placed(w)
    PROVE  /\ IsFiniteSet({s \in Slot : InUse(w, s)})
           /\ Cardinality({s \in Slot : InUse(w, s)}) = w.n
<1> DEFINE S == {s \in Slot : InUse(w, s)}
           f == [i \in 1 .. w.n |-> w.Obj[i]]
<1>1. w.n \in Nat /\ \A i \in 1 .. w.n : i \in 1 .. Cap
  BY WorldCounts
<1>2. w.Obj \in [1 .. Cap -> Slot]
  BY WorldFields
<1>3. f \in [1 .. w.n -> S]
  BY <1>1, <1>2 DEF InUse
<1>4. \A s \in S : \E i \in 1 .. w.n : f[i] = s
  BY DEF InUse
<1>5. \A i, j \in 1 .. w.n : f[i] = f[j] => i = j
  BY <1>1 DEF Placed
<1> HIDE DEF f, S
<1>6. f \in Bijection(1 .. w.n, S)
  BY <1>3, <1>4, <1>5, Fun_IsBij
<1>7. ExistsBijection(1 .. w.n, S)
  BY <1>6 DEF ExistsBijection
<1>8. IsFiniteSet(S)
  BY Sizes, FS_Subset DEF S
<1>9. Cardinality(S) = w.n
  BY <1>1, <1>7, FS_CountingElements
<1>10. QED
  BY <1>8, <1>9 DEF S

(* The slot that is next was not in use. *)
LEMMA NextSlot ==
    ASSUME NEW w \in Worlds, Placed(w), w.n < Cap, NEW r, r.Obj = w.Obj, r.n = w.n + 1
    PROVE  LET s == w.Obj[w.n + 1]
           IN  /\ s \in Slot /\ ~InUse(w, s) /\ w.ball[s] = Gone
               /\ \A u \in Slot : InUse(r, u) <=> InUse(w, u) \/ u = s
<1> DEFINE s == w.Obj[w.n + 1]
<1>1. /\ w.n \in Nat /\ Cap \in Nat /\ w.n + 1 \in 1 .. Cap
      /\ \A i \in 1 .. w.n : i \in 1 .. Cap /\ i # w.n + 1
  BY WorldCounts
<1>2. s \in Slot
  BY <1>1, WorldFields
<1>3. ~InUse(w, s)
  BY <1>1 DEF Placed, InUse
<1>4. w.ball[s] = Gone
  BY <1>2, <1>3 DEF Placed
<1>5. ASSUME NEW u \in Slot PROVE InUse(r, u) <=> InUse(w, u) \/ u = s
  <2>1. \A i : i \in 1 .. w.n + 1 <=> i \in 1 .. w.n \/ i = w.n + 1
    BY <1>1
  <2>2. QED
    BY <2>1 DEF InUse
<1>6. QED
  BY <1>2, <1>3, <1>4, <1>5

(* The balls of the first k treasures are new, there are no others, and    *)
(* there is room for the rest.                                             *)
Renewed(w, k) ==
    /\ w \in Worlds /\ Placed(w) /\ Roomy(w) /\ OneEach(w) /\ w.hasBall = {}
    /\ w.n + NumTreasures <= Cap + k
    /\ \A s \in Slot : w.ball[s].treasure = 0 \/ \E i \in 1 .. k : w.ball[s] = Fresh(i)
    /\ \A i \in 1 .. k : \E s \in Slot : w.ball[s] = Fresh(i)
    /\ \A i \in 1 .. k : w.have[i] /\ w.destroyed[i] = 0

LEMMA SweptIsRenewed ==
    ASSUME NEW w, Swept(w, 0)
    PROVE  Renewed(w, 0)
<1>1. w \in Worlds /\ Placed(w) /\ Roomy(w) /\ w.hasBall = {}
  BY DEF Swept
<1>2. 1 .. 0 = {} /\ \A j \in 1 .. w.n : j \in 0 + 1 .. w.n
  OBVIOUS
<1>3. ASSUME NEW s \in Slot PROVE w.ball[s].treasure = 0
  <2>1. CASE InUse(w, s)
    BY <1>2, <2>1 DEF Swept, InUse
  <2>2. CASE ~InUse(w, s)
    BY <1>1, <2>2 DEF Placed
  <2>3. QED
    BY <2>1, <2>2
<1>4. OneEach(w)
  BY <1>3 DEF OneEach
<1>5. w.n + NumTreasures <= Cap + 0
  <2>1. Others(w) = {s \in Slot : InUse(w, s)}
    BY <1>3 DEF Others
  <2>2. w.n <= Cap - NumTreasures
    BY <1>1, <2>1, UsedCount DEF Roomy
  <2>3. QED
    BY <1>1, <2>2, Bounds, WorldCounts
<1>6. QED
  BY <1>1, <1>2, <1>3, <1>4, <1>5 DEF Renewed

LEMMA RemakeRenewed ==
    ASSUME NEW t \in Treasure, NEW w, Renewed(w, t - 1)
    PROVE  Renewed(Remake(w, t), t)
<1> DEFINE d == [w.destroyed EXCEPT ![t] = 0]
           hv == [w.have EXCEPT ![t] = FALSE]
           u == [w EXCEPT !.destroyed[t] = 0, !.have[t] = FALSE]
           r == Make_treasure_ball(u, t)
           s == w.Obj[w.n + 1]
<1>1. w \in Worlds /\ w.hasBall = {} /\ Placed(w) /\ Roomy(w) /\ OneEach(w)
  BY DEF Renewed
<1>2. /\ t \in Nat /\ t >= 1 /\ t <= NumTreasures /\ NumTreasures \in Nat
      /\ Cap \in Nat /\ w.n \in Nat
      /\ \A i \in 1 .. t : i \in Treasure /\ (i = t \/ i \in 1 .. t - 1)
      /\ \A i \in 1 .. t - 1 : i \in 1 .. t /\ i # t
  BY <1>1, Bounds, WorldCounts DEF Treasure
<1>3. /\ d \in [Treasure -> Nat] /\ hv \in [Treasure -> BOOLEAN]
      /\ d[t] = 0 /\ ~hv[t]
      /\ \A i \in Treasure \ {t} : d[i] = w.destroyed[i] /\ hv[i] = w.have[i]
  BY <1>1, WorldFields
<1>4. u = [w EXCEPT !.destroyed = d, !.have = hv]
  BY <1>1 DEF Worlds
<1>5. Remake(w, t) = r
  BY DEF Remake
<1> HIDE DEF d, hv, u
<1>6. /\ u \in Worlds /\ u.destroyed = d /\ u.have = hv /\ u.n = w.n /\ u.Obj = w.Obj
      /\ u.ball = w.ball /\ u.hasBall = w.hasBall
  BY <1>1, <1>3, <1>4 DEF Worlds
<1>8. ~u.have[t] /\ u.n < Cap /\ w.n < Cap
  BY <1>2, <1>3, <1>6 DEF Renewed
<1>9. /\ r \in Worlds /\ r.n = w.n + 1
      /\ r.ball = [w.ball EXCEPT ![s] = Fresh(t)]
      /\ r.have = [hv EXCEPT ![t] = TRUE]
      /\ r.hasBall = {} /\ r.Obj = w.Obj /\ r.destroyed = d
  <2> HIDE DEF r
  <2>2. /\ r \in Worlds /\ r.n = u.n + 1
        /\ r.ball = [u.ball EXCEPT ![u.Obj[u.n + 1]] = Fresh(t)]
        /\ r.have = [u.have EXCEPT ![t] = TRUE]
        /\ r.hasBall = u.hasBall /\ r.Obj = u.Obj /\ r.destroyed = u.destroyed
    BY <1>6, <1>8, Make_treasure_ballIs DEF r
  <2>3. QED
    BY <1>1, <1>6, <2>2
<1> HIDE DEF r
<1>10. /\ s \in Slot /\ ~InUse(w, s) /\ w.ball[s] = Gone
       /\ \A x \in Slot : InUse(r, x) <=> InUse(w, x) \/ x = s
  BY <1>1, <1>8, <1>9, NextSlot
<1> HIDE DEF s
<1>11. r.ball[s] = Fresh(t) /\ \A x \in Slot \ {s} : r.ball[x] = w.ball[x]
  BY <1>1, <1>9, <1>10, WorldFields
<1>12. /\ Gone.treasure = 0 /\ Fresh(t).treasure = t /\ t # 0
       /\ \A i \in 1 .. t - 1 : Fresh(i).treasure = i /\ Fresh(i).treasure # 0
  <2>1. \A i \in Treasure : Fresh(i).treasure = i /\ i # 0
    BY Bounds, FreshIs
  <2>2. Gone.treasure = 0
    BY GoneIs
  <2>3. QED
    BY <1>2, <2>1, <2>2
<1>13. Placed(r)
  <2>1. ASSUME NEW x \in Slot
        PROVE  /\ r.ball[x].treasure # 0 => InUse(r, x)
               /\ ~InUse(r, x) => r.ball[x] = Gone
               /\ r.ball[x].treasure = 0 => r.ball[x].owner = NoId
    <3>1. CASE x = s
      BY <1>10, <1>11, <1>12, <3>1
    <3>2. CASE x # s
      BY <1>1, <1>10, <1>11, <3>2 DEF Placed
    <3>3. QED
      BY <3>1, <3>2
  <2>2. \A j, k \in 1 .. Cap : r.Obj[j] = r.Obj[k] => j = k
    BY <1>1, <1>9 DEF Placed
  <2>3. QED
    BY <2>1, <2>2 DEF Placed
<1>14. Roomy(r)
  <2>1. Others(r) \subseteq Others(w)
    BY <1>10, <1>11, <1>12 DEF Others
  <2>2. QED
    BY <1>1, <2>1, FewerOthers
<1>15. \A x \in Slot \ {s} : r.ball[x].treasure # t
  BY <1>2, <1>11, <1>12 DEF Renewed
<1>16. OneEach(r)
  <2>1. ASSUME NEW x \in Slot, NEW y \in Slot, r.ball[x].treasure # 0,
               r.ball[x].treasure = r.ball[y].treasure
        PROVE  x = y
    <3>1. CASE x = s \/ y = s
      BY <1>11, <1>12, <1>15, <2>1, <3>1
    <3>2. CASE x # s /\ y # s
      BY <1>1, <1>11, <2>1, <3>2 DEF OneEach
    <3>3. QED
      BY <3>1, <3>2
  <2>2. QED
    BY <2>1 DEF OneEach
<1>17. \A x \in Slot : r.ball[x].treasure = 0 \/ \E i \in 1 .. t : r.ball[x] = Fresh(i)
  <2>1. ASSUME NEW x \in Slot
        PROVE  r.ball[x].treasure = 0 \/ \E i \in 1 .. t : r.ball[x] = Fresh(i)
    <3>1. CASE x = s
      BY <1>2, <1>11, <3>1
    <3>2. CASE x # s
      BY <1>2, <1>11, <3>2 DEF Renewed
    <3>3. QED
      BY <3>1, <3>2
  <2>2. QED
    BY <2>1
<1>18. ASSUME NEW i \in 1 .. t PROVE \E x \in Slot : r.ball[x] = Fresh(i)
  <2>1. CASE i = t
    BY <1>10, <1>11, <2>1
  <2>2. CASE i # t
    <3>1. i \in 1 .. t - 1
      BY <1>2, <2>2
    <3>2. PICK x \in Slot : w.ball[x] = Fresh(i)
      BY <3>1 DEF Renewed
    <3>3. x # s
      BY <1>10, <1>12, <3>1, <3>2
    <3>4. QED
      BY <1>11, <3>2, <3>3
  <2>3. QED
    BY <2>1, <2>2
<1>19. ASSUME NEW i \in 1 .. t PROVE r.have[i] /\ r.destroyed[i] = 0
  <2>1. CASE i = t
    BY <1>3, <1>9, <2>1
  <2>2. CASE i # t
    <3>1. i \in 1 .. t - 1 /\ i \in Treasure \ {t}
      BY <1>2, <2>2
    <3>2. r.have[i] = w.have[i] /\ r.destroyed[i] = w.destroyed[i]
      BY <1>3, <1>9, <3>1
    <3>3. QED
      BY <3>1, <3>2 DEF Renewed
  <2>3. QED
    BY <2>1, <2>2
<1>20. r.n + NumTreasures <= Cap + t
  BY <1>2, <1>9 DEF Renewed
<1>21. QED
  BY <1>5, <1>9, <1>13, <1>14, <1>16, <1>17, <1>18, <1>19, <1>20 DEF Renewed

LEMMA AllRemade ==
    ASSUME NEW w, Renewed(w, 0)
    PROVE  Renewed(FoldOver(Remake, w, [t \in Treasure |-> t]), NumTreasures)
<1> DEFINE N == NumTreasures
           I == [k \in 0 .. N |-> {v \in Worlds : Renewed(v, k)}]
           seq == [t \in Treasure |-> t]
           res == FoldOver(Remake, w, seq)
<1>1. N \in Nat
  BY Bounds
<1>2. Len(seq) = N /\ \A k \in 1 .. N : seq[k] = k /\ k \in Treasure
  BY <1>1 DEF Treasure
<1> HIDE DEF seq, res
<1>3. /\ I \in [0 .. N -> SUBSET Worlds]
      /\ \A k \in 0 .. N : \A v : v \in I[k] <=> v \in Worlds /\ Renewed(v, k)
  OBVIOUS
<1> HIDE DEF I, N
<1>4. 0 \in 0 .. N /\ N \in 0 .. N
  BY <1>1
<1>5. w \in I[0]
  BY <1>3, <1>4 DEF Renewed
<1>6. ASSUME NEW k \in 1 .. N, NEW v \in I[k - 1]
      PROVE  Remake(v, seq[k]) \in I[k]
  <2> DEFINE x == Remake(v, k)
  <2>1. k - 1 \in 0 .. N /\ k \in 0 .. N
    BY <1>1
  <2>2. Renewed(v, k - 1)
    BY <1>3, <2>1
  <2>3. Renewed(x, k)
    BY <1>2, <2>2, RemakeRenewed
  <2> HIDE DEF x
  <2>4. x \in I[k]
    BY <1>3, <2>1, <2>3 DEF Renewed
  <2>5. QED
    BY <1>2, <2>4 DEF x
<1>7. res \in I[N]
  BY <1>1, <1>2, <1>3, <1>5, <1>6, RemakeFold DEF res
<1>8. QED
  BY <1>3, <1>4, <1>7 DEF res, seq, N

LEMMA RenewedGood ==
    ASSUME NEW w, Renewed(w, NumTreasures), w.left = [x \in Team |-> Owned(x)]
    PROVE  Good(w) /\ \A t \in Treasure : \E s \in Slot : w.ball[s].treasure = t
<1>1. w \in Worlds /\ Placed(w) /\ Roomy(w) /\ OneEach(w) /\ w.hasBall = {}
  BY DEF Renewed
<1>2. \A i \in 1 .. NumTreasures : i \in Treasure /\ i # 0
  BY Bounds DEF Treasure
<1>3. \A t \in Treasure : t \in 1 .. NumTreasures
  BY DEF Treasure
<1>4. \A t \in Treasure : \E s \in Slot : w.ball[s] = Fresh(t)
  BY <1>3 DEF Renewed
<1>5. \A s \in Slot : w.ball[s].treasure # 0 => \E t \in Treasure : w.ball[s] = Fresh(t)
  BY <1>2 DEF Renewed
<1>51. \A t \in Treasure :
          /\ Fresh(t).treasure = t /\ Fresh(t).id = NoId /\ Fresh(t).owner = NoId
          /\ Fresh(t).recreate /\ ~Fresh(t).gravity
  BY FreshIs
<1>6. \A s \in Slot :
         /\ w.ball[s].treasure # 0
               => /\ w.ball[s].recreate /\ ~w.ball[s].gravity
                  /\ w.ball[s].id = NoId
         /\ w.ball[s].owner = NoId
  BY <1>1, <1>5, <1>51 DEF Placed
<1>7. \A t \in Treasure : \E s \in Slot : w.ball[s].treasure = t /\ ~w.ball[s].gravity
  BY <1>4, <1>51
<1>8. Lost(w)
  BY <1>6, <1>7 DEF Lost
<1>9. Had(w)
  <2>1. \A t \in Treasure : w.have[t] = TRUE
    BY <1>1, <1>3, WorldFields DEF Renewed
  <2>2. QED
    BY <1>6, <1>7, <2>1 DEF Had, Untaken
<1>10. Carried(w) /\ Playing(w) /\ OwnersPresent(w)
  BY <1>1, <1>6, Names DEF Carried, Holds, Playing, OwnersPresent
<1>11. Counted(w)
  <2>1. \A t \in Treasure : w.destroyed[t] = 0
    BY <1>3 DEF Renewed
  <2>2. \A x \in Team : w.left[x] <= Owned(x)
    BY Owning
  <2>3. QED
    BY <2>1, <2>2 DEF Counted
<1>12. QED
  BY <1>1, <1>7, <1>8, <1>9, <1>10, <1>11 DEF Good

LEMMA Reset_all_playersGood ==
    ASSUME NEW w, Good(w)
    PROVE  LET r == Reset_all_players(w)
           IN  Good(r) /\ \A t \in Treasure : \E s \in Slot : r.ball[s].treasure = t
<1> DEFINE S == {p \in Player : w.state[p] # "none"}
           w1 == FoldOver(VisitKilled, w, SetToSeq(S))
           st == [p \in Player |-> IF w1.state[p] \in {"none", "paused"} THEN w1.state[p]
                                   ELSE "alive"]
           w2 == [w1 EXCEPT !.hasBall = {},
                            !.state = [p \in Player |->
                                IF @[p] \in {"none", "paused"} THEN @[p] ELSE "alive"]]
           w3 == FoldOver(Unmake, w2, Downwards(w2))
           w4 == FoldOver(Remake, w3, [t \in Treasure |-> t])
           r == [w4 EXCEPT !.won = [x \in Team |-> 0], !.left = [x \in Team |-> Owned(x)]]
<1>1. Reset_all_players(w) = r
  BY DEF Reset_all_players, VisitKilled
<1> HIDE DEF r
<1>2. Good(w1)
  BY KilledGood
<1> HIDE DEF w1
<1>3. w1 \in Worlds
  BY <1>2 DEF Good
<1>4. st \in [Player -> States]
  BY <1>3, WorldFields DEF States
<1>5. w2 = [w1 EXCEPT !.hasBall = {}, !.state = st]
  BY <1>3 DEF Worlds
<1> HIDE DEF st, w2
<1>6. w2 \in Worlds /\ w2.hasBall = {} /\ w2.ball = w1.ball /\ w2.Obj = w1.Obj /\ w2.n = w1.n
  BY <1>3, <1>4, <1>5 DEF Worlds
<1>7. Swept(w2, w2.n)
  <2>1. Placed(w2) /\ Roomy(w2)
    BY <1>2, <1>6 DEF Good, Placed, Roomy, Others, InUse
  <2>2. w2.n <= w2.n /\ w2.n + 1 .. w2.n = {}
    BY <1>6, WorldCounts
  <2>3. QED
    BY <1>6, <2>1, <2>2 DEF Swept
<1>8. Swept(w3, 0)
  BY <1>7, AllUnmade
<1> HIDE DEF w3
<1>9. Renewed(w4, NumTreasures)
  BY <1>8, SweptIsRenewed, AllRemade
<1> HIDE DEF w4
<1>10. w4 \in Worlds
  BY <1>9 DEF Renewed
<1> DEFINE L == [x \in Team |-> Owned(x)]
           Z == [x \in Team |-> 0]
<1>11. L \in [Team -> Int] /\ Z \in [Team -> Nat]
  BY Owning
<1> HIDE DEF L, Z
<1>12. /\ r \in Worlds /\ r.ball = w4.ball /\ r.Obj = w4.Obj /\ r.n = w4.n
       /\ r.hasBall = w4.hasBall /\ r.have = w4.have /\ r.destroyed = w4.destroyed
       /\ r.left = L
  <2>1. r = [w4 EXCEPT !.won = Z, !.left = L]
    BY DEF r, Z, L
  <2>2. QED
    BY <1>10, <1>11, <2>1 DEF Worlds
<1>13. Renewed(r, NumTreasures)
  BY <1>9, <1>12 DEF Renewed, Placed, Roomy, Others, InUse, OneEach
<1>14. QED
  BY <1>1, <1>12, <1>13, RenewedGood DEF L

LEMMA Compute_game_statusGood ==
    ASSUME NEW w, Good(w), NEW late
    PROVE  Good(Compute_game_status(w, late))
BY Reset_all_playersGood DEF Compute_game_status

LEMMA InitGood == Init => Good(World) /\ Awaited
<1> SUFFICES ASSUME Init PROVE Good(World) /\ Awaited
  OBVIOUS
<1>1. /\ Cap \in Nat /\ NumTreasures \in Nat /\ NumTreasures <= Cap
      /\ \A t \in Treasure : t \in 1 .. Cap /\ t \in 1 .. NumTreasures
      /\ \A i \in 1 .. NumTreasures : i \in Treasure
  BY Bounds DEF Treasure
<1>2. Obj \in [1 .. Cap -> Slot] /\ Apart(Obj)
  BY DEF Init, IsInjective, Apart, Cap
<1>3. ASSUME NEW i \in Treasure
      PROVE  ball[Obj[i]] = Fresh(i)
  <2>1. Obj[i] \in Slot
    BY <1>1, <1>2
  <2>2. \A t \in Treasure : Obj[i] = Obj[t] => t = i
    BY <1>1, <1>2 DEF Apart
  <2>3. (CHOOSE t \in Treasure : Obj[i] = Obj[t]) = i
    BY <2>2
  <2>4. ball[Obj[i]] = Fresh(CHOOSE t \in Treasure : Obj[i] = Obj[t])
    BY <2>1 DEF Init
  <2>5. QED
    BY <2>3, <2>4
<1>4. ASSUME NEW s \in Slot, \A i \in Treasure : Obj[i] # s
      PROVE  ball[s] = Gone
  BY <1>4 DEF Init
<1>5. ball \in [Slot -> Object]
  <2>1. ASSUME NEW s \in Slot PROVE ball[s] \in Object
    <3>1. CASE \E i \in Treasure : Obj[i] = s
      BY <1>3, <3>1, FreshIs
    <3>2. CASE ~\E i \in Treasure : Obj[i] = s
      BY <1>4, <3>2, GoneIs
    <3>3. QED
      BY <3>1, <3>2
  <2>2. \E b : ball = [s \in Slot |-> b[s]]
    <3> DEFINE b == ball
    <3>1. ball = [s \in Slot |-> ball[s]]
      BY DEF Init
    <3>2. QED
      BY <3>1
  <2>3. QED
    BY <2>1, <2>2
<1>6. /\ state \in [Player -> States] /\ hasBall = {} /\ ptr \in [Player -> Slot \cup {Null}]
      /\ ObjCount = NumTreasures /\ ObjCount \in 0 .. Cap
      /\ have = [t \in Treasure |-> TRUE] /\ destroyed = [t \in Treasure |-> 0]
      /\ TreasuresLeft = [x \in Team |-> Owned(x)] /\ TreasuresDestroyed \in [Team -> Nat]
      /\ strayed \in SUBSET Player /\ robbed \in SUBSET Treasure
  BY <1>1 DEF Init, States
<1>7. TreasuresLeft \in [Team -> Int]
  BY <1>6, Owning
<1>8. World \in Worlds
  BY <1>2, <1>5, <1>6, <1>7 DEF World, Worlds
<1>9. /\ World.Obj = Obj /\ World.ball = ball /\ World.n = ObjCount /\ World.hasBall = hasBall
      /\ World.have = have /\ World.destroyed = destroyed /\ World.left = TreasuresLeft
  BY DEF World
<1>10. Renewed(World, NumTreasures)
  <2>1. \A i \in 1 .. NumTreasures : ball[Obj[i]] = Fresh(i) /\ have[i] /\ destroyed[i] = 0
    BY <1>1, <1>3, <1>6
  <2>2. \A s \in Slot : InUse(World, s) <=> \E i \in Treasure : Obj[i] = s
    BY <1>1, <1>6, <1>9 DEF InUse
  <2>3. \A i \in Treasure : Fresh(i).treasure = i /\ i # 0
    BY Bounds, FreshIs
  <2>4. ASSUME NEW s \in Slot
        PROVE  \/ InUse(World, s) /\ \E i \in Treasure : ball[s] = Fresh(i)
               \/ ~InUse(World, s) /\ ball[s] = Gone
    BY <1>3, <1>4, <2>2
  <2>5. Gone.treasure = 0 /\ Gone.owner = NoId
    BY GoneIs
  <2>6. Placed(World)
    BY <1>2, <1>9, <2>3, <2>4, <2>5 DEF Placed, Apart
  <2>7. Roomy(World)
    <3>1. Others(World) = {}
      BY <1>9, <2>3, <2>4 DEF Others
    <3>2. QED
      BY <1>1, <3>1, FS_EmptySet DEF Roomy
  <2>8. OneEach(World)
    <3>1. ASSUME NEW a \in Slot, NEW b \in Slot, ball[a].treasure # 0,
                 ball[a].treasure = ball[b].treasure
          PROVE  a = b
      <4>1. InUse(World, a) /\ InUse(World, b)
        BY <2>4, <2>5, <3>1
      <4>2. PICK i \in Treasure, j \in Treasure : Obj[i] = a /\ Obj[j] = b
        BY <2>2, <4>1
      <4>3. QED
        BY <1>3, <2>3, <3>1, <4>2
    <3>2. QED
      BY <1>9, <3>1 DEF OneEach
  <2>9. World.n + NumTreasures <= Cap + NumTreasures
    BY <1>1, <1>6, <1>9
  <2>10. \A i \in 1 .. NumTreasures : \E s \in Slot : ball[s] = Fresh(i)
    <3>1. \A i \in 1 .. NumTreasures : Obj[i] \in Slot
      BY <1>1, <1>2
    <3>2. QED
      BY <2>1, <3>1
  <2>11. \A s \in Slot : ball[s].treasure = 0 \/ \E i \in 1 .. NumTreasures : ball[s] = Fresh(i)
    BY <1>1, <2>4, <2>5
  <2>12. World.hasBall = {} /\ World.ball = ball /\ World.have = have /\ World.destroyed = destroyed
    BY <1>6, <1>9
  <2>13. /\ \A s \in Slot : World.ball[s].treasure = 0
                          \/ \E i \in 1 .. NumTreasures : World.ball[s] = Fresh(i)
         /\ \A i \in 1 .. NumTreasures : \E s \in Slot : World.ball[s] = Fresh(i)
         /\ \A i \in 1 .. NumTreasures : World.have[i] /\ World.destroyed[i] = 0
    BY <2>1, <2>10, <2>11, <2>12
  <2>14. QED
    BY <1>8, <2>6, <2>7, <2>8, <2>9, <2>12, <2>13 DEF Renewed
<1>11. Good(World)
  BY <1>6, <1>9, <1>10, RenewedGood
<1>12. Awaited
  BY DEF Init, Awaited
<1>13. QED
  BY <1>11, <1>12

-----------------------------------------------------------------------------
(* Goals.                                                                  *)

(* The same balls are there, and nobody has left. *)
SameBalls(w, r) ==
    /\ \A u \in Slot : r.ball[u].treasure = w.ball[u].treasure
    /\ \A p \in Player : w.state[p] # "none" => r.state[p] # "none"

LEMMA RecreateGood ==
    ASSUME NEW w, Good(w), NEW s \in Slot, w.ball[s].treasure # 0
    PROVE  LET r == [w EXCEPT !.ball[s].recreate = TRUE]
           IN  Good(r) /\ SameBalls(w, r)
<1> DEFINE b == w.ball[s]
           c == [b EXCEPT !.recreate = TRUE]
           r == [w EXCEPT !.ball[s] = c]
<1>1. w \in Worlds
  BY DEF Good
<1>2. b \in Object
  BY <1>1, BallFields
<1>3. [w EXCEPT !.ball[s].recreate = TRUE] = r
  BY <1>1 DEF Worlds
<1>4. /\ b.treasure # 0 /\ b = w.ball[s]
      /\ b.owner # NoId => w.state[b.owner] # "none"
  BY DEF Good, OwnersPresent
<1> HIDE DEF b
<1>5. /\ c \in Object /\ c.treasure = b.treasure /\ c.id = b.id /\ c.gravity = b.gravity
      /\ c.recreate = TRUE /\ c.owner = b.owner
  BY <1>2 DEF Object
<1> HIDE DEF c
<1>6. Good(r) /\ BallSet(w, s, c, r)
  BY <1>4, <1>5, BallGood
<1> HIDE DEF r
<1>7. SameBalls(w, r)
  BY <1>4, <1>5, <1>6 DEF BallSet, SameBalls
<1>8. QED
  BY <1>3, <1>6, <1>7

LEMMA Punish_teamGood ==
    ASSUME NEW w, Good(w), NEW s \in Slot, w.ball[s].treasure # 0,
           w.ball[s].owner # NoId, NEW counted
    PROVE  LET r == Punish_team(w, s, counted) IN Good(r) /\ SameBalls(w, r)
<1> DEFINE b == w.ball[s]
           t == b.treasure
           shot == {p \in Player : /\ options.treasureKillTeam /\ team[p] = team[t]
                                   /\ (w.state[p] = "alive" \/ p \in counted)}
           c == [b EXCEPT !.recreate = FALSE]
           d == [w.destroyed EXCEPT ![t] = @ + 1]
           l == [w.left EXCEPT ![team[t]] = @ - 1]
           n == [w.won EXCEPT ![team[b.owner]] = @ + 1]
           st == [p \in Player |-> IF p \in shot THEN "killed" ELSE w.state[p]]
           B == [w.ball EXCEPT ![s] = c]
           r == Punish_team(w, s, counted)
<1>1. w \in Worlds
  BY DEF Good
<1>2. b \in Object /\ t \in Treasure /\ b.owner \in Player
  BY <1>1, BallFields
<1>3. team[t] \in Team /\ team[b.owner] \in Team
  BY <1>2, Owning
<1>4. r = [w EXCEPT !.destroyed[t] = @ + 1, !.left[team[t]] = @ - 1,
                    !.won[team[b.owner]] = @ + 1,
                    !.state = [p \in Player |-> IF p \in shot THEN "killed" ELSE @[p]],
                    !.ball[s].recreate = FALSE]
  BY DEF Punish_team
<1> HIDE DEF shot, r
<1>5. r = [w EXCEPT !.destroyed = d, !.left = l, !.won = n, !.state = st, !.ball = B]
  BY <1>1, <1>4 DEF Worlds
<1>51. b = w.ball[s] /\ t = b.treasure /\ t # 0
  OBVIOUS
<1> HIDE DEF t, b
<1>6. /\ d \in [Treasure -> Nat] /\ d[t] > 0 /\ d[t] = w.destroyed[t] + 1
      /\ \A x \in Treasure : w.destroyed[x] > 0 => d[x] > 0
      /\ \A x \in Treasure \ {t} : d[x] = w.destroyed[x]
  BY <1>1, <1>2, WorldFields
<1>7. /\ l \in [Team -> Int] /\ l[team[t]] = w.left[team[t]] - 1
      /\ \A x \in Team \ {team[t]} : l[x] = w.left[x]
  BY <1>1, <1>3, WorldFields
<1>8. n \in [Team -> Nat]
  BY <1>1, <1>3, WorldFields
<1>9. /\ st \in [Player -> States]
      /\ \A p \in Player : st[p] = "killed" \/ st[p] = w.state[p]
  BY <1>1, WorldFields DEF States
<1>10. /\ c \in Object /\ c.treasure = t /\ c.id = b.id /\ c.owner = b.owner
       /\ c.gravity = b.gravity
  BY <1>2, <1>51 DEF Object
<1> HIDE DEF c
<1>11. /\ B \in [Slot -> Object] /\ B[s] = c /\ \A u \in Slot \ {s} : B[u] = w.ball[u]
  BY <1>1, <1>10, WorldFields
<1> HIDE DEF d, l, n, st, B
<1>12. /\ r \in Worlds /\ r.destroyed = d /\ r.left = l /\ r.state = st /\ r.ball = B
       /\ r.hasBall = w.hasBall /\ r.Obj = w.Obj /\ r.n = w.n /\ r.have = w.have
       /\ r.strayed = w.strayed /\ r.robbed = w.robbed
  BY <1>1, <1>5, <1>6, <1>7, <1>8, <1>9, <1>11 DEF Worlds
<1>13. \A u \in Slot : /\ r.ball[u].treasure = w.ball[u].treasure
                       /\ r.ball[u].id = w.ball[u].id /\ r.ball[u].owner = w.ball[u].owner
                       /\ r.ball[u].gravity = w.ball[u].gravity
  BY <1>10, <1>11, <1>12, <1>51
<1>14. KeepsPlaces(w, r)
  BY <1>11, <1>12, <1>13, <1>51 DEF KeepsPlaces
<1>15. Placed(r) /\ OneEach(r) /\ Roomy(r)
  BY <1>14, PlacesKept DEF Good
<1>16. Lost(r)
  <2>1. \A x \in Treasure : w.destroyed[x] > 0 => r.destroyed[x] > 0
    BY <1>6, <1>12
  <2>2. \A u \in Slot : w.ball[u].treasure # 0 /\ w.ball[u].recreate
                           => r.ball[u].recreate \/ r.destroyed[w.ball[u].treasure] > 0
    BY <1>6, <1>11, <1>12, <1>51
  <2>3. QED
    BY <1>1, <1>14, <2>1, <2>2, LostKept DEF Good
<1>17. Had(r)
  BY <1>1, <1>12, <1>13, <1>14, HadKept DEF Good
<1>18. Carried(r)
  BY <1>12, <1>13 DEF Good, Carried, Holds
<1>19. Playing(r)
  <2>1. w.hasBall \subseteq Player
    BY <1>1, WorldFields
  <2>2. QED
    BY <1>9, <1>12, <2>1 DEF Good, Playing
<1>20. OwnersPresent(r)
  <2>1. \A u \in Slot : w.ball[u].owner \in Player \cup {NoId}
    BY <1>1, BallFields
  <2>2. QED
    BY <1>9, <1>12, <1>13, <2>1 DEF Good, OwnersPresent
<1>21. Counted(r)
  <2>1. \A x \in Team : w.left[x] \in Int /\ Owned(x) \in Nat /\ w.left[x] <= Owned(x)
    BY <1>1, WorldFields, Owning DEF Good, Counted
  <2>2. \A x \in Team : r.left[x] <= w.left[x] /\ r.left[x] \in Int
    BY <1>3, <1>7, <1>12, <2>1
  <2>3. r.left[team[t]] < Owned(team[t])
    BY <1>3, <1>7, <1>12, <2>1
  <2>4. ASSUME NEW x \in Treasure, r.destroyed[x] > 0
        PROVE  r.left[team[x]] < Owned(team[x])
    <3>1. CASE x = t
      BY <2>3, <3>1
    <3>2. CASE x # t
      <4>1. w.destroyed[x] > 0 /\ team[x] \in Team
        BY <1>6, <1>12, <2>4, <3>2, Owning
      <4>2. w.left[team[x]] < Owned(team[x])
        BY <4>1 DEF Good, Counted
      <4>3. QED
        BY <2>1, <2>2, <4>1, <4>2
    <3>3. QED
      BY <3>1, <3>2
  <2>5. QED
    BY <2>1, <2>2, <2>4 DEF Counted
<1>22. SameBalls(w, r)
  BY <1>9, <1>12, <1>13 DEF SameBalls
<1>23. QED
  BY <1>12, <1>15, <1>16, <1>17, <1>18, <1>19, <1>20, <1>21, <1>22 DEF Good, r

LEMMA GoalsGood ==
    ASSUME NEW w, Good(w), NEW s \in Slot, w.ball[s].treasure # 0, NEW v \in Goals(w, s)
    PROVE  Good(v) /\ SameBalls(w, v)
<1>1. PICK g, counted : v = [Ball_hits_goal(w, s, g, counted) EXCEPT !.ball[s].life = 0]
  BY DEF Goals
<1> DEFINE x == Ball_hits_goal(w, s, g, counted)
<1>2. Good(x) /\ SameBalls(w, x)
  <2>1. \/ x = [w EXCEPT !.ball[s].recreate = TRUE]
        \/ w.ball[s].owner # NoId /\ x = Punish_team(w, s, counted)
        \/ x = w
    BY DEF Ball_hits_goal
  <2> HIDE DEF x
  <2>2. CASE x = [w EXCEPT !.ball[s].recreate = TRUE]
    BY <2>2, RecreateGood
  <2>3. CASE w.ball[s].owner # NoId /\ x = Punish_team(w, s, counted)
    BY <2>3, Punish_teamGood
  <2>4. CASE x = w
    BY <2>4 DEF SameBalls
  <2>5. QED
    BY <2>1, <2>2, <2>3, <2>4
<1>3. v = [x EXCEPT !.ball[s].life = 0]
  BY <1>1
<1> HIDE DEF x
<1>4. x.ball[s].treasure # 0 /\ x \in Worlds
  BY <1>2 DEF SameBalls, Good
<1>5. Good(v) /\ BallSet(x, s, [x.ball[s] EXCEPT !.life = 0], v)
  <2>1. InUse(x, s)
    BY <1>2, <1>4 DEF Good, Placed
  <2>2. QED
    BY <1>2, <1>3, <2>1, LifeGood
<1>6. [x.ball[s] EXCEPT !.life = 0].treasure = x.ball[s].treasure
  BY <1>4, BallFields DEF Object
<1>7. SameBalls(x, v)
  BY <1>5, <1>6 DEF BallSet, SameBalls
<1>8. SameBalls(w, v)
  BY <1>2, <1>7 DEF SameBalls
<1>9. QED
  BY <1>5, <1>8

-----------------------------------------------------------------------------
(* Connectors and collisions.                                              *)

(* The ball in slot s has been touched, and its treasure knows. *)
LEMMA TakenHad ==
    ASSUME NEW w, Good(w), NEW s \in Slot, w.ball[s].treasure # 0, NEW r,
           KeepsPlaces(w, r), r.have = [w.have EXCEPT ![w.ball[s].treasure] = FALSE],
           r.robbed = w.robbed,
           w.ball[s].gravity \/ w.have[w.ball[s].treasure] => r.ball[s].gravity,
           ~r.ball[s].gravity => r.ball[s].id = NoId,
           \A u \in Slot \ {s} : r.ball[u] = w.ball[u]
    PROVE  Had(r)
<1> DEFINE t == w.ball[s].treasure
<1>1. w \in Worlds
  BY DEF Good
<1>2. t \in Treasure /\ r.ball[s].treasure = t
  BY <1>1, BallFields DEF KeepsPlaces
<1>3. ~r.have[t] /\ \A x \in Treasure \ {t} : r.have[x] = w.have[x]
  BY ZenonT(60), <1>1, <1>2, WorldFields
<1>4. \A u \in Slot : r.ball[u].treasure = w.ball[u].treasure
  BY DEF KeepsPlaces
<1>5. \A u \in Slot : r.ball[u].treasure = t => u = s
  BY <1>2, <1>4 DEF Good, OneEach
<1>51. ~r.ball[s].gravity => ~w.ball[s].gravity /\ ~w.have[t]
  OBVIOUS
<1>52. t = w.ball[s].treasure
  OBVIOUS
<1> HIDE DEF t
<1>6. ASSUME NEW x \in Treasure
      PROVE  /\ r.have[x] => Untaken(r, x)
             /\ Untaken(r, x) => r.have[x] \/ x \in r.robbed
  <2>1. CASE x = t
    <3>1. Untaken(r, t) => ~w.have[t] /\ Untaken(w, t)
      BY <1>4, <1>5, <1>51, <1>52 DEF Untaken
    <3>2. Untaken(w, t) => w.have[t] \/ t \in w.robbed
      BY <1>2, HadParts DEF Good
    <3>3. QED
      BY <1>3, <2>1, <3>1, <3>2
  <2>2. CASE x # t
    <3>1. \A u \in Slot : r.ball[u].treasure = x \/ w.ball[u].treasure = x
                             => r.ball[u] = w.ball[u]
      BY <1>2, <1>4, <2>2
    <3>2. Untaken(r, x) <=> Untaken(w, x)
      BY <3>1 DEF Untaken
    <3>3. QED
      BY <1>3, <2>2, <3>2, HadParts DEF Good
  <2>3. QED
    BY <2>1, <2>2
<1>7. ASSUME NEW u \in Slot, r.ball[u].treasure # 0, ~r.ball[u].gravity
      PROVE  /\ r.ball[u].id = NoId
             /\ r.ball[u].owner = NoId \/ ~r.have[r.ball[u].treasure]
  <2>1. CASE u = s
    BY <1>2, <1>3, <1>7, <2>1
  <2>2. CASE u # s
    <3>1. r.ball[u] = w.ball[u] /\ w.ball[u].treasure # t
      BY <1>4, <1>5, <2>2
    <3>2. w.ball[u].treasure \in Treasure
      BY <1>1, <1>7, <3>1, BallFields
    <3>3. r.have[w.ball[u].treasure] = w.have[w.ball[u].treasure]
      BY <1>3, <3>1, <3>2
    <3>4. w.ball[u].id = NoId /\ (w.ball[u].owner = NoId \/ ~w.have[w.ball[u].treasure])
      BY <1>7, <3>1 DEF Good, Had
    <3>5. QED
      BY <3>1, <3>3, <3>4
  <2>3. QED
    BY <2>1, <2>2
<1>8. QED
  BY <1>6, <1>7 DEF Had

LEMMA ConnectGood ==
    ASSUME NEW w, Good(w), NEW p \in Player, w.state[p] \in {"alive", "killed"},
           NEW s \in Slot, w.ball[s].treasure # 0, w.ball[s].id = NoId
    PROVE  LET r == Connect(w, p, s) IN Good(r) /\ SameBalls(w, r)
<1> DEFINE b == w.ball[s]
           t == b.treasure
           c == [b EXCEPT !.id = p, !.owner = p, !.gravity = TRUE]
           B == [w.ball EXCEPT ![s] = c]
           hv == [w.have EXCEPT ![t] = FALSE]
           h == w.hasBall \cup {p}
           q == [w.ptr EXCEPT ![p] = Null]
           r == Connect(w, p, s)
<1>1. w \in Worlds
  BY DEF Good
<1>2. b \in Object /\ t \in Treasure
  BY <1>1, BallFields
<1>3. r = [w EXCEPT !.ball[s] = c, !.have[t] = FALSE, !.hasBall = @ \cup {p}, !.ptr[p] = Null]
  BY DEF Connect
<1>4. r = [w EXCEPT !.ball = B, !.have = hv, !.hasBall = h, !.ptr = q]
  <2> HIDE DEF r, c, t, b
  <2>1. QED
    BY <1>1, <1>3 DEF Worlds
<1>5. b = w.ball[s] /\ t = b.treasure /\ t # 0 /\ b.id = NoId
  OBVIOUS
<1> HIDE DEF b, t, r
<1>6. /\ c \in Object /\ c.treasure = t /\ c.id = p /\ c.owner = p /\ c.gravity = TRUE
      /\ c.recreate = b.recreate
  BY <1>2, <1>5 DEF Object
<1> HIDE DEF c
<1>7. B \in [Slot -> Object] /\ B[s] = c /\ \A u \in Slot \ {s} : B[u] = w.ball[u]
  BY <1>1, <1>6, WorldFields
<1>8. hv \in [Treasure -> BOOLEAN] /\ h \in SUBSET Player /\ q \in [Player -> Slot \cup {Null}]
  BY <1>1, WorldFields
<1>9. hv = [w.have EXCEPT ![w.ball[s].treasure] = FALSE]
  BY <1>5
<1> HIDE DEF B, hv, q
<1>10. /\ r \in Worlds /\ r.ball = B /\ r.have = hv /\ r.hasBall = h
       /\ r.state = w.state /\ r.Obj = w.Obj /\ r.n = w.n
       /\ r.destroyed = w.destroyed /\ r.left = w.left
       /\ r.strayed = w.strayed /\ r.robbed = w.robbed
  BY <1>1, <1>4, <1>7, <1>8 DEF Worlds
<1> HIDE DEF h
<1>11. KeepsPlaces(w, r)
  BY <1>5, <1>6, <1>7, <1>10 DEF KeepsPlaces
<1>12. Placed(r) /\ OneEach(r) /\ Roomy(r)
  BY <1>11, PlacesKept DEF Good
<1>13. Lost(r)
  <2>1. \A u \in Slot : w.ball[u].treasure # 0 /\ w.ball[u].recreate => r.ball[u].recreate
    BY <1>5, <1>6, <1>7, <1>10
  <2>2. QED
    BY <1>1, <1>10, <1>11, <2>1, LostKept DEF Good
<1>14. Had(r)
  <2>1. r.ball[s].gravity = TRUE /\ \A u \in Slot \ {s} : r.ball[u] = w.ball[u]
    BY <1>6, <1>7, <1>10
  <2>2. QED
    BY <1>9, <1>10, <1>11, <2>1, TakenHad
<1>15. Carried(r)
  <2>1. NoId \notin Player
    BY Names
  <2>2. \A u \in Slot : r.ball[u].id = IF u = s THEN p ELSE w.ball[u].id
    BY <1>6, <1>7, <1>10
  <2>3. ASSUME NEW x \in Player
        PROVE  /\ Holds(r, x) => x \in r.hasBall
               /\ x \in r.hasBall => Holds(r, x) \/ x \in r.strayed
    <3>1. CASE x = p
      <4>1. Holds(r, p)
        BY <1>5, <1>6, <1>7, <1>10 DEF Holds
      <4>2. QED
        BY <1>10, <3>1, <4>1 DEF h
    <3>2. CASE x # p
      <4>1. x \in r.hasBall <=> x \in w.hasBall
        BY <1>10, <3>2 DEF h
      <4>2. Holds(r, x) <=> Holds(w, x)
        BY <1>5, <1>11, <2>1, <2>2, <3>2 DEF Holds, KeepsPlaces
      <4>3. QED
        BY <1>10, <4>1, <4>2 DEF Good, Carried
    <3>3. QED
      BY <3>1, <3>2
  <2>4. QED
    BY <2>3 DEF Carried
<1>16. Playing(r) /\ Counted(r)
  BY <1>10 DEF Good, Playing, Counted, h
<1>17. OwnersPresent(r)
  BY <1>6, <1>7, <1>10 DEF Good, OwnersPresent
<1>18. SameBalls(w, r)
  BY <1>10, <1>11 DEF SameBalls, KeepsPlaces
<1>19. QED
  BY <1>10, <1>12, <1>13, <1>14, <1>15, <1>16, <1>17, <1>18 DEF Good, r

(* A ball is hit: its treasure loses it. *)
Hit(w, s) ==
    LET t == w.ball[s].treasure
    IN  [w EXCEPT !.have[t] = FALSE, !.ball[s].gravity = @ \/ w.have[t]]

LEMMA HitGood ==
    ASSUME NEW w, Good(w), NEW s \in Slot, w.ball[s].treasure # 0
    PROVE  LET r == Hit(w, s)
           IN  /\ Good(r) /\ SameBalls(w, r)
               /\ ~r.have[w.ball[s].treasure] /\ r.ball[s].id = w.ball[s].id
<1> DEFINE b == w.ball[s]
           t == b.treasure
           g == b.gravity \/ w.have[t]
           c == [b EXCEPT !.gravity = g]
           B == [w.ball EXCEPT ![s] = c]
           hv == [w.have EXCEPT ![t] = FALSE]
           r == Hit(w, s)
<1>1. w \in Worlds
  BY DEF Good
<1>2. b \in Object /\ t \in Treasure
  BY <1>1, BallFields
<1>3. /\ g \in BOOLEAN /\ (w.ball[s].gravity \/ w.have[w.ball[s].treasure] => g)
      /\ ~g => w.ball[s].id = NoId
  BY <1>1, <1>2, BallFields, WorldFields DEF Good, Had
<1>4. r = [w EXCEPT !.have[t] = FALSE, !.ball[s].gravity = @ \/ w.have[t]]
  BY DEF Hit
<1>5. r = [w EXCEPT !.have = hv, !.ball = B]
  BY <1>1, <1>4 DEF Worlds
<1>6. b = w.ball[s] /\ t = b.treasure /\ t # 0
  OBVIOUS
<1> HIDE DEF b, t, r, g
<1>7. /\ c \in Object /\ c.treasure = t /\ c.id = b.id /\ c.owner = b.owner
      /\ c.gravity = g /\ c.recreate = b.recreate
  BY <1>2, <1>3, <1>6 DEF Object
<1> HIDE DEF c
<1>8. B \in [Slot -> Object] /\ B[s] = c /\ \A u \in Slot \ {s} : B[u] = w.ball[u]
  BY <1>1, <1>7, WorldFields
<1>9. hv \in [Treasure -> BOOLEAN] /\ hv = [w.have EXCEPT ![w.ball[s].treasure] = FALSE]
  BY <1>1, <1>6, WorldFields
<1> HIDE DEF B, hv
<1>10. /\ r \in Worlds /\ r.ball = B /\ r.have = hv /\ r.hasBall = w.hasBall
       /\ r.state = w.state /\ r.Obj = w.Obj /\ r.n = w.n
       /\ r.destroyed = w.destroyed /\ r.left = w.left
       /\ r.strayed = w.strayed /\ r.robbed = w.robbed
  BY <1>1, <1>5, <1>8, <1>9 DEF Worlds
<1>11. KeepsPlaces(w, r)
  BY <1>6, <1>7, <1>8, <1>10 DEF KeepsPlaces
<1>12. Placed(r) /\ OneEach(r) /\ Roomy(r)
  BY <1>11, PlacesKept DEF Good
<1>13. \A u \in Slot : /\ r.ball[u].id = w.ball[u].id /\ r.ball[u].owner = w.ball[u].owner
                       /\ r.ball[u].recreate = w.ball[u].recreate
  BY <1>6, <1>7, <1>8, <1>10
<1>14. Lost(r)
  BY <1>1, <1>10, <1>11, <1>13, LostKept DEF Good
<1>15. Had(r)
  <2>1. /\ w.ball[s].gravity \/ w.have[w.ball[s].treasure] => r.ball[s].gravity
        /\ ~r.ball[s].gravity => r.ball[s].id = NoId
        /\ \A u \in Slot \ {s} : r.ball[u] = w.ball[u]
    BY <1>3, <1>6, <1>7, <1>8, <1>10
  <2>2. QED
    BY <1>6, <1>9, <1>10, <1>11, <2>1, TakenHad
<1>16. Carried(r) /\ Playing(r) /\ OwnersPresent(r) /\ Counted(r)
  BY <1>10, <1>11, <1>13 DEF Good, Carried, Holds, KeepsPlaces, Playing, OwnersPresent, Counted
<1>17. SameBalls(w, r)
  BY <1>10, <1>11 DEF SameBalls, KeepsPlaces
<1>18. ~r.have[w.ball[s].treasure] /\ r.ball[s].id = w.ball[s].id
  BY ZenonT(60), <1>1, <1>2, <1>6, <1>9, <1>10, <1>13, WorldFields
<1>19. Good(r)
  BY <1>10, <1>12, <1>14, <1>15, <1>16 DEF Good
<1>20. QED
  BY <1>17, <1>18, <1>19 DEF r

LEMMA OwnedGood ==
    ASSUME NEW w, Good(w), NEW s \in Slot, w.ball[s].treasure # 0, ~w.have[w.ball[s].treasure],
           NEW p \in Player, w.state[p] # "none"
    PROVE  LET r == [w EXCEPT !.ball[s].owner = p]
           IN  Good(r) /\ SameBalls(w, r)
<1> DEFINE b == w.ball[s]
           c == [b EXCEPT !.owner = p]
           r == [w EXCEPT !.ball[s] = c]
<1>1. w \in Worlds
  BY DEF Good
<1>2. b \in Object
  BY <1>1, BallFields
<1>3. [w EXCEPT !.ball[s].owner = p] = r
  BY <1>1 DEF Worlds
<1>4. b.treasure # 0 /\ b = w.ball[s] /\ ~w.have[b.treasure]
  OBVIOUS
<1> HIDE DEF b
<1>5. /\ c \in Object /\ c.treasure = b.treasure /\ c.id = b.id /\ c.gravity = b.gravity
      /\ c.recreate = b.recreate /\ c.owner = p
  BY <1>2 DEF Object
<1> HIDE DEF c
<1>6. Good(r) /\ BallSet(w, s, c, r)
  BY <1>4, <1>5, BallGood
<1> HIDE DEF r
<1>7. SameBalls(w, r)
  BY <1>4, <1>5, <1>6 DEF BallSet, SameBalls
<1>8. QED
  BY <1>3, <1>6, <1>7

LEMMA ReleasedGood ==
    ASSUME NEW w, Good(w), NEW p \in Player, NEW s \in Slot
    PROVE  LET r == Detach_ball(w, p, {s})
           IN  Good(r) /\ SameBalls(w, r) /\ r.have = w.have
<1> DEFINE S == {s}
           r == Detach_ball(w, p, S)
<1>1. S \in SUBSET Slot
  OBVIOUS
<1> HIDE DEF S
<1>2. Good(r)
  BY <1>1, Detach_ballGood
<1>3. r.state = w.state
  BY <1>1, Detach_ballGood
<1>4. \A u \in Slot : r.ball[u].treasure = w.ball[u].treasure
  BY <1>1, Detach_ballGood
<1>5. r.have = w.have
  BY <1>1, Detach_ballGood
<1> HIDE DEF r
<1>6. Good(r) /\ SameBalls(w, r) /\ r.have = w.have
  BY <1>2, <1>3, <1>4, <1>5 DEF SameBalls
<1>7. QED
  BY <1>6 DEF r, S

LEMMA TouchGood ==
    ASSUME NEW w, Good(w), NEW p \in Player, w.state[p] # "none",
           NEW s \in Slot, w.ball[s].treasure # 0
    PROVE  LET r == Touch(w, p, s) IN Good(r) /\ SameBalls(w, r)
<1> DEFINE w1 == Hit(w, s)
           i == w.ball[s].id
           d == Detach_ball(w1, i, {s})
           r == Touch(w, p, s)
<1>1. r = IF i = NoId THEN [w1 EXCEPT !.ball[s].owner = p]
          ELSE IF options.ballCollisionDetaches THEN [d EXCEPT !.ball[s].owner = p]
          ELSE w1
  BY DEF Touch, Hit
<1>2. /\ Good(w1) /\ SameBalls(w, w1) /\ ~w1.have[w.ball[s].treasure]
      /\ w1.ball[s].id = i
  BY HitGood
<1>3. i \in Player \cup {NoId}
  BY BallFields DEF Good
<1> HIDE DEF w1, i, r
<1>4. w1.ball[s].treasure # 0 /\ w1.state[p] # "none" /\ ~w1.have[w1.ball[s].treasure]
  BY <1>2 DEF SameBalls
<1>5. CASE i = NoId
  <2>1. r = [w1 EXCEPT !.ball[s].owner = p]
    BY <1>1, <1>5
  <2>2. Good(r) /\ SameBalls(w1, r)
    BY <1>2, <1>4, <2>1, OwnedGood
  <2>3. QED
    BY <1>2, <2>2 DEF SameBalls, r
<1>6. CASE i # NoId /\ options.ballCollisionDetaches
  <2>1. i \in Player
    BY <1>3, <1>6
  <2>2. Good(d) /\ SameBalls(w1, d) /\ d.have = w1.have
    BY <1>2, <2>1, ReleasedGood
  <2> HIDE DEF d
  <2>3. r = [d EXCEPT !.ball[s].owner = p]
    BY <1>1, <1>6
  <2>4. d.ball[s].treasure # 0 /\ ~d.have[d.ball[s].treasure] /\ d.state[p] # "none"
    BY <1>2, <1>4, <2>2 DEF SameBalls
  <2>5. Good(r) /\ SameBalls(d, r)
    BY <2>2, <2>3, <2>4, OwnedGood
  <2>6. QED
    BY <1>2, <2>2, <2>5 DEF SameBalls, r
<1>7. CASE i # NoId /\ ~options.ballCollisionDetaches
  <2>1. r = w1
    BY <1>1, <1>7
  <2>2. QED
    BY <1>2, <2>1 DEF r
<1>8. QED
  BY <1>5, <1>6, <1>7

(* Balls that p carries end up in walls. *)
Warped(w, p, at, S) ==
    [w EXCEPT !.ptr[p] = at,
              !.ball = [s \in Slot |-> IF s \in S THEN [@[s] EXCEPT !.life = 0] ELSE @[s]]]

LEMMA WarpGood ==
    ASSUME NEW w, Good(w), NEW p \in Player, NEW at \in Slot \cup {Null},
           NEW S \in SUBSET {s \in Slot : w.ball[s].treasure # 0}
    PROVE  Good(Warped(w, p, at, S))
<1> DEFINE q == [w.ptr EXCEPT ![p] = at]
           B == [s \in Slot |-> IF s \in S THEN [w.ball[s] EXCEPT !.life = 0] ELSE w.ball[s]]
           r == Warped(w, p, at, S)
<1>1. w \in Worlds
  BY DEF Good
<1>2. r = [w EXCEPT !.ptr = q, !.ball = B]
  BY <1>1 DEF Worlds, Warped
<1>3. q \in [Player -> Slot \cup {Null}]
  BY <1>1, WorldFields
<1>4. \A x \in Object : LET y == [x EXCEPT !.life = 0]
                        IN  /\ y \in Object /\ y.treasure = x.treasure /\ y.id = x.id
                            /\ y.owner = x.owner /\ y.recreate = x.recreate
                            /\ y.gravity = x.gravity
  BY DEF Object
<1>5. \A s \in Slot : w.ball[s] \in Object
  BY <1>1, BallFields
<1>6. ASSUME NEW s \in Slot
      PROVE  /\ B[s] \in Object
             /\ B[s].treasure = w.ball[s].treasure /\ B[s].id = w.ball[s].id
             /\ B[s].owner = w.ball[s].owner /\ B[s].recreate = w.ball[s].recreate
             /\ B[s].gravity = w.ball[s].gravity
             /\ s \notin S => B[s] = w.ball[s]
  <2>1. CASE s \in S
    <3>1. B[s] = [w.ball[s] EXCEPT !.life = 0]
      BY <2>1
    <3> HIDE DEF B
    <3>2. QED
      BY <1>4, <1>5, <2>1, <3>1
  <2>2. CASE s \notin S
    <3>1. B[s] = w.ball[s]
      BY <2>2
    <3> HIDE DEF B
    <3>2. QED
      BY <1>5, <3>1
  <2>3. QED
    BY <2>1, <2>2
<1>7. B \in [Slot -> Object]
  <2>1. \A s \in Slot : B[s] \in Object
    BY <1>6
  <2>2. B = [s \in Slot |-> B[s]]
    OBVIOUS
  <2> HIDE DEF B
  <2>3. QED
    BY <2>1, <2>2
<1> HIDE DEF q, B, r
<1>8. /\ r \in Worlds /\ r.ball = B /\ r.hasBall = w.hasBall
      /\ r.state = w.state /\ r.Obj = w.Obj /\ r.n = w.n /\ r.have = w.have
      /\ r.destroyed = w.destroyed /\ r.left = w.left
      /\ r.strayed = w.strayed /\ r.robbed = w.robbed
  BY <1>1, <1>2, <1>3, <1>7 DEF Worlds
<1>9. \A s \in Slot : w.ball[s].treasure = 0 => s \notin S
  OBVIOUS
<1>10. KeepsPlaces(w, r)
  BY <1>6, <1>8, <1>9 DEF KeepsPlaces
<1>11. Kept(w, r)
  BY <1>6, <1>8 DEF Kept
<1>12. Playing(r) /\ OwnersPresent(r)
  BY <1>6, <1>8 DEF Good, Playing, OwnersPresent
<1>13. QED
  BY <1>8, <1>10, <1>11, <1>12, ChangeGood DEF r

-----------------------------------------------------------------------------
(* The steps.                                                              *)

(* What the world is when the traces of strays have been cleared. *)
Pruned(w) ==
    [w EXCEPT !.strayed = w.strayed \cap w.hasBall,
              !.robbed = {t \in w.robbed : ~w.have[t]}]

LEMMA PrunedGood ==
    ASSUME NEW w, Good(w)
    PROVE  LET r == Pruned(w)
           IN  /\ Good(r) /\ r \in Worlds
               /\ r.state = w.state /\ r.hasBall = w.hasBall /\ r.ptr = w.ptr
               /\ r.ball = w.ball /\ r.Obj = w.Obj /\ r.n = w.n /\ r.have = w.have
               /\ r.destroyed = w.destroyed /\ r.left = w.left /\ r.won = w.won
               /\ r.strayed = w.strayed \cap w.hasBall
               /\ r.robbed = {t \in w.robbed : ~w.have[t]}
<1> DEFINE r == Pruned(w)
           a == w.strayed \cap w.hasBall
           b == {t \in w.robbed : ~w.have[t]}
<1>1. w \in Worlds
  BY DEF Good
<1>2. r = [w EXCEPT !.strayed = a, !.robbed = b]
  BY DEF Pruned
<1>3. a \in SUBSET Player /\ b \in SUBSET Treasure
  BY <1>1, WorldFields
<1> HIDE DEF a, b, r
<1>4. /\ r \in Worlds /\ r.state = w.state /\ r.hasBall = w.hasBall /\ r.ptr = w.ptr
      /\ r.ball = w.ball /\ r.Obj = w.Obj /\ r.n = w.n /\ r.have = w.have
      /\ r.destroyed = w.destroyed /\ r.left = w.left /\ r.won = w.won
      /\ r.strayed = a /\ r.robbed = b
  BY <1>1, <1>2, <1>3 DEF Worlds
<1>5. KeepsPlaces(w, r)
  BY <1>4 DEF KeepsPlaces
<1>6. Placed(r) /\ OneEach(r) /\ Roomy(r)
  BY <1>5, PlacesKept DEF Good
<1>7. Lost(r)
  BY <1>1, <1>4, <1>5, LostKept DEF Good
<1>8. Had(r)
  <2>1. \A t \in Treasure : Untaken(r, t) <=> Untaken(w, t)
    BY <1>4 DEF Untaken
  <2>2. QED
    BY <1>4, <2>1 DEF Good, Had, b
<1>9. Carried(r)
  <2>1. \A p \in Player : Holds(r, p) <=> Holds(w, p)
    BY <1>4 DEF Holds
  <2>2. QED
    BY <1>4, <2>1 DEF Good, Carried, a
<1>10. Playing(r) /\ OwnersPresent(r) /\ Counted(r)
  BY <1>4 DEF Good, Playing, OwnersPresent, Counted
<1>11. QED
  BY <1>4, <1>6, <1>7, <1>8, <1>9, <1>10 DEF Good, r, a, b

(* Good is a predicate of the value that the world has after a step.       *)
LEMMA GoodPrimed == Good(World') => Good(World)'
BY DEF Good, Worlds, InUse, Placed, Others, Roomy, OneEach, Lost, Untaken, Had, Holds,
       Carried, Playing, OwnersPresent, Counted

LEMMA BecomeIs ==
    ASSUME NEW w, Good(w), Become(w)
    PROVE  Good(World)' /\ Settled' /\ ball' = w.ball /\ options' = options
<1>1. w \in Worlds
  BY DEF Good
<1> DEFINE r == Pruned(w)
<1>2. /\ Good(r) /\ r \in Worlds
      /\ r.state = w.state /\ r.hasBall = w.hasBall /\ r.ptr = w.ptr
      /\ r.ball = w.ball /\ r.Obj = w.Obj /\ r.n = w.n /\ r.have = w.have
      /\ r.destroyed = w.destroyed /\ r.left = w.left /\ r.won = w.won
      /\ r.strayed = w.strayed \cap w.hasBall
      /\ r.robbed = {t \in w.robbed : ~w.have[t]}
  BY PrunedGood
<1> HIDE DEF r
<1>3. r = [state |-> r.state, hasBall |-> r.hasBall, ptr |-> r.ptr, ball |-> r.ball,
           Obj |-> r.Obj, n |-> r.n, have |-> r.have, destroyed |-> r.destroyed,
           left |-> r.left, won |-> r.won, strayed |-> r.strayed, robbed |-> r.robbed]
  BY <1>2 DEF Worlds
<1>4. World' = r
  BY <1>2, <1>3 DEF Become, World
<1>5. Good(World)'
  BY <1>2, <1>4, GoodPrimed
<1>6. Settled'
  BY <1>1, WorldFields DEF Become, Settled
<1>7. QED
  BY <1>5, <1>6 DEF Become

(* Nothing more has to be visited, and no ball is gone. *)
LEMMA Goes ==
    ASSUME IInv, NEW w, Good(w), Become(w), UNCHANGED phase, todo' \in SUBSET todo,
           phase \in {"objects", "collide"} => SameBalls(World, w)
    PROVE  IInv'
<1>1. Good(World)' /\ Settled' /\ ball' = w.ball /\ options' = options
  BY BecomeIs
<1>2. phase \in {"objects", "collide"} => Balls' = Balls
  BY <1>1 DEF SameBalls, Balls, World
<1>3. Awaited'
  BY <1>1, <1>2 DEF IInv, Awaited
<1>4. QED
  BY <1>1, <1>3 DEF IInv

LEMMA Turned ==
    ASSUME IInv, NEW w, Good(w), Become(w), SameBalls(World, w),
           NEW p \in Player, NEW S \in SUBSET Balls, Turn(p, S)
    PROVE  IInv'
<1>1. Good(World)' /\ Settled' /\ ball' = w.ball /\ options' = options
  BY BecomeIs
<1>2. Balls' = Balls
  BY <1>1 DEF SameBalls, Balls, World
<1>3. /\ phase = "collide" /\ phase' = "collide"
      /\ todo' = ((todo \cap Player) \ {p}) \cup ({p} \X S)
  BY DEF Turn
<1>4. \A q \in Player, s \in Slot : <<q, s>> \in todo' => s \in Balls
  <2>1. \A q \in Player, s \in Slot : <<q, s>> \notin Player
    BY Names
  <2>2. QED
    BY <1>3, <2>1
<1>5. todo' \subseteq Player \cup Slot \cup (Player \X Slot)
  BY <1>3 DEF Balls
<1>6. Awaited'
  BY <1>1, <1>2, <1>3, <1>4, <1>5 DEF IInv, Awaited
<1>7. QED
  BY <1>1, <1>6 DEF IInv

(* The fields of the world, and who carries a ball. *)
LEMMA WorldIs ==
    /\ World.state = state /\ World.hasBall = hasBall /\ World.ptr = ptr
    /\ World.ball = ball /\ World.have = have /\ World.n = ObjCount /\ World.Obj = Obj
    /\ World.destroyed = destroyed /\ World.left = TreasuresLeft
    /\ World.strayed = strayed /\ World.robbed = robbed
BY DEF World

LEMMA CarrierPlays ==
    ASSUME IInv, NEW p \in hasBall
    PROVE  p \in Player /\ state[p] \in {"alive", "killed"}
BY WorldIs, WorldFields DEF IInv, Good, Playing

LEMMA EnterKeeps ==
    ASSUME IInv, NEW p \in Player, Enter(p)
    PROVE  IInv'
<1>1. PICK st \in {"alive", "dead", "paused"} : Become([World EXCEPT !.state[p] = st])
  BY DEF Enter
<1> DEFINE w == [World EXCEPT !.state[p] = st]
<1>2. p \notin World.hasBall
  BY CarrierPlays, WorldIs DEF Enter
<1>3. Good(World) /\ st \in States /\ st # "none"
  BY DEF IInv, States
<1>4. Good(w)
  BY <1>2, <1>3, PlayerGood
<1>5. Become(w) /\ UNCHANGED <<phase, todo>> /\ phase = "input"
  BY <1>1 DEF Enter, Input
<1> HIDE DEF w
<1>6. QED
  BY <1>4, <1>5, Goes

LEMMA Destroy_connectionKeeps ==
    ASSUME IInv, NEW p \in Player, Destroy_connection(p)
    PROVE  IInv'
<1> DEFINE w == Delete_player(World, p)
<1>1. Good(w)
  BY Delete_playerGood DEF IInv
<1>2. Become(w) /\ UNCHANGED <<phase, todo>> /\ phase = "input"
  BY DEF Destroy_connection, Input
<1> HIDE DEF w
<1>3. QED
  BY <1>1, <1>2, Goes

LEMMA Pause_playerKeeps ==
    ASSUME IInv, NEW p \in Player, Pause_player(p)
    PROVE  IInv'
<1>1. UNCHANGED <<phase, todo>> /\ phase = "input"
  BY DEF Pause_player, Input
<1>2. CASE Become(PauseOn(World, p))
  <2>1. Good(PauseOn(World, p))
    BY PauseOnGood DEF IInv
  <2>2. QED
    BY <1>1, <1>2, <2>1, Goes
<1>3. ASSUME state[p] = "paused", NEW st \in {"alive", "dead"},
             Become([World EXCEPT !.state[p] = st])
      PROVE  IInv'
  <2> DEFINE w == [World EXCEPT !.state[p] = st]
  <2>1. p \notin World.hasBall
    BY <1>3, CarrierPlays, WorldIs
  <2>2. Good(World) /\ st \in States /\ st # "none"
    BY DEF IInv, States
  <2>3. Good(w)
    BY <2>1, <2>2, PlayerGood
  <2>4. Become(w)
    BY <1>3
  <2> HIDE DEF w
  <2>5. QED
    BY <1>1, <2>3, <2>4, Goes
<1>4. QED
  BY <1>2, <1>3 DEF Pause_player

LEMMA Drop_ballKeeps ==
    ASSUME IInv, NEW p \in Player, Drop_ball(p)
    PROVE  IInv'
<1> DEFINE w == Detach_ball(World, p, Slot)
<1>1. Good(w)
  BY Detach_ballGood DEF IInv
<1>2. Become(w) /\ UNCHANGED <<phase, todo>> /\ phase = "input"
  BY DEF Drop_ball, Input
<1> HIDE DEF w
<1>3. QED
  BY <1>1, <1>2, Goes

LEMMA Fire_ecmKeeps ==
    ASSUME IInv, NEW p \in Player, Fire_ecm(p)
    PROVE  IInv'
<1>1. PICK S \in SUBSET {s \in Balls : ball[s].owner = p} :
         Become(VisitLooseAll(p, World, SetToSeq(S)))
  BY DEF Fire_ecm, VisitLooseAll, VisitLoose
<1>2. S \in SUBSET Slot
  BY DEF Balls
<1> DEFINE w == VisitLooseAll(p, World, SetToSeq(S))
<1>3. Good(w)
  BY <1>2, LooseGood DEF IInv
<1>4. Become(w) /\ UNCHANGED <<phase, todo>> /\ phase = "input"
  BY <1>1 DEF Fire_ecm, Input
<1> HIDE DEF w
<1>5. QED
  BY <1>3, <1>4, Goes

(* There is room for one more object. *)
LEMMA RoomForOne ==
    ASSUME NEW w, Good(w),
           w.n - Cardinality({s \in Slot : w.ball[s].treasure # 0}) < Cap - NumTreasures
    PROVE  /\ w.n < Cap /\ IsFiniteSet(Others(w))
           /\ Cardinality(Others(w)) + 1 <= Cap - NumTreasures
<1> DEFINE B == {s \in Slot : w.ball[s].treasure # 0}
           U == {s \in Slot : InUse(w, s)}
           f == [s \in B |-> w.ball[s].treasure]
<1>1. w \in Worlds /\ Placed(w) /\ OneEach(w)
  BY DEF Good
<1>2. Cap \in Nat /\ NumTreasures \in Nat /\ w.n \in Nat
  BY <1>1, Bounds, WorldCounts
<1>3. IsFiniteSet(U) /\ Cardinality(U) = w.n
  BY <1>1, UsedCount
<1>4. Cardinality(B) <= NumTreasures
  <2>1. f \in [B -> Treasure]
    BY <1>1, BallFields
  <2>2. \A a, b \in B : f[a] = f[b] => a = b
    BY <1>1 DEF OneEach
  <2> HIDE DEF f, B
  <2>3. f \in Injection(B, Treasure)
    BY <2>1, <2>2, Fun_IsInj
  <2>4. IsFiniteSet(Treasure) /\ Cardinality(Treasure) = NumTreasures
    <3>1. /\ IsFiniteSet(1 .. NumTreasures)
          /\ Cardinality(1 .. NumTreasures) = IF 1 > NumTreasures THEN 0
                                              ELSE NumTreasures - 1 + 1
      BY <1>2, FS_Interval
    <3>2. QED
      BY <1>2, <3>1 DEF Treasure
  <2>5. QED
    BY <2>3, <2>4, FS_Injection
<1>5. Others(w) = U \ B /\ U \cap B = B
  BY <1>1 DEF Others, Placed
<1>6. w.n - Cardinality(B) < Cap - NumTreasures
  OBVIOUS
<1> HIDE DEF B, U
<1>7. IsFiniteSet(Others(w)) /\ Cardinality(Others(w)) = w.n - Cardinality(B)
  BY <1>3, <1>5, FS_Difference
<1>8. Cardinality(B) \in Nat
  BY <1>3, <1>5, FS_Subset, FS_CardinalityType
<1>9. QED
  BY <1>2, <1>4, <1>6, <1>7, <1>8

(* Another object is made in the slot that is next. *)
LEMMA LaunchedGood ==
    ASSUME NEW w, Good(w), NEW c \in Object, c.treasure = 0, c.owner = NoId, w.n < Cap,
           IsFiniteSet(Others(w)), Cardinality(Others(w)) + 1 <= Cap - NumTreasures
    PROVE  Good([w EXCEPT !.ball[w.Obj[w.n + 1]] = c, !.n = @ + 1])
<1> DEFINE s == w.Obj[w.n + 1]
           B == [w.ball EXCEPT ![s] = c]
           k == w.n + 1
           r == [w EXCEPT !.ball[s] = c, !.n = @ + 1]
<1>1. w \in Worlds /\ Placed(w)
  BY DEF Good
<1>2. r = [w EXCEPT !.ball = B, !.n = k]
  BY <1>1 DEF Worlds
<1>3. k \in 0 .. Cap /\ k \in 1 .. Cap
  BY <1>1, WorldCounts
<1>4. s \in Slot
  BY <1>1, <1>3, WorldFields
<1>5. B \in [Slot -> Object] /\ B[s] = c /\ \A u \in Slot \ {s} : B[u] = w.ball[u]
  BY <1>1, <1>4, WorldFields
<1> HIDE DEF B, r
<1>6. /\ r \in Worlds /\ r.ball = B /\ r.Obj = w.Obj /\ r.n = w.n + 1
      /\ r.state = w.state /\ r.hasBall = w.hasBall /\ r.have = w.have
      /\ r.destroyed = w.destroyed /\ r.left = w.left
      /\ r.strayed = w.strayed /\ r.robbed = w.robbed
  BY <1>1, <1>2, <1>3, <1>5 DEF Worlds
<1>7. /\ ~InUse(w, s) /\ w.ball[s] = Gone
      /\ \A u \in Slot : InUse(r, u) <=> InUse(w, u) \/ u = s
  BY <1>1, <1>6, NextSlot
<1> HIDE DEF s, k
<1>8. \A u \in Slot : \/ r.ball[u] = w.ball[u]
                      \/ /\ u = s /\ r.ball[u].treasure = 0 /\ w.ball[u].treasure = 0
                         /\ r.ball[u].owner = NoId
  BY <1>5, <1>6, <1>7, GoneIs
<1>9. Placed(r)
  BY <1>1, <1>6, <1>7, <1>8 DEF Placed
<1>10. Roomy(r)
  <2>1. Others(r) = Others(w) \cup {s}
    BY <1>4, <1>5, <1>6, <1>7, <1>8 DEF Others
  <2>2. Cardinality(Others(w)) \in Nat /\ Cap - NumTreasures \in Int
    BY FS_CardinalityType, Bounds
  <2>3. Cardinality(Others(r)) \in {Cardinality(Others(w)), Cardinality(Others(w)) + 1}
    BY <2>1, FS_AddElement
  <2>4. QED
    BY <2>2, <2>3 DEF Roomy
<1>11. OneEach(r) /\ Lost(r)
  BY <1>6, <1>8 DEF Good, OneEach, Lost
<1>12. Had(r)
  <2>1. \A x \in Treasure : Untaken(r, x) <=> Untaken(w, x)
    BY <1>8, Bounds DEF Untaken
  <2>2. QED
    BY <1>6, <1>8, <2>1 DEF Good, Had
<1>13. Carried(r)
  <2>1. \A p \in Player : Holds(r, p) <=> Holds(w, p)
    BY <1>8 DEF Holds
  <2>2. QED
    BY <1>6, <2>1 DEF Good, Carried
<1>14. Playing(r) /\ Counted(r)
  BY <1>6 DEF Good, Playing, Counted
<1>15. OwnersPresent(r)
  BY <1>6, <1>8 DEF Good, OwnersPresent
<1>16. QED
  BY <1>6, <1>9, <1>10, <1>11, <1>12, <1>13, <1>14, <1>15 DEF Good, r, s

LEMMA LaunchKeeps ==
    ASSUME IInv, Launch
    PROVE  IInv'
<1> DEFINE c == [Gone EXCEPT !.life = 1]
           w == [World EXCEPT !.ball[Obj[ObjCount + 1]] = c, !.n = @ + 1]
<1>1. Good(World)
  BY DEF IInv
<1>2. Become(w) /\ UNCHANGED <<phase, todo>> /\ phase \in {"input", "players"}
  BY DEF Launch
<1>3. /\ World.n < Cap /\ IsFiniteSet(Others(World))
      /\ Cardinality(Others(World)) + 1 <= Cap - NumTreasures
  BY <1>1, RoomForOne, WorldIs DEF Launch, Balls, Cap
<1>4. c \in Object /\ c.treasure = 0 /\ c.owner = NoId
  BY Bounds DEF Gone, Object
<1>5. w = [World EXCEPT !.ball[World.Obj[World.n + 1]] = c, !.n = @ + 1]
  BY WorldIs
<1> HIDE DEF c, w
<1>6. Good(w)
  BY <1>1, <1>3, <1>4, <1>5, LaunchedGood
<1>7. QED
  BY <1>2, <1>6, Goes

LEMMA Cmd_resetKeeps ==
    ASSUME IInv, Cmd_reset
    PROVE  IInv'
<1> DEFINE v == FoldOver(VisitAny, World, Downwards(World))
           w == Reset_all_players(v)
<1>1. Become(w) /\ UNCHANGED <<phase, todo>> /\ phase = "input"
  BY DEF Cmd_reset, Input, VisitAny
<1>2. Good(v)
  BY ClearedGood DEF IInv
<1> HIDE DEF v
<1>3. Good(w)
  BY <1>2, Reset_all_playersGood
<1> HIDE DEF w
<1>4. QED
  BY <1>1, <1>3, Goes

LEMMA Update_objectsKeeps ==
    ASSUME IInv, Update_objects
    PROVE  IInv'
<1>1. PICK ph \in {"objects", "players", "collide", "cleanup"}, V \in {Balls, Present} :
         Enters(ph, V) /\ (ph = "objects" => V = Balls) /\ (ph = "collide" => V = Present)
  BY DEF Update_objects
<1>2. World' = World /\ Balls' = Balls /\ options' = options /\ phase' = ph /\ todo' = V
  BY <1>1 DEF Enters, World, Balls
<1>3. \A q \in Player, s \in Slot : <<q, s>> \notin Player
  BY Names
<1>4. Awaited'
  BY <1>1, <1>2, <1>3 DEF IInv, Awaited, Balls, Present
<1>5. Good(World)'
  BY <1>2, GoodPrimed DEF IInv
<1>6. Settled'
  BY <1>1 DEF Enters, IInv, Settled
<1>7. QED
  BY <1>4, <1>5, <1>6 DEF IInv

LEMMA Update_connector_forceKeeps ==
    ASSUME IInv, NEW s \in Slot, Update_connector_force(s)
    PROVE  IInv'
<1> DEFINE w == Detach_ball(World, ball[s].id, {s})
<1>1. Good(World)
  BY DEF IInv
<1>2. ball[s].id \in Player
  BY <1>1, BallFields, WorldIs DEF Good, Update_connector_force
<1>3. Good(w) /\ SameBalls(World, w)
  BY <1>1, <1>2, ReleasedGood
<1>4. Become(w) /\ UNCHANGED <<phase, todo>>
  BY DEF Update_connector_force
<1> HIDE DEF w
<1>5. QED
  BY <1>3, <1>4, Goes

LEMMA Move_ballKeeps ==
    ASSUME IInv, NEW s \in Slot, Move_ball(s)
    PROVE  IInv'
<1>1. PICK w \in Goals(World, s) : Become(w)
  BY DEF Move_ball
<1>2. UNCHANGED phase /\ todo' \in SUBSET todo
  BY DEF Move_ball, Visits
<1>3. Good(World) /\ World.ball[s].treasure # 0
  BY WorldIs DEF IInv, Awaited, Move_ball, Visits, Balls
<1>4. Good(w) /\ SameBalls(World, w)
  BY <1>3, GoalsGood
<1>5. QED
  BY <1>1, <1>2, <1>4, Goes

(* A ball that is to die is still there. *)
LEMMA DeadGood ==
    ASSUME NEW w, Good(w), NEW s \in Slot, w.ball[s].treasure # 0
    PROVE  LET r == [w EXCEPT !.ball[s].life = 0] IN Good(r) /\ SameBalls(w, r)
<1> DEFINE r == [w EXCEPT !.ball[s].life = 0]
           c == [w.ball[s] EXCEPT !.life = 0]
<1>1. Good(r) /\ BallSet(w, s, c, r)
  BY LifeGood DEF Good, Placed
<1>2. c.treasure = w.ball[s].treasure
  BY BallFields DEF Good, Object
<1> HIDE DEF r, c
<1>3. SameBalls(w, r)
  BY <1>1, <1>2 DEF BallSet, SameBalls
<1>4. QED
  BY <1>1, <1>3 DEF r

LEMMA SmashKeeps ==
    ASSUME IInv, NEW s \in Slot, Smash(s)
    PROVE  IInv'
<1> DEFINE w == [World EXCEPT !.ball[s].life = 0]
<1>1. Become(w) /\ UNCHANGED phase /\ todo' \in SUBSET todo
  BY DEF Smash, Visits
<1>2. Good(World) /\ World.ball[s].treasure # 0
  BY WorldIs DEF IInv, Awaited, Smash, Visits, Balls
<1>3. Good(w) /\ SameBalls(World, w)
  BY <1>2, DeadGood
<1> HIDE DEF w
<1>4. QED
  BY <1>1, <1>3, Goes

(* Nothing lives in a slot that is not in use. *)
LEMMA LivesInUse ==
    ASSUME NEW w, Good(w), NEW s \in Slot, w.ball[s].life > 0
    PROVE  InUse(w, s)
BY GoneIs DEF Good, Placed

LEMMA ExpireKeeps ==
    ASSUME IInv, NEW s \in Slot, Expire(s)
    PROVE  IInv'
<1> DEFINE w == [World EXCEPT !.ball[s].life = 0]
           c == [World.ball[s] EXCEPT !.life = 0]
<1>1. Become(w) /\ UNCHANGED <<phase, todo>>
  BY DEF Expire
<1>2. Good(World) /\ InUse(World, s)
  BY LivesInUse, WorldIs DEF IInv, Expire
<1>3. Good(w) /\ BallSet(World, s, c, w)
  BY <1>2, LifeGood
<1>4. c.treasure = World.ball[s].treasure
  BY <1>2, BallFields DEF Good, Object
<1> HIDE DEF w, c
<1>5. SameBalls(World, w)
  BY <1>3, <1>4 DEF BallSet, SameBalls
<1>6. QED
  BY <1>1, <1>3, <1>5, Goes

LEMMA Meet_deathKeeps ==
    ASSUME IInv, NEW p \in Player, Meet_death(p)
    PROVE  IInv'
<1> DEFINE w == [World EXCEPT !.state[p] = "killed"]
<1>1. Become(w) /\ UNCHANGED <<phase, todo>>
  BY DEF Meet_death
<1>2. Good(World) /\ "killed" \in States
  BY DEF IInv, States
<1>3. Good(w)
  BY <1>2, PlayerGood
<1>4. SameBalls(World, w)
  BY <1>2 DEF SameBalls, Good, Worlds
<1> HIDE DEF w
<1>5. QED
  BY <1>1, <1>3, <1>4, Goes

LEMMA Warp_ballsKeeps ==
    ASSUME IInv, NEW p \in Player, Warp_balls(p)
    PROVE  IInv'
<1>1. PICK S \in SUBSET {s \in Balls : ball[s].id = p}, at \in {Null, ptr[p]} :
         Become(Warped(World, p, at, S))
  BY DEF Warp_balls, Warped
<1> DEFINE w == Warped(World, p, at, S)
<1>2. Good(World)
  BY DEF IInv
<1>3. /\ S \in SUBSET {s \in Slot : World.ball[s].treasure # 0}
      /\ at \in Slot \cup {Null}
  BY <1>2, WorldIs, WorldFields DEF Good, Balls
<1>4. Good(w)
  BY <1>2, <1>3, WarpGood
<1>5. Become(w)
  BY <1>1
<1>6. phase = "players" /\ UNCHANGED phase /\ todo' \in SUBSET todo
  BY DEF Warp_balls, Visits
<1> HIDE DEF w
<1>7. QED
  BY <1>4, <1>5, <1>6, Goes

LEMMA Kick_flooderKeeps ==
    ASSUME IInv, NEW p \in Player, Kick_flooder(p)
    PROVE  IInv'
<1> DEFINE w == Delete_player(World, p)
<1>1. Good(w)
  BY Delete_playerGood DEF IInv
<1>2. Become(w) /\ UNCHANGED phase /\ todo' \in SUBSET todo /\ phase = "players"
  BY DEF Kick_flooder, Visits
<1> HIDE DEF w
<1>3. QED
  BY <1>1, <1>2, Goes

(* A player reaches for something else, or for nothing. *)
LEMMA ReachesKeeps ==
    ASSUME IInv, NEW p \in Player, NEW a \in Slot \cup {Null}, Turn(p, Balls),
           Become([World EXCEPT !.ptr[p] = a])
    PROVE  IInv'
<1> DEFINE w == [World EXCEPT !.ptr[p] = a]
<1>1. Good(w)
  BY ReachGood DEF IInv
<1>2. SameBalls(World, w)
  BY DEF IInv, Good, Worlds, SameBalls
<1>3. Become(w) /\ Balls \in SUBSET Balls
  OBVIOUS
<1> HIDE DEF w
<1>4. QED
  BY <1>1, <1>2, <1>3, Turned

LEMMA ConnectsKeeps ==
    ASSUME IInv, NEW p \in Player, Connects(p)
    PROVE  IInv'
<1> DEFINE s == ptr[p]
           w == Connect(World, p, s)
<1>1. Good(World)
  BY DEF IInv
<1>2. s \in Slot
  BY <1>1, WorldIs, WorldFields DEF Connects, Good
<1>3. CASE Turn(p, Balls) /\ Become([World EXCEPT !.ptr[p] = Null])
  BY <1>3, ReachesKeeps
<1>4. CASE Turn(p, Balls) /\ Become(World)
  <2>1. SameBalls(World, World)
    BY DEF SameBalls
  <2>2. QED
    BY <1>1, <1>4, <2>1, Turned
<1>5. ASSUME Free(s), s \in Balls, Turn(p, Balls \ {s}), NEW v \in {w} \cup Goals(w, s), Become(v)
      PROVE  IInv'
  <2>1. World.ball[s].treasure # 0 /\ World.ball[s].id = NoId
    BY <1>5, WorldIs DEF Free, Balls
  <2>2. World.state[p] \in {"alive", "killed"}
    BY <1>5, WorldIs DEF Turn
  <2> HIDE DEF s
  <2>3. Good(w) /\ SameBalls(World, w)
    BY <1>1, <1>2, <2>1, <2>2, ConnectGood
  <2> HIDE DEF w
  <2>4. w.ball[s].treasure # 0
    BY <1>2, <2>1, <2>3 DEF SameBalls
  <2>5. Good(v) /\ SameBalls(w, v)
    <3>1. CASE v = w
      BY <2>3, <3>1 DEF SameBalls
    <3>2. CASE v \in Goals(w, s)
      BY <1>2, <2>3, <2>4, <3>2, GoalsGood
    <3>3. QED
      BY <1>5, <3>1, <3>2
  <2>6. SameBalls(World, v)
    BY <2>3, <2>5 DEF SameBalls
  <2>7. Balls \ {s} \in SUBSET Balls
    OBVIOUS
  <2>8. QED
    BY <1>5, <2>5, <2>6, <2>7, Turned
<1>6. QED
  BY <1>3, <1>4, <1>5 DEF Connects

(* HAS_BALL for nothing, at the cost of some treasure. *)
LEMMA StrayedGood ==
    ASSUME NEW w, Good(w), NEW p \in Player, w.state[p] \in {"alive", "killed"},
           NEW t \in Treasure
    PROVE  LET r == [w EXCEPT !.have[t] = FALSE, !.hasBall = @ \cup {p},
                              !.strayed = @ \cup {p}, !.robbed = @ \cup {t}]
           IN  Good(r) /\ r.ball = w.ball /\ r.state = w.state
<1> DEFINE hv == [w.have EXCEPT ![t] = FALSE]
           h == w.hasBall \cup {p}
           a == w.strayed \cup {p}
           b == w.robbed \cup {t}
           r == [w EXCEPT !.have[t] = FALSE, !.hasBall = @ \cup {p},
                          !.strayed = @ \cup {p}, !.robbed = @ \cup {t}]
<1>1. w \in Worlds
  BY DEF Good
<1>2. r = [w EXCEPT !.have = hv, !.hasBall = h, !.strayed = a, !.robbed = b]
  BY <1>1 DEF Worlds
<1>3. /\ h \in SUBSET Player /\ a \in SUBSET Player /\ b \in SUBSET Treasure
      /\ hv \in [Treasure -> BOOLEAN] /\ ~hv[t]
      /\ \A x \in Treasure \ {t} : hv[x] = w.have[x]
  BY <1>1, WorldFields
<1> HIDE DEF hv, h, a, b, r
<1>4. /\ r \in Worlds /\ r.state = w.state /\ r.hasBall = h
      /\ r.ball = w.ball /\ r.Obj = w.Obj /\ r.n = w.n /\ r.have = hv
      /\ r.destroyed = w.destroyed /\ r.left = w.left
      /\ r.strayed = a /\ r.robbed = b
  BY <1>1, <1>2, <1>3 DEF Worlds
<1>5. KeepsPlaces(w, r)
  BY <1>4 DEF KeepsPlaces
<1>6. Placed(r) /\ OneEach(r) /\ Roomy(r)
  BY <1>5, PlacesKept DEF Good
<1>7. Lost(r)
  BY <1>1, <1>4, <1>5, LostKept DEF Good
<1>8. Had(r)
  <2>1. \A x \in Treasure : Untaken(r, x) <=> Untaken(w, x)
    BY <1>4 DEF Untaken
  <2>2. \A x \in Treasure : /\ r.have[x] => Untaken(r, x)
                            /\ Untaken(r, x) => r.have[x] \/ x \in r.robbed
    BY <1>3, <1>4, <2>1 DEF Good, Had, b
  <2>3. \A s \in Slot : w.ball[s].treasure # 0 => w.ball[s].treasure \in Treasure
    BY <1>1, BallFields
  <2>4. QED
    BY <1>3, <1>4, <2>2, <2>3 DEF Good, Had
<1>9. Carried(r)
  <2>1. \A x \in Player : Holds(r, x) <=> Holds(w, x)
    BY <1>4 DEF Holds
  <2>2. QED
    BY <1>4, <2>1 DEF Good, Carried, h, a
<1>10. Playing(r) /\ OwnersPresent(r) /\ Counted(r)
  BY <1>4 DEF Good, Playing, OwnersPresent, Counted, h
<1>11. QED
  BY <1>4, <1>6, <1>7, <1>8, <1>9, <1>10 DEF Good, r

LEMMA StrayKeeps ==
    ASSUME IInv, NEW p \in Player, Stray(p)
    PROVE  IInv'
<1> DEFINE s == ptr[p]
           c == [World.ball[s] EXCEPT !.id = p]
<1>1. Good(World) /\ World \in Worlds
  BY DEF IInv, Good
<1>2. s \in Slot
  BY <1>1, WorldIs, WorldFields DEF Stray
<1>3. /\ World.ball[s].life > 0 /\ World.ball[s].treasure = 0
      /\ World.state[p] \in {"alive", "killed"} /\ Turn(p, Balls)
  BY <1>2, WorldIs DEF Stray, Free, Balls, Turn
<1>4. PICK t \in Treasure :
         Become([World EXCEPT !.ball[s].id = p, !.have[t] = FALSE,
                              !.hasBall = @ \cup {p}, !.ptr[p] = Null,
                              !.strayed = @ \cup {p}, !.robbed = @ \cup {t}])
  BY DEF Stray
<1> DEFINE u == [World EXCEPT !.ball[s] = c]
           v == [u EXCEPT !.have[t] = FALSE, !.hasBall = @ \cup {p},
                          !.strayed = @ \cup {p}, !.robbed = @ \cup {t}]
           w == [v EXCEPT !.ptr[p] = Null]
<1> HIDE DEF s
<1>5. [World EXCEPT !.ball[s].id = p, !.have[t] = FALSE,
                    !.hasBall = @ \cup {p}, !.ptr[p] = Null,
                    !.strayed = @ \cup {p}, !.robbed = @ \cup {t}] = w
  BY <1>1 DEF Worlds
<1>6. InUse(World, s)
  BY <1>1, <1>2, <1>3, LivesInUse
<1>7. c \in Object /\ c.treasure = 0 /\ c.owner = NoId
  BY <1>1, <1>2, <1>3, BallFields DEF Object, Good, Placed
<1>8. Become(w)
  BY <1>4, <1>5
<1> HIDE DEF c
<1>9. Good(u) /\ BallSet(World, s, c, u)
  BY <1>1, <1>2, <1>3, <1>6, <1>7, OtherGood
<1> HIDE DEF u
<1>10. u.state[p] \in {"alive", "killed"}
  BY <1>3, <1>9 DEF BallSet
<1>11. Good(v) /\ v.ball = u.ball /\ v.state = u.state
  BY <1>9, <1>10, StrayedGood
<1> HIDE DEF v
<1>12. Good(w)
  BY <1>11, ReachGood
<1>13. w.ball = v.ball /\ w.state = v.state
  BY <1>11 DEF Good, Worlds
<1> HIDE DEF w
<1>14. SameBalls(World, w)
  BY <1>3, <1>7, <1>9, <1>11, <1>13 DEF BallSet, SameBalls
<1>15. QED
  BY <1>3, <1>8, <1>12, <1>14, Turned

LEMMA Player_collides_with_ballKeeps ==
    ASSUME IInv, NEW p \in Player, NEW s \in Slot, Player_collides_with_ball(p, s)
    PROVE  IInv'
<1> DEFINE w == [World EXCEPT !.ball[s].life =
                    IF options.treasureCollisionDestroys THEN 0 ELSE @]
           k == [w EXCEPT !.state[p] = "killed"]
<1>1. Good(World)
  BY DEF IInv
<1>2. /\ phase = "collide" /\ UNCHANGED phase /\ todo' \in SUBSET todo
      /\ <<p, s>> \in todo /\ state[p] = "alive"
  BY DEF Player_collides_with_ball, Visits
<1>3. World.ball[s].treasure # 0 /\ World.state[p] = "alive"
  BY <1>2, WorldIs DEF IInv, Awaited, Balls
<1>4. Good(w) /\ SameBalls(World, w)
  <2>1. CASE options.treasureCollisionDestroys
    <3>1. w = [World EXCEPT !.ball[s].life = 0]
      BY <2>1
    <3> HIDE DEF w
    <3>2. QED
      BY <1>1, <1>3, <3>1, DeadGood
  <2>2. CASE ~options.treasureCollisionDestroys
    <3>1. World \in Worlds /\ World.ball[s] \in Object
      BY <1>1, BallFields DEF Good
    <3>2. [World.ball[s] EXCEPT !.life = @] = World.ball[s]
      BY <3>1 DEF Object
    <3>3. [World EXCEPT !.ball[s].life = @] = World
      BY <3>1, <3>2 DEF Worlds
    <3>4. w = World
      BY <2>2, <3>3
    <3> HIDE DEF w
    <3>5. QED
      BY <1>1, <3>4 DEF SameBalls
  <2>3. QED
    BY <2>1, <2>2
<1>5. \/ Become(k) \/ Become(w)
      \/ \E v \in {w} \cup Goals(w, s) : Become(Touch(v, p, s))
  BY DEF Player_collides_with_ball
<1> HIDE DEF w
<1>6. w.ball[s].treasure # 0 /\ w.state[p] # "none"
  BY <1>3, <1>4 DEF SameBalls
<1>7. CASE Become(k)
  <2>1. "killed" \in States
    BY DEF States
  <2>2. Good(k)
    BY <1>4, <2>1, PlayerGood
  <2>3. SameBalls(w, k)
    BY <1>4 DEF SameBalls, Good, Worlds
  <2> HIDE DEF k
  <2>4. SameBalls(World, k)
    BY <1>4, <2>3 DEF SameBalls
  <2>5. QED
    BY <1>2, <1>7, <2>2, <2>4, Goes
<1>8. CASE Become(w)
  BY <1>2, <1>4, <1>8, Goes
<1>9. ASSUME NEW v \in {w} \cup Goals(w, s), Become(Touch(v, p, s)) PROVE IInv'
  <2>1. Good(v) /\ SameBalls(w, v)
    <3>1. CASE v = w
      BY <1>4, <3>1 DEF SameBalls
    <3>2. CASE v \in Goals(w, s)
      BY <1>4, <1>6, <3>2, GoalsGood
    <3>3. QED
      BY <1>9, <3>1, <3>2
  <2>2. v.ball[s].treasure # 0 /\ v.state[p] # "none"
    BY <1>6, <2>1 DEF SameBalls
  <2> DEFINE r == Touch(v, p, s)
  <2>3. Good(r) /\ SameBalls(v, r)
    BY <2>1, <2>2, TouchGood
  <2>4. Become(r)
    BY <1>9
  <2> HIDE DEF r
  <2>5. SameBalls(World, r)
    BY <1>4, <2>1, <2>3 DEF SameBalls
  <2>6. QED
    BY <1>2, <2>3, <2>4, <2>5, Goes
<1>10. QED
  BY <1>5, <1>7, <1>8, <1>9

LEMMA KilledKeeps ==
    ASSUME IInv, NEW p \in Player, Killed(p)
    PROVE  IInv'
<1>1. PICK st \in {"alive", "dead"} : Become(Kill_player(World, p, st))
  BY DEF Killed
<1> DEFINE w == Kill_player(World, p, st)
<1>2. Good(w)
  BY Kill_playerGood DEF IInv
<1>3. Become(w) /\ UNCHANGED phase /\ todo' \in SUBSET todo /\ phase = "cleanup"
  BY <1>1 DEF Killed, Visits
<1> HIDE DEF w
<1>4. QED
  BY <1>2, <1>3, Goes

LEMMA Auto_kickKeeps ==
    ASSUME IInv, NEW p \in Player, Auto_kick(p)
    PROVE  IInv'
<1> DEFINE w == Delete_player(World, p)
<1>1. Good(w)
  BY Delete_playerGood DEF IInv
<1>2. Become(w) /\ UNCHANGED phase /\ todo' \in SUBSET todo /\ phase = "cleanup"
  BY DEF Auto_kick, Visits
<1> HIDE DEF w
<1>3. QED
  BY <1>1, <1>2, Goes

LEMMA Auto_pauseKeeps ==
    ASSUME IInv, NEW p \in Player, Auto_pause(p)
    PROVE  IInv'
<1> DEFINE w == PauseOn(World, p)
<1>1. Good(w)
  BY PauseOnGood DEF IInv
<1>2. Become(w) /\ UNCHANGED phase /\ todo' \in SUBSET todo /\ phase = "cleanup"
  BY DEF Auto_pause, Visits
<1> HIDE DEF w
<1>3. QED
  BY <1>1, <1>2, Goes

LEMMA End_frameKeeps ==
    ASSUME IInv, End_frame
    PROVE  IInv'
<1>1. PICK late \in BOOLEAN : Become(Compute_game_status(Delete_dead(World), late))
  BY DEF End_frame
<1> DEFINE v == Delete_dead(World)
           w == Compute_game_status(v, late)
<1>2. Good(v)
  BY Delete_deadGood DEF IInv
<1>3. Become(w)
  BY <1>1
<1> HIDE DEF v
<1>4. Good(w)
  BY <1>2, Compute_game_statusGood
<1> HIDE DEF w
<1>5. Good(World)' /\ Settled' /\ options' = options
  BY <1>3, <1>4, BecomeIs
<1>6. Awaited'
  BY <1>5 DEF End_frame, IInv, Awaited
<1>7. QED
  BY <1>5, <1>6 DEF IInv

LEMMA Step == IInv /\ [Next]_vars => IInv'
<1> SUFFICES ASSUME IInv, [Next]_vars PROVE IInv'
  OBVIOUS
<1>1. CASE UNCHANGED vars
  <2>1. World' = World /\ Balls' = Balls
    BY <1>1 DEF vars, World, Balls
  <2>2. Good(World)'
    BY <2>1, GoodPrimed DEF IInv
  <2>3. Settled' /\ Awaited'
    BY <1>1, <2>1 DEF IInv, Settled, Awaited, vars
  <2>4. QED
    BY <2>2, <2>3 DEF IInv
<1>2. ASSUME NEW p \in Player, No_connector(p) PROVE IInv'
  BY <1>2, ReachesKeeps DEF No_connector
<1>3. ASSUME NEW p \in Player, Reaches_out(p) PROVE IInv'
  BY <1>3, ReachesKeeps DEF Reaches_out, Reachable, Balls
<1>4. QED
  BY <1>1, <1>2, <1>3, EnterKeeps, Destroy_connectionKeeps, Pause_playerKeeps,
     Drop_ballKeeps, Fire_ecmKeeps, Cmd_resetKeeps, Update_objectsKeeps,
     Update_connector_forceKeeps, Move_ballKeeps, SmashKeeps, Meet_deathKeeps,
     Warp_ballsKeeps, Kick_flooderKeeps, ConnectsKeeps, Player_collides_with_ballKeeps,
     KilledKeeps, Auto_kickKeeps, Auto_pauseKeeps, End_frameKeeps, LaunchKeeps,
     ExpireKeeps, StrayKeeps
     DEF Next

-----------------------------------------------------------------------------
(* The theorems.                                                           *)

(* The world is always good: whatever deletes a ball, makes one, gives it  *)
(* to a player or takes it from one, in Delete_shot, Detach_ball,          *)
(* Delete_player, Reset_all_players, Ball_hits_goal and PlayerCollision.   *)
THEOREM Inductive == Spec => []IInv
<1>1. Init => IInv
  BY InitGood DEF IInv, Init, Settled
<1>2. QED
  BY <1>1, Step, PTL DEF Spec

(* Every variable keeps its type; the objects in use never outnumber the   *)
(* memory for them, and no slot is handed out twice (Obj of object.c).     *)
THEOREM TypeCorrect == Spec => []TypeOK
<1>1. IInv => TypeOK
  <2> SUFFICES ASSUME IInv PROVE TypeOK
    OBVIOUS
  <2>1. World \in Worlds /\ Settled /\ Awaited
    BY DEF IInv, Good
  <2>2. World.won = TreasuresDestroyed
    BY DEF World
  <2>3. QED
    BY <2>1, <2>2, WorldFields, WorldIs DEF TypeOK, Settled, Awaited, States, Object, Cap
<1>2. QED
  BY <1>1, Inductive, PTL

(* OneBallEach: a treasure never has two balls, and it has none only if    *)
(* its team lost the ball (Delete_shot and Reset_all_players, which make   *)
(* balls anew, each by other signs).                                       *)
THEOREM NeverTwo == Spec => []OneBallEach
<1>1. IInv => OneBallEach
  <2> SUFFICES ASSUME IInv PROVE OneBallEach
    OBVIOUS
  <2>1. OneEach(World) /\ Lost(World)
    BY DEF IInv, Good
  <2>2. \A t \in Treasure : t # 0
    BY Sizes DEF Treasure
  <2>3. QED
    BY <2>1, <2>2, WorldIs DEF OneEach, Lost, OneBallEach, Balls
<1>2. QED
  BY <1>1, Inductive, PTL

(* HaveIffUntouched: treasure->have says that there is a ball which nobody *)
(* has touched, wherever the ball was made, taken or killed; it may be     *)
(* wrong only of treasures that a connection to no ball has taken it from. *)
THEOREM HaveTrue == Spec => []HaveIffUntouched
<1>1. IInv => HaveIffUntouched
  <2> SUFFICES ASSUME IInv PROVE HaveIffUntouched
    OBVIOUS
  <2>1. Had(World)
    BY DEF IInv, Good
  <2>2. \A t \in Treasure : t # 0
    BY Sizes DEF Treasure
  <2>3. QED
    BY <2>1, <2>2, WorldIs DEF Had, Untaken, HaveIffUntouched, Untouched, Balls
<1>2. QED
  BY <1>1, Inductive, PTL

(* CarriersPlay: HAS_BALL and the ids of the balls agree on who carries    *)
(* one, but for players connected to what is no ball; whoever has it       *)
(* plays, and no ball is owned by somebody who has left (Detach_ball,      *)
(* Kill_player, Pause_player, Delete_player).                              *)
THEOREM CarriersAgree == Spec => []CarriersPlay
<1>1. IInv => CarriersPlay
  <2> SUFFICES ASSUME IInv PROVE CarriersPlay
    OBVIOUS
  <2>1. Good(World)
    BY DEF IInv
  <2>2. World \in Worlds
    BY <2>1 DEF Good
  <2>3. \A s \in Slot : ball[s].id \in Player \cup {NoId} /\ ball[s].owner \in Player \cup {NoId}
    BY <2>2, BallFields, WorldIs
  <2>4. hasBall \subseteq Player
    BY <2>2, WorldFields, WorldIs
  <2>5. \A p \in Player : p \in Carriers <=> Holds(World, p)
    BY Names, WorldIs DEF Carriers, Balls, Holds
  <2>6. Carriers \subseteq Player
    BY <2>3 DEF Carriers, Balls
  <2>7. Carriers \subseteq hasBall /\ hasBall \subseteq Carriers \cup strayed
    BY <2>1, <2>4, <2>5, <2>6, WorldIs DEF Good, Carried
  <2>8. \A p \in hasBall : state[p] \in {"alive", "killed"}
    BY CarrierPlays
  <2>9. \A s \in Balls : ball[s].owner \in Present \cup {NoId}
    BY <2>1, <2>3, WorldIs DEF Good, OwnersPresent, Present, Balls
  <2>10. QED
    BY <2>7, <2>8, <2>9 DEF CarriersPlay
<1>2. QED
  BY <1>1, Inductive, PTL

(* Whatever ends a frame and goes back to the input is the end of it.      *)
LEMMA OnlyEnd ==
    ASSUME [Next]_vars, phase = "cleanup", phase' = "input"
    PROVE  End_frame
BY DEF Next, vars, Enter, Destroy_connection, Pause_player, Drop_ball, Fire_ecm, Input,
       Meet_death, Warp_balls, Kick_flooder, No_connector, Connects, Stray, Reaches_out,
       Turn, Launch, Expire,
       Player_collides_with_ball, Killed, Auto_kick, Auto_pause, Visits, Enters,
       Update_connector_force, Move_ball, Smash, Cmd_reset, Update_objects

(* MissingBallsMatter: Compute_game_status ends the round, and gives every *)
(* treasure its ball, when a ball is missing and fewer than two teams are  *)
(* left, for each missing ball is counted against the team that lost it.   *)
THEOREM RoundsEnd == Spec => MissingBallsMatter
<1> DEFINE A == phase = "cleanup" /\ phase' = "input"
                  /\ (\E t \in Treasure : \A s \in Slot : ball'[s].treasure # t)
                => Cardinality(TeamAlive(World)') > 1
<1>1. IInv /\ [Next]_vars => A
  <2> SUFFICES ASSUME IInv, [Next]_vars, phase = "cleanup", phase' = "input",
                      NEW t \in Treasure, \A s \in Slot : ball'[s].treasure # t,
                      ~(Cardinality(TeamAlive(World)') > 1)
               PROVE  FALSE
    OBVIOUS
  <2>1. PICK late \in BOOLEAN : Become(Compute_game_status(Delete_dead(World), late))
    BY OnlyEnd DEF End_frame
  <2> DEFINE v == Delete_dead(World)
             w == Compute_game_status(v, late)
  <2>2. Good(v)
    BY Delete_deadGood DEF IInv
  <2>3. Become(w)
    BY <2>1
  <2> HIDE DEF v
  <2>4. ball' = w.ball /\ state' = w.state
    BY <2>3 DEF Become
  <2>5. w = IF GameOver(v, late) THEN Reset_all_players(v) ELSE v
    BY DEF Compute_game_status
  <2> HIDE DEF w
  <2>6. ~GameOver(v, late)
    BY <2>2, <2>4, <2>5, Reset_all_playersGood
  <2>7. w = v
    BY <2>5, <2>6
  <2>8. TeamAlive(World)' = TeamAlive(v)
    BY <2>4, <2>7 DEF TeamAlive, World
  <2>9. ~Missing(v)
    BY <2>6, <2>8 DEF GameOver
  <2>10. team[t] \in Team
    BY Teams
  <2>11. v.left[team[t]] = Owned(team[t])
    BY <2>9, <2>10 DEF Missing
  <2>12. v.left[team[t]] \in Int
    BY <2>2, <2>10, WorldFields DEF Good
  <2>13. v.destroyed[t] > 0
    BY <2>2, <2>4, <2>7 DEF Good, Lost
  <2>14. v.left[team[t]] < Owned(team[t])
    BY <2>2, <2>13 DEF Good, Counted
  <2>15. QED
    BY <2>11, <2>12, <2>14
<1>2. Spec => [][A]_vars
  BY <1>1, Inductive, PTL DEF Spec
<1>3. QED
  BY <1>2 DEF MissingBallsMatter

=============================================================================
