-------------------------- MODULE Alliance_proofs --------------------------
(***************************************************************************)
(* Proofs that the alliances partition the players, for all sets of        *)
(* players and all numbers of alliances, and that they implement           *)
(* Coalitions.                                                             *)
(*                                                                         *)
(* The inductive invariant counts everybody who thinks he is in an         *)
(* alliance, present or not: a player who has left is in none, so that     *)
(* these are the members the code goes through.  What the functions of     *)
(* alliance.c do to the tables is proved once, of any four tables, and the *)
(* commands only have to be traced to these functions.                     *)
(***************************************************************************)
EXTENDS Alliance, FiniteSetTheorems, WellFoundedInduction, TLAPS

(* The tables, also while a function is half done, when a count may be     *)
(* anything.                                                               *)
TablesType == [alliance : [Player -> Id \cup {NotSet}],
               invite : [Player -> Player \cup {NoId}],
               ids : SUBSET Id,
               num : [Id -> Int]]

(* Everybody who thinks he is in alliance id. *)
Class(t, id) == {p \in Player : t.alliance[p] = id}

(* Players are in existing alliances, those who are not among P in none,   *)
(* and the counts are right.                                               *)
Counted(t, P) ==
    /\ \A p \in Player : t.alliance[p] \in t.ids \cup {NotSet}
    /\ \A p \in Player \ P : t.alliance[p] = NotSet
    /\ \A id \in Id : t.num[id] = Cardinality(Class(t, id))

NobodyAlone(t) == \A id \in t.ids : t.num[id] >= 2

Sound(t) == Counted(t, Present) /\ NobodyAlone(t)

(* Nobody has invited himself. *)
NoSelfInvitation(inv) == \A p \in Player : inv[p] # p

(* PlayersArray has each player once. *)
OnceEach(s) == \A i, j \in DOMAIN s : s[i] = s[j] => i = j

(* Accept_all_alliances visits players, for a player, and nobody leaves or *)
(* enters before it is done.                                               *)
AcceptingPresent ==
    accepting # Nobody =>
        /\ accepting.visits # <<>>
        /\ accepting.by \in Present
        /\ \A i \in DOMAIN accepting.visits : accepting.visits[i] \in Present

Shapes ==
    /\ players \in Seq(Player)
    /\ Tables \in TablesType
    /\ accepting \in [by : Player \cup {NoId}, visits : Seq(Player)]
    /\ crashed \in BOOLEAN

(* The inductive invariant. *)
IInv ==
    /\ Shapes
    /\ OnceEach(players)
    /\ Sound(Tables)
    /\ NoSelfInvitation(invite)
    /\ AcceptingPresent

-----------------------------------------------------------------------------
(* Sets of players.                                                        *)

LEMMA ClassFinite ==
    ASSUME NEW t, NEW id
    PROVE  IsFiniteSet(Class(t, id)) /\ Cardinality(Class(t, id)) \in Nat
<1>1. Class(t, id) \in SUBSET Player
  BY DEF Class
<1>2. QED
  BY <1>1, PlayersFinite, FS_Subset, FS_CardinalityType

LEMMA SubsetFinite ==
    ASSUME NEW S \in SUBSET Player
    PROVE  IsFiniteSet(S) /\ Cardinality(S) \in Nat
BY PlayersFinite, FS_Subset, FS_CardinalityType

LEMMA DisjointUnion ==
    ASSUME NEW S \in SUBSET Player, NEW T \in SUBSET Player, S \cap T = {}
    PROVE  Cardinality(S \cup T) = Cardinality(S) + Cardinality(T)
<1>1. Cardinality(S \cup T)
        = Cardinality(S) + Cardinality(T) - Cardinality(S \cap T)
  BY SubsetFinite, FS_Union
<1>2. QED
  BY <1>1, SubsetFinite, FS_EmptySet

LEMMA OnlyOne ==
    ASSUME NEW S \in SUBSET Player, Cardinality(S) <= 1,
           NEW p \in S, NEW q \in S
    PROVE  p = q
<1>1. SUFFICES ASSUME p # q PROVE FALSE
  OBVIOUS
<1>2. /\ IsFiniteSet(S \ {p}) 
      /\ Cardinality(S \ {p}) = Cardinality(S) - 1
  BY SubsetFinite, FS_RemoveElement
<1>3. Cardinality(S \ {p}) = 0
  BY <1>2, SubsetFinite, FS_CardinalityType
<1>4. S \ {p} = {}
  BY <1>2, <1>3, FS_EmptySet
<1>5. QED
  BY <1>1, <1>4

LEMMA TwoElements ==
    ASSUME NEW p, NEW q, p # q
    PROVE  Cardinality({p, q}) = 2
<1>1. IsFiniteSet({p}) /\ Cardinality({p}) = 1
  BY FS_Singleton
<1>2. Cardinality({p} \cup {q})
        = IF q \in {p} THEN Cardinality({p}) ELSE Cardinality({p}) + 1
  BY <1>1, FS_AddElement
<1>3. q \notin {p} /\ {p} \cup {q} = {p, q}
  OBVIOUS
<1>4. QED
  BY <1>1, <1>2, <1>3

LEMMA LeastNatural ==
    ASSUME NEW S \in SUBSET Nat, S # {}
    PROVE  \E n \in S : \A m \in S : n <= m
<1> DEFINE R == OpToRel(<, Nat)
<1>1. IsWellFoundedOn(R, Nat)
  BY NatLessThanWellFounded
<1>2. \A x, y \in Nat : <<x, y>> \notin R => y <= x
  BY DEF OpToRel
<1> HIDE DEF R
<1>3. PICK n \in S : \A m \in S : <<m, n>> \notin R
  BY <1>1, WFMin
<1>4. QED
  BY <1>2, <1>3

LEMMA NotSetNoId == NotSet \notin Id
BY SomeAlliances DEF NotSet, Id

(* A player who has left is in no alliance, so that going through          *)
(* PlayersArray finds all members.                                         *)
LEMMA MembersAreAll ==
    ASSUME NEW t, NEW id \in Id, Present \subseteq Player,
           \A p \in Player \ Present : t.alliance[p] = NotSet
    PROVE  Members(t, id) = Class(t, id)
BY NotSetNoId DEF Members, Class

-----------------------------------------------------------------------------
(* The functions of alliance.c, field by field: r is what they make of t.  *)

Added(t, S, id, r) ==
    /\ r \in TablesType
    /\ \A p \in Player : r.alliance[p] = IF p \in S THEN id ELSE t.alliance[p]
    /\ \A p \in Player : r.invite[p] = IF p \in Present /\ t.invite[p] \in S
                                       THEN NoId ELSE t.invite[p]
    /\ r.ids = t.ids
    /\ r.num[id] = t.num[id] + Cardinality(S)
    /\ \A i \in Id \ {id} : r.num[i] = t.num[i]

Removed(t, S, id, r) ==
    /\ r \in TablesType
    /\ \A p \in Player : r.alliance[p] = IF p \in S THEN NotSet ELSE t.alliance[p]
    /\ r.invite = t.invite
    /\ r.ids = t.ids
    /\ r.num[id] = t.num[id] - Cardinality(S)
    /\ \A i \in Id \ {id} : r.num[i] = t.num[i]

Dissolved(t, id, r) ==
    /\ r \in TablesType
    /\ \A p \in Player : r.alliance[p] = IF t.alliance[p] = id THEN NotSet
                                                               ELSE t.alliance[p]
    /\ r.invite = t.invite
    /\ r.ids = t.ids \ {id}
    /\ r.num[id] = 0
    /\ \A i \in Id \ {id} : r.num[i] = t.num[i]

Uninvited(t, p, r) ==
    /\ r \in TablesType
    /\ r.alliance = t.alliance
    /\ \A q \in Player : r.invite[q] = IF q = p THEN NoId ELSE t.invite[q]
    /\ r.ids = t.ids
    /\ r.num = t.num

LEMMA Fields ==
    ASSUME NEW t \in TablesType
    PROVE  /\ t.alliance \in [Player -> Id \cup {NotSet}]
           /\ t.invite \in [Player -> Player \cup {NoId}]
           /\ t.ids \in SUBSET Id
           /\ t.num \in [Id -> Int]
BY DEF TablesType

LEMMA AddFields ==
    ASSUME NEW t \in TablesType, NEW S \in SUBSET Player, NEW id \in Id
    PROVE  Added(t, S, id, Add(t, S, id))
<1> DEFINE al == [p \in Player |-> IF p \in S THEN id ELSE t.alliance[p]]
           iv == [p \in Player |-> IF p \in Present /\ t.invite[p] \in S
                                   THEN NoId ELSE t.invite[p]]
           nm == [t.num EXCEPT ![id] = @ + Cardinality(S)]
<1>1. Cardinality(S) \in Int
  BY SubsetFinite
<1>2. /\ al \in [Player -> Id \cup {NotSet}]
      /\ iv \in [Player -> Player \cup {NoId}]
      /\ nm \in [Id -> Int]
  BY <1>1, Fields
<1>3. Add(t, S, id) = [t EXCEPT !.alliance = al, !.invite = iv, !.num = nm]
  BY DEF Add, TablesType
<1>4. /\ \A p \in Player : al[p] = IF p \in S THEN id ELSE t.alliance[p]
      /\ \A p \in Player : iv[p] = IF p \in Present /\ t.invite[p] \in S
                                   THEN NoId ELSE t.invite[p]
      /\ nm[id] = t.num[id] + Cardinality(S)
      /\ \A i \in Id \ {id} : nm[i] = t.num[i]
  BY Fields
<1> HIDE DEF al, iv, nm
<1>5. /\ Add(t, S, id) \in TablesType
      /\ Add(t, S, id).alliance = al /\ Add(t, S, id).invite = iv
      /\ Add(t, S, id).ids = t.ids /\ Add(t, S, id).num = nm
  BY <1>2, <1>3, Fields DEF TablesType
<1>6. QED
  BY <1>4, <1>5 DEF Added

LEMMA RemoveFields ==
    ASSUME NEW t \in TablesType, NEW S \in SUBSET Player, NEW id \in Id
    PROVE  Removed(t, S, id, Remove(t, S, id))
<1> DEFINE al == [p \in Player |-> IF p \in S THEN NotSet ELSE t.alliance[p]]
           nm == [t.num EXCEPT ![id] = @ - Cardinality(S)]
<1>1. Cardinality(S) \in Int
  BY SubsetFinite
<1>2. al \in [Player -> Id \cup {NotSet}] /\ nm \in [Id -> Int]
  BY <1>1, Fields
<1>3. Remove(t, S, id) = [t EXCEPT !.alliance = al, !.num = nm]
  BY DEF Remove, TablesType
<1>4. /\ \A p \in Player : al[p] = IF p \in S THEN NotSet ELSE t.alliance[p]
      /\ nm[id] = t.num[id] - Cardinality(S)
      /\ \A i \in Id \ {id} : nm[i] = t.num[i]
  BY Fields
<1> HIDE DEF al, nm
<1>5. /\ Remove(t, S, id) \in TablesType
      /\ Remove(t, S, id).alliance = al /\ Remove(t, S, id).invite = t.invite
      /\ Remove(t, S, id).ids = t.ids /\ Remove(t, S, id).num = nm
  BY <1>2, <1>3, Fields DEF TablesType
<1>6. QED
  BY <1>4, <1>5 DEF Removed

LEMMA DissolveFields ==
    ASSUME NEW t \in TablesType, NEW id \in Id,
           Members(t, id) = Class(t, id)
    PROVE  Dissolved(t, id, Dissolve(t, id))
<1>1. PICK S \in SUBSET Player : /\ S = Class(t, id)
                                 /\ \A p \in Player : p \in S <=> t.alliance[p] = id
  BY DEF Class
<1> DEFINE u == Remove(t, S, id)
<1>2. Dissolve(t, id) = [u EXCEPT !.ids = @ \ {id}, !.num[id] = 0]
  BY <1>1 DEF Dissolve
<1>3. Removed(t, S, id, u)
  BY RemoveFields
<1> HIDE DEF u
<1>4. u \in TablesType
  BY <1>3 DEF Removed
<1> DEFINE nm == [u.num EXCEPT ![id] = 0]
<1>5. nm \in [Id -> Int] /\ nm[id] = 0 /\ \A i \in Id \ {id} : nm[i] = u.num[i]
  BY <1>4, Fields
<1>6. Dissolve(t, id) = [alliance |-> u.alliance, invite |-> u.invite,
                         ids |-> u.ids \ {id}, num |-> nm]
  BY <1>2, <1>4 DEF TablesType
<1> HIDE DEF nm
<1>7. /\ Dissolve(t, id) \in TablesType
      /\ Dissolve(t, id).alliance = u.alliance
      /\ Dissolve(t, id).invite = u.invite
      /\ Dissolve(t, id).ids = u.ids \ {id} /\ Dissolve(t, id).num = nm
  BY <1>4, <1>5, <1>6, Fields DEF TablesType
<1>8. QED
  BY <1>1, <1>3, <1>5, <1>7 DEF Removed, Dissolved

LEMMA UninviteFields ==
    ASSUME NEW t \in TablesType, NEW p \in Player
    PROVE  Uninvited(t, p, Uninvite(t, p))
BY DEF Uninvited, Uninvite, TablesType

-----------------------------------------------------------------------------
(* The answers to an invitation.                                           *)

(* Those who come along when p joins somebody. *)
Side(t, p) == IF t.alliance[p] = NotSet THEN {p} ELSE Class(t, t.alliance[p])

SameAlliances(t, r) == \A p \in Player : r.alliance[p] = t.alliance[p]

(* The sides of p and q are one alliance in r, nobody else is in it. *)
United(t, p, q, r) ==
    \E id \in Id :
        /\ \A s \in Side(t, p) \cup Side(t, q) : r.alliance[s] = id
        /\ \A s \in Player \ (Side(t, p) \cup Side(t, q)) :
              r.alliance[s] = t.alliance[s] /\ t.alliance[s] # id

JoinersUninvited(t, r) ==
    \A p \in Present : r.alliance[p] \notin {NotSet, t.alliance[p]}
                          => \A q \in Present : r.invite[q] # p

FewerInvitations(t, r) ==
    \A q \in Player : r.invite[q] \in {t.invite[q], NoId}

Accepted(t, p, q, r) ==
    /\ r \in TablesType
    /\ Sound(r)
    /\ FewerInvitations(t, r)
    /\ JoinersUninvited(t, r)
    /\ SameAlliances(t, r) \/ United(t, p, q, r)

LEMMA SoundMembers ==
    ASSUME NEW t, NEW id \in Id, Present \subseteq Player, Counted(t, Present)
    PROVE  Members(t, id) = Class(t, id)
BY MembersAreAll DEF Counted

LEMMA UninviteSound ==
    ASSUME NEW t \in TablesType, NEW p \in Player, Sound(t)
    PROVE  LET r == Uninvite(t, p) IN Uninvited(t, p, r) /\ Sound(r)
<1> DEFINE r == Uninvite(t, p)
<1>1. Uninvited(t, p, r)
  BY UninviteFields
<1> HIDE DEF r
<1>2. \A id \in Id : Class(r, id) = Class(t, id)
  BY <1>1 DEF Uninvited, Class
<1>3. Sound(r)
  BY <1>1, <1>2, Fields DEF Sound, Counted, NobodyAlone, Uninvited, TablesType
<1>4. QED
  BY <1>1, <1>3 DEF r

(* Player_join_alliance *)
LEMMA JoinDoes ==
    ASSUME NEW t \in TablesType, Sound(t), Present \subseteq Player,
           NEW p \in Present, NEW q \in Present,
           t.alliance[p] = NotSet, t.alliance[q] # NotSet
    PROVE  LET r == Join(t, p, q) IN
           Accepted(t, p, q, r) /\ United(t, p, q, r) /\ United(t, q, p, r)
<1> DEFINE id == t.alliance[q]
           r == Join(t, p, q)
<1>1. id \in t.ids /\ id \in Id
  BY Fields DEF Sound, Counted
<1>2. r = Add(t, {p}, id)
  BY DEF Join
<1>3. Added(t, {p}, id, r)
  BY <1>1, <1>2, AddFields
<1> HIDE DEF r
<1>4. /\ Class(r, id) = Class(t, id) \cup {p} /\ p \notin Class(t, id)
      /\ \A i \in Id \ {id} : Class(r, i) = Class(t, i)
  BY <1>1, <1>3, NotSetNoId DEF Added, Class
<1>5. Cardinality(Class(r, id)) = Cardinality(Class(t, id)) + 1
  BY <1>4, ClassFinite, FS_AddElement
<1>6. Cardinality({p}) = 1
  BY FS_Singleton
<1>7. Counted(r, Present)
  BY ZenonT(60), <1>1, <1>3, <1>4, <1>5, <1>6, Fields DEF Sound, Counted, Added
<1>8. NobodyAlone(r)
  BY <1>1, <1>3, <1>6, Fields DEF Sound, NobodyAlone, Added
<1>9. FewerInvitations(t, r) /\ JoinersUninvited(t, r)
  BY <1>3, NoIdIsNoPlayer DEF FewerInvitations, JoinersUninvited, Added
<1>10. Side(t, p) \cup Side(t, q) = Class(t, id) \cup {p}
  BY DEF Side
<1>11. /\ \A s \in Class(t, id) \cup {p} : r.alliance[s] = id
       /\ \A s \in Player \ (Class(t, id) \cup {p}) :
             r.alliance[s] = t.alliance[s] /\ t.alliance[s] # id
  BY <1>3 DEF Added, Class
<1>12. United(t, p, q, r) /\ United(t, q, p, r)
  BY <1>1, <1>10, <1>11 DEF United
<1>13. Accepted(t, p, q, r)
  BY <1>3, <1>7, <1>8, <1>9, <1>12 DEF Accepted, Sound, Added
<1>14. QED
  BY <1>12, <1>13 DEF r

(* Merge_alliances: the members of alliance id2, q's, move to p's.         *)
LEMMA MergeDoes ==
    ASSUME NEW t \in TablesType, Sound(t), Present \subseteq Player,
           NEW p \in Present, NEW q \in Present,
           t.alliance[p] # NotSet, t.alliance[q] # NotSet,
           t.alliance[p] # t.alliance[q]
    PROVE  LET r == Merge(t, p, t.alliance[q]) IN
           Accepted(t, p, q, r) /\ United(t, q, p, r)
<1> DEFINE id1 == t.alliance[p]
           id2 == t.alliance[q]
           S == Class(t, id2)
           u == Remove(t, S, id2)
           v == Add(u, S, id1)
           r == Dissolve(v, id2)
<1>1. /\ id1 \in t.ids /\ id1 \in Id
      /\ id2 \in t.ids /\ id2 \in Id
      /\ id1 # id2 /\ S \in SUBSET Player
  BY Fields DEF Sound, Counted, Class
<1>2. Members(t, id2) = S
  BY <1>1, SoundMembers DEF Sound
<1>3. Removed(t, S, id2, u)
  BY <1>1, RemoveFields
<1>4. u.alliance[p] = id1
  BY <1>1, <1>3 DEF Removed, Class
<1>5. Merge(t, p, id2) = r
  BY <1>2 DEF Merge
<1> HIDE DEF u
<1>6. Added(u, S, id1, v)
  <2>1. u \in TablesType
    BY <1>3 DEF Removed
  <2>2. QED
    BY <1>1, <2>1, AddFields
<1> HIDE DEF v
<1>7. v \in TablesType /\ \A s \in Player : v.alliance[s] # id2
  BY <1>1, <1>3, <1>6, NotSetNoId DEF Removed, Added, Class
<1>8. Members(v, id2) = Class(v, id2)
  BY <1>7 DEF Members, Class
<1>9. Dissolved(v, id2, r)
  BY <1>1, <1>7, <1>8, DissolveFields
<1> HIDE DEF r
<1>10. \A s \in Player : r.alliance[s] = IF s \in S THEN id1 ELSE t.alliance[s]
  BY <1>3, <1>6, <1>7, <1>9 DEF Removed, Added, Dissolved
<1>11. \A s \in S : s \in Present
  BY <1>1, NotSetNoId DEF Sound, Counted, Class
<1>12. /\ Class(r, id1) = Class(t, id1) \cup S
       /\ Class(t, id1) \cap S = {}
       /\ Class(r, id2) = {}
       /\ \A i \in Id \ {id1, id2} : Class(r, i) = Class(t, i)
  BY <1>1, <1>10 DEF Class
<1>13. /\ r.ids = t.ids \ {id2}
       /\ r.num[id1] = t.num[id1] + Cardinality(S)
       /\ r.num[id2] = 0
       /\ \A i \in Id \ {id1, id2} : r.num[i] = t.num[i]
  BY <1>1, <1>3, <1>6, <1>9 DEF Removed, Added, Dissolved
<1>14. /\ Cardinality(Class(r, id1)) = Cardinality(Class(t, id1)) + Cardinality(S)
       /\ Cardinality(Class(r, id2)) = 0
  <2>1. Class(t, id1) \in SUBSET Player
    BY DEF Class
  <2>2. QED
    BY <1>1, <1>12, <2>1, DisjointUnion, FS_EmptySet
<1>15. Counted(r, Present)
  <2>1. \A s \in Player : r.alliance[s] \in r.ids \cup {NotSet}
    BY <1>1, <1>10, <1>13 DEF Sound, Counted, Class
  <2>2. \A s \in Player \ Present : r.alliance[s] = NotSet
    BY <1>10, <1>11 DEF Sound, Counted
  <2>3. \A i \in Id : r.num[i] = Cardinality(Class(r, i))
    BY <1>1, <1>12, <1>13, <1>14 DEF Sound, Counted
  <2>4. QED
    BY <2>1, <2>2, <2>3 DEF Counted
<1>16. NobodyAlone(r)
  <2>1. /\ Cardinality(S) \in Nat
        /\ t.num \in [Id -> Int] /\ t.ids \subseteq Id
    BY ClassFinite, Fields
  <2>2. QED
    BY <1>1, <1>13, <2>1 DEF Sound, NobodyAlone
<1>17. \A s \in Player : r.invite[s] = IF s \in Present /\ t.invite[s] \in S
                                       THEN NoId ELSE t.invite[s]
  BY <1>3, <1>6, <1>9 DEF Removed, Added, Dissolved
<1>18. FewerInvitations(t, r)
  BY <1>17 DEF FewerInvitations
<1>19. JoinersUninvited(t, r)
  <2>1. SUFFICES ASSUME NEW s \in Present, NEW w \in Present,
                        r.alliance[s] # t.alliance[s]
                 PROVE  r.invite[w] # s
    BY DEF JoinersUninvited
  <2>2. s \in S
    BY <1>10, <2>1
  <2>3. QED
    BY <1>17, <2>2, NoIdIsNoPlayer
<1>20. /\ Side(t, p) \cup Side(t, q) = Class(t, id1) \cup S
       /\ Side(t, q) \cup Side(t, p) = Class(t, id1) \cup S
  BY <1>1 DEF Side
<1>21. /\ \A s \in Class(t, id1) \cup S : r.alliance[s] = id1
       /\ \A s \in Player \ (Class(t, id1) \cup S) :
             r.alliance[s] = t.alliance[s] /\ t.alliance[s] # id1
  BY <1>10 DEF Class
<1>22. United(t, p, q, r) /\ United(t, q, p, r)
  BY <1>1, <1>20, <1>21 DEF United
<1>23. Accepted(t, p, q, r)
  BY <1>9, <1>15, <1>16, <1>18, <1>19, <1>22 DEF Accepted, Sound, Dissolved
<1>24. QED
  BY <1>5, <1>22, <1>23

(* Create_alliance *)
LEMMA CreateDoes ==
    ASSUME NEW t \in TablesType, Sound(t), Present \subseteq Player,
           NEW p \in Present, NEW q \in Present, p # q,
           t.alliance[p] = NotSet, t.alliance[q] = NotSet
    PROVE  Accepted(t, p, q, Create(t, p, q))
<1>1. CASE FreeIds(t) = {}
  <2>1. Create(t, p, q) = t
    BY <1>1 DEF Create
  <2>2. FewerInvitations(t, t) /\ JoinersUninvited(t, t) /\ SameAlliances(t, t)
    BY DEF FewerInvitations, JoinersUninvited, SameAlliances
  <2>3. QED
    BY <2>1, <2>2 DEF Accepted
<1>2. CASE FreeIds(t) # {}
  <2> DEFINE id == CHOOSE i \in FreeIds(t) : \A j \in FreeIds(t) : i <= j
             S == {p, q}
             u == [t EXCEPT !.ids = @ \cup {id}, !.num[id] = 0]
             r == Add(u, S, id)
  <2>1. Create(t, p, q) = r
    BY <1>2 DEF Create
  <2>2. FreeIds(t) \in SUBSET Nat
    BY SomeAlliances DEF FreeIds, Id
  <2>3. \E i \in FreeIds(t) : \A j \in FreeIds(t) : i <= j
    <3> HIDE DEF id, S, u, r
    <3>1. FreeIds(t) # {}
      BY <1>2
    <3>2. QED
      BY <2>2, <3>1, LeastNatural
  <2>4. id \in FreeIds(t)
    BY <2>3
  <2> HIDE DEF id
  <2>5. id \in Id /\ id \notin t.ids
    BY <2>4 DEF FreeIds
  <2>6. /\ u \in TablesType
        /\ u.alliance = t.alliance /\ u.invite = t.invite
        /\ u.ids = t.ids \cup {id} /\ u.num[id] = 0
        /\ \A i \in Id \ {id} : u.num[i] = t.num[i]
    <3> DEFINE nm == [t.num EXCEPT ![id] = 0]
    <3>1. nm \in [Id -> Int] /\ nm[id] = 0 /\ \A i \in Id \ {id} : nm[i] = t.num[i]
      BY <2>5, Fields
    <3>2. u = [t EXCEPT !.ids = @ \cup {id}, !.num = nm]
      BY DEF TablesType
    <3> HIDE DEF u, nm
    <3>3. QED
      BY <2>5, <3>1, <3>2, Fields DEF TablesType
  <2> HIDE DEF u
  <2>7. S \in SUBSET Player
    OBVIOUS
  <2>8. Added(u, S, id, r)
    BY <2>5, <2>6, <2>7, AddFields
  <2> HIDE DEF r
  <2>9. Cardinality(S) = 2
    BY TwoElements
  <2>10. \A s \in Player : t.alliance[s] # id
    BY <2>5, NotSetNoId DEF Sound, Counted
  <2>11. /\ Class(r, id) = S
         /\ \A i \in Id \ {id} : Class(r, i) = Class(t, i)
    BY <2>6, <2>7, <2>8, <2>10, NotSetNoId DEF Added, Class
  <2>12. /\ r.ids = t.ids \cup {id} /\ r.num[id] = 2
         /\ \A i \in Id \ {id} : r.num[i] = t.num[i]
    BY <2>6, <2>8, <2>9 DEF Added
  <2>13. \A s \in Player : r.alliance[s] = IF s \in S THEN id ELSE t.alliance[s]
    BY <2>6, <2>8 DEF Added
  <2>14. Counted(r, Present)
    BY <2>9, <2>11, <2>12, <2>13 DEF Sound, Counted
  <2>15. NobodyAlone(r)
    BY <2>12, Fields DEF Sound, NobodyAlone
  <2>16. FewerInvitations(t, r) /\ JoinersUninvited(t, r)
    BY <2>6, <2>8, NoIdIsNoPlayer DEF FewerInvitations, JoinersUninvited, Added
  <2>17. Side(t, p) \cup Side(t, q) = S
    BY DEF Side
  <2>18. /\ \A s \in S : r.alliance[s] = id
         /\ \A s \in Player \ S : r.alliance[s] = t.alliance[s] /\ t.alliance[s] # id
    BY <2>10, <2>13
  <2>19. United(t, p, q, r)
    BY <2>5, <2>17, <2>18 DEF United
  <2>20. QED
    BY <2>1, <2>8, <2>14, <2>15, <2>16, <2>19 DEF Accepted, Sound, Added
<1>3. QED
  BY <1>1, <1>2

(* Accept_alliance *)
LEMMA AcceptDoes ==
    ASSUME NEW t \in TablesType, Sound(t), Present \subseteq Player,
           NEW pl \in Present, NEW ally \in Present, pl # ally,
           ~MergesWithItself(t, pl, ally)
    PROVE  Accepted(t, pl, ally, Accept(t, pl, ally))
<1> DEFINE u == Uninvite(t, ally)
           r == Accept(t, pl, ally)
<1>1. Uninvited(t, ally, u) /\ Sound(u)
  BY UninviteSound
<1>2. r = IF u.alliance[ally] # NotSet
          THEN IF u.alliance[pl] # NotSet THEN Merge(u, ally, u.alliance[pl])
                                          ELSE Join(u, pl, ally)
          ELSE IF u.alliance[pl] # NotSet THEN Join(u, ally, pl)
                                          ELSE Create(u, pl, ally)
  BY DEF Accept
<1> HIDE DEF u, r
<1>3. u \in TablesType /\ u.alliance = t.alliance
  BY <1>1 DEF Uninvited
<1>4. Accepted(u, pl, ally, r)
  <2>1. CASE u.alliance[ally] # NotSet /\ u.alliance[pl] # NotSet
    <3>1. u.alliance[ally] # u.alliance[pl]
      BY <1>3, <2>1 DEF MergesWithItself
    <3>2. r = Merge(u, ally, u.alliance[pl])
      BY <1>2, <2>1
    <3>3. Accepted(u, ally, pl, r) /\ United(u, pl, ally, r)
      BY <1>1, <1>3, <2>1, <3>1, <3>2, MergeDoes
    <3>4. QED
      BY <3>3 DEF Accepted
  <2>2. CASE u.alliance[ally] # NotSet /\ u.alliance[pl] = NotSet
    <3>1. r = Join(u, pl, ally)
      BY <1>2, <2>2
    <3>2. QED
      BY <1>1, <1>3, <2>2, <3>1, JoinDoes
  <2>3. CASE u.alliance[ally] = NotSet /\ u.alliance[pl] # NotSet
    <3>1. r = Join(u, ally, pl)
      BY <1>2, <2>3
    <3>2. Accepted(u, ally, pl, r) /\ United(u, pl, ally, r)
      BY <1>1, <1>3, <2>3, <3>1, JoinDoes
    <3>3. QED
      BY <3>2 DEF Accepted
  <2>4. CASE u.alliance[ally] = NotSet /\ u.alliance[pl] = NotSet
    <3>1. r = Create(u, pl, ally)
      BY <1>2, <2>4
    <3>2. QED
      BY <1>1, <1>3, <2>4, <3>1, CreateDoes
  <2>5. QED
    BY <2>1, <2>2, <2>3, <2>4
<1>5. FewerInvitations(t, r)
  BY <1>1, <1>4 DEF Accepted, FewerInvitations, Uninvited
<1>6. JoinersUninvited(t, r)
  BY <1>3, <1>4 DEF Accepted, JoinersUninvited
<1>7. SameAlliances(t, r) \/ United(t, pl, ally, r)
  <2>1. Side(u, pl) = Side(t, pl) /\ Side(u, ally) = Side(t, ally)
    BY <1>3 DEF Side, Class
  <2>2. QED
    BY <1>3, <1>4, <2>1 DEF Accepted, SameAlliances, United
<1>8. QED
  BY <1>4, <1>5, <1>6, <1>7 DEF Accepted, r

-----------------------------------------------------------------------------
(* Leaving an alliance.                                                    *)

(* p is in none, and who was not in one alliance with another player but p *)
(* is in none either.                                                      *)
Left(t, p, r) ==
    /\ r \in TablesType
    /\ Sound(r)
    /\ r.alliance[p] = NotSet
    /\ \A q \in Player : r.alliance[q] \in {t.alliance[q], NotSet}
    /\ \A q, s \in Player \ {p} :
          q # s /\ t.alliance[q] = t.alliance[s] => r.alliance[q] = t.alliance[q]
    /\ r.invite = t.invite

(* Leave_alliance, with Dissolve_alliance for the one who is left over. *)
LEMMA LeaveDoes ==
    ASSUME NEW t \in TablesType, Sound(t), Present \subseteq Player,
           NEW p \in Player
    PROVE  Left(t, p, Leave(t, p))
<1> DEFINE id == t.alliance[p]
           u == Remove(t, {p}, id)
           r == Leave(t, p)
<1>1. CASE id = NotSet
  <2>1. r = t
    BY <1>1 DEF Leave
  <2>2. QED
    BY <1>1, <2>1 DEF Left
<1>2. CASE id # NotSet
  <2>1. id \in t.ids /\ id \in Id
    BY <1>2, Fields DEF Sound, Counted
  <2>2. r = IF TooSmall(u, id) THEN Dissolve(u, id) ELSE u
    BY <1>2 DEF Leave
  <2>3. Removed(t, {p}, id, u)
    BY <2>1, RemoveFields
  <2> SUFFICES Left(t, p, r)
    OBVIOUS
  <2> HIDE DEF u, r
  <2>4. /\ Class(u, id) = Class(t, id) \ {p} /\ p \in Class(t, id)
        /\ \A i \in Id \ {id} : Class(u, i) = Class(t, i)
    BY <2>1, <2>3, NotSetNoId DEF Removed, Class
  <2>5. /\ Cardinality({p}) = 1
        /\ Cardinality(Class(u, id)) = Cardinality(Class(t, id)) - 1
    <3>1. Cardinality({p}) = 1
      BY FS_Singleton
    <3>2. IsFiniteSet(Class(t, id))
      BY ClassFinite
    <3>3. QED
      BY ZenonT(60), <2>4, <3>1, <3>2, FS_RemoveElement
  <2>6. Counted(u, Present) /\ \A i \in u.ids \ {id} : u.num[i] >= 2
    BY <2>1, <2>3, <2>4, <2>5, Fields DEF Sound, Counted, NobodyAlone, Removed
  <2>7. u \in TablesType /\ u.num[id] = Cardinality(Class(u, id))
    BY <2>1, <2>3, <2>6 DEF Removed, Counted
  <2>8. CASE ~TooSmall(u, id)
    <3>1. r = u
      BY <2>2, <2>8
    <3>2. NobodyAlone(u)
      BY <2>1, <2>6, <2>7, <2>8, ClassFinite DEF NobodyAlone, TooSmall
    <3>3. QED
      BY <2>3, <2>6, <3>1, <3>2 DEF Left, Sound, Removed
  <2>9. CASE TooSmall(u, id)
    <3>1. Members(u, id) = Class(u, id)
      BY <2>1, <2>6, SoundMembers
    <3>2. Dissolved(u, id, r)
      BY <2>1, <2>2, <2>7, <2>9, <3>1, DissolveFields
    <3>3. Cardinality(Class(u, id)) <= 1
      BY <2>7, <2>9 DEF TooSmall
    <3>4. /\ Class(r, id) = {}
          /\ \A i \in Id \ {id} : Class(r, i) = Class(u, i)
      BY <2>1, <3>2, NotSetNoId DEF Dissolved, Class
    <3>5. Counted(r, Present)
      <4>1. \A i \in Id : r.num[i] = Cardinality(Class(r, i))
        BY <2>6, <3>2, <3>4, FS_EmptySet DEF Counted, Dissolved
      <4>2. QED
        BY <2>6, <3>2, <4>1 DEF Counted, Dissolved
    <3>6. NobodyAlone(r)
      <4>1. r.ids = u.ids \ {id} /\ u.ids \subseteq Id
        BY <2>7, <3>2, Fields DEF Dissolved
      <4>2. QED
        BY <2>6, <3>2, <4>1 DEF NobodyAlone, Dissolved
    <3>7. ASSUME NEW q \in Player \ {p}, NEW s \in Player \ {p},
                 q # s, t.alliance[q] = t.alliance[s]
          PROVE  r.alliance[q] = t.alliance[q]
      <4>1. t.alliance[q] # id
        <5>1. SUFFICES ASSUME t.alliance[q] = id PROVE FALSE
          OBVIOUS
        <5>2. q \in Class(u, id) /\ s \in Class(u, id)
          BY <2>4, <3>7, <5>1 DEF Class
        <5>3. Class(u, id) \in SUBSET Player
          BY DEF Class
        <5>4. QED
          BY <3>3, <3>7, <5>2, <5>3, OnlyOne
      <4>2. QED
        BY <2>3, <3>2, <4>1 DEF Removed, Dissolved
    <3>8. \A q \in Player : r.alliance[q] \in {t.alliance[q], NotSet}
      BY <2>3, <3>2 DEF Removed, Dissolved
    <3>9. r.alliance[p] = NotSet
      BY <2>3, <3>2 DEF Removed, Dissolved
    <3>10. r \in TablesType /\ r.invite = t.invite
      BY <2>3, <3>2 DEF Removed, Dissolved
    <3>11. QED
      BY <3>5, <3>6, <3>7, <3>8, <3>9, <3>10 DEF Left, Sound
  <2>10. QED
    BY <2>8, <2>9
<1>3. QED
  BY <1>1, <1>2

-----------------------------------------------------------------------------
(* The steps.                                                              *)

(* What a step may do to the alliances; newcomers lose their invitations.  *)
Outcome ==
    \/ SameAlliances(Tables, Tables')
    \/ /\ \E p, q \in Present : p # q /\ United(Tables, p, q, Tables')
       /\ JoinersUninvited(Tables, Tables')
    \/ \E p \in Player :
          /\ alliance'[p] = NotSet
          /\ \A q \in Player : alliance'[q] \in {alliance[q], NotSet}
          /\ \A q, s \in Player \ {p} :
                q # s /\ alliance[q] = alliance[s] => alliance'[q] = alliance[q]

LEMMA TheTables ==
    ASSUME NEW r \in TablesType, Become(r)
    PROVE  Tables' = r
BY DEF Become, Tables, TablesType

LEMMA PresentPlayers == Shapes => Present \subseteq Player
BY DEF Shapes, Present

(* A step that leaves PlayersArray alone. *)
LEMMA KeepsIInv ==
    ASSUME IInv, players' = players,
           Tables' \in TablesType, Sound(Tables'), NoSelfInvitation(invite'),
           accepting' = accepting, crashed' \in BOOLEAN
    PROVE  IInv'
<1>1. Present' = Present
  BY DEF Present
<1>2. Sound(Tables)'
  BY <1>1 DEF Sound
<1>3. Shapes' /\ OnceEach(players)'
  BY DEF IInv, Shapes, OnceEach
<1>4. AcceptingPresent'
  BY <1>1 DEF IInv, AcceptingPresent
<1>5. NoSelfInvitation(invite)'
  BY DEF NoSelfInvitation
<1>6. QED
  BY <1>2, <1>3, <1>4, <1>5 DEF IInv

(* An accepted invitation, which the tables t contain. *)
LEMMA AcceptOrCrashDoes ==
    ASSUME IInv, NEW t \in TablesType, Sound(t), NoSelfInvitation(t.invite),
           t.alliance = alliance,
           NEW pl \in Present, NEW ally \in Present, pl # ally,
           AcceptOrCrash(t, pl, ally)
    PROVE  /\ Tables' \in TablesType /\ Sound(Tables')
           /\ NoSelfInvitation(invite')
           /\ crashed' \in BOOLEAN
           /\ Outcome
<1>1. CASE MergesWithItself(t, pl, ally)
  <2>1. Tables' = Tables /\ invite' = invite /\ crashed' = TRUE
    BY <1>1 DEF AcceptOrCrash, Tables
  <2>2. QED
    BY <2>1 DEF IInv, Shapes, Outcome, SameAlliances
<1>2. CASE ~MergesWithItself(t, pl, ally)
  <2> DEFINE r == Accept(t, pl, ally)
  <2>1. Accepted(t, pl, ally, r)
    BY <1>2, AcceptDoes, PresentPlayers DEF IInv
  <2>2. Become(r) /\ crashed' = crashed
    BY <1>2 DEF AcceptOrCrash
  <2> HIDE DEF r
  <2>3. Tables' = r
    BY <2>1, <2>2, TheTables DEF Accepted
  <2>4. Tables'.invite = invite' /\ Tables.alliance = alliance
    BY DEF Tables
  <2>5. NoSelfInvitation(invite')
    BY <2>1, <2>3, <2>4, NoIdIsNoPlayer
       DEF Accepted, FewerInvitations, NoSelfInvitation
  <2>6. Side(t, pl) = Side(Tables, pl) /\ Side(t, ally) = Side(Tables, ally)
    BY <2>4 DEF Side, Class
  <2>7. Outcome
    BY <2>1, <2>3, <2>4, <2>6
       DEF Accepted, Outcome, SameAlliances, United, JoinersUninvited
  <2>8. QED
    BY <2>1, <2>2, <2>3, <2>5, <2>7 DEF Accepted, IInv, Shapes
<1>3. QED
  BY <1>1, <1>2

(* The invitation itself. *)
LEMMA InviteDoes ==
    ASSUME IInv, NEW pl \in Present, NEW ally \in Present, pl # ally
    PROVE  LET t == [Tables EXCEPT !.invite[pl] = ally] IN
           /\ t \in TablesType /\ Sound(t) /\ NoSelfInvitation(t.invite)
           /\ t.alliance = alliance
<1> DEFINE t == [Tables EXCEPT !.invite[pl] = ally]
           iv == [invite EXCEPT ![pl] = ally]
<1>1. pl \in Player /\ ally \in Player
  BY PresentPlayers DEF IInv
<1>2. /\ alliance \in [Player -> Id \cup {NotSet}]
      /\ invite \in [Player -> Player \cup {NoId}]
      /\ Alliances \in SUBSET Id
      /\ NumMembers \in [Id -> Int]
  BY DEF IInv, Shapes, Tables, TablesType
<1>3. iv \in [Player -> Player \cup {NoId}] /\ NoSelfInvitation(iv)
  BY <1>1, <1>2 DEF IInv, NoSelfInvitation
<1>4. t = [alliance |-> alliance, invite |-> iv,
           ids |-> Alliances, num |-> NumMembers]
  BY DEF Tables
<1> HIDE DEF t, iv
<1>5. /\ t \in TablesType
      /\ t.alliance = alliance /\ t.invite = iv
      /\ t.ids = Alliances /\ t.num = NumMembers
  BY <1>2, <1>3, <1>4 DEF TablesType
<1>6. \A id \in Id : Class(t, id) = Class(Tables, id)
  BY <1>5 DEF Class, Tables
<1>7. Sound(t)
  BY <1>5, <1>6 DEF IInv, Sound, Counted, NobodyAlone, Tables
<1>8. QED
  BY <1>3, <1>5, <1>7 DEF t

(* Taking back an invitation. *)
LEMMA UninviteDoes ==
    ASSUME IInv, NEW p \in Player, Become(Uninvite(Tables, p)),
           players' = players, accepting' = accepting, crashed' \in BOOLEAN
    PROVE  IInv' /\ Outcome
<1> DEFINE r == Uninvite(Tables, p)
<1>1. Uninvited(Tables, p, r) /\ Sound(r)
  BY UninviteSound DEF IInv, Shapes
<1> HIDE DEF r
<1>2. Tables' = r
  BY <1>1, TheTables DEF Uninvited, r
<1>3. Tables'.invite = invite' /\ Tables.invite = invite
  BY DEF Tables
<1>4. NoSelfInvitation(invite')
  BY <1>1, <1>2, <1>3, NoIdIsNoPlayer DEF Uninvited, NoSelfInvitation, IInv
<1>5. IInv'
  BY <1>1, <1>2, <1>4, KeepsIInv DEF Uninvited
<1>6. QED
  BY <1>1, <1>2, <1>5 DEF Outcome, SameAlliances, Uninvited

(* The end of the server leaves the tables as they are. *)
LEMMA CrashDoes ==
    ASSUME IInv, UNCHANGED <<players, alliance, invite, Alliances, NumMembers,
                             accepting>>,
           crashed' \in BOOLEAN
    PROVE  IInv' /\ Outcome
<1>1. Tables' = Tables
  BY DEF Tables
<1>2. QED
  BY <1>1, KeepsIInv DEF IInv, Shapes, Outcome, SameAlliances

LEMMA Invite_playerDoes ==
    ASSUME IInv, NEW pl \in Player, NEW ally \in Player, Invite_player(pl, ally)
    PROVE  IInv' /\ Outcome
<1>1. /\ pl \in Present /\ ally \in Present /\ pl # ally
      /\ players' = players /\ accepting' = accepting
  BY DEF Invite_player
<1>2. CASE invite[ally] = pl
  <2>1. AcceptOrCrash(Tables, pl, ally)
    BY <1>2 DEF Invite_player
  <2>2. /\ Tables \in TablesType /\ Sound(Tables) /\ NoSelfInvitation(Tables.invite)
        /\ Tables.alliance = alliance
    BY DEF IInv, Shapes, Tables
  <2>3. QED
    BY <1>1, <2>1, <2>2, AcceptOrCrashDoes, KeepsIInv
<1> DEFINE t == [Tables EXCEPT !.invite[pl] = ally]
<1>3. /\ t \in TablesType /\ Sound(t) /\ NoSelfInvitation(t.invite)
      /\ t.alliance = alliance
  BY <1>1, InviteDoes
<1>4. CASE invite[ally] # pl /\ Stale(pl)
  BY <1>1, <1>4, CrashDoes DEF Invite_player
<1>5. CASE invite[ally] # pl /\ ~Stale(pl) /\ ally \in Robot
  <2>1. Robot_invite(ally, pl)
    BY <1>4, <1>5 DEF Invite_player
  <2>2. CASE Become(Uninvite(t, pl)) /\ UNCHANGED crashed
    <3> DEFINE r == Uninvite(t, pl)
    <3> HIDE DEF t
    <3>1. Uninvited(t, pl, r) /\ Sound(r)
      BY <1>3, UninviteSound
    <3>2. r \in TablesType /\ Become(r)
      BY <2>2, <3>1 DEF Uninvited
    <3> HIDE DEF r
    <3>3. Tables' = r
      BY <3>2, TheTables
    <3>4. Tables'.invite = invite' /\ Tables.alliance = alliance
      BY DEF Tables
    <3>5. NoSelfInvitation(invite')
      BY <1>3, <3>1, <3>3, <3>4, NoIdIsNoPlayer DEF Uninvited, NoSelfInvitation
    <3>6. IInv'
      BY <1>1, <2>2, <3>1, <3>2, <3>3, <3>5, KeepsIInv DEF IInv, Shapes
    <3>7. QED
      BY <1>3, <3>1, <3>3, <3>4, <3>6 DEF Outcome, SameAlliances, Uninvited
  <2>3. CASE AcceptOrCrash(t, ally, pl)
    <3> HIDE DEF t
    <3>1. QED
      BY <1>1, <1>3, <2>3, AcceptOrCrashDoes, KeepsIInv
  <2>4. QED
    BY <2>1, <2>2, <2>3 DEF Robot_invite
<1>6. CASE invite[ally] # pl /\ ~Stale(pl) /\ ally \notin Robot
  <2>1. Become(t) /\ crashed' = crashed
    BY <1>6 DEF Invite_player
  <2> HIDE DEF t
  <2>2. Tables' = t
    BY <1>3, <2>1, TheTables
  <2>3. Tables'.invite = invite' /\ Tables.alliance = alliance
    BY DEF Tables
  <2>4. IInv'
    BY <1>1, <1>3, <2>1, <2>2, <2>3, KeepsIInv DEF IInv, Shapes
  <2>5. QED
    BY <1>3, <2>2, <2>3, <2>4 DEF Outcome, SameAlliances
<1>7. QED
  BY <1>2, <1>4, <1>5, <1>6

LEMMA Refuse_all_alliancesDoes ==
    ASSUME IInv, NEW pl \in Player, Refuse_all_alliances(pl)
    PROVE  IInv' /\ Outcome
<1>1. /\ invite \in [Player -> Player \cup {NoId}]
      /\ alliance \in [Player -> Id \cup {NotSet}]
      /\ Alliances \in SUBSET Id /\ NumMembers \in [Id -> Int]
  BY DEF IInv, Shapes, Tables, TablesType
<1>2. /\ invite' \in [Player -> Player \cup {NoId}]
      /\ NoSelfInvitation(invite')
  BY <1>1, NoIdIsNoPlayer DEF Refuse_all_alliances, IInv, NoSelfInvitation
<1>3. Tables' = [alliance |-> alliance, invite |-> invite',
                 ids |-> Alliances, num |-> NumMembers]
  BY DEF Refuse_all_alliances, Tables
<1>4. Tables' \in TablesType
  BY <1>1, <1>2, <1>3 DEF TablesType
<1>5. \A id \in Id : Class(Tables', id) = Class(Tables, id)
  BY <1>3 DEF Class, Tables
<1>6. Sound(Tables')
  BY <1>3, <1>5 DEF IInv, Sound, Counted, NobodyAlone, Tables
<1>7. IInv'
  BY <1>2, <1>4, <1>6, KeepsIInv DEF Refuse_all_alliances, IInv, Shapes
<1>8. QED
  BY <1>3, <1>7 DEF Outcome, SameAlliances, Tables

LEMMA Accept_allianceDoes ==
    ASSUME IInv, NEW pl \in Player, NEW ally \in Player, Accept_alliance(pl, ally)
    PROVE  IInv' /\ Outcome
<1>1. /\ pl \in Present /\ ally \in Present /\ invite[ally] = pl
      /\ AcceptOrCrash(Tables, pl, ally)
      /\ players' = players /\ accepting' = accepting
  BY DEF Accept_alliance
<1>2. pl # ally
  BY <1>1 DEF IInv, NoSelfInvitation
<1>3. /\ Tables \in TablesType /\ Sound(Tables) /\ NoSelfInvitation(Tables.invite)
      /\ Tables.alliance = alliance
  BY DEF IInv, Shapes, Tables
<1>4. QED
  BY <1>1, <1>2, <1>3, AcceptOrCrashDoes, KeepsIInv

LEMMA Accept_all_alliancesDoes ==
    ASSUME IInv, NEW pl \in Player, Accept_all_alliances(pl)
    PROVE  IInv' /\ Outcome
<1>1. /\ pl \in Present
      /\ accepting' = [by |-> pl, visits |-> players]
      /\ players' = players /\ Tables' = Tables
      /\ alliance' = alliance /\ invite' = invite /\ crashed' = crashed
  BY DEF Accept_all_alliances, Tables
<1>2. Present' = Present
  BY <1>1 DEF Present
<1>3. players # <<>> /\ \A i \in DOMAIN players : players[i] \in Present
  BY <1>1 DEF Present
<1>4. AcceptingPresent'
  BY <1>1, <1>2, <1>3 DEF AcceptingPresent
<1>5. Shapes' /\ OnceEach(players)' /\ NoSelfInvitation(invite)'
  BY <1>1 DEF IInv, Shapes, OnceEach, NoSelfInvitation
<1>6. Sound(Tables)'
  BY <1>1, <1>2 DEF IInv, Sound
<1>7. QED
  BY <1>1, <1>4, <1>5, <1>6 DEF IInv, Outcome, SameAlliances

LEMMA Accept_nextDoes ==
    ASSUME IInv, Accept_next
    PROVE  IInv' /\ Outcome
<1> DEFINE pl == accepting.by
           ally == Head(accepting.visits)
           rest == Tail(accepting.visits)
<1>1. /\ accepting.visits \in Seq(Player) /\ accepting.visits # <<>>
      /\ accepting.by \in Present
      /\ \A i \in DOMAIN accepting.visits : accepting.visits[i] \in Present
  BY DEF IInv, Shapes, AcceptingPresent, Accept_next
<1>2. /\ ally \in Present
      /\ rest \in Seq(Player)
      /\ \A i \in DOMAIN rest : rest[i] \in Present
  <2>1. 1 \in DOMAIN accepting.visits /\ ally = accepting.visits[1]
    BY <1>1
  <2>2. /\ rest \in Seq(Player)
        /\ \A i \in DOMAIN rest : /\ i + 1 \in DOMAIN accepting.visits
                                  /\ rest[i] = accepting.visits[i + 1]
    BY <1>1
  <2>3. QED
    BY <1>1, <2>1, <2>2
<1>3. /\ accepting' = IF rest = <<>> THEN Nobody
                      ELSE [accepting EXCEPT !.visits = rest]
      /\ players' = players
  BY DEF Accept_next
<1>4. /\ accepting' \in [by : Player \cup {NoId}, visits : Seq(Player)]
      /\ \/ accepting' = Nobody
         \/ /\ accepting'.visits = rest /\ rest # <<>>
            /\ accepting'.by = accepting.by
  <2>1. accepting \in [by : Player \cup {NoId}, visits : Seq(Player)]
    BY DEF IInv, Shapes
  <2>2. CASE rest = <<>>
    BY <1>3, <2>2 DEF Nobody
  <2>3. CASE rest # <<>>
    BY <1>2, <1>3, <2>1, <2>3
  <2>4. QED
    BY <2>2, <2>3
<1>5. AcceptingPresent'
  <2>1. Present' = Present
    BY <1>3 DEF Present
  <2>2. QED
    BY <1>1, <1>2, <1>4, <2>1 DEF AcceptingPresent, Nobody
<1>6. /\ Tables \in TablesType /\ Sound(Tables) /\ NoSelfInvitation(Tables.invite)
      /\ Tables.alliance = alliance
  BY DEF IInv, Shapes, Tables
<1>7. /\ Tables' \in TablesType /\ Sound(Tables')
      /\ NoSelfInvitation(invite')
      /\ crashed' \in BOOLEAN
      /\ Outcome
  <2>1. CASE invite[ally] = pl
    <3>1. AcceptOrCrash(Tables, pl, ally)
      BY <2>1 DEF Accept_next
    <3>2. pl # ally
      BY <1>2, <2>1, PresentPlayers DEF IInv, NoSelfInvitation
    <3> HIDE DEF pl, ally
    <3>3. QED
      BY <1>1, <1>2, <1>6, <3>1, <3>2, AcceptOrCrashDoes DEF pl
  <2>2. CASE invite[ally] # pl
    <3>1. Tables' = Tables /\ invite' = invite /\ crashed' = crashed
      BY <2>2 DEF Accept_next, Tables
    <3>2. QED
      BY <3>1 DEF IInv, Shapes, Outcome, SameAlliances
  <2>3. QED
    BY <2>1, <2>2
<1>8. Present' = Present
  BY <1>3 DEF Present
<1>9. Shapes' /\ OnceEach(players)' /\ NoSelfInvitation(invite)'
  BY <1>3, <1>4, <1>7 DEF IInv, Shapes, OnceEach, NoSelfInvitation
<1>10. Sound(Tables)'
  BY <1>7, <1>8 DEF Sound
<1>11. QED
  BY <1>5, <1>7, <1>9, <1>10 DEF IInv

LEMMA Leave_allianceDoes ==
    ASSUME IInv, NEW p \in Player, Leave_alliance(p)
    PROVE  IInv' /\ Outcome
<1> DEFINE r == Leave(Tables, p)
<1>1. Left(Tables, p, r)
  BY LeaveDoes, PresentPlayers DEF IInv, Shapes
<1>2. Become(r) /\ UNCHANGED <<players, accepting, crashed>>
  BY DEF Leave_alliance
<1> HIDE DEF r
<1>3. Tables' = r
  BY <1>1, <1>2, TheTables DEF Left
<1>4. /\ Tables'.invite = invite' /\ Tables.invite = invite
      /\ Tables'.alliance = alliance' /\ Tables.alliance = alliance
  BY DEF Tables
<1>5. IInv'
  BY <1>1, <1>2, <1>3, <1>4, KeepsIInv DEF IInv, Shapes, Left
<1>6. QED
  BY <1>1, <1>3, <1>4, <1>5 DEF Outcome, Left

(* Init_player *)
LEMMA EnterDoes ==
    ASSUME IInv, NEW p \in Player, Enter(p)
    PROVE  IInv' /\ Outcome
<1>1. /\ players \in Seq(Player)
      /\ invite \in [Player -> Player \cup {NoId}]
      /\ alliance \in [Player -> Id \cup {NotSet}]
      /\ Alliances \in SUBSET Id /\ NumMembers \in [Id -> Int]
  BY DEF IInv, Shapes, Tables, TablesType
<1>2. p \notin Present /\ players' = Append(players, p) /\ accepting = Nobody
  BY DEF Enter, Running
<1>3. /\ players' \in Seq(Player) /\ Present' = Present \cup {p}
      /\ OnceEach(players)'
  <2>1. /\ players' \in Seq(Player) /\ Len(players') = Len(players) + 1
        /\ players'[Len(players) + 1] = p
        /\ \A i \in 1 .. Len(players) : players'[i] = players[i]
    BY <1>1, <1>2
  <2>2. DOMAIN players = 1 .. Len(players) /\ DOMAIN players' = 1 .. Len(players) + 1
    BY <1>1, <2>1
  <2>3. Present' = Present \cup {p}
    <3>1. ASSUME NEW q \in Present' PROVE q \in Present \cup {p}
      BY <1>1, <2>1, <2>2 DEF Present
    <3>2. ASSUME NEW q \in Present PROVE q \in Present'
      BY <1>1, <2>1, <2>2 DEF Present
    <3>3. p \in Present'
      <4>1. Len(players) + 1 \in DOMAIN players'
        BY <1>1, <2>2
      <4>2. QED
        BY <2>1, <4>1 DEF Present
    <3>4. QED
      BY <3>1, <3>2, <3>3
  <2>4. \A i \in DOMAIN players : players[i] # p
    BY <1>2 DEF Present
  <2>5. OnceEach(players)'
    BY <1>1, <2>1, <2>2, <2>4 DEF IInv, OnceEach
  <2>6. QED
    BY <2>1, <2>3, <2>5
<1>4. alliance[p] = NotSet
  BY <1>2 DEF IInv, Sound, Counted, Tables
<1>5. /\ alliance' = alliance
      /\ invite' = [invite EXCEPT ![p] = NoId]
      /\ Alliances' = Alliances /\ NumMembers' = NumMembers
      /\ accepting' = accepting /\ crashed' = crashed
  BY <1>1, <1>4 DEF Enter
<1>6. /\ invite' \in [Player -> Player \cup {NoId}]
      /\ NoSelfInvitation(invite)'
  BY <1>1, <1>5, NoIdIsNoPlayer DEF IInv, NoSelfInvitation
<1>7. Shapes'
  BY <1>1, <1>3, <1>5, <1>6 DEF IInv, Shapes, Tables, TablesType
<1>8. \A id \in Id : Class(Tables, id)' = Class(Tables, id)
  BY <1>5 DEF Class, Tables
<1>9. Sound(Tables)'
  BY <1>3, <1>5, <1>8 DEF IInv, Sound, Counted, NobodyAlone, Tables
<1>10. AcceptingPresent'
  BY <1>2, <1>5 DEF AcceptingPresent
<1>11. QED
  BY <1>3, <1>5, <1>6, <1>7, <1>9, <1>10 DEF IInv, Outcome, SameAlliances, Tables

(* PlayersArray without its i-th player. *)
LEMMA WithoutOne ==
    ASSUME players \in Seq(Player), OnceEach(players), NEW i \in DOMAIN players,
           players' = [j \in 1 .. Len(players) - 1 |->
                          IF j = i THEN players[Len(players)] ELSE players[j]]
    PROVE  /\ players' \in Seq(Player)
           /\ OnceEach(players)'
           /\ Present' = Present \ {players[i]}
<1> DEFINE n == Len(players)
<1>1. /\ n \in Nat /\ DOMAIN players = 1 .. n /\ i \in 1 .. n
      /\ \A j \in 1 .. n : players[j] \in Player
  OBVIOUS
<1>2. /\ DOMAIN players' = 1 .. n - 1
      /\ \A j \in 1 .. n - 1 : players'[j] = IF j = i THEN players[n] ELSE players[j]
  OBVIOUS
<1>3. players' \in Seq(Player)
  <2>1. n - 1 \in Nat /\ \A j \in 1 .. n - 1 : players'[j] \in Player
    BY <1>1, <1>2
  <2>2. QED
    BY <1>1, <2>1
<1> HIDE DEF n
<1>4. \A j, k \in 1 .. n : players[j] = players[k] => j = k
  BY <1>1 DEF OnceEach
<1>5. OnceEach(players)'
  BY <1>1, <1>2, <1>4 DEF OnceEach
<1>6. ASSUME NEW q PROVE q \in Present' <=> q \in Present \ {players[i]}
  <2>1. ASSUME q \in Present' PROVE q \in Present \ {players[i]}
    BY <1>1, <1>2, <1>4, <2>1 DEF Present
  <2>2. ASSUME q \in Present, q # players[i] PROVE q \in Present'
    <3>1. PICK j \in 1 .. n : q = players[j] /\ j # i
      BY <1>1, <2>2 DEF Present
    <3>2. CASE j = n
      BY <1>1, <1>2, <3>1, <3>2 DEF Present
    <3>3. CASE j # n
      <4>1. j \in 1 .. n - 1
        BY <1>1, <3>3
      <4>2. QED
        BY <1>2, <3>1, <4>1 DEF Present
    <3>4. QED
      BY <3>2, <3>3
  <2>3. QED
    BY <2>1, <2>2
<1>7. QED
  BY <1>3, <1>5, <1>6

LEMMA Delete_playerDoes ==
    ASSUME IInv, NEW p \in Player, Delete_player(p)
    PROVE  IInv' /\ Outcome
<1> DEFINE u == Leave(Tables, p)
           r == Uninvite(u, p)
<1>1. Left(Tables, p, u)
  BY LeaveDoes, PresentPlayers DEF IInv, Shapes
<1>2. Become(r) /\ accepting' = accepting /\ crashed' = crashed /\ accepting = Nobody
  BY DEF Delete_player, Running
<1> HIDE DEF u
<1>3. Uninvited(u, p, r) /\ Sound(r)
  BY <1>1, UninviteSound DEF Left
<1> HIDE DEF r
<1>4. Tables' = r
  BY <1>2, <1>3, TheTables DEF Uninvited
<1>5. /\ Tables'.invite = invite' /\ Tables.invite = invite
      /\ Tables'.alliance = alliance' /\ Tables.alliance = alliance
  BY DEF Tables
<1>6. PICK i \in DOMAIN players :
          /\ players[i] = p
          /\ players' = [j \in 1 .. Len(players) - 1 |->
                            IF j = i THEN players[Len(players)] ELSE players[j]]
  BY DEF Delete_player
<1>7. /\ players' \in Seq(Player) /\ OnceEach(players)'
      /\ Present' = Present \ {p}
  BY <1>6, WithoutOne DEF IInv, Shapes
<1>8. /\ r.alliance[p] = NotSet
      /\ \A q \in Player : r.alliance[q] \in {alliance[q], NotSet}
      /\ \A q, s \in Player \ {p} :
            q # s /\ alliance[q] = alliance[s] => r.alliance[q] = alliance[q]
  BY <1>1, <1>3, <1>5 DEF Left, Uninvited
<1>9. Sound(Tables)'
  BY <1>3, <1>4, <1>7, <1>8 DEF Sound, Counted
<1>10. NoSelfInvitation(invite)'
  BY <1>1, <1>3, <1>4, <1>5, NoIdIsNoPlayer
     DEF IInv, NoSelfInvitation, Left, Uninvited
<1>11. Shapes'
  BY <1>2, <1>3, <1>4, <1>7 DEF IInv, Shapes, Uninvited
<1>12. AcceptingPresent'
  BY <1>2 DEF AcceptingPresent
<1>13. Outcome
  BY <1>4, <1>5, <1>8 DEF Outcome
<1>14. QED
  BY <1>7, <1>9, <1>10, <1>11, <1>12, <1>13 DEF IInv

LEMMA StepDoes ==
    ASSUME IInv, Next
    PROVE  IInv' /\ Outcome
<1>1. CASE \E p, q \in Player :
              Invite_player(p, q) \/ Refuse_alliance(p, q) \/ Accept_alliance(p, q)
  <2>1. ASSUME NEW p \in Player, NEW q \in Player, Refuse_alliance(p, q)
        PROVE  IInv' /\ Outcome
    BY <2>1, UninviteDoes DEF Refuse_alliance, IInv, Shapes
  <2>2. QED
    BY <1>1, <2>1, Invite_playerDoes, Accept_allianceDoes
<1>2. CASE \E p \in Player :
              \/ Cancel_invitation(p) \/ Refuse_all_alliances(p)
              \/ Accept_all_alliances(p) \/ Leave_alliance(p)
              \/ Enter(p) \/ Delete_player(p)
  <2>1. ASSUME NEW p \in Player, Cancel_invitation(p)
        PROVE  IInv' /\ Outcome
    <3>1. CASE Stale(p)
      BY <2>1, <3>1, CrashDoes DEF Cancel_invitation
    <3>2. CASE ~Stale(p)
      BY <2>1, <3>2, UninviteDoes DEF Cancel_invitation, IInv, Shapes
    <3>3. QED
      BY <3>1, <3>2
  <2>2. QED
    BY <1>2, <2>1, Refuse_all_alliancesDoes, Accept_all_alliancesDoes,
       Leave_allianceDoes, EnterDoes, Delete_playerDoes
<1>3. CASE Accept_next
  BY <1>3, Accept_nextDoes
<1>4. QED
  BY <1>1, <1>2, <1>3 DEF Next

LEMMA StutterKeeps ==
    ASSUME IInv, UNCHANGED vars
    PROVE  IInv' /\ Outcome
<1>1. /\ UNCHANGED <<players, alliance, invite, Alliances, NumMembers, accepting>>
      /\ crashed' \in BOOLEAN
  BY DEF vars, IInv, Shapes
<1>2. QED
  BY <1>1, CrashDoes

LEMMA InitIInv == Init => IInv
<1> SUFFICES ASSUME Init PROVE IInv
  OBVIOUS
<1>1. Tables \in TablesType
  BY DEF Init, Tables, TablesType
<1>2. Shapes
  <2>1. <<>> \in Seq(Player)
    OBVIOUS
  <2>2. Nobody \in [by : Player \cup {NoId}, visits : Seq(Player)]
    BY <2>1 DEF Nobody
  <2>3. QED
    BY <1>1, <2>1, <2>2 DEF Init, Shapes
<1>3. \A id \in Id : Class(Tables, id) = {}
  BY NotSetNoId DEF Init, Tables, Class
<1>4. Sound(Tables)
  BY <1>3, FS_EmptySet DEF Init, Tables, Sound, Counted, NobodyAlone
<1>5. OnceEach(players) /\ NoSelfInvitation(invite) /\ AcceptingPresent
  BY NoIdIsNoPlayer DEF Init, OnceEach, NoSelfInvitation, AcceptingPresent
<1>6. QED
  BY <1>2, <1>4, <1>5 DEF IInv

(* The strengthening holds in every state. *)
THEOREM Inductive == Spec => []IInv
<1>1. IInv /\ [Next]_vars => IInv'
  BY StepDoes, StutterKeeps
<1>2. QED
  BY InitIInv, <1>1, PTL DEF Spec

(* Every variable has its type; in particular no count of members passes   *)
(* the number of players.                                                  *)
THEOREM TypeCorrect == Spec => []TypeOK
<1>1. IInv => TypeOK
  <2> SUFFICES ASSUME IInv PROVE TypeOK
    OBVIOUS
  <2>1. /\ players \in Seq(Player)
        /\ alliance \in [Player -> Id \cup {NotSet}]
        /\ invite \in [Player -> Player \cup {NoId}]
        /\ Alliances \subseteq Id
        /\ NumMembers \in [Id -> Int]
        /\ accepting.by \in Player \cup {NoId}
        /\ accepting.visits \in Seq(Player)
        /\ crashed \in BOOLEAN
    BY DEF IInv, Shapes, Tables, TablesType
  <2>2. ASSUME NEW id \in Id
        PROVE  NumMembers[id] \in 0 .. Cardinality(Player)
    <3>1. NumMembers[id] = Cardinality(Class(Tables, id))
      BY DEF IInv, Sound, Counted, Tables
    <3>2. Class(Tables, id) \in SUBSET Player
      BY DEF Class
    <3>3. Cardinality(Class(Tables, id)) <= Cardinality(Player)
      BY <3>2, PlayersFinite, FS_Subset
    <3>4. QED
      BY <3>1, <3>3, ClassFinite, PlayersFinite, FS_CardinalityType
  <2>3. NumMembers \in [Id -> 0 .. Cardinality(Player)]
    BY <2>1, <2>2
  <2>4. QED
    BY <2>1, <2>3 DEF TypeOK
<1>2. QED
  BY <1>1, Inductive, PTL

(* Players are in alliances that exist, nobody is in one alone, and        *)
(* NumMembers, by which Player_leave_alliance dissolves an alliance, is    *)
(* the number of its members.                                              *)
THEOREM AlliancesRight == Spec => []AlliancesOfTwo
<1>1. IInv => AlliancesOfTwo
  <2> SUFFICES ASSUME IInv PROVE AlliancesOfTwo
    OBVIOUS
  <2>1. /\ \A p \in Player : alliance[p] \in Alliances \cup {NotSet}
        /\ \A id \in Id : NumMembers[id] = Cardinality(Class(Tables, id))
        /\ \A id \in Alliances : NumMembers[id] >= 2
        /\ Alliances \subseteq Id
    BY DEF IInv, Shapes, TablesType, Sound, Counted, NobodyAlone, Tables
  <2>2. \A id \in Id : Members(Tables, id) = Class(Tables, id)
    BY SoundMembers, PresentPlayers DEF IInv, Sound
  <2>3. QED
    BY <2>1, <2>2 DEF AlliancesOfTwo
<1>2. QED
  BY <1>1, Inductive, PTL

(* Alliance_add_player drops the invitations for the player who joins.     *)
THEOREM NewcomersUninvited == Spec => JoinDropsInvitations
<1> DEFINE A == \A p \in Present :
                   alliance'[p] \notin {NotSet, alliance[p]}
                      => \A q \in Present : invite'[q] # p
<1>1. IInv /\ [Next]_vars => A
  <2> SUFFICES ASSUME IInv, [Next]_vars PROVE A
    OBVIOUS
  <2>1. Outcome
    BY StepDoes, StutterKeeps
  <2>2. /\ Tables'.invite = invite' /\ Tables'.alliance = alliance'
        /\ Tables.alliance = alliance /\ Present \subseteq Player
    BY PresentPlayers DEF Tables, IInv
  <2>3. QED
    BY <2>1, <2>2 DEF Outcome, SameAlliances, JoinersUninvited
<1>2. QED
  BY <1>1, Inductive, PTL DEF Spec, JoinDropsInvitations

-----------------------------------------------------------------------------
(* The refinement: an answer unites two coalitions, leaving is quitting.   *)

AllySets == [p \in Player |-> {q \in Player \ {p} : Allies(p, q)}]

LEMMA UniteStep ==
    ASSUME IInv, NEW p \in Present, NEW q \in Present, p # q,
           United(Tables, p, q, Tables')
    PROVE  Abstract!Unite(p, q)
<1> DEFINE U == Side(Tables, p) \cup Side(Tables, q)
           union == AllySets[p] \cup AllySets[q] \cup {p, q}
<1>1. /\ p \in Player /\ q \in Player
      /\ Tables'.alliance = alliance' /\ Tables.alliance = alliance
      /\ alliance \in [Player -> Id \cup {NotSet}]
  BY PresentPlayers DEF IInv, Shapes, Tables, TablesType
<1>2. PICK id \in Id :
        /\ \A s \in U : alliance'[s] = id
        /\ \A s \in Player \ U : alliance'[s] = alliance[s] /\ alliance[s] # id
  BY <1>1 DEF United
<1>3. ASSUME NEW s \in Player
      PROVE  s \in Side(Tables, s) /\ Side(Tables, s) = AllySets[s] \cup {s}
  BY <1>1 DEF Side, Class, AllySets, Allies
<1>4. union = U /\ U \subseteq Player
  BY <1>1, <1>3 DEF AllySets
<1>5. ASSUME NEW r \in Player
      PROVE  AllySets'[r] = IF r \in U THEN U \ {r} ELSE AllySets[r]
  <2>1. AllySets'[r] = {s \in Player \ {r} :
                          alliance'[r] # NotSet /\ alliance'[r] = alliance'[s]}
    BY DEF AllySets, Allies
  <2>2. CASE r \in U
    BY <1>2, <1>4, <2>1, <2>2, NotSetNoId
  <2>3. CASE r \notin U
    <3>1. \A s \in U : alliance[s] = alliance[r] => alliance[r] = NotSet
      BY <1>1, <2>3 DEF Side, Class
    <3>2. QED
      BY <1>2, <1>4, <2>1, <2>3, <3>1, NotSetNoId DEF AllySets, Allies
  <2>4. QED
    BY <2>2, <2>3
<1>6. AllySets' = [r \in Player |-> IF r \in union THEN union \ {r} ELSE AllySets[r]]
  BY <1>4, <1>5 DEF AllySets
<1>7. QED
  BY <1>6 DEF Abstract!Unite, AllySets

LEMMA QuitStep ==
    ASSUME NEW p \in Player,
           alliance'[p] = NotSet,
           \A q \in Player : alliance'[q] \in {alliance[q], NotSet},
           \A q, s \in Player \ {p} :
              q # s /\ alliance[q] = alliance[s] => alliance'[q] = alliance[q]
    PROVE  Abstract!Quit(p)
<1>1. ASSUME NEW q \in Player
      PROVE  AllySets'[q] = IF q = p THEN {} ELSE AllySets[q] \ {p}
  <2>1. AllySets'[q] = {s \in Player \ {q} :
                          alliance'[q] # NotSet /\ alliance'[q] = alliance'[s]}
    BY DEF AllySets, Allies
  <2>2. CASE q = p
    BY <2>1, <2>2
  <2>3. CASE q # p
    <3>1. ASSUME NEW s \in Player \ {q}
          PROVE  (alliance'[q] # NotSet /\ alliance'[q] = alliance'[s])
                   <=> (s # p /\ alliance[q] # NotSet /\ alliance[q] = alliance[s])
      BY <2>3
    <3>2. QED
      BY <2>1, <2>3, <3>1 DEF AllySets, Allies
  <2>4. QED
    BY <2>2, <2>3
<1>2. AllySets' = [q \in Player |-> IF q = p THEN {} ELSE AllySets[q] \ {p}]
  BY <1>1 DEF AllySets
<1>3. QED
  BY <1>2 DEF Abstract!Quit, AllySets

(* The tables implement the partition of the players: two coalitions       *)
(* become one, or one player leaves, or nothing happens.                   *)
THEOREM Refinement == Spec => RefinesCoalitions
<1>1. Init => Abstract!Init
  BY DEF Init, Abstract!Init, Allies
<1>2. IInv /\ [Next]_vars => [Abstract!Next]_AllySets
  <2> SUFFICES ASSUME IInv, [Next]_vars PROVE [Abstract!Next]_AllySets
    OBVIOUS
  <2>1. Outcome
    BY StepDoes, StutterKeeps
  <2>2. Tables'.alliance = alliance' /\ Tables.alliance = alliance
    BY DEF Tables
  <2>3. CASE SameAlliances(Tables, Tables')
    BY <2>2, <2>3 DEF SameAlliances, AllySets, Allies
  <2>4. CASE \E p, q \in Present : p # q /\ United(Tables, p, q, Tables')
    BY <2>4, UniteStep, PresentPlayers DEF IInv, Abstract!Next
  <2>5. CASE \E p \in Player :
                /\ alliance'[p] = NotSet
                /\ \A q \in Player : alliance'[q] \in {alliance[q], NotSet}
                /\ \A q, s \in Player \ {p} :
                      q # s /\ alliance[q] = alliance[s]
                         => alliance'[q] = alliance[q]
    BY <2>5, QuitStep DEF Abstract!Next
  <2>6. QED
    BY <2>1, <2>3, <2>4, <2>5 DEF Outcome
<1>3. QED
  BY <1>1, <1>2, Inductive, PTL
     DEF Spec, RefinesCoalitions, Abstract!Spec, AllySets
=============================================================================
