-------------------------- MODULE Admission_proofs --------------------------
(***************************************************************************)
(* Proofs that the way into the game keeps its promises, for all sets of   *)
(* clients and ports and all sizes of the queue: no seat is sold twice,    *)
(* nobody gets in twice, the queue stays in order and tells everybody the  *)
(* right port.                                                             *)
(*                                                                         *)
(* What happens to the queue is proved of the list alone: whatever the     *)
(* server removes, the rest keeps its order, and where it inserts, what    *)
(* enters stays before what waits.  What happens to the connections is     *)
(* proved of the function from ports to connections alone.  The actions    *)
(* then only have to be traced to these.                                   *)
(***************************************************************************)
EXTENDS Admission, FiniteSetTheorems, WellFoundedInduction, TLAPS

Entry == [client : Client, port : Port \cup {NoPort}]
Connections == [Port -> [state : States, client : Client \cup {Nobody}]]
Listening(c) == [state |-> "LISTENING", client |-> c]

(* What enters is before what waits. *)
InOrder(q) ==
    \A i, j \in DOMAIN q : i < j /\ q[j].port # NoPort => q[i].port # NoPort

OncePerNick(q) ==
    \A i, j \in DOMAIN q : Nick[q[i].client] = Nick[q[j].client] => i = j

(* Who is entering, and listened for, is listened for where it was told. *)
Truthful(q, conns) ==
    \A i \in DOMAIN q :
        /\ q[i].port # NoPort
        /\ \E p \in Port : conns[p] = Listening(q[i].client)
        => conns[q[i].port] = Listening(q[i].client)

(* Ports that are not free are somebody's, and of different nicks. *)
Owned(conns) == \A p \in Port : conns[p].state # "FREE" => conns[p].client \in Client

DifferentNicks(conns) ==
    \A p, r \in Port :
        /\ conns[p].state # "FREE" /\ conns[r].state # "FREE"
        /\ Nick[conns[p].client] = Nick[conns[r].client]
        => p = r

(* NumOperators counts down for operators whom it never counted, but for   *)
(* no more of them than there are.                                         *)
Owed == NumOperators - Cardinality(isoperator) >= -MaxGrants - Cardinality(Client)

(* The inductive invariant. *)
IInv ==
    /\ TypeOK
    /\ NumQueuedPlayers = Len(qp_list)
    /\ Owed
    /\ Owned(Conn) /\ DifferentNicks(Conn)
    /\ SeatsNotOversold
    /\ InOrder(qp_list) /\ OncePerNick(qp_list)
    /\ Truthful(qp_list, Conn)

-----------------------------------------------------------------------------
(* The entries that are left of a list.                                    *)

(* A set of numbers that is not empty has a least one. *)
LEMMA Least ==
    ASSUME NEW S \in SUBSET Nat, S # {}
    PROVE  \E n \in S : \A m \in S : n <= m
<1> DEFINE R == OpToRel(<, Nat)
<1>1. IsWellFoundedOn(R, Nat)
  BY NatLessThanWellFounded
<1>2. \A x, y \in Nat : <<x, y>> \notin R => y <= x
  BY DEF OpToRel
<1> HIDE DEF R
<1>3. PICK n \in S : \A m \in S : <<m, n>> \notin R
  BY <1>1, WFMin
<1>4. QED
  BY <1>2, <1>3

(* How many numbers of a set are i or less. *)
Rank(S, i) == Cardinality({j \in S : j <= i})

LEMMA RankType ==
    ASSUME NEW N \in Nat, NEW S \in SUBSET (1 .. N), NEW i \in Int
    PROVE  /\ IsFiniteSet(S) /\ Cardinality(S) \in Nat
           /\ IsFiniteSet({j \in S : j <= i})
           /\ Rank(S, i) \in Nat /\ Rank(S, i) <= Cardinality(S)
<1>1. IsFiniteSet(1 .. N)
  BY FS_Interval
<1>2. IsFiniteSet(S)
  BY <1>1, FS_Subset
<1>3. {j \in S : j <= i} \in SUBSET S
  OBVIOUS
<1>4. IsFiniteSet({j \in S : j <= i}) /\ Rank(S, i) <= Cardinality(S)
  BY <1>2, <1>3, FS_Subset DEF Rank
<1>5. QED
  BY <1>2, <1>4, FS_CardinalityType DEF Rank

(* From one number to the next the rank grows by one when it is in the set. *)
LEMMA RankStep ==
    ASSUME NEW N \in Nat, NEW S \in SUBSET (1 .. N), NEW i \in Int
    PROVE  Rank(S, i) = IF i \in S THEN Rank(S, i - 1) + 1 ELSE Rank(S, i - 1)
<1> DEFINE B == {j \in S : j <= i - 1}
<1>1. IsFiniteSet(B)
  BY RankType
<1>2. i \notin B
  OBVIOUS
<1>3. {j \in S : j <= i} = IF i \in S THEN B \cup {i} ELSE B
  <2>1. \A j \in S : j \in Int
    OBVIOUS
  <2>2. \A j \in S : j <= i <=> j <= i - 1 \/ j = i
    BY <2>1
  <2>3. QED
    BY <2>2
<1>4. Cardinality(B \cup {i}) = Cardinality(B) + 1
  BY <1>1, <1>2, FS_AddElement
<1>5. QED
  BY <1>3, <1>4 DEF Rank

(* Ranks are in order, and those of members are different. *)
LEMMA RankOrder ==
    ASSUME NEW N \in Nat, NEW S \in SUBSET (1 .. N), NEW i \in Int, NEW k \in S, i < k
    PROVE  Rank(S, i) < Rank(S, k)
<1>1. k \in Int /\ k - 1 \in Int /\ \A j \in S : j \in Int
  OBVIOUS
<1>2. Rank(S, k) = Rank(S, k - 1) + 1
  BY <1>1, RankStep
<1>3. {j \in S : j <= i} \in SUBSET {j \in S : j <= k - 1}
  <2>1. \A j \in S : j <= i => j <= k - 1
    BY <1>1
  <2>2. QED
    BY <2>1
<1>4. IsFiniteSet({j \in S : j <= k - 1})
  BY <1>1, RankType
<1>5. Rank(S, i) <= Rank(S, k - 1)
  BY <1>3, <1>4, FS_Subset DEF Rank
<1>6. Rank(S, i) \in Nat /\ Rank(S, k - 1) \in Nat
  BY <1>1, RankType
<1>7. QED
  BY <1>2, <1>5, <1>6

(* Ranks number the members, in their order. *)
LEMMA RankNumbers ==
    ASSUME NEW N \in Nat, NEW S \in SUBSET (1 .. N)
    PROVE  /\ \A i \in S : i \in Int /\ Rank(S, i) \in 1 .. Cardinality(S)
           /\ \A i, k \in S : Rank(S, i) < Rank(S, k) => i < k
           /\ \A i, k \in S : Rank(S, i) = Rank(S, k) => i = k
<1>1. \A i \in S : i \in Int
  OBVIOUS
<1>2. ASSUME NEW i \in S
      PROVE  Rank(S, i) \in 1 .. Cardinality(S)
  <2>1. i \in Int /\ i - 1 \in Int
    BY <1>1
  <2>2. Rank(S, i) \in Nat /\ Rank(S, i) <= Cardinality(S) /\ Cardinality(S) \in Nat
    BY <2>1, RankType
  <2>3. Rank(S, i - 1) \in Nat
    BY <2>1, RankType
  <2>4. Rank(S, i) = Rank(S, i - 1) + 1
    BY <2>1, RankStep
  <2>5. QED
    BY <2>2, <2>3, <2>4
<1>3. \A i, k \in S : i < k => Rank(S, i) < Rank(S, k)
  BY <1>1, RankOrder
<1>4. \A i \in S : Rank(S, i) \in Int
  BY <1>2
<1>5. QED
  BY <1>1, <1>2, <1>3, <1>4

(* There is a member of every rank. *)
LEMMA RankOnto ==
    ASSUME NEW N \in Nat, NEW S \in SUBSET (1 .. N), NEW n \in 1 .. Cardinality(S)
    PROVE  \E i \in S : Rank(S, i) = n
<1> DEFINE Reached == {i \in 0 .. N : Rank(S, i) >= n}
<1>1. Rank(S, N) = Cardinality(S) /\ Cardinality(S) \in Nat
  <2>1. \A j \in S : j \in Int /\ j <= N
    OBVIOUS
  <2>2. {j \in S : j <= N} = S
    BY <2>1
  <2>3. N \in Int
    OBVIOUS
  <2>4. Rank(S, N) \in Nat /\ Rank(S, N) = Cardinality(S)
    BY <2>2, <2>3, RankType DEF Rank
  <2>5. QED
    BY <2>4
<1>2. N \in Reached
  BY <1>1
<1>3. PICK i \in Reached : \A m \in Reached : i <= m
  <2>1. Reached \in SUBSET Nat /\ Reached # {}
    BY <1>2
  <2> HIDE DEF Reached
  <2>2. QED
    BY <2>1, Least
<1>4. i \in 0 .. N /\ Rank(S, i) >= n
  OBVIOUS
<1>5. i # 0
  <2>1. {j \in S : j <= 0} = {}
    <3>1. \A j \in S : j \in Int /\ j >= 1
      OBVIOUS
    <3>2. \A j \in S : ~(j <= 0)
      BY <3>1
    <3> HIDE DEF Reached
    <3>3. QED
      BY <3>2
  <2>2. Rank(S, 0) = 0
    BY <2>1, FS_EmptySet DEF Rank
  <2>3. QED
    BY <1>4, <2>2
<1>6. ~(Rank(S, i - 1) >= n)
  BY <1>3, <1>5
<1>7. Rank(S, i - 1) \in Nat /\ Rank(S, i) \in Nat
  <2>1. i \in Int /\ i - 1 \in Int
    BY <1>4
  <2>2. QED
    BY <2>1, RankType
<1> HIDE DEF Reached
<1>8. Rank(S, i) = IF i \in S THEN Rank(S, i - 1) + 1 ELSE Rank(S, i - 1)
  <2>1. i \in Int
    BY <1>4
  <2>2. QED
    BY <2>1, RankStep
<1>9. i \in S /\ Rank(S, i) = n
  BY <1>4, <1>6, <1>7, <1>8
<1>10. QED
  BY <1>9

(* A list is what is left of another. *)
Left(new, old) ==
    \E m \in [DOMAIN new -> DOMAIN old] :
        /\ \A n \in DOMAIN new : new[n] = old[m[n]]
        /\ \A n, k \in DOMAIN new : n < k => m[n] < m[k]

(* Without(I) removes the entries I and keeps the others in order. *)
WithoutRight(I) ==
    /\ Without(I) \in Seq(Entry)
    /\ Len(Without(I)) = Len(qp_list) - Cardinality(I)
    /\ Left(Without(I), qp_list)
    /\ \A i \in Entries \ I :
          /\ Rank(Entries \ I, i) \in DOMAIN Without(I)
          /\ Without(I)[Rank(Entries \ I, i)] = qp_list[i]

LEMMA WithoutKeeps ==
    ASSUME qp_list \in Seq(Entry), NEW I \in SUBSET Entries
    PROVE  WithoutRight(I)
<1> DEFINE N == Len(qp_list)
           S == {i \in Entries : i \notin I}
           nth(n) == CHOOSE i \in S : Rank(S, i) = n
<1>1. N \in Nat /\ Entries = 1 .. N /\ S \in SUBSET (1 .. N)
      /\ \A i \in 1 .. N : qp_list[i] \in Entry
  BY DEF Entries
<1>2. Cardinality(S) \in Nat /\ Cardinality(S) = N - Cardinality(I)
  <2>1. IsFiniteSet(1 .. N) /\ Cardinality(1 .. N) = N
    BY <1>1, FS_Interval
  <2>2. (1 .. N) \cap I = I
    BY <1>1
  <2>3. Cardinality(S) = N - Cardinality(I)
    <3>1. Cardinality((1 .. N) \ I) = Cardinality(1 .. N) - Cardinality((1 .. N) \cap I)
      BY <2>1, FS_Difference
    <3>2. (1 .. N) \ I = S
      BY <1>1
    <3>3. QED
      BY <2>1, <2>2, <3>1, <3>2
  <2>4. N \in Nat /\ S \in SUBSET (1 .. N) /\ N \in Int
    BY <1>1
  <2> HIDE DEF S, N
  <2>5. Cardinality(S) \in Nat
    BY <2>4, RankType
  <2>6. QED
    BY <2>3, <2>5
<1>3. Without(I) = [n \in 1 .. Cardinality(S) |-> qp_list[nth(n)]]
  BY DEF Without, Rank
<1>0. S = Entries \ I
  OBVIOUS
<1> HIDE DEF N, S
<1>4. \A n \in 1 .. Cardinality(S) : nth(n) \in S /\ Rank(S, nth(n)) = n
  BY <1>1, RankOnto
<1>5. /\ \A i \in S : i \in Int /\ Rank(S, i) \in 1 .. Cardinality(S)
      /\ \A i, k \in S : Rank(S, i) < Rank(S, k) => i < k
      /\ \A i, k \in S : Rank(S, i) = Rank(S, k) => i = k
  <2>1. N \in Nat /\ S \in SUBSET (1 .. N)
    BY <1>1
  <2>2. QED
    BY <2>1, RankNumbers
<1>6. \A i \in S : nth(Rank(S, i)) = i
  BY <1>4, <1>5
<1> DEFINE new == Without(I)
           m == [n \in 1 .. Cardinality(S) |-> nth(n)]
<1>7. /\ new = [n \in 1 .. Cardinality(S) |-> qp_list[m[n]]]
      /\ \A n \in 1 .. Cardinality(S) : m[n] \in S /\ Rank(S, m[n]) = n
      /\ \A i \in S : Rank(S, i) \in 1 .. Cardinality(S) /\ m[Rank(S, i)] = i
      /\ m \in [1 .. Cardinality(S) -> S]
  BY <1>3, <1>4, <1>5, <1>6
<1> HIDE DEF new, m, nth
<1>8. S \subseteq 1 .. N
  BY <1>1
<1>9. DOMAIN new = 1 .. Cardinality(S) /\ new \in Seq(Entry) /\ Len(new) = Cardinality(S)
  <2>1. new = [n \in 1 .. Cardinality(S) |-> qp_list[m[n]]]
    BY <1>7
  <2>2. \A n \in 1 .. Cardinality(S) : qp_list[m[n]] \in Entry
    BY <1>1, <1>7, <1>8
  <2>3. Cardinality(S) \in Nat
    BY <1>2
  <2>4. QED
    BY <2>1, <2>2, <2>3
<1>10. Left(new, qp_list)
  <2>1. m \in [DOMAIN new -> DOMAIN qp_list]
    BY <1>1, <1>7, <1>8, <1>9 DEF Entries
  <2>2. \A n \in DOMAIN new : new[n] = qp_list[m[n]]
    BY <1>7, <1>9
  <2>3. \A n, k \in DOMAIN new : n < k => m[n] < m[k]
    BY <1>5, <1>7, <1>9
  <2>4. QED
    BY <2>1, <2>2, <2>3 DEF Left
<1>11. \A i \in S : Rank(S, i) \in DOMAIN new /\ new[Rank(S, i)] = qp_list[i]
  BY <1>7, <1>9
<1>12. QED
  BY <1>0, <1>2, <1>9, <1>10, <1>11 DEF WithoutRight, new, N

(* What is left of a list is as good as the list. *)
LEMMA LeftKeeps ==
    ASSUME NEW old \in Seq(Entry), NEW new \in Seq(Entry), Left(new, old)
    PROVE  /\ InOrder(old) => InOrder(new)
           /\ OncePerNick(old) => OncePerNick(new)
           /\ \A conns : Truthful(old, conns) => Truthful(new, conns)
<1>1. PICK m \in [DOMAIN new -> DOMAIN old] :
        /\ \A n \in DOMAIN new : new[n] = old[m[n]]
        /\ \A n, k \in DOMAIN new : n < k => m[n] < m[k]
  BY DEF Left
<1>2. \A n \in DOMAIN new : m[n] \in DOMAIN old /\ m[n] \in Nat /\ n \in Nat
  BY <1>1
<1>3. InOrder(old) => InOrder(new)
  BY <1>1, <1>2 DEF InOrder
<1>4. OncePerNick(old) => OncePerNick(new)
  <2> SUFFICES ASSUME OncePerNick(old), NEW i \in DOMAIN new, NEW j \in DOMAIN new,
                      Nick[new[i].client] = Nick[new[j].client], i # j
               PROVE  FALSE
    BY DEF OncePerNick
  <2>1. m[i] = m[j]
    BY <1>1, <1>2 DEF OncePerNick
  <2>2. i < j \/ j < i
    BY <1>2
  <2>3. QED
    BY <1>1, <1>2, <2>1, <2>2
<1>5. \A conns : Truthful(old, conns) => Truthful(new, conns)
  BY <1>1, <1>2 DEF Truthful
<1>6. QED
  BY <1>3, <1>4, <1>5

-----------------------------------------------------------------------------
(* Entries that are removed, moved up, appended, or told their port.       *)

LEMMA RemoveAtIs ==
    ASSUME NEW q \in Seq(Entry), NEW i \in DOMAIN q
    PROVE  /\ RemoveAt(q, i) \in Seq(Entry)
           /\ Len(RemoveAt(q, i)) = Len(q) - 1
           /\ \A j \in 1 .. Len(q) - 1 :
                 RemoveAt(q, i)[j] = IF j < i THEN q[j] ELSE q[j + 1]
<1> DEFINE a == SubSeq(q, 1, i - 1)
           b == SubSeq(q, i + 1, Len(q))
<1>1. i \in 1 .. Len(q) /\ Len(q) \in Nat
  OBVIOUS
<1>2. a \in Seq(Entry) /\ Len(a) = i - 1 /\ \A j \in 1 .. i - 1 : a[j] = q[j]
  BY <1>1
<1>3. b \in Seq(Entry) /\ Len(b) = Len(q) - i /\ \A j \in 1 .. Len(q) - i : b[j] = q[j + i]
  BY <1>1
<1>4. RemoveAt(q, i) = a \o b
  BY DEF RemoveAt
<1> HIDE DEF a, b
<1>5. /\ a \o b \in Seq(Entry) /\ Len(a \o b) = Len(q) - 1
      /\ \A j \in 1 .. Len(q) - 1 : (a \o b)[j] = IF j <= i - 1 THEN a[j] ELSE b[j - (i - 1)]
  BY SMTT(30), <1>1, <1>2, <1>3
<1>6. ASSUME NEW j \in 1 .. Len(q) - 1
      PROVE  (a \o b)[j] = IF j < i THEN q[j] ELSE q[j + 1]
  <2>1. CASE j < i
    BY <1>1, <1>2, <1>5, <2>1
  <2>2. CASE ~(j < i)
    <3>1. (a \o b)[j] = b[j - (i - 1)]
      BY <1>1, <1>5, <2>2
    <3>2. j - (i - 1) \in 1 .. Len(q) - i /\ (j - (i - 1)) + i = j + 1
      BY <1>1, <2>2
    <3>3. QED
      BY <1>3, <2>2, <3>1, <3>2
  <2>3. QED
    BY <2>1, <2>2
<1>7. QED
  BY <1>4, <1>5, <1>6

LEMMA ConcatIs ==
    ASSUME NEW a \in Seq(Entry), NEW b \in Seq(Entry)
    PROVE  /\ a \o b \in Seq(Entry)
           /\ Len(a \o b) = Len(a) + Len(b)
           /\ \A j \in 1 .. Len(a) + Len(b) :
                 (a \o b)[j] = IF j <= Len(a) THEN a[j] ELSE b[j - Len(a)]
OBVIOUS

LEMMA InsertAtIs ==
    ASSUME NEW q \in Seq(Entry), NEW i \in 1 .. Len(q) + 1, NEW e \in Entry
    PROVE  /\ InsertAt(q, i, e) \in Seq(Entry)
           /\ Len(InsertAt(q, i, e)) = Len(q) + 1
           /\ \A j \in 1 .. Len(q) + 1 :
                 InsertAt(q, i, e)[j] = IF j < i THEN q[j] ELSE IF j = i THEN e ELSE q[j - 1]
<1> DEFINE a == SubSeq(q, 1, i - 1)
           b == SubSeq(q, i, Len(q))
           c == a \o <<e>>
<1>1. i \in 1 .. Len(q) + 1 /\ Len(q) \in Nat
  OBVIOUS
<1>2. a \in Seq(Entry) /\ Len(a) = i - 1 /\ \A j \in 1 .. i - 1 : a[j] = q[j]
  BY <1>1
<1>3. /\ b \in Seq(Entry) /\ Len(b) = Len(q) - i + 1
      /\ \A j \in 1 .. Len(q) - i + 1 : b[j] = q[j + i - 1]
  BY <1>1
<1>4. InsertAt(q, i, e) = c \o b
  BY DEF InsertAt
<1> HIDE DEF a, b
<1>5. c \in Seq(Entry) /\ Len(c) = i /\ c[i] = e /\ \A j \in 1 .. i - 1 : c[j] = q[j]
  BY <1>1, <1>2
<1> HIDE DEF c
<1>6. /\ c \o b \in Seq(Entry) /\ Len(c \o b) = Len(q) + 1
      /\ \A j \in 1 .. Len(q) + 1 : (c \o b)[j] = IF j <= i THEN c[j] ELSE b[j - i]
  <2>1. Len(c) + Len(b) = Len(q) + 1
    BY <1>1, <1>3, <1>5
  <2>2. c \in Seq(Entry) /\ b \in Seq(Entry) /\ Len(c) = i
    BY <1>3, <1>5
  <2>3. QED
    BY ZenonT(60), <2>1, <2>2, ConcatIs
<1>7. ASSUME NEW j \in 1 .. Len(q) + 1
      PROVE  (c \o b)[j] = IF j < i THEN q[j] ELSE IF j = i THEN e ELSE q[j - 1]
  <2>1. CASE j <= i
    BY <1>1, <1>5, <1>6, <2>1
  <2>2. CASE ~(j <= i)
    <3>1. (c \o b)[j] = b[j - i]
      BY <1>1, <1>6, <2>2
    <3>2. j - i \in 1 .. Len(q) - i + 1 /\ (j - i) + i - 1 = j - 1
      BY <1>1, <2>2
    <3>3. QED
      BY <1>3, <2>2, <3>1, <3>2
  <2>3. QED
    BY <2>1, <2>2
<1>8. QED
  BY <1>4, <1>6, <1>7

LEMMA RemoveAtLeaves ==
    ASSUME NEW q \in Seq(Entry), NEW i \in DOMAIN q
    PROVE  Left(RemoveAt(q, i), q)
<1> DEFINE new == RemoveAt(q, i)
           m == [n \in 1 .. Len(q) - 1 |-> IF n < i THEN n ELSE n + 1]
<1>1. i \in 1 .. Len(q) /\ Len(q) \in Nat /\ DOMAIN q = 1 .. Len(q)
  OBVIOUS
<1>2. DOMAIN new = 1 .. Len(q) - 1 /\ \A n \in 1 .. Len(q) - 1 : new[n] = q[m[n]]
  BY SMTT(30), <1>1, RemoveAtIs
<1> HIDE DEF new
<1>3. m \in [DOMAIN new -> DOMAIN q]
  BY <1>1, <1>2
<1>4. \A n, k \in DOMAIN new : n < k => m[n] < m[k]
  BY <1>1, <1>2
<1> HIDE DEF m
<1>5. QED
  BY <1>2, <1>3, <1>4 DEF Left, new

(* The place that an entry is moved up to. *)
Place(q, i, n) ==
    /\ n \in 0 .. i - 1
    /\ n > 0 => q[n].port # NoPort
    /\ \A j \in n + 1 .. i - 1 : q[j].port = NoPort

LEMMA PlaceExists ==
    ASSUME NEW q \in Seq(Entry), NEW i \in DOMAIN q
    PROVE  \E n : Place(q, i, n)
<1> DEFINE Behind == {n \in 0 .. i - 1 : \A j \in n + 1 .. i - 1 : q[j].port = NoPort}
<1>1. i \in Nat /\ i >= 1
  OBVIOUS
<1>2. i - 1 \in Behind
  BY <1>1
<1>3. Behind \in SUBSET Nat /\ Behind # {}
  BY <1>2
<1> HIDE DEF Behind
<1>4. PICK n \in Behind : \A m \in Behind : n <= m
  BY <1>3, Least
<1>5. n \in 0 .. i - 1 /\ \A j \in n + 1 .. i - 1 : q[j].port = NoPort
  BY DEF Behind
<1>6. ASSUME n > 0, q[n].port = NoPort
      PROVE  FALSE
  <2>1. n - 1 \in 0 .. i - 1
    BY <1>1, <1>5, <1>6
  <2>2. \A j \in (n - 1) + 1 .. i - 1 : j = n \/ j \in n + 1 .. i - 1
    BY <1>5
  <2>3. \A j \in (n - 1) + 1 .. i - 1 : q[j].port = NoPort
    BY <1>5, <1>6, <2>2
  <2>4. n - 1 \in Behind
    BY <2>1, <2>3 DEF Behind
  <2>5. QED
    BY <1>4, <1>5, <2>4
<1>7. QED
  BY <1>5, <1>6 DEF Place

(* An entry that waits is moved up to the others that wait. *)
LEMMA MoveUpKeeps ==
    ASSUME NEW q \in Seq(Entry), NEW i \in DOMAIN q, q[i].port = NoPort,
           NEW n, Place(q, i, n),
           NEW new, new = InsertAt(RemoveAt(q, i), n + 1, q[i])
    PROVE  /\ new \in Seq(Entry) /\ Len(new) = Len(q)
           /\ InOrder(q) => InOrder(new)
           /\ OncePerNick(q) => OncePerNick(new)
           /\ \A conns : Truthful(q, conns) => Truthful(new, conns)
<1> DEFINE r == RemoveAt(q, i)
           m == [j \in 1 .. Len(q) |->
                    IF j <= n THEN j ELSE IF j = n + 1 THEN i
                    ELSE IF j <= i THEN j - 1 ELSE j]
<1>1. /\ i \in 1 .. Len(q) /\ Len(q) \in Nat /\ DOMAIN q = 1 .. Len(q)
      /\ n \in 0 .. i - 1 /\ q[i] \in Entry
  BY DEF Place
<1>2. /\ r \in Seq(Entry) /\ Len(r) = Len(q) - 1
      /\ \A j \in 1 .. Len(q) - 1 : r[j] = IF j < i THEN q[j] ELSE q[j + 1]
  BY RemoveAtIs
<1>0. new = InsertAt(r, n + 1, q[i])
  OBVIOUS
<1> HIDE DEF r
<1>3. n + 1 \in 1 .. Len(r) + 1
  BY <1>1, <1>2
<1>4. /\ new \in Seq(Entry) /\ Len(new) = Len(r) + 1
      /\ \A j \in 1 .. Len(r) + 1 :
            new[j] = IF j < n + 1 THEN r[j] ELSE IF j = n + 1 THEN q[i] ELSE r[j - 1]
  <2> DEFINE e == q[i]
             k == n + 1
  <2>1. r \in Seq(Entry) /\ e \in Entry /\ k \in 1 .. Len(r) + 1 
    BY <1>1, <1>2, <1>3
  <2> HIDE DEF e, k
  <2>2. /\ InsertAt(r, k, e) \in Seq(Entry) /\ Len(InsertAt(r, k, e)) = Len(r) + 1
        /\ \A j \in 1 .. Len(r) + 1 :
              InsertAt(r, k, e)[j] =
                  IF j < k THEN r[j] ELSE IF j = k THEN e ELSE r[j - 1]
    BY <2>1, InsertAtIs
  <2>3. QED
    BY <1>0, <2>2 DEF e, k
<1>5. new \in Seq(Entry) /\ Len(new) = Len(q) /\ DOMAIN new = 1 .. Len(q)
  BY <1>1, <1>2, <1>4
<1>6. ASSUME NEW j \in 1 .. Len(q)
      PROVE  m[j] \in 1 .. Len(q) /\ new[j] = q[m[j]]
  <2>1. m[j] \in 1 .. Len(q)
    BY <1>1
  <2>2. CASE j < n + 1
    <3>1. new[j] = r[j] /\ j \in 1 .. Len(q) - 1 /\ j < i
      BY <1>1, <1>2, <1>4, <2>2
    <3>2. QED
      BY <1>1, <1>2, <2>1, <2>2, <3>1
  <2>3. CASE j = n + 1
    BY <1>1, <1>2, <1>4, <2>1, <2>3
  <2>4. CASE j > n + 1
    <3>1. new[j] = r[j - 1] /\ j - 1 \in 1 .. Len(q) - 1
      BY <1>1, <1>2, <1>4, <2>4
    <3>2. CASE j <= i
      BY <1>1, <1>2, <2>1, <2>4, <3>1, <3>2
    <3>3. CASE j > i
      <4>1. r[j - 1] = q[(j - 1) + 1] /\ (j - 1) + 1 = j
        BY <1>1, <1>2, <3>1, <3>3
      <4>2. QED
        BY <1>1, <2>1, <2>4, <3>1, <3>3, <4>1
    <3>4. QED
      BY <1>1, <3>2, <3>3
  <2>5. QED
    BY <1>1, <2>2, <2>3, <2>4
<1>7. \A j, k \in 1 .. Len(q) : m[j] = m[k] => j = k
  BY <1>1
<1>12. \A j \in DOMAIN new : m[j] \in DOMAIN q /\ new[j] = q[m[j]]
  BY <1>1, <1>5, <1>6
<1>8. InOrder(q) => InOrder(new)
  <2> SUFFICES ASSUME InOrder(q) PROVE InOrder(new)
    OBVIOUS
  <2>1. \A j \in 1 .. n : q[j].port # NoPort
    BY <1>1 DEF InOrder, Place
  <2>2. \A j \in n + 1 .. Len(q) : q[j].port = NoPort
    <3> SUFFICES ASSUME NEW j \in n + 1 .. Len(q), q[j].port # NoPort PROVE FALSE
      OBVIOUS
    <3>1. j \in 1 .. Len(q) /\ ~(j \in n + 1 .. i - 1)
      BY <1>1 DEF Place
    <3>2. i < j
      BY <1>1, <3>1
    <3>3. QED
      BY <1>1, <3>1, <3>2 DEF InOrder
  <2>3. \A j \in 1 .. Len(q) : IF j <= n THEN m[j] \in 1 .. n ELSE m[j] \in n + 1 .. Len(q)
    BY <1>1
  <2> HIDE DEF m
  <2>4. \A j \in 1 .. Len(q) : new[j].port # NoPort <=> j <= n
    BY <1>6, <2>1, <2>2, <2>3
  <2>5. QED
    BY SMTT(30), <1>1, <1>5, <2>4 DEF InOrder
<1> HIDE DEF m
<1>9. OncePerNick(q) => OncePerNick(new)
  BY <1>5, <1>7, <1>12 DEF OncePerNick
<1>10. \A conns : Truthful(q, conns) => Truthful(new, conns)
  BY <1>12 DEF Truthful
<1>11. QED
  BY <1>5, <1>8, <1>9, <1>10

Unlisted(q, c) == \A i \in DOMAIN q : Nick[q[i].client] # Nick[c]

(* A new entry at the end, of a nick that is not in the list. *)
LEMMA AppendKeeps ==
    ASSUME NEW q \in Seq(Entry), NEW e \in Entry, e.port = NoPort,
           Unlisted(q, e.client), NEW new, new = Append(q, e)
    PROVE  /\ new \in Seq(Entry) /\ Len(new) = Len(q) + 1
           /\ InOrder(q) => InOrder(new)
           /\ OncePerNick(q) => OncePerNick(new)
           /\ \A conns : Truthful(q, conns) => Truthful(new, conns)
<1>2. /\ new \in Seq(Entry) /\ Len(new) = Len(q) + 1 /\ Len(q) \in Nat
      /\ DOMAIN new = 1 .. Len(q) + 1 /\ DOMAIN q = 1 .. Len(q)
      /\ new[Len(q) + 1] = e /\ \A j \in 1 .. Len(q) : new[j] = q[j]
  OBVIOUS
<1>3. \A j \in DOMAIN new : \/ j \in DOMAIN q /\ new[j] = q[j]
                            \/ j = Len(q) + 1 /\ new[j] = e
  BY <1>2
<1>4. InOrder(q) => InOrder(new)
  BY <1>2, <1>3 DEF InOrder
<1>5. OncePerNick(q) => OncePerNick(new)
  BY <1>2, <1>3 DEF OncePerNick, Unlisted
<1>6. \A conns : Truthful(q, conns) => Truthful(new, conns)
  BY <1>3 DEF Truthful
<1>7. QED
  BY <1>2, <1>4, <1>5, <1>6


-----------------------------------------------------------------------------
(* Ports and seats.                                                        *)

Good(conns) == conns \in Connections /\ Owned(conns) /\ DifferentNicks(conns)

(* Of some connections there are at most the same ones left, and those     *)
(* that listen have been listening.                                        *)
Fewer(new, old) ==
    /\ new \in Connections
    /\ \A p \in Port :
          new[p].state # "FREE" =>
              /\ old[p].state # "FREE"
              /\ new[p].client = old[p].client
              /\ new[p].state = "LISTENING" => old[p] = new[p]

LEMMA FewerIsGood ==
    ASSUME NEW old, NEW new, Good(old), Fewer(new, old)
    PROVE  Good(new)
BY DEF Good, Fewer, Owned, DifferentNicks

LEMMA FewerIsTruthful ==
    ASSUME NEW old, NEW new, Good(old), Fewer(new, old),
           NEW q \in Seq(Entry), Truthful(q, old)
    PROVE  Truthful(q, new)
<1> SUFFICES ASSUME NEW i \in DOMAIN q, q[i].port # NoPort,
                    NEW p \in Port, new[p] = Listening(q[i].client)
             PROVE  new[q[i].port] = Listening(q[i].client)
  BY DEF Truthful
<1>1. q[i] \in Entry
  OBVIOUS
<1>2. q[i].port \in Port
  BY <1>1 DEF Entry
<1>3. new[p].state = "LISTENING" /\ new[p].client = q[i].client
  BY DEF Listening
<1>4. old[p] = Listening(q[i].client) /\ old[p].state # "FREE"
  BY <1>3 DEF Fewer
<1>5. old[q[i].port] = Listening(q[i].client)
  BY <1>4 DEF Truthful
<1>6. p = q[i].port
  BY <1>2, <1>4, <1>5 DEF Good, DifferentNicks, Listening
<1>7. QED
  BY <1>6

LEMMA Counts ==
    ASSUME NEW conns \in Connections
    PROVE  /\ IsFiniteSet(Players(conns)) /\ Cardinality(Players(conns)) \in Nat
           /\ IsFiniteSet(Logins(conns)) /\ Cardinality(Logins(conns)) \in Nat
<1>1. IsFiniteSet(Client \cup {Nobody})
  BY Names, FS_AddElement
<1>2. Players(conns) \in SUBSET (Client \cup {Nobody})
  BY DEF Players, Connections
<1>3. Logins(conns) \in SUBSET Port
  BY DEF Logins
<1>4. QED
  BY <1>1, <1>2, <1>3, Sizes, FS_Subset, FS_CardinalityType

LEMMA FewerShips ==
    ASSUME NEW old \in Connections, NEW new \in Connections,
           Players(new) \subseteq Players(old), Logins(new) \subseteq Logins(old),
           NEW m \in Nat, NEW n \in Nat, m <= n
    PROVE  /\ Ships(new, m) <= Ships(old, n)
           /\ Ships(new, m) \in Nat /\ Ships(old, n) \in Nat
<1>1. Cardinality(Players(new)) <= Cardinality(Players(old))
  BY Counts, FS_Subset
<1>2. Cardinality(Logins(new)) <= Cardinality(Logins(old))
  BY Counts, FS_Subset
<1>3. /\ Cardinality(Players(new)) \in Nat /\ Cardinality(Players(old)) \in Nat
      /\ Cardinality(Logins(new)) \in Nat /\ Cardinality(Logins(old)) \in Nat
  BY Counts
<1>4. QED
  BY <1>1, <1>2, <1>3 DEF Ships

LEMMA DestroyIsFewer ==
    ASSUME NEW conns \in Connections, NEW P
    PROVE  /\ Fewer(Destroy(conns, P), conns)
           /\ Players(Destroy(conns, P)) \subseteq Players(conns)
           /\ Logins(Destroy(conns, P)) \subseteq Logins(conns)
<1>1. /\ Free \in [state : States, client : Client \cup {Nobody}]
      /\ Free.state = "FREE"
  BY DEF Free, States
<1>2. \A p \in Port : Destroy(conns, P)[p] = IF p \in P THEN Free ELSE conns[p]
  BY DEF Destroy
<1>3. Destroy(conns, P) \in Connections
  BY <1>1 DEF Destroy, Connections
<1>4. QED
  BY <1>1, <1>2, <1>3 DEF Fewer, Players, Logins

(* What Setup_connection gives away is free or the client's own.           *)
LEMMA Setup ==
    ASSUME NEW conns, Good(conns), NEW c \in Client, NEW p \in Setup_connection(conns, c)
    PROVE  /\ p \in Port
           /\ conns[p].state = "FREE" \/ conns[p] = Listening(c)
           /\ \A r \in Port : conns[r].state # "FREE" /\ Nick[conns[r].client] = Nick[c]
                                  => r = p
<1>1. CASE SameNick(conns, c) = {}
  <2>1. p \in FreePorts(conns)
    BY <1>1 DEF Setup_connection
  <2>2. QED
    BY <1>1, <2>1 DEF FreePorts, SameNick
<1>2. CASE SameNick(conns, c) # {}
  <2>1. p \in SameNick(conns, c) /\ conns[p] = Listening(c)
    BY <1>2 DEF Setup_connection, Listening
  <2>2. QED
    BY <2>1 DEF SameNick, Good, DifferentNicks
<1>3. QED
  BY <1>1, <1>2

LEMMA ListenRight ==
    ASSUME NEW conns, Good(conns), NEW c \in Client, NEW p \in Setup_connection(conns, c)
    PROVE  /\ Good(Listen(conns, p, c))
           /\ Players(Listen(conns, p, c)) = Players(conns)
           /\ Logins(Listen(conns, p, c)) \subseteq Logins(conns) \cup {p}
<1> DEFINE new == Listen(conns, p, c)
<1>1. /\ p \in Port
      /\ conns[p].state = "FREE" \/ conns[p] = Listening(c)
      /\ \A r \in Port : conns[r].state # "FREE" /\ Nick[conns[r].client] = Nick[c] => r = p
  BY Setup
<1>2. /\ Listening(c) \in [state : States, client : Client \cup {Nobody}]
      /\ Listening(c).state = "LISTENING" /\ Listening(c).client = c
  BY DEF Listening, States
<1>3. conns \in Connections
  BY DEF Good
<1>4. /\ new \in Connections
      /\ \A r \in Port : new[r] = IF r = p THEN Listening(c) ELSE conns[r]
  BY <1>1, <1>2, <1>3 DEF Listen, Listening, Connections
<1> HIDE DEF new
<1>5. Owned(new) /\ DifferentNicks(new)
  BY <1>1, <1>2, <1>4 DEF Owned, DifferentNicks, Good
<1>6. {r \in Port : new[r].state = "PLAYING"} = {r \in Port : conns[r].state = "PLAYING"}
  BY <1>1, <1>2, <1>4
<1>7. \A r \in Port : new[r].state = "PLAYING" => new[r] = conns[r]
  BY <1>2, <1>4
<1>8. Players(new) = Players(conns)
  BY <1>6, <1>7 DEF Players
<1>9. Logins(new) \subseteq Logins(conns) \cup {p}
  BY <1>4 DEF Logins
<1>10. QED
  BY <1>4, <1>5, <1>8, <1>9 DEF Good, new

(* One login more needs one ship more. *)
LEMMA OneMore ==
    ASSUME NEW old \in Connections, NEW new \in Connections, NEW n \in Nat, NEW p,
           Players(new) = Players(old), Logins(new) \subseteq Logins(old) \cup {p}
    PROVE  Ships(new, n) <= Ships(old, n) + 1
<1>1. /\ IsFiniteSet(Logins(old)) /\ Cardinality(Logins(old)) \in Nat
      /\ Cardinality(Logins(new)) \in Nat /\ Cardinality(Players(old)) \in Nat
  BY Counts
<1>2. /\ IsFiniteSet(Logins(old) \cup {p})
      /\ Cardinality(Logins(old) \cup {p}) <= Cardinality(Logins(old)) + 1
  BY <1>1, FS_AddElement
<1>3. Cardinality(Logins(new)) <= Cardinality(Logins(old) \cup {p})
  BY <1>2, FS_Subset
<1>4. /\ IsFiniteSet(Logins(new))
      /\ Cardinality(Logins(old) \cup {p}) \in Nat
  BY <1>2, Counts, FS_CardinalityType
<1>5. QED
  BY <1>1, <1>2, <1>3, <1>4 DEF Ships

(* Who logs in takes the seat that was kept for the login. *)
LEMMA LoginRight ==
    ASSUME NEW conns \in Connections, NEW p \in Port, conns[p].state = "LOGIN",
           NEW n \in Nat, NEW new, new = [conns EXCEPT ![p].state = "PLAYING"]
    PROVE  Fewer(new, conns) /\ Ships(new, n) <= Ships(conns, n)
<1> DEFINE c == conns[p].client
<1>1. conns[p] \in [state : States, client : Client \cup {Nobody}]
  BY DEF Connections
<1>2. /\ \A r \in Port : r # p => new[r] = conns[r]
      /\ new[p].state = "PLAYING" /\ new[p].client = c
      /\ new[p] \in [state : States, client : Client \cup {Nobody}]
  BY <1>1 DEF Connections, States
<1>3. new \in Connections
  BY <1>1, <1>2 DEF Connections, States
<1>4. Fewer(new, conns)
  BY <1>2, <1>3 DEF Fewer
<1>5. Players(new) \subseteq Players(conns) \cup {c}
  BY <1>2 DEF Players
<1>6. p \in Logins(conns) /\ Logins(new) \subseteq Logins(conns) \ {p}
  BY <1>2 DEF Logins
<1> HIDE DEF c
<1>7. /\ IsFiniteSet(Players(conns)) /\ Cardinality(Players(conns)) \in Nat
      /\ IsFiniteSet(Logins(conns)) /\ Cardinality(Logins(conns)) \in Nat
      /\ Cardinality(Players(new)) \in Nat /\ Cardinality(Logins(new)) \in Nat
  BY <1>3, Counts
<1>8. /\ IsFiniteSet(Players(conns) \cup {c})
      /\ Cardinality(Players(conns) \cup {c}) \in Nat
      /\ Cardinality(Players(conns) \cup {c}) <= Cardinality(Players(conns)) + 1
  <2> DEFINE P == Players(conns)
  <2>1. IsFiniteSet(P) /\ Cardinality(P) \in Nat
    BY <1>7
  <2> HIDE DEF P
  <2>2. /\ IsFiniteSet(P \cup {c})
        /\ Cardinality(P \cup {c}) = IF c \in P THEN Cardinality(P) ELSE Cardinality(P) + 1
    BY <2>1, FS_AddElement
  <2>3. Cardinality(P \cup {c}) \in Nat /\ Cardinality(P \cup {c}) <= Cardinality(P) + 1
    BY <2>1, <2>2
  <2>4. QED
    BY <2>2, <2>3 DEF P
<1>9. Cardinality(Players(new)) <= Cardinality(Players(conns) \cup {c})
  BY <1>5, <1>8, FS_Subset
<1>10. /\ IsFiniteSet(Logins(conns) \ {p})
       /\ Cardinality(Logins(conns) \ {p}) = Cardinality(Logins(conns)) - 1
  BY <1>6, <1>7, FS_RemoveElement
<1>11. Cardinality(Logins(new)) <= Cardinality(Logins(conns) \ {p})
  BY <1>6, <1>10, FS_Subset
<1>12. QED
  BY <1>4, <1>7, <1>8, <1>9, <1>10, <1>11 DEF Ships


-----------------------------------------------------------------------------
(* The parts of the invariant.                                             *)

QueueOK ==
    /\ qp_list \in Seq(Entry)
    /\ NumQueuedPlayers = Len(qp_list) /\ Len(qp_list) <= MaxQueuedPlayers
    /\ InOrder(qp_list) /\ OncePerNick(qp_list)
    /\ Truthful(qp_list, Conn)

SeatsOK == Good(Conn) /\ NumRobots \in 0 .. MaxRobots /\ SeatsNotOversold

OperatorsOK ==
    /\ paused \subseteq Client /\ isoperator \subseteq Client
    /\ NumOperators \in Int /\ NumOperators <= MaxGrants + 1
    /\ Owed

ClientsOK ==
    /\ game_lock \in BOOLEAN
    /\ phase \in [Client -> {"out", "entering"}]
    /\ login_port \in [Client -> Port \cup {NoPort}]
    /\ requests \subseteq Client
    /\ replies \in [Client -> Port \cup {NoPort}]

LEMMA OperatorCount ==
    ASSUME isoperator \subseteq Client
    PROVE  /\ IsFiniteSet(isoperator)
           /\ Cardinality(isoperator) \in Nat /\ Cardinality(Client) \in Nat
           /\ Cardinality(isoperator) <= Cardinality(Client)
BY Names, FS_Subset, FS_CardinalityType

LEMMA Parts == IInv <=> QueueOK /\ SeatsOK /\ OperatorsOK /\ ClientsOK
<1>1. Seq([client : Client, port : Port \cup {NoPort}]) = Seq(Entry)
  BY DEF Entry
<1>2. OperatorsOK =>
        NumOperators \in -Cardinality(Client) - MaxGrants .. MaxGrants + 1
  <2> SUFFICES ASSUME OperatorsOK
               PROVE  NumOperators \in -Cardinality(Client) - MaxGrants .. MaxGrants + 1
    OBVIOUS
  <2>1. Cardinality(isoperator) \in Nat /\ Cardinality(Client) \in Nat
    BY OperatorCount DEF OperatorsOK
  <2>2. QED
    BY <2>1, Sizes DEF OperatorsOK, Owed
<1>3. ASSUME IInv PROVE OperatorsOK
  <2>1. Cardinality(Client) \in Nat
    BY Names, FS_CardinalityType
  <2>2. QED
    BY <1>3, <2>1, Sizes DEF IInv, TypeOK, OperatorsOK
<1>4. qp_list \in Seq(Entry) => Len(qp_list) \in Nat
  OBVIOUS
<1>5. QED
  BY <1>1, <1>2, <1>3, <1>4, Sizes
  DEF IInv, TypeOK, QueueOK, SeatsOK, OperatorsOK, ClientsOK, Good, Connections

LEMMA PartsNext == QueueOK' /\ SeatsOK' /\ OperatorsOK' /\ ClientsOK' => IInv'
BY Parts, PTL

(* The properties of the list are those of its entries that TLC checks.    *)
LEMMA InOrderIs ==
    ASSUME qp_list \in Seq(Entry), InOrder(qp_list)
    PROVE  EnteringFirst
<1>1. Entries = 1 .. Len(qp_list) /\ Len(qp_list) \in Nat
  BY DEF Entries
<1>2. QED
  BY <1>1 DEF EnteringFirst, InOrder, Entering, Waiting, Entries

LEMMA TruthfulIs ==
    ASSUME Truthful(qp_list, Conn)
    PROVE  TellsOwnPort
BY DEF Truthful, TellsOwnPort, Gone, Check_connection, Entries, Listening

LEMMA OnceIs ==
    ASSUME OncePerNick(qp_list), DifferentNicks(Conn)
    PROVE  OneLoginEach
BY DEF OncePerNick, DifferentNicks, OneLoginEach, Busy, Entries

LEMMA InitIInv == Init => IInv
<1> SUFFICES ASSUME Init PROVE IInv
  OBVIOUS
<1>1. /\ Free \in [state : States, client : Client \cup {Nobody}]
      /\ Free.state = "FREE"
  BY DEF Free, States
<1>2. Conn \in Connections /\ \A p \in Port : Conn[p].state = "FREE"
  BY <1>1 DEF Init, Connections
<1>3. Good(Conn)
  BY <1>2 DEF Good, Owned, DifferentNicks
<1>4. Players(Conn) = {} /\ Logins(Conn) = {}
  BY <1>2 DEF Players, Logins
<1>5. Ships(Conn, NumRobots) = 0
  <2>1. Cardinality(Players(Conn)) = 0 /\ Cardinality(Logins(Conn)) = 0
    BY <1>4, FS_EmptySet
  <2>2. NumRobots = 0
    BY DEF Init
  <2>3. QED
    BY <2>1, <2>2 DEF Ships
<1>6. SeatsOK
  BY <1>3, <1>5, Sizes DEF SeatsOK, SeatsNotOversold, Init
<1>7. QueueOK
  BY Sizes DEF Init, QueueOK, InOrder, OncePerNick, Truthful
<1>8. OperatorsOK
  <2>1. Cardinality(isoperator) = 0 /\ Cardinality(Client) \in Nat
    BY Names, FS_EmptySet, FS_CardinalityType DEF Init
  <2>2. QED
    BY <2>1, Sizes DEF Init, OperatorsOK, Owed
<1>9. ClientsOK
  BY DEF Init, ClientsOK
<1>10. QED
  BY <1>6, <1>7, <1>8, <1>9, Parts

-----------------------------------------------------------------------------
(* Parts of a step.                                                        *)

LEMMA QueueStays ==
    ASSUME QueueOK, SeatsOK, UNCHANGED queue, Fewer(Conn', Conn) \/ UNCHANGED Conn
    PROVE  QueueOK'
<1>1. CASE Fewer(Conn', Conn)
  BY <1>1, FewerIsTruthful DEF QueueOK, SeatsOK, queue
<1>2. CASE UNCHANGED Conn
  BY <1>2 DEF QueueOK, queue
<1>3. QED
  BY <1>1, <1>2

LEMMA SeatsStay ==
    ASSUME SeatsOK, UNCHANGED <<Conn, NumRobots>>
    PROVE  SeatsOK'
BY DEF SeatsOK, SeatsNotOversold

LEMMA OperatorsStay ==
    ASSUME OperatorsOK, UNCHANGED players
    PROVE  OperatorsOK'
BY DEF OperatorsOK, Owed, players

LEMMA PlayersGo ==
    ASSUME OperatorsOK, NEW gone, Delete_players(gone)
    PROVE  OperatorsOK'
<1>1. /\ IsFiniteSet(isoperator) /\ Cardinality(isoperator) \in Nat
      /\ Cardinality(Client) \in Nat
  BY OperatorCount DEF OperatorsOK
<1>2. /\ IsFiniteSet(isoperator \cap gone) /\ Cardinality(isoperator \cap gone) \in Nat
  BY <1>1, FS_Intersection, FS_CardinalityType
<1>3. Cardinality(isoperator \ gone) = Cardinality(isoperator) - Cardinality(isoperator \cap gone)
  BY <1>1, FS_Difference
<1>4. QED
  BY <1>1, <1>2, <1>3, Sizes DEF OperatorsOK, Owed, Delete_players

LEMMA ConnectionsGo ==
    ASSUME SeatsOK, NumRobots' \in 0 .. MaxRobots, NumRobots' <= NumRobots,
           Fewer(Conn', Conn), Ships(Conn', NumRobots') <= Ships(Conn, NumRobots)
    PROVE  SeatsOK'
<1>1. Good(Conn')
  BY FewerIsGood DEF SeatsOK
<1>2. Conn \in Connections /\ Conn' \in Connections
  BY <1>1 DEF Good, SeatsOK
<1>3. Ships(Conn, NumRobots) \in Int /\ Ships(Conn', NumRobots') \in Int
  BY <1>2, Counts, Sizes DEF Ships, SeatsOK
<1>4. QED
  BY <1>1, <1>3, Sizes DEF SeatsOK, SeatsNotOversold


(* What room is made for the first who waits.                              *)
LEMMA SeatsRight ==
    ASSUME SeatsOK
    PROVE  /\ Seats[1] \in 0 .. MaxRobots /\ Seats[1] <= NumRobots
           /\ Good(Seats[2]) /\ Fewer(Seats[2], Conn)
           /\ Ships(Seats[2], Seats[1]) <= Ships(Conn, NumRobots)
<1> DEFINE robots == IF NumRobots > 0 THEN NumRobots - 1 ELSE 0
           idle == {p \in Port : Conn[p].state = "PLAYING" /\ Conn[p].client \in paused}
<1>1. \/ Seats = <<NumRobots, Conn>>
      \/ Seats = <<robots, Conn>>
      \/ Seats = <<robots, Destroy(Conn, idle)>>
  BY DEF Seats
<1>2. /\ Conn \in Connections /\ Good(Conn)
      /\ NumRobots \in Nat /\ NumRobots \in 0 .. MaxRobots
      /\ robots \in Nat /\ robots \in 0 .. MaxRobots /\ robots <= NumRobots
  BY Sizes DEF SeatsOK, Good
<1> HIDE DEF robots, idle
<1>3. Fewer(Conn, Conn)
  BY <1>2 DEF Fewer
<1>4. Fewer(Destroy(Conn, idle), Conn) /\ Destroy(Conn, idle) \in Connections
  BY <1>2, DestroyIsFewer DEF Fewer
<1>5. /\ Ships(Conn, NumRobots) <= Ships(Conn, NumRobots)
      /\ Ships(Conn, robots) <= Ships(Conn, NumRobots)
  BY <1>2, FewerShips
<1>6. Ships(Destroy(Conn, idle), robots) <= Ships(Conn, NumRobots)
  BY <1>2, <1>4, DestroyIsFewer, FewerShips
<1>7. /\ Seats[1] \in 0 .. MaxRobots /\ Seats[1] <= NumRobots /\ Fewer(Seats[2], Conn)
      /\ Ships(Seats[2], Seats[1]) <= Ships(Conn, NumRobots)
  <2>1. CASE Seats = <<NumRobots, Conn>>
    BY <1>2, <1>3, <1>5, <2>1
  <2>2. CASE Seats = <<robots, Conn>>
    BY <1>2, <1>3, <1>5, <2>2
  <2>3. CASE Seats = <<robots, Destroy(Conn, idle)>>
    BY <1>2, <1>4, <1>6, <2>3
  <2>4. QED
    BY <1>1, <2>1, <2>2, <2>3
<1>8. QED
  BY <1>2, <1>7, FewerIsGood

LEMMA EntriesFinite ==
    ASSUME qp_list \in Seq(Entry), NEW I \in SUBSET Entries
    PROVE  IsFiniteSet(I) /\ Cardinality(I) \in Nat
<1>1. Entries = 1 .. Len(qp_list) /\ Len(qp_list) \in Nat
  BY DEF Entries
<1>2. IsFiniteSet(Entries)
  BY <1>1, FS_Interval
<1>3. QED
  BY <1>2, FS_Subset, FS_CardinalityType

(* Some entries are dropped.                                               *)
LEMMA DropRight ==
    ASSUME QueueOK, SeatsOK, NEW I \in SUBSET Entries, Drop(I), Fewer(Conn', Conn)
    PROVE  QueueOK'
<1>1. WithoutRight(I)
  BY WithoutKeeps DEF QueueOK
<1>2. /\ qp_list' = Without(I) /\ qp_list' \in Seq(Entry)
      /\ Len(qp_list') = Len(qp_list) - Cardinality(I) /\ Left(qp_list', qp_list)
  BY <1>1 DEF Drop, WithoutRight
<1>3. InOrder(qp_list') /\ OncePerNick(qp_list') /\ Truthful(qp_list', Conn)
  BY <1>2, LeftKeeps DEF QueueOK
<1>4. Truthful(qp_list', Conn')
  BY <1>2, <1>3, FewerIsTruthful DEF SeatsOK
<1>5. Cardinality(I) \in Nat
  BY EntriesFinite DEF QueueOK
<1>6. NumQueuedPlayers' = Len(qp_list') /\ Len(qp_list') <= MaxQueuedPlayers
  BY <1>2, <1>5, Sizes DEF Drop, QueueOK
<1>7. QED
  BY <1>2, <1>3, <1>4, <1>6 DEF QueueOK

(* The first who waits becomes the last who enters.                        *)
LEMMA EnterRight ==
    ASSUME QueueOK, SeatsOK, Waiting # {}, NEW I \in FoundGone(FirstWaiting),
           NEW conns, Good(conns), Fewer(conns, Conn),
           NEW c, c = qp_list[FirstWaiting].client,
           NEW p \in Setup_connection(conns, c),
           Conn' = Listen(conns, p, c),
           qp_list' = [Without(I) EXCEPT ![FirstWaiting - Cardinality(I)].port = p],
           NumQueuedPlayers' = NumQueuedPlayers - Cardinality(I)
    PROVE  QueueOK'
<1> DEFINE w == Without(I)
           f == FirstWaiting
           S == Entries \ I
<1>1. Entries = 1 .. Len(qp_list) /\ Len(qp_list) \in Nat /\ qp_list \in Seq(Entry)
  BY DEF Entries, QueueOK
<1>2. f \in Entries /\ qp_list[f].port = NoPort /\ \A j \in Waiting : f <= j
  <2>1. Waiting \in SUBSET Nat
    BY <1>1 DEF Waiting
  <2>2. \E i \in Waiting : \A j \in Waiting : i <= j
    BY <2>1, Least
  <2>3. f \in Waiting /\ \A j \in Waiting : f <= j
    BY <2>2 DEF FirstWaiting
  <2>4. QED
    BY <2>3 DEF Waiting
<1>3. I \in SUBSET {j \in Entries : j < f}
  BY DEF FoundGone, Entering
<1>4. c \in Client /\ c = qp_list[f].client
  <2>1. qp_list[f] \in Entry
    BY <1>1, <1>2
  <2>2. QED
    BY <2>1 DEF Entry
<1> HIDE DEF f
<1>5. I \in SUBSET Entries /\ f \in S /\ f \in Int
  BY <1>1, <1>2, <1>3
<1>6. WithoutRight(I)
  BY <1>1, <1>5, WithoutKeeps
<1> DEFINE k == Rank(S, f)
<1>7. /\ w \in Seq(Entry) /\ Len(w) = Len(qp_list) - Cardinality(I) /\ Left(w, qp_list)
      /\ k \in DOMAIN w /\ w[k] = qp_list[f]
  BY <1>5, <1>6 DEF WithoutRight
<1>8. k = f - Cardinality(I)
  <2>1. {j \in S : j <= f} = (1 .. f) \ I
    BY <1>1, <1>2, <1>5
  <2>2. IsFiniteSet(1 .. f) /\ Cardinality(1 .. f) = f
    <3>1. f \in Int /\ 1 \in Int /\ ~(1 > f) /\ f - 1 + 1 = f
      BY <1>1, <1>2
    <3>2. QED
      BY <3>1, FS_Interval
  <2>3. (1 .. f) \cap I = I
    BY <1>1, <1>2, <1>3
  <2>4. Cardinality((1 .. f) \ I) = Cardinality(1 .. f) - Cardinality((1 .. f) \cap I)
    BY <2>2, FS_Difference
  <2>5. QED
    BY <2>1, <2>2, <2>3, <2>4 DEF Rank
<1>9. InOrder(w) /\ OncePerNick(w) /\ Truthful(w, Conn)
  BY <1>1, <1>7, LeftKeeps DEF QueueOK
<1>10. Truthful(w, conns)
  BY <1>7, <1>9, FewerIsTruthful DEF SeatsOK
<1>11. /\ p \in Port
       /\ conns[p].state = "FREE" \/ conns[p] = Listening(c)
  BY <1>4, Setup
<1> HIDE DEF w, k
<1> DEFINE new == [w EXCEPT ![k].port = p]
<1>12. /\ new \in Seq(Entry) /\ Len(new) = Len(w) /\ DOMAIN new = DOMAIN w
       /\ new[k].port = p /\ new[k].client = c
       /\ \A j \in DOMAIN w : j # k => new[j] = w[j]
  <2>1. w[k] \in Entry /\ w[k].client = c
    BY <1>4, <1>7
  <2>2. [w[k] EXCEPT !.port = p] \in Entry
    BY <1>11, <2>1 DEF Entry
  <2>3. new = [w EXCEPT ![k] = [w[k] EXCEPT !.port = p]]
    OBVIOUS
  <2>4. [w[k] EXCEPT !.port = p].port = p /\ [w[k] EXCEPT !.port = p].client = c
    BY <2>1 DEF Entry
  <2> DEFINE e == [w[k] EXCEPT !.port = p]
  <2>5. e \in Entry /\ new = [w EXCEPT ![k] = e] /\ e.port = p /\ e.client = c
    BY <2>2, <2>3, <2>4
  <2> HIDE DEF e, new
  <2>6. QED
    BY <1>7, <2>5
<1>13. qp_list' = new
  BY <1>8 DEF w, f
<1> HIDE DEF new
<1>14. \A j \in DOMAIN w : j # k => Nick[w[j].client] # Nick[c]
  BY <1>4, <1>7, <1>9 DEF OncePerNick
<1>15. InOrder(new)
  <2>1. \A j \in DOMAIN w : j < k => w[j].port # NoPort
    <3>1. PICK m \in [DOMAIN w -> DOMAIN qp_list] :
            /\ \A n \in DOMAIN w : w[n] = qp_list[m[n]]
            /\ \A n, l \in DOMAIN w : n < l => m[n] < m[l]
      BY <1>7 DEF Left
    <3>2. m[k] = f
      BY SMTT(30), <1>1, <1>2, <1>7, <3>1 DEF QueueOK, OncePerNick
    <3> SUFFICES ASSUME NEW j \in DOMAIN w, j < k, w[j].port = NoPort
                 PROVE  FALSE
      OBVIOUS
    <3>3. m[j] \in Waiting
      BY <3>1 DEF Waiting, Entries
    <3>4. m[j] < f /\ m[j] \in Int
      BY <1>1, <1>7, <3>1, <3>2
    <3>5. QED
      BY <1>2, <1>5, <3>3, <3>4
  <2>2. \A i \in DOMAIN w : i \in Int
    BY <1>7
  <2>3. \A j \in DOMAIN w : j > k => w[j].port = NoPort
    BY <1>2, <1>7, <1>9, <2>2 DEF InOrder
  <2>4. \A j \in DOMAIN new : new[j].port # NoPort => j <= k
    BY <1>7, <1>12, <2>2, <2>3
  <2>5. \A j \in DOMAIN new : j <= k => new[j].port # NoPort
    BY <1>7, <1>11, <1>12, <2>1, <2>2, NoSuchPort
  <2>6. QED
    BY <1>7, <1>12, <2>2, <2>4, <2>5 DEF InOrder
<1>16. OncePerNick(new)
  <2>1. \A j \in DOMAIN w : new[j].client = w[j].client
    BY <1>4, <1>7, <1>12
  <2>2. QED
    BY <1>9, <1>12, <2>1 DEF OncePerNick
<1>17. Truthful(new, Conn')
  <2> SUFFICES ASSUME NEW j \in DOMAIN new, new[j].port # NoPort,
                      NEW q \in Port, Conn'[q] = Listening(new[j].client)
               PROVE  Conn'[new[j].port] = Listening(new[j].client)
    BY DEF Truthful
  <2>1. \A q_1 \in Port : Conn'[q_1] = IF q_1 = p THEN Listening(c) ELSE conns[q_1]
    BY DEF Listen, Listening, Good, Connections
  <2>2. CASE j = k
    BY <1>11, <1>12, <2>1, <2>2
  <2>3. CASE j # k
    <3>1. new[j] = w[j] /\ w[j] \in Entry /\ w[j].client # c
      BY <1>7, <1>12, <1>14, <2>3
    <3>2. w[j].port \in Port
      BY <3>1 DEF Entry
    <3>3. \A d : Listening(d).client = d
      BY DEF Listening
    <3>4. q # p /\ conns[q] = Listening(w[j].client)
      BY <2>1, <3>1, <3>3
    <3>5. conns[w[j].port] = Listening(w[j].client)
      BY <1>10, <1>12, <3>1, <3>4 DEF Truthful
    <3>6. w[j].port # p
      <4>1. Listening(w[j].client).state = "LISTENING"
        BY DEF Listening
      <4>2. QED
        BY <1>11, <3>1, <3>3, <3>5, <4>1
    <3>7. QED
      BY <2>1, <3>1, <3>2, <3>5, <3>6
  <2>4. QED
    BY <2>2, <2>3
<1>18. NumQueuedPlayers' = Len(new) /\ Len(new) <= MaxQueuedPlayers
  <2>1. Cardinality(I) \in Nat
    BY <1>1, <1>5, EntriesFinite
  <2>2. QED
    BY <1>1, <1>7, <1>12, <2>1, Sizes DEF QueueOK
<1>19. QED
  BY <1>12, <1>13, <1>15, <1>16, <1>17, <1>18 DEF QueueOK


-----------------------------------------------------------------------------
(* The actions.                                                            *)

LEMMA ClientIInv ==
    ASSUME IInv, NEW c \in Client, Ask(c) \/ Get_reply(c) \/ Leave(c)
    PROVE  IInv'
<1>1. QueueOK /\ SeatsOK /\ OperatorsOK /\ ClientsOK
  BY Parts
<1>2. UNCHANGED <<queue, Conn, players, NumRobots, game_lock>>
  BY DEF Ask, Get_reply, Leave
<1>3. QueueOK' /\ SeatsOK' /\ OperatorsOK'
  BY <1>1, <1>2, QueueStays, SeatsStay, OperatorsStay
<1>4. ClientsOK'
  BY <1>1, <1>2 DEF ClientsOK, Ask, Get_reply, Leave, client, datagrams
<1>5. QED
  BY <1>3, <1>4, PartsNext

LEMMA Handle_listeningIInv ==
    ASSUME IInv, NEW c \in Client, Handle_listening(c)
    PROVE  IInv'
<1>1. QueueOK /\ SeatsOK /\ OperatorsOK /\ ClientsOK
  BY Parts
<1> DEFINE p == login_port[c]
<1>2. /\ p \in Port /\ Conn[p].state = "LISTENING"
      /\ Conn' = [Conn EXCEPT ![p] =
                    IF @.client = c THEN [@ EXCEPT !.state = "LOGIN"] ELSE Free]
      /\ UNCHANGED <<queue, players, NumRobots, game_lock, client, datagrams>>
  BY <1>1 DEF Handle_listening, ClientsOK
<1> HIDE DEF p
<1>3. Conn \in Connections /\ Conn[p] \in [state : States, client : Client \cup {Nobody}]
  BY <1>1, <1>2 DEF SeatsOK, Good, Connections
<1>4. /\ \A r \in Port : r # p => Conn'[r] = Conn[r]
      /\ Conn'[p] \in [state : States, client : Client \cup {Nobody}]
      /\ \/ Conn'[p].state = "LOGIN" /\ Conn'[p].client = Conn[p].client
         \/ Conn'[p].state = "FREE"
  BY <1>2, <1>3 DEF Connections, States, Free
<1>5. Conn' \in Connections
  <2>1. Conn' \in [Port -> [state : States, client : Client \cup {Nobody}]]
    BY <1>2, <1>3 DEF Connections, States, Free
  <2>2. QED
    BY <2>1 DEF Connections
<1>6. Fewer(Conn', Conn)
  BY <1>2, <1>4, <1>5 DEF Fewer
<1>7. Players(Conn') \subseteq Players(Conn) /\ Logins(Conn') \subseteq Logins(Conn)
  BY <1>2, <1>4 DEF Players, Logins
<1>8. NumRobots \in Nat /\ NumRobots <= NumRobots /\ NumRobots \in 0 .. MaxRobots
  BY <1>1, Sizes DEF SeatsOK
<1>9. Ships(Conn', NumRobots) <= Ships(Conn, NumRobots)
  BY <1>3, <1>5, <1>7, <1>8, FewerShips
<1>10. SeatsOK'
  BY <1>1, <1>2, <1>6, <1>8, <1>9, ConnectionsGo
<1>11. QueueOK' /\ OperatorsOK' /\ ClientsOK'
  BY <1>1, <1>2, <1>6, QueueStays, OperatorsStay DEF ClientsOK, client, datagrams
<1>12. QED
  BY <1>10, <1>11, PartsNext

LEMMA Handle_loginIInv ==
    ASSUME IInv, NEW p \in Port, Handle_login(p)
    PROVE  IInv'
<1>1. QueueOK /\ SeatsOK /\ OperatorsOK /\ ClientsOK
  BY Parts
<1>2. /\ Conn[p].state = "LOGIN"
      /\ \/ Conn' = Destroy(Conn, {p})
         \/ Conn' = [Conn EXCEPT ![p].state = "PLAYING"]
      /\ UNCHANGED <<queue, players, NumRobots, game_lock, client, datagrams>>
  BY DEF Handle_login
<1>3. Conn \in Connections /\ NumRobots \in Nat /\ NumRobots <= NumRobots
      /\ NumRobots \in 0 .. MaxRobots
  BY <1>1, Sizes DEF SeatsOK, Good
<1>4. Fewer(Conn', Conn) /\ Ships(Conn', NumRobots) <= Ships(Conn, NumRobots)
  <2>1. CASE Conn' = Destroy(Conn, {p})
    <3>1. /\ Fewer(Conn', Conn) /\ Conn' \in Connections
          /\ Players(Conn') \subseteq Players(Conn) /\ Logins(Conn') \subseteq Logins(Conn)
      BY <1>3, <2>1, DestroyIsFewer DEF Fewer
    <3>2. QED
      BY <1>3, <3>1, FewerShips
  <2>2. CASE Conn' = [Conn EXCEPT ![p].state = "PLAYING"]
    BY <1>2, <1>3, <2>2, LoginRight
  <2>3. QED
    BY <1>2, <2>1, <2>2
<1>5. SeatsOK'
  BY <1>1, <1>2, <1>3, <1>4, ConnectionsGo
<1>6. QueueOK' /\ OperatorsOK' /\ ClientsOK'
  BY <1>1, <1>2, <1>4, QueueStays, OperatorsStay DEF ClientsOK, client, datagrams
<1>7. QED
  BY <1>5, <1>6, PartsNext

LEMMA Destroy_connectionIInv ==
    ASSUME IInv, NEW p \in Port, Destroy_connection(p)
    PROVE  IInv'
<1>1. QueueOK /\ SeatsOK /\ OperatorsOK /\ ClientsOK
  BY Parts
<1>2. /\ Conn' = Destroy(Conn, {p})
      /\ game_lock' \in BOOLEAN
      /\ UNCHANGED <<queue, NumRobots, client, datagrams>>
  BY DEF Destroy_connection
<1>3. Conn \in Connections /\ NumRobots \in Nat /\ NumRobots <= NumRobots
      /\ NumRobots \in 0 .. MaxRobots
  BY <1>1, Sizes DEF SeatsOK, Good
<1>4. /\ Fewer(Conn', Conn) /\ Conn' \in Connections
      /\ Players(Conn') \subseteq Players(Conn) /\ Logins(Conn') \subseteq Logins(Conn)
  BY <1>2, <1>3, DestroyIsFewer DEF Fewer
<1>5. Ships(Conn', NumRobots) <= Ships(Conn, NumRobots)
  BY <1>3, <1>4, FewerShips
<1>6. SeatsOK'
  BY <1>1, <1>2, <1>3, <1>4, <1>5, ConnectionsGo
<1>7. OperatorsOK'
  BY <1>1, PlayersGo DEF Destroy_connection
<1>8. QueueOK' /\ ClientsOK'
  BY <1>1, <1>2, <1>4, QueueStays DEF ClientsOK, client, datagrams
<1>9. QED
  BY <1>6, <1>7, <1>8, PartsNext

LEMMA PlayersAreClients ==
    ASSUME SeatsOK
    PROVE  Players(Conn) \subseteq Client
BY DEF SeatsOK, Good, Owned, Players

(* Pausing, giving the password, making operators and locking.             *)
LEMMA OperatorIInv ==
    ASSUME IInv, NEW c \in Client,
           \/ Pause_player(c) \/ Cmd_password(c) \/ Cmd_lock(c)
           \/ \E o \in Client : Cmd_op(o, c)
    PROVE  IInv'
<1>1. QueueOK /\ SeatsOK /\ OperatorsOK /\ ClientsOK
  BY Parts
<1>2. UNCHANGED <<queue, Conn, NumRobots, client, datagrams>> /\ game_lock' \in BOOLEAN
  BY <1>1 DEF Pause_player, Cmd_password, Cmd_lock, Cmd_op, ClientsOK
<1>3. QueueOK' /\ SeatsOK' /\ ClientsOK'
  BY <1>1, <1>2, QueueStays, SeatsStay DEF ClientsOK, client, datagrams
<1>4. /\ paused \subseteq Client /\ isoperator \subseteq Client
      /\ NumOperators \in Int /\ NumOperators <= MaxGrants + 1 /\ MaxGrants \in Nat
      /\ IsFiniteSet(isoperator)
      /\ Cardinality(isoperator) \in Nat /\ Cardinality(Client) \in Nat
  BY <1>1, OperatorCount, Sizes DEF OperatorsOK
<1>5. OperatorsOK'
  <2>1. CASE Pause_player(c)
    <3>1. paused' \subseteq Client /\ UNCHANGED <<isoperator, NumOperators>>
      BY <1>4, <2>1 DEF Pause_player
    <3>2. QED
      BY <1>1, <3>1 DEF OperatorsOK, Owed
  <2>2. CASE Cmd_password(c)
    <3>1. CASE c \notin isoperator
      <4>1. /\ NumOperators <= MaxGrants /\ NumOperators' = NumOperators + 1
            /\ isoperator' = isoperator \cup {c} /\ UNCHANGED paused
        BY <2>2, <3>1 DEF Cmd_password
      <4>2. Cardinality(isoperator') = Cardinality(isoperator) + 1
        BY <1>4, <3>1, <4>1, FS_AddElement
      <4>3. Owed'
        BY <1>1, <1>4, <4>1, <4>2 DEF OperatorsOK, Owed
      <4>4. QED
        BY <1>4, <4>1, <4>3 DEF OperatorsOK
    <3>2. CASE c \in isoperator
      <4>1. /\ NumOperators' = NumOperators - 1
            /\ isoperator' = isoperator \ {c} /\ UNCHANGED paused
        BY <2>2, <3>2 DEF Cmd_password
      <4>2. Cardinality(isoperator') = Cardinality(isoperator) - 1
        BY <1>4, <3>2, <4>1, FS_RemoveElement
      <4>3. Owed'
        BY <1>1, <1>4, <4>1, <4>2 DEF OperatorsOK, Owed
      <4>4. QED
        BY <1>4, <4>1, <4>3 DEF OperatorsOK
    <3>3. QED
      BY <3>1, <3>2
  <2>3. CASE Cmd_lock(c)
    BY <1>1, <2>3, OperatorsStay DEF Cmd_lock
  <2>4. CASE \E o \in Client : Cmd_op(o, c)
    <3>1. /\ NumOperators > -MaxGrants /\ UNCHANGED <<paused, NumOperators>>
          /\ isoperator' \subseteq isoperator \cup {c}
      BY <2>4 DEF Cmd_op
    <3>2. isoperator' \subseteq Client
      BY <1>4, <3>1
    <3>3. Cardinality(isoperator') \in Nat /\ Cardinality(isoperator') <= Cardinality(Client)
      BY <3>2, Names, FS_Subset, FS_CardinalityType
    <3>4. Owed'
      BY <1>4, <3>1, <3>3 DEF Owed
    <3>5. QED
      BY <1>4, <3>1, <3>2, <3>4 DEF OperatorsOK
  <2>5. QED
    BY <2>1, <2>2, <2>3, <2>4
<1>6. QED
  BY <1>3, <1>5, PartsNext

LEMMA RobotIInv ==
    ASSUME IInv, Robot_create \/ Robot_delete
    PROVE  IInv'
<1>1. QueueOK /\ SeatsOK /\ OperatorsOK /\ ClientsOK
  BY Parts
<1>2. UNCHANGED <<queue, Conn, players, game_lock, client, datagrams>>
  BY DEF Robot_create, Robot_delete
<1>3. QueueOK' /\ OperatorsOK' /\ ClientsOK'
  BY <1>1, <1>2, QueueStays, OperatorsStay DEF ClientsOK, client, datagrams
<1>4. Conn \in Connections /\ NumRobots \in 0 .. MaxRobots
  BY <1>1 DEF SeatsOK, Good
<1>5. /\ Cardinality(Players(Conn)) \in Nat /\ Cardinality(Logins(Conn)) \in Nat
  BY <1>4, Counts
<1>6. NumRobots' \in 0 .. MaxRobots /\ Ships(Conn, NumRobots') <= NumBases
  <2>1. Ships(Conn, NumRobots) <= NumBases
    BY <1>1 DEF SeatsOK, SeatsNotOversold
  <2>2. QED
    BY <1>4, <1>5, <2>1, Sizes DEF Robot_create, Robot_delete, RoomForRobot, Ships
<1>7. SeatsOK'
  BY <1>1, <1>2, <1>6 DEF SeatsOK, SeatsNotOversold
<1>8. QED
  BY <1>3, <1>7, PartsNext


LEMMA Queue_playerIInv ==
    ASSUME IInv, NEW c \in Client, Queue_player(c)
    PROVE  IInv'
<1>1. QueueOK /\ SeatsOK /\ OperatorsOK /\ ClientsOK
  BY Parts
<1>2. /\ Queued(c) = {} /\ Len(qp_list) < MaxQueuedPlayers
      /\ qp_list' = Append(qp_list, [client |-> c, port |-> NoPort])
      /\ NumQueuedPlayers' = Len(qp_list) + 1
      /\ UNCHANGED <<Conn, players, NumRobots, game_lock, client, datagrams>>
  BY DEF Queue_player
<1>3. SeatsOK' /\ OperatorsOK' /\ ClientsOK'
  BY <1>1, <1>2, SeatsStay, OperatorsStay DEF ClientsOK, client, datagrams
<1>4. Unlisted(qp_list, c)
  BY <1>2 DEF Unlisted, Queued, Entries
<1>5. qp_list \in Seq(Entry) /\ Len(qp_list) \in Nat
  BY <1>1 DEF QueueOK
<1>6. /\ qp_list' \in Seq(Entry) /\ Len(qp_list') = Len(qp_list) + 1
      /\ InOrder(qp_list') /\ OncePerNick(qp_list') /\ Truthful(qp_list', Conn)
  <2> DEFINE e == [client |-> c, port |-> NoPort]
             new == Append(qp_list, e)
  <2>1. /\ e \in Entry /\ e.port = NoPort /\ e.client = c
        /\ new = Append(qp_list, e) /\ qp_list' = new
    BY <1>2 DEF Entry
  <2> HIDE DEF e, new
  <2>2. /\ new \in Seq(Entry) /\ Len(new) = Len(qp_list) + 1
        /\ InOrder(qp_list) => InOrder(new)
        /\ OncePerNick(qp_list) => OncePerNick(new)
        /\ \A conns : Truthful(qp_list, conns) => Truthful(new, conns)
    BY <1>4, <1>5, <2>1, AppendKeeps
  <2>3. QED
    BY <1>1, <2>1, <2>2 DEF QueueOK
<1>7. QueueOK'
  BY <1>2, <1>5, <1>6, Sizes DEF QueueOK
<1>8. QED
  BY <1>3, <1>7, PartsNext

LEMMA Queue_advance_playerIInv ==
    ASSUME IInv, NEW i \in Entries, Queue_advance_player(i)
    PROVE  IInv'
<1>1. QueueOK /\ SeatsOK /\ OperatorsOK /\ ClientsOK
  BY Parts
<1> DEFINE n == AdvanceAfter(i)
<1>2. /\ qp_list[i].port = NoPort
      /\ qp_list' = InsertAt(RemoveAt(qp_list, i), n + 1, qp_list[i])
      /\ UNCHANGED <<NumQueuedPlayers, Conn, players, NumRobots, game_lock,
                     client, datagrams>>
  BY DEF Queue_advance_player
<1>3. SeatsOK' /\ OperatorsOK' /\ ClientsOK'
  BY <1>1, <1>2, SeatsStay, OperatorsStay DEF ClientsOK, client, datagrams
<1>4. qp_list \in Seq(Entry) /\ i \in DOMAIN qp_list
  BY <1>1 DEF QueueOK, Entries
<1>5. Place(qp_list, i, n)
  <2>1. \E k \in 0 .. i - 1 : Place(qp_list, i, k)
    BY <1>4, PlaceExists DEF Place
  <2>2. QED
    BY <2>1 DEF AdvanceAfter, Place
<1> HIDE DEF n
<1> DEFINE new == InsertAt(RemoveAt(qp_list, i), n + 1, qp_list[i])
<1>6. /\ new \in Seq(Entry) /\ Len(new) = Len(qp_list)
      /\ InOrder(new) /\ OncePerNick(new) /\ Truthful(new, Conn)
  BY <1>1, <1>2, <1>4, <1>5, MoveUpKeeps DEF QueueOK
<1> HIDE DEF new
<1>7. qp_list' = new
  BY <1>2 DEF new
<1>8. QueueOK'
  BY <1>1, <1>2, <1>6, <1>7 DEF QueueOK
<1>9. QED
  BY <1>3, <1>8, PartsNext

LEMMA Queue_kickIInv ==
    ASSUME IInv, NEW i \in Entries, Queue_kick(i)
    PROVE  IInv'
<1>1. QueueOK /\ SeatsOK /\ OperatorsOK /\ ClientsOK
  BY Parts
<1>2. /\ qp_list' = RemoveAt(qp_list, i) /\ NumQueuedPlayers' = NumQueuedPlayers - 1
      /\ UNCHANGED <<Conn, players, NumRobots, game_lock, client, datagrams>>
  BY DEF Queue_kick
<1>3. SeatsOK' /\ OperatorsOK' /\ ClientsOK'
  BY <1>1, <1>2, SeatsStay, OperatorsStay DEF ClientsOK, client, datagrams
<1>4. qp_list \in Seq(Entry) /\ i \in DOMAIN qp_list /\ Len(qp_list) \in Nat
  BY <1>1 DEF QueueOK, Entries
<1>5. /\ qp_list' \in Seq(Entry) /\ Len(qp_list') = Len(qp_list) - 1
      /\ Left(qp_list', qp_list)
  BY <1>2, <1>4, RemoveAtIs, RemoveAtLeaves
<1>6. InOrder(qp_list') /\ OncePerNick(qp_list') /\ Truthful(qp_list', Conn)
  BY <1>1, <1>4, <1>5, LeftKeeps DEF QueueOK
<1>7. QueueOK'
  BY <1>1, <1>2, <1>4, <1>5, <1>6, Sizes DEF QueueOK
<1>8. QED
  BY <1>3, <1>7, PartsNext

LEMMA ConnIsFewer ==
    ASSUME SeatsOK
    PROVE  Fewer(Conn, Conn)
BY DEF SeatsOK, Good, Fewer

LEMMA FoundGoneIs ==
    ASSUME NEW i, NEW I \in FoundGone(i)
    PROVE  I \in SUBSET Entries
BY DEF FoundGone, Entering

LEMMA Queue_remindIInv ==
    ASSUME IInv, NEW i \in Entries, Queue_remind(i)
    PROVE  IInv'
<1>1. QueueOK /\ SeatsOK /\ OperatorsOK /\ ClientsOK
  BY Parts
<1>2. /\ replies' = [replies EXCEPT ![qp_list[i].client] = qp_list[i].port]
      /\ UNCHANGED <<Conn, players, NumRobots, game_lock, client, requests>>
  BY DEF Queue_remind
<1>3. PICK I \in FoundGone(i) : Drop(I)
  BY DEF Queue_remind
<1>4. QueueOK'
  <2>1. I \in SUBSET Entries
    BY FoundGoneIs
  <2>2. Fewer(Conn', Conn)
    BY <1>1, <1>2, ConnIsFewer
  <2>3. QED
    BY <1>1, <1>3, <2>1, <2>2, DropRight
<1>5. SeatsOK' /\ OperatorsOK'
  BY <1>1, <1>2, SeatsStay, OperatorsStay
<1>6. qp_list[i] \in Entry
  BY <1>1 DEF QueueOK, Entries
<1>7. ClientsOK'
  BY <1>1, <1>2, <1>6 DEF ClientsOK, client, Entry
<1>8. QED
  BY <1>4, <1>5, <1>7, PartsNext

LEMMA Queue_dropIInv ==
    ASSUME IInv, Queue_drop
    PROVE  IInv'
<1>1. QueueOK /\ SeatsOK /\ OperatorsOK /\ ClientsOK
  BY Parts
<1>2. UNCHANGED <<Conn, players, NumRobots, game_lock, client, datagrams>>
  BY DEF Queue_drop
<1>3. PICK I \in FoundGone(Len(qp_list) + 1), J \in {{}} \cup {{j} : j \in Waiting} :
        Drop(I \cup J)
  BY DEF Queue_drop
<1>4. I \cup J \in SUBSET Entries
  BY FoundGoneIs DEF Waiting
<1>5. QueueOK'
  <2> DEFINE K == I \cup J
  <2>1. K \in SUBSET Entries /\ Drop(K) /\ Fewer(Conn', Conn)
    BY <1>1, <1>2, <1>3, <1>4, ConnIsFewer
  <2> HIDE DEF K
  <2>2. QED
    BY <1>1, <2>1, DropRight
<1>6. SeatsOK' /\ OperatorsOK' /\ ClientsOK'
  BY <1>1, <1>2, SeatsStay, OperatorsStay DEF ClientsOK, client, datagrams
<1>7. QED
  BY <1>5, <1>6, PartsNext

LEMMA Queue_enterIInv ==
    ASSUME IInv, Queue_enter
    PROVE  IInv'
<1>1. QueueOK /\ SeatsOK /\ OperatorsOK /\ ClientsOK
  BY Parts
<1> DEFINE c == qp_list[FirstWaiting].client
           conns == Seats[2]
           robots == Seats[1]
           ports == Setup_connection(conns, c)
           full == Ships(conns, robots) >= NumBases
<1>2. /\ Waiting # {} /\ NumRobots' = robots
      /\ Delete_players(Players(Conn) \ Players(conns))
      /\ UNCHANGED <<game_lock, client, requests>>
  BY DEF Queue_enter
<1>3. PICK I \in FoundGone(FirstWaiting) :
        \/ /\ full
           /\ Drop(I) /\ Conn' = conns /\ UNCHANGED replies
        \/ /\ ~full /\ ports = {}
           /\ Drop(I \cup {FirstWaiting})
           /\ Conn' = conns /\ UNCHANGED replies
        \/ /\ ~full
           /\ \E p \in ports :
                 /\ Conn' = Listen(conns, p, c)
                 /\ qp_list' = [Without(I) EXCEPT
                                  ![FirstWaiting - Cardinality(I)].port = p]
                 /\ replies' = [replies EXCEPT ![c] = p]
           /\ NumQueuedPlayers' = NumQueuedPlayers - Cardinality(I)
  BY DEF Queue_enter
<1>4. /\ robots \in 0 .. MaxRobots /\ robots <= NumRobots /\ robots \in Nat
      /\ Good(conns) /\ Fewer(conns, Conn) /\ conns \in Connections
      /\ Ships(conns, robots) <= Ships(Conn, NumRobots)
  BY <1>1, SeatsRight, Sizes DEF Good
<1>5. I \in SUBSET Entries
  BY FoundGoneIs
<1>6. FirstWaiting \in Waiting /\ FirstWaiting \in Entries
  <2>1. Waiting \in SUBSET Nat
    BY <1>1 DEF QueueOK, Waiting, Entries
  <2>2. \E i \in Waiting : \A j \in Waiting : i <= j
    BY <1>2, <2>1, Least
  <2>3. FirstWaiting \in Waiting
    BY <2>2 DEF FirstWaiting
  <2>4. QED
    BY <2>3 DEF Waiting
<1>7. c \in Client
  <2>1. qp_list[FirstWaiting] \in Entry
    BY <1>1, <1>6 DEF QueueOK, Entries
  <2>2. QED
    BY <2>1 DEF Entry
<1> HIDE DEF conns, robots, ports, full
<1>8. OperatorsOK'
  <2> DEFINE gone == Players(Conn) \ Players(conns)
  <2>1. Delete_players(gone)
    BY <1>2
  <2> HIDE DEF gone
  <2>2. QED
    BY <1>1, <2>1, PlayersGo
<1>9. CASE Conn' = conns /\ UNCHANGED replies /\ \E K \in SUBSET Entries : Drop(K)
  <2>1. QueueOK'
    BY <1>1, <1>4, <1>9, DropRight
  <2>2. SeatsOK'
    BY <1>1, <1>2, <1>4, <1>9, ConnectionsGo
  <2>3. ClientsOK'
    BY <1>1, <1>2, <1>9 DEF ClientsOK, client
  <2>4. QED
    BY <1>8, <2>1, <2>2, <2>3, PartsNext
<1>10. ASSUME ~full, NEW p \in ports,
              Conn' = Listen(conns, p, c),
              qp_list' = [Without(I) EXCEPT ![FirstWaiting - Cardinality(I)].port = p],
              replies' = [replies EXCEPT ![c] = p],
              NumQueuedPlayers' = NumQueuedPlayers - Cardinality(I)
       PROVE  IInv'
  <2> HIDE DEF c
  <2>1. p \in Setup_connection(conns, c)
    BY DEF ports
  <2>2. QueueOK'
    <3>1. c = qp_list[FirstWaiting].client
      BY DEF c
    <3>2. QED
      BY <1>1, <1>2, <1>4, <1>10, <2>1, <3>1, EnterRight
  <2>3. /\ Good(Conn') /\ Conn' \in Connections
        /\ Players(Conn') = Players(conns)
        /\ Logins(Conn') \subseteq Logins(conns) \cup {p}
    BY <1>4, <1>7, <1>10, <2>1, ListenRight DEF Good
  <2>4. Ships(Conn', robots) <= Ships(conns, robots) + 1
    BY <1>4, <2>3, OneMore
  <2>5. Ships(conns, robots) < NumBases
    <3>1. Ships(conns, robots) \in Int
      BY <1>4, Counts DEF Ships
    <3>2. QED
      BY <1>10, <3>1, Sizes DEF full
  <2>6. Ships(Conn', robots) \in Int /\ Ships(conns, robots) \in Int
    BY <1>4, <2>3, Counts DEF Ships
  <2>7. SeatsOK'
    BY <1>2, <1>4, <2>3, <2>4, <2>5, <2>6, Sizes DEF SeatsOK, SeatsNotOversold
  <2>8. p \in Port
    BY <1>4, <1>7, <2>1, Setup
  <2>9. ClientsOK'
    BY <1>1, <1>2, <1>10, <2>8 DEF ClientsOK, client
  <2>10. QED
    BY <1>8, <2>2, <2>7, <2>9, PartsNext
<1>11. I \cup {FirstWaiting} \in SUBSET Entries
  BY <1>5, <1>6
<1>12. QED
  BY <1>3, <1>5, <1>9, <1>10, <1>11

-----------------------------------------------------------------------------
(* The theorems.                                                           *)

(* Whatever comes in over the network and in whatever order, the queue,    *)
(* the connections, the operators and what the clients were told fit       *)
(* together.                                                               *)
THEOREM Inductive == Spec => []IInv
<1>1. IInv /\ [Next]_vars => IInv'
  <2> SUFFICES ASSUME IInv, [Next]_vars PROVE IInv'
    OBVIOUS
  <2>1. ASSUME NEW c \in Client, Ask(c) \/ Get_reply(c) \/ Leave(c) PROVE IInv'
    BY <2>1, ClientIInv
  <2>2. ASSUME NEW c \in Client, Handle_listening(c) PROVE IInv'
    BY <2>2, Handle_listeningIInv
  <2>3. ASSUME NEW c \in Client,
               \/ Pause_player(c) \/ Cmd_password(c) \/ Cmd_lock(c)
               \/ \E o \in Client : Cmd_op(o, c)
        PROVE  IInv'
    BY <2>3, OperatorIInv
  <2>4. ASSUME NEW c \in Client, Queue_player(c) PROVE IInv'
    BY <2>4, Queue_playerIInv
  <2>5. ASSUME NEW p \in Port, Handle_login(p) PROVE IInv'
    BY <2>5, Handle_loginIInv
  <2>6. ASSUME NEW p \in Port, Destroy_connection(p) PROVE IInv'
    BY <2>6, Destroy_connectionIInv
  <2>7. ASSUME NEW i \in Entries, Queue_advance_player(i) PROVE IInv'
    BY <2>7, Queue_advance_playerIInv
  <2>8. ASSUME NEW i \in Entries, Queue_kick(i) PROVE IInv'
    BY <2>8, Queue_kickIInv
  <2>9. ASSUME NEW i \in Entries, Queue_remind(i) PROVE IInv'
    BY <2>9, Queue_remindIInv
  <2>10. CASE Robot_create \/ Robot_delete
    BY <2>10, RobotIInv
  <2>11. CASE Queue_drop
    BY <2>11, Queue_dropIInv
  <2>12. CASE Queue_enter
    BY <2>12, Queue_enterIInv
  <2>13. CASE UNCHANGED vars
    <3>1. QueueOK /\ SeatsOK /\ OperatorsOK /\ ClientsOK
      BY Parts
    <3>2. UNCHANGED <<queue, Conn, players, NumRobots, game_lock, client, datagrams>>
      BY <2>13 DEF vars
    <3>3. QueueOK' /\ SeatsOK' /\ OperatorsOK' /\ ClientsOK'
      BY <3>1, <3>2, QueueStays, SeatsStay, OperatorsStay DEF ClientsOK, client, datagrams
    <3>4. QED
      BY <3>3, PartsNext
  <2>14. QED
    BY <2>1, <2>2, <2>3, <2>4, <2>5, <2>6, <2>7, <2>8, <2>9, <2>10, <2>11, <2>12, <2>13
    DEF Next
<1>2. QED
  BY <1>1, InitIInv, PTL DEF Spec

(* The state is of its type: among others, the queue is never longer than  *)
(* MaxQueuedPlayers.                                                       *)
THEOREM TypeCorrect == Spec => []TypeOK
<1>1. IInv => TypeOK
  BY DEF IInv
<1>2. QED
  BY <1>1, Inductive, PTL

(* Players, logins and robots never need more bases than there are.        *)
THEOREM Seated == Spec => []SeatsNotOversold
<1>1. IInv => SeatsNotOversold
  BY DEF IInv
<1>2. QED
  BY <1>1, Inductive, PTL

(* No nick gets two connections or two places in the queue, whatever is    *)
(* lost or repeated.                                                       *)
THEOREM OnceOnly == Spec => []OneLoginEach
<1>1. IInv => OneLoginEach
  BY OnceIs DEF IInv
<1>2. QED
  BY <1>1, Inductive, PTL

(* Those who have a login port stay before those who wait, also when an    *)
(* operator moves somebody up.                                             *)
THEOREM QueueInOrder == Spec => []EnteringFirst
<1>1. IInv => EnteringFirst
  BY Parts, InOrderIs DEF QueueOK
<1>2. QED
  BY <1>1, Inductive, PTL

(* The port that the queue keeps for a player is the one where the server  *)
(* listens for this player, as long as it listens at all.                  *)
THEOREM RightPort == Spec => []TellsOwnPort
<1>1. IInv => TellsOwnPort
  BY TruthfulIs DEF IInv
<1>2. QED
  BY <1>1, Inductive, PTL
=============================================================================
