------------------------------ MODULE Alliance ------------------------------
(***************************************************************************)
(* Alliances and the invitations that lead to them (server/alliance.c, the *)
(* talk command /ally in command.c, the robots' answer in robotdef.c, and  *)
(* what Init_player and Delete_player do to them in player.c).             *)
(*                                                                         *)
(* A player is its id, which another player may be given after it has      *)
(* left.  The command loop of Accept_all_alliances takes a step for each   *)
(* player it visits, with nothing in between.  crashed is the end of the   *)
(* server by a null pointer: Player_by_id is NULL for a player who has     *)
(* left, Find_alliance is NULL for ALLIANCE_NOT_SET.                       *)
(***************************************************************************)
EXTENDS Integers, Sequences, FiniteSets

CONSTANTS
    Player,         \* ids of players; tanks are left out, nobody can invite them
    Robot,          \* those of them that are robots
    MaxAlliances    \* MAX_TEAMS

ASSUME PlayersFinite == IsFiniteSet(Player) /\ Robot \subseteq Player

ASSUME SomeAlliances == MaxAlliances \in Nat

NoId == "NO_ID"
NotSet == -1        \* ALLIANCE_NOT_SET
Id == 0 .. MaxAlliances - 1

ASSUME NoIdIsNoPlayer == NoId \notin Player

VARIABLES
    players,        \* PlayersArray[0 .. NumPlayers - 1]
    alliance,       \* pl->alliance
    invite,         \* pl->invite
    Alliances,      \* the ids in Alliances[0 .. NumAlliances - 1]
    NumMembers,     \* by alliance id
    accepting,      \* who runs Accept_all_alliances, and whom it has to visit
    crashed

vars == <<players, alliance, invite, Alliances, NumMembers, accepting, crashed>>

Present == {players[i] : i \in DOMAIN players}

Nobody == [by |-> NoId, visits |-> <<>>]

TypeOK ==
    /\ players \in Seq(Player)
    /\ alliance \in [Player -> Id \cup {NotSet}]
    /\ invite \in [Player -> Player \cup {NoId}]
    /\ Alliances \subseteq Id
    /\ NumMembers \in [Id -> 0 .. Cardinality(Player)]
    /\ accepting.by \in Player \cup {NoId}
    /\ accepting.visits \in Seq(Player)
    /\ crashed \in BOOLEAN

Init ==
    /\ players = <<>>
    /\ alliance = [p \in Player |-> NotSet]
    /\ invite = [p \in Player |-> NoId]
    /\ Alliances = {}
    /\ NumMembers = [id \in Id |-> 0]
    /\ accepting = Nobody
    /\ crashed = FALSE

Running == ~crashed /\ accepting = Nobody
Human == Player \ Robot

Allies(p, q) == alliance[p] # NotSet /\ alliance[p] = alliance[q]

-----------------------------------------------------------------------------
(* The four tables as one value, so that the functions of alliance.c can   *)
(* be composed the way they call each other.                               *)

Tables == [alliance |-> alliance, invite |-> invite,
           ids |-> Alliances, num |-> NumMembers]

Become(t) ==
    /\ alliance' = t.alliance
    /\ invite' = t.invite
    /\ Alliances' = t.ids
    /\ NumMembers' = t.num

Members(t, id) == {p \in Present : t.alliance[p] = id}

Uninvite(t, p) == [t EXCEPT !.invite[p] = NoId]

(* Bug: invitations for the new members stay. *)
AddKeepingInvitations(t, S, id) ==
    [t EXCEPT !.alliance = [p \in Player |-> IF p \in S THEN id ELSE @[p]],
              !.num[id] = @ + Cardinality(S)]

(* Alliance_add_player for each player in S: "drop invitations for this    *)
(* player from other members".                                             *)
Add(t, S, id) ==
    [t EXCEPT !.alliance = [p \in Player |-> IF p \in S THEN id ELSE @[p]],
              !.invite = [p \in Player |-> IF p \in Present /\ @[p] \in S
                                           THEN NoId ELSE @[p]],
              !.num[id] = @ + Cardinality(S)]

(* Bug: the count is left to Dissolve_alliance. *)
RemoveUncounted(t, S, id) ==
    [t EXCEPT !.alliance = [p \in Player |-> IF p \in S THEN NotSet ELSE @[p]]]

(* Alliance_remove_player for each player in S. *)
Remove(t, S, id) ==
    [t EXCEPT !.alliance = [p \in Player |-> IF p \in S THEN NotSet ELSE @[p]],
              !.num[id] = @ - Cardinality(S)]

Dissolve(t, id) ==
    [Remove(t, Members(t, id), id) EXCEPT !.ids = @ \ {id}, !.num[id] = 0]

(* New_alliance_ID. *)
FreeIds(t) == Id \ t.ids

Create(t, p, q) ==
    IF FreeIds(t) = {} THEN t
    ELSE LET id == CHOOSE i \in FreeIds(t) : \A j \in FreeIds(t) : i <= j
         IN  Add([t EXCEPT !.ids = @ \cup {id}, !.num[id] = 0], {p, q}, id)

(* Player_join_alliance. *)
Join(t, p, ally) == Add(t, {p}, t.alliance[ally])

(* Bug: only p2 changes sides, its allies are left alone. *)
MergeOne(t, p, id2) ==
    LET S == {CHOOSE m \in Members(t, id2) : TRUE}
    IN  Dissolve(Add(Remove(t, S, id2), S, t.alliance[p]), id2)

(* Merge_alliances: the members of id2 move to p's alliance. *)
Merge(t, p, id2) ==
    LET S == Members(t, id2)
    IN  Dissolve(Add(Remove(t, S, id2), S, t.alliance[p]), id2)

(* A merge of an alliance with itself takes p out of it and then looks for *)
(* the alliance p is in.                                                   *)
MergesWithItself(t, pl, ally) ==
    t.alliance[pl] # NotSet /\ t.alliance[pl] = t.alliance[ally]

(* Accept_alliance, when ally has invited pl. *)
Accept(t, pl, ally) ==
    LET u == Uninvite(t, ally)
    IN  IF u.alliance[ally] # NotSet
        THEN IF u.alliance[pl] # NotSet THEN Merge(u, ally, u.alliance[pl])
                                        ELSE Join(u, pl, ally)
        ELSE IF u.alliance[pl] # NotSet THEN Join(u, ally, pl)
                                        ELSE Create(u, pl, ally)

AcceptOrCrash(t, pl, ally) ==
    IF MergesWithItself(t, pl, ally)
    THEN crashed' = TRUE /\ UNCHANGED <<alliance, invite, Alliances, NumMembers>>
    ELSE Become(Accept(t, pl, ally)) /\ UNCHANGED crashed

TooSmall(t, id) == t.num[id] <= 1

Leave(t, p) ==
    LET id == t.alliance[p]
        u == Remove(t, {p}, id)
    IN  IF id = NotSet THEN t
        ELSE IF TooSmall(u, id) THEN Dissolve(u, id) ELSE u

-----------------------------------------------------------------------------
(* The commands.  A human player gives them.                               *)

Stale(p) == invite[p] # NoId /\ invite[p] \notin Present

(* Robot_default_invite: robots leave the decision to the humans among     *)
(* their allies; otherwise scores and wars decide, that is anything goes.  *)
Robot_invite(robot, inviter) ==
    LET t == [Tables EXCEPT !.invite[inviter] = robot]
    IN  \/ Become(Uninvite(t, inviter)) /\ UNCHANGED crashed
        \/ /\ ~\E p \in Present \cap Human : Allies(robot, p)
           /\ AcceptOrCrash(t, robot, inviter)

Invite_player(pl, ally) ==
    /\ Running
    /\ pl \in Present \cap Human /\ ally \in Present
    /\ pl # ally
    /\ ~Allies(pl, ally)
    /\ invite[pl] # ally
    /\ IF invite[ally] = pl THEN AcceptOrCrash(Tables, pl, ally)
       ELSE IF Stale(pl)    \* Cancel_invitation
       THEN crashed' = TRUE
            /\ UNCHANGED <<alliance, invite, Alliances, NumMembers>>
       ELSE IF ally \in Robot THEN Robot_invite(ally, pl)
       ELSE Become([Tables EXCEPT !.invite[pl] = ally]) /\ UNCHANGED crashed
    /\ UNCHANGED <<players, accepting>>

Cancel_invitation(pl) ==
    /\ Running
    /\ pl \in Present \cap Human
    /\ invite[pl] # NoId
    /\ IF Stale(pl)
       THEN crashed' = TRUE
            /\ UNCHANGED <<alliance, invite, Alliances, NumMembers>>
       ELSE Become(Uninvite(Tables, pl)) /\ UNCHANGED crashed
    /\ UNCHANGED <<players, accepting>>

Refuse_alliance(pl, ally) ==
    /\ Running
    /\ pl \in Present \cap Human /\ ally \in Present
    /\ invite[ally] = pl
    /\ Become(Uninvite(Tables, ally))
    /\ UNCHANGED <<players, accepting, crashed>>

Refuse_all_alliances(pl) ==
    /\ Running
    /\ pl \in Present \cap Human
    /\ invite' = [p \in Player |-> IF p \in Present /\ invite[p] = pl
                                   THEN NoId ELSE invite[p]]
    /\ UNCHANGED <<players, alliance, Alliances, NumMembers, accepting, crashed>>

Accept_alliance(pl, ally) ==
    /\ Running
    /\ pl \in Present \cap Human /\ ally \in Present
    /\ invite[ally] = pl
    /\ AcceptOrCrash(Tables, pl, ally)
    /\ UNCHANGED <<players, accepting>>

Accept_all_alliances(pl) ==
    /\ Running
    /\ pl \in Present \cap Human
    /\ accepting' = [by |-> pl, visits |-> players]
    /\ UNCHANGED <<players, alliance, invite, Alliances, NumMembers, crashed>>

Accept_next ==
    /\ ~crashed /\ accepting # Nobody
    /\ LET pl == accepting.by
           rest == Tail(accepting.visits)
       IN  /\ accepting' = IF rest = <<>> THEN Nobody
                           ELSE [accepting EXCEPT !.visits = rest]
           /\ IF invite[Head(accepting.visits)] = pl
              THEN AcceptOrCrash(Tables, pl, Head(accepting.visits))
              ELSE UNCHANGED <<alliance, invite, Alliances, NumMembers, crashed>>
    /\ UNCHANGED players

Leave_alliance(pl) ==
    /\ Running
    /\ pl \in Present \cap Human
    /\ alliance[pl] # NotSet
    /\ Become(Leave(Tables, pl))
    /\ UNCHANGED <<players, accepting, crashed>>

(* Init_player: a player gets a free id. *)
Enter(p) ==
    /\ Running
    /\ p \notin Present
    /\ players' = Append(players, p)
    /\ alliance' = [alliance EXCEPT ![p] = NotSet]
    /\ invite' = [invite EXCEPT ![p] = NoId]
    /\ UNCHANGED <<Alliances, NumMembers, accepting, crashed>>

(* Delete_player: out of the alliance, then out of PlayersArray, where the *)
(* last player takes the place.                                            *)
Delete_player(p) ==
    /\ Running
    /\ \E i \in DOMAIN players :
          /\ players[i] = p
          /\ players' = [j \in 1 .. Len(players) - 1 |->
                            IF j = i THEN players[Len(players)] ELSE players[j]]
    /\ Become(Uninvite(Leave(Tables, p), p))
    /\ UNCHANGED <<accepting, crashed>>

Next ==
    \/ \E p, q \in Player :
          Invite_player(p, q) \/ Refuse_alliance(p, q) \/ Accept_alliance(p, q)
    \/ \E p \in Player :
          \/ Cancel_invitation(p) \/ Refuse_all_alliances(p)
          \/ Accept_all_alliances(p) \/ Leave_alliance(p)
          \/ Enter(p) \/ Delete_player(p)
    \/ Accept_next

Spec == Init /\ [][Next]_vars

-----------------------------------------------------------------------------
(* Properties.                                                             *)

(* Players are in alliances that exist, and nobody is in one alone, which  *)
(* Find_alliance and Dissolve_alliance rely on.  NumMembers, by which an   *)
(* alliance is dissolved, is the number of players who think they are in   *)
(* it, whatever has been merged.                                           *)
AlliancesOfTwo ==
    /\ \A p \in Player : alliance[p] \in Alliances \cup {NotSet}
    /\ \A id \in Alliances :
          /\ NumMembers[id] = Cardinality(Members(Tables, id))
          /\ NumMembers[id] >= 2

(* A player who joins an alliance has no invitation left from any other,   *)
(* so that he cannot be carried from his alliance into one more by an old  *)
(* invitation he could accept all at once ("drop invitations for this      *)
(* player from other members").                                            *)
JoinDropsInvitations ==
    [][\A p \in Present :
          alliance'[p] \notin {NotSet, alliance[p]}
             => \A q \in Present : invite'[q] # p]_vars

Abstract == INSTANCE Coalitions
    WITH allies <- [p \in Player |-> {q \in Player \ {p} : Allies(p, q)}]

(* The tables implement a partition of the players that only unites whole  *)
(* alliances and only loses the player who leaves.                         *)
RefinesCoalitions == Abstract!Spec

(* Alliance_add_player's comment, "drop invitations for this player from   *)
(* other members": no invitation is left between two allies.               *)
NoInvitationAmongAllies ==
    \A p, q \in Present : invite[p] = q => ~Allies(p, q)
=============================================================================
