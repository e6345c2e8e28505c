---------------------------- MODULE Frames_proofs ----------------------------
(***************************************************************************)
(* Proofs about frames: that the client processes the packets of its       *)
(* window in order, for all window sizes and all orders in which packets   *)
(* arrive (FrameWindow), and that the frames in which a race, or a game of *)
(* tag, goes on leave it with somebody to go on with, for any players,     *)
(* bases, checkpoints and lap times (Races).                               *)
(***************************************************************************)
EXTENDS FrameWindow, Races, FiniteSetTheorems, SequenceTheorems, WellFoundedInduction, TLAPS

(***************************************************************************)
(* The window.                                                             *)
(*                                                                         *)
(* Reading goes on only as long as all slots before slot i hold frames,    *)
(* and the filled slots come before the empty ones: so that what is read   *)
(* into the first empty slot has been compared with all frames that wait,  *)
(* and nothing is read while an unidentifiable packet waits.               *)
(***************************************************************************)

(* The filled slots are the first ones. *)
NoGaps(w) == \A s, r \in Slot : r < s /\ w[s].at > 0 => w[r].at > 0

AllFrames(w) == \A s \in Slot : w[s].loops > 0

(* Packets wait in the order in which they have arrived, later than what   *)
(* is in the window, which is later than nothing that is to arrive.        *)
Arrivals ==
    /\ \A j, k \in 1 .. Len(socket) : j < k => socket[j].at < socket[k].at
    /\ \A j \in 1 .. Len(socket) :
          /\ socket[j].at <= arrived
          /\ done.at < socket[j].at
          /\ \A s \in Slot : Frames[s].at < socket[j].at
    /\ \A s \in Slot : Frames[s].at <= arrived
    /\ done.at <= arrived

(* What the first loop has gone through. *)
Reading ==
    pc = "reading" =>
        /\ \A s \in Slot : s < i => IsFrame(s)
        /\ \A s \in Slot : s < i => Frames[oldest_frame].loops <= Frames[s].loops
        /\ oldest_frame <= i
        /\ i > 1 => oldest_frame < i

IInv ==
    /\ TypeOK
    /\ NoGaps(Frames)
    /\ Arrivals
    /\ Reading
    /\ WaitingIsNewer
    /\ KeepsPlace

-----------------------------------------------------------------------------
(* Slots and packets.                                                      *)

LEMMA LeastNatural ==
    ASSUME NEW S \in SUBSET Nat, S # {}
    PROVE  \E n \in S : \A m \in S : n <= m
<1> DEFINE R == OpToRel(<, Nat)
<1>1. IsWellFoundedOn(R, Nat)
  BY NatLessThanWellFounded
<1>2. \A x, y \in Nat : <<x, y>> \notin R => y <= x
  BY DEF OpToRel
<1> HIDE DEF R
<1>3. PICK n \in S : \A m \in S : <<m, n>> \notin R
  BY <1>1, WFMin
<1>4. QED
  BY <1>2, <1>3

(* What packets are made of; a frame fills its slot. *)
LEMMA Contents ==
    ASSUME NEW w \in [Slot -> Packet \cup {Empty}], NEW s \in Slot
    PROVE  /\ w[s].loops \in 0 .. MaxLoops /\ w[s].at \in 0 .. MaxArrivals
           /\ w[s].loops > 0 => w[s].at > 0
           /\ w[s].at = 0 => w[s] = Empty
           /\ w[s].at > 0 => w[s] \in Packet
<1>1. w[s] \in Packet \/ w[s] = Empty
  OBVIOUS
<1>2. QED
  BY <1>1, WindowSizes DEF Packet, Empty

LEMMA Numbers ==
    /\ WindowSize \in Nat /\ WindowSize >= 1
    /\ MaxLoops \in Nat /\ MaxArrivals \in Nat
    /\ Slot \subseteq Nat /\ \A s \in Slot : 1 <= s /\ s <= WindowSize
    /\ Empty.loops = 0 /\ Empty.at = 0
BY WindowSizes DEF Slot, Empty

(* Net_read reads the packet that has waited longest. *)
LEMMA HeadOfSocket ==
    ASSUME TypeOK, Arrivals, socket # <<>>
    PROVE  LET p == Head(socket) IN
           /\ p \in Packet /\ p.at > 0 /\ p.at <= arrived
           /\ done.at < p.at
           /\ \A s \in Slot : Frames[s].at < p.at
           /\ Tail(socket) \in Seq(Packet)
           /\ Len(Tail(socket)) = Len(socket) - 1
           /\ \A j \in 1 .. Len(Tail(socket)) :
                 /\ j + 1 \in 1 .. Len(socket)
                 /\ Tail(socket)[j] = socket[j + 1]
                 /\ p.at < Tail(socket)[j].at
<1>1. /\ socket \in Seq(Packet) /\ Len(socket) \in Nat /\ Len(socket) > 0
      /\ Head(socket) = socket[1] /\ 1 \in 1 .. Len(socket)
      /\ Tail(socket) \in Seq(Packet)
      /\ Len(Tail(socket)) = Len(socket) - 1
      /\ \A j \in 1 .. Len(socket) - 1 : Tail(socket)[j] = socket[j + 1]
  BY DEF TypeOK
<1>2. socket[1] \in Packet
  BY <1>1
<1>3. \A j \in 1 .. Len(socket) - 1 : j + 1 \in 1 .. Len(socket) /\ 1 < j + 1
  BY <1>1
<1>4. \A j \in 1 .. Len(socket) - 1 : socket[1].at < socket[j + 1].at
  BY <1>1, <1>3 DEF Arrivals
<1>5. QED
  BY <1>1, <1>2, <1>3, <1>4, Numbers DEF Arrivals, Packet

(* Reading takes the first packet out of the socket. *)
LEMMA TailArrives ==
    ASSUME TypeOK, Arrivals, socket # <<>>, socket' = Tail(socket),
           arrived' = arrived, done' = done,
           \A s \in Slot : /\ Frames'[s].at \in Nat
                           /\ Frames'[s].at <= Head(socket).at
    PROVE  Arrivals'
<1> DEFINE p == Head(socket)
<1>1. /\ p.at \in Nat /\ p.at <= arrived
      /\ Len(socket') = Len(socket) - 1
      /\ \A j \in 1 .. Len(socket') :
                 /\ j + 1 \in 1 .. Len(socket)
                 /\ socket'[j] = socket[j + 1]
                 /\ p.at < socket'[j].at
  BY SMTT(30), HeadOfSocket, Numbers DEF Packet
<1>2. \A s \in Slot : Frames'[s].at \in Nat /\ Frames'[s].at <= p.at
  OBVIOUS
<1> HIDE DEF p
<1>3. socket \in Seq(Packet)
  BY DEF TypeOK
<1>4. Len(socket) \in Nat /\ \A j \in 1 .. Len(socket) : socket[j] \in Packet
  BY <1>3
<1>5. \A j \in 1 .. Len(socket) : socket[j].at \in Nat
  BY <1>4, Numbers DEF Packet
<1>6. arrived \in Nat
  BY Numbers DEF TypeOK
<1>7. \A j \in 1 .. Len(socket') : socket'[j].at \in Nat
  BY <1>1, <1>5
<1>8. \A j, k \in 1 .. Len(socket') : j < k => socket'[j].at < socket'[k].at
  <2>1. SUFFICES ASSUME NEW j \in 1 .. Len(socket'), NEW k \in 1 .. Len(socket'),
                        j < k
                 PROVE  socket'[j].at < socket'[k].at
    OBVIOUS
  <2>2. /\ j + 1 \in 1 .. Len(socket) /\ k + 1 \in 1 .. Len(socket)
        /\ j + 1 < k + 1
    BY <1>1, <2>1
  <2>3. socket[j + 1].at < socket[k + 1].at
    BY <2>2 DEF Arrivals
  <2>4. QED
    BY <1>1, <2>3
<1>9. \A j \in 1 .. Len(socket') : /\ socket'[j].at <= arrived'
                                   /\ done'.at < socket'[j].at
  BY <1>1 DEF Arrivals
<1>10. \A j \in 1 .. Len(socket') : \A s \in Slot : Frames'[s].at < socket'[j].at
  <2> SUFFICES ASSUME NEW j \in 1 .. Len(socket'), NEW s \in Slot
               PROVE  Frames'[s].at < socket'[j].at
    OBVIOUS
  <2>1. Frames'[s].at \in Nat /\ Frames'[s].at <= p.at
    BY <1>2
  <2>2. p.at \in Nat /\ socket'[j].at \in Nat /\ p.at < socket'[j].at
    BY <1>1, <1>7
  <2>3. QED
    BY <2>1, <2>2
<1>11. \A s \in Slot : Frames'[s].at <= arrived'
  BY <1>1, <1>2, <1>6
<1>12. done'.at <= arrived'
  BY DEF Arrivals
<1>13. QED
  BY <1>8, <1>9, <1>10, <1>11, <1>12 DEF Arrivals

-----------------------------------------------------------------------------
(* The window.                                                             *)

Distinct(w) == \A s, r \in Slot : s # r /\ w[s].loops > 0
                                     => w[s].loops # w[r].loops

Newer(w) == \A s \in Slot : w[s].loops > 0 => w[s].loops > last_loops

InPlace(w) ==
    /\ \A s \in Slot : w[s].at > 0 /\ ~(w[s].loops > 0)
          => done.at < w[s].at
             /\ \A r \in Slot \ {s} : w[r].at > 0 => w[r].at < w[s].at
    /\ done.at > 0 /\ done.loops = 0
          => \A s \in Slot : w[s].at > 0 => w[s].at > done.at

Sound(w) ==
    /\ w \in [Slot -> Packet \cup {Empty}]
    /\ NoGaps(w) /\ Distinct(w) /\ Newer(w) /\ InPlace(w)

LEMMA WindowSound ==
    TypeOK => (Sound(Frames) <=> NoGaps(Frames) /\ WaitingIsNewer /\ KeepsPlace)
BY DEF TypeOK, Sound, Distinct, Newer, InPlace, WaitingIsNewer, KeepsPlace,
       IsFrame, IsFilled, IsUnidentifiable

(* r is full window w without its oldest packet, o, whose place the last   *)
(* packet has taken.                                                       *)
Dropped(w, o, r) ==
    /\ r \in [Slot -> Packet \cup {Empty}]
    /\ \A s \in Slot : r[s] = IF s = WindowSize THEN Empty
                              ELSE IF s = o THEN w[WindowSize] ELSE w[s]

LEMMA DropOldestDoes ==
    ASSUME NEW w \in [Slot -> Packet \cup {Empty}], Distinct(w), AllFrames(w),
           NEW o \in Slot, \A s \in Slot : w[o].loops <= w[s].loops
    PROVE  Dropped(w, o, DropOldest(w, o))
<1>1. WindowSize \in Slot
  BY WindowSizes DEF Slot
<1>2. \A s \in Slot : w[s].loops \in Nat
  BY Contents, Numbers
<1>3. CASE o = WindowSize
  <2>1. ~(w[o].loops < w[WindowSize].loops)
    BY <1>2, <1>3
  <2>2. DropOldest(w, o) = [w EXCEPT ![WindowSize] = Empty]
    BY <2>1 DEF DropOldest
  <2>3. QED
    BY <1>1, <1>3, <2>2 DEF Dropped
<1>4. CASE o # WindowSize
  <2>1. w[o].loops < w[WindowSize].loops
    <3>1. w[o].loops # w[WindowSize].loops /\ w[o].loops <= w[WindowSize].loops
      BY <1>1, <1>4 DEF Distinct, AllFrames
    <3>2. QED
      BY <1>1, <1>2, <3>1
  <2>2. DropOldest(w, o) = [w EXCEPT ![o] = w[WindowSize], ![WindowSize] = Empty]
    BY <2>1 DEF DropOldest
  <2>3. QED
    BY <1>1, <1>4, <2>2 DEF Dropped
<1>5. QED
  BY <1>3, <1>4

LEMMA DroppedSound ==
    ASSUME NEW w, Sound(w), AllFrames(w), NEW o \in Slot, NEW r, Dropped(w, o, r)
    PROVE  Sound(r)
<1>1. WindowSize \in Slot /\ \A s \in Slot : s <= WindowSize /\ s \in Nat
  BY WindowSizes DEF Slot
<1>2. \A s \in Slot : /\ w[s].loops > 0 /\ w[s].at > 0
                      /\ r[s] = IF s = WindowSize THEN Empty
                                ELSE IF s = o THEN w[WindowSize] ELSE w[s]
  BY Contents DEF Sound, AllFrames, Dropped
<1>3. Empty.loops = 0 /\ Empty.at = 0
  BY Numbers
<1>4. NoGaps(r)
  BY <1>1, <1>2, <1>3, WindowSizes DEF NoGaps
<1>5. Distinct(r)
  BY <1>1, <1>2, <1>3 DEF Sound, Distinct
<1>6. Newer(r)
  BY <1>1, <1>2, <1>3 DEF Sound, Newer
<1>7. InPlace(r)
  BY <1>1, <1>2, <1>3 DEF Sound, InPlace
<1>8. QED
  BY <1>4, <1>5, <1>6, <1>7 DEF Sound, Dropped

(* The end of an iteration, when the slots up to i hold frames and o is    *)
(* the oldest.                                                             *)
LEMMA IteratedDoes ==
    ASSUME NEW w, Sound(w), i \in Slot, pc = "reading",
           \A s \in Slot : s <= i => w[s].loops > 0,
           NEW o \in Slot, o <= i,
           \A s \in Slot : s <= i => w[o].loops <= w[s].loops,
           Iterated(w, o), last_loops' = last_loops, done' = done
    PROVE  /\ Sound(Frames)' /\ Reading'
           /\ pc' \in {"reading", "process"}
           /\ i' \in Slot /\ oldest_frame' \in Slot
           /\ \/ Frames' = w
              \/ AllFrames(w) /\ WindowSize > 1 /\ Dropped(w, o, Frames')
                 /\ \A s \in Slot : w[o].loops <= w[s].loops
<1>1. /\ 1 \in Slot /\ WindowSize \in Slot
      /\ \A s \in Slot : s \in Nat /\ 1 <= s /\ s <= WindowSize
  BY WindowSizes DEF Slot
<1>2. CASE i = WindowSize /\ i > 1
  <2>1. /\ Frames' = DropOldest(w, o) /\ oldest_frame' = 1 /\ i' = 1 /\ pc' = pc
    BY <1>2 DEF Iterated
  <2>2. AllFrames(w) /\ \A s \in Slot : w[o].loops <= w[s].loops
    BY <1>1, <1>2 DEF AllFrames
  <2>3. Dropped(w, o, Frames')
    BY <2>1, <2>2, DropOldestDoes DEF Sound
  <2>4. Sound(Frames')
    BY <2>2, <2>3, DroppedSound
  <2>5. Sound(Frames)'
    BY <2>4 DEF Sound, NoGaps, Distinct, Newer, InPlace
  <2>6. Reading'
    BY <1>1, <2>1 DEF Reading
  <2>7. QED
    BY <1>1, <1>2, <2>1, <2>2, <2>3, <2>5, <2>6
<1>3. CASE ~(i = WindowSize /\ i > 1)
  <2>1. /\ Frames' = w /\ oldest_frame' = o
        /\ IF i < WindowSize THEN i' = i + 1 /\ UNCHANGED pc
                             ELSE pc' = "process" /\ UNCHANGED i
    BY <1>3 DEF Iterated
  <2>2. Sound(Frames)'
    BY <2>1 DEF Sound, NoGaps, Distinct, Newer, InPlace
  <2>3. CASE i < WindowSize
    <3>1. i' = i + 1 /\ pc' = pc /\ i' \in Slot
      BY <1>1, <2>1, <2>3, WindowSizes DEF Slot
    <3>2. Reading'
      BY <1>1, <2>1, <3>1 DEF Reading, IsFrame
    <3>3. QED
      BY <2>1, <2>2, <3>1, <3>2
  <2>4. CASE ~(i < WindowSize)
    <3>1. pc' = "process" /\ i' = i
      BY <2>1, <2>4
    <3>2. QED
      BY <2>1, <2>2, <3>1 DEF Reading
  <2>5. QED
    BY <2>3, <2>4
<1>4. QED
  BY <1>2, <1>3

(* A packet that is read into the first empty slot. *)
LEMMA ReadSound ==
    ASSUME IInv, Reads, socket # <<>>,
           \/ Head(socket).loops = 0
           \/ ~IsStale(Head(socket).loops)
    PROVE  LET w == [Frames EXCEPT ![i] = Head(socket)] IN
           /\ Sound(w)
           /\ w[i] = Head(socket) /\ \A s \in Slot \ {i} : w[s] = Frames[s]
           /\ \A s \in Slot : w[s].at \in Nat /\ w[s].at <= Head(socket).at
           /\ \A s \in Slot : s > i => Frames[s].at = 0 /\ ~IsFrame(s)
<1> DEFINE p == Head(socket)
           w == [Frames EXCEPT ![i] = p]
<1>1. /\ p \in Packet /\ p.at > 0 /\ p.at \in Nat /\ p.loops \in Nat
      /\ done.at < p.at
      /\ \A s \in Slot : Frames[s].at < p.at
  BY HeadOfSocket, Numbers DEF IInv, Packet
<1>2. /\ i \in Slot /\ Frames \in [Slot -> Packet \cup {Empty}]
      /\ \A s \in Slot : s \in Nat
      /\ last_loops \in Nat /\ done.at \in Nat
  BY Numbers DEF IInv, TypeOK, Packet, Empty
<1>3. pc = "reading" /\ ~(Frames[i].at > 0)
  BY DEF Reads, IsFilled
<1>4. \A s \in Slot : /\ Frames[s].at \in Nat /\ Frames[s].loops \in Nat
                      /\ Frames[s].loops > 0 => Frames[s].at > 0
  BY <1>2, Contents, Numbers
<1>5. /\ \A s \in Slot : s < i => Frames[s].loops > 0
      /\ \A s \in Slot : s > i => ~(Frames[s].at > 0) /\ ~(Frames[s].loops > 0)
  BY <1>2, <1>3, <1>4 DEF IInv, Reading, IsFrame, NoGaps
<1>6. /\ w \in [Slot -> Packet \cup {Empty}]
      /\ w[i] = p /\ \A s \in Slot \ {i} : w[s] = Frames[s]
  BY <1>1, <1>2
<1> HIDE DEF w
<1>7. p.loops > 0 => /\ p.loops > last_loops
                     /\ \A s \in Slot : s < i => Frames[s].loops # p.loops
  <2>1. SUFFICES ASSUME p.loops > 0, ~IsStale(p.loops)
                 PROVE  /\ p.loops > last_loops
                        /\ \A s \in Slot : s < i => Frames[s].loops # p.loops
    OBVIOUS
  <2>2. \A s \in Slot : s < i => s \in 1 .. i - 1
    BY <1>2, Numbers
  <2>3. QED
    BY <1>1, <1>2, <2>1, <2>2 DEF IsStale
<1> HIDE DEF p
<1>8. Sound(Frames)
  BY WindowSound DEF IInv
<1>9. NoGaps(w)
  BY <1>1, <1>2, <1>4, <1>5, <1>6 DEF NoGaps
<1>10. Distinct(w)
  BY SMTT(30), <1>1, <1>2, <1>4, <1>5, <1>6, <1>7, <1>8 DEF Sound, Distinct
<1>11. Newer(w)
  BY <1>1, <1>2, <1>6, <1>7, <1>8 DEF Sound, Newer
<1>12. InPlace(w)
  <2>1. \A s \in Slot : w[s].at > 0 => s <= i
    BY <1>2, <1>4, <1>5, <1>6
  <2>2. \A s \in Slot : s < i => w[s].loops > 0
    BY <1>2, <1>5, <1>6
  <2>3. ASSUME NEW s \in Slot, w[s].at > 0 /\ ~(w[s].loops > 0)
        PROVE  /\ done.at < w[s].at
               /\ \A r \in Slot \ {s} : w[r].at > 0 => w[r].at < w[s].at
    <3>1. s = i
      BY <1>2, <2>1, <2>2, <2>3
    <3>2. QED
      BY <1>1, <1>6, <3>1
  <2>4. done.at > 0 /\ done.loops = 0
          => \A s \in Slot : w[s].at > 0 => w[s].at > done.at
    BY <1>1, <1>2, <1>4, <1>6, <1>8 DEF Sound, InPlace
  <2>5. QED
    BY <2>3, <2>4 DEF InPlace
<1>13. \A s \in Slot : w[s].at \in Nat /\ w[s].at <= p.at
  BY <1>1, <1>4, <1>6
<1>14. \A s \in Slot : s > i => Frames[s].at = 0 /\ ~IsFrame(s)
  BY <1>2, <1>4, <1>5 DEF IsFrame
<1>15. QED
  BY <1>6, <1>9, <1>10, <1>11, <1>12, <1>13, <1>14 DEF Sound, w, p

(* The filled slots are those up to last_frame, if any. *)
LEMMA LastFrame ==
    ASSUME TypeOK, NoGaps(Frames)
    PROVE  /\ last_frame \in Slot
           /\ \A s \in Slot : Frames[s].at > 0 => s <= last_frame
           /\ \A s \in Slot : s <= last_frame => s = 1 \/ Frames[s].at > 0
<1> DEFINE Q(s) == /\ \A r \in 2 .. s : IsFilled(r)
                   /\ s < WindowSize => ~IsFilled(s + 1)
           E == {s \in Slot : ~(Frames[s].at > 0)}
<1>1. /\ \A s : s \in Slot <=> s \in Nat /\ 1 <= s /\ s <= WindowSize
      /\ WindowSize \in Nat /\ WindowSize >= 1
  BY WindowSizes DEF Slot
<1>2. \E s \in Slot : Q(s)
  <2>1. CASE E = {}
    <3>1. Q(WindowSize)
      BY <1>1, <2>1 DEF IsFilled
    <3>2. QED
      BY <1>1, <3>1
  <2>2. CASE E # {}
    <3>1. E \in SUBSET Nat
      BY <1>1
    <3>2. PICK m \in E : \A n \in E : m <= n
      BY <2>2, <3>1, LeastNatural
    <3>3. \A s \in Slot : s < m => Frames[s].at > 0
      BY <1>1, <3>2
    <3>4. CASE m = 1
      <4>1. Q(1)
        BY <1>1, <3>2, <3>4 DEF NoGaps, IsFilled
      <4>2. QED
        BY <1>1, <4>1
    <3>5. CASE m > 1
      <4>1. m - 1 \in Slot /\ m \in Slot /\ ~(Frames[m].at > 0)
        BY <1>1, <3>2, <3>5
      <4>2. Q(m - 1)
        BY <1>1, <3>3, <4>1 DEF IsFilled
      <4>3. QED
        BY <4>1, <4>2
    <3>6. QED
      BY <1>1, <3>2, <3>4, <3>5
  <2>3. QED
    BY <2>1, <2>2
<1>3. last_frame \in Slot /\ Q(last_frame)
  BY <1>2 DEF last_frame
<1> DEFINE L == last_frame
<1> HIDE DEF L
<1>4. L \in Slot /\ Q(L)
  BY <1>3 DEF L
<1>5. ASSUME NEW s \in Slot, Frames[s].at > 0 PROVE s <= L
  <2>1. SUFFICES ASSUME L < s PROVE FALSE
    BY <1>1, <1>4
  <2>2. L < WindowSize /\ L + 1 \in Slot /\ L + 1 <= s
    BY <1>1, <1>4, <2>1
  <2>3. Frames[L + 1].at > 0
    BY <1>1, <1>5, <2>2 DEF NoGaps
  <2>4. QED
    BY <1>4, <2>2, <2>3 DEF IsFilled
<1>6. ASSUME NEW s \in Slot, s <= L PROVE s = 1 \/ Frames[s].at > 0
  BY <1>1, <1>4, <1>6 DEF IsFilled
<1>7. QED
  BY <1>4, <1>5, <1>6 DEF L

(* What is processed is the oldest frame, or else the packet in slot 1. *)
LEMMA TheOldest ==
    ASSUME TypeOK, NoGaps(Frames)
    PROVE  /\ Oldest \in Slot
           /\ \/ /\ IsFrame(Oldest)
                 /\ \A s \in Slot : IsFrame(s)
                       => Frames[Oldest].loops <= Frames[s].loops
              \/ Oldest = 1 /\ \A s \in Slot : ~IsFrame(s)
<1> DEFINE found == {s \in 1 .. last_frame : IsFrame(s)}
           V == {Frames[s].loops : s \in found}
<1>1. /\ \A s : s \in Slot <=> s \in Nat /\ 1 <= s /\ s <= WindowSize
      /\ WindowSize \in Nat /\ WindowSize >= 1
  BY WindowSizes DEF Slot
<1>2. \A s \in Slot : /\ Frames[s].loops \in Nat
                      /\ IsFrame(s) => Frames[s].at > 0
  BY Contents, Numbers DEF TypeOK, IsFrame
<1>3. \A s : s \in found <=> s \in Slot /\ IsFrame(s)
  BY <1>1, <1>2, LastFrame
<1>4. CASE found = {}
  BY <1>1, <1>3, <1>4 DEF Oldest
<1>5. CASE found # {}
  <2> HIDE DEF found
  <2>1. V \in SUBSET Nat /\ V # {}
    BY <1>2, <1>3, <1>5
  <2>2. PICK v \in V : \A u \in V : v <= u
    BY <2>1, LeastNatural
  <2>3. PICK m \in found : Frames[m].loops = v
    BY <2>2
  <2>4. \A r \in found : Frames[m].loops <= Frames[r].loops
    BY <2>2, <2>3
  <2>5. Oldest = CHOOSE s \in found :
                    \A r \in found : Frames[s].loops <= Frames[r].loops
    BY <1>5 DEF Oldest, found
  <2>6. /\ Oldest \in found
        /\ \A r \in found : Frames[Oldest].loops <= Frames[r].loops
    BY <2>4, <2>5
  <2>7. QED
    BY <1>3, <2>6
<1>6. QED
  BY <1>4, <1>5

-----------------------------------------------------------------------------
(* The steps.                                                              *)

(* An invariant window, and the rest of the invariant. *)
LEMMA IInvSplit ==
    /\ IInv => TypeOK /\ Sound(Frames) /\ Arrivals /\ Reading
    /\ TypeOK' /\ Sound(Frames)' /\ Arrivals' /\ Reading' => IInv'
<1>1. IInv => TypeOK /\ Sound(Frames) /\ Arrivals /\ Reading
  BY WindowSound DEF IInv
<1>2. TypeOK' /\ Sound(Frames)' => NoGaps(Frames)' /\ WaitingIsNewer' /\ KeepsPlace'
  BY DEF TypeOK, Sound, Distinct, Newer, InPlace, WaitingIsNewer, KeepsPlace,
         IsFrame, IsFilled, IsUnidentifiable
<1>3. QED
  BY <1>1, <1>2 DEF IInv

LEMMA ArriveIInv ==
    ASSUME IInv, Arrive
    PROVE  IInv'
<1>1. TypeOK /\ Sound(Frames) /\ Arrivals /\ Reading
  BY IInvSplit
<1>2. PICK l \in 0 .. MaxLoops :
          socket' = Append(socket, [loops |-> l, at |-> arrived'])
  BY DEF Arrive
<1> DEFINE p == [loops |-> l, at |-> arrived']
<1>3. /\ arrived \in Nat /\ arrived' = arrived + 1 /\ arrived' \in 0 .. MaxArrivals
      /\ p \in Packet /\ p.at = arrived + 1
  BY <1>1, Numbers DEF Arrive, TypeOK, Packet
<1>4. UNCHANGED <<Frames, pc, i, oldest_frame, last_loops, newest, done>>
  BY DEF Arrive
<1> HIDE DEF p
<1>5. /\ socket \in Seq(Packet) /\ socket' \in Seq(Packet)
      /\ Len(socket) \in Nat /\ Len(socket') = Len(socket) + 1
      /\ socket'[Len(socket) + 1] = p
      /\ \A j \in 1 .. Len(socket) : socket'[j] = socket[j]
  BY <1>1, <1>2, <1>3 DEF TypeOK, p
<1>6. /\ \A j \in 1 .. Len(socket) : socket[j].at \in Nat
      /\ \A s \in Slot : Frames[s].at \in Nat
      /\ done.at \in Nat
  <2>1. \A j \in 1 .. Len(socket) : socket[j] \in Packet
    BY <1>5
  <2>2. \A j \in 1 .. Len(socket) : socket[j].at \in Nat
    BY <2>1, Numbers DEF Packet
  <2>3. \A s \in Slot : Frames[s].at \in Nat
    BY <1>1, Contents, Numbers DEF TypeOK
  <2>4. done.at \in Nat
    BY <1>1, Numbers DEF TypeOK, Packet, Empty
  <2>5. QED
    BY <2>2, <2>3, <2>4
<1>7. TypeOK'
  BY <1>1, <1>3, <1>4, <1>5 DEF TypeOK
<1>8. Arrivals'
  <2>1. ASSUME NEW j \in 1 .. Len(socket')
        PROVE  \/ j \in 1 .. Len(socket) /\ socket'[j] = socket[j]
               \/ j = Len(socket) + 1 /\ socket'[j] = p
    BY <1>5
  <2>2. \A j, k \in 1 .. Len(socket') : j < k => socket'[j].at < socket'[k].at
    <3> SUFFICES ASSUME NEW j \in 1 .. Len(socket'), NEW k \in 1 .. Len(socket'), j < k
                 PROVE  socket'[j].at < socket'[k].at
      OBVIOUS
    <3>1. j \in 1 .. Len(socket) /\ socket'[j] = socket[j]
      BY <1>5
    <3>2. CASE k = Len(socket) + 1
      <4>1. socket[j].at <= arrived
        BY <1>1, <3>1 DEF Arrivals
      <4>2. socket'[k].at = arrived + 1
        BY <1>3, <1>5, <3>2
      <4>3. QED
        BY <1>3, <1>6, <3>1, <4>1, <4>2
    <3>3. CASE k # Len(socket) + 1
      <4>1. k \in 1 .. Len(socket) /\ socket'[k] = socket[k]
        BY <1>5, <3>3
      <4>2. QED
        BY <1>1, <3>1, <4>1 DEF Arrivals
    <3>4. QED
      BY <3>2, <3>3
  <2>3. \A j \in 1 .. Len(socket') :
          /\ socket'[j].at <= arrived'
          /\ done'.at < socket'[j].at
          /\ \A s \in Slot : Frames'[s].at < socket'[j].at
    BY SMTT(30), <1>1, <1>3, <1>4, <1>6, <2>1 DEF Arrivals
  <2>4. (\A s \in Slot : Frames'[s].at <= arrived') /\ done'.at <= arrived'
    BY <1>1, <1>3, <1>4, <1>6 DEF Arrivals
  <2>5. QED
    BY <2>2, <2>3, <2>4 DEF Arrivals
<1>9. Sound(Frames)' /\ Reading'
  BY <1>1, <1>4 DEF Sound, NoGaps, Distinct, Newer, InPlace, Reading, IsFrame
<1>10. QED
  BY <1>7, <1>8, <1>9, IInvSplit

(* The steps that change none of the packets. *)
LEMMA StayIInv ==
    ASSUME IInv, Start \/ Already_unidentifiable \/ Read_nothing \/ UNCHANGED vars
    PROVE  IInv'
<1>1. TypeOK /\ Sound(Frames) /\ Arrivals /\ Reading
  BY IInvSplit
<1>2. UNCHANGED <<socket, arrived, Frames, last_loops, newest, done>>
  BY DEF Start, Already_unidentifiable, Read_nothing, vars
<1>3. Sound(Frames)' /\ Arrivals'
  BY <1>1, <1>2 DEF Sound, NoGaps, Distinct, Newer, InPlace, Arrivals
<1>4. TypeOK' /\ Reading'
  <2>1. CASE Start
    <3>1. 1 \in Slot /\ \A s \in Slot : ~(s < 1)
      BY WindowSizes DEF Slot
    <3>2. QED
      BY <1>1, <1>2, <2>1, <3>1 DEF Start, TypeOK, Reading
  <2>2. CASE Already_unidentifiable
    BY <1>1, <1>2, <2>2 DEF Already_unidentifiable, TypeOK, Reading
  <2>3. CASE Read_nothing
    BY <1>1, <1>2, <2>3 DEF Read_nothing, TypeOK, Reading
  <2>4. CASE UNCHANGED vars
    BY <1>1, <1>2, <2>4 DEF vars, TypeOK, Reading, IsFrame
  <2>5. QED
    BY <2>1, <2>2, <2>3, <2>4
<1>5. QED
  BY <1>3, <1>4, IInvSplit

(* The oldest slot so far, with the slot looked at. *)
LEMMA Already_frameIterates ==
    ASSUME IInv, Already_frame
    PROVE  \E o \in Slot :
              /\ o <= i /\ \A s \in Slot : s <= i => Frames[o].loops <= Frames[s].loops
              /\ Iterated(Frames, o)
              /\ \A s \in Slot : s <= i => Frames[s].loops > 0
<1>1. /\ TypeOK /\ Reading /\ pc = "reading"
      /\ i \in Slot /\ oldest_frame \in Slot
  BY DEF IInv, TypeOK, Already_frame
<1>2. /\ \A s \in Slot : s \in Nat /\ s >= 1
      /\ \A s \in Slot : Frames[s].loops \in Nat
  BY <1>1, Contents, Numbers DEF TypeOK
<1>3. /\ \A s \in Slot : s < i => Frames[s].loops > 0
      /\ \A s \in Slot : s < i => Frames[oldest_frame].loops <= Frames[s].loops
      /\ oldest_frame <= i
      /\ i > 1 => oldest_frame < i
      /\ Frames[i].loops > 0
  BY <1>1 DEF Reading, IsFrame, Already_frame
<1> DEFINE oldest == Frames[oldest_frame].loops
           o == IF Frames[i].loops < oldest \/ oldest = 0 THEN i ELSE oldest_frame
<1>4. Iterated(Frames, o)
  BY DEF Already_frame
<1>5. o \in Slot /\ o <= i
  BY <1>1, <1>2, <1>3
<1>6. \A s \in Slot : s <= i => s < i \/ s = i
  BY <1>1, <1>2
<1>7. oldest > 0
  BY <1>1, <1>2, <1>3
<1>8. \A s \in Slot : s <= i => Frames[o].loops <= Frames[s].loops
  BY <1>1, <1>2, <1>3, <1>6, <1>7
<1>9. \A s \in Slot : s <= i => Frames[s].loops > 0
  BY <1>3, <1>6
<1> HIDE DEF o
<1>10. QED
  BY <1>4, <1>5, <1>8, <1>9

LEMMA Already_frameIInv ==
    ASSUME IInv, Already_frame
    PROVE  IInv'
<1>1. TypeOK /\ Sound(Frames) /\ Arrivals /\ Reading
  BY IInvSplit
<1>2. PICK o \in Slot :
              /\ o <= i /\ \A s \in Slot : s <= i => Frames[o].loops <= Frames[s].loops
              /\ Iterated(Frames, o)
              /\ \A s \in Slot : s <= i => Frames[s].loops > 0
  BY Already_frameIterates
<1>3. /\ i \in Slot /\ pc = "reading"
      /\ UNCHANGED <<socket, arrived, last_loops, newest, done>>
  BY <1>1 DEF TypeOK, Already_frame
<1>4. /\ Sound(Frames)' /\ Reading'
      /\ pc' \in {"reading", "process"}
      /\ i' \in Slot /\ oldest_frame' \in Slot
      /\ \/ Frames' = Frames
         \/ Dropped(Frames, o, Frames')
  BY <1>1, <1>2, <1>3, IteratedDoes
<1>5. TypeOK'
  BY <1>1, <1>3, <1>4 DEF TypeOK, Sound
<1>6. \A s \in Slot : Frames'[s] = Empty \/ \E r \in Slot : Frames'[s] = Frames[r]
  <2>1. WindowSize \in Slot
    BY WindowSizes DEF Slot
  <2>2. QED
    BY <1>4, <2>1 DEF Dropped
<1>7. Arrivals'
  <2>1. \A j \in 1 .. Len(socket) : socket[j].at > 0
    <3>1. \A j \in 1 .. Len(socket) : socket[j] \in Packet
      BY <1>1 DEF TypeOK
    <3>2. QED
      BY <3>1, Numbers DEF Packet
  <2>2. arrived >= 0
    BY <1>1, Numbers DEF TypeOK
  <2>3. QED
    BY <1>1, <1>3, <1>6, <2>1, <2>2, Numbers DEF Arrivals
<1>8. QED
  BY <1>4, <1>5, <1>7, IInvSplit

LEMMA Read_unidentifiableIInv ==
    ASSUME IInv, Read_unidentifiable
    PROVE  IInv'
<1> DEFINE w == [Frames EXCEPT ![i] = Head(socket)]
<1>1. TypeOK /\ Sound(Frames) /\ Arrivals /\ Reading
  BY IInvSplit
<1>2. /\ Frames' = w /\ socket' = Tail(socket) /\ pc' = "process"
      /\ UNCHANGED <<arrived, i, oldest_frame, last_loops, newest, done>>
  BY DEF Read_unidentifiable
<1>3. /\ Sound(w)
      /\ \A s \in Slot : w[s].at \in Nat /\ w[s].at <= Head(socket).at
  BY ReadSound DEF Read_unidentifiable
<1>4. Tail(socket) \in Seq(Packet)
  BY <1>1, HeadOfSocket DEF Read_unidentifiable
<1> HIDE DEF w
<1>5. Sound(Frames)' /\ Reading'
  BY <1>2, <1>3 DEF Sound, NoGaps, Distinct, Newer, InPlace, Reading
<1>6. TypeOK'
  BY <1>1, <1>2, <1>3, <1>4 DEF TypeOK, Sound
<1>7. Arrivals'
  BY <1>1, <1>2, <1>3, TailArrives DEF Read_unidentifiable
<1>8. QED
  BY <1>5, <1>6, <1>7, IInvSplit

LEMMA Read_staleIInv ==
    ASSUME IInv, Read_stale
    PROVE  IInv'
<1>1. TypeOK /\ Sound(Frames) /\ Arrivals /\ Reading
  BY IInvSplit
<1>2. /\ socket' = Tail(socket) /\ socket # <<>>
      /\ UNCHANGED <<arrived, Frames, pc, i, oldest_frame, last_loops, newest, done>>
  BY DEF Read_stale
<1>3. /\ Tail(socket) \in Seq(Packet)
      /\ Head(socket) \in Packet
      /\ \A s \in Slot : Frames[s].at < Head(socket).at
  BY <1>1, <1>2, HeadOfSocket
<1>4. Sound(Frames)' /\ Reading' /\ TypeOK'
  BY <1>1, <1>2, <1>3
     DEF Sound, NoGaps, Distinct, Newer, InPlace, Reading, IsFrame, TypeOK
<1>5. \A s \in Slot : Frames'[s].at \in Nat /\ Frames'[s].at <= Head(socket).at
  <2>1. /\ Head(socket).at \in Nat
        /\ \A s \in Slot : Frames[s].at \in Nat
    BY <1>1, <1>3, Contents, Numbers DEF TypeOK, Packet
  <2>2. QED
    BY <1>2, <1>3, <2>1
<1>6. Arrivals'
  BY <1>1, <1>2, <1>5, TailArrives
<1>7. QED
  BY <1>4, <1>6, IInvSplit

LEMMA Read_frameIterates ==
    ASSUME IInv, Read_frame
    PROVE  LET w == [Frames EXCEPT ![i] = Head(socket)] IN
           /\ Sound(w)
           /\ w[i] = Head(socket) /\ \A s \in Slot \ {i} : w[s] = Frames[s]
           /\ \A s \in Slot : w[s].at \in Nat /\ w[s].at <= Head(socket).at
           /\ \A s \in Slot : s <= i => w[s].loops > 0
           /\ \E o \in Slot :
                 /\ o <= i /\ \A s \in Slot : s <= i => w[o].loops <= w[s].loops
                 /\ Iterated(w, o)
<1> DEFINE w == [Frames EXCEPT ![i] = Head(socket)]
           o == IF w[i].loops < w[oldest_frame].loops THEN i ELSE oldest_frame
<1>1. /\ TypeOK /\ Reading /\ pc = "reading"
      /\ i \in Slot /\ oldest_frame \in Slot
  BY DEF IInv, TypeOK, Read_frame, Reads
<1>2. /\ Sound(w)
      /\ w[i] = Head(socket) /\ \A s \in Slot \ {i} : w[s] = Frames[s]
      /\ \A s \in Slot : w[s].at \in Nat /\ w[s].at <= Head(socket).at
  BY ReadSound DEF Read_frame
<1>3. Iterated(w, o)
  BY DEF Read_frame
<1>4. Head(socket).loops > 0
  BY DEF Read_frame
<1> HIDE DEF w
<1>5. /\ \A s \in Slot : s \in Nat /\ s >= 1
      /\ \A s \in Slot : w[s].loops \in Nat
  BY <1>2, Contents, Numbers DEF Sound
<1>6. /\ \A s \in Slot : s < i => w[s].loops > 0
      /\ \A s \in Slot : s < i => Frames[oldest_frame].loops <= w[s].loops
      /\ oldest_frame <= i
      /\ i > 1 => oldest_frame < i
  BY <1>1, <1>2, <1>5 DEF Reading, IsFrame
<1>7. o \in Slot /\ o <= i
  BY <1>1, <1>5, <1>6
<1>8. \A s \in Slot : s <= i => s < i \/ s = i
  BY <1>1, <1>5
<1>9. \A s \in Slot : s <= i => w[o].loops <= w[s].loops
  <2>1. CASE i = 1
    <3>1. \A s \in Slot : s <= i => s = 1
      BY <1>5, <2>1
    <3>2. o = 1
      BY <1>1, <1>5, <1>7, <3>1
    <3>3. QED
      BY <1>1, <1>5, <2>1, <3>1, <3>2
  <2>2. CASE i > 1
    <3>1. w[oldest_frame] = Frames[oldest_frame]
      BY <1>1, <1>2, <1>5, <1>6, <2>2
    <3>2. QED
      BY <1>1, <1>2, <1>5, <1>6, <1>8, <3>1
  <2>3. QED
    BY <1>1, <1>5, <2>1, <2>2
<1>10. \A s \in Slot : s <= i => w[s].loops > 0
  BY <1>2, <1>4, <1>6, <1>8
<1> HIDE DEF o
<1>11. QED
  BY <1>2, <1>3, <1>7, <1>9, <1>10 DEF w

LEMMA Read_frameIInv ==
    ASSUME IInv, Read_frame
    PROVE  IInv'
<1> DEFINE w == [Frames EXCEPT ![i] = Head(socket)]
<1>1. TypeOK /\ Sound(Frames) /\ Arrivals /\ Reading
  BY IInvSplit
<1>2. /\ Sound(w)
      /\ \A s \in Slot : w[s].at \in Nat /\ w[s].at <= Head(socket).at
      /\ \A s \in Slot : s <= i => w[s].loops > 0
      /\ \E o \in Slot :
            /\ o <= i /\ \A s \in Slot : s <= i => w[o].loops <= w[s].loops
            /\ Iterated(w, o)
  BY Read_frameIterates
<1> HIDE DEF w
<1>3. PICK o \in Slot :
            /\ o <= i /\ \A s \in Slot : s <= i => w[o].loops <= w[s].loops
            /\ Iterated(w, o)
  BY <1>2
<1>4. /\ i \in Slot /\ pc = "reading" /\ socket # <<>>
      /\ socket' = Tail(socket)
      /\ UNCHANGED <<arrived, last_loops, done>>
      /\ newest' \in {Head(socket).loops, newest}
  BY <1>1 DEF TypeOK, Read_frame, Reads
<1>5. /\ Sound(Frames)' /\ Reading'
      /\ pc' \in {"reading", "process"}
      /\ i' \in Slot /\ oldest_frame' \in Slot
      /\ \/ Frames' = w
         \/ Dropped(w, o, Frames')
  BY <1>2, <1>3, <1>4, IteratedDoes
<1>6. Head(socket) \in Packet /\ Tail(socket) \in Seq(Packet)
  BY <1>1, <1>4, HeadOfSocket
<1>7. TypeOK'
  <2>1. newest' \in 0 .. MaxLoops
    BY <1>1, <1>4, <1>6 DEF TypeOK, Packet
  <2>2. Frames' \in [Slot -> Packet \cup {Empty}]
    BY <1>5 DEF Sound
  <2>3. QED
    BY <1>1, <1>4, <1>5, <1>6, <2>1, <2>2 DEF TypeOK
<1>8. \A s \in Slot : Frames'[s] = Empty \/ \E r \in Slot : Frames'[s] = w[r]
  <2>1. WindowSize \in Slot
    BY WindowSizes DEF Slot
  <2>2. QED
    BY <1>5, <2>1 DEF Dropped
<1>9. \A s \in Slot : Frames'[s].at \in Nat /\ Frames'[s].at <= Head(socket).at
  <2>1. Head(socket).at \in Nat
    BY <1>6, Numbers DEF Packet
  <2>2. QED
    BY <1>2, <1>8, <2>1, Numbers
<1>10. Arrivals'
  BY <1>1, <1>4, <1>9, TailArrives
<1>11. QED
  BY <1>5, <1>7, <1>10, IInvSplit

(* What Process does: the last packet takes the place of the oldest one. *)
LEMMA ProcessDoes ==
    ASSUME IInv, Process, IsFilled(Oldest)
    PROVE  \E L \in Slot :
              /\ \A s \in Slot : Frames[s].at > 0 <=> s <= L
              /\ Oldest <= L
              /\ Frames' \in [Slot -> Packet \cup {Empty}]
              /\ \A s \in Slot : Frames'[s] = IF s = L THEN Empty
                                              ELSE IF s = Oldest THEN Frames[L]
                                              ELSE Frames[s]
<1> DEFINE L == last_frame
           o == Oldest
<1>1. TypeOK /\ NoGaps(Frames)
  BY DEF IInv
<1>2. /\ L \in Slot
      /\ \A s \in Slot : Frames[s].at > 0 => s <= L
      /\ \A s \in Slot : s <= L => s = 1 \/ Frames[s].at > 0
  BY <1>1, LastFrame
<1>3. o \in Slot /\ Frames[o].at > 0
  BY <1>1, TheOldest DEF IsFilled
<1>4. Frames' = [Frames EXCEPT ![o] = Frames[L], ![L] = Empty]
  BY DEF Process
<1> HIDE DEF L, o
<1>5. Frames[1].at > 0 /\ 1 \in Slot
  <2>1. 1 \in Slot /\ \A s \in Slot : s = 1 \/ 1 < s
    BY WindowSizes DEF Slot
  <2>2. QED
    BY <1>1, <1>3, <2>1 DEF NoGaps
<1>6. \A s \in Slot : Frames[s].at > 0 <=> s <= L
  BY <1>2, <1>5
<1>7. /\ Frames' \in [Slot -> Packet \cup {Empty}]
      /\ \A s \in Slot : Frames'[s] = IF s = L THEN Empty
                                      ELSE IF s = o THEN Frames[L] ELSE Frames[s]
  BY <1>1, <1>2, <1>3, <1>4 DEF TypeOK
<1>8. o <= L
  BY <1>3, <1>6
<1>9. QED
  BY <1>2, <1>6, <1>7, <1>8 DEF o

LEMMA ProcessIInv ==
    ASSUME IInv, Process
    PROVE  IInv'
<1>1. TypeOK /\ Sound(Frames) /\ Arrivals /\ Reading
  BY IInvSplit
<1>2. /\ pc' = "idle" /\ UNCHANGED <<socket, arrived, i, oldest_frame, newest>>
  BY DEF Process
<1>3. CASE ~IsFilled(Oldest)
  <2>1. UNCHANGED <<Frames, last_loops, done>>
    BY <1>3 DEF Process
  <2>2. QED
    BY <1>1, <1>2, <2>1, IInvSplit
       DEF TypeOK, Sound, NoGaps, Distinct, Newer, InPlace, Arrivals, Reading
<1>4. CASE IsFilled(Oldest)
  <2> DEFINE o == Oldest
             l == Frames[o].loops
  <2>1. /\ done' = Frames[o]
        /\ last_loops' = IF l > last_loops THEN l ELSE last_loops
    BY <1>4 DEF Process
  <2>2. PICK L \in Slot :
              /\ \A s \in Slot : Frames[s].at > 0 <=> s <= L
              /\ o <= L
              /\ Frames' \in [Slot -> Packet \cup {Empty}]
              /\ \A s \in Slot : Frames'[s] = IF s = L THEN Empty
                                              ELSE IF s = o THEN Frames[L]
                                              ELSE Frames[s]
    BY <1>4, ProcessDoes
  <2>3. /\ o \in Slot /\ Frames[o].at > 0
        /\ \/ l > 0 /\ \A s \in Slot : Frames[s].loops > 0 => l <= Frames[s].loops
           \/ o = 1 /\ \A s \in Slot : ~(Frames[s].loops > 0)
    BY <1>1, <1>4, TheOldest DEF Sound, IsFrame, IsFilled
  <2> HIDE DEF o
  <2>4. /\ \A s \in Slot : /\ Frames[s].loops \in Nat /\ Frames[s].at \in Nat
                           /\ Frames[s].loops > 0 => Frames[s].at > 0
                           /\ Frames[s].loops \in 0 .. MaxLoops
                           /\ Frames[s].at > 0 => Frames[s] \in Packet
        /\ \A s \in Slot : s \in Nat /\ s >= 1
        /\ last_loops \in Nat
        /\ Empty.at = 0 /\ Empty.loops = 0
    BY <1>1, Contents, Numbers DEF TypeOK
  <2>5. TypeOK'
    BY <1>1, <1>2, <2>1, <2>2, <2>3, <2>4 DEF TypeOK
  <2>6. NoGaps(Frames)'
    <3>1. \A s \in Slot : Frames'[s].at > 0 => s < L
      BY <2>2, <2>4
    <3>2. \A s \in Slot : s < L => Frames'[s].at > 0
      BY <2>2, <2>4
    <3>3. QED
      BY <2>4, <3>1, <3>2 DEF NoGaps
  (* Only an unidentifiable packet is left, or the oldest is a frame. *)
  <2>7. Sound(Frames)'
    <3>1. CASE l > 0
      <4>1. last_loops' = l
        BY <1>1, <2>1, <2>3, <3>1 DEF Sound, Newer
      <4>2. \A s \in Slot \ {o} : Frames[s].loops > 0 => Frames[s].loops > l
        BY <1>1, <2>3, <2>4, <3>1 DEF Sound, Distinct
      <4>3. Newer(Frames)'
        BY <2>2, <2>3, <2>4, <4>1, <4>2 DEF Newer
      <4>4. Distinct(Frames)'
        BY <1>1, <2>2, <2>3, <2>4 DEF Sound, Distinct
      <4>5. \A s \in Slot : Frames[s].at > 0 /\ ~(Frames[s].loops > 0)
               => \A r \in Slot \ {s} : Frames[r].at > 0 => Frames[r].at < Frames[s].at
        BY <1>1 DEF Sound, InPlace
      <4>6. \A s \in Slot : Frames'[s].at > 0 /\ ~(Frames'[s].loops > 0)
               => done'.at < Frames'[s].at
                  /\ \A r \in Slot \ {s} : Frames'[r].at > 0
                        => Frames'[r].at < Frames'[s].at
        BY <2>1, <2>2, <2>3, <2>4, <3>1, <4>5
      <4>7. InPlace(Frames)'
        BY <2>1, <3>1, <4>6 DEF InPlace
      <4>8. QED
        BY <2>5, <2>6, <4>3, <4>4, <4>7 DEF Sound, TypeOK
    <3>2. CASE ~(l > 0)
      <4>1. o = 1 /\ \A s \in Slot : ~(Frames[s].loops > 0)
        BY <2>3, <3>2
      <4>2. \A s \in Slot : Frames[s].at > 0 => s = o
        BY <1>1, <2>3, <2>4, <4>1 DEF Sound, InPlace
      <4>3. \A s \in Slot : Frames'[s] = Empty \/ Frames'[s].at = 0
        BY <2>2, <2>3, <2>4, <4>1, <4>2
      <4>4. \A s \in Slot : ~(Frames'[s].at > 0) /\ ~(Frames'[s].loops > 0)
        BY <2>2, <2>4, <4>3, Contents
      <4>5. QED
        BY <2>5, <2>6, <4>4 DEF Sound, TypeOK, Distinct, Newer, InPlace
    <3>3. QED
      BY <3>1, <3>2
  <2>8. Arrivals'
    <3>1. \A s \in Slot : Frames'[s] = Empty \/ \E r \in Slot : Frames'[s] = Frames[r]
      BY <2>2
    <3>2. \A j \in 1 .. Len(socket) : socket[j].at > 0
      <4>1. \A j \in 1 .. Len(socket) : socket[j] \in Packet
        BY <1>1 DEF TypeOK
      <4>2. QED
        BY <4>1, Numbers DEF Packet
    <3>3. arrived >= 0
      BY <1>1, Numbers DEF TypeOK
    <3>4. QED
      BY <1>1, <1>2, <2>1, <2>3, <2>4, <3>1, <3>2, <3>3 DEF Arrivals
  <2>9. Reading'
    BY <1>2 DEF Reading
  <2>10. QED
    BY <2>5, <2>7, <2>8, <2>9, IInvSplit
<1>5. QED
  BY <1>3, <1>4

LEMMA InitIInv == Init => IInv
<1> SUFFICES ASSUME Init PROVE IInv
  OBVIOUS
<1>1. /\ socket = <<>> /\ Len(socket) = 0 /\ arrived = 0
      /\ \A s \in Slot : Frames[s] = Empty
      /\ Frames = [s \in Slot |-> Empty]
      /\ pc = "idle" /\ i = 1 /\ oldest_frame = 1 /\ last_loops = 0 /\ newest = 0
      /\ done = Empty
  BY DEF Init
<1>2. TypeOK
  <2>1. <<>> \in Seq(Packet) /\ 1 \in Slot
    BY WindowSizes DEF Slot
  <2>2. QED
    BY <1>1, <2>1, Numbers DEF TypeOK
<1>3. Sound(Frames)
  BY <1>1, <1>2, Numbers DEF TypeOK, Sound, NoGaps, Distinct, Newer, InPlace
<1>4. Arrivals /\ Reading
  BY <1>1, Numbers DEF Arrivals, Reading
<1>5. QED
  BY <1>2, <1>3, <1>4, WindowSound DEF IInv

LEMMA StepIInv == IInv /\ [Next]_vars => IInv'
<1> SUFFICES ASSUME IInv, [Next]_vars PROVE IInv'
  OBVIOUS
<1>1. CASE Arrive
  BY <1>1, ArriveIInv
<1>2. CASE Net_input
  BY <1>2, StayIInv, Already_frameIInv, Read_unidentifiableIInv, Read_staleIInv,
     Read_frameIInv, ProcessIInv DEF Net_input
<1>3. CASE UNCHANGED vars
  BY <1>3, StayIInv
<1>4. QED
  BY <1>1, <1>2, <1>3 DEF Next

(* The strengthening holds in every state. *)
THEOREM Inductive == Spec => []IInv
BY InitIInv, StepIInv, PTL DEF Spec

(* Every variable has its type: i and oldest_frame are slots of the        *)
(* window, which last_frame and Oldest never leave.                        *)
THEOREM TypeCorrect == Spec => []TypeOK
BY Inductive, PTL DEF IInv

(* The frames that wait are newer than all that have been shown, and no    *)
(* two of them are the same: Net_input shows frames in order.              *)
THEOREM InOrder == Spec => []WaitingIsNewer
BY Inductive, PTL DEF IInv

(* An unidentifiable packet keeps its place among the packets that have    *)
(* arrived.                                                                *)
THEOREM PlaceKept == Spec => []KeepsPlace
BY Inductive, PTL DEF IInv

-----------------------------------------------------------------------------
(* What is dropped.                                                        *)

Excused(p) ==
    /\ p.loops > 0
    /\ \/ p.loops <= last_loops
       \/ \E f \in Window : f # p /\ f.loops = p.loops
       \/ /\ \A f \in Window' : f.loops > 0 => f.loops > p.loops
          /\ \E f \in Window' : f.loops > p.loops

(* Only the oldest packet leaves a full window. *)
LEMMA OldestLeaves ==
    ASSUME NEW w, Sound(w), AllFrames(w), WindowSize > 1,
           NEW o \in Slot, \A s \in Slot : w[o].loops <= w[s].loops,
           Dropped(w, o, Frames'), NEW s \in Slot, w[s] \notin Window'
    PROVE  Excused(w[s])
<1>1. /\ WindowSize \in Slot /\ 1 \in Slot /\ 1 # WindowSize
      /\ Empty.loops = 0
  BY WindowSizes, Numbers DEF Slot
<1>2. \A t \in Slot : w[t].loops \in Nat /\ w[t].loops > 0 /\ w[t] # Empty
  BY <1>1, Contents, Numbers DEF Sound, AllFrames
<1>3. \A t \in Slot : Frames'[t] = IF t = WindowSize THEN Empty
                                   ELSE IF t = o THEN w[WindowSize] ELSE w[t]
  BY DEF Dropped
<1>4. \A f : f \in Window' <=> f # Empty /\ \E t \in Slot : f = Frames'[t]
  BY DEF Window
<1>5. s = o
  BY <1>1, <1>2, <1>3, <1>4
<1>6. \A t \in Slot : t # o => w[t].loops > w[o].loops
  BY <1>2 DEF Sound, Distinct
<1>7. \A f \in Window' : f.loops > w[s].loops
  BY <1>1, <1>3, <1>4, <1>5, <1>6
<1>8. Frames'[1] \in Window'
  BY <1>1, <1>2, <1>3, <1>4
<1>9. QED
  BY <1>2, <1>7, <1>8 DEF Excused

LEMMA InSocket ==
    ASSUME TypeOK, socket # <<>>, socket' = Tail(socket)
    PROVE  /\ Range(socket) = Range(socket') \cup {Head(socket)}
           /\ Head(socket) \in Packet
<1>1. /\ socket \in Seq(Packet) /\ Len(socket) \in Nat /\ Len(socket) > 0
      /\ socket' \in Seq(Packet)
      /\ Len(socket') = Len(socket) - 1
      /\ \A j \in 1 .. Len(socket) - 1 : socket'[j] = socket[j + 1]
      /\ Head(socket) = socket[1] /\ Head(socket) \in Packet
  BY DEF TypeOK
<1>2. DOMAIN socket = 1 .. Len(socket) /\ DOMAIN socket' = 1 .. Len(socket) - 1
  BY <1>1
<1>3. ASSUME NEW p \in Range(socket)
      PROVE  p \in Range(socket') \cup {Head(socket)}
  <2>1. PICK j \in 1 .. Len(socket) : p = socket[j]
    BY <1>2 DEF Range
  <2>2. CASE j = 1
    BY <1>1, <2>1, <2>2
  <2>3. CASE j # 1
    <3>1. j - 1 \in 1 .. Len(socket) - 1 /\ (j - 1) + 1 = j
      BY <1>1, <2>3
    <3>2. p = socket'[j - 1]
      BY <1>1, <2>1, <3>1
    <3>3. QED
      BY <1>2, <3>1, <3>2 DEF Range
  <2>4. QED
    BY <2>2, <2>3
<1>4. ASSUME NEW p \in Range(socket') \cup {Head(socket)}
      PROVE  p \in Range(socket)
  <2>1. CASE p = Head(socket)
    BY <1>1, <1>2, <2>1 DEF Range
  <2>2. CASE p \in Range(socket')
    <3>1. PICK j \in 1 .. Len(socket) - 1 : p = socket'[j]
      BY <1>2, <2>2 DEF Range
    <3>2. j + 1 \in 1 .. Len(socket)
      BY <1>1
    <3>3. QED
      BY <1>1, <1>2, <3>1, <3>2 DEF Range
  <2>3. QED
    BY <2>1, <2>2
<1>5. QED
  BY <1>1, <1>3, <1>4

LEMMA StepDropsOldest ==
    ASSUME IInv, [Next]_vars, NEW p \in Held \ (Held' \cup {done'})
    PROVE  Excused(p)
<1>1. TypeOK /\ Sound(Frames) /\ Arrivals /\ Reading
  BY IInvSplit
<1>2. /\ \A f : f \in Window <=> f # Empty /\ \E s \in Slot : f = Frames[s]
      /\ \A f : f \in Window' <=> f # Empty /\ \E s \in Slot : f = Frames'[s]
      /\ p \in Window \/ p \in Range(socket)
      /\ p \notin Window' /\ p \notin Range(socket') /\ p # done'
  BY DEF Held, Window
<1>3. CASE UNCHANGED <<Frames, socket>>
  BY <1>2, <1>3
<1>4. CASE Arrive
  <2>1. PICK q : socket' = Append(socket, q)
    BY <1>4 DEF Arrive
  <2>2. q \in Packet
    <3>1. PICK l \in 0 .. MaxLoops :
              socket' = Append(socket, [loops |-> l, at |-> arrived + 1])
      BY <1>4 DEF Arrive
    <3>2. /\ socket \in Seq(Packet)
          /\ [loops |-> l, at |-> arrived + 1] \in Packet
      BY <1>1, <1>4, Numbers DEF Arrive, TypeOK, Packet
    <3>3. q = [loops |-> l, at |-> arrived + 1]
      <4>1. Append(socket, q)[Len(socket) + 1] = q
        BY <3>2
      <4>2. Append(socket, [loops |-> l, at |-> arrived + 1])[Len(socket) + 1]
              = [loops |-> l, at |-> arrived + 1]
        BY <3>2
      <4>3. QED
        BY <2>1, <3>1, <4>1, <4>2
    <3>4. QED
      BY <3>2, <3>3
  <2>3. Range(socket) \subseteq Range(socket')
    <3>1. /\ socket \in Seq(Packet) /\ Len(socket) \in Nat
          /\ Len(socket') = Len(socket) + 1
          /\ socket' \in Seq(Packet)
          /\ \A j \in 1 .. Len(socket) : socket'[j] = socket[j]
      BY <1>1, <2>1, <2>2 DEF TypeOK
    <3>2. DOMAIN socket = 1 .. Len(socket) /\ DOMAIN socket' = 1 .. Len(socket) + 1
      BY <3>1
    <3>3. QED
      BY <3>1, <3>2 DEF Range
  <2>4. Frames' = Frames
    BY <1>4 DEF Arrive
  <2>5. QED
    BY <1>2, <2>3, <2>4
<1>5. CASE Already_frame
  <2>1. PICK o \in Slot :
              /\ o <= i /\ \A s \in Slot : s <= i => Frames[o].loops <= Frames[s].loops
              /\ Iterated(Frames, o)
              /\ \A s \in Slot : s <= i => Frames[s].loops > 0
    BY <1>5, Already_frameIterates
  <2>2. /\ i \in Slot /\ pc = "reading"
        /\ UNCHANGED <<socket, last_loops, done>>
    BY <1>1, <1>5 DEF TypeOK, Already_frame
  <2>3. \/ Frames' = Frames
        \/ AllFrames(Frames) /\ WindowSize > 1 /\ Dropped(Frames, o, Frames')
           /\ \A s \in Slot : Frames[o].loops <= Frames[s].loops
    BY <1>1, <2>1, <2>2, IteratedDoes
  <2>4. QED
    BY <1>1, <1>2, <2>2, <2>3, OldestLeaves
<1>6. CASE Read_unidentifiable
  <2> DEFINE w == [Frames EXCEPT ![i] = Head(socket)]
  <2>1. /\ i \in Slot /\ Frames[i] = Empty /\ Frames' = w
        /\ w[i] = Head(socket) /\ \A s \in Slot \ {i} : w[s] = Frames[s]
    <3>1. ~(Frames[i].at > 0) /\ Frames' = w
      BY <1>6 DEF Read_unidentifiable, Reads, IsFilled
    <3>2. QED
      BY <1>1, <3>1, Contents, Numbers DEF TypeOK
  <2>2. /\ Range(socket) = Range(socket') \cup {Head(socket)}
        /\ Head(socket) # Empty
    BY <1>1, <1>6, InSocket, Numbers DEF Read_unidentifiable, Packet
  <2> HIDE DEF w
  <2>3. QED
    BY <1>2, <2>1, <2>2
<1>7. CASE Read_stale
  <2>1. /\ socket # <<>> /\ socket' = Tail(socket) /\ Frames' = Frames
        /\ Head(socket).loops > 0 /\ IsStale(Head(socket).loops)
    BY <1>7 DEF Read_stale
  <2>2. Range(socket) = Range(socket') \cup {Head(socket)}
    BY <1>1, <2>1, InSocket
  <2>3. p = Head(socket)
    BY <1>2, <2>1, <2>2
  <2>4. CASE p.loops <= last_loops
    BY <2>1, <2>3, <2>4 DEF Excused
  <2>5. CASE \E j \in 1 .. i - 1 : Frames[j].loops = p.loops
    <3>1. PICK j \in 1 .. i - 1 : Frames[j].loops = p.loops
      BY <2>5
    <3>2. j \in Slot
      BY <1>1, WindowSizes DEF TypeOK, Slot
    <3>3. Frames[j].at < p.at /\ p.at \in Nat
      BY <1>1, <2>1, <2>3, <3>2, HeadOfSocket, Numbers DEF Packet
    <3>4. Frames[j] # p /\ Frames[j] # Empty
      BY <2>1, <2>3, <3>1, <3>3, Numbers
    <3>5. QED
      BY <1>2, <2>1, <2>3, <3>1, <3>2, <3>4 DEF Excused
  <2>6. QED
    BY <2>1, <2>3, <2>4, <2>5 DEF IsStale
<1>8. CASE Read_frame
  <2> DEFINE w == [Frames EXCEPT ![i] = Head(socket)]
  <2>1. /\ Sound(w)
        /\ w[i] = Head(socket) /\ \A s \in Slot \ {i} : w[s] = Frames[s]
        /\ \A s \in Slot : s <= i => w[s].loops > 0
        /\ \E o \in Slot :
              /\ o <= i /\ \A s \in Slot : s <= i => w[o].loops <= w[s].loops
              /\ Iterated(w, o)
    BY <1>8, Read_frameIterates
  <2>2. /\ i \in Slot /\ Frames[i] = Empty
    <3>1. ~(Frames[i].at > 0)
      BY <1>8 DEF Read_frame, Reads, IsFilled
    <3>2. QED
      BY <1>1, <3>1, Contents, Numbers DEF TypeOK
  <2>3. /\ pc = "reading" /\ socket # <<>> /\ socket' = Tail(socket)
        /\ UNCHANGED <<last_loops, done>>
    BY <1>8 DEF Read_frame, Reads
  <2> HIDE DEF w
  <2>4. PICK o \in Slot :
              /\ o <= i /\ \A s \in Slot : s <= i => w[o].loops <= w[s].loops
              /\ Iterated(w, o)
    BY <2>1
  <2>5. \/ Frames' = w
        \/ AllFrames(w) /\ WindowSize > 1 /\ Dropped(w, o, Frames')
           /\ \A s \in Slot : w[o].loops <= w[s].loops
    BY <2>1, <2>2, <2>3, <2>4, IteratedDoes
  <2>6. \E s \in Slot : p = w[s]
    <3>1. Range(socket) = Range(socket') \cup {Head(socket)}
      BY <1>1, <2>3, InSocket
    <3>2. QED
      BY <1>2, <2>1, <2>2, <3>1
  <2>7. p # Empty
    <3>1. p \in Range(socket) => p \in Packet
      BY <1>1 DEF TypeOK, Range
    <3>2. Empty \notin Packet
      BY Numbers DEF Packet
    <3>3. QED
      BY <1>2, <3>1, <3>2
  <2>8. QED
    BY <1>2, <2>1, <2>5, <2>6, <2>7, OldestLeaves
<1>9. CASE Process
  <2>1. socket' = socket
    BY <1>9 DEF Process
  <2>2. CASE ~IsFilled(Oldest)
    BY <1>3, <1>9, <2>1, <2>2 DEF Process
  <2>3. CASE IsFilled(Oldest)
    <3>1. done' = Frames[Oldest]
      BY <1>9, <2>3 DEF Process
    <3>2. PICK L \in Slot :
              /\ \A s \in Slot : Frames[s].at > 0 <=> s <= L
              /\ Oldest <= L
              /\ Frames' \in [Slot -> Packet \cup {Empty}]
              /\ \A s \in Slot : Frames'[s] = IF s = L THEN Empty
                                              ELSE IF s = Oldest THEN Frames[L]
                                              ELSE Frames[s]
      BY <1>9, <2>3, ProcessDoes
    <3>3. PICK s \in Slot : p = Frames[s] /\ s # Oldest /\ p # Empty
      BY <1>2, <2>1, <3>1
    <3>4. Oldest \in Slot
      BY <1>1, TheOldest DEF Sound
    <3>5. CASE s = L
      BY <1>2, <3>2, <3>3, <3>4, <3>5
    <3>6. CASE s # L
      BY <1>2, <3>2, <3>3, <3>6
    <3>7. QED
      BY <3>5, <3>6
  <2>4. QED
    BY <2>2, <2>3
<1>10. CASE Start \/ Already_unidentifiable \/ Read_nothing \/ UNCHANGED vars
  BY <1>3, <1>10 DEF Start, Already_unidentifiable, Read_nothing, vars
<1>11. QED
  BY <1>4, <1>5, <1>6, <1>7, <1>8, <1>9, <1>10 DEF Next, Net_input

(* A packet that is dropped unprocessed is a frame that has been shown,    *)
(* waits a second time, or is older than all that wait.                    *)
THEOREM OldestDropped == Spec => DropsOldest
<1> DEFINE A == \A p \in Held \ (Held' \cup {done'}) :
                   /\ p.loops > 0
                   /\ \/ p.loops <= last_loops
                      \/ \E f \in Window : f # p /\ f.loops = p.loops
                      \/ /\ \A f \in Window' : f.loops > 0 => f.loops > p.loops
                         /\ \E f \in Window' : f.loops > p.loops
<1>1. IInv /\ [Next]_vars => A
  BY StepDropsOldest DEF Excused
<1>2. QED
  BY <1>1, Inductive, PTL DEF Spec, DropsOldest

-----------------------------------------------------------------------------
(***************************************************************************)
(* Races and tag.                                                          *)
(*                                                                         *)
(* PlayersArray holds everyone who is there once, also after the last one  *)
(* has taken the place of one who has left: so that the grid, which is     *)
(* built by insertion in its order, has everyone in one place, and that    *)
(* the search for somebody to be "it", from as far on as there are players *)
(* that can be, passes one of them.                                        *)
(***************************************************************************)

(* There are bases for all, and a player who is there is in some state. *)
RaceIInv ==
    /\ RaceTypeOK
    /\ Len(PlayersArray) <= NumBases
    /\ \A p \in Present : state[p] # "none"

PlayersArrays == {a \in Seq(Player) : IsInjective(a)}

LEMMA Places ==
    ASSUME NEW a \in PlayersArrays
    PROVE  /\ a \in Seq(Player) /\ Len(a) \in Nat /\ DOMAIN a = 1 .. Len(a)
           /\ \A h \in 1 .. Len(a) : a[h] \in Player
           /\ \A h, j \in 1 .. Len(a) : a[h] = a[j] => h = j
           /\ Range(a) = {a[h] : h \in 1 .. Len(a)}
           /\ Range(a) \subseteq Player
<1>1. a \in Seq(Player) /\ IsInjective(a)
  BY DEF PlayersArrays
<1>2. Len(a) \in Nat /\ DOMAIN a = 1 .. Len(a) /\ \A h \in 1 .. Len(a) : a[h] \in Player
  BY <1>1
<1>3. \A h, j \in 1 .. Len(a) : a[h] = a[j] => h = j
  BY <1>1, <1>2 DEF IsInjective
<1>4. Range(a) = {a[h] : h \in 1 .. Len(a)}
  BY <1>2 DEF Range
<1>5. Range(a) \subseteq Player
  BY <1>2, <1>4
<1>6. QED
  BY <1>1, <1>2, <1>3, <1>4, <1>5

(* As many players as there are places. *)
LEMMA AsMany ==
    ASSUME NEW a \in PlayersArrays
    PROVE  IsFiniteSet(Range(a)) /\ Cardinality(Range(a)) \in Nat /\ Len(a) <= Cardinality(Range(a))
<1>1. IsFiniteSet(Range(a)) /\ Cardinality(Range(a)) \in Nat
  BY Places, PlayersFinite, FS_Subset, FS_CardinalityType
<1>2. a \in Injection(1 .. Len(a), Range(a))
  <2>1. a \in [1 .. Len(a) -> Range(a)]
    <3>1. a \in [1 .. Len(a) -> Player]
      BY Places, LenProperties
    <3>2. \A h \in 1 .. Len(a) : a[h] \in Range(a)
      BY Places
    <3>3. QED
      BY <3>1, <3>2
  <2>2. IsInjective(a)
    BY DEF PlayersArrays
  <2>3. QED
    BY <2>1, <2>2 DEF Injection
<1>3. Cardinality(1 .. Len(a)) <= Cardinality(Range(a))
  BY <1>1, <1>2, FS_Injection
<1>4. Cardinality(1 .. Len(a)) = Len(a)
  <2>1. Len(a) \in Nat
    BY Places
  <2>2. Cardinality(1 .. Len(a)) = IF 1 > Len(a) THEN 0 ELSE Len(a) - 1 + 1
    BY <2>1, FS_Interval
  <2>3. QED
    BY <2>1, <2>2
<1>5. QED
  BY <1>1, <1>3, <1>4

LEMMA ComerIn ==
    ASSUME NEW a \in PlayersArrays, NEW p \in Player \ Range(a), NEW b, b = Append(a, p)
    PROVE  /\ b \in PlayersArrays /\ Len(b) = Len(a) + 1
           /\ Range(b) = Range(a) \cup {p}
<1>1. /\ b \in Seq(Player) /\ Len(b) = Len(a) + 1 /\ DOMAIN b = 1 .. Len(a) + 1
      /\ b[Len(a) + 1] = p
      /\ \A h \in 1 .. Len(a) : b[h] = a[h]
  <2>1. a \in Seq(Player) /\ p \in Player
    BY Places
  <2>2. b \in Seq(Player) /\ Len(b) = Len(a) + 1
    BY <2>1, AppendProperties
  <2>3. b[Len(a) + 1] = p /\ \A h \in 1 .. Len(a) : b[h] = a[h]
    BY <2>1, AppendProperties
  <2>4. DOMAIN b = 1 .. Len(b)
    BY <2>2, LenProperties
  <2>5. QED
    BY <2>2, <2>3, <2>4
<1>2. \A h \in 1 .. Len(a) : a[h] # p
  BY Places
<1>3. \A h \in 1 .. Len(a) + 1 : h \in 1 .. Len(a) \/ h = Len(a) + 1
  BY Places
<1>4. IsInjective(b)
  <2> SUFFICES ASSUME NEW h \in 1 .. Len(a) + 1, NEW j \in 1 .. Len(a) + 1, b[h] = b[j]
               PROVE  h = j
    BY <1>1 DEF IsInjective
  <2>1. CASE h \in 1 .. Len(a) /\ j \in 1 .. Len(a)
    BY <1>1, <2>1, Places
  <2>2. CASE h = Len(a) + 1 \/ j = Len(a) + 1
    BY <1>1, <1>2, <1>3, <2>2
  <2>3. QED
    BY <1>3, <2>1, <2>2
<1>5. Range(b) = Range(a) \cup {p}
  <2>1. Range(b) = {b[h] : h \in 1 .. Len(a) + 1}
    BY <1>1 DEF Range
  <2>2. \A h \in 1 .. Len(a) : h \in 1 .. Len(a) + 1
    BY Places
  <2>3. Len(a) + 1 \in 1 .. Len(a) + 1
    BY Places
  <2>4. Range(a) = {a[h] : h \in 1 .. Len(a)}
    BY Places
  <2>5. ASSUME NEW x \in Range(b) PROVE x \in Range(a) \cup {p}
    BY <1>1, <1>3, <2>1, <2>4
  <2>6. ASSUME NEW x \in Range(a) \cup {p} PROVE x \in Range(b)
    BY <1>1, <2>1, <2>2, <2>3, <2>4
  <2>7. QED
    BY <2>5, <2>6
<1>6. QED
  BY <1>1, <1>4, <1>5 DEF PlayersArrays

LEMMA LeaverOut ==
    ASSUME NEW a \in PlayersArrays, NEW p \in Range(a), NEW b,
           b = Front([h \in DOMAIN a |-> IF a[h] = p THEN Last(a) ELSE a[h]])
    PROVE  /\ b \in PlayersArrays /\ Len(b) = Len(a) - 1
           /\ Range(b) = Range(a) \ {p}
<1> DEFINE N == Len(a)
           s == [h \in DOMAIN a |-> IF a[h] = p THEN Last(a) ELSE a[h]]
<1>1. N \in Nat /\ DOMAIN a = 1 .. N /\ \E k \in 1 .. N : a[k] = p
  BY Places
<1>2. PICK k \in 1 .. N : a[k] = p
  BY <1>1
<1>3. N \in 1 .. N /\ a[N] \in Player /\ Last(a) = a[N]
  BY <1>1, <1>2, Places DEF Last
<1>4. \A h \in 1 .. N : s[h] = (IF h = k THEN a[N] ELSE a[h]) /\ s[h] \in Player
  BY <1>1, <1>2, <1>3, Places
<1>5. s \in Seq(Player) /\ Len(s) = N
  <2>1. s \in [1 .. N -> Player]
    BY <1>1, <1>4
  <2> HIDE DEF s, N
  <2>2. QED
    BY <1>1, <2>1
<1>6. b = SubSeq(s, 1, N - 1)
  BY <1>5 DEF Front
<1> HIDE DEF s
<1>7. /\ b \in Seq(Player) /\ Len(b) = N - 1
      /\ \A h \in 1 .. N - 1 : b[h] = s[h]
  <2>1. N - 1 \in Nat /\ \A h \in 1 .. N - 1 : s[h] \in Player
    BY <1>1, <1>3, <1>4
  <2>2. /\ SubSeq(s, 1, N - 1) \in Seq(Player)
        /\ Len(SubSeq(s, 1, N - 1)) = IF 1 <= N - 1 THEN N - 1 - 1 + 1 ELSE 0
        /\ \A h \in 1 .. N - 1 - 1 + 1 : SubSeq(s, 1, N - 1)[h] = s[1 + h - 1]
    BY <2>1, SubSeqProperties
  <2> HIDE DEF N
  <2>3. N - 1 - 1 + 1 = N - 1 /\ (~ 1 <= N - 1 => N - 1 = 0) /\ \A h \in 1 .. N - 1 : 1 + h - 1 = h
    BY <1>1, <2>1
  <2>4. \A h \in 1 .. N - 1 : b[h] = s[h]
    BY <1>6, <2>2, <2>3
  <2>5. b \in Seq(Player) /\ Len(b) = N - 1
    BY <1>6, <2>2, <2>3
  <2>6. QED
    BY <2>4, <2>5
<1>8. \A h \in 1 .. N - 1 : h \in 1 .. N /\ h # N /\ b[h] = IF h = k THEN a[N] ELSE a[h]
  <2> HIDE DEF N
  <2>1. \A h \in 1 .. N - 1 : h \in 1 .. N /\ h # N
    BY <1>1
  <2>2. QED
    BY <1>4, <1>7, <2>1
<1>9. DOMAIN b = 1 .. N - 1
  BY <1>7, LenProperties
<1>10. \A h, j \in 1 .. N : a[h] = a[j] => h = j
  BY Places
<1> HIDE DEF N
<1>11. IsInjective(b)
  <2> SUFFICES ASSUME NEW h \in 1 .. N - 1, NEW j \in 1 .. N - 1, b[h] = b[j]
               PROVE  h = j
    BY <1>9 DEF IsInjective
  <2>1. CASE h = k \/ j = k
    BY <1>3, <1>8, <1>10, <2>1
  <2>2. CASE h # k /\ j # k
    BY <1>8, <1>10, <2>2
  <2>3. QED
    BY <2>1, <2>2
<1>12. Range(b) = Range(a) \ {p}
  <2>1. Range(b) = {b[h] : h \in 1 .. N - 1} /\ Range(a) = {a[h] : h \in 1 .. N}
    BY <1>1, <1>9 DEF Range
  <2>2. ASSUME NEW h \in 1 .. N - 1 PROVE b[h] \in Range(a) \ {p}
    <3>1. CASE h = k
      BY <1>2, <1>3, <1>8, <1>10, <2>1, <3>1
    <3>2. CASE h # k
      BY <1>2, <1>8, <1>10, <2>1, <3>2
    <3>3. QED
      BY <3>1, <3>2
  <2>3. ASSUME NEW h \in 1 .. N, a[h] # p PROVE a[h] \in Range(b)
    <3>1. h # k
      BY <1>2, <2>3
    <3>2. CASE h # N
      <4>1. h \in 1 .. N - 1
        BY <1>1, <3>2
      <4>2. b[h] = a[h]
        BY <1>8, <3>1, <4>1
      <4>3. QED
        BY <2>1, <4>1, <4>2
    <3>3. CASE h = N
      <4>1. k \in 1 .. N - 1
        BY <1>1, <3>1, <3>3
      <4>2. b[k] = a[N]
        BY <1>8, <4>1
      <4>3. QED
        BY <2>1, <3>3, <4>1, <4>2
    <3>4. QED
      BY <3>2, <3>3
  <2>4. QED
    BY <2>1, <2>2, <2>3
<1>13. QED
  BY <1>7, <1>11, <1>12 DEF PlayersArrays, N

-----------------------------------------------------------------------------
(* The invariant.                                                          *)

LEMMA RaceInitIInv == RaceInit => RaceIInv
<1> SUFFICES ASSUME RaceInit PROVE RaceIInv
  OBVIOUS
<1> USE DEF RaceInit
<1>1. PlayersArray \in Seq(Player) /\ IsInjective(PlayersArray) /\ Len(PlayersArray) = 0
  BY DEF IsInjective
<1>2. Present = {}
  BY DEF Present, Range
<1>3. /\ round \in [Player -> 0 .. raceLaps + 1] /\ check \in [Player -> 0 .. NumChecks - 1]
      /\ pl_life \in [Player -> 0 .. lives]
  BY RaceSizes
<1>4. best_lap \in [Player -> LapTimes \cup {0}] /\ home_base \in [Player -> Base \cup {0}]
  OBVIOUS
<1>5. 0 <= NumBases
  BY RaceSizes
<1>6. QED
  BY <1>1, <1>2, <1>3, <1>4, <1>5 DEF RaceIInv, RaceTypeOK

(* What an action leaves as it is keeps its type. *)
LEMMA RaceTypes ==
    ASSUME RaceIInv
    PROVE  /\ PlayersArray \in PlayersArrays /\ Len(PlayersArray) \in 0 .. NumBases
           /\ Present \subseteq Player /\ IsFiniteSet(Present)
           /\ Present = {PlayersArray[h] : h \in 1 .. Len(PlayersArray)}
<1>1. PlayersArray \in PlayersArrays
  BY DEF RaceIInv, RaceTypeOK, PlayersArrays
<1>2. Len(PlayersArray) \in 0 .. NumBases
  BY <1>1, Places, RaceSizes DEF RaceIInv
<1>3. QED
  BY <1>1, <1>2, Places, AsMany DEF Present

LEMMA LoginIInv == ASSUME RaceIInv, NEW p \in Player, Handle_login(p) PROVE RaceIInv'
<1> USE DEF Handle_login, RaceIInv, RaceTypeOK
<1>1. p \in Player \ Range(PlayersArray) /\ PlayersArray \in PlayersArrays
  BY RaceTypes DEF Present
<1>2. /\ PlayersArray' \in PlayersArrays /\ Len(PlayersArray') = Len(PlayersArray) + 1
      /\ Present' = Present \cup {p}
  BY <1>1, ComerIn DEF Present
<1>3. Len(PlayersArray') <= NumBases
  <2>1. Cardinality(Present) < MaxPlayers[LIMITED_LIVES] /\ MaxPlayers[LIMITED_LIVES] \in 1 .. NumBases
    BY RaceModes
  <2>2. Cardinality(Present) \in Nat /\ Len(PlayersArray) <= Cardinality(Present) /\ Len(PlayersArray) \in Nat
    BY <1>1, AsMany, RaceTypes DEF Present
  <2>3. QED
    BY <1>2, <2>1, <2>2, RaceSizes
<1>4. PlayersArray' \in Seq(Player) /\ IsInjective(PlayersArray')
  BY <1>2 DEF PlayersArrays
<1>5. /\ state' \in [Player -> {"none", "waiting", "appearing", "alive", "killed", "dead", "paused"}]
      /\ \A q \in Player : q # p => state'[q] = state[q]
      /\ state'[p] # "none"
  <2>1. state \in [Player -> {"none", "waiting", "appearing", "alive", "killed", "dead", "paused"}]
    OBVIOUS
  <2>2. \E v \in {"alive", "waiting", "appearing"} : state' = [state EXCEPT ![p] = v]
    OBVIOUS
  <2>3. QED
    BY <2>1, <2>2
<1>6. pl_life' \in [Player -> 0 .. lives]
  <2> DEFINE n == IF state'[p] = "waiting" THEN 0 ELSE lives
  <2>1. n \in 0 .. lives
    BY RaceSizes
  <2>2. pl_life' = [pl_life EXCEPT ![p] = n] /\ pl_life \in [Player -> 0 .. lives]
    OBVIOUS
  <2> HIDE DEF n, RaceIInv, Handle_login
  <2>3. QED
    BY <2>1, <2>2
<1>7. home_base' \in [Player -> Base \cup {0}]
  BY DEF Base
<1>8. \A q \in Present' : state'[q] # "none"
  <2>1. \A q \in Present : q \in Player /\ state[q] # "none"
    BY RaceTypes
  <2>2. QED
    BY <1>2, <1>5, <2>1
<1>9. phase' \in {"input", "over"}
  OBVIOUS
<1>10. /\ LIMITED_LIVES' = LIMITED_LIVES /\ round' = round /\ check' = check
       /\ best_lap' = best_lap /\ FINISH' = FINISH /\ RACE_OVER' = RACE_OVER
       /\ tagItPlayerId' = tagItPlayerId
  OBVIOUS
<1>11. QED
  BY <1>2, <1>3, <1>4, <1>5, <1>6, <1>7, <1>8, <1>9, <1>10 DEF Base

LEMMA LeaveIInv == ASSUME RaceIInv, NEW p \in Player, Delete_player(p) PROVE RaceIInv'
<1> USE DEF Delete_player, RaceIInv, RaceTypeOK
<1>1. p \in Range(PlayersArray) /\ PlayersArray \in PlayersArrays
  BY RaceTypes DEF Present
<1>2. /\ PlayersArray' \in PlayersArrays /\ Len(PlayersArray') = Len(PlayersArray) - 1
      /\ Present' = Present \ {p}
  <2>1. PlayersArray' = Front([h \in DOMAIN PlayersArray |->
                                 IF PlayersArray[h] = p THEN Last(PlayersArray) ELSE PlayersArray[h]])
    OBVIOUS
  <2>2. QED
    BY <1>1, <2>1, LeaverOut DEF Present
<1>3. Len(PlayersArray') <= NumBases
  BY <1>2, RaceTypes, RaceSizes
<1>4. PlayersArray' \in Seq(Player) /\ IsInjective(PlayersArray')
  BY <1>2 DEF PlayersArrays
<1>5. /\ state' \in [Player -> {"none", "waiting", "appearing", "alive", "killed", "dead", "paused"}]
      /\ \A q \in Present' : state'[q] # "none"
  BY <1>2, RaceTypes
<1>6. pl_life' \in [Player -> 0 .. lives] /\ round' \in [Player -> 0 .. raceLaps + 1]
  BY RaceSizes
<1>7. check' \in [Player -> 0 .. NumChecks - 1]
  BY RaceSizes
<1>8. home_base' \in [Player -> Base \cup {0}] /\ best_lap' \in [Player -> LapTimes \cup {0}]
  OBVIOUS
<1>9. FINISH' \subseteq Present' /\ RACE_OVER' \subseteq Present' /\ tagItPlayerId' \in Player \cup {NoId}
  BY <1>2
<1>10. LIMITED_LIVES' = LIMITED_LIVES /\ phase' = phase
  OBVIOUS
<1>11. QED
  BY <1>3, <1>4, <1>5, <1>6, <1>7, <1>8, <1>9, <1>10 DEF Base

LEMMA PausesIInv ==
    ASSUME RaceIInv, NEW p \in Player, PauseOn(p) \/ Unpause(p)
    PROVE  RaceIInv'
<1> USE DEF RaceIInv, RaceTypeOK
<1>1. PlayersArray' = PlayersArray /\ Present' = Present
  BY DEF PauseOn, Unpause, Present
<1>2. /\ state' \in [Player -> {"none", "waiting", "appearing", "alive", "killed", "dead", "paused"}]
      /\ \A q \in Present' : state'[q] # "none"
  <2>1. \E v \in {"paused", "waiting", "appearing"} : state' = [state EXCEPT ![p] = v]
    BY DEF PauseOn, Unpause
  <2>2. QED
    BY <1>1, <2>1, RaceTypes
<1>3. round' \in [Player -> 0 .. raceLaps + 1] /\ pl_life' \in [Player -> 0 .. lives]
  <2>1. round' \in {round, [round EXCEPT ![p] = 0]} /\ pl_life' \in {pl_life, [pl_life EXCEPT ![p] = 0]}
    BY DEF PauseOn, Unpause
  <2>2. 0 \in 0 .. raceLaps + 1 /\ 0 \in 0 .. lives
    BY RaceSizes
  <2>3. round \in [Player -> 0 .. raceLaps + 1] /\ pl_life \in [Player -> 0 .. lives]
    OBVIOUS
  <2> HIDE DEF RaceIInv
  <2>4. QED
    BY <2>1, <2>2, <2>3
<1>4. check' \in [Player -> 0 .. NumChecks - 1] /\ best_lap' \in [Player -> LapTimes \cup {0}]
  <2>1. /\ check' \in {check, [check EXCEPT ![p] = 0]}
        /\ best_lap' \in {best_lap, [best_lap EXCEPT ![p] = 0]}
    BY DEF PauseOn, Unpause
  <2>2. 0 \in 0 .. NumChecks - 1 /\ 0 \in LapTimes \cup {0}
    BY RaceSizes
  <2>3. check \in [Player -> 0 .. NumChecks - 1] /\ best_lap \in [Player -> LapTimes \cup {0}]
    OBVIOUS
  <2> HIDE DEF RaceIInv
  <2>4. QED
    BY <2>1, <2>2, <2>3
<1>5. /\ LIMITED_LIVES' = LIMITED_LIVES /\ phase' = phase /\ FINISH' = FINISH
      /\ RACE_OVER' = RACE_OVER /\ home_base' = home_base /\ tagItPlayerId' = tagItPlayerId
  BY DEF PauseOn, Unpause
<1>6. QED
  BY <1>1, <1>2, <1>3, <1>4, <1>5 DEF Base

LEMMA UpdateIInv == ASSUME RaceIInv, Update_players PROVE RaceIInv'
<1> USE DEF Update_players, RaceIInv, RaceTypeOK
<1>1. PlayersArray' = PlayersArray /\ Present' = Present
  BY DEF Present
<1>2. /\ state' \in [Player -> {"none", "waiting", "appearing", "alive", "killed", "dead", "paused"}]
      /\ \A q \in Present' : state'[q] # "none"
  BY <1>1, RaceTypes
<1>3. QED
  BY <1>1, <1>2 DEF Base

LEMMA NextRoundType ==
    ASSUME RaceIInv, NEW p \in Player
    PROVE  NextRound(p) \in 0 .. raceLaps + 1 /\ (check[p] + 1) % NumChecks \in 0 .. NumChecks - 1
<1>1. round[p] \in 0 .. raceLaps + 1 /\ check[p] \in 0 .. NumChecks - 1
  BY DEF RaceIInv, RaceTypeOK
<1>2. NextRound(p) \in 0 .. raceLaps + 1
  BY <1>1, RaceSizes DEF NextRound
<1>3. (check[p] + 1) % NumChecks \in 0 .. NumChecks - 1
  BY <1>1, RaceSizes
<1>4. QED
  BY <1>2, <1>3

LEMMA LifeLeft ==
    ASSUME RaceIInv, NEW n \in 0 .. lives
    PROVE  LivesLeft(n) \in 0 .. lives
BY RaceSizes DEF LivesLeft

LEMMA CollisionIInv == ASSUME RaceIInv, Check_collision PROVE RaceIInv'
<1> USE DEF RaceIInv, RaceTypeOK
<1>1. /\ phase' = "cleanup" /\ LIMITED_LIVES' = LIMITED_LIVES /\ PlayersArray' = PlayersArray
      /\ RACE_OVER' = RACE_OVER /\ home_base' = home_base /\ Present' = Present
  BY DEF Check_collision, Present
<1>2. PICK passing \in SUBSET {p \in Present : state[p] = "alive"} :
      \E killed \in SUBSET {p \in Present : state[p] = "alive"
                                /\ (p \in passing => AfterPass(p) = "alive")},
         t \in [passing -> LapTimes] :
          LET lap == {p \in passing : check[p] = 0}
              finish == {p \in lap : round[p] >= raceLaps}
          IN
          /\ state' = [p \in Player |->
                          IF p \in killed THEN "killed"
                          ELSE IF p \in passing THEN AfterPass(p) ELSE state[p]]
          /\ round' = [p \in Player |-> IF p \in passing THEN NextRound(p) ELSE round[p]]
          /\ best_lap' = [p \in Player |->
                IF p \in lap THEN Lap(best_lap[p], round[p], t[p]) ELSE best_lap[p]]
          /\ check' = [p \in Player |->
                IF p \in passing THEN (check[p] + 1) % NumChecks ELSE check[p]]
          /\ FINISH' = FINISH \cup finish
          /\ pl_life' = [p \in Player |->
                IF p \in finish THEN LivesLeft(pl_life[p]) ELSE pl_life[p]]
          /\ Transfer_tag(killed)
  BY DEF Check_collision
<1>3. PICK killed \in SUBSET {p \in Present : state[p] = "alive"
                                /\ (p \in passing => AfterPass(p) = "alive")},
         t \in [passing -> LapTimes] :
          LET lap == {p \in passing : check[p] = 0}
              finish == {p \in lap : round[p] >= raceLaps}
          IN
          /\ state' = [p \in Player |->
                          IF p \in killed THEN "killed"
                          ELSE IF p \in passing THEN AfterPass(p) ELSE state[p]]
          /\ round' = [p \in Player |-> IF p \in passing THEN NextRound(p) ELSE round[p]]
          /\ best_lap' = [p \in Player |->
                IF p \in lap THEN Lap(best_lap[p], round[p], t[p]) ELSE best_lap[p]]
          /\ check' = [p \in Player |->
                IF p \in passing THEN (check[p] + 1) % NumChecks ELSE check[p]]
          /\ FINISH' = FINISH \cup finish
          /\ pl_life' = [p \in Player |->
                IF p \in finish THEN LivesLeft(pl_life[p]) ELSE pl_life[p]]
          /\ Transfer_tag(killed)
  BY <1>2
<1>4. passing \subseteq Present /\ killed \subseteq Present /\ Present \subseteq Player
  BY RaceTypes
<1> DEFINE States == {"none", "waiting", "appearing", "alive", "killed", "dead", "paused"}
<1>5. /\ state' \in [Player -> States]
      /\ \A q \in Present' : state'[q] # "none"
  <2>1. \A p \in Player : AfterPass(p) \in {"dead", "alive"}
    BY DEF AfterPass
  <2>2. state' = [p \in Player |-> IF p \in killed THEN "killed"
                                   ELSE IF p \in passing THEN AfterPass(p) ELSE state[p]]
    BY <1>3
  <2>3. state \in [Player -> States] /\ \A q \in Present : state[q] # "none"
    OBVIOUS
  <2> HIDE DEF RaceIInv
  <2>4. QED
    BY <1>1, <1>4, <2>1, <2>2, <2>3
<1>6. round' \in [Player -> 0 .. raceLaps + 1] /\ check' \in [Player -> 0 .. NumChecks - 1]
  <2>1. /\ round' = [p \in Player |-> IF p \in passing THEN NextRound(p) ELSE round[p]]
        /\ check' = [p \in Player |->
                IF p \in passing THEN (check[p] + 1) % NumChecks ELSE check[p]]
    BY <1>3
  <2>2. \A p \in Player : /\ round[p] \in 0 .. raceLaps + 1 /\ check[p] \in 0 .. NumChecks - 1
                          /\ NextRound(p) \in 0 .. raceLaps + 1
                          /\ (check[p] + 1) % NumChecks \in 0 .. NumChecks - 1
    BY NextRoundType
  <2> HIDE DEF RaceIInv
  <2>3. QED
    BY <2>1, <2>2
<1>7. best_lap' \in [Player -> LapTimes \cup {0}]
  <2> DEFINE lap == {p \in passing : check[p] = 0}
  <2>1. best_lap' = [p \in Player |->
                        IF p \in lap THEN Lap(best_lap[p], round[p], t[p]) ELSE best_lap[p]]
    BY <1>3
  <2>2. \A p \in Player : p \in lap => Lap(best_lap[p], round[p], t[p]) \in LapTimes \cup {0}
    BY DEF Lap
  <2>3. \A p \in Player : best_lap[p] \in LapTimes \cup {0}
    OBVIOUS
  <2> HIDE DEF RaceIInv, lap
  <2>4. QED
    BY <2>1, <2>2, <2>3
<1>8. FINISH' \subseteq Present' /\ RACE_OVER' \subseteq Present'
  BY <1>1, <1>3, <1>4
<1>9. pl_life' \in [Player -> 0 .. lives]
  <2> DEFINE finish == {p \in {p \in passing : check[p] = 0} : round[p] >= raceLaps}
  <2>1. pl_life' = [p \in Player |->
                       IF p \in finish THEN LivesLeft(pl_life[p]) ELSE pl_life[p]]
    BY <1>3
  <2>2. \A p \in Player : pl_life[p] \in 0 .. lives /\ LivesLeft(pl_life[p]) \in 0 .. lives
    BY LifeLeft
  <2> HIDE DEF RaceIInv, finish
  <2>3. QED
    BY <2>1, <2>2
<1>10. tagItPlayerId' \in Player \cup {NoId}
  BY <1>3, <1>4 DEF Transfer_tag
<1>11. PlayersArray' \in Seq(Player) /\ IsInjective(PlayersArray') /\ Len(PlayersArray') <= NumBases
  BY <1>1
<1>12. home_base' \in [Player -> Base \cup {0}]' /\ LIMITED_LIVES' \in DOMAIN MaxPlayers
  BY <1>1
<1>13. QED
  BY <1>1, <1>5, <1>6, <1>7, <1>8, <1>9, <1>10, <1>11, <1>12 DEF Base

-----------------------------------------------------------------------------
(* Whoever is sought from a candidate on is found: there are no more       *)
(* places before it than players that can be it.                           *)

LEMMA SomebodyFrom ==
    ASSUME NEW a \in PlayersArrays, NEW T \in SUBSET Range(a), NEW h \in 1 .. Cardinality(T)
    PROVE  \E k \in h .. Len(a) : a[k] \in T
<1> SUFFICES ASSUME \A k \in h .. Len(a) : a[k] \notin T
             PROVE  FALSE
  OBVIOUS
<1>1. IsFiniteSet(T) /\ Cardinality(T) \in Nat
  BY AsMany, FS_Subset, FS_CardinalityType
<1>2. \A q \in T : \E k \in 1 .. h - 1 : a[k] = q
  <2> TAKE q \in T
  <2>1. PICK k \in 1 .. Len(a) : a[k] = q
    BY Places
  <2>2. k \notin h .. Len(a)
    BY <2>1
  <2>3. k \in 1 .. h - 1
    BY <1>1, <2>1, <2>2, Places
  <2>4. QED
    BY <2>1, <2>3
<1> DEFINE at == [q \in T |-> CHOOSE k \in 1 .. h - 1 : a[k] = q]
<1>3. \A q \in T : at[q] \in 1 .. h - 1 /\ a[at[q]] = q
  BY <1>2
<1>4. at \in [T -> 1 .. h - 1]
  BY <1>3
<1>5. IsFiniteSet(1 .. h - 1) /\ Cardinality(1 .. h - 1) = h - 1
  <2>1. h \in Nat /\ h - 1 \in Nat /\ 1 \in Int
    BY <1>1
  <2>2. Cardinality(1 .. h - 1) = (IF 1 > h - 1 THEN 0 ELSE h - 1 - 1 + 1) /\ IsFiniteSet(1 .. h - 1)
    BY <2>1, FS_Interval
  <2>3. QED
    BY <2>1, <2>2
<1>6. h - 1 < Cardinality(T)
  BY <1>1
<1> HIDE DEF at
<1>7. PICK q, r \in T : q # r /\ at[q] = at[r]
  BY <1>1, <1>4, <1>5, <1>6, FS_PigeonHole
<1>8. QED
  BY <1>3, <1>7

LEMMA LeastFound ==
    ASSUME NEW m \in Nat, NEW n \in Nat, NEW S \in SUBSET (m .. n), S # {}
    PROVE  Min(S) \in S
<1>1. PICK k \in S : \A l \in S : k <= l
  <2>1. S \in SUBSET Nat
    OBVIOUS
  <2>2. QED
    BY <2>1, LeastNatural
<1>2. QED
  BY <1>1 DEF Min

(* Who the first loop of Check_tag ends at can be tagged. *)
LEMMA TaggedCan ==
    ASSUME RaceIInv, NEW q \in Tagged
    PROVE  q \in Taggable
<1> DEFINE N == Len(PlayersArray)
           I(h) == {k \in h .. N : PlayersArray[k] \in Taggable}
           From(h) == SelectInSubSeq(PlayersArray, h, N, LAMBDA p : p \in Taggable)
<1>1. Taggable \subseteq Range(PlayersArray) /\ PlayersArray \in PlayersArrays
  BY RaceTypes DEF Taggable, Present
<1>2. PICK h \in 1 .. Cardinality(Taggable) :
          q = IF From(h) = 0 THEN tagItPlayerId ELSE PlayersArray[From(h)]
  BY DEF Tagged, Candidates
<1>3. I(h) # {}
  BY <1>1, <1>2, SomebodyFrom
<1>4. From(h) = Min(I(h))
  BY <1>3 DEF SelectInSubSeq
<1>5. h \in Nat /\ N \in Nat /\ 1 <= h
  <2>1. Cardinality(Taggable) \in Nat
    BY <1>1, AsMany, FS_Subset, FS_CardinalityType
  <2>2. QED
    BY <1>1, <1>2, <2>1, Places
<1>6. Min(I(h)) \in I(h)
  <2> DEFINE J == I(h)
  <2>1. J \in SUBSET (h .. N) /\ J # {}
    BY <1>3
  <2> HIDE DEF J, N
  <2>2. Min(J) \in J
    BY <1>5, <2>1, LeastFound
  <2>3. QED
    BY <2>2 DEF J
<1>7. From(h) # 0 /\ PlayersArray[From(h)] \in Taggable
  BY <1>4, <1>5, <1>6
<1>8. QED
  BY <1>2, <1>7

(* How a frame ends: nobody comes or goes. *)
LEMMA CleanedState ==
    ASSUME RaceIInv, Cleanup
    PROVE  /\ PlayersArray' = PlayersArray /\ Present' = Present
           /\ \A p \in Player :
                 state'[p] = IF state[p] = "killed" THEN AfterDeath(p) ELSE state[p]
           /\ state' \in [Player -> {"none", "waiting", "appearing", "alive", "killed", "dead",
                                     "paused"}]
           /\ \A p \in Present : state'[p] # "none" /\ state'[p] # "killed"
<1>1. PlayersArray' = PlayersArray /\ Present' = Present
  BY DEF Cleanup, Present
<1>2. \A p \in Player : AfterDeath(p) \in {"dead", "appearing"}
  BY DEF AfterDeath
<1>3. state' = [p \in Player |-> IF state[p] = "killed" THEN AfterDeath(p) ELSE state[p]]
  BY DEF Cleanup
<1>4. /\ state \in [Player -> {"none", "waiting", "appearing", "alive", "killed", "dead", "paused"}]
      /\ \A p \in Present : p \in Player /\ state[p] # "none"
  BY RaceTypes DEF RaceIInv, RaceTypeOK
<1>5. QED
  BY <1>1, <1>2, <1>3, <1>4

LEMMA CleanupIInv == ASSUME RaceIInv, Cleanup PROVE RaceIInv'
<1> USE DEF RaceIInv, RaceTypeOK
<1>1. /\ PlayersArray' = PlayersArray /\ Present' = Present
      /\ state' \in [Player -> {"none", "waiting", "appearing", "alive", "killed", "dead",
                                "paused"}]
      /\ \A p \in Present' : state'[p] # "none"
  BY CleanedState
<1>2. pl_life' \in [Player -> 0 .. lives]
  <2>1. pl_life' = [p \in Player |-> IF state[p] = "killed" THEN LivesLeft(pl_life[p])
                                                           ELSE pl_life[p]]
    BY DEF Cleanup
  <2>2. \A p \in Player : pl_life[p] \in 0 .. lives /\ LivesLeft(pl_life[p]) \in 0 .. lives
    BY LifeLeft
  <2> HIDE DEF RaceIInv
  <2>3. QED
    BY <2>1, <2>2
<1>3. tagItPlayerId' \in Player \cup {NoId}
  <2>1. Tagged \subseteq Player
    BY TaggedCan, RaceTypes DEF Taggable
  <2>2. QED
    BY <2>1 DEF Cleanup, Check_tag
<1>4. FINISH' \subseteq Present' /\ RACE_OVER' \subseteq Present'
  <2>1. CASE NobodyThere
    BY <1>1, <2>1 DEF Cleanup
  <2>2. CASE ~NobodyThere
    <3> DEFINE S == IF Finished = {} THEN {}
                    ELSE Finished \cup (FINISH \cap RACE_OVER \cap Counted)
    <3>1. S \subseteq Present
      BY DEF Finished, Counted
    <3>2. GivePositions(S)
      BY <2>2 DEF Cleanup
    <3> HIDE DEF S
    <3>3. QED
      BY <1>1, <3>1, <3>2 DEF GivePositions
  <2>3. QED
    BY <2>1, <2>2
<1>5. /\ phase' \in {"input", "over"} /\ LIMITED_LIVES' = LIMITED_LIVES /\ round' = round
      /\ check' = check /\ best_lap' = best_lap /\ home_base' = home_base
  BY DEF Cleanup
<1>6. QED
  BY <1>1, <1>2, <1>3, <1>4, <1>5 DEF Base

-----------------------------------------------------------------------------
(* The starting grid.                                                      *)

(* An order of players in which nobody comes after one with a slower lap   *)
(* or one who is out.                                                      *)
Timed(p) == ~Out(p) /\ best_lap[p] # 0

Sorted(o) ==
    \A h, j \in 1 .. Len(o) :
        h < j /\ Timed(o[j]) => ~Out(o[h]) /\ best_lap[o[h]] <= best_lap[o[j]]

Inserted(o, k, p, r) ==
    /\ r \in Seq(Player) /\ Len(r) = Len(o) + 1
    /\ \A h \in 1 .. Len(o) + 1 : r[h] = IF h < k THEN o[h] ELSE IF h = k THEN p ELSE o[h - 1]

LEMMA InsertedAt ==
    ASSUME NEW o \in Seq(Player), NEW p \in Player, NEW k \in 1 .. Len(o) + 1,
           NEW r, r = InsertAt(o, k, p)
    PROVE  Inserted(o, k, p, r)
<1> DEFINE N == Len(o)
           a == SubSeq(o, 1, k - 1)
           c == SubSeq(o, k, N)
<1>1. N \in Nat /\ k \in Nat /\ \A h \in 1 .. N : o[h] \in Player
  OBVIOUS
<1>2. /\ a \in Seq(Player) /\ Len(a) = k - 1
      /\ \A h \in 1 .. k - 1 : a[h] = o[h]
  <2>1. \A h \in 1 .. k - 1 : o[h] \in Player
    BY <1>1
  <2>2. /\ a \in Seq(Player)
        /\ Len(a) = IF 1 <= k - 1 THEN k - 1 - 1 + 1 ELSE 0
        /\ \A h \in 1 .. k - 1 - 1 + 1 : a[h] = o[1 + h - 1]
    BY <1>1, <2>1, SubSeqProperties
  <2> HIDE DEF a, N
  <2>3. k - 1 - 1 + 1 = k - 1 /\ (~ 1 <= k - 1 => k - 1 = 0) /\ \A h \in 1 .. k - 1 : 1 + h - 1 = h
    BY <1>1
  <2>4. QED
    BY <2>2, <2>3
<1>3. /\ c \in Seq(Player) /\ Len(c) = N - k + 1
      /\ \A h \in 1 .. N - k + 1 : c[h] = o[k + h - 1]
  <2>1. \A h \in k .. N : o[h] \in Player
    BY <1>1
  <2>2. /\ c \in Seq(Player)
        /\ Len(c) = IF k <= N THEN N - k + 1 ELSE 0
        /\ \A h \in 1 .. N - k + 1 : c[h] = o[k + h - 1]
    BY <1>1, <2>1, SubSeqProperties
  <2> HIDE DEF c
  <2>3. ~ k <= N => N - k + 1 = 0
    BY <1>1
  <2>4. QED
    BY <2>2, <2>3
<1>4. r = (a \o <<p>>) \o c
  BY DEF InsertAt
<1> HIDE DEF a, c
<1> DEFINE d == a \o <<p>>
<1>5. /\ d \in Seq(Player) /\ Len(d) = k
      /\ \A h \in 1 .. k : d[h] = IF h < k THEN o[h] ELSE p
  <2>1. <<p>> \in Seq(Player) /\ Len(<<p>>) = 1 /\ <<p>>[1] = p
    OBVIOUS
  <2>2. /\ d \in Seq(Player) /\ Len(d) = k - 1 + 1
        /\ \A h \in 1 .. k - 1 + 1 : d[h] = IF h <= k - 1 THEN a[h] ELSE <<p>>[h - (k - 1)]
    BY <1>2, <2>1, ConcatProperties
  <2> HIDE DEF d, N
  <2>3. k - 1 + 1 = k
    BY <1>1
  <2>4. ASSUME NEW h \in 1 .. k PROVE d[h] = IF h < k THEN o[h] ELSE p
    <3>1. CASE h < k
      <4>1. h <= k - 1 /\ h \in 1 .. k - 1
        BY <1>1, <3>1
      <4>2. QED
        BY <1>2, <2>2, <2>3, <3>1, <4>1
    <3>2. CASE ~(h < k)
      <4>1. ~(h <= k - 1) /\ h - (k - 1) = 1
        BY <1>1, <3>2
      <4>2. QED
        BY <2>1, <2>2, <2>3, <3>2, <4>1
    <3>3. QED
      BY <3>1, <3>2
  <2>5. QED
    BY <2>2, <2>3, <2>4
<1> HIDE DEF d
<1>6. /\ r \in Seq(Player) /\ Len(r) = k + (N - k + 1)
      /\ \A h \in 1 .. k + (N - k + 1) : r[h] = IF h <= k THEN d[h] ELSE c[h - k]
  <2>1. d \in Seq(Player) /\ c \in Seq(Player) /\ Len(d) = k /\ Len(c) = N - k + 1
    BY <1>3, <1>5
  <2>2. /\ d \o c \in Seq(Player) /\ Len(d \o c) = Len(d) + Len(c)
        /\ \A h \in 1 .. Len(d) + Len(c) :
              (d \o c)[h] = IF h <= Len(d) THEN d[h] ELSE c[h - Len(d)]
    BY <2>1, ConcatProperties
  <2>3. r = d \o c
    BY <1>4 DEF d
  <2> HIDE DEF N
  <2>4. QED
    BY <2>1, <2>2, <2>3
<1>7. k + (N - k + 1) = N + 1
  BY <1>1
<1>8. ASSUME NEW h \in 1 .. N + 1
      PROVE  r[h] = IF h < k THEN o[h] ELSE IF h = k THEN p ELSE o[h - 1]
  <2> HIDE DEF N
  <2>1. CASE h <= k
    <3>1. h \in 1 .. k
      BY <1>1, <2>1
    <3>2. r[h] = d[h]
      BY <1>6, <1>7, <2>1
    <3>3. ~(h < k) => h = k
      BY <1>1, <2>1
    <3>4. QED
      BY <1>5, <3>1, <3>2, <3>3
  <2>2. CASE ~(h <= k)
    <3>1. h - k \in 1 .. N - k + 1 /\ k + (h - k) - 1 = h - 1 /\ ~(h < k) /\ h # k
      BY <1>1, <2>2
    <3>2. r[h] = c[h - k]
      BY <1>6, <1>7, <2>2
    <3>3. c[h - k] = o[h - 1]
      BY <1>3, <3>1
    <3>4. QED
      BY <3>1, <3>2, <3>3
  <2>3. QED
    BY <2>1, <2>2
<1>9. QED
  BY <1>6, <1>7, <1>8 DEF Inserted

LEMMA LapsAreTimes == ASSUME RaceIInv PROVE \A q \in Player : best_lap[q] \in Nat
<1>1. best_lap \in [Player -> LapTimes \cup {0}]
  BY DEF RaceIInv, RaceTypeOK
<1>2. LapTimes \cup {0} \subseteq Nat
  BY RaceModes
<1>3. \A q \in Player : best_lap[q] \in LapTimes \cup {0}
  BY <1>1
<1>4. QED
  BY <1>2, <1>3

(* The best lap of whoever is put into the order decides. *)
LEMMA PlaceIs ==
    ASSUME RaceIInv, NEW o \in Seq(Player), NEW p \in Player, NEW k, k = Place(o, p)
    PROVE  /\ k \in 1 .. Len(o) + 1
           /\ ~Timed(p) => k = Len(o) + 1
           /\ Timed(p) => \A h \in 1 .. Len(o) : h < k => ~Out(o[h]) /\ best_lap[o[h]] <= best_lap[p]
           /\ k <= Len(o) => Out(o[k]) \/ best_lap[p] < best_lap[o[k]]
<1> DEFINE behind == {j \in DOMAIN o : best_lap[p] < best_lap[o[j]] \/ Out(o[j])}
<1>1. Len(o) \in Nat /\ DOMAIN o = 1 .. Len(o) /\ \A h \in 1 .. Len(o) : o[h] \in Player
  OBVIOUS
<1>2. \A q \in Player : best_lap[q] \in Nat
  BY LapsAreTimes
<1>3. k = IF ~Timed(p) \/ behind = {} THEN Len(o) + 1
          ELSE CHOOSE j \in behind : \A l \in behind : j <= l
  BY DEF Place, Timed
<1>4. \A h \in 1 .. Len(o) : h \notin behind => ~Out(o[h]) /\ best_lap[o[h]] <= best_lap[p]
  BY <1>1, <1>2
<1>5. behind \subseteq 1 .. Len(o)
  BY <1>1
<1>6. \A h \in behind : best_lap[p] < best_lap[o[h]] \/ Out(o[h])
  OBVIOUS
<1> HIDE DEF behind
<1>7. CASE ~Timed(p)
  BY <1>1, <1>3, <1>7
<1>8. CASE Timed(p) /\ behind = {}
  BY <1>1, <1>3, <1>4, <1>8
<1>9. CASE Timed(p) /\ behind # {}
  <2>1. behind \in SUBSET Nat
    BY <1>1, <1>5
  <2>2. \E j \in behind : \A l \in behind : j <= l
    BY <1>9, <2>1, LeastNatural
  <2>3. k \in behind /\ \A l \in behind : k <= l
    BY <1>3, <1>9, <2>2
  <2>4. \A h \in 1 .. Len(o) : h < k => h \notin behind
    BY <1>1, <1>5, <2>3
  <2>5. QED
    BY <1>1, <1>4, <1>5, <1>6, <1>9, <2>3, <2>4
<1>10. QED
  BY <1>7, <1>8, <1>9

(* A player takes his place in the order. *)
LEMMA InsertSorted ==
    ASSUME RaceIInv, NEW o \in Seq(Player), Sorted(o), NEW p \in Player,
           NEW r, r = InsertAt(o, Place(o, p), p)
    PROVE  Sorted(r)
<1> DEFINE k == Place(o, p)
<1>1. /\ k \in 1 .. Len(o) + 1
      /\ ~Timed(p) => k = Len(o) + 1
      /\ Timed(p) => \A h \in 1 .. Len(o) : h < k => ~Out(o[h]) /\ best_lap[o[h]] <= best_lap[p]
      /\ k <= Len(o) => Out(o[k]) \/ best_lap[p] < best_lap[o[k]]
  BY PlaceIs
<1>2. r = InsertAt(o, k, p)
  OBVIOUS
<1> HIDE DEF k
<1>3. /\ Len(r) = Len(o) + 1
      /\ \A h \in 1 .. Len(o) + 1 : r[h] = IF h < k THEN o[h] ELSE IF h = k THEN p ELSE o[h - 1]
  <2>1. Inserted(o, k, p, r)
    BY <1>1, <1>2, InsertedAt
  <2>2. QED
    BY <2>1 DEF Inserted
<1>4. Len(o) \in Nat /\ \A h \in 1 .. Len(o) : o[h] \in Player
  OBVIOUS
<1>5. \A q \in Player : best_lap[q] \in Nat
  BY LapsAreTimes
<1> DEFINE Before(x, y) == Timed(y) => ~Out(x) /\ best_lap[x] <= best_lap[y]
<1>6. \A h, j \in 1 .. Len(o) : h < j => Before(o[h], o[j])
  BY DEF Sorted
<1>7. \A h \in 1 .. Len(o) : h < k => Before(o[h], p)
  BY <1>1
(* All that comes after p does because he was faster. *)
<1>8. \A j \in 1 .. Len(o) : k <= j => Before(p, o[j])
  <2> SUFFICES ASSUME NEW j \in 1 .. Len(o), k <= j, Timed(o[j])
               PROVE  ~Out(p) /\ best_lap[p] <= best_lap[o[j]]
    OBVIOUS
  <2>1. k \in 1 .. Len(o) /\ Timed(p)
    BY <1>1, <1>4
  <2>2. ~Out(o[k]) /\ best_lap[o[k]] <= best_lap[o[j]]
    <3>1. CASE k = j
      BY <1>4, <1>5, <3>1 DEF Timed
    <3>2. CASE k # j
      <4>1. k < j
        BY <1>1, <3>2
      <4>2. QED
        BY <1>6, <2>1, <4>1
    <3>3. QED
      BY <3>1, <3>2
  <2>3. best_lap[p] < best_lap[o[k]]
    BY <1>1, <2>1, <2>2
  <2>4. QED
    BY <1>4, <1>5, <2>1, <2>2, <2>3 DEF Timed
<1> HIDE DEF Before
<1>9. ASSUME NEW h \in 1 .. Len(o) + 1, NEW j \in 1 .. Len(o) + 1, h < j
      PROVE  Before(r[h], r[j])
  <2>1. CASE j < k
    <3>1. h \in 1 .. Len(o) /\ j \in 1 .. Len(o) /\ h < k
      BY <1>1, <1>4, <1>9, <2>1
    <3>2. QED
      BY <1>3, <1>6, <1>9, <2>1, <3>1
  <2>2. CASE j = k
    <3>1. h \in 1 .. Len(o) /\ h < k
      BY <1>1, <1>4, <1>9, <2>2
    <3>2. r[h] = o[h] /\ r[j] = p
      BY <1>1, <1>3, <2>2, <3>1
    <3>3. QED
      BY <1>7, <3>1, <3>2
  <2>3. CASE j > k /\ h < k
    <3>1. h \in 1 .. Len(o) /\ j - 1 \in 1 .. Len(o) /\ h < j - 1
      BY <1>1, <1>4, <1>9, <2>3
    <3>2. r[h] = o[h] /\ r[j] = o[j - 1]
      BY <1>1, <1>3, <2>3, <3>1
    <3>3. QED
      BY <1>6, <3>1, <3>2
  <2>4. CASE j > k /\ h = k
    <3>1. j - 1 \in 1 .. Len(o) /\ k <= j - 1
      BY <1>1, <1>4, <1>9, <2>4
    <3>2. r[h] = p /\ r[j] = o[j - 1]
      BY <1>1, <1>3, <2>4, <3>1
    <3>3. QED
      BY <1>8, <3>1, <3>2
  <2>5. CASE j > k /\ h > k
    <3>1. h - 1 \in 1 .. Len(o) /\ j - 1 \in 1 .. Len(o) /\ h - 1 < j - 1
      BY <1>1, <1>4, <1>9, <2>5
    <3>2. r[h] = o[h - 1] /\ r[j] = o[j - 1]
      BY <1>1, <1>3, <2>5, <3>1
    <3>3. QED
      BY <1>6, <3>1, <3>2
  <2>6. QED
    BY <1>1, <1>4, <2>1, <2>2, <2>3, <2>4, <2>5
<1>10. QED
  BY <1>3, <1>9 DEF Sorted, Before

(* Everyone before the next in line is in the order, once. *)
Everybody(a, n, o) == o \in PlayersArrays /\ Len(o) = n /\ Range(o) = {a[h] : h \in 1 .. n}

LEMMA InsertEverybody ==
    ASSUME NEW a \in PlayersArrays, NEW n \in 1 .. Len(a), NEW o, Everybody(a, n - 1, o),
           NEW k \in 1 .. Len(o) + 1, NEW r, r = InsertAt(o, k, a[n])
    PROVE  Everybody(a, n, r)
<1> USE DEF Everybody
<1> DEFINE p == a[n]
<1>1. /\ Len(a) \in Nat /\ p \in Player
      /\ \A h, j \in 1 .. Len(a) : a[h] = a[j] => h = j
  BY Places
<1>2. /\ o \in Seq(Player) /\ Len(o) \in Nat /\ \A h \in 1 .. Len(o) : o[h] \in Player
      /\ \A h, j \in 1 .. Len(o) : o[h] = o[j] => h = j
      /\ Range(o) = {o[h] : h \in 1 .. Len(o)}
  BY Places
<1>3. \A h \in 1 .. Len(o) : o[h] # p
  <2>1. \A h \in 1 .. n - 1 : h \in 1 .. Len(a) /\ h # n
    BY <1>1
  <2>2. \A h \in 1 .. n - 1 : a[h] # p
    BY <1>1, <2>1
  <2>3. \A q \in {a[h] : h \in 1 .. n - 1} : q # p
    BY <2>2
  <2>4. \A h \in 1 .. Len(o) : o[h] \in {a[j] : j \in 1 .. n - 1}
    BY <1>2
  <2>5. QED
    BY <2>3, <2>4
<1> HIDE DEF p
<1>4. /\ r \in Seq(Player) /\ Len(r) = n
      /\ \A h \in 1 .. n : r[h] = IF h < k THEN o[h] ELSE IF h = k THEN p ELSE o[h - 1]
  <2>1. r = InsertAt(o, k, p)
    BY DEF p
  <2>2. o \in Seq(Player) /\ p \in Player /\ k \in 1 .. Len(o) + 1
    BY <1>1, <1>2
  <2>3. Len(o) + 1 = n
    OBVIOUS
  <2>4. Inserted(o, k, p, r)
    BY <2>1, <2>2, InsertedAt
  <2>5. QED
    BY <2>3, <2>4 DEF Inserted
<1>5. \A h \in 1 .. n : h < k => h \in 1 .. Len(o)
  BY <1>2
<1>6. \A h \in 1 .. n : h > k => h - 1 \in 1 .. Len(o) /\ h - 1 >= k
  BY <1>2
<1>7. DOMAIN r = 1 .. n
  BY <1>4, LenProperties
<1>8. IsInjective(r)
  <2>0. \A h \in 1 .. n : r[h] = p => h = k
    <3> SUFFICES ASSUME NEW h \in 1 .. n, h # k PROVE r[h] # p
      OBVIOUS
    <3>1. CASE h < k
      <4>1. h \in 1 .. Len(o) /\ r[h] = o[h]
        BY <1>4, <1>5, <3>1
      <4>2. QED
        BY <1>3, <4>1
    <3>2. CASE h > k
      <4>1. h - 1 \in 1 .. Len(o) /\ r[h] = o[h - 1]
        BY <1>4, <1>6, <3>2
      <4>2. QED
        BY <1>3, <4>1
    <3>3. QED
      BY <3>1, <3>2
  <2> SUFFICES ASSUME NEW h \in 1 .. n, NEW j \in 1 .. n, r[h] = r[j]
               PROVE  h = j
    BY <1>7 DEF IsInjective
  <2>1. CASE h = k \/ j = k
    <3>1. r[h] = p /\ r[j] = p
      BY <1>4, <2>1
    <3>2. QED
      BY <2>0, <3>1
  <2>2. CASE h < k /\ j < k
    BY <1>2, <1>4, <1>5, <2>2
  <2>3. CASE h > k /\ j > k
    <3>1. h - 1 = j - 1
      BY <1>2, <1>4, <1>6, <2>3
    <3>2. QED
      BY <3>1
  <2>4. CASE h < k /\ j > k
    <3>1. h = j - 1
      BY <1>2, <1>4, <1>5, <1>6, <2>4
    <3>2. QED
      BY <1>6, <2>4, <3>1
  <2>5. CASE h > k /\ j < k
    <3>1. h - 1 = j
      BY <1>2, <1>4, <1>5, <1>6, <2>5
    <3>2. QED
      BY <1>6, <2>5, <3>1
  <2>6. QED
    BY <2>1, <2>2, <2>3, <2>4, <2>5
<1>9. Range(r) = Range(o) \cup {p}
  <2>1. Range(r) = {r[h] : h \in 1 .. n}
    BY <1>7 DEF Range
  <2>2. ASSUME NEW h \in 1 .. n PROVE r[h] \in Range(o) \cup {p}
    <3>0. \A j \in 1 .. Len(o) : o[j] \in Range(o)
      BY <1>2
    <3>1. CASE h < k
      <4>1. h \in 1 .. Len(o) /\ r[h] = o[h]
        BY <1>4, <1>5, <3>1
      <4>2. QED
        BY <3>0, <4>1
    <3>2. CASE h = k
      BY <1>4, <3>2
    <3>3. CASE h > k
      <4>1. h - 1 \in 1 .. Len(o) /\ r[h] = o[h - 1]
        BY <1>4, <1>6, <3>3
      <4>2. QED
        BY <3>0, <4>1
    <3>4. QED
      BY <3>1, <3>2, <3>3
  <2>3. p \in Range(r)
    <3>1. k \in 1 .. n /\ r[k] = p
      BY <1>4
    <3>2. QED
      BY <2>1, <3>1
  <2>4. ASSUME NEW h \in 1 .. Len(o) PROVE o[h] \in Range(r)
    <3>1. CASE h < k
      <4>1. h \in 1 .. n /\ r[h] = o[h]
        BY <1>4, <3>1
      <4>2. QED
        BY <2>1, <4>1
    <3>2. CASE ~(h < k)
      <4>1. h + 1 \in 1 .. n /\ ~(h + 1 < k) /\ h + 1 # k /\ (h + 1) - 1 = h
        BY <1>2, <3>2
      <4>2. r[h + 1] = o[h]
        BY <1>4, <4>1
      <4>3. QED
        BY <2>1, <4>1, <4>2
    <3>3. QED
      BY <3>1, <3>2
  <2>5. Range(r) \subseteq Range(o) \cup {p}
    BY <2>1, <2>2
  <2>6. \A q \in {o[h] : h \in 1 .. Len(o)} : q \in Range(r)
    BY <2>4
  <2>7. \A q \in Range(o) : q \in Range(r)
    BY <1>2, <2>6
  <2>8. QED
    BY <2>3, <2>5, <2>7
<1>10. Range(r) = {a[h] : h \in 1 .. n}
  <2>1. \A h \in 1 .. n : h \in 1 .. n - 1 \/ h = n
    BY <1>1
  <2>2. \A h \in 1 .. n - 1 : h \in 1 .. n
    BY <1>1
  <2>3. n \in 1 .. n
    BY <1>1
  <2>4. QED
    BY <1>9, <2>1, <2>2, <2>3 DEF p
<1>11. QED
  BY <1>4, <1>8, <1>10 DEF PlayersArrays

(* The order of the first n players of a. *)
Ordered(a, n, o) == Everybody(a, n, o) /\ Sorted(o)

LEMMA OneMoreOrdered ==
    ASSUME RaceIInv, NEW a \in PlayersArrays, NEW n \in 1 .. Len(a), NEW o, Ordered(a, n - 1, o),
           NEW r, r = InsertAt(o, Place(o, a[n]), a[n])
    PROVE  Ordered(a, n, r)
<1>1. Everybody(a, n - 1, o) /\ o \in PlayersArrays /\ Sorted(o)
  BY DEF Ordered, Everybody
<1>2. a[n] \in Player /\ o \in Seq(Player)
  BY <1>1, Places
<1> DEFINE k == Place(o, a[n])
<1>3. k \in 1 .. Len(o) + 1
  BY <1>2, PlaceIs
<1>4. Sorted(r)
  BY <1>1, <1>2, InsertSorted
<1>5. r = InsertAt(o, k, a[n])
  OBVIOUS
<1> HIDE DEF k
<1>6. Everybody(a, n, r)
  BY <1>1, <1>3, <1>5, InsertEverybody
<1>7. QED
  BY <1>4, <1>6 DEF Ordered

(* The order that the model builds. *)
IsOrdering(f, a) ==
    f = [n \in 0 .. Len(a) |->
            IF n = 0 THEN <<>> ELSE InsertAt(f[n - 1], Place(f[n - 1], a[n]), a[n])]

(* There is one for the first m players, for every m. *)
LEMMA OrderingUpTo ==
    ASSUME RaceIInv, NEW a \in PlayersArrays
    PROVE  \E f : IsOrdering(f, a)
<1> DEFINE Ins(o, n) == InsertAt(o, Place(o, a[n]), a[n])
           Upto(f, m) == /\ f \in [0 .. m -> Seq(Player)] /\ f[0] = <<>>
                         /\ \A n \in 1 .. m : f[n] = Ins(f[n - 1], n)
           G == {m \in 0 .. Len(a) : \E f : Upto(f, m)}
           N == Len(a)
<1>1. N \in Nat /\ \A n \in 1 .. N : a[n] \in Player
  BY Places
<1>2. ASSUME NEW o \in Seq(Player), NEW n \in 1 .. N PROVE Ins(o, n) \in Seq(Player)
  <2>1. a[n] \in Player
    BY <1>1
  <2>2. Place(o, a[n]) \in 1 .. Len(o) + 1
    BY <2>1, PlaceIs
  <2>3. Inserted(o, Place(o, a[n]), a[n], Ins(o, n))
    BY <2>1, <2>2, InsertedAt
  <2>4. QED
    BY <2>3 DEF Inserted
<1> HIDE DEF Ins, N
<1>3. 0 \in G
  <2>1. Upto([n \in 0 .. 0 |-> <<>>], 0)
    OBVIOUS
  <2> HIDE DEF Upto
  <2>2. \E f : Upto(f, 0)
    BY <2>1
  <2>3. 0 \in 0 .. Len(a)
    BY <1>1 DEF N
  <2>4. QED
    BY <2>2, <2>3
<1>4. ASSUME NEW m \in 1 .. N, m - 1 \in G PROVE m \in G
  <2>1. PICK f : Upto(f, m - 1)
    BY <1>4
  <2> DEFINE g == [n \in 0 .. m |-> IF n < m THEN f[n] ELSE Ins(f[m - 1], m)]
  <2>2. m - 1 \in Nat /\ m - 1 \in 0 .. m - 1
    BY <1>1
  <2>3. f \in [0 .. m - 1 -> Seq(Player)] /\ f[0] = <<>>
        /\ \A n \in 1 .. m - 1 : f[n] = Ins(f[n - 1], n)
    BY <2>1
  <2>4. f[m - 1] \in Seq(Player) /\ Ins(f[m - 1], m) \in Seq(Player)
    BY <1>2, <2>2, <2>3
  <2>5. \A n \in 0 .. m : n < m => n \in 0 .. m - 1
    BY <1>1
  <2>6. g \in [0 .. m -> Seq(Player)] /\ g[0] = <<>>
    BY <1>1, <2>3, <2>4, <2>5
  <2>7. g[m] = Ins(f[m - 1], m) /\ \A n \in 0 .. m - 1 : g[n] = f[n]
    BY <1>1
  <2>8. ASSUME NEW n \in 1 .. m PROVE g[n] = Ins(g[n - 1], n)
    <3> HIDE DEF g
    <3>1. CASE n = m
      BY <2>2, <2>7, <3>1
    <3>2. CASE n # m
      <4>1. n \in 1 .. m - 1 /\ n \in 0 .. m - 1 /\ n - 1 \in 0 .. m - 1
        BY <1>1, <3>2
      <4>2. QED
        BY <2>3, <2>7, <4>1
    <3>3. QED
      BY <3>1, <3>2
  <2> HIDE DEF g
  <2>9. Upto(g, m)
    BY <2>6, <2>8
  <2> HIDE DEF Upto
  <2>10. \E h : Upto(h, m)
    BY <2>9
  <2>11. m \in 0 .. Len(a)
    BY <1>1 DEF N
  <2>12. QED
    BY <2>10, <2>11
<1> HIDE DEF G
<1>5. N \in G
  <2> SUFFICES ASSUME N \notin G PROVE FALSE
    OBVIOUS
  <2> DEFINE Out0 == {n \in 0 .. N : n \notin G}
  <2>1. Out0 \in SUBSET Nat /\ Out0 # {}
    BY <1>1
  <2>2. PICK n \in Out0 : \A l \in Out0 : n <= l
    BY <2>1, LeastNatural
  <2>3. n # 0 /\ n \in 1 .. N
    BY <1>1, <1>3, <2>2
  <2>4. n - 1 \in 0 .. N /\ ~(n <= n - 1)
    BY <1>1, <2>3
  <2>5. n - 1 \in G
    BY <2>2, <2>4
  <2>6. n \in G
    BY <1>4, <2>3, <2>5
  <2>7. QED
    BY <2>2, <2>6
<1>6. PICK f : Upto(f, N)
  BY <1>5 DEF G
<1>7. f = [n \in 0 .. N |-> IF n = 0 THEN <<>> ELSE Ins(f[n - 1], n)]
  <2>1. f \in [0 .. N -> Seq(Player)] /\ f[0] = <<>>
        /\ \A n \in 1 .. N : f[n] = Ins(f[n - 1], n)
    BY <1>6
  <2>2. \A n \in 0 .. N : n # 0 => n \in 1 .. N
    BY <1>1
  <2>3. QED
    BY <2>1, <2>2
<1>8. IsOrdering(f, a)
  BY <1>7 DEF IsOrdering, Ins, N
<1>9. QED
  BY <1>8

(* Whatever is such an ordering orders everyone. *)
LEMMA OrderingOrders ==
    ASSUME RaceIInv, NEW a \in PlayersArrays, NEW f, IsOrdering(f, a)
    PROVE  Ordered(a, Len(a), f[Len(a)])
<1> DEFINE N == Len(a)
           G == {n \in 0 .. N : Ordered(a, n, f[n])}
<1>1. N \in Nat /\ \A n \in 1 .. N : a[n] \in Player
  BY Places
<1>2. /\ f[0] = <<>>
      /\ \A n \in 1 .. N : f[n] = InsertAt(f[n - 1], Place(f[n - 1], a[n]), a[n])
  BY <1>1 DEF IsOrdering
<1>3. 0 \in G
  <2>1. <<>> \in Seq(Player) /\ Len(<<>>) = 0 /\ DOMAIN <<>> = {} /\ 1 .. 0 = {}
    OBVIOUS
  <2>2. IsInjective(<<>>) /\ Range(<<>>) = {} /\ Sorted(<<>>)
    BY <2>1 DEF IsInjective, Range, Sorted
  <2>3. {a[h] : h \in 1 .. 0} = {}
    BY <2>1
  <2>4. Ordered(a, 0, <<>>)
    BY <2>1, <2>2, <2>3 DEF Ordered, Everybody, PlayersArrays
  <2>5. QED
    BY <1>1, <1>2, <2>4
<1>4. ASSUME NEW n \in 1 .. N, n - 1 \in G PROVE n \in G
  <2>1. Ordered(a, n - 1, f[n - 1]) /\ f[n] = InsertAt(f[n - 1], Place(f[n - 1], a[n]), a[n])
    BY <1>2, <1>4
  <2>2. Ordered(a, n, f[n])
    BY <2>1, OneMoreOrdered
  <2>3. QED
    BY <1>1, <2>2
<1> HIDE DEF G
<1>5. N \in G
  <2> SUFFICES ASSUME N \notin G PROVE FALSE
    OBVIOUS
  <2> HIDE DEF N
  <2> DEFINE Rest == {n \in 0 .. N : n \notin G}
  <2>1. Rest \in SUBSET Nat /\ Rest # {}
    BY <1>1
  <2>2. PICK n \in Rest : \A l \in Rest : n <= l
    BY <2>1, LeastNatural
  <2>3. n # 0 /\ n \in 1 .. N
    BY <1>1, <1>3, <2>2
  <2>4. n - 1 \in 0 .. N /\ ~(n <= n - 1)
    BY <1>1, <2>3
  <2>5. n - 1 \in G
    BY <2>2, <2>4
  <2>6. n \in G
    BY <1>4, <2>3, <2>5
  <2>7. QED
    BY <2>2, <2>6
<1>6. QED
  BY <1>5 DEF G

LEMMA OrderIs == ASSUME RaceIInv PROVE Ordered(PlayersArray, Len(PlayersArray), Order)
<1> DEFINE a == PlayersArray
           f == CHOOSE g : IsOrdering(g, a)
<1>1. a \in PlayersArrays
  BY RaceTypes
<1>2. IsOrdering(f, a)
  BY <1>1, OrderingUpTo
<1>3. Order = f[Len(a)]
  BY DEF Order, IsOrdering
<1> HIDE DEF f
<1>4. QED
  BY <1>1, <1>2, <1>3, OrderingOrders

(* Everyone finds himself in one place of the order. *)
LEMMA PlaceInOrder ==
    ASSUME RaceIInv, Race_game_over, NEW p \in Present
    PROVE  /\ home_base'[p] \in 1 .. Len(PlayersArray) /\ home_base'[p] \in 1 .. Len(Order)
           /\ Order[home_base'[p]] = p
<1>1. Ordered(PlayersArray, Len(PlayersArray), Order)
  BY OrderIs
<1>2. /\ Order \in PlayersArrays /\ Len(Order) = Len(PlayersArray)
      /\ Range(Order) = {PlayersArray[h] : h \in 1 .. Len(PlayersArray)}
  BY <1>1 DEF Ordered, Everybody
<1>3. p \in Range(Order) /\ p \in Player
  BY <1>2, RaceTypes
<1>4. DOMAIN Order = 1 .. Len(Order) /\ \E b \in 1 .. Len(Order) : Order[b] = p
  <2>1. DOMAIN Order = 1 .. Len(Order) /\ Range(Order) = {Order[b] : b \in 1 .. Len(Order)}
    BY <1>2, Places
  <2>2. p \in {Order[b] : b \in 1 .. Len(Order)}
    BY <1>3, <2>1
  <2>3. QED
    BY <2>1, <2>2
<1>5. home_base'[p] = CHOOSE b \in DOMAIN Order : Order[b] = p
  BY <1>3 DEF Race_game_over
<1>6. home_base'[p] \in 1 .. Len(Order) /\ Order[home_base'[p]] = p
  BY <1>4, <1>5
<1>7. QED
  BY <1>2, <1>6

LEMMA GameOverIInv == ASSUME RaceIInv, Race_game_over PROVE RaceIInv'
<1>1. PlayersArray' = PlayersArray /\ Present' = Present /\ LIMITED_LIVES' = LIMITED_LIVES
      /\ phase' = "input" /\ tagItPlayerId' = tagItPlayerId
  BY DEF Race_game_over, Present
<1>2. /\ state' \in [Player -> {"none", "waiting", "appearing", "alive", "killed", "dead", "paused"}]
      /\ \A q \in Present : state'[q] # "none"
  <2>1. state' = [p \in Player |-> IF p \in Present /\ state[p] # "paused"
                                   THEN "appearing" ELSE state[p]]
    BY DEF Race_game_over
  <2>2. state \in [Player -> {"none", "waiting", "appearing", "alive", "killed", "dead", "paused"}]
    BY DEF RaceIInv, RaceTypeOK
  <2>3. Present \subseteq Player /\ \A q \in Present : state[q] # "none"
    BY RaceTypes DEF RaceIInv
  <2>4. QED
    BY <2>1, <2>2, <2>3
<1>3. pl_life' \in [Player -> 0 .. lives]
  <2>1. pl_life' = [p \in Player |-> IF state'[p] = "appearing" THEN lives ELSE pl_life[p]]
    BY DEF Race_game_over
  <2>2. lives \in 0 .. lives /\ \A p \in Player : pl_life[p] \in 0 .. lives
    BY RaceSizes DEF RaceIInv, RaceTypeOK
  <2>3. QED
    BY <2>1, <2>2
<1>4. /\ round' \in [Player -> 0 .. raceLaps + 1] /\ check' \in [Player -> 0 .. NumChecks - 1]
      /\ best_lap' \in [Player -> LapTimes \cup {0}]
  <2>1. 0 \in 0 .. raceLaps + 1 /\ 0 \in 0 .. NumChecks - 1 /\ 0 \in LapTimes \cup {0}
    BY RaceSizes
  <2>2. QED
    BY <2>1 DEF Race_game_over
<1>5. home_base' \in [Player -> Base \cup {0}]
  <2>1. home_base' = [p \in Player |-> IF p \in Present
                                       THEN CHOOSE b \in DOMAIN Order : Order[b] = p
                                       ELSE 0]
    BY DEF Race_game_over
  <2>2. \A p \in Present : home_base'[p] \in 1 .. Len(PlayersArray)
    BY PlaceInOrder
  <2>3. \A p \in Present : home_base'[p] \in Base
    <3>1. Len(PlayersArray) \in Nat /\ Len(PlayersArray) <= NumBases /\ NumBases \in Nat
      BY RaceTypes, RaceSizes
    <3>2. \A n \in 1 .. Len(PlayersArray) : n \in 1 .. NumBases
      BY <3>1
    <3>3. QED
      BY <2>2, <3>2 DEF Base
  <2>4. \A p \in Player : p \notin Present => home_base'[p] = 0
    BY <2>1
  <2>5. \A p \in Player : home_base'[p] \in Base \cup {0}
    BY <2>3, <2>4
  <2>6. DOMAIN home_base' = Player /\ home_base' = [p \in DOMAIN home_base' |-> home_base'[p]]
    BY <2>1
  <2>7. QED
    BY <2>5, <2>6
<1>6. FINISH' = {} /\ RACE_OVER' = {}
  BY DEF Race_game_over
<1>7. QED
  BY <1>1, <1>2, <1>3, <1>4, <1>5, <1>6 DEF RaceIInv, RaceTypeOK, Base

LEMMA StopIInv == ASSUME RaceIInv, UNCHANGED raceVars PROVE RaceIInv'
<1> USE DEF raceVars
<1>1. Present' = Present
  BY DEF Present
<1>2. QED
  BY <1>1 DEF RaceIInv, RaceTypeOK, Base

LEMMA RaceStep == RaceIInv /\ [RaceNext]_raceVars => RaceIInv'
<1> SUFFICES ASSUME RaceIInv, [RaceNext]_raceVars PROVE RaceIInv'
  OBVIOUS
<1>1. ASSUME NEW p \in Player,
             Handle_login(p) \/ Delete_player(p) \/ PauseOn(p) \/ Unpause(p)
      PROVE  RaceIInv'
  BY <1>1, LoginIInv, LeaveIInv, PausesIInv
<1>2. CASE Update_players
  BY <1>2, UpdateIInv
<1>3. CASE Check_collision
  BY <1>3, CollisionIInv
<1>4. CASE Cleanup
  BY <1>4, CleanupIInv
<1>5. CASE Race_game_over
  BY <1>5, GameOverIInv
<1>6. CASE UNCHANGED raceVars
  BY <1>6, StopIInv
<1>7. QED
  BY <1>1, <1>2, <1>3, <1>4, <1>5, <1>6 DEF RaceNext

(* Nobody is there without a state, and there is a base for everyone. *)
THEOREM RacesInductive == RaceSpec => []RaceIInv
<1>1. QED
  BY RaceInitIInv, RaceStep, PTL DEF RaceSpec

(* Players, laps, lives, bases and who is "it" keep their types. *)
THEOREM RacesTypeCorrect == RaceSpec => []RaceTypeOK
<1>1. RaceIInv => RaceTypeOK
  BY DEF RaceIInv
<1>2. QED
  BY <1>1, RacesInductive, PTL

(* A race leads somewhere: in limited lives no frame ends with everybody   *)
(* who has not paused dead or waiting (Race_compute_game_status).          *)
THEOREM RaceGoesOn == RaceSpec => SomebodyRaces
<1> DEFINE A == phase = "cleanup" /\ phase' = "input" /\ LIMITED_LIVES
           B == \/ \A p \in Present : state'[p] = "paused"
                \/ \E p \in Present : state'[p] \in {"alive", "appearing"}
<1>1. RaceIInv /\ [RaceNext]_raceVars => [A => B]_raceVars
  <2> SUFFICES ASSUME RaceIInv, RaceNext, A PROVE B
    OBVIOUS
  <2>1. Cleanup
    BY DEF RaceNext, Handle_login, Delete_player, PauseOn, Unpause, Update_players,
           Check_collision, Race_game_over
  <2>2. \A p \in Present : state'[p] \in {"waiting", "appearing", "alive", "dead", "paused"}
    BY <2>1, CleanedState, RaceTypes
  <2>3. CASE NobodyThere
    <3>1. \A p \in Present : state'[p] \in {"paused", "waiting"} /\ state'[p] # "waiting"
      BY <2>3 DEF NobodyThere, Counted, Waiting
    <3>2. QED
      BY <3>1
  <2>4. CASE ~NobodyThere
    <3>1. ~Decided
      BY <2>1, <2>4 DEF Cleanup
    <3>2. Cardinality(Alive) > 1 \/ Cardinality(Alive) = 1
      BY <3>1 DEF Decided
    <3>3. Alive # {}
      BY <3>2, FS_EmptySet
    <3>4. PICK p \in Counted : state'[p] # "dead"
      BY <3>3 DEF Alive
    <3>5. p \in Present /\ state'[p] \in {"alive", "appearing"}
      BY <2>2, <3>4 DEF Counted
    <3>6. QED
      BY <3>5
  <2>5. QED
    BY <2>3, <2>4
<1>2. RaceSpec => [][A => B]_raceVars
  BY <1>1, RacesInductive, PTL DEF RaceSpec
<1>3. QED
  BY <1>2 DEF SomebodyRaces

(* Everyone has a base to himself for the next race, in the order of the   *)
(* laps: the insertion sort of Race_game_over.                             *)
THEOREM GridInOrder == RaceSpec => StartingGrid
<1> DEFINE A == phase = "over"
           B == \A p, q \in Present : p # q =>
                   /\ home_base'[p] # home_base'[q]
                   /\ ~Out(p) /\ best_lap[p] # 0 /\ (Out(q) \/ best_lap[p] < best_lap[q])
                      => home_base'[p] < home_base'[q]
<1>1. RaceIInv /\ [RaceNext]_raceVars => [A => B]_raceVars
  <2> SUFFICES ASSUME RaceIInv, RaceNext, A, NEW p \in Present, NEW q \in Present, p # q
               PROVE  /\ home_base'[p] # home_base'[q]
                      /\ ~Out(p) /\ best_lap[p] # 0 /\ (Out(q) \/ best_lap[p] < best_lap[q])
                         => home_base'[p] < home_base'[q]
    OBVIOUS
  <2>1. Race_game_over
    BY DEF RaceNext, Handle_login, Delete_player, PauseOn, Unpause, Update_players,
           Check_collision, Cleanup
  <2> DEFINE b == home_base'[p]
             c == home_base'[q]
             o == Order
  <2>2. b \in 1 .. Len(o) /\ o[b] = p
    BY <2>1, PlaceInOrder
  <2>3. c \in 1 .. Len(o) /\ o[c] = q
    BY <2>1, PlaceInOrder
  <2>4. Ordered(PlayersArray, Len(PlayersArray), o)
    BY OrderIs
  <2>5. Len(o) \in Nat /\ Sorted(o)
    BY <2>4, Places DEF Ordered, Everybody
  <2>6. best_lap[p] \in Nat /\ best_lap[q] \in Nat
    BY LapsAreTimes, RaceTypes
  <2> HIDE DEF b, c, o
  <2>7. b # c
    BY <2>2, <2>3
  <2>8. ASSUME ~Out(p), best_lap[p] # 0, Out(q) \/ best_lap[p] < best_lap[q], ~(b < c)
        PROVE  FALSE
    <3>1. c < b
      BY <2>2, <2>3, <2>5, <2>7, <2>8
    <3>2. ~Out(q) /\ best_lap[q] <= best_lap[p]
      BY <2>2, <2>3, <2>5, <2>8, <3>1 DEF Sorted, Timed
    <3>3. QED
      BY <2>6, <2>8, <3>2
  <2>9. QED
    BY <2>7, <2>8 DEF b, c
<1>2. RaceSpec => [][A => B]_raceVars
  BY <1>1, RacesInductive, PTL DEF RaceSpec
<1>3. QED
  BY <1>2 DEF StartingGrid

(* Check_tag leaves nobody who is paused or has left "it" as long as       *)
(* somebody can be: its second loop, which it would need for a stale id,   *)
(* is not.                                                                 *)
THEOREM TagGoesOn == RaceSpec => SomebodyIsIt
<1> DEFINE A == phase = "cleanup"
           B == \/ tagItPlayerId' \in Present /\ state'[tagItPlayerId'] # "paused"
                \/ tagItPlayerId' = NoId /\ \A p \in Present : state'[p] = "paused"
<1>1. RaceIInv /\ [RaceNext]_raceVars => [A => B]_raceVars
  <2> SUFFICES ASSUME RaceIInv, RaceNext, A PROVE B
    OBVIOUS
  <2>1. Cleanup
    BY DEF RaceNext, Handle_login, Delete_player, PauseOn, Unpause, Update_players,
           Check_collision, Race_game_over
  <2>2. Check_tag
    BY <2>1 DEF Cleanup
  <2>3. CASE tagItPlayerId \in Taggable
    BY <2>2, <2>3 DEF Check_tag, Taggable
  <2>4. CASE tagItPlayerId \notin Taggable /\ Taggable = {}
    BY <2>2, <2>4 DEF Check_tag, Taggable
  <2>5. CASE tagItPlayerId \notin Taggable /\ Taggable # {}
    <3>1. tagItPlayerId' \in Tagged
      BY <2>2, <2>5 DEF Check_tag
    <3>2. tagItPlayerId' \in Taggable
      BY <3>1, TaggedCan
    <3>3. QED
      BY <3>2 DEF Taggable
  <2>6. QED
    BY <2>3, <2>4, <2>5
<1>2. RaceSpec => [][A => B]_raceVars
  BY <1>1, RacesInductive, PTL DEF RaceSpec
<1>3. QED
  BY <1>2 DEF SomebodyIsIt

==============================================================================
