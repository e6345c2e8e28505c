---------------------------- MODULE FrameWindow ----------------------------
(***************************************************************************)
(* The client's window of frame updates that have been read from the       *)
(* socket but not drawn yet: Net_read and Net_input of client/netclient.c. *)
(*                                                                         *)
(* A packet has the loop number of its frame update, or 0 when it does not *)
(* start with one (a quit packet, or reliable data on its own): such a     *)
(* packet is unidentifiable.  Packets are told apart by the order in which *)
(* they arrive.  The iterations of Net_input's first loop are steps, with  *)
(* arrivals in between; the rest of Net_input is one more.                 *)
(***************************************************************************)
EXTENDS Integers, Sequences, Functions

CONSTANTS
    WindowSize,     \* receive_window_size
    MaxLoops,       \* bound: the loop numbers of frames
    MaxArrivals     \* bound: the packets that arrive

ASSUME WindowSizes ==
    /\ WindowSize \in Nat \ {0}
    /\ MaxLoops \in Nat /\ MaxArrivals \in Nat

Slot == 1 .. WindowSize
Packet == [loops : 0 .. MaxLoops, at : 1 .. MaxArrivals]
Empty == [loops |-> 0, at |-> 0]

VARIABLES
    socket,         \* what has arrived and has not been read
    arrived,        \* how many packets have arrived so far
    Frames,         \* the window
    pc,             \* "idle", or in Net_input: "reading", "process"
    i, oldest_frame,    \* Net_input's variables: slots of the window
    last_loops,     \* of the last frame shown
    newest,         \* the newest frame read so far
    done            \* the packet handed to Net_packet last

vars == <<socket, arrived, Frames, pc, i, oldest_frame, last_loops, newest, done>>

IsFilled(s) == Frames[s].at > 0
IsFrame(s) == Frames[s].loops > 0
IsUnidentifiable(s) == IsFilled(s) /\ ~IsFrame(s)

Init ==
    /\ socket = <<>>
    /\ arrived = 0
    /\ Frames = [s \in Slot |-> Empty]
    /\ pc = "idle"
    /\ i = 1 /\ oldest_frame = 1
    /\ last_loops = 0
    /\ newest = 0
    /\ done = Empty

(* A packet arrives: a frame, maybe late or repeated, or something else. *)
Arrive ==
    /\ arrived < MaxArrivals
    /\ arrived' = arrived + 1
    /\ \E l \in 0 .. MaxLoops :
          socket' = Append(socket, [loops |-> l, at |-> arrived'])
    /\ UNCHANGED <<Frames, pc, i, oldest_frame, last_loops, newest, done>>

-----------------------------------------------------------------------------
(* The first loop: read frames until there are no more, dropping the       *)
(* oldest ones that do not fit the window.                                 *)

Start ==
    /\ pc = "idle" /\ pc' = "reading"
    /\ i' = 1 /\ oldest_frame' = 1
    /\ UNCHANGED <<socket, arrived, Frames, last_loops, newest, done>>

(* Bug: the frame in the last slot is dropped, oldest or not. *)
DropOldestLast(w, o) == [w EXCEPT ![WindowSize] = Empty]

(* Bug: the oldest packet leaves a gap. *)
DropOldestGap(w, o) == [w EXCEPT ![o] = Empty]

(* Drop the oldest packet, switching buffers to prevent gaps. *)
DropOldest(w, o) ==
    IF w[o].loops < w[WindowSize].loops
    THEN [w EXCEPT ![o] = w[WindowSize], ![WindowSize] = Empty]
    ELSE [w EXCEPT ![WindowSize] = Empty]

(* The end of an iteration for slot i, when window w has a frame there and *)
(* o is its oldest one up to there.                                        *)
Iterated(w, o) ==
    IF i = WindowSize /\ i > 1
    THEN /\ Frames' = DropOldest(w, o)
         /\ oldest_frame' = 1 /\ i' = 1 /\ UNCHANGED pc
    ELSE /\ Frames' = w /\ oldest_frame' = o
         /\ IF i < WindowSize THEN i' = i + 1 /\ UNCHANGED pc
                              ELSE pc' = "process" /\ UNCHANGED i

(* The slot contains a frame already. *)
Already_frame ==
    /\ pc = "reading" /\ IsFrame(i)
    /\ LET oldest == Frames[oldest_frame].loops
       IN  Iterated(Frames, IF Frames[i].loops < oldest \/ oldest = 0
                            THEN i ELSE oldest_frame)
    /\ UNCHANGED <<socket, arrived, last_loops, newest, done>>

(* It contains an unidentifiable packet: no more input until this one is   *)
(* processed.                                                              *)
Already_unidentifiable ==
    /\ pc = "reading" /\ IsUnidentifiable(i)
    /\ pc' = "process"
    /\ UNCHANGED <<socket, arrived, Frames, i, oldest_frame, last_loops,
                   newest, done>>

Reads == pc = "reading" /\ ~IsFilled(i)

(* Net_read finds nothing.  At the first slot there is nothing to do. *)
Read_nothing ==
    /\ Reads /\ socket = <<>>
    /\ pc' = IF i = 1 THEN "idle" ELSE "process"
    /\ UNCHANGED <<socket, arrived, Frames, i, oldest_frame, last_loops,
                   newest, done>>

Read_unidentifiable ==
    /\ Reads /\ socket # <<>> /\ Head(socket).loops = 0
    /\ Frames' = [Frames EXCEPT ![i] = Head(socket)]
    /\ socket' = Tail(socket)
    /\ pc' = "process"
    /\ UNCHANGED <<arrived, i, oldest_frame, last_loops, newest, done>>

(* Bug: duplicates of frames in the window are not noticed. *)
IsStaleShownOnly(l) == l <= last_loops

(* Net_read drops frames not newer than the last one shown and goes on,    *)
(* Net_input drops duplicates of those in the window.                      *)
IsStale(l) == l <= last_loops \/ \E j \in 1 .. i - 1 : Frames[j].loops = l

Read_stale ==
    /\ Reads /\ socket # <<>> /\ Head(socket).loops > 0
    /\ IsStale(Head(socket).loops)
    /\ socket' = Tail(socket)
    /\ UNCHANGED <<arrived, Frames, pc, i, oldest_frame, last_loops, newest,
                   done>>

Read_frame ==
    /\ Reads /\ socket # <<>> /\ Head(socket).loops > 0
    /\ ~IsStale(Head(socket).loops)
    /\ LET w == [Frames EXCEPT ![i] = Head(socket)]
       IN  Iterated(w, IF w[i].loops < w[oldest_frame].loops
                       THEN i ELSE oldest_frame)
    /\ newest' = IF Head(socket).loops > newest THEN Head(socket).loops
                                                ELSE newest
    /\ socket' = Tail(socket)
    /\ UNCHANGED <<arrived, last_loops, done>>

-----------------------------------------------------------------------------
(* The rest: find the oldest packet and process it.                        *)

(* The last slot before an empty one. *)
last_frame ==
    CHOOSE s \in Slot :
        /\ \A r \in 2 .. s : IsFilled(r)
        /\ s < WindowSize => ~IsFilled(s + 1)

(* Bug: the packet in the first slot is processed first. *)
OldestFirstSlot == 1

(* Frames before unidentifiable packets, which arrived last. *)
Oldest ==
    LET found == {s \in 1 .. last_frame : IsFrame(s)}
    IN  IF found = {} THEN 1
        ELSE CHOOSE s \in found :
                \A r \in found : Frames[s].loops <= Frames[r].loops

(* Net_packet, then the last packet takes the place of this one. *)
Process ==
    /\ pc = "process" /\ pc' = "idle"
    /\ IF ~IsFilled(Oldest)
       THEN UNCHANGED <<Frames, last_loops, done>>
       ELSE LET o == Oldest
                l == Frames[o].loops
            IN  /\ done' = Frames[o]
                /\ last_loops' = IF l > last_loops THEN l ELSE last_loops
                /\ Frames' = [Frames EXCEPT ![o] = Frames[last_frame],
                                            ![last_frame] = Empty]
    /\ UNCHANGED <<socket, arrived, i, oldest_frame, newest>>

Net_input ==
    \/ Start \/ Already_frame \/ Already_unidentifiable
    \/ Read_nothing \/ Read_unidentifiable \/ Read_stale \/ Read_frame
    \/ Process

Next == Arrive \/ Net_input

Spec == Init /\ [][Next]_vars

(* The main loop calls Net_input again and again: on input, and as long as *)
(* it says that packets are buffered.                                      *)
FairSpec == Spec /\ WF_vars(Net_input)

-----------------------------------------------------------------------------
(* Properties.                                                             *)

TypeOK ==
    /\ socket \in Seq(Packet)
    /\ arrived \in 0 .. MaxArrivals
    /\ Frames \in [Slot -> Packet \cup {Empty}]
    /\ pc \in {"idle", "reading", "process"}
    /\ i \in Slot /\ oldest_frame \in Slot
    /\ last_loops \in 0 .. MaxLoops
    /\ newest \in 0 .. MaxLoops
    /\ done \in Packet \cup {Empty}

(* What is handed to Net_packet is older than all the frames that wait,    *)
(* and newer than all that have been shown: Receive_start never has to     *)
(* ignore a frame, and no frame waits for its turn in vain.                *)
WaitingIsNewer ==
    /\ \A s \in Slot : IsFrame(s) => Frames[s].loops > last_loops
    /\ \A s, r \in Slot : s # r /\ IsFrame(s) => Frames[s].loops # Frames[r].loops

(* An unidentifiable packet, which may hold anything, keeps its place:     *)
(* nothing that arrived after it is processed before it, and nothing that  *)
(* arrived before it waits any longer.                                     *)
KeepsPlace ==
    /\ \A s \in Slot : IsUnidentifiable(s)
          => done.at < Frames[s].at
             /\ \A r \in Slot \ {s} : IsFilled(r) => Frames[r].at < Frames[s].at
    /\ done.at > 0 /\ done.loops = 0
          => \A s \in Slot : IsFilled(s) => Frames[s].at > done.at

Window == {Frames[s] : s \in Slot} \ {Empty}
Held == Window \cup Range(socket)

(* A packet that is dropped unprocessed is a frame: quit packets are not   *)
(* lost.  It has been shown already, or waits a second time in the window, *)
(* or it is older than all the frames there: the newest is not lost.       *)
DropsOldest ==
    [][\A p \in Held \ (Held' \cup {done'}) :
          /\ p.loops > 0
          /\ \/ p.loops <= last_loops
             \/ \E f \in Window : f # p /\ f.loops = p.loops
             \/ /\ \A f \in Window' : f.loops > 0 => f.loops > p.loops
                /\ \E f \in Window' : f.loops > p.loops]_vars

(* Under FairSpec: the newest frame that has been read is shown, unless    *)
(* newer ones come.                                                        *)
NewestShown ==
    \A l \in 1 .. MaxLoops : newest = l ~> last_loops >= l
=============================================================================
