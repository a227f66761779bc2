---------------------------- MODULE WindowManager -----------------------------
(***************************************************************************)
(* ddos/window.WindowManager with ddos/capture.TrafficStats: two sketches  *)
(* that change places every window, and the goroutines that fill and       *)
(* count them.                                                             *)
(*                                                                         *)
(* A rotation holds wm.mu, but everybody else takes only the pointer to a  *)
(* sketch under it and works on the sketch, or on the atomic counters,     *)
(* after the unlock.  A sketch is the set of packets it was given; that    *)
(* its calls look atomic from outside is what module Hllpp shows.          *)
(*                                                                         *)
(* Windows have no number here: age[p] counts the rotations since the      *)
(* insert of p took its pointer, up to MaxAge.                             *)
(***************************************************************************)
EXTENDS Integers, FiniteSets

CONSTANTS
  Packets,   \* packets under way or in a sketch; they are used over and over
  MaxAge,    \* bound: rotations told apart, at least 2
  MaxCount   \* bound: packets recorded in one window

ASSUME WindowManagerAssumption ==
  /\ IsFiniteSet(Packets)
  /\ MaxAge \in Nat /\ MaxAge >= 2
  /\ MaxCount \in Nat \ {0}

Slots == {0, 1}
Ages == 0 .. MaxAge

VARIABLES
  current,    \* the slot that wm.current points to; wm.previous is the other
  content,    \* slot -> the packets in its sketch
  rotPc,      \* next step of the rotation goroutine
  packets,    \* Stats.packets
  bytes,      \* Stats.bytes, in packets
  taken,      \* the packet counter as the rotation swapped it out
  prevStats,  \* wm.prevStats
  packetPc,   \* next step of the capture path for a packet
  slot,       \* the pointer its insert took
  checkPc,    \* next step of the check goroutine
  checkSlot,  \* the pointer it took
  features,   \* the ages of the windows it has counted so far
  spoiled,    \* history: checks since the last rotation that stored other windows
              \* than the current one and the one before
  stopPc,     \* main: running, in Stop, or past it
  age         \* history: rotations since the insert of a packet took its pointer

sketches == <<current, content>>
stats == <<packets, bytes, taken, prevStats>>
capture == <<packetPc, slot, age>>
check == <<checkPc, checkSlot, features, spoiled>>
vars == <<sketches, rotPc, stats, capture, check, stopPc>>

previous == 1 - current

TypeOK ==
  /\ current \in Slots
  /\ content \in [Slots -> SUBSET Packets]
  /\ rotPc \in {"idle", "packets", "bytes", "done"}
  /\ packets \in 0 .. MaxCount /\ bytes \in 0 .. MaxCount
  /\ taken \in 0 .. MaxCount
  /\ prevStats \in [packets : 0 .. MaxCount, bytes : 0 .. MaxCount]
  /\ packetPc \in [Packets -> {"new", "insert", "packets", "bytes", "old"}]
  /\ slot \in [Packets -> Slots]
  /\ checkPc \in {"idle", "current", "loadPrevious", "previous", "stats", "done"}
  /\ checkSlot \in Slots
  /\ features \in [current : Ages, previous : Ages]
  /\ spoiled \in Nat
  /\ stopPc \in {"running", "stopping", "stopped"}
  /\ age \in [Packets -> Ages]

Init ==
  /\ current = 0
  /\ content = [s \in Slots |-> {}]
  /\ rotPc = "idle"
  /\ packets = 0 /\ bytes = 0 /\ taken = 0
  /\ prevStats = [packets |-> 0, bytes |-> 0]
  /\ packetPc = [p \in Packets |-> "new"]
  /\ slot = [p \in Packets |-> 0]
  /\ checkPc = "idle" /\ checkSlot = 0
  /\ features = [current |-> 0, previous |-> 0]
  /\ spoiled = 0
  /\ stopPc = "running"
  /\ age = [p \in Packets |-> 0]

\* wm.mu is free for readers.
Readable == rotPc \in {"idle", "done"}

Older(a) == IF a < MaxAge THEN a + 1 ELSE MaxAge

------------------------------------------------------------------------------
(* rotationLoop *)

\* Mutant of RotateSwap: the sketch is not reset.
RotateSwapNoReset ==
  /\ rotPc = "idle"
  /\ current' = previous
  /\ UNCHANGED content
  /\ age' = [p \in Packets |-> Older(age[p])]
  /\ features' = IF checkPc = "idle" THEN features
                 ELSE [current |-> Older(features.current), previous |-> Older(features.previous)]
  /\ spoiled' = 0
  /\ rotPc' = "packets"
  /\ UNCHANGED <<stats, packetPc, slot, checkPc, checkSlot, stopPc>>

\* rotate with wm.mu held: the new current sketch is the old previous, emptied.
RotateSwap ==
  /\ rotPc = "idle"
  /\ current' = previous
  /\ content' = [content EXCEPT ![previous] = {}]
  /\ age' = [p \in Packets |-> Older(age[p])]
  /\ features' = IF checkPc = "idle" THEN features
                 ELSE [current |-> Older(features.current), previous |-> Older(features.previous)]
  /\ spoiled' = 0
  /\ rotPc' = "packets"
  /\ UNCHANGED <<stats, packetPc, slot, checkPc, checkSlot, stopPc>>

\* Snapshot: two exchanges, one after the other.
RotatePackets ==
  /\ rotPc = "packets"
  /\ taken' = packets
  /\ packets' = 0
  /\ rotPc' = "bytes"
  /\ UNCHANGED <<sketches, bytes, prevStats, capture, check, stopPc>>

\* The second exchange; both counts are kept for the check, and wm.mu released.
RotateBytes ==
  /\ rotPc = "bytes"
  /\ prevStats' = [packets |-> taken, bytes |-> bytes]
  /\ bytes' = 0
  /\ taken' = 0
  /\ rotPc' = "idle"
  /\ UNCHANGED <<sketches, packets, capture, check, stopPc>>

RotateStop ==
  /\ rotPc = "idle"
  /\ stopPc # "running"
  /\ rotPc' = "done"
  /\ UNCHANGED <<sketches, stats, capture, check, stopPc>>

------------------------------------------------------------------------------
(* The capture path: WindowManager.Insert, then Stats.RecordPacket *)

\* A packet nobody will see again makes room for a new one.
InsertLoad(p) ==
  /\ Readable
  /\ \/ packetPc[p] = "new"
     \/ packetPc[p] = "old" /\ \A s \in Slots : p \notin content[s]
  /\ slot' = [slot EXCEPT ![p] = current]
  /\ age' = [age EXCEPT ![p] = 0]
  /\ packetPc' = [packetPc EXCEPT ![p] = "insert"]
  /\ UNCHANGED <<sketches, rotPc, stats, check, stopPc>>

\* Mutant of Insert: the pointer is read again, without wm.mu.
InsertReloaded(p) ==
  /\ packetPc[p] = "insert"
  /\ content' = [content EXCEPT ![current] = @ \cup {p}]
  /\ packetPc' = [packetPc EXCEPT ![p] = "packets"]
  /\ UNCHANGED <<current, rotPc, stats, slot, age, check, stopPc>>

Insert(p) ==
  /\ packetPc[p] = "insert"
  /\ content' = [content EXCEPT ![slot[p]] = @ \cup {p}]
  /\ packetPc' = [packetPc EXCEPT ![p] = "packets"]
  /\ UNCHANGED <<current, rotPc, stats, slot, age, check, stopPc>>

RecordPackets(p) ==
  /\ packetPc[p] = "packets"
  /\ packets < MaxCount
  /\ packets' = packets + 1
  /\ packetPc' = [packetPc EXCEPT ![p] = "bytes"]
  /\ UNCHANGED <<sketches, rotPc, bytes, taken, prevStats, slot, age, check, stopPc>>

RecordBytes(p) ==
  /\ packetPc[p] = "bytes"
  /\ bytes < MaxCount
  /\ bytes' = bytes + 1
  /\ packetPc' = [packetPc EXCEPT ![p] = "old"]
  /\ UNCHANGED <<sketches, rotPc, packets, taken, prevStats, slot, age, check, stopPc>>

------------------------------------------------------------------------------
(* checkLoop: runCheck takes two pointers and the traffic statistics *)

CheckLoad ==
  /\ Readable
  /\ checkPc = "idle"
  /\ checkSlot' = current
  /\ features' = [current |-> 0, previous |-> 0]
  /\ checkPc' = "current"
  /\ UNCHANGED <<sketches, rotPc, stats, capture, spoiled, stopPc>>

\* The window that a slot holds: the current one, or the one before.
AgeOf(s) == IF s = current THEN 0 ELSE 1

CheckCurrent ==
  /\ checkPc = "current"
  /\ features' = [features EXCEPT !.current = AgeOf(checkSlot)]
  /\ checkPc' = "loadPrevious"
  /\ UNCHANGED <<sketches, rotPc, stats, capture, checkSlot, spoiled, stopPc>>

\* Mutant of CheckLoadPrevious: the current slot again.
CheckLoadOther ==
  /\ Readable
  /\ checkPc = "loadPrevious"
  /\ checkSlot' = current
  /\ checkPc' = "previous"
  /\ UNCHANGED <<sketches, rotPc, stats, capture, features, spoiled, stopPc>>

CheckLoadPrevious ==
  /\ Readable
  /\ checkPc = "loadPrevious"
  /\ checkSlot' = previous
  /\ checkPc' = "previous"
  /\ UNCHANGED <<sketches, rotPc, stats, capture, features, spoiled, stopPc>>

CheckPrevious ==
  /\ checkPc = "previous"
  /\ features' = [features EXCEPT !.previous = AgeOf(checkSlot)]
  /\ checkPc' = "stats"
  /\ UNCHANGED <<sketches, rotPc, stats, capture, checkSlot, spoiled, stopPc>>

\* What a check should store: the current window and the last completed one.
Neighbours == [current |-> 0, previous |-> 1]

\* prevStats is read and the features are stored.
CheckStore ==
  /\ Readable
  /\ checkPc = "stats"
  /\ spoiled' = IF features = Neighbours THEN spoiled ELSE spoiled + 1
  /\ features' = [current |-> 0, previous |-> 0]
  /\ checkSlot' = 0
  /\ checkPc' = "idle"
  /\ UNCHANGED <<sketches, rotPc, stats, capture, stopPc>>

\* Mutant of CheckStop: the goroutine is told when Stop is over.
CheckStopAfter ==
  /\ checkPc = "idle"
  /\ stopPc = "stopped"
  /\ checkPc' = "done"
  /\ UNCHANGED <<sketches, rotPc, stats, capture, checkSlot, features, spoiled, stopPc>>

\* The stop channel is closed.
CheckStop ==
  /\ checkPc = "idle"
  /\ stopPc # "running"
  /\ checkPc' = "done"
  /\ UNCHANGED <<sketches, rotPc, stats, capture, checkSlot, features, spoiled, stopPc>>

------------------------------------------------------------------------------
(* Stop: close the channel, wait for rotation and check *)

StopBegin ==
  /\ stopPc = "running"
  /\ stopPc' = "stopping"
  /\ UNCHANGED <<sketches, rotPc, stats, capture, check>>

StopEnd ==
  /\ stopPc = "stopping"
  /\ rotPc = "done" /\ checkPc = "done"
  /\ stopPc' = "stopped"
  /\ UNCHANGED <<sketches, rotPc, stats, capture, check>>

------------------------------------------------------------------------------
Rotation == RotateSwap \/ RotatePackets \/ RotateBytes \/ RotateStop
Capture(p) == InsertLoad(p) \/ Insert(p) \/ RecordPackets(p) \/ RecordBytes(p)
Checking ==
  \/ CheckLoad \/ CheckCurrent \/ CheckLoadPrevious \/ CheckPrevious \/ CheckStore
  \/ CheckStop

Next ==
  \/ Rotation
  \/ \E p \in Packets : Capture(p)
  \/ Checking
  \/ StopBegin \/ StopEnd

Spec == Init /\ [][Next]_vars

\* Tickers fire, a lock is had in the end, and a select whose stop channel is
\* closed does not choose the ticker for ever.
FairSpec ==
  /\ Spec
  /\ SF_vars(Rotation) /\ SF_vars(RotateStop)
  /\ SF_vars(Checking) /\ SF_vars(CheckStop)
  /\ WF_vars(StopEnd)

------------------------------------------------------------------------------
(* Properties *)

Inserted(p) == packetPc[p] \in {"packets", "bytes", "old"}

\* A packet whose insert is done counts for the window in which the insert
\* began: it is in the current sketch until the window ends and in the previous
\* one until the next ends, even when the rotation came between pointer and
\* insert.
CountedInItsWindow ==
  \A p \in Packets : Inserted(p) => /\ age[p] = 0 => p \in content[current]
                                    /\ age[p] = 1 => p \in content[previous]

\* A packet that was inserted by the end of the window after its own is in no
\* sketch once that window ends: a rotation leaves nothing behind.
ForgottenAfterTwo ==
  [][\A p \in Packets : age[p] = 1 /\ age'[p] = 2 /\ Inserted(p)
       => \A s \in Slots : p \notin content'[s]]_vars

\* Stop returns, although rotation and check may be at work.
StopReturns == stopPc = "stopping" ~> stopPc = "stopped"

\* A check that a rotation overtakes may store two counts of one window, or of
\* windows that are no neighbours, for no lock spans its sections.  A rotation
\* spoils at most one check, whichever section it falls into: the next one
\* compares the current window with the last completed one again.
RotationSpoilsOne == spoiled <= 1

\* What the comment of PreviousCount says: it counts a window that is over.  It
\* does not hold: a rotation between the pointer and the count empties that sketch
\* and makes it the current one.
PreviousIsCompleted == checkPc = "stats" => features.previous >= 1
==============================================================================
