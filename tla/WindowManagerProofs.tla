-------------------------- MODULE WindowManagerProofs --------------------------
(***************************************************************************)
(* Theorems of WindowManager for every finite set of packets, whatever the *)
(* order of rotation, capture path, check loop and Stop.                   *)
(***************************************************************************)
EXTENDS WindowManager, TLAPS

LEMMA Bounds == MaxAge \in Nat /\ MaxAge >= 2 /\ MaxCount \in Nat /\ MaxCount >= 1
BY WindowManagerAssumption

LEMMA OlderAge ==
  ASSUME NEW a \in Ages
  PROVE  Older(a) \in Ages /\ Older(a) >= 1 /\ (Older(a) = 1 => a = 0) /\ (Older(a) = 2 => a \in {1, 2})
BY Bounds DEF Older, Ages

------------------------------------------------------------------------------
(* The types *)

LEMMA InitTyped == Init => TypeOK
BY Bounds DEF Init, TypeOK, Slots, Ages

LEMMA TypeStep ==
  ASSUME TypeOK, [Next]_vars
  PROVE  TypeOK'
<1> USE DEF sketches, stats, capture, check
<1>1. CASE RotateSwap
  <2>1. age' \in [Packets -> Ages] /\ features' \in [current : Ages, previous : Ages]
    BY <1>1, OlderAge DEF RotateSwap, TypeOK
  <2>2. current' \in Slots /\ content' \in [Slots -> SUBSET Packets]
    BY <1>1 DEF RotateSwap, TypeOK, previous, Slots
  <2>3. QED
    BY <1>1, <2>1, <2>2 DEF RotateSwap, TypeOK
<1>2. CASE RotatePackets
  BY <1>2, Bounds DEF RotatePackets, TypeOK
<1>3. CASE RotateBytes
  BY <1>3, Bounds DEF RotateBytes, TypeOK
<1>4. CASE RotateStop
  BY <1>4 DEF RotateStop, TypeOK
<1>5. ASSUME NEW p \in Packets, Capture(p)
      PROVE  TypeOK'
  <2>1. CASE InsertLoad(p)
    BY <2>1, Bounds DEF InsertLoad, TypeOK, Ages
  <2>2. CASE Insert(p)
    BY <2>2 DEF Insert, TypeOK
  <2>3. CASE RecordPackets(p)
    BY <2>3, Bounds DEF RecordPackets, TypeOK
  <2>4. CASE RecordBytes(p)
    BY <2>4, Bounds DEF RecordBytes, TypeOK
  <2>5. QED
    BY <1>5, <2>1, <2>2, <2>3, <2>4 DEF Capture
<1>6. CASE Checking
  <2>1. CASE CheckLoad
    BY <2>1, Bounds DEF CheckLoad, TypeOK, Ages
  <2>2. CASE CheckCurrent
    BY <2>2, Bounds DEF CheckCurrent, TypeOK, Ages, AgeOf
  <2>3. CASE CheckLoadPrevious
    BY <2>3 DEF CheckLoadPrevious, TypeOK, previous, Slots
  <2>4. CASE CheckPrevious
    BY <2>4, Bounds DEF CheckPrevious, TypeOK, Ages, AgeOf
  <2>5. CASE CheckStore
    BY <2>5, Bounds DEF CheckStore, TypeOK, Ages, Slots
  <2>6. CASE CheckStop
    BY <2>6 DEF CheckStop, TypeOK
  <2>7. QED
    BY <1>6, <2>1, <2>2, <2>3, <2>4, <2>5, <2>6 DEF Checking
<1>7. CASE StopBegin \/ StopEnd
  BY <1>7 DEF StopBegin, StopEnd, TypeOK
<1>8. CASE UNCHANGED vars
  BY <1>8 DEF vars, TypeOK
<1>9. QED
  BY <1>1, <1>2, <1>3, <1>4, <1>5, <1>6, <1>7, <1>8 DEF Next, Rotation

\* Pointers, ages and counters keep their types, the counters their bound.
THEOREM TypeCorrect == Spec => []TypeOK
<1>1. QED
  BY InitTyped, TypeStep, PTL DEF Spec

------------------------------------------------------------------------------
(* A packet counts in its window *)

\* The pointer a packet took, by the rotations since.
PointsToItsWindow ==
  \A p \in Packets : packetPc[p] # "new" => /\ age[p] = 0 => slot[p] = current
                                            /\ age[p] = 1 => slot[p] = previous

\* Only a finished insert puts a packet somewhere, and only there.
InItsSlotOnly ==
  \A p \in Packets, s \in Slots : p \in content[s] => Inserted(p) /\ s = slot[p]

\* It stays there until the second rotation.
StaysTwoWindows ==
  \A p \in Packets : Inserted(p) /\ age[p] \in {0, 1} => p \in content[slot[p]]

PacketInv == PointsToItsWindow /\ InItsSlotOnly /\ StaysTwoWindows

\* A rotation empties the slot of the packets that are two windows old.
LEMMA RotatePreserves ==
  ASSUME TypeOK, PacketInv, RotateSwap
  PROVE  PacketInv'
<1>1. /\ current' = previous /\ previous' = current
      /\ content' = [content EXCEPT ![previous] = {}]
      /\ UNCHANGED <<packetPc, slot>>
      /\ \A p \in Packets : age'[p] = Older(age[p])
  BY DEF RotateSwap, TypeOK, previous, Slots
<1>2. ASSUME NEW p \in Packets
      PROVE  /\ age'[p] # 0
             /\ age'[p] = 1 => age[p] = 0
  BY <1>1, OlderAge DEF TypeOK
<1>3. PointsToItsWindow'
  BY <1>1, <1>2 DEF PacketInv, PointsToItsWindow
<1>4. previous \in Slots /\ current \in Slots /\ previous # current
  BY DEF TypeOK, previous, Slots
<1>5. InItsSlotOnly'
  BY <1>1 DEF PacketInv, InItsSlotOnly, Inserted, TypeOK
<1>6. StaysTwoWindows'
  BY <1>1, <1>2, <1>4 DEF PacketInv, StaysTwoWindows, PointsToItsWindow, Inserted, TypeOK
<1>7. QED
  BY <1>3, <1>5, <1>6 DEF PacketInv

LEMMA CapturePreserves ==
  ASSUME TypeOK, PacketInv, NEW p \in Packets, Capture(p)
  PROVE  PacketInv'
<1> USE DEF TypeOK, PacketInv, PointsToItsWindow, InItsSlotOnly, StaysTwoWindows, Inserted, previous, sketches
<1>1. CASE InsertLoad(p)
  BY <1>1 DEF InsertLoad
<1>2. CASE Insert(p)
  BY <1>2 DEF Insert
<1>3. CASE RecordPackets(p)
  BY <1>3 DEF RecordPackets
<1>4. CASE RecordBytes(p)
  BY <1>4 DEF RecordBytes
<1>5. QED
  BY <1>1, <1>2, <1>3, <1>4 DEF Capture

\* Whatever is not a swap and not the capture path leaves sketches and packets alone.
LEMMA OthersLeavePackets ==
  ASSUME RotatePackets \/ RotateBytes \/ RotateStop \/ Checking \/ StopBegin \/ StopEnd \/ UNCHANGED vars
  PROVE  UNCHANGED <<current, content, packetPc, slot, age>>
BY DEF RotatePackets, RotateBytes, RotateStop, Checking, CheckLoad, CheckCurrent, CheckLoadPrevious,
       CheckPrevious, CheckStore, CheckStop, StopBegin, StopEnd, vars, sketches, capture

LEMMA PacketStep ==
  ASSUME TypeOK, PacketInv, [Next]_vars
  PROVE  PacketInv'
<1>1. CASE RotateSwap
  BY <1>1, RotatePreserves
<1>2. ASSUME NEW p \in Packets, Capture(p)
      PROVE  PacketInv'
  BY <1>2, CapturePreserves
<1>3. CASE RotatePackets \/ RotateBytes \/ RotateStop \/ Checking \/ StopBegin \/ StopEnd \/ UNCHANGED vars
  BY <1>3, OthersLeavePackets
     DEF PacketInv, PointsToItsWindow, InItsSlotOnly, StaysTwoWindows, Inserted, previous
<1>4. QED
  BY <1>1, <1>2, <1>3 DEF Next, Rotation

LEMMA InitPackets == Init => PacketInv
BY DEF Init, PacketInv, PointsToItsWindow, InItsSlotOnly, StaysTwoWindows, Inserted, Slots

LEMMA CountedAtOnce == PacketInv => CountedInItsWindow
BY DEF PacketInv, PointsToItsWindow, StaysTwoWindows, CountedInItsWindow, Inserted

\* For any number of packets and any order of pointer, insert and rotation: a
\* finished insert counts in the window it began in and in the one after.
THEOREM CountsInItsWindow == Spec => []CountedInItsWindow
<1>1. Spec => []PacketInv
  BY InitPackets, PacketStep, TypeCorrect, PTL DEF Spec
<1>2. QED
  BY <1>1, CountedAtOnce, PTL

\* Only a rotation ages a packet, and it empties the slot of the older window.
LEMMA RotationForgets ==
  ASSUME TypeOK, PacketInv, [Next]_vars, NEW p \in Packets,
         age[p] = 1, age'[p] = 2, Inserted(p), NEW s \in Slots
  PROVE  p \notin content'[s]
<1>1. ~(RotatePackets \/ RotateBytes \/ RotateStop \/ Checking \/ StopBegin \/ StopEnd \/ UNCHANGED vars)
  BY OthersLeavePackets
<1>2. ASSUME NEW q \in Packets, Capture(q)
      PROVE  FALSE
  BY <1>2 DEF Capture, InsertLoad, Insert, RecordPackets, RecordBytes, TypeOK
<1>3. RotateSwap
  BY <1>1, <1>2 DEF Next, Rotation
<1>4. content' = [content EXCEPT ![previous] = {}] /\ slot[p] = previous
  BY <1>3 DEF RotateSwap, PacketInv, PointsToItsWindow, Inserted
<1>5. QED
  BY <1>4 DEF PacketInv, InItsSlotOnly, TypeOK

\* For any number of packets the second rotation leaves none of an older window
\* behind.
THEOREM ForgetsAfterTwo == Spec => ForgottenAfterTwo
<1>1. Spec => []PacketInv
  BY InitPackets, PacketStep, TypeCorrect, PTL DEF Spec
<1>2. TypeOK /\ PacketInv /\ [Next]_vars =>
        [\A p \in Packets : age[p] = 1 /\ age'[p] = 2 /\ Inserted(p) => \A s \in Slots : p \notin content'[s]]_vars
  BY RotationForgets
<1>3. QED
  BY <1>1, <1>2, TypeCorrect, PTL DEF Spec, ForgottenAfterTwo

------------------------------------------------------------------------------
(* A rotation spoils one check *)

\* A check that no rotation has overtaken so far.
OnTrack ==
  /\ checkPc = "current" => checkSlot = current
  /\ checkPc = "loadPrevious" => features.current = 0
  /\ checkPc = "previous" => features.current = 0 /\ checkSlot = previous
  /\ checkPc = "stats" => features = Neighbours

\* Once a rotation has spoiled a check, those that follow are on track.
SpoiledInv == spoiled = 0 \/ (spoiled = 1 /\ OnTrack)

LEMMA SpoiledStep ==
  ASSUME TypeOK, SpoiledInv, [Next]_vars
  PROVE  SpoiledInv'
<1> USE DEF SpoiledInv, OnTrack, previous, sketches, check
<1>1. CASE RotateSwap
  BY <1>1 DEF RotateSwap
<1>2. CASE RotatePackets \/ RotateBytes \/ RotateStop \/ StopBegin \/ StopEnd
  BY <1>2 DEF RotatePackets, RotateBytes, RotateStop, StopBegin, StopEnd
<1>3. ASSUME NEW p \in Packets, Capture(p)
      PROVE  SpoiledInv'
  BY <1>3 DEF Capture, InsertLoad, Insert, RecordPackets, RecordBytes
<1>4. CASE CheckLoad \/ CheckLoadPrevious \/ CheckStop
  BY <1>4 DEF CheckLoad, CheckLoadPrevious, CheckStop
<1>5. CASE CheckCurrent
  BY <1>5 DEF CheckCurrent, AgeOf, TypeOK
<1>6. CASE CheckPrevious
  <2>1. /\ features'.current = features.current /\ features'.previous = AgeOf(checkSlot)
        /\ features' = [current |-> features'.current, previous |-> features'.previous]
    BY <1>6 DEF CheckPrevious, TypeOK
  <2>2. checkSlot = previous => AgeOf(checkSlot) = 1
    BY DEF AgeOf, TypeOK, Slots
  <2>3. OnTrack => OnTrack'
    BY <1>6, <2>1, <2>2 DEF CheckPrevious, Neighbours
  <2>4. QED
    BY <1>6, <2>3 DEF CheckPrevious
<1>7. CASE CheckStore
  <2>1. features = Neighbours \/ spoiled = 0
    BY <1>7 DEF CheckStore
  <2>2. spoiled' \in {0, 1} /\ OnTrack'
    BY <1>7, <2>1 DEF CheckStore
  <2>3. QED
    BY <2>2
<1>8. CASE UNCHANGED vars
  BY <1>8 DEF vars
<1>9. QED
  BY <1>1, <1>2, <1>3, <1>4, <1>5, <1>6, <1>7, <1>8 DEF Next, Rotation, Checking

\* However rotations fall between the sections of the checks, a rotation spoils
\* at most one: a check that begins after it compares the current window with the
\* last completed one, until the next rotation.
THEOREM RotationSpoilsOneCheck == Spec => []RotationSpoilsOne
<1>1. Init => SpoiledInv
  BY DEF Init, SpoiledInv
<1>2. SpoiledInv => RotationSpoilsOne
  BY DEF SpoiledInv, RotationSpoilsOne
<1>3. QED
  BY <1>1, <1>2, SpoiledStep, TypeCorrect, PTL DEF Spec
==============================================================================
