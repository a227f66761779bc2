-------------------------------- MODULE Ingest ---------------------------------
(***************************************************************************)
(* How packets reach the sketch and the traffic counters of an agent.      *)
(*                                                                         *)
(*   pcap    the capture loop sends source addresses                       *)
(*   udp     the agent reads datagrams of addresses                        *)
(*   bridge  cmd/serial-bridge collects lines and calls InjectIPs          *)
(*   replay  cmd/dataset-replay does so with the rows of a dataset         *)
(*                                                                         *)
(* Addresses and, but for pcap, byte lengths go through channels of        *)
(* their own, each drained by a goroutine; who finds a channel full drops. *)
(* Packets are numbered in the order they are read.  A call is given up    *)
(* after five seconds, whether or not its handler has run.                 *)
(***************************************************************************)
EXTENDS Integers, Sequences, FiniteSets, Functions

CONSTANTS
  MaxPackets,
  ChanSize,    \* -ips-buf, the size of both channels
  BatchSize    \* -batch, and the addresses a datagram holds at most

VARIABLES
  source,      \* "pcap", "udp", "bridge" or "replay"
  reader,      \* the loop that reads packets: "reading", "calling", "spinning" or "ended"
  read,        \* packets read so far
  batch,       \* packets of bridge or replay that await their call
  calls,       \* running handlers: the packets left, and whether the first waits for its bytes
  ipsChan, bytesChan,
  held,        \* the packet in the hands of the drain goroutine, 0 if none
  inserted,    \* packets in the sketch
  limited,     \* packets stopped by the limiter
  packets,     \* wm.Stats, packets recorded
  dropped,     \* packets whose address found the channel full
  bytesDropped, \* packets whose byte length did
  unsent       \* packets of failed calls, of a batch left behind, or read when Run stopped

IngestAssumption == MaxPackets \in Nat /\ ChanSize \in Nat /\ BatchSize \in Nat

sketch == <<inserted, limited, packets>>
channels == <<ipsChan, bytesChan, held>>
losses == <<dropped, bytesDropped, unsent>>
vars == <<source, reader, read, batch, calls, channels, sketch, losses>>

Init ==
  /\ source \in {"pcap", "udp", "bridge", "replay"}
  /\ reader = "reading"
  /\ read = 0
  /\ batch = <<>>
  /\ calls = {}
  /\ ipsChan = <<>> /\ bytesChan = 0 /\ held = 0
  /\ inserted = {} /\ limited = {} /\ packets = 0
  /\ dropped = {} /\ bytesDropped = 0 /\ unsent = {}

Handler(s) == [left |-> s, address |-> TRUE]

------------------------------------------------------------------------------
(* Channels *)

\* select { case ipsChan <- ip: default: }
SendAddress(p) ==
  IF Len(ipsChan) < ChanSize
  THEN ipsChan' = Append(ipsChan, p) /\ UNCHANGED dropped
  ELSE dropped' = dropped \cup {p} /\ UNCHANGED ipsChan

SendBytes ==
  IF bytesChan < ChanSize
  THEN bytesChan' = bytesChan + 1 /\ UNCHANGED bytesDropped
  ELSE bytesDropped' = bytesDropped + 1 /\ UNCHANGED bytesChan

\* InjectIPs, and the loop over a datagram: the address, then the byte length.
Handle ==
  \E c \in calls :
    /\ c.left # <<>>
    /\ IF c.address
       THEN /\ SendAddress(Head(c.left))
            /\ calls' = (calls \ {c}) \cup {[c EXCEPT !.address = FALSE]}
            /\ UNCHANGED <<bytesChan, bytesDropped>>
       ELSE /\ SendBytes
            /\ calls' = (calls \ {c}) \cup {Handler(Tail(c.left))}
            /\ UNCHANGED <<ipsChan, dropped>>
    /\ UNCHANGED <<source, reader, read, batch, held, sketch, unsent>>

Return ==
  /\ Handler(<<>>) \in calls
  /\ calls' = calls \ {Handler(<<>>)}
  /\ UNCHANGED <<source, reader, read, batch, channels, sketch, losses>>

------------------------------------------------------------------------------
(* The sources *)

\* PcapPacketSource.Run
Capture ==
  /\ source = "pcap" /\ reader = "reading"
  /\ read < MaxPackets
  /\ read' = read + 1
  /\ SendAddress(read')
  /\ UNCHANGED <<source, reader, batch, calls, bytesChan, held, sketch, bytesDropped, unsent>>

\* PcapPacketSource.Stop, or an error of the handle: Run returns, with the
\* packet it has just read if Stop came between.
CaptureEnds ==
  /\ source = "pcap" /\ reader = "reading"
  /\ reader' = "ended"
  /\ \/ UNCHANGED <<read, unsent>>
     \/ read < MaxPackets /\ read' = read + 1 /\ unsent' = unsent \cup {read'}
  /\ UNCHANGED <<source, batch, calls, channels, sketch, dropped, bytesDropped>>

\* One goroutine reads the datagrams, one after the other.
Datagram(n) ==
  /\ source = "udp" /\ calls = {}
  /\ read + n <= MaxPackets
  /\ read' = read + n
  /\ calls' = {Handler([i \in 1 .. n |-> read + i])}
  /\ UNCHANGED <<source, reader, batch, channels, sketch, losses>>

\* A packet joins the batch; a full batch is sent.
Collect ==
  /\ reader = "reading"
  /\ read < MaxPackets
  /\ read' = read + 1
  /\ batch' = Append(batch, read')
  /\ reader' = IF Len(batch') >= BatchSize THEN "calling" ELSE "reading"
  /\ UNCHANGED <<source, calls, channels, sketch, losses>>

\* A line of the bridge.
Line == source = "bridge" /\ Collect

\* A row of the dataset.
DatasetRow == source = "replay" /\ Collect

\* Mutant of Call: a batch whose call failed is sent again with the next.
CallKeeps ==
  /\ reader \in {"calling", "flushing"}
  /\ reader' = IF reader = "calling" THEN "reading" ELSE "ended"
  /\ \/ calls' = calls \cup {Handler(batch)} /\ batch' = <<>>
     \/ calls' = calls \cup {Handler(batch)} /\ UNCHANGED batch
  /\ UNCHANGED <<source, read, channels, sketch, losses>>

\* The batch is given up whatever the call returned; it may have been handled.
Call ==
  /\ reader \in {"calling", "flushing"}
  /\ reader' = IF reader = "calling" THEN "reading" ELSE "ended"
  /\ batch' = <<>>
  /\ \/ calls' = calls \cup {Handler(batch)} /\ UNCHANGED unsent
     \/ unsent' = unsent \cup Range(batch) /\ UNCHANGED calls
  /\ UNCHANGED <<source, read, channels, sketch, dropped, bytesDropped>>

\* An error of the serial port leaves the loop and sends what is there.
ReadError ==
  /\ source = "bridge" /\ reader = "reading"
  /\ reader' = IF batch = <<>> THEN "ended" ELSE "flushing"
  /\ UNCHANGED <<source, read, batch, calls, channels, sketch, losses>>

\* At the end of the input there is nothing to scan and no error.
EndOfInput ==
  /\ source = "bridge" /\ reader = "reading"
  /\ reader' = "spinning"
  /\ UNCHANGED <<source, read, batch, calls, channels, sketch, losses>>

\* A signal ends the bridge at once, with its batch.
BridgeStop ==
  /\ source = "bridge" /\ reader \in {"reading", "spinning"}
  /\ reader' = "ended"
  /\ unsent' = unsent \cup Range(batch)
  /\ batch' = <<>>
  /\ UNCHANGED <<source, read, calls, channels, sketch, dropped, bytesDropped>>

\* After the last row the replay writes its ground truth and ends, with what
\* is left of the batch.
ReplayEnds ==
  /\ source = "replay" /\ reader = "reading"
  /\ reader' = "ended"
  /\ unsent' = unsent \cup Range(batch)
  /\ batch' = <<>>
  /\ UNCHANGED <<source, read, calls, channels, sketch, dropped, bytesDropped>>

------------------------------------------------------------------------------
(* Drain goroutines *)

Take ==
  /\ held = 0 /\ ipsChan # <<>>
  /\ held' = Head(ipsChan)
  /\ ipsChan' = Tail(ipsChan)
  /\ UNCHANGED <<source, reader, read, batch, calls, bytesChan, sketch, losses>>

\* ShouldAllow decides; with pcap the packet is recorded here.
Insert ==
  /\ held # 0
  /\ held' = 0
  /\ \/ limited' = limited \cup {held} /\ UNCHANGED <<inserted, packets>>
     \/ /\ inserted' = inserted \cup {held}
        /\ packets' = IF source = "pcap" THEN packets + 1 ELSE packets
        /\ UNCHANGED limited
  /\ UNCHANGED <<source, reader, read, batch, calls, ipsChan, bytesChan, losses>>

TakeBytes ==
  /\ bytesChan > 0
  /\ bytesChan' = bytesChan - 1
  /\ packets' = packets + 1
  /\ UNCHANGED <<source, reader, read, batch, calls, ipsChan, held, inserted, limited, losses>>

Next ==
  \/ Handle \/ Return
  \/ Capture \/ CaptureEnds
  \/ \E n \in 1 .. BatchSize : Datagram(n)
  \/ Line \/ DatasetRow \/ Call \/ ReadError \/ EndOfInput \/ BridgeStop \/ ReplayEnds
  \/ Take \/ Insert \/ TakeBytes

Spec == Init /\ [][Next]_vars

------------------------------------------------------------------------------
(* Properties *)

Quiet == reader \in {"reading", "ended"} /\ calls = {} /\ batch = <<>> /\ ipsChan = <<>> /\ bytesChan = 0 /\ held = 0

Fates == <<inserted, limited, dropped, unsent>>

\* No packet is taken twice and none disappears: when everything has run dry,
\* each packet is in the sketch, was stopped by the limiter, met a full
\* channel, or was lost on the way to it.  The traffic counters, which the
\* detectors compare with the sketch, count with pcap what was inserted, and
\* otherwise all that was handed over but for byte lengths that were dropped,
\* the packets that the limiter stopped among them.
Accounting ==
  Quiet =>
    /\ UNION Range(Fates) = 1 .. read
    /\ Cardinality(inserted) + Cardinality(limited) + Cardinality(dropped) + Cardinality(unsent) = read
    /\ packets = IF source = "pcap" THEN Cardinality(inserted)
                 ELSE read - Cardinality(unsent) - bytesDropped
==============================================================================
