----------------------------- MODULE TmReassembly -----------------------------
(***************************************************************************)
(* Space Packets out of TM frames (ccsds/space_data_link.py, reassemble).  *)
(*                                                                         *)
(* The flight software cuts a stream of Space Packets into frames of fixed *)
(* size, which are numbered modulo Period, and may send frames of idle     *)
(* data between packets.  Frames are lost, or discarded by deframe for     *)
(* their CRC; the others reach reassemble in order.                        *)
(***************************************************************************)
EXTENDS Integers, Sequences, FiniteSets

CONSTANTS
    Streams,      \* streams the flight software may send, sequences of octets
    FieldSize,    \* octets of a frame's data field
    HeaderSize,   \* octets of a packet header, the last one tells the length
    Period,       \* VC_FRAME_COUNT_MAXIMUM
    MaxPacket,    \* MAX_PACKET_SIZE
    Misread,      \* packet length that an octet tells which is no length octet
    Kinds,        \* kinds of frames sent: "data", "idle", "bad" (pointer too large)
    MaxGap,       \* bound on the frames lost in a row
    None

(* An octet: the packet it belongs to, its place in it, the packet's size.  *)
Octets == [pkt : Nat \ {0}, at : Nat \ {0}, len : Nat \ {0}]
Follows(a, b) ==
    \/ b.pkt = a.pkt /\ b.at = a.at + 1 /\ b.len = a.len
    \/ b.pkt = a.pkt + 1 /\ a.at = a.len /\ b.at = 1

ASSUME ReassemblyAssumption ==
    /\ FieldSize \in Nat \ {0} /\ HeaderSize \in Nat \ {0} /\ Period \in Nat \ {0}
    /\ Misread \in Nat \ {0} /\ MaxGap \in Nat /\ MaxPacket \in Nat
    /\ Kinds \subseteq {"data", "idle", "bad"} /\ None \notin Nat
    /\ \A s \in Streams :
          /\ s \in Seq(Octets) /\ Len(s) % FieldSize = 0
          /\ \A j \in 1 .. Len(s) : s[j].at <= s[j].len /\ s[j].len \in HeaderSize + 1 .. MaxPacket
          /\ Len(s) > 0 => s[1].at = 1
          /\ \A j \in 1 .. Len(s) - 1 : Follows(s[j], s[j + 1])

VARIABLES
    stream, sent, count,    \* flight software: the stream, octets sent, frame number
    gap, missed,            \* frames lost since the last one that arrived; whether
                            \* a whole period was ever lost
    pending, last,          \* SpaceDataLinkFramerDeframer: pending, last_vc_count
    out,                    \* octets of the packets deframe returned
    got                     \* places of the stream's octets reassemble was given

vars == <<stream, sent, count, gap, missed, pending, last, out, got>>

Init ==
    /\ stream \in Streams /\ sent = 0 /\ count = 0
    /\ gap = 0 /\ missed = FALSE
    /\ pending = <<>> /\ last = None
    /\ out = <<>> /\ got = {}

-----------------------------------------------------------------------------
(* The frame to send next.                                                  *)

Places == sent + 1 .. sent + FieldSize
Field == SubSeq(stream, sent + 1, sent + FieldSize)
Starts == {j \in 1 .. FieldSize : Field[j].at = 1}
First == CHOOSE j \in Starts : \A i \in Starts : j <= i

More == sent < Len(stream)
CanIdle == sent > 0 => stream[sent].at = stream[sent].len
CanSend(kind) == IF kind = "idle" THEN CanIdle ELSE More

Sent(kind) ==
    /\ kind \in Kinds /\ CanSend(kind)
    /\ sent' = IF kind = "idle" THEN sent ELSE sent + FieldSize
    /\ count' = (count + 1) % Period

Lose ==
    /\ gap < MaxGap
    /\ \E kind \in Kinds : Sent(kind)
    /\ gap' = gap + 1 /\ missed' = (missed \/ gap' >= Period)
    /\ UNCHANGED <<stream, pending, last, out, got>>

-----------------------------------------------------------------------------
(* split_complete_packets: the whole packets at the start of data, which is *)
(* taken to begin with a header, and the rest.                              *)

PacketLength(o) == IF o.at = HeaderSize THEN o.len ELSE Misread
Cuts(data) ==       \* for data that begins after the first o octets
    LET cut[o \in 0 .. Len(data)] ==
            IF Len(data) - o < HeaderSize THEN o
            ELSE LET n == PacketLength(data[o + HeaderSize])
                 IN  IF Len(data) - o < n THEN o ELSE cut[o + n]
    IN  cut
Cut(data) == Cuts(data)[0]
Complete(data) == SubSeq(data, 1, Cut(data))
Partial(data)  == SubSeq(data, Cut(data) + 1, Len(data))

-----------------------------------------------------------------------------
(* reassemble, one action for each kind of First Header Pointer.            *)

BugNoLossCheck == pending
Held == IF last # None /\ count # (last + 1) % Period THEN <<>> ELSE pending

Limited(data) == IF Len(data) > MaxPacket THEN <<>> ELSE data

Joined(held) ==     \* the packet that the octets before the first header complete
    LET emitted == held \o SubSeq(Field, 1, First - 1)
    IN  IF held = <<>> \/ Partial(emitted) # <<>> THEN <<>> ELSE emitted

BugExpected == count + 1
Seen == count
Arrived(kind) == Sent(kind) /\ last' = Seen /\ gap' = 0 /\ UNCHANGED <<stream, missed>>

RIdle ==
    /\ Arrived("idle") /\ pending' = <<>>
    /\ UNCHANGED <<out, got>>

RContinue ==
    /\ Arrived("data") /\ Starts = {}
    /\ pending' = IF Held = <<>> THEN <<>> ELSE Limited(Held \o Field)
    /\ got' = got \cup Places
    /\ UNCHANGED out

RBeyond ==
    /\ Arrived("bad") /\ pending' = <<>>
    /\ UNCHANGED <<out, got>>

RHeader ==
    /\ Arrived("data") /\ Starts # {}
    /\ LET rest == SubSeq(Field, First, FieldSize)
       IN  /\ out' = out \o Joined(Held) \o Complete(rest)
           /\ pending' = Partial(rest)
    /\ got' = got \cup Places

Next == Lose \/ RIdle \/ RContinue \/ RBeyond \/ RHeader
Spec == Init /\ [][Next]_vars

-----------------------------------------------------------------------------
(* Types of the state.                                                      *)
TypeOK ==
    /\ stream \in Seq(Octets) /\ sent \in 0 .. Len(stream) /\ count \in 0 .. Period - 1
    /\ gap \in 0 .. MaxGap /\ missed \in BOOLEAN /\ last \in (0 .. Period - 1) \cup {None}
    /\ pending \in Seq(Octets) /\ out \in Seq(Octets) /\ got \subseteq 1 .. sent

(* Packets emitted are whole, in the order in which they were sent, and     *)
(* sent only once: frame loss shorter than the period of the frame counter  *)
(* never joins pieces of two packets (reassemble, loss detection).          *)
OnlyWhole == ~missed =>
    /\ \A j \in 1 .. Len(out) - 1 :
          \/ Follows(out[j], out[j + 1])
          \/ out[j].at = out[j].len /\ out[j + 1].at = 1 /\ out[j].pkt < out[j + 1].pkt
    /\ out # <<>> => out[1].at = 1 /\ out[Len(out)].at = out[Len(out)].len

(* What is pending is bounded by the largest packet,                        *)
(* whatever is lost, an unnoticed period of frames included                 *)
(* (MAX_PACKET_SIZE).                                                       *)
PendingBounded == Len(pending) <= MaxPacket

FrameOf(j) == (j - 1) \div FieldSize
Of(k) == {j \in 1 .. Len(stream) : stream[j].pkt = k}
Received(k) == Of(k) # {} /\ Of(k) \subseteq got
Emitted(k) == \A j \in Of(k) : \E i \in 1 .. Len(out) : out[i] = stream[j]
EndFrameHasHeader(k) == \E i, j \in 1 .. Len(stream) :
    /\ stream[j].pkt = k /\ stream[j].at = stream[j].len
    /\ stream[i].at = 1 /\ FrameOf(i) = FrameOf(j)
Packets == {stream[j].pkt : j \in 1 .. Len(stream)}

(* A packet received in full, whose last frame has a First Header Pointer,  *)
(* is emitted whatever was lost before or between other packets.            *)
Recovered == \A k \in Packets : Received(k) /\ EndFrameHasHeader(k) => Emitted(k)

(* What comes out of reassemble is what was sent: whole packets only, and all *)
(* that the losses left whole, with a bounded memory of what is to come.      *)
Reassembled == OnlyWhole /\ PendingBounded /\ Recovered
=============================================================================
