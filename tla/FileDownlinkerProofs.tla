------------------------- MODULE FileDownlinkerProofs -------------------------
(***************************************************************************)
(* Theorems about FileDownlinker for every sequence of transfers, every    *)
(* size and every loss.                                                    *)
(***************************************************************************)
EXTENDS FileDownlinker, TLAPS

(* What the flight software sends, and what the receiving thread handles.  *)
SenderOK ==
    /\ tx \in Nat \ {0} /\ nx \in Nat
    /\ pkt.seq \in Nat /\ pkt.of \in TransferSet \cup {None}
    /\ pc.r # "idle" => pkt.of \in TransferSet

TInv == TypeOK /\ SenderOK

(* A chunk put in a file.                                                  *)
LEMMA PutType ==
    ASSUME NEW s \in Seq(TransferSet \cup {None}), NEW k \in Nat,
           NEW t \in TransferSet \cup {None}
    PROVE  Put(s, k, t) \in Seq(TransferSet \cup {None})
<1> DEFINE n == IF k > Len(s) THEN k ELSE Len(s)
           f == [i \in 1 .. n |-> IF i = k THEN t ELSE IF i <= Len(s) THEN s[i] ELSE None]
<1>1. n \in Nat /\ Len(s) \in Nat /\ DOMAIN s = 1 .. Len(s)
  OBVIOUS
<1>2. \A i \in 1 .. n : f[i] \in TransferSet \cup {None}
  BY <1>1
<1>3. f \in Seq(TransferSet \cup {None})
  <2> HIDE DEF n
  <2> QED
    BY <1>1, <1>2
<1> QED
  BY <1>3 DEF Put

(* A packet the flight software may send belongs to a transfer.            *)
LEMMA SendableType ==
    ASSUME TInv, tx <= Len(Transfers), NEW p \in Sendable
    PROVE  p.of \in TransferSet /\ p.seq \in Nat /\ p.type \in {"START", "DATA", "END", "CANCEL"}
<1>1. tx \in DOMAIN Transfers /\ Now \in TransferSet
  BY DownlinkAssumption DEF TInv, SenderOK, Now, TransferSet
<1>2. /\ NextPacket.of = Now /\ NextPacket.seq = nx
      /\ NextPacket.type \in {"START", "DATA", "END"}
  BY DEF NextPacket
<1>3. CASE p = NextPacket
  BY <1>1, <1>2, <1>3 DEF TInv, SenderOK
<1>4. CASE p = [NextPacket EXCEPT !.type = "CANCEL"]
  BY <1>1, <1>2, <1>4 DEF TInv, SenderOK, NextPacket
<1> QED
  BY <1>3, <1>4 DEF Sendable

LEMMA TypeInit == Init => TInv
<1> SUFFICES ASSUME Init PROVE TInv
  OBVIOUS
<1>1. \A S : <<>> \in Seq(S)
  OBVIOUS
<1>2. TypeOK
  BY <1>1 DEF Init, TypeOK, Pcs
<1>3. SenderOK
  BY DEF Init, SenderOK, NoPacket
<1> QED
  BY <1>2, <1>3 DEF TInv

LEMMA TypeStep == TInv /\ [Next]_vars => TInv'
<1> SUFFICES ASSUME TInv, [Next]_vars PROVE TInv'
  OBVIOUS
<1> USE DEF TInv, SenderOK, TypeOK, Pcs, engine, store, sender, seen, Goto
<1>1. CASE RTake
  <2>1. PICK p \in Sendable : Sent(p) /\ pkt' = p /\ Goto("r", p.type)
    BY <1>1 DEF RTake
  <2>2. p.of \in TransferSet /\ p.seq \in Nat /\ p.type \in Pcs
    BY <1>1, SendableType DEF RTake
  <2>3. tx' \in Nat \ {0} /\ nx' \in Nat
    BY <2>1 DEF Sent
  <2> QED
    BY <1>1, <2>1, <2>2, <2>3 DEF RTake
<1>2. CASE RStart
  BY <1>2 DEF RStart
<1>3. CASE ROpen
  BY <1>3, SMTT(30) DEF ROpen
<1>4. CASE RAssert
  BY <1>4 DEF RAssert
<1>5. CASE RRun
  BY <1>5 DEF RRun
<1>6. CASE RStray
  BY <1>6 DEF RStray, CountData
<1>7. CASE RData
  BY <1>7 DEF RData
<1>8. CASE RWrite
  <2>1. active \in TransferSet /\ Dest[active] \in Dests
    BY <1>8 DEF RWrite, Dests
  <2>2. Put(disk[Dest[active]], pkt.seq, pkt.of) \in Seq(TransferSet \cup {None})
    BY <1>8, <2>1, PutType DEF RWrite
  <2>3. disk' \in [Dests -> Seq(TransferSet \cup {None})]
    BY <1>8, <2>1, <2>2 DEF RWrite
  <2> QED
    BY <1>8, <2>1, <2>3 DEF RWrite, CountData
<1>9. CASE RNoWrite
  BY <1>9 DEF RNoWrite
<1>10. CASE REnd
  BY <1>10 DEF REnd
<1>11. CASE RCancel
  BY <1>11 DEF RCancel
<1>12. ASSUME NEW a \in {"r", "t"}, Clear(a) PROVE TInv'
  BY <1>12 DEF Clear, ResetState, ResetSequence
<1>13. ASSUME NEW a \in {"r", "t"}, Close(a) PROVE TInv'
  BY <1>13 DEF Close, Closed
<1>14. ASSUME NEW a \in {"r", "t"}, Drop(a) PROVE TInv'
  BY <1>14 DEF Drop
<1>15. CASE TFire
  BY <1>15 DEF TFire
<1>16. CASE Lose
  <2>1. tx' \in Nat \ {0} /\ nx' \in Nat
    BY <1>16 DEF Lose, Sent
  <2> QED
    BY <1>16, <2>1 DEF Lose
<1>17. CASE UNCHANGED vars
  BY <1>17 DEF vars
<1> QED
  BY <1>1, <1>2, <1>3, <1>4, <1>5, <1>6, <1>7, <1>8, <1>9, <1>10, <1>11, <1>12, <1>13, <1>14,
     <1>15, <1>16, <1>17 DEF Next, Receiver, Finish

(* Every reachable state is well typed, with the timer firing anywhere.    *)
THEOREM TypeCorrect == Spec => []TypeOK
<1>1. TInv => TypeOK
  BY DEF TInv
<1> QED
  BY <1>1, TypeInit, TypeStep, PTL DEF Spec

-----------------------------------------------------------------------------
(* One open file, until finish() of the timer meets a packet or a file is   *)
(* opened half-way.                                                         *)

Settled == /\ (active # None) <=> (state # "IDLE")
           /\ state = "RUNNING" => active \in opened
           /\ opened \subseteq {active}

(* What holds while thread a is at p.                                       *)
Stage(p) ==
    /\ p \in {"START", "DATA", "END", "CANCEL", "finish", "write", "open"} => Settled
    /\ p = "open" => state = "IDLE"
    /\ p = "run" => state = "IDLE" /\ active # None /\ active \in opened /\ opened \subseteq {active}
    /\ p = "close" => state = "IDLE" /\ opened \subseteq {active}
    /\ p = "drop" => state = "IDLE" /\ opened = {}

OneInv == ~disturbed =>
    /\ pc.r = "idle" \/ pc.t = "idle"
    /\ Idle => Settled
    /\ Stage(pc.r) /\ Stage(pc.t)
    /\ pc.t \in {"idle", "finish", "close", "drop"}

LEMMA NoneIsNoTransfer == None \notin TransferSet
BY DownlinkAssumption

LEMMA OneInit == Init => OneInv
BY DEF Init, OneInv, Idle, Settled, Stage

LEMMA OneStep ==
    ASSUME TInv, OneInv, [Next]_vars
    PROVE  OneInv'
<1> USE DEF OneInv, Idle, Stage, Goto, TInv, SenderOK, TypeOK, seen
<1>1. CASE RTake
  BY <1>1, SendableType DEF RTake, Settled, store
<1>2. CASE RStart
  BY <1>2 DEF RStart, Settled, engine, store
<1>3. CASE ROpen
  BY <1>3, NoneIsNoTransfer DEF ROpen, Settled
<1>4. CASE RAssert
  BY <1>4 DEF RAssert, Settled, engine, store
<1>5. CASE RRun
  BY <1>5 DEF RRun, Settled
<1>6. CASE RStray
  BY <1>6 DEF RStray, Settled, store
<1>7. CASE RData
  BY <1>7 DEF RData, Settled, engine, store
<1>8. CASE RWrite
  BY <1>8 DEF RWrite, Settled
<1>9. CASE RNoWrite
  BY <1>9 DEF RNoWrite, Settled, engine, store
<1>10. CASE REnd
  BY <1>10 DEF REnd, Settled, engine, store
<1>11. CASE RCancel
  BY <1>11 DEF RCancel, Settled, engine, store
<1>12. ASSUME NEW a \in {"r", "t"}, Clear(a) PROVE OneInv'
  BY <1>12 DEF Clear, ResetState, Settled, store
<1>13. ASSUME NEW a \in {"r", "t"}, Close(a) PROVE OneInv'
  BY <1>13 DEF Close, Closed, Settled, engine
<1>14. ASSUME NEW a \in {"r", "t"}, Drop(a) PROVE OneInv'
  BY <1>14, NoneIsNoTransfer DEF Drop, Settled, store
<1>15. CASE TFire
  BY <1>15 DEF TFire, MayFire, Settled, store
<1>16. CASE Lose
  BY <1>16 DEF Lose, Settled, engine, store
<1>17. CASE UNCHANGED vars
  BY <1>17 DEF vars, Settled, engine, store
<1> QED
  BY <1>1, <1>2, <1>3, <1>4, <1>5, <1>6, <1>7, <1>8, <1>9, <1>10, <1>11, <1>12, <1>13, <1>14,
     <1>15, <1>16, <1>17 DEF Next, Receiver, Finish

(* Between two packets a file is open exactly when a transfer is received, *)
(* and no other, for any transfers and losses, until finish() of the timer *)
(* meets a packet or a file is opened half-way (handle_start, finish).     *)
THEOREM OneFileAtATime == Spec => []OneOpenFile
<1>1. TInv /\ OneInv /\ [Next]_vars => TInv' /\ OneInv'
  BY TypeStep, OneStep
<1>2. Init => TInv /\ OneInv
  BY TypeInit, OneInit
<1>3. OneInv => OneOpenFile
  BY DEF OneInv, OneOpenFile, Settled
<1> QED
  BY <1>1, <1>2, <1>3, PTL DEF Spec

-----------------------------------------------------------------------------
(* What is written belongs to the file it is written to, as long as no      *)
(* START packet is lost and every transfer has a destination of its own:    *)
(* the code takes DATA for the active file, whatever it belongs to.         *)

OwnFiles == /\ "START" \notin Lossy
            /\ \A t, u \in TransferSet : Dest[t] = Dest[u] => t = u

(* The active file is the one the packet in hand belongs to, but while a    *)
(* START packet waits for the file before it to be closed.                  *)
Replacing == pc.r = "START" \/ (pc.r = "finish" /\ after = "open")
Own ==
    /\ nx > 0 => pkt.of = Now
    /\ state = "RUNNING" /\ ~Replacing => active \in {None, pkt.of}
    /\ pc.r \in {"open", "close", "drop"} => state # "RUNNING"
    /\ pc.r \in {"run", "write"} => active \in {None, pkt.of}

LEMMA SendsOwn ==
    ASSUME "START" \notin Lossy, NEW p \in Sendable
    PROVE  /\ p.of = Now /\ p.seq = nx
           /\ nx = 0 => p.type = "START"
           /\ p.type \in Lossy => nx # 0
<1>1. NextPacket.of = Now /\ NextPacket.seq = nx /\ (nx = 0 => NextPacket.type = "START")
  BY DEF NextPacket
<1>2. CASE p = NextPacket
  BY <1>1, <1>2
<1>3. CASE p \in {[NextPacket EXCEPT !.type = "CANCEL"] : n \in 1 .. nx}
  <2>1. PICK n \in 1 .. nx : p = [NextPacket EXCEPT !.type = "CANCEL"]
    BY <1>3
  <2> QED
    BY <1>1, <2>1 DEF NextPacket
<1> QED
  BY <1>2, <1>3 DEF Sendable

LEMMA OwnStep ==
    ASSUME "START" \notin Lossy, TInv, Own, [Next]_vars
    PROVE  Own'
<1> USE DEF Own, Replacing, Goto, TInv, SenderOK, TypeOK, seen
<1>1. CASE RTake
  <2>1. PICK p \in Sendable : Sent(p) /\ pkt' = p /\ Goto("r", p.type)
    BY <1>1 DEF RTake
  <2>2. p.of = Now /\ p.of \in TransferSet /\ (nx = 0 => p.type = "START")
        /\ p.type \in {"START", "DATA", "END", "CANCEL"}
    BY <1>1, SendableType, SendsOwn DEF RTake
  <2>3. (nx' > 0 => tx' = tx /\ Now' = Now)
    BY <2>1 DEF Sent, Now
  <2> QED
    BY <1>1, <2>1, <2>2, <2>3 DEF RTake, store
<1>2. CASE RStart
  BY <1>2 DEF RStart, engine, store, sender, Now
<1>3. CASE ROpen
  BY <1>3 DEF ROpen, sender, Now
<1>4. CASE RAssert
  BY <1>4 DEF RAssert, engine, store, sender, Now
<1>5. CASE RRun
  BY <1>5 DEF RRun, sender, Now
<1>6. CASE RStray
  BY <1>6 DEF RStray, store, sender, Now
<1>7. CASE RData
  BY <1>7 DEF RData, InTransfer, engine, store, sender, Now
<1>8. CASE RWrite
  BY <1>8 DEF RWrite, sender, Now
<1>9. CASE RNoWrite
  BY <1>9 DEF RNoWrite, engine, store, sender, Now
<1>10. CASE REnd
  BY <1>10 DEF REnd, engine, store, sender, Now
<1>11. CASE RCancel
  BY <1>11 DEF RCancel, engine, store, sender, Now
<1>12. ASSUME NEW a \in {"r", "t"}, Clear(a) PROVE Own'
  BY <1>12 DEF Clear, ResetState, store, sender, Now
<1>13. ASSUME NEW a \in {"r", "t"}, Close(a) PROVE Own'
  BY <1>13 DEF Close, engine, sender, Now
<1>14. ASSUME NEW a \in {"r", "t"}, Drop(a) PROVE Own'
  BY <1>14 DEF Drop, store, sender, Now
<1>15. CASE TFire
  BY <1>15 DEF TFire, store, sender, Now
<1>16. CASE Lose
  <2>1. PICK p \in Sendable : p.type \in Lossy /\ Sent(p)
    BY <1>16 DEF Lose
  <2>2. nx # 0 /\ (nx' > 0 => Now' = Now)
    BY <2>1, SendsOwn DEF Sent, Now
  <2> QED
    BY <1>16, <2>2 DEF Lose, engine, store
<1>17. CASE UNCHANGED vars
  BY <1>17 DEF vars, engine, store, sender, Now
<1> QED
  BY <1>1, <1>2, <1>3, <1>4, <1>5, <1>6, <1>7, <1>8, <1>9, <1>10, <1>11, <1>12, <1>13, <1>14,
     <1>15, <1>16, <1>17 DEF Next, Receiver, Finish

(* A write puts a chunk of the file's own, the others stay as they were.    *)
LEMMA PutElements ==
    ASSUME NEW s \in Seq(TransferSet \cup {None}), NEW k \in Nat,
           NEW t \in TransferSet \cup {None}
    PROVE  /\ Len(Put(s, k, t)) = (IF k > Len(s) THEN k ELSE Len(s))
           /\ DOMAIN Put(s, k, t) = 1 .. Len(Put(s, k, t))
           /\ \A i \in DOMAIN Put(s, k, t) :
                Put(s, k, t)[i] = IF i = k THEN t ELSE IF i <= Len(s) THEN s[i] ELSE None
<1> DEFINE n == IF k > Len(s) THEN k ELSE Len(s)
           f == [i \in 1 .. n |-> IF i = k THEN t ELSE IF i <= Len(s) THEN s[i] ELSE None]
<1>1. n \in Nat /\ Len(s) \in Nat /\ DOMAIN s = 1 .. Len(s)
  OBVIOUS
<1>2. f \in Seq(TransferSet \cup {None})
  BY PutType DEF Put
<1>3. DOMAIN f = 1 .. n /\ Len(f) = n
  <2> HIDE DEF n
  <2> QED
    BY <1>1, <1>2
<1> QED
  BY <1>3 DEF Put

LEMMA WriteKeepsOthers ==
    ASSUME OwnFiles, TInv, Own, RWrite
    PROVE  /\ active = pkt.of /\ active \in TransferSet
           /\ disk'[Dest[active]] = Put(disk[Dest[active]], pkt.seq, active)
           /\ \A t \in TransferSet \ {active} : disk'[Dest[t]] = disk[Dest[t]]
           /\ disk[Dest[active]] \in Seq(TransferSet \cup {None}) /\ pkt.seq \in Nat
<1>1. active \in TransferSet /\ active = pkt.of /\ pkt.seq \in Nat
  BY NoneIsNoTransfer DEF RWrite, TInv, SenderOK, TypeOK, Own
<1>2. \A t \in TransferSet : Dest[t] \in Dests
  BY DEF Dests
<1>3. disk \in [Dests -> Seq(TransferSet \cup {None})]
      /\ disk' = [disk EXCEPT ![Dest[active]] = Put(@, pkt.seq, pkt.of)]
  BY DEF RWrite, TInv, TypeOK
<1> QED
  BY <1>1, <1>2, <1>3 DEF OwnFiles

LEMMA NoMixingStep ==
    ASSUME OwnFiles, TInv, Own, NoMixing, [Next]_vars
    PROVE  NoMixing'
<1>1. CASE RWrite
  <2> SUFFICES ASSUME NEW t \in TransferSet, NEW k \in DOMAIN disk'[Dest[t]]
               PROVE  disk'[Dest[t]][k] \in {None, t}
    BY DEF NoMixing
  <2>1. CASE t # active
    BY <1>1, <2>1, WriteKeepsOthers DEF NoMixing
  <2>2. CASE t = active
    <3> DEFINE s == disk[Dest[active]]
    <3>1. s \in Seq(TransferSet \cup {None}) /\ disk'[Dest[t]] = Put(s, pkt.seq, active)
      BY <1>1, <2>2, WriteKeepsOthers
    <3>2. \A i \in DOMAIN s : s[i] \in {None, active}
      BY <2>2 DEF NoMixing
    <3>3. pkt.seq \in Nat /\ active \in TransferSet /\ DOMAIN s = 1 .. Len(s) /\ Len(s) \in Nat
      BY <1>1, <3>1, WriteKeepsOthers
    <3> HIDE DEF s
    <3>4. k \in 1 .. Len(Put(s, pkt.seq, active)) /\ Len(Put(s, pkt.seq, active)) \in Nat
          /\ Put(s, pkt.seq, active)[k] =
               IF k = pkt.seq THEN active ELSE IF k <= Len(s) THEN s[k] ELSE None
      BY <3>1, <3>3, PutElements
    <3> QED
      BY <2>2, <3>1, <3>2, <3>3, <3>4
  <2> QED
    BY <2>1, <2>2
<1>2. CASE UNCHANGED disk
  BY <1>2 DEF NoMixing
<1> QED
  BY <1>1, <1>2 DEF Next, Receiver, Finish, RTake, RStart, ROpen, RAssert, RRun, RStray, RData,
     RNoWrite, REnd, RCancel, Clear, Close, Drop, TFire, Lose, vars, store

LEMMA OwnInit == Init => Own /\ NoMixing
<1> SUFFICES ASSUME Init PROVE Own /\ NoMixing
  OBVIOUS
<1>1. \A t \in TransferSet : disk[Dest[t]] = <<>>
  BY DEF Init, Dests
<1> QED
  BY <1>1 DEF Init, Own, NoMixing

(* No file holds data of another transfer, for any transfers with          *)
(* destinations of their own and any losses but of START, wherever the     *)
(* timer's finish() meets the receiving thread (handle_data, finish).      *)
THEOREM FilesHoldTheirOwn ==
    ASSUME OwnFiles
    PROVE  Spec => []NoMixing
<1>1. TInv /\ Own /\ NoMixing /\ [Next]_vars => TInv' /\ Own' /\ NoMixing'
  BY TypeStep, OwnStep, NoMixingStep DEF OwnFiles
<1>2. Init => TInv /\ Own /\ NoMixing
  BY TypeInit, OwnInit
<1> QED
  BY <1>1, <1>2, PTL DEF Spec

-----------------------------------------------------------------------------
(* No incomplete file is closed without a warning, but those whose gap the  *)
(* counter hides.                                                           *)

(* The flight software has sent, or lost, a packet of t.                    *)
Begun(t) == \E j \in DOMAIN Transfers : t = Transfers[j] /\ (j < tx \/ (j = tx /\ nx > 0))
Fresh(t) == seek[t] = 0 /\ t \notin ended

(* The packets of a transfer, numbered from 0, and the files they reach.    *)
Starting == \/ pc.r \in {"START", "open", "run"}
            \/ pc.r \in {"finish", "close", "drop"} /\ after = "open"
Numbered ==
    /\ tx \in DOMAIN Transfers => nx <= Size[Now] + 1
    /\ pc.r # "idle" => Begun(pkt.of)
    /\ pc.r \in {"DATA", "write"} => pkt.seq \in 1 .. Size[pkt.of]
    /\ pc.r = "END" => pkt.seq = Size[pkt.of] + 1
    /\ \A t \in TransferSet : ~Begun(t) => Fresh(t)
    /\ Starting => Fresh(pkt.of)
    /\ \A t \in TransferSet : seek[t] = 0 => disk[Dest[t]] = <<>>

LEMMA SendsInOrder ==
    ASSUME TInv, tx <= Len(Transfers), NEW p \in Sendable
    PROVE  /\ p.of = Now /\ p.seq = nx /\ Size[Now] \in Nat
           /\ p.type = "START" => nx = 0
           /\ p.type = "DATA" => nx \in 1 .. Size[Now]
           /\ p.type = "END" => nx > Size[Now]
           /\ p.type \in {"START", "DATA", "END", "CANCEL"}
<1>1. tx \in DOMAIN Transfers /\ Now \in TransferSet /\ nx \in Nat /\ Size[Now] \in Nat
  BY DownlinkAssumption DEF TInv, SenderOK, Now, TransferSet
<1>2. /\ NextPacket.of = Now /\ NextPacket.seq = nx
      /\ NextPacket.type = IF nx = 0 THEN "START" ELSE IF nx <= Size[Now] THEN "DATA" ELSE "END"
  BY DEF NextPacket
<1>3. CASE p = NextPacket
  BY <1>1, <1>2, <1>3
<1>4. CASE p \in {[NextPacket EXCEPT !.type = "CANCEL"] : n \in 1 .. nx}
  <2>1. PICK n \in 1 .. nx : p = [NextPacket EXCEPT !.type = "CANCEL"]
    BY <1>4
  <2>2. p.type = "CANCEL" /\ p.of = NextPacket.of /\ p.seq = NextPacket.seq
    BY <2>1 DEF NextPacket
  <2> QED
    BY <1>1, <1>2, <2>2
<1> QED
  BY <1>3, <1>4 DEF Sendable

(* One packet further: every packet sent or lost moves the sender on.       *)
LEMMA MovesOn ==
    ASSUME TInv, Numbered, tx <= Len(Transfers), NEW p \in Sendable, Sent(p)
    PROVE  /\ \A t \in TransferSet : Begun(t) => Begun(t)'
           /\ \E j \in DOMAIN Transfers : Now = Transfers[j] /\ (j < tx' \/ (j = tx' /\ nx' > 0))
           /\ tx' \in DOMAIN Transfers => nx' <= Size[Now'] + 1
           /\ p.type = "START" => ~Begun(Now)
<1>1. tx \in DOMAIN Transfers /\ tx \in Nat /\ nx \in Nat
  BY DownlinkAssumption DEF TInv, SenderOK
<1>2. \/ p.type \in {"END", "CANCEL"} /\ tx' = tx + 1 /\ nx' = 0
      \/ p.type \notin {"END", "CANCEL"} /\ nx' = nx + 1 /\ tx' = tx
  BY DEF Sent
<1>3. \A t \in TransferSet : Begun(t) => Begun(t)'
  BY <1>1, <1>2, DownlinkAssumption DEF Begun
<1>4. \E j \in DOMAIN Transfers : Now = Transfers[j] /\ (j < tx' \/ (j = tx' /\ nx' > 0))
  BY <1>1, <1>2 DEF Now
<1>5. tx' \in DOMAIN Transfers => nx' <= Size[Now'] + 1
  <2> SUFFICES ASSUME tx' \in DOMAIN Transfers PROVE nx' <= Size[Now'] + 1
    OBVIOUS
  <2>1. Size[Now'] \in Nat
    BY DownlinkAssumption DEF Now, TransferSet
  <2>2. CASE nx' = 0
    BY <2>1, <2>2
  <2>3. CASE nx' = nx + 1 /\ tx' = tx /\ p.type \notin {"END", "CANCEL"}
    <3>1. nx = 0 \/ nx \in 1 .. Size[Now]
      BY <2>3, SendsInOrder
    <3>2. Now' = Now
      BY <2>3 DEF Now
    <3> QED
      BY <1>1, <2>1, <2>3, <3>1, <3>2
  <2> QED
    BY <1>2, <2>2, <2>3
<1>6. p.type = "START" => ~Begun(Now)
  BY <1>1, SendsInOrder, DownlinkAssumption DEF Begun, Now
<1> QED
  BY <1>3, <1>4, <1>5, <1>6 DEF Begun

LEMMA NumberedInit == Init => Numbered
<1> SUFFICES ASSUME Init PROVE Numbered
  OBVIOUS
<1>1. \A t \in TransferSet : disk[Dest[t]] = <<>> /\ seek[t] = 0
  BY DEF Init, Dests
<1>2. tx \in DOMAIN Transfers => Size[Now] \in Nat
  BY DownlinkAssumption DEF Now, TransferSet
<1> QED
  BY <1>1, <1>2 DEF Init, Numbered, Fresh, Starting

LEMMA NumberedStep ==
    ASSUME OwnFiles, TInv, Own, Numbered, [Next]_vars
    PROVE  Numbered'
<1> DEFINE Kept == UNCHANGED <<tx, nx>>
           Lower == /\ tx' \in DOMAIN Transfers => nx' <= Size[Now'] + 1
                    /\ \A t \in TransferSet : Begun(t) => Begun(t)'
<1>1. ASSUME Kept PROVE Lower
  BY <1>1 DEF Numbered, Now, Begun
<1> HIDE DEF Lower
<1> USE DEF Goto, TInv, SenderOK, TypeOK
<1>2. CASE RTake
  <2>1. PICK p \in Sendable : Sent(p) /\ pkt' = p /\ Goto("r", p.type)
    BY <1>2 DEF RTake
  <2>2. tx <= Len(Transfers) /\ pc'.r = p.type /\ pkt'.of = Now /\ pkt'.seq = nx
        /\ (p.type = "START" => nx = 0) /\ (p.type = "DATA" => nx \in 1 .. Size[Now])
        /\ (p.type = "END" => nx > Size[Now]) /\ Size[Now] \in Nat /\ nx \in Nat
        /\ p.type \in {"START", "DATA", "END", "CANCEL"} /\ Now \in TransferSet
    BY <1>2, <2>1, SendsInOrder, SendableType DEF RTake
  <2>3. /\ \A t \in TransferSet : Begun(t) => Begun(t)'
        /\ Begun(pkt.of)'
        /\ tx' \in DOMAIN Transfers => nx' <= Size[Now'] + 1
        /\ p.type = "START" => ~Begun(Now)
    BY <2>1, <2>2, MovesOn DEF Begun
  <2>4. seek' = seek /\ ended' = ended /\ disk' = disk /\ after' = after
    BY <1>2 DEF RTake, store
  <2>5. p.type = "END" => nx = Size[Now] + 1
    <3>1. tx \in DOMAIN Transfers
      BY <2>2, DownlinkAssumption
    <3> QED
      BY <2>2, <3>1 DEF Numbered
  <2>6. Starting' => p.type = "START"
    BY <2>2 DEF Starting
  <2>7. Starting' => Fresh(pkt.of)'
    BY <2>2, <2>3, <2>4, <2>6 DEF Numbered, Fresh
  <2>8. \A t \in TransferSet : ~Begun(t)' => Fresh(t)'
    BY <2>3, <2>4 DEF Numbered, Fresh
  <2> QED
    BY <2>2, <2>3, <2>4, <2>5, <2>7, <2>8 DEF Numbered
<1>3. CASE Lose
  <2>1. PICK p \in Sendable : p.type \in Lossy /\ Sent(p)
    BY <1>3 DEF Lose
  <2>2. Lower
    BY <1>3, <2>1, MovesOn DEF Lose, Lower
  <2> QED
    BY <1>3, <2>2 DEF Lose, Lower, Numbered, Fresh, Starting, store, seen
<1>4. CASE RStart
  BY <1>1, <1>4 DEF RStart, Lower, Numbered, Fresh, Starting, store, sender, seen
<1>5. CASE ROpen
  BY <1>1, <1>5 DEF ROpen, Lower, Numbered, Fresh, Starting, sender
<1>6. CASE RAssert
  BY <1>1, <1>6 DEF RAssert, Lower, Numbered, Fresh, Starting, store, sender, seen
<1>7. CASE RRun
  BY <1>1, <1>7 DEF RRun, Lower, Numbered, Fresh, Starting, sender
<1>8. CASE RStray
  BY <1>1, <1>8 DEF RStray, Lower, Numbered, Fresh, Starting, store, sender, seen
<1>9. CASE RData
  BY <1>1, <1>9 DEF RData, Lower, Numbered, Fresh, Starting, store, sender, seen
<1>10. CASE RWrite
  <2>1. active = pkt.of /\ active \in TransferSet /\ pkt.seq \in Nat /\ pkt.seq # 0
        /\ Begun(active)
    BY <1>10, WriteKeepsOthers DEF RWrite, Numbered
  <2>2. seek' = [seek EXCEPT ![active] = pkt.seq] /\ ended' = ended
        /\ \A t \in TransferSet \ {active} : disk'[Dest[t]] = disk[Dest[t]]
    BY <1>10, WriteKeepsOthers DEF RWrite
  <2>3. Lower /\ pc'.r = "idle"
    BY <1>1, <1>10 DEF RWrite, sender
  <2>4. \A t \in TransferSet : ~Begun(t)' => Fresh(t)'
    BY <2>1, <2>2, <2>3 DEF Numbered, Fresh, Lower
  <2>5. \A t \in TransferSet : seek'[t] = 0 => disk'[Dest[t]] = <<>>
    BY <2>1, <2>2 DEF Numbered
  <2> QED
    BY <2>3, <2>4, <2>5 DEF Numbered, Lower, Starting
<1>11. CASE RNoWrite
  BY <1>1, <1>11 DEF RNoWrite, Lower, Numbered, Fresh, Starting, store, sender, seen
<1>12. CASE REnd
  <2>1. Begun(pkt.of) /\ Lower /\ UNCHANGED <<store, pkt>>
    BY <1>1, <1>12 DEF REnd, Numbered, sender
  <2>2. ended' \subseteq ended \cup {pkt.of}
    BY <1>12 DEF REnd, seen, Own, Replacing
  <2>3. \A t \in TransferSet : ~Begun(t)' => Fresh(t)'
    BY <2>1, <2>2 DEF Numbered, Fresh, Lower, store
  <2>4. ~Starting' /\ pc'.r \in {"idle", "finish"}
    BY <1>12 DEF REnd, Starting
  <2>5. Begun(pkt.of)'
    BY <1>12, <2>1 DEF REnd, Begun, sender
  <2>6. \A t \in TransferSet : seek'[t] = 0 => disk'[Dest[t]] = <<>>
    BY <2>1 DEF Numbered, store
  <2>7. tx' \in DOMAIN Transfers => nx' <= Size[Now'] + 1
    BY <2>1 DEF Lower
  <2> HIDE DEF TInv, TypeOK, SenderOK
  <2> QED
    BY <2>3, <2>4, <2>5, <2>6, <2>7 DEF Numbered
<1>13. CASE RCancel
  BY <1>1, <1>13 DEF RCancel, Lower, Numbered, Fresh, Starting, store, sender, seen
<1>14. ASSUME NEW a \in {"r", "t"}, Clear(a) PROVE Numbered'
  BY <1>1, <1>14 DEF Clear, Lower, Numbered, Fresh, Starting, store, sender, seen
<1>15. ASSUME NEW a \in {"r", "t"}, Close(a) PROVE Numbered'
  BY <1>1, <1>15 DEF Close, Lower, Numbered, Fresh, Starting, sender, seen
<1>16. ASSUME NEW a \in {"r", "t"}, Drop(a) PROVE Numbered'
  BY <1>1, <1>16 DEF Drop, Lower, Numbered, Fresh, Starting, store, sender, seen
<1>17. CASE TFire
  BY <1>1, <1>17 DEF TFire, Lower, Numbered, Fresh, Starting, store, sender
<1>18. CASE UNCHANGED vars
  BY <1>1, <1>18 DEF vars, Lower, Numbered, Fresh, Starting, store, sender, seen
<1> QED
  BY <1>2, <1>3, <1>4, <1>5, <1>6, <1>7, <1>8, <1>9, <1>10, <1>11, <1>12, <1>13, <1>14,
     <1>15, <1>16, <1>17, <1>18 DEF Next, Receiver, Finish

(* What the downlinker knows of the transfer it is receiving: without a     *)
(* warning its chunks are all there up to seek, and the counter is one      *)
(* ahead of them, or nothing was written yet and the counter is stale.      *)
Filled(t) == seek[t] <= Len(disk[Dest[t]]) /\ \A k \in 1 .. seek[t] : disk[Dest[t]][k] = t
Counted ==
    /\ pc.r = "write" => state = "RUNNING"
    /\ state = "RUNNING" /\ pc.r \in {"idle", "START", "DATA", "END", "CANCEL", "write"}
         => active \notin ended
    /\ state = "RUNNING" /\ active \notin warned
         => /\ Filled(active)
            /\ sequence = seek[active] + 1 \/ (seek[active] = 0 /\ active \in stale)
    /\ \A t \in ended \ warned : Complete(t) \/ Hidden(t)
Watched == ~disturbed => Counted

LEMMA WatchedInit == Init => Watched
BY DEF Init, Watched, Counted

(* A DATA packet written.                                                   *)
LEMMA WriteWatched ==
    ASSUME OwnFiles, TInv, Own, OneInv, Numbered, Watched, RWrite, ~disturbed
    PROVE  Counted'
<1>1. /\ active = pkt.of /\ active \in TransferSet /\ pkt.seq \in Nat \ {0}
      /\ state = "RUNNING" /\ active \notin ended
      /\ pc'.r = "idle" /\ state' = state /\ active' = active /\ ended' = ended
      /\ stale' = stale /\ warned \subseteq warned' /\ seek' = [seek EXCEPT ![active] = pkt.seq]
      /\ sequence' = sequence + 1 /\ seek[active] \in Nat /\ sequence \in Nat
      /\ seek \in [TransferSet -> Nat] /\ ended \subseteq TransferSet
  BY WriteKeepsOthers DEF RWrite, Watched, Counted, Numbered, CountData, Goto, TInv, SenderOK, TypeOK
<1>2. ASSUME active \notin warned'
      PROVE  Filled(active)' /\ sequence' = seek'[active] + 1
  <2>1. pkt.seq = sequence /\ pkt.seq - 1 = seek[active] /\ active \notin warned
    BY <1>1, <1>2 DEF RWrite, Unexpected, Gap
  <2>2. Filled(active)
    BY <1>1, <2>1 DEF Watched, Counted
  <2> DEFINE s == disk[Dest[active]]
             n == pkt.seq
  <2>3. s \in Seq(TransferSet \cup {None}) /\ disk'[Dest[active]] = Put(s, n, active) /\ n \in Nat
    BY WriteKeepsOthers
  <2>4. seek'[active] = n /\ n - 1 = seek[active] /\ n \in Nat \ {0} /\ seek[active] \in Nat
    BY <1>1, <2>1
  <2>5. seek[active] <= Len(s) /\ \A k \in 1 .. seek[active] : s[k] = active
    BY <2>2 DEF Filled
  <2> HIDE DEF s, n
  <2>6. /\ Len(Put(s, n, active)) = (IF n > Len(s) THEN n ELSE Len(s))
        /\ DOMAIN Put(s, n, active) = 1 .. Len(Put(s, n, active))
        /\ \A i \in DOMAIN Put(s, n, active) :
             Put(s, n, active)[i] = IF i = n THEN active ELSE IF i <= Len(s) THEN s[i] ELSE None
    <3>1. active \in TransferSet \cup {None}
      BY <1>1
    <3> QED
      BY <2>3, <3>1, PutElements
  <2>7. Len(s) \in Nat
    BY <2>3
  <2>8. n <= Len(Put(s, n, active)) /\ \A k \in 1 .. n : Put(s, n, active)[k] = active
    BY <2>4, <2>5, <2>6, <2>7
  <2>9. Filled(active)'
    BY <1>1, <2>3, <2>4, <2>8 DEF Filled
  <2> QED
    BY <1>1, <2>1, <2>9 DEF n
<1>3. ASSUME NEW t \in ended' \ warned' PROVE (Complete(t) \/ Hidden(t))'
  <2>1. t \in TransferSet /\ t # active /\ t \in ended \ warned /\ disk'[Dest[t]] = disk[Dest[t]]
    BY <1>1, <1>3, WriteKeepsOthers
  <2> QED
    BY <1>1, <2>1 DEF Watched, Counted, Complete, Hidden
<1> QED
  BY <1>1, <1>2, <1>3 DEF Counted

(* An END packet of the transfer received.                                  *)
LEMMA EndWatched ==
    ASSUME OwnFiles, TInv, Own, OneInv, Numbered, Watched, REnd, ~disturbed, state = "RUNNING"
    PROVE  Counted'
<1>1. /\ active = pkt.of /\ active \in TransferSet /\ active # None
      /\ pc.r = "END" /\ pc'.r = "finish" /\ UNCHANGED <<state, active, sequence, seek, disk, stale>>
      /\ warned' = (IF Unexpected THEN (warned \cup {active}) \ {None} ELSE warned)
      /\ ended' = ended \cup {active}
      /\ seek[active] \in Nat /\ Size[active] \in Nat /\ sequence \in Nat
      /\ pkt.seq = Size[active] + 1 /\ warned \subseteq TransferSet
  BY NoneIsNoTransfer, DownlinkAssumption DEF REnd, Goto, engine, store, TInv, SenderOK, TypeOK, Own,
     OneInv, Stage, Settled, Replacing, Numbered
<1>2. warned \subseteq warned'
  BY <1>1, NoneIsNoTransfer
<1>3. ASSUME active \notin warned' PROVE Complete(active) \/ Hidden(active)
  <2>1. pkt.seq = sequence /\ active \notin warned
    BY <1>1, <1>3, <1>2 DEF Unexpected
  <2>2. Filled(active) /\ (sequence = seek[active] + 1 \/ (seek[active] = 0 /\ active \in stale))
    BY <1>1, <2>1 DEF Watched, Counted
  <2>3. CASE sequence = seek[active] + 1
    <3>1. seek[active] = Size[active]
      BY <1>1, <2>1, <2>3
    <3>2. \A k \in 1 .. Size[active] : k <= Len(disk[Dest[active]])
      <4>1. disk[Dest[active]] \in Seq(TransferSet \cup {None})
        BY <1>1 DEF TInv, TypeOK, Dests
      <4>2. Len(disk[Dest[active]]) \in Nat /\ Size[active] <= Len(disk[Dest[active]])
        BY <2>2, <3>1, <4>1 DEF Filled
      <4> QED
        BY <1>1, <4>2
    <3> QED
      BY <2>2, <3>1, <3>2 DEF Filled, Complete
  <2>4. CASE seek[active] = 0 /\ active \in stale
    BY <1>1, <2>4 DEF Numbered, Hidden
  <2> QED
    BY <2>2, <2>3, <2>4
<1>4. \A t \in ended' \ warned' : (Complete(t) \/ Hidden(t))'
  BY <1>1, <1>2, <1>3 DEF Watched, Counted, Complete, Hidden
<1>5. active \notin warned' => (Filled(active)
        /\ (sequence = seek[active] + 1 \/ (seek[active] = 0 /\ active \in stale)))'
  BY <1>1, <1>2 DEF Watched, Counted, Filled
<1> QED
  BY <1>1, <1>4, <1>5 DEF Counted

LEMMA WatchedStep ==
    ASSUME OwnFiles, TInv, Own, OneInv, Numbered, Watched, [Next]_vars
    PROVE  Watched'
<1> SUFFICES ASSUME ~disturbed' PROVE Counted'
  BY DEF Watched
<1>1. ~disturbed /\ Counted
  <2>1. disturbed' = disturbed \/ RTake \/ ROpen \/ TFire
    BY DEF Next, Receiver, Finish, RStart, RAssert, RRun, RStray, RData, RWrite, RNoWrite, REnd,
       RCancel, Clear, Close, Drop, Lose, vars, seen
  <2>2. disturbed => disturbed'
    BY <2>1 DEF RTake, ROpen, TFire
  <2> QED
    BY <2>2 DEF Watched
<1> USE DEF Goto, TInv, SenderOK, TypeOK
<1>2. CASE RTake
  BY <1>1, <1>2, SendableType DEF RTake, Counted, Filled, Complete, Hidden, store
<1>3. CASE RStart
  BY <1>1, <1>3 DEF RStart, Counted, Filled, Complete, Hidden, engine, store, seen
<1>4. CASE ROpen
  BY <1>1, <1>4 DEF ROpen, Counted, Filled, Complete, Hidden, OneInv, Stage
<1>5. CASE RAssert
  BY <1>1, <1>5 DEF RAssert, Counted, Filled, Complete, Hidden, engine, store, seen, OneInv, Stage
<1>6. CASE RRun
  <2>1. /\ active = pkt.of /\ active \in TransferSet /\ Fresh(active)
        /\ pc.r = "run" /\ state = "IDLE" /\ sequence \in Nat /\ Dest[active] \in Dests
    BY <1>1, <1>6 DEF RRun, Own, OneInv, Stage, Numbered, Starting, Dests
  <2>2. Len(disk[Dest[active]]) \in Nat
    <3>1. disk[Dest[active]] \in Seq(TransferSet \cup {None})
      BY <2>1
    <3> QED
      BY <3>1
  <2>3. CASE active = None
    BY <1>1, <1>6, <2>1, <2>3, NoneIsNoTransfer
  <2>4. CASE active # None
    <3>1. /\ UNCHANGED <<active, seek, disk, warned, ended>> /\ sequence' = sequence + 1
          /\ stale' = (IF sequence = 0 THEN stale ELSE stale \cup {active}) /\ pc'.r = "idle"
      BY <1>6, <2>4 DEF RRun
    <3>2. Filled(active)' /\ (sequence = seek[active] + 1 \/ (seek[active] = 0 /\ active \in stale))'
      BY <2>1, <2>2, <3>1 DEF Filled, Fresh
    <3>3. \A t \in ended' \ warned' : (Complete(t) \/ Hidden(t))'
      BY <1>1, <3>1 DEF Counted, Complete, Hidden
    <3> QED
      BY <2>1, <3>1, <3>2, <3>3 DEF Counted, Fresh
  <2> QED
    BY <2>3, <2>4
<1>7. CASE RStray
  BY <1>1, <1>7 DEF RStray, InTransfer, Counted, Filled, Complete, Hidden, store, seen
<1>8. CASE RData
  BY <1>1, <1>8 DEF RData, InTransfer, Counted, Filled, Complete, Hidden, engine, store, seen
<1>9. CASE RWrite
  BY <1>1, <1>9, WriteWatched
<1>10. CASE RNoWrite
  BY <1>1, <1>10 DEF RNoWrite, Counted, Filled, Complete, Hidden, engine, store, seen
<1>11. CASE REnd /\ state = "RUNNING"
  BY <1>1, <1>11, EndWatched
<1>12. CASE REnd /\ state # "RUNNING"
  BY <1>1, <1>12 DEF REnd, Counted, Complete, Hidden, engine, store, seen
<1>13. CASE RCancel
  BY <1>1, <1>13 DEF RCancel, Counted, Filled, Complete, Hidden, engine, store, seen
<1>14. ASSUME NEW a \in {"r", "t"}, Clear(a) PROVE Counted'
  BY <1>1, <1>14 DEF Clear, ResetState, Counted, Complete, Hidden, store, seen, OneInv
<1>15. ASSUME NEW a \in {"r", "t"}, Close(a) PROVE Counted'
  BY <1>1, <1>15 DEF Close, Counted, Complete, Hidden, engine, seen, OneInv, Stage
<1>16. ASSUME NEW a \in {"r", "t"}, Drop(a) PROVE Counted'
  BY <1>1, <1>16 DEF Drop, Counted, Complete, Hidden, store, seen, OneInv, Stage
<1>17. CASE TFire
  BY <1>1, <1>17 DEF TFire, Counted, Filled, Complete, Hidden, store
<1>18. CASE Lose
  BY <1>1, <1>18 DEF Lose, Counted, Filled, Complete, Hidden, engine, store, seen
<1>19. CASE UNCHANGED vars
  BY <1>1, <1>19 DEF vars, Counted, Filled, Complete, Hidden, engine, store, seen
<1> QED
  BY <1>2, <1>3, <1>4, <1>5, <1>6, <1>7, <1>8, <1>9, <1>10, <1>11, <1>12, <1>13, <1>14,
     <1>15, <1>16, <1>17, <1>18, <1>19 DEF Next, Receiver, Finish

(* A transfer closed by END without a warning is complete, for any sizes   *)
(* and losses but of START, unless DATA packets outside of a transfer had  *)
(* moved the counter before its START and its file is empty; as long as    *)
(* the timer's finish() met no packet and no file was opened half-way      *)
(* (handle_data, handle_end).                                              *)
THEOREM HolesAreNoticed ==
    ASSUME OwnFiles
    PROVE  Spec => []HolesNoticed
<1> DEFINE Inv == TInv /\ Own /\ OneInv /\ Numbered /\ Watched
<1>1. Inv /\ [Next]_vars => Inv'
  BY TypeStep, OwnStep, OneStep, NumberedStep, WatchedStep DEF OwnFiles
<1>2. Init => Inv
  BY TypeInit, OwnInit, OneInit, NumberedInit, WatchedInit
<1>3. Inv => HolesNoticed
  BY DEF Watched, Counted, HolesNoticed
<1> QED
  BY <1>1, <1>2, <1>3, PTL DEF Spec
=============================================================================
