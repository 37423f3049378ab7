--------------------------- MODULE WebHistoryProofs ---------------------------
(***************************************************************************)
(* Theorems about WebHistory and WebClient for every set of sessions, every *)
(* limit, clear time and number of objects, and for both kinds of history.  *)
(***************************************************************************)
EXTENDS WebClient, TLAPS, SequenceTheorems

(* What the history holds are the last objects that arrived, in order.     *)
Numbered == /\ Len(objects) <= count
            /\ \A i \in 1 .. Len(objects) : objects[i] = Deleted + i

(* What a session of a clearing history has been served is what arrived    *)
(* between its count offset and its cursor.                                *)
Placed == /\ \A s \in Sessions : offset[s] <= count
          /\ kind = "clearing" =>
                \A s \in live : offset[s] + Len(served[s]) = Reached(s)

(* Any live sessions have one that is furthest behind: carried along as an *)
(* invariant, since each step moves one cursor or all of them alike.        *)
Least == \A K \in SUBSET live :
    K # {} => \E s \in K : \A t \in K : cursor[s] <= cursor[t]

Inv == TypeOK /\ Numbered /\ Placed /\ Least /\ ServedOnce /\ CountMatches

LEMMA InvInit == Init => Inv
<1> SUFFICES ASSUME Init PROVE Inv
  OBVIOUS
<1>1. \A S : <<>> \in Seq(S) /\ Len(<<>>) = 0
  OBVIOUS
<1>2. TypeOK
  BY <1>1, HistoryAssumption DEF Init, TypeOK
<1>3. Numbered /\ Placed
  BY <1>1 DEF Init, Numbered, Placed, Deleted
<1>4. Least /\ ServedOnce /\ CountMatches
  BY DEF Init, Least, ServedOnce, CountMatches
<1> QED
  BY <1>2, <1>3, <1>4 DEF Inv

(* Where a retrieve starts and ends.                                       *)
LEMMA SliceType ==
    ASSUME Inv, NEW s \in Sessions
    PROVE  /\ Index(s) \in Nat /\ EndSlice(s) \in Nat
           /\ Index(s) <= EndSlice(s) /\ EndSlice(s) <= Len(objects)
<1>1. Len(objects) \in Nat /\ cursor[s] \in 0 .. Len(objects) /\ Limit \in Nat \ {0}
  BY HistoryAssumption DEF Inv, TypeOK
<1>2. Index(s) \in 0 .. Len(objects)
  BY <1>1 DEF Index, Begin
<1> QED
  BY <1>1, <1>2 DEF EndSlice, Smaller

(* What a retrieve returns: the objects from Index to EndSlice.            *)
LEMMA SliceObjects ==
    ASSUME Inv, NEW s \in Sessions
    PROVE  LET new == SubSeq(objects, Index(s) + 1, EndSlice(s))
           IN  /\ new \in Seq(Nat) /\ Len(new) = EndSlice(s) - Index(s)
               /\ \A i \in 1 .. Len(new) : new[i] = Deleted + Index(s) + i
<1> DEFINE new == SubSeq(objects, Index(s) + 1, EndSlice(s))
<1>1. /\ Index(s) \in Nat /\ EndSlice(s) \in Nat
      /\ Index(s) <= EndSlice(s) /\ EndSlice(s) <= Len(objects)
  BY SliceType
<1>2. objects \in Seq(Nat) /\ Len(objects) \in Nat
  BY DEF Inv, TypeOK
<1>3. \A i \in Index(s) + 1 .. EndSlice(s) : objects[i] \in Nat
  BY <1>1, <1>2
<1>4. /\ new \in Seq(Nat)
      /\ Len(new) = IF Index(s) + 1 <= EndSlice(s) THEN EndSlice(s) - (Index(s) + 1) + 1 ELSE 0
      /\ \A i \in 1 .. EndSlice(s) - (Index(s) + 1) + 1 : new[i] = objects[Index(s) + 1 + i - 1]
  <2>1. Index(s) + 1 \in Int /\ EndSlice(s) \in Int
    BY <1>1
  <2> QED
    BY <1>3, <2>1, SubSeqProperties
<1>5. Len(new) = EndSlice(s) - Index(s)
  BY <1>1, <1>4
<1>6. \A i \in 1 .. Len(new) : new[i] = objects[Index(s) + i]
  BY <1>1, <1>4, <1>5
<1>7. \A i \in 1 .. Len(new) : objects[Index(s) + i] = Deleted + Index(s) + i
  <2>1. \A i \in 1 .. EndSlice(s) - Index(s) : Index(s) + i \in 1 .. Len(objects)
    BY <1>1
  <2>2. \A j \in 1 .. Len(objects) : objects[j] = Deleted + j
    BY DEF Inv, Numbered
  <2>3. Deleted \in Int
    BY <1>2, HistoryAssumption DEF Inv, TypeOK, Deleted
  <2> HIDE DEF new
  <2> QED
    BY <1>1, <1>5, <2>1, <2>2, <2>3
<1> QED
  BY <1>4, <1>5, <1>6, <1>7

(* Objects arrive at the end, beyond every cursor.                         *)
LEMMA ArriveStep == Inv /\ Arrive => Inv'
<1> SUFFICES ASSUME Inv, Arrive PROVE Inv'
  OBVIOUS
<1>1. /\ objects \in Seq(Nat) /\ Len(objects) \in Nat /\ count \in Nat
      /\ objects' = Append(objects, count + 1) /\ count' = count + 1
      /\ Len(objects) <= count
  BY HistoryAssumption DEF Inv, TypeOK, Arrive, Numbered
<1>2. /\ objects' \in Seq(Nat) /\ Len(objects') = Len(objects) + 1
      /\ \A i \in 1 .. Len(objects) : objects'[i] = objects[i]
      /\ objects'[Len(objects) + 1] = count + 1
  BY <1>1, AppendProperties
<1>3. Deleted' = Deleted
  BY <1>1, <1>2 DEF Deleted
<1>4. TypeOK'
  BY <1>1, <1>2, HistoryAssumption DEF Inv, TypeOK, Arrive, cursors, clock, seen
<1>5. Numbered'
  BY <1>1, <1>2, <1>3 DEF Inv, Numbered, Deleted
<1>6. Placed' /\ Least' /\ ServedOnce' /\ CountMatches'
  <2>1. \A s \in Sessions : offset[s] \in Nat /\ offset[s] <= count
    BY DEF Inv, TypeOK, Placed
  <2>2. \A s \in Sessions : offset[s] <= count + 1
    BY <1>1, <2>1
  <2> QED
    BY <1>1, <1>3, <2>2 DEF Inv, Placed, Least, ServedOnce, Reached, CountMatches, Validates, Arrive,
       cursors, clock, seen
<1> QED
  BY <1>4, <1>5, <1>6 DEF Inv

(* Steps that leave histories and cursors alone.                           *)
LEMMA QuietStep ==
    ASSUME Inv, TypeOK', UNCHANGED <<kind, objects, live, cursor, count, offset, value, seen>>
    PROVE  Inv'
<1>1. Deleted' = Deleted
  BY DEF Deleted
<1>2. Numbered' /\ Placed' /\ Least' /\ ServedOnce'
  BY <1>1 DEF Inv, Numbered, Placed, Least, ServedOnce, Reached, seen
<1>3. CountMatches'
  BY DEF Inv, CountMatches, Validates, seen, TypeOK
<1> QED
  BY <1>2, <1>3 DEF Inv

(* A request serves a session.                                             *)
LEMMA AskerType == \A r \in Requests : Asker(r) \in Sessions
  BY DEF Requests, Asker

LEMMA RetrieveStep ==
    ASSUME Inv, NEW q \in Requests, NEW s \in Sessions, s = Asker(q), Retrieve(q)
    PROVE  Inv'
<1> DEFINE from == Index(s)
           to == EndSlice(s)
           new == SubSeq(objects, from + 1, to)
           old == IF s \in live THEN served[s] ELSE <<>>
           origin == IF s \in live THEN Reached(s) ELSE Deleted + from
<1>1. /\ from \in Nat /\ to \in Nat /\ from <= to /\ to <= Len(objects)
  BY SliceType
<1>2. /\ new \in Seq(Nat) /\ Len(new) = to - from
      /\ \A i \in 1 .. Len(new) : new[i] = Deleted + from + i
  BY SliceObjects
<1>3. /\ count \in Nat /\ Len(objects) \in Nat /\ Len(objects) <= count /\ Deleted \in Nat
      /\ Deleted = count - Len(objects)
      /\ objects' = objects /\ count' = count /\ kind' = kind /\ Deleted' = Deleted
  BY HistoryAssumption DEF Inv, TypeOK, Numbered, Retrieve, Deleted
<1>4. OffsetOf(s) \in Nat /\ OffsetOf(s) <= count
  BY <1>3 DEF Inv, TypeOK, Placed, OffsetOf
<1>5. old \in Seq(Nat) /\ Len(old) \in Nat
  <2>1. <<>> \in Seq(Nat) /\ Len(<<>>) = 0
    OBVIOUS
  <2>2. served[s] \in Seq(Nat) /\ Len(served[s]) \in Nat
    BY DEF Inv, TypeOK
  <2> QED
    BY <2>1, <2>2
<1>6. /\ old \o new \in Seq(Nat) /\ Len(old \o new) = Len(old) + Len(new)
      /\ \A i \in 1 .. Len(old) + Len(new) :
            (old \o new)[i] = IF i <= Len(old) THEN old[i] ELSE new[i - Len(old)]
  <2> HIDE DEF old, new
  <2> QED
    BY <1>2, <1>5, ConcatProperties
<1>7. /\ live' = live \cup {s} /\ live \subseteq Sessions /\ live' \subseteq Sessions
      /\ cursor' = [cursor EXCEPT ![s] = to]
      /\ served' = [served EXCEPT ![s] = old \o new]
      /\ left' = [left EXCEPT ![s] = Len(objects) - to]
      /\ offset' = [offset EXCEPT ![s] = OffsetOf(s)]
      /\ value' = [value EXCEPT ![s] = count - OffsetOf(s)]
      /\ pc' = [pc EXCEPT ![q] = "retrieved"]
  BY DEF Retrieve, Inv, TypeOK
<1> HIDE DEF from, to, new, old, origin
<1>8. TypeOK'
  <2>1. Len(objects) - to \in Nat /\ count - OffsetOf(s) \in Nat
    BY <1>1, <1>3, <1>4
  <2>2. age' = [age EXCEPT ![s] = 0] /\ known' = known \cup {s}
    BY DEF Retrieve
  <2>3. 0 \in 0 .. ClearTime + 1
    BY HistoryAssumption
  <2> QED
    BY <1>1, <1>3, <1>4, <1>6, <1>7, <2>1, <2>2, <2>3 DEF Inv, TypeOK
<1>9. Numbered'
  BY <1>3 DEF Inv, Numbered
<1>10. /\ origin = Deleted + from
       /\ kind = "clearing" => OffsetOf(s) + Len(old) = origin
       /\ \A i \in 1 .. Len(old) : old[i] = origin - Len(old) + i
  <2>1. CASE s \in live
    <3>1. origin = Reached(s) /\ old = served[s] /\ OffsetOf(s) = offset[s]
      BY <2>1 DEF origin, OffsetOf, old
    <3>2. kind = "clearing" => offset[s] + Len(served[s]) = Reached(s)
      BY <2>1 DEF Inv, Placed
    <3>3. \A i \in 1 .. Len(served[s]) : served[s][i] = Reached(s) - Len(served[s]) + i
      BY <2>1 DEF Inv, ServedOnce
    <3>4. origin = Deleted + from
      BY <2>1, <3>1 DEF Reached, Index, from
    <3> QED
      BY <3>1, <3>2, <3>3, <3>4
  <2>2. CASE s \notin live
    BY <2>2, <1>3 DEF OffsetOf, Index, Begin, from, old, origin
  <2> QED
    BY <2>1, <2>2
<1>11. kind = "clearing" => OffsetOf(s) + Len(old) + Len(new) = Deleted + to
  BY <1>1, <1>2, <1>3, <1>4, <1>5, <1>10
<1>12. Placed'
  <2>1. \A r \in Sessions : offset'[r] <= count
    BY <1>4, <1>7 DEF Inv, Placed, TypeOK
  <2>2. ASSUME kind = "clearing", NEW r \in live'
        PROVE  offset'[r] + Len(served'[r]) = Deleted + cursor'[r]
    <3>1. CASE r = s
      <4>1. /\ offset'[r] = OffsetOf(s) /\ cursor'[r] = to
            /\ Len(served'[r]) = Len(old) + Len(new)
        BY <3>1, <1>6, <1>7 DEF Inv, TypeOK
      <4> QED
        BY <2>2, <4>1, <1>1, <1>2, <1>4, <1>5, <1>11
    <3>2. CASE r # s
      BY <2>2, <3>2, <1>7 DEF Inv, TypeOK, Placed, Reached
    <3> QED
      BY <3>1, <3>2
  <2> QED
    BY <1>3, <2>1, <2>2 DEF Placed, Reached
<1>13. Least'
  <2> SUFFICES ASSUME NEW K \in SUBSET live', K # {}
               PROVE  \E r \in K : \A t \in K : cursor'[r] <= cursor'[t]
    BY DEF Least
  <2>1. /\ cursor'[s] = to /\ \A r \in Sessions : r # s => cursor'[r] = cursor[r]
        /\ \A r \in Sessions : cursor[r] \in Nat
    BY <1>7 DEF Inv, TypeOK
  <2>2. CASE K \ {s} = {}
    BY <2>1, <2>2, <1>1
  <2>3. CASE K \ {s} # {}
    <3>1. K \ {s} \in SUBSET live
      BY <1>7
    <3>2. PICK r \in K \ {s} : \A t \in K \ {s} : cursor[r] <= cursor[t]
      BY <2>3, <3>1 DEF Inv, Least
    <3>3. CASE cursor[r] <= to
      BY <1>7, <2>1, <3>2, <3>3
    <3>4. CASE ~(cursor[r] <= to)
      <4>1. \A t \in K : to <= cursor'[t]
        BY <1>1, <1>7, <2>1, <3>2, <3>4
      <4>2. CASE s \in K
        BY <2>1, <4>1, <4>2
      <4>3. CASE s \notin K
        <5>1. \A t \in K : cursor'[t] = cursor[t] /\ cursor[r] <= cursor[t]
          BY <1>7, <2>1, <3>2, <4>3
        <5> QED
          BY <1>7, <3>2, <5>1
      <4> QED
        BY <4>2, <4>3
    <3> QED
      BY <3>3, <3>4
  <2> QED
    BY <2>2, <2>3
<1>14. ServedOnce'
  <2> SUFFICES ASSUME NEW r \in live', NEW i \in 1 .. Len(served'[r])
               PROVE  served'[r][i] = Reached(r)' - Len(served'[r]) + i
    BY DEF ServedOnce
  <2>1. CASE r # s
    <3>1. Reached(r)' = Reached(r) /\ served'[r] = served[r] /\ r \in live
      BY <2>1, <1>3, <1>7 DEF Inv, TypeOK, Reached
    <3> QED
      BY <3>1 DEF Inv, ServedOnce
  <2>2. CASE r = s
    <3>1. /\ served'[r] = old \o new /\ Reached(r)' = Deleted + to
          /\ i \in 1 .. Len(old) + Len(new)
      BY <2>2, <1>3, <1>6, <1>7 DEF Inv, TypeOK, Reached
    <3>2. CASE i <= Len(old)
      <4>1. i \in 1 .. Len(old)
        BY <3>1, <3>2, <1>5
      <4>2. (old \o new)[i] = old[i]
        BY <3>1, <3>2, <1>6
      <4>3. old[i] = origin - Len(old) + i /\ origin = Deleted + from
        BY <4>1, <1>10
      <4>4. served'[r][i] = origin - Len(old) + i
        BY <3>1, <4>2, <4>3
      <4>5. Len(served'[r]) = Len(old) + (to - from)
        BY <3>1, <1>2, <1>6
      <4>6. i \in Nat /\ Len(old) \in Nat
        BY <4>1, <1>5
      <4>7. origin - Len(old) + i = (Deleted + to) - (Len(old) + (to - from)) + i
        BY <4>3, <4>6, <1>1, <1>3
      <4>8. Reached(r)' - Len(served'[r]) + i = (Deleted + to) - (Len(old) + (to - from)) + i
        BY <3>1, <4>5
      <4> QED
        BY <4>4, <4>7, <4>8
    <3>3. CASE ~(i <= Len(old))
      <4>1. i - Len(old) \in 1 .. Len(new)
        BY <3>1, <3>3, <1>1, <1>2, <1>5
      <4>2. (old \o new)[i] = Deleted + from + (i - Len(old))
        BY <3>1, <3>3, <4>1, <1>2, <1>6
      <4>3. served'[r][i] = Deleted + from + (i - Len(old))
        BY <3>1, <4>2
      <4>4. Len(served'[r]) = Len(old) + (to - from)
        BY <3>1, <1>2, <1>6
      <4>5. Reached(r)' - Len(served'[r]) + i = (Deleted + to) - (Len(old) + (to - from)) + i
        BY <3>1, <4>4
      <4>6. i \in Int /\ Len(old) \in Nat
        BY <3>1, <1>5
      <4>7. (Deleted + to) - (Len(old) + (to - from)) + i = Deleted + from + (i - Len(old))
        BY <4>6, <1>1, <1>3
      <4> QED
        BY <4>3, <4>5, <4>7
    <3> QED
      BY <3>2, <3>3
  <2> QED
    BY <2>1, <2>2
<1>15. CountMatches'
  <2> SUFFICES ASSUME kind = "clearing", NEW r \in live'
               PROVE  value'[r] = Len(served'[r]) + left'[r]
    BY <1>3 DEF CountMatches, Validates
  <2>1. CASE r # s
    BY <2>1, <1>7 DEF Inv, TypeOK, CountMatches, Validates
  <2>2. CASE r = s
    <3>1. /\ value'[r] = count - OffsetOf(s) /\ left'[r] = Len(objects) - to
          /\ Len(served'[r]) = Len(old) + Len(new)
      BY <2>2, <1>6, <1>7 DEF Inv, TypeOK
    <3>2. Len(new) \in Nat /\ Len(old) + Len(new) \in Nat
      BY <1>1, <1>2, <1>5
    <3>3. OffsetOf(s) + (Len(old) + Len(new)) = Deleted + to
      BY <3>2, <1>4, <1>5, <1>11
    <3>4. count = Deleted + Len(objects)
      BY <1>3
    <3>5. count - OffsetOf(s) = (Len(old) + Len(new)) + (Len(objects) - to)
      BY <3>2, <3>3, <3>4, <1>1, <1>3, <1>4
    <3> QED
      BY <3>1, <3>5
  <2> QED
    BY <2>1, <2>2
<1> QED
  BY <1>8, <1>9, <1>12, <1>13, <1>14, <1>15 DEF Inv

(* The number of objects that clear deletes is beyond no cursor it keeps.   *)
LEMMA EarliestType ==
    ASSUME Inv
    PROVE  /\ Earliest \in Nat /\ Earliest <= Len(objects)
           /\ \A s \in Kept : Earliest <= cursor[s]
<1>1. Kept \in SUBSET live /\ Kept \subseteq Sessions
  BY DEF Kept, Inv, TypeOK
<1>2. \A s \in Sessions : cursor[s] \in Nat /\ cursor[s] <= Len(objects)
  BY DEF Inv, TypeOK
<1>3. CASE Kept = {}
  BY <1>3 DEF Earliest, Inv, TypeOK
<1>4. CASE Kept # {}
  <2>1. PICK s \in Kept : \A t \in Kept : cursor[s] <= cursor[t]
    BY <1>1, <1>4 DEF Inv, Least
  <2>2. \E c \in {cursor[t] : t \in Kept} : \A t \in Kept : c <= cursor[t]
    BY <2>1
  <2>3. /\ Earliest \in {cursor[t] : t \in Kept}
        /\ \A t \in Kept : Earliest <= cursor[t]
    BY <1>4, <2>2 DEF Earliest
  <2> QED
    BY <1>1, <1>2, <2>3
<1> QED
  BY <1>3, <1>4

LEMMA ClearStep ==
    ASSUME Inv, NEW q \in Requests, Clear(q)
    PROVE  Inv'
<1> DEFINE n == Earliest
<1>1. /\ n \in Nat /\ n <= Len(objects) /\ \A r \in Kept : n <= cursor[r]
  BY EarliestType
<1>2. /\ live' = Kept /\ Kept \subseteq live /\ live \subseteq Sessions /\ known' = known \ Expired
      /\ objects' = SubSeq(objects, n + 1, Len(objects))
      /\ cursor' = [r \in Sessions |-> IF r \in Kept THEN cursor[r] - n ELSE 0]
      /\ pc' = [pc EXCEPT ![q] = "idle"]
      /\ UNCHANGED <<kind, age, count, offset, value, served, left>>
  BY DEF Clear, Kept, Shifted, Inv, TypeOK, counts, seen
<1> HIDE DEF n
<1>3. /\ objects \in Seq(Nat) /\ Len(objects) \in Nat /\ count \in Nat /\ Len(objects) <= count
      /\ \A i \in 1 .. Len(objects) : objects[i] = Deleted + i
  BY HistoryAssumption DEF Inv, TypeOK, Numbered
<1>4. /\ objects' \in Seq(Nat) /\ Len(objects') = Len(objects) - n
      /\ \A i \in 1 .. Len(objects) - n : objects'[i] = objects[n + i]
  <2>1. n + 1 \in Int /\ Len(objects) \in Int /\ \A i \in n + 1 .. Len(objects) : objects[i] \in Nat
    BY <1>1, <1>3
  <2>2. /\ objects' \in Seq(Nat)
        /\ Len(objects') = IF n + 1 <= Len(objects) THEN Len(objects) - (n + 1) + 1 ELSE 0
        /\ \A i \in 1 .. Len(objects) - (n + 1) + 1 : objects'[i] = objects[n + 1 + i - 1]
    BY <1>2, <2>1, SubSeqProperties
  <2>3. Len(objects') = Len(objects) - n
    BY <1>1, <1>3, <2>2
  <2>4. \A i \in 1 .. Len(objects) - n :
           n + 1 + i - 1 = n + i /\ i \in 1 .. Len(objects) - (n + 1) + 1
    BY <1>1, <1>3
  <2> QED
    BY <2>2, <2>3, <2>4
<1>5. Deleted \in Nat /\ Deleted' = Deleted + n
  <2>1. Deleted = count - Len(objects) /\ Deleted' = count - Len(objects')
    BY <1>2 DEF Deleted
  <2> QED
    BY <2>1, <1>1, <1>3, <1>4
<1>6. \A r \in Kept : cursor'[r] = cursor[r] - n /\ cursor[r] \in Nat /\ cursor'[r] \in Nat
  <2>1. \A r \in Sessions : cursor[r] \in Nat
    BY DEF Inv, TypeOK
  <2> SUFFICES ASSUME NEW r \in Kept
               PROVE  cursor'[r] = cursor[r] - n /\ cursor[r] \in Nat /\ cursor'[r] \in Nat
    OBVIOUS
  <2>2. cursor[r] \in Nat /\ n <= cursor[r]
    BY <1>1, <1>2, <2>1
  <2>3. cursor'[r] = cursor[r] - n
    BY <1>2
  <2> QED
    BY <1>1, <2>2, <2>3
<1>7. TypeOK'
  <2>1. \A r \in Sessions : cursor'[r] \in Nat /\ cursor'[r] <= Len(objects')
    <3> SUFFICES ASSUME NEW r \in Sessions
                 PROVE  cursor'[r] \in Nat /\ cursor'[r] <= Len(objects')
      OBVIOUS
    <3>1. cursor[r] \in Nat /\ cursor[r] <= Len(objects)
      BY DEF Inv, TypeOK
    <3>2. CASE r \in Kept
      <4>1. cursor'[r] = cursor[r] - n /\ n <= cursor[r]
        BY <1>1, <1>2, <3>2
      <4> QED
        BY <4>1, <1>1, <1>3, <1>4, <3>1
    <3>3. CASE r \notin Kept
      <4>1. cursor'[r] = 0
        BY <1>2, <3>3
      <4> QED
        BY <4>1, <1>1, <1>3, <1>4
    <3> QED
      BY <3>2, <3>3
  <2>2. cursor' \in [Sessions -> Nat]
    BY <1>2, <2>1
  <2>3. Kept \subseteq known \ Expired /\ known \ Expired \subseteq Sessions
    BY DEF Kept, Inv, TypeOK
  <2> QED
    BY <1>2, <1>4, <2>1, <2>2, <2>3 DEF Inv, TypeOK
<1>8. Numbered'
  <2>1. \A i \in 1 .. Len(objects') : objects'[i] = Deleted' + i
    BY <1>1, <1>3, <1>4, <1>5
  <2> QED
    BY <1>1, <1>2, <1>3, <1>4, <2>1 DEF Numbered
<1>9. Placed'
  <2>1. ASSUME kind = "clearing", NEW r \in Kept
        PROVE  offset[r] + Len(served[r]) = Deleted' + cursor'[r]
    <3>1. offset[r] + Len(served[r]) = Deleted + cursor[r]
      BY <1>2, <2>1 DEF Inv, Placed, Reached
    <3> QED
      BY <3>1, <1>1, <1>5, <1>6
  <2> QED
    BY <1>2, <2>1 DEF Inv, Placed, Reached
<1>10. Least'
  <2> SUFFICES ASSUME NEW K \in SUBSET Kept, K # {}
               PROVE  \E r \in K : \A t \in K : cursor'[r] <= cursor'[t]
    BY <1>2 DEF Least
  <2>1. PICK r \in K : \A t \in K : cursor[r] <= cursor[t]
    BY <1>2 DEF Inv, Least
  <2>2. \A t \in K : cursor'[r] <= cursor'[t]
    BY <1>1, <1>6, <2>1
  <2> QED
    BY <2>2
<1>11. ServedOnce'
  <2>1. ASSUME NEW r \in Kept PROVE Reached(r)' = Reached(r)
    BY <1>1, <1>5, <1>6 DEF Reached
  <2> QED
    BY <1>2, <2>1 DEF Inv, ServedOnce
<1>12. CountMatches'
  BY <1>2 DEF Inv, CountMatches, Validates
<1> QED
  BY <1>7, <1>8, <1>9, <1>10, <1>11, <1>12 DEF Inv

LEMMA InvStep == Inv /\ [Next]_vars => Inv'
<1> SUFFICES ASSUME Inv, [Next]_vars PROVE Inv'
  OBVIOUS
<1>1. CASE Arrive
  BY <1>1, ArriveStep
<1>2. CASE Tick
  <2>1. \A r \in Sessions : Smaller(age[r] + 1, ClearTime + 1) \in 0 .. ClearTime + 1
    BY HistoryAssumption DEF Inv, TypeOK, Smaller
  <2>2. TypeOK'
    BY <1>2, <2>1 DEF Tick, Inv, TypeOK, cursors, counts, seen
  <2> QED
    BY <1>2, <2>2, QuietStep DEF Tick, cursors, counts, seen
<1>3. ASSUME NEW r \in Requests, Retrieve(r) PROVE Inv'
  <2>1. Asker(r) \in Sessions
    BY AskerType
  <2> QED
    BY <1>3, <2>1, RetrieveStep
<1>4. ASSUME NEW r \in Requests, BadRequest(r) \/ SeenCount(r) \/ KeepAll(r) PROVE Inv'
  <2>1. TypeOK'
    BY <1>4 DEF BadRequest, SeenCount, KeepAll, Inv, TypeOK, cursors, clock, counts, seen
  <2>2. UNCHANGED <<kind, objects, live, cursor, count, offset, value, seen>>
    BY <1>4 DEF BadRequest, SeenCount, KeepAll, cursors, counts
  <2> QED
    BY <2>1, <2>2, QuietStep
<1>5. ASSUME NEW r \in Requests, Clear(r) PROVE Inv'
  BY <1>5, ClearStep
<1>6. CASE UNCHANGED vars
  <2>1. TypeOK'
    BY <1>6 DEF vars, Inv, TypeOK, cursors, clock, counts, seen
  <2> QED
    BY <1>6, <2>1, QuietStep DEF vars, cursors, counts, seen
<1> QED
  BY <1>1, <1>2, <1>3, <1>4, <1>5, <1>6 DEF Next, Serve

(* Every reachable state is well typed; no cursor is beyond the end.       *)
THEOREM TypeCorrect == Spec => []TypeOK
<1>1. Inv => TypeOK
  BY DEF Inv
<1> QED
  BY <1>1, InvInit, InvStep, PTL DEF Spec

(* Whatever the requests, arrivals and expiries and their order, a session *)
(* is served every object from where it began, once and in order, and the  *)
(* validation count of a clearing history agrees with what it was served,  *)
(* though it is read under a lock of its own (RamHistory.retrieve, clear   *)
(* and get_seen_count).                                                    *)
THEOREM EverySessionServedRight == Spec => []ServedRight
<1>1. Inv => ServedRight
  BY DEF Inv, ServedRight
<1> QED
  BY <1>1, InvInit, InvStep, PTL DEF Spec

-----------------------------------------------------------------------------
(* The page that polls.                                                    *)

(* A response is out only between the server's answer and its callback.    *)
Emptied == current = NoRequest \/ wire[current] = "asked" => reply = <<>>

Rising(seq) == \A i, j \in 1 .. Len(seq) : i < j => seq[i] < seq[j]

(* The page is given the objects in order, what is on its way after what   *)
(* it has.                                                                 *)
GivenInOrder ==
    /\ Rising(store) /\ Rising(reply)
    /\ \A a \in Items(store), b \in Items(reply) : a < b

(* What the page was given and what it missed are different objects, and   *)
(* all of them arrived; a session of a history that keeps everything is    *)
(* never forgotten, so that it begins with nothing given and nothing missed. *)
Accounted ==
    /\ Given \subseteq 1 .. count /\ missed \subseteq 1 .. count
    /\ missed \cap Given = {}
    /\ Page \in live => missed \cup Given = 1 .. Reached(Page)
    /\ kind = "kept" /\ Page \notin live =>
         store = <<>> /\ reply = <<>> /\ missed = {}

Polling == ClientTypeOK /\ OneRequest /\ SessionFirst /\ Emptied

PageInv == Inv /\ Polling /\ GivenInOrder /\ Accounted

(* The requests of the page.                                               *)
LEMMA MineType ==
    /\ Page \in Sessions /\ NoRequest \notin Mine
    /\ \A r \in Mine : r \in Requests /\ Asker(r) = Page
  BY ClientAssumption, HistoryAssumption DEF Mine

LEMMA PageInvInit == ClientInit => PageInv
<1> SUFFICES ASSUME ClientInit PROVE PageInv
  OBVIOUS
<1>1. Inv
  BY InvInit DEF ClientInit
<1>2. /\ <<>> \in Seq(Nat) /\ Len(<<>>) = 0
      /\ \A seq : seq = <<>> => Items(seq) = {} /\ 1 .. Len(seq) = {}
  BY DEF Items
<1>3. Polling
  <2>1. /\ running = FALSE /\ queued = FALSE /\ current = NoRequest /\ loaded = {} /\ abandoned = {}
        /\ wire = [r \in Mine |-> "free"] /\ reply = <<>>
        /\ store \in Seq(Nat) /\ reply \in Seq(Nat) /\ counted = 0 /\ dropped = 0
    BY <1>2 DEF ClientInit
  <2>2. 0 \in Nat /\ 0 \in Int
    OBVIOUS
  <2>3. ClientTypeOK
    BY <2>1, <2>2 DEF ClientTypeOK
  <2>4. \A r \in Mine : pc[r] = "idle" /\ r # NoRequest
    BY MineType DEF ClientInit, Init
  <2>5. OneRequest
    BY <2>1, <2>4 DEF OneRequest
  <2> QED
    BY <2>1, <2>3, <2>5 DEF Polling, SessionFirst, Emptied
<1>4. GivenInOrder /\ Accounted
  BY <1>2 DEF ClientInit, Init, GivenInOrder, Rising, Accounted, Given
<1> QED
  BY <1>1, <1>3, <1>4 DEF PageInv

(* Every step of the page and its server is one of the history or leaves   *)
(* the history alone.                                                      *)
LEMMA HistoryStep == ClientNext => [Next]_vars
  BY MineType
     DEF ClientNext, SetupLoad, Fire, Receive, Fail, ServeRetrieve, ServeRest, Others, Next

(* What a step of the history that is no retrieve by the page means for it. *)
LEMMA PageElsewhere ==
    ASSUME Inv, [Next]_vars, \A r \in Requests : Retrieve(r) => Asker(r) # Page
    PROVE  /\ kind' = kind /\ count \in Nat /\ count' \in Nat /\ count <= count'
           /\ Page \in live' => Page \in live /\ Reached(Page)' = Reached(Page)
           /\ kind = "kept" /\ Page \in live => Page \in live'
<1> USE ClientAssumption, HistoryAssumption
<1>1. CASE Arrive
  <2>1. /\ objects \in Seq(Nat) /\ Len(objects) \in Nat /\ count \in Nat
        /\ objects' = Append(objects, count + 1) /\ count' = count + 1
    BY <1>1 DEF Inv, TypeOK, Arrive
  <2>2. Len(objects') = Len(objects) + 1
    BY <2>1, AppendProperties
  <2> QED
    BY <1>1, <2>1, <2>2 DEF Arrive, Reached, Deleted, cursors
<1>2. ASSUME NEW q \in Requests, Clear(q)
      PROVE  /\ kind' = kind /\ kind = "clearing" /\ count \in Nat /\ count' = count
             /\ Page \in live' => Page \in live /\ Reached(Page)' = Reached(Page)
  <2> DEFINE n == Earliest
  <2>1. n \in Nat /\ n <= Len(objects)
    BY EarliestType
  <2>2. /\ live' = Kept /\ kind' = kind /\ kind = "clearing" /\ count' = count
        /\ objects' = SubSeq(objects, n + 1, Len(objects))
        /\ cursor' = [r \in Sessions |-> IF r \in Kept THEN cursor[r] - n ELSE 0]
    BY <1>2 DEF Clear, Shifted, counts
  <2> HIDE DEF n
  <2>3. objects \in Seq(Nat) /\ Len(objects) \in Nat /\ count \in Nat
    BY DEF Inv, TypeOK
  <2>4. Len(objects') = Len(objects) - n
    <3>1. /\ n + 1 \in Int /\ Len(objects) \in Int
          /\ \A i \in n + 1 .. Len(objects) : objects[i] \in Nat
      BY <2>1, <2>3
    <3>2. Len(objects') = IF n + 1 <= Len(objects) THEN Len(objects) - (n + 1) + 1 ELSE 0
      BY <2>2, <3>1, SubSeqProperties
    <3> QED
      BY <3>2, <2>1, <2>3
  <2>5. cursor[Page] \in Nat /\ Page \in Sessions
    BY DEF Inv, TypeOK
  <2>6. Page \in Kept => Page \in live /\ cursor'[Page] = cursor[Page] - n
    BY <2>2, <2>5 DEF Kept
  <2>7. Page \in Kept => Reached(Page)' = Reached(Page)
    <3>1. ASSUME Page \in Kept
          PROVE  (count' - Len(objects')) + cursor'[Page] = (count - Len(objects)) + cursor[Page]
      <4>1. /\ count' = count /\ Len(objects') = Len(objects) - n
            /\ cursor'[Page] = cursor[Page] - n
        BY <3>1, <2>2, <2>4, <2>6
      <4> QED
        BY <4>1, <2>1, <2>3, <2>5
    <3> QED
      BY <3>1 DEF Reached, Deleted
  <2> QED
    BY <2>2, <2>3, <2>6, <2>7
<1>3. ASSUME NEW q \in Requests, Retrieve(q)
      PROVE  /\ UNCHANGED <<kind, objects, count>> /\ count \in Nat
             /\ Page \in live' <=> Page \in live
             /\ cursor'[Page] = cursor[Page]
  <2>1. Asker(q) # Page
    BY <1>3
  <2>2. /\ UNCHANGED <<kind, objects, count>> /\ live' = live \cup {Asker(q)}
        /\ cursor' = [cursor EXCEPT ![Asker(q)] = EndSlice(Asker(q))]
    BY <1>3 DEF Retrieve
  <2>3. cursor \in [Sessions -> Nat] /\ count \in Nat
    BY DEF Inv, TypeOK
  <2> QED
    BY <2>1, <2>2, <2>3
<1>4. ASSUME \/ Tick \/ UNCHANGED vars
             \/ \E r \in Requests : BadRequest(r) \/ SeenCount(r) \/ KeepAll(r)
      PROVE  UNCHANGED <<kind, objects, count, live, cursor>> /\ count \in Nat
  <2>1. count \in Nat
    BY DEF Inv, TypeOK
  <2>2. CASE Tick
    BY <2>1, <2>2 DEF Tick, cursors, counts
  <2>3. CASE UNCHANGED vars
    BY <2>1, <2>3 DEF vars, cursors, counts
  <2>4. CASE \E r \in Requests : BadRequest(r) \/ SeenCount(r) \/ KeepAll(r)
    BY <2>1, <2>4 DEF BadRequest, SeenCount, KeepAll, cursors, counts
  <2> QED
    BY <1>4, <2>2, <2>3, <2>4
<1>5. ASSUME UNCHANGED <<kind, objects, count>>, count \in Nat, Page \in live' <=> Page \in live,
             cursor'[Page] = cursor[Page]
      PROVE  /\ kind' = kind /\ count' \in Nat /\ count <= count'
             /\ Page \in live' => Page \in live /\ Reached(Page)' = Reached(Page)
             /\ kind = "kept" /\ Page \in live => Page \in live'
  BY <1>5 DEF Reached, Deleted
<1> QED
  BY <1>1, <1>2, <1>3, <1>4, <1>5 DEF Next, Serve

(* What the page has and misses stays so in every step that moves nothing  *)
(* between the response and the page.                                      *)
LEMMA AccountKept ==
    ASSUME PageInv, [Next]_vars, \A r \in Requests : Retrieve(r) => Asker(r) # Page,
           UNCHANGED <<store, reply, missed>>
    PROVE  GivenInOrder' /\ Accounted'
<1>1. /\ kind' = kind /\ count \in Nat /\ count' \in Nat /\ count <= count'
      /\ Page \in live' => Page \in live /\ Reached(Page)' = Reached(Page)
      /\ kind = "kept" /\ Page \in live => Page \in live'
  BY PageElsewhere DEF PageInv
<1>2. 1 .. count \subseteq 1 .. count'
  BY <1>1
<1> QED
  BY <1>1, <1>2 DEF PageInv, GivenInOrder, Rising, Accounted, Given, Items

(* The requests that are under way while the page awaits none.             *)
Adrift(w, given) ==
    /\ w \in [Mine -> {"free", "asked", "served", "answered"}] /\ given \subseteq Mine
    /\ \A r \in Mine : w[r] # "free" <=> r \in given
    /\ \A r \in Mine : w[r] = "served" <=> pc[r] # "idle"

(* A new request is the one that is awaited.                               *)
LEMMA LoadPolls ==
    ASSUME NEW w, Adrift(w, abandoned'), Load(w), pc' = pc
    PROVE  /\ current' \in Mine /\ wire' \in [Mine -> {"free", "asked", "served", "answered"}]
           /\ running' = TRUE /\ reply' = <<>> /\ OneRequest'
<1>1. PICK r \in Mine : /\ w[r] = "free" /\ wire' = [w EXCEPT ![r] = "asked"] /\ current' = r
                        /\ running' = TRUE /\ reply' = <<>>
  BY DEF Load
<1>2. wire' \in [Mine -> {"free", "asked", "served", "answered"}]
  BY <1>1 DEF Adrift
<1>3. wire'[r] = "asked" /\ \A q \in Mine : q # r => wire'[q] = w[q]
  BY <1>1 DEF Adrift
<1>4. OneRequest'
  BY <1>1, <1>3 DEF Adrift, OneRequest
<1> QED
  BY <1>1, <1>2, <1>4

(* The page's timer and its startup: nothing is moved.                     *)
LEMMA TimerStep ==
    ASSUME PageInv, NEW e \in Startup, SetupLoad(e) \/ Fire
    PROVE  PageInv'
<1>1. UNCHANGED <<vars, store, counted, dropped, missed, abandoned>>
  BY DEF SetupLoad, Fire, checks, faults
<1>2. Inv'
  BY <1>1, InvStep DEF PageInv
<1>3. pc' = pc
  BY <1>1 DEF vars
<1>4. Polling' /\ reply' = reply
  <2>1. CASE SetupLoad(e)
    BY <1>1, <1>3, <2>1 DEF SetupLoad, poll, PageInv, Polling, ClientTypeOK, OneRequest, SessionFirst, Emptied
  <2>2. CASE Fire
    <3>1. loaded' = loaded /\ loaded = Startup /\ Session \in loaded
      BY <2>2, ClientAssumption DEF Fire, Ready
    <3>2. CASE running
      <4>1. queued' = TRUE /\ UNCHANGED <<running, current, wire, reply>>
        BY <2>2, <3>2 DEF Fire, Busy
      <4> QED
        BY <1>1, <1>3, <3>1, <3>2, <4>1
           DEF PageInv, Polling, ClientTypeOK, OneRequest, SessionFirst, Emptied
    <3>3. CASE ~running
      <4>1. queued' = FALSE /\ Load(wire)
        BY <2>2, <3>3 DEF Fire, Busy
      <4>2. current = NoRequest /\ reply = <<>>
        BY <3>3 DEF PageInv, Polling, ClientTypeOK, Emptied
      <4>3. Adrift(wire, abandoned')
        BY <1>1, <4>2, MineType DEF Adrift, PageInv, Polling, ClientTypeOK, OneRequest
      <4>4. /\ current' \in Mine /\ wire' \in [Mine -> {"free", "asked", "served", "answered"}]
            /\ running' = TRUE /\ reply' = <<>> /\ OneRequest'
        BY <1>3, <4>1, <4>3, LoadPolls
      <4>5. ClientTypeOK'
        BY <1>1, <3>1, <4>1, <4>2, <4>4, MineType DEF PageInv, Polling, ClientTypeOK
      <4> QED
        BY <3>1, <4>2, <4>4, <4>5 DEF Polling, SessionFirst, Emptied
    <3> QED
      BY <3>2, <3>3
  <2> QED
    BY <2>1, <2>2
<1>5. GivenInOrder' /\ Accounted'
  <2>1. UNCHANGED vars /\ UNCHANGED <<count, live, kind, objects, cursor>>
    BY <1>1 DEF vars, cursors, counts
  <2>2. Reached(Page)' = Reached(Page)
    BY <2>1 DEF Reached, Deleted
  <2> QED
    BY <1>1, <1>4, <2>1, <2>2 DEF PageInv, GivenInOrder, Rising, Accounted, Given, Items
<1> QED
  BY <1>2, <1>4, <1>5 DEF PageInv

(* A poll that is over leaves nothing on its way.                          *)
LEMMA FinallyPolls ==
    ASSUME PageInv, running, NEW again \in BOOLEAN, NEW w, Finally(again, w), Adrift(w, abandoned'),
           UNCHANGED <<vars, loaded>>, store' \in Seq(Nat), counted' \in Nat, dropped' \in Int
    PROVE  Polling' /\ reply' = <<>>
<1>1. pc' = pc /\ loaded' = loaded
  BY DEF vars
<1>2. Session \in loaded /\ <<>> \in Seq(Nat)
  BY DEF PageInv, Polling, SessionFirst
<1>3. CASE again
  <2>1. queued' = FALSE /\ Load(w)
    BY <1>3 DEF Finally
  <2>2. /\ current' \in Mine /\ wire' \in [Mine -> {"free", "asked", "served", "answered"}]
        /\ running' = TRUE /\ reply' = <<>> /\ OneRequest'
    BY <1>1, <2>1, LoadPolls
  <2>3. ClientTypeOK'
    BY <1>1, <1>2, <2>1, <2>2, MineType DEF PageInv, Polling, ClientTypeOK, Adrift
  <2> QED
    BY <1>1, <1>2, <2>2, <2>3 DEF Polling, SessionFirst, Emptied
<1>4. CASE ~again
  <2>1. /\ queued' = FALSE /\ running' = FALSE /\ current' = NoRequest /\ wire' = w /\ reply' = <<>>
    BY <1>4 DEF Finally
  <2>2. ClientTypeOK'
    BY <1>1, <1>2, <2>1 DEF PageInv, Polling, ClientTypeOK, Adrift
  <2>3. OneRequest'
    BY <1>1, <2>1, MineType DEF OneRequest, Adrift
  <2> QED
    BY <2>1, <2>2, <2>3 DEF Polling, SessionFirst, Emptied
<1> QED
  BY <1>3, <1>4

(* What is under way when the response that is awaited has come.           *)
LEMMA AnsweredAdrift ==
    ASSUME PageInv, running, wire[current] = "answered", abandoned' = abandoned
    PROVE  Adrift(Answered, abandoned')
<1>1. current \in Mine /\ current \notin abandoned /\ pc[current] = "idle"
  BY DEF PageInv, Polling, ClientTypeOK, OneRequest
<1>2. /\ Answered \in [Mine -> {"free", "asked", "served", "answered"}]
      /\ Answered[current] = "free" /\ \A r \in Mine : r # current => Answered[r] = wire[r]
  BY <1>1 DEF PageInv, Polling, ClientTypeOK, Answered
<1> QED
  BY <1>1, <1>2 DEF Adrift, PageInv, Polling, ClientTypeOK, OneRequest

(* What a list of new objects makes of a list when it is put at its end.   *)
LEMMA Appended ==
    ASSUME NEW s \in Seq(Nat), NEW t \in Seq(Nat), Rising(s), Rising(t),
           \A a \in Items(s), b \in Items(t) : a < b
    PROVE  /\ s \o t \in Seq(Nat) /\ Len(s \o t) = Len(s) + Len(t)
           /\ \A i \in 1 .. Len(s) : (s \o t)[i] = s[i]
           /\ Items(s \o t) = Items(s) \cup Items(t)
           /\ Rising(s \o t)
<1>1. Len(s) \in Nat /\ Len(t) \in Nat /\ DOMAIN s = 1 .. Len(s) /\ DOMAIN t = 1 .. Len(t)
  OBVIOUS
<1>2. /\ s \o t \in Seq(Nat) /\ Len(s \o t) = Len(s) + Len(t)
      /\ \A i \in 1 .. Len(s) + Len(t) :
            (s \o t)[i] = IF i <= Len(s) THEN s[i] ELSE t[i - Len(s)]
  BY ConcatProperties
<1> DEFINE u == s \o t
<1> HIDE DEF u
<1>3. u \in Seq(Nat) /\ Len(u) = Len(s) + Len(t) /\ DOMAIN u = 1 .. Len(s) + Len(t)
  BY <1>1, <1>2 DEF u
<1>4. /\ \A i \in 1 .. Len(s) : i \in 1 .. Len(u) /\ u[i] = s[i]
      /\ \A i \in 1 .. Len(t) : Len(s) + i \in 1 .. Len(u) /\ u[Len(s) + i] = t[i]
  <2>1. ASSUME NEW i \in 1 .. Len(s) PROVE i \in 1 .. Len(u) /\ u[i] = s[i]
    <3>1. i \in 1 .. Len(s) + Len(t) /\ i <= Len(s)
      BY <1>1
    <3> QED
      BY <1>2, <1>3, <3>1 DEF u
  <2>2. ASSUME NEW i \in 1 .. Len(t) PROVE Len(s) + i \in 1 .. Len(u) /\ u[Len(s) + i] = t[i]
    <3>1. /\ Len(s) + i \in 1 .. Len(s) + Len(t) /\ ~(Len(s) + i <= Len(s))
          /\ (Len(s) + i) - Len(s) = i
      BY <1>1
    <3> QED
      BY <1>2, <1>3, <3>1 DEF u
  <2> QED
    BY <2>1, <2>2
<1>5. \A k \in 1 .. Len(u) : \/ k \in 1 .. Len(s)
                             \/ \E i \in 1 .. Len(t) : k = Len(s) + i
  <2> SUFFICES ASSUME NEW k \in 1 .. Len(u), k \notin 1 .. Len(s)
               PROVE  \E i \in 1 .. Len(t) : k = Len(s) + i
    OBVIOUS
  <2>1. k - Len(s) \in 1 .. Len(t) /\ k = Len(s) + (k - Len(s))
    BY <1>1, <1>3
  <2> QED
    BY <2>1
<1>6. Items(u) = Items(s) \cup Items(t)
  <2>1. Items(s) \subseteq Items(u)
    BY <1>1, <1>3, <1>4 DEF Items
  <2>2. Items(t) \subseteq Items(u)
    BY <1>1, <1>3, <1>4 DEF Items
  <2>3. ASSUME NEW k \in 1 .. Len(u) PROVE u[k] \in Items(s) \cup Items(t)
    BY <1>1, <1>4, <1>5 DEF Items
  <2>4. Items(u) \subseteq Items(s) \cup Items(t)
    BY <1>1, <1>3, <2>3 DEF Items
  <2> QED
    BY <2>1, <2>2, <2>4
<1>7. Rising(u)
  <2> SUFFICES ASSUME NEW i \in 1 .. Len(u), NEW j \in 1 .. Len(u), i < j
               PROVE  u[i] < u[j]
    BY DEF Rising
  <2>1. CASE j \in 1 .. Len(s)
    <3>1. i \in 1 .. Len(s)
      BY <1>1, <1>3, <2>1
    <3> QED
      BY <1>4, <2>1, <3>1 DEF Rising
  <2>2. CASE j \notin 1 .. Len(s)
    <3>1. PICK m \in 1 .. Len(t) : j = Len(s) + m
      BY <1>5, <2>2
    <3>2. u[j] = t[m] /\ t[m] \in Items(t)
      BY <1>1, <1>4, <3>1 DEF Items
    <3>3. CASE i \in 1 .. Len(s)
      <4>1. u[i] = s[i] /\ s[i] \in Items(s)
        BY <1>1, <1>4, <3>3 DEF Items
      <4> QED
        BY <3>2, <4>1
    <3>4. CASE i \notin 1 .. Len(s)
      <4>1. PICK l \in 1 .. Len(t) : i = Len(s) + l
        BY <1>5, <3>4
      <4>2. l < m
        BY <1>1, <3>1, <4>1
      <4>3. u[i] = t[l]
        BY <1>4, <4>1
      <4> QED
        BY <3>2, <4>2, <4>3 DEF Rising
    <3> QED
      BY <3>3, <3>4
  <2> QED
    BY <2>1, <2>2
<1> QED
  BY <1>2, <1>3, <1>4, <1>6, <1>7 DEF u

LEMMA EmptyList == Items(<<>>) = {} /\ Rising(<<>>)
<1>1. Len(<<>>) = 0 /\ DOMAIN <<>> = {} /\ 1 .. 0 = {}
  OBVIOUS
<1> QED
  BY <1>1 DEF Items, Rising

(* The history is as it was.                                               *)
LEMMA HistoryKept ==
    ASSUME UNCHANGED vars
    PROVE  UNCHANGED <<kind, count, live>> /\ Reached(Page)' = Reached(Page)
  BY DEF vars, cursors, counts, Reached, Deleted

LEMMA ReceiveStep == PageInv /\ Receive => PageInv'
<1> SUFFICES ASSUME PageInv, Receive PROVE PageInv'
  OBVIOUS
<1>1. /\ running /\ wire[current] = "answered" /\ store' = store \o reply
      /\ counted' = counted + 0 /\ dropped' = (IF 0 = 0 THEN counted' ELSE 0) - counted'
      /\ Finally(queued \/ Len(reply) >= Limit, Answered)
      /\ UNCHANGED <<vars, loaded, missed, abandoned>>
  BY DEF Receive, UpdateDropped, Deliver, faults
<1>2. /\ store \in Seq(Nat) /\ reply \in Seq(Nat) /\ counted \in Nat
      /\ Rising(store) /\ Rising(reply) /\ \A a \in Items(store), b \in Items(reply) : a < b
  BY DEF PageInv, Polling, ClientTypeOK, GivenInOrder
<1>3. /\ store' \in Seq(Nat) /\ Items(store') = Items(store) \cup Items(reply) /\ Rising(store')
  BY <1>1, <1>2, Appended
<1>4. Polling' /\ reply' = <<>>
  <2>1. (queued \/ Len(reply) >= Limit) \in BOOLEAN
    OBVIOUS
  <2>2. counted' \in Nat /\ dropped' \in Int
    BY <1>1, <1>2
  <2> QED
    BY <1>1, <1>3, <2>1, <2>2, FinallyPolls, AnsweredAdrift
<1>5. Inv'
  BY <1>1, InvStep DEF PageInv
<1>6. Given' = Given /\ missed' = missed
  BY <1>1, <1>3, <1>4, EmptyList DEF Given
<1>7. GivenInOrder' /\ Accounted'
  <2>1. GivenInOrder'
    BY <1>3, <1>4, EmptyList DEF GivenInOrder, Rising
  <2>2. kind = "kept" /\ Page \notin live => store' = <<>>
    BY <1>1 DEF PageInv, Accounted
  <2> QED
    BY <1>1, <1>4, <1>6, <2>1, <2>2, HistoryKept DEF PageInv, Accounted
<1> QED
  BY <1>4, <1>5, <1>7 DEF PageInv

LEMMA FailStep == PageInv /\ Fail => PageInv'
<1> SUFFICES ASSUME PageInv, Fail PROVE PageInv'
  OBVIOUS
<1>1. /\ running /\ missed' = missed \cup Items(reply)
      /\ UNCHANGED <<vars, loaded, store, counted, dropped>>
  BY DEF Fail, checks
<1>2. Polling' /\ reply' = <<>>
  <2>1. queued \in BOOLEAN /\ store' \in Seq(Nat) /\ counted' \in Nat /\ dropped' \in Int
    BY <1>1 DEF PageInv, Polling, ClientTypeOK
  <2>2. CASE wire[current] = "answered"
    <3>1. Finally(queued, Answered) /\ abandoned' = abandoned
      BY <2>2 DEF Fail
    <3> QED
      BY <1>1, <2>1, <2>2, <3>1, FinallyPolls, AnsweredAdrift
  <2>3. CASE wire[current] # "answered"
    <3>1. Finally(queued, wire) /\ abandoned' = abandoned \cup {current}
      BY <2>3 DEF Fail
    <3>2. Adrift(wire, abandoned')
      BY <1>1, <3>1, MineType DEF Adrift, PageInv, Polling, ClientTypeOK, OneRequest
    <3> QED
      BY <1>1, <2>1, <3>1, <3>2, FinallyPolls
  <2> QED
    BY <2>2, <2>3
<1>3. Inv'
  BY <1>1, InvStep DEF PageInv
<1>4. Given' = Items(store) /\ missed' = missed \cup Items(reply)
  BY <1>1, <1>2, EmptyList DEF Given
<1>5. Items(store) \cap Items(reply) = {}
  <2>1. \A a \in Items(store), b \in Items(reply) : a < b
    BY DEF PageInv, GivenInOrder
  <2>2. Items(store) \subseteq Nat
    BY DEF PageInv, Polling, ClientTypeOK, Items
  <2>3. \A a \in Nat : ~(a < a)
    OBVIOUS
  <2> QED
    BY <2>1, <2>2, <2>3
<1>6. GivenInOrder'
  BY <1>1, <1>2, EmptyList DEF PageInv, GivenInOrder, Rising
<1>7. Accounted'
  <2>1. reply = <<>> => Items(reply) = {}
    BY EmptyList
  <2> QED
    BY <1>1, <1>2, <1>4, <1>5, <2>1, HistoryKept DEF PageInv, Accounted, Given
<1> QED
  BY <1>2, <1>3, <1>6, <1>7 DEF PageInv

(* A retrieve by the page: what it returns is all there is between what the *)
(* page was given or missed and where its session gets to.  If the page has *)
(* given the request up, that is missed.                                   *)
LEMMA ServeRetrieveStep == ASSUME PageInv, NEW r \in Mine, ServeRetrieve(r) PROVE PageInv'
<1> DEFINE from == Index(Page)
           to == EndSlice(Page)
           new == SubSeq(objects, from + 1, to)
           skips == IF Page \in live THEN {} ELSE (1 .. Deleted + Begin) \ Given
<1>1. /\ Page \in Sessions /\ r \in Requests /\ Asker(r) = Page /\ Inv /\ Retrieve(r)
      /\ wire[r] = "asked" /\ wire' = [wire EXCEPT ![r] = "served"]
      /\ \/ r = current /\ reply' = new /\ missed' = missed \cup skips
         \/ r # current /\ reply' = reply /\ missed' = missed \cup skips \cup Items(new)
      /\ UNCHANGED <<loaded, running, queued, current, store, counted, dropped, abandoned>>
  BY MineType DEF PageInv, ServeRetrieve, checks, faults
<1>2. /\ from \in Nat /\ to \in Nat /\ from <= to /\ to <= Len(objects)
  BY <1>1, SliceType
<1>3. /\ new \in Seq(Nat) /\ Len(new) = to - from
      /\ \A i \in 1 .. Len(new) : new[i] = Deleted + from + i
  BY <1>1, SliceObjects
<1>4. Inv'
  BY <1>1, InvStep DEF Next
<1>5. /\ UNCHANGED <<kind, objects, count>> /\ live' = live \cup {Page}
      /\ cursor'[Page] = to /\ pc' = [pc EXCEPT ![r] = "retrieved"] /\ pc[r] = "idle"
  <2>1. /\ UNCHANGED <<kind, objects, count>> /\ live' = live \cup {Page}
        /\ cursor' = [cursor EXCEPT ![Page] = to] /\ pc' = [pc EXCEPT ![r] = "retrieved"]
        /\ pc[r] = "idle"
    BY <1>1 DEF Retrieve
  <2>2. Page \in DOMAIN cursor
    BY <1>1 DEF Inv, TypeOK
  <2> QED
    BY <2>1, <2>2
<1>6. /\ count \in Nat /\ Len(objects) \in Nat /\ Deleted = count - Len(objects) /\ Deleted \in Nat
      /\ Reached(Page)' = Deleted + to
  <2>1. /\ count \in Nat /\ Len(objects) \in Nat /\ Len(objects) <= count
    BY <1>1, HistoryAssumption DEF Inv, TypeOK, Numbered
  <2> QED
    BY <2>1, <1>5 DEF Deleted, Reached
<1> HIDE DEF from, to, new, skips
<1>7. Polling'
  <2>1. /\ wire' \in [Mine -> {"free", "asked", "served", "answered"}]
        /\ wire'[r] = "served" /\ \A q \in Mine : q # r => wire'[q] = wire[q]
    BY <1>1 DEF PageInv, Polling, ClientTypeOK
  <2>2. pc'[r] = "retrieved" /\ \A q \in Mine : q # r => pc'[q] = pc[q]
    BY <1>1, <1>5, MineType DEF Inv, TypeOK
  <2>3. reply' \in Seq(Nat)
    BY <1>1, <1>3 DEF PageInv, Polling, ClientTypeOK
  <2>4. ClientTypeOK'
    BY <1>1, <2>1, <2>3 DEF PageInv, Polling, ClientTypeOK
  <2>5. OneRequest'
    BY <1>1, <2>1, <2>2 DEF PageInv, Polling, OneRequest
  <2>6. Emptied'
    <3>1. CASE r = current
      BY <1>1, <2>1, <3>1, MineType DEF Emptied
    <3>2. CASE r # current
      <4>1. current' = current /\ reply' = reply
        BY <1>1, <3>2
      <4>2. current \in Mine => wire'[current] = wire[current]
        BY <2>1, <3>2
      <4>3. current \in Mine \/ current = NoRequest
        BY DEF PageInv, Polling, ClientTypeOK
      <4> QED
        BY <4>1, <4>2, <4>3 DEF PageInv, Polling, Emptied
    <3> QED
      BY <3>1, <3>2
  <2> QED
    BY <1>1, <2>4, <2>5, <2>6 DEF PageInv, Polling, SessionFirst
<1>8. Items(new) = Deleted + from + 1 .. Deleted + to /\ Rising(new)
  <2>1. \A a \in Deleted + from + 1 .. Deleted + to :
           a - (Deleted + from) \in 1 .. Len(new) /\ Deleted + from + (a - (Deleted + from)) = a
    BY <1>2, <1>3, <1>6
  <2>2. \A i \in 1 .. Len(new) : Deleted + from + i \in Deleted + from + 1 .. Deleted + to
    BY <1>2, <1>3, <1>6
  <2>3. DOMAIN new = 1 .. Len(new)
    BY <1>3
  <2>4. Items(new) \subseteq Deleted + from + 1 .. Deleted + to
    BY <1>3, <2>2, <2>3 DEF Items
  <2>5. Deleted + from + 1 .. Deleted + to \subseteq Items(new)
    BY <1>3, <2>1, <2>3 DEF Items
  <2>6. Rising(new)
    BY <1>2, <1>3, <1>6 DEF Rising
  <2> QED
    BY <2>4, <2>5, <2>6
<1>9. /\ Given \subseteq 1 .. count /\ missed \subseteq 1 .. count /\ missed \cap Given = {}
      /\ Given = Items(store) \cup Items(reply)
  BY DEF PageInv, Accounted, Given
(* What the session now reaches, and how the new objects lie beyond.       *)
<1>10. /\ skips \subseteq 1 .. count /\ skips \cap Given = {} /\ skips \cap Items(new) = {}
       /\ Items(new) \subseteq 1 .. count
       /\ Items(new) \cap (Given \cup missed) = {}
       /\ \A a \in Given, b \in Items(new) : a < b
       /\ Given \cup missed \cup skips \cup Items(new) = 1 .. Deleted + to
  <2>1. CASE Page \in live
    <3>1. from = cursor[Page] /\ Reached(Page) = Deleted + from /\ skips = {}
      BY <2>1 DEF Index, Reached, from, skips
    <3>2. missed \cup Given = 1 .. Deleted + from
      BY <2>1, <3>1 DEF PageInv, Accounted
    <3>3. \A a \in 1 .. Deleted + from, b \in Deleted + from + 1 .. Deleted + to : a < b
      BY <1>2, <1>6
    <3>4. /\ Deleted + from + 1 .. Deleted + to \subseteq 1 .. count
          /\ (Deleted + from + 1 .. Deleted + to) \cap (1 .. Deleted + from) = {}
          /\ (1 .. Deleted + from) \cup (Deleted + from + 1 .. Deleted + to) = 1 .. Deleted + to
      BY <1>2, <1>6
    <3> QED
      BY <1>8, <3>1, <3>2, <3>3, <3>4
  <2>2. CASE Page \notin live
    <3>1. from = Begin /\ skips = (1 .. Deleted + Begin) \ Given
      BY <2>2 DEF Index, from, skips
    <3>2. CASE kind = "kept"
      <4>1. Given = {} /\ missed = {}
        BY <1>9, <2>2, <3>2, EmptyList DEF PageInv, Accounted
      <4>2. from = 0 /\ skips = 1 .. Deleted
        BY <1>6, <3>1, <3>2, <4>1 DEF Begin
      <4>3. /\ Deleted + 1 .. Deleted + to \subseteq 1 .. count /\ 1 .. Deleted \subseteq 1 .. count
            /\ (Deleted + 1 .. Deleted + to) \cap (1 .. Deleted) = {}
            /\ (1 .. Deleted) \cup (Deleted + 1 .. Deleted + to) = 1 .. Deleted + to
        BY <1>2, <1>6
      <4>4. Items(new) = Deleted + 1 .. Deleted + to
        BY <1>6, <1>8, <4>2
      <4> QED
        BY <4>1, <4>2, <4>3, <4>4
    <3>3. CASE kind # "kept"
      <4>1. from = Len(objects) /\ to = Len(objects) /\ Deleted + Begin = count /\ Deleted + to = count
        BY <1>2, <1>6, <3>1, <3>3 DEF Begin
      <4>2. Items(new) = {}
        BY <1>6, <1>8, <4>1
      <4>3. skips = (1 .. count) \ Given
        BY <3>1, <4>1
      <4> QED
        BY <1>9, <4>1, <4>2, <4>3
    <3> QED
      BY <3>2, <3>3
  <2> QED
    BY <2>1, <2>2
<1>11. CASE r = current
  <2>1. reply = <<>> /\ reply' = new /\ missed' = missed \cup skips /\ store' = store
    BY <1>1, <1>11 DEF PageInv, Polling, Emptied
  <2>2. Given = Items(store) /\ Given' = Given \cup Items(new)
    BY <1>9, <2>1, EmptyList DEF Given
  <2>3. GivenInOrder'
    <3>1. Rising(store') /\ Rising(reply')
      BY <1>8, <2>1 DEF PageInv, GivenInOrder
    <3> QED
      BY <1>10, <2>1, <2>2, <3>1 DEF GivenInOrder
  <2>4. Accounted'
    BY <1>5, <1>6, <1>9, <1>10, <2>1, <2>2 DEF Accounted
  <2> QED
    BY <1>4, <1>7, <2>3, <2>4 DEF PageInv
<1>12. CASE r # current
  <2>1. reply' = reply /\ missed' = missed \cup skips \cup Items(new) /\ store' = store
    BY <1>1, <1>12
  <2>2. Given' = Given
    BY <2>1 DEF Given
  <2>3. GivenInOrder'
    BY <2>1 DEF PageInv, GivenInOrder
  <2>4. Accounted'
    BY <1>5, <1>6, <1>9, <1>10, <2>1, <2>2 DEF Accounted
  <2> QED
    BY <1>4, <1>7, <2>3, <2>4 DEF PageInv
<1> QED
  BY <1>11, <1>12

LEMMA ServeRestStep == ASSUME PageInv, NEW r \in Mine, ServeRest(r) PROVE PageInv'
<1>1. /\ wire[r] = "served" /\ Serve(r)
      /\ UNCHANGED <<loaded, running, queued, current, reply, store, counted, dropped, missed>>
  BY DEF ServeRest, checks
<1>2. r \in Requests /\ [Next]_vars
  BY <1>1, MineType DEF Next
<1>3. /\ pc \in [Requests -> {"idle", "retrieved", "counted"}] /\ pc[r] # "idle"
      /\ pc'[r] \in {"idle", "counted"} /\ \A q \in Requests : q # r => pc'[q] = pc[q]
  <2>1. pc \in [Requests -> {"idle", "retrieved", "counted"}] /\ pc[r] # "idle"
    BY <1>1 DEF PageInv, Inv, TypeOK, Polling, OneRequest
  <2> QED
    BY <1>1, <1>2, <2>1 DEF Serve, SeenCount, Clear, KeepAll
<1>4. \A q \in Requests : Retrieve(q) => Asker(q) # Page
  <2> SUFFICES ASSUME NEW q \in Requests, Retrieve(q) PROVE FALSE
    OBVIOUS
  <2>1. pc[q] = "idle" /\ pc'[q] = "retrieved"
    BY <1>3 DEF Retrieve
  <2> QED
    BY <1>3, <2>1
<1>5. Inv'
  BY <1>2, InvStep DEF PageInv
<1>6. GivenInOrder' /\ Accounted'
  BY <1>1, <1>2, <1>4, AccountKept
<1>7. Polling'
  <2>1. CASE pc'[r] # "idle"
    <3>1. UNCHANGED <<wire, abandoned>>
      BY <2>1 DEF ServeRest
    <3>2. \A q \in Mine : pc'[q] = "idle" <=> pc[q] = "idle"
      BY <1>3, <2>1, MineType
    <3> QED
      BY <1>1, <3>1, <3>2 DEF PageInv, Polling, ClientTypeOK, OneRequest, SessionFirst, Emptied
  <2>2. CASE pc'[r] = "idle"
    <3>1. /\ abandoned' = abandoned \ {r}
          /\ wire' = [wire EXCEPT ![r] = IF r = current THEN "answered" ELSE "free"]
      BY <2>2 DEF ServeRest
    <3>2. /\ wire' \in [Mine -> {"free", "asked", "served", "answered"}]
          /\ wire'[r] = (IF r = current THEN "answered" ELSE "free")
          /\ \A q \in Mine : q # r => wire'[q] = wire[q]
      BY <3>1 DEF PageInv, Polling, ClientTypeOK
    <3>3. ClientTypeOK'
      BY <1>1, <3>1, <3>2 DEF PageInv, Polling, ClientTypeOK
    <3>4. OneRequest'
      BY <1>1, <1>3, <2>2, <3>1, <3>2, MineType DEF PageInv, Polling, OneRequest
    <3>5. Emptied'
      <4>1. current' = NoRequest \/ wire'[current'] = "asked" => current = NoRequest \/ wire[current] = "asked"
        BY <1>1, <3>2 DEF PageInv, Polling, ClientTypeOK
      <4> QED
        BY <1>1, <4>1 DEF PageInv, Polling, Emptied
    <3> QED
      BY <1>1, <3>3, <3>4, <3>5 DEF PageInv, Polling, SessionFirst
  <2> QED
    BY <2>1, <2>2
<1> QED
  BY <1>5, <1>6, <1>7 DEF PageInv

(* What the other sessions, the arrivals and the clock do.                 *)
LEMMA OthersStep == PageInv /\ Others => PageInv'
<1> SUFFICES ASSUME PageInv, Others PROVE PageInv'
  OBVIOUS
<1>1. UNCHANGED <<loaded, running, queued, current, wire, reply, store, counted, dropped, missed, abandoned>>
  BY DEF Others, page, poll, checks, faults
<1>2. [Next]_vars
  BY HistoryStep DEF ClientNext
<1>3. pc \in [Requests -> {"idle", "retrieved", "counted"}]
  BY DEF PageInv, Inv, TypeOK
<1>4. \A r \in Mine : pc'[r] = pc[r]
  <2>1. CASE Arrive \/ Tick
    BY <2>1 DEF Arrive, Tick
  <2>2. ASSUME NEW q \in Requests \ Mine, Retrieve(q) \/ BadRequest(q) \/ Serve(q)
        PROVE  \A r \in Mine : pc'[r] = pc[r]
    BY <1>3, <2>2, MineType DEF Retrieve, BadRequest, Serve, SeenCount, Clear, KeepAll
  <2> QED
    BY <2>1, <2>2 DEF Others
<1>5. \A r \in Requests : Retrieve(r) => Asker(r) # Page
  <2> SUFFICES ASSUME NEW r \in Requests, Retrieve(r), r \in Mine PROVE FALSE
    BY DEF Mine
  <2>1. pc[r] = "idle" /\ pc'[r] = "retrieved"
    BY <1>3 DEF Retrieve
  <2> QED
    BY <1>4, <2>1
<1>6. Inv'
  BY <1>2, InvStep DEF PageInv
<1>7. GivenInOrder' /\ Accounted'
  BY <1>1, <1>2, <1>5, AccountKept
<1>8. Polling'
  BY <1>1, <1>4 DEF PageInv, Polling, ClientTypeOK, OneRequest, SessionFirst, Emptied
<1> QED
  BY <1>6, <1>7, <1>8 DEF PageInv

LEMMA PageInvStep == PageInv /\ [ClientNext]_all => PageInv'
<1> SUFFICES ASSUME PageInv, [ClientNext]_all PROVE PageInv'
  OBVIOUS
<1>1. ASSUME NEW e \in Startup, SetupLoad(e) PROVE PageInv'
  BY <1>1, TimerStep
<1>2. CASE Fire
  BY <1>2, ClientAssumption, TimerStep
<1>3. CASE UNCHANGED all
  <2>1. UNCHANGED vars /\ UNCHANGED page
    BY <1>3 DEF all
  <2>2. UNCHANGED <<pc, loaded, running, queued, current, wire, reply, store, counted, dropped, missed, abandoned>>
    BY <2>1 DEF vars, page, poll, checks, faults
  <2>3. Inv' /\ UNCHANGED <<kind, count, live>> /\ Reached(Page)' = Reached(Page)
    BY <2>1, InvStep, HistoryKept DEF PageInv
  <2>4. Polling'
    BY <2>2 DEF PageInv, Polling, ClientTypeOK, OneRequest, SessionFirst, Emptied
  <2>5. GivenInOrder' /\ Accounted'
    BY <2>2, <2>3 DEF PageInv, GivenInOrder, Rising, Accounted, Given, Items
  <2> QED
    BY <2>3, <2>4, <2>5 DEF PageInv
<1> QED
  BY <1>1, <1>2, <1>3, ReceiveStep, FailStep, ServeRetrieveStep, ServeRestStep, OthersStep
     DEF ClientNext

(* However the timer, the follow-ups, the failures and the other pages      *)
(* interleave, a page awaits one request at a time, which carries a session, *)
(* any other of its requests at the server is one that it gave up, and what it shows, has on its way and knows it missed is the whole of    *)
(* the history as far as its session has got (poller, RamHistory.retrieve). *)
THEOREM PollerIsSound == ClientSpec => []PollerSound
<1>1. PageInv => PollerSound
  BY DEF PageInv, Polling, Accounted, PollerSound, NothingElseMissing
<1> QED
  BY <1>1, PageInvInit, PageInvStep, PTL DEF ClientSpec

(* The first facts of the feed the page implements.                        *)
LEMMA FeedVars ==
    /\ Feed!feed = <<count, store, missed>>
    /\ Feed!Arrived = 1 .. count
    /\ Feed!Shown = Items(store)
  BY DEF Feed!feed, Feed!Arrived, Feed!Shown, Items

LEMMA FeedInit == ClientInit => Feed!Init
  BY DEF ClientInit, Init, Feed!Init

(* The part of a list that an addition leaves in front.                    *)
LEMMA StrictPrefix ==
    ASSUME NEW s \in Seq(Nat), NEW u \in Seq(Nat), Len(s) < Len(u),
           \A i \in 1 .. Len(s) : u[i] = s[i]
    PROVE  Feed!IsStrictPrefix(s, u)
<1>1. Len(s) \in Nat /\ Len(u) \in Nat
  OBVIOUS
<1>2. SubSeq(s, 1, Len(s)) = SubSeq(u, 1, Len(s))
  OBVIOUS
<1> QED
  BY <1>1, <1>2 DEF Feed!IsStrictPrefix, Feed!IsPrefix

(* A response that comes shows its objects, or shows nothing.              *)
LEMMA FeedReceive == PageInv /\ Receive => [Feed!Next]_(Feed!feed)
<1> SUFFICES ASSUME PageInv, Receive PROVE [Feed!Next]_(Feed!feed)
  OBVIOUS
<1>1. /\ store' = store \o reply /\ UNCHANGED <<count, missed>>
  BY DEF Receive, Deliver, vars, counts
<1>2. /\ store \in Seq(Nat) /\ reply \in Seq(Nat)
      /\ Rising(store) /\ Rising(reply) /\ \A a \in Items(store), b \in Items(reply) : a < b
  BY DEF PageInv, Polling, ClientTypeOK, GivenInOrder
<1>3. /\ store' \in Seq(Nat) /\ Len(store') = Len(store) + Len(reply)
      /\ \A i \in 1 .. Len(store) : store'[i] = store[i]
      /\ Items(store') = Items(store) \cup Items(reply) /\ Rising(store')
  BY <1>1, <1>2, Appended
<1>4. missed' = missed
  BY <1>1
<1>5. CASE reply = <<>>
  <2>1. store' = store
    BY <1>1, <1>2, <1>5, ConcatEmptySeq
  <2> QED
    BY <1>1, <1>4, <2>1 DEF Feed!feed
<1>6. CASE reply # <<>>
  <2>1. Len(reply) > 0 /\ Len(store) \in Nat /\ Len(reply) \in Nat
    BY <1>2, <1>6, EmptySeq
  <2>2. Feed!IsStrictPrefix(store, store')
    <3>1. Len(store) < Len(store')
      BY <1>3, <2>1
    <3> QED
      BY <1>2, <1>3, <3>1, StrictPrefix
  <2>3. \A i \in DOMAIN store' : store'[i] \in (1 .. count) \ missed
    <3>1. Items(store') \subseteq Given /\ Given \subseteq 1 .. count /\ missed \cap Given = {}
      BY <1>3 DEF PageInv, Accounted, Given
    <3> QED
      BY <3>1 DEF Items
  <2>4. \A i \in Len(store) + 1 .. Len(store') : i > 1 => store'[i - 1] < store'[i]
    <3>1. \A i \in Len(store) + 1 .. Len(store') :
             i > 1 => i - 1 \in 1 .. Len(store') /\ i \in 1 .. Len(store') /\ i - 1 < i
      BY <1>3, <2>1
    <3> QED
      BY <1>3, <3>1 DEF Rising
  <2>5. Feed!Show
    BY <1>1, <1>4, <2>2, <2>3, <2>4, FeedVars DEF Feed!Show
  <2> QED
    BY <2>5 DEF Feed!Next
<1> QED
  BY <1>5, <1>6

(* What is given up has arrived and was not shown, and stays given up.      *)
LEMMA FeedGiveUp ==
    ASSUME UNCHANGED <<count, store>>, missed \subseteq missed', missed' \subseteq 1 .. count,
           missed' \cap Items(store) = {}
    PROVE  [Feed!Next]_(Feed!feed)
  BY FeedVars DEF Feed!Next, Feed!GiveUp

LEMMA FeedStep == PageInv /\ PageInv' /\ [ClientNext]_all => [Feed!Next]_(Feed!feed)
<1> SUFFICES ASSUME PageInv, PageInv', [ClientNext]_all PROVE [Feed!Next]_(Feed!feed)
  OBVIOUS
<1>1. ASSUME UNCHANGED <<count, store, missed>> PROVE [Feed!Next]_(Feed!feed)
  BY <1>1 DEF Feed!feed
<1>2. CASE Fire \/ (\E r \in Mine : ServeRest(r)) \/ \E e \in Startup : SetupLoad(e)
  <2>1. UNCHANGED <<store, missed>>
    BY <1>2 DEF Fire, ServeRest, SetupLoad
  <2>2. count' = count
    BY <1>2 DEF Fire, ServeRest, SetupLoad, Serve, SeenCount, Clear, KeepAll, vars, counts
  <2> QED
    BY <1>1, <2>1, <2>2
<1>3. CASE Fail \/ \E r \in Mine : ServeRetrieve(r)
  <2>1. UNCHANGED <<count, store>> /\ missed \subseteq missed'
    BY <1>3 DEF Fail, ServeRetrieve, Retrieve, vars, counts
  <2>2. /\ missed' \subseteq 1 .. count' /\ missed' \cap Given' = {} /\ Items(store') \subseteq Given'
    BY DEF PageInv, Accounted, Given
  <2> QED
    BY <2>1, <2>2, FeedGiveUp
<1>5. CASE Others
  <2>1. UNCHANGED <<store, missed>>
    BY <1>5 DEF Others, page
  <2>2. CASE Arrive
    <3>1. count' = count + 1 /\ missed' = missed
      BY <2>1, <2>2 DEF Arrive
    <3> QED
      BY <2>1, <3>1 DEF Feed!Next, Feed!Publish
  <2>3. CASE ~Arrive
    <3>1. count' = count
      BY <1>5, <2>3 DEF Others, Tick, Retrieve, BadRequest, Serve, SeenCount, Clear, KeepAll, counts
    <3> QED
      BY <1>1, <2>1, <3>1
  <2> QED
    BY <2>2, <2>3
<1>6. CASE UNCHANGED all
  <2>1. UNCHANGED <<count, store, missed>>
    BY <1>6 DEF all, vars, counts, page
  <2> QED
    BY <1>1, <2>1
<1> QED
  BY <1>2, <1>3, <1>5, <1>6, FeedReceive DEF ClientNext

(* The page implements the feed it promises: each object that arrives is    *)
(* shown at most once, in order of arrival, or given up for good, and       *)
(* neither is undone.  That each one comes to one of the two is liveness.   *)
THEOREM PageShowsTheFeed == ClientSpec => Feed!Safety
<1>1. ClientSpec => []PageInv
  BY PageInvInit, PageInvStep, PTL DEF ClientSpec
<1>2. ClientSpec => Feed!Init /\ [][Feed!Next]_(Feed!feed)
  BY <1>1, FeedInit, FeedStep, PTL DEF ClientSpec
<1> QED
  BY <1>2 DEF Feed!Safety
=============================================================================
