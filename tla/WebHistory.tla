------------------------------ MODULE WebHistory ------------------------------
(***************************************************************************)
(* The histories that the web server keeps of events, channels and         *)
(* commands (history/ram.py, flask/components.py, flask/resource.py).      *)
(*                                                                         *)
(* The receiving thread appends objects.  Each browser page has a session, *)
(* polls with GET requests and is given the objects that arrived since its *)
(* last request.  Every request has a thread of its own, also when a page  *)
(* that gave one up sends the next.  It takes the history's lock three     *)
(* times: for retrieve, get_seen_count and clear.  Objects that every      *)
(* session has passed are deleted; a session that stops polling is         *)
(* forgotten after clear_time.                                             *)
(***************************************************************************)
EXTENDS Integers, Sequences, FiniteSets

CONSTANTS
    Sessions,
    Overlapping,  \* sessions of which several requests may run at once
    MaxThreads,   \* bound on their threads at once
    Limit,        \* limit of the objects in one response
    ClearTime,    \* clear_time, in ticks of the clock
    MaxObjects,   \* bound on the objects that arrive
    Kinds,        \* "clearing": FlaskEndpointRamHistory, "kept": NonClearingHistory
    Open          \* sessions whose page stays open, polls for ever and is
                  \* served within the clear time

ASSUME HistoryAssumption ==
    /\ Limit \in Nat \ {0} /\ ClearTime \in Nat \ {0} /\ MaxObjects \in Nat
    /\ Kinds \subseteq {"clearing", "kept"} /\ Open \subseteq Sessions
    /\ Overlapping \subseteq Sessions /\ MaxThreads \in Nat \ {0}

Requests == {r \in Sessions \X (1 .. MaxThreads) : r[1] \in Overlapping \/ r[2] = 1}
Asker(r) == r[1]

VARIABLES
    kind,           \* class of the history
    objects,        \* objects held, numbered in the order in which they arrived
    live, cursor,   \* retrieved_cursors: its keys, its values
    known, age,     \* last_request: its keys, the time since each value
    count, offset, value,   \* count, count_offsets, count_values
    pc,             \* pc[r]: "idle" or the step request r is at
    served, left    \* objects served to s since it is live, and not yet served

cursors == <<live, cursor>>
clock   == <<known, age>>
counts  == <<count, offset, value>>
seen    == <<served, left>>
vars    == <<kind, objects, cursors, clock, counts, pc, seen>>

Init ==
    /\ kind \in Kinds /\ objects = <<>>
    /\ live = {} /\ cursor = [s \in Sessions |-> 0]
    /\ known = {} /\ age = [s \in Sessions |-> 0]
    /\ count = 0 /\ offset = [s \in Sessions |-> 0] /\ value = [s \in Sessions |-> 0]
    /\ pc = [r \in Requests |-> "idle"]
    /\ served = [s \in Sessions |-> <<>>] /\ left = [s \in Sessions |-> 0]

Smaller(a, b) == IF a < b THEN a ELSE b

-----------------------------------------------------------------------------
(* Receiving thread: data_callback.                                         *)

Arrive ==
    /\ count < MaxObjects
    /\ count' = count + 1 /\ objects' = Append(objects, count + 1)
    /\ UNCHANGED <<kind, cursors, clock, offset, value, pc, seen>>

Tick ==     \* ages beyond the clear time are all alike; Open is served in time
    /\ \A r \in Requests : Asker(r) \in Open => pc[r] = "idle" \/ age[Asker(r)] < ClearTime
    /\ age' = [s \in Sessions |-> Smaller(age[s] + 1, ClearTime + 1)]
    /\ UNCHANGED <<kind, objects, cursors, known, counts, pc, seen>>

-----------------------------------------------------------------------------
(* Request threads: HistoryResourceBase.get.                                *)

(* Where a session that is not live begins.                                 *)
Begin == IF kind = "kept" THEN 0 ELSE Len(objects)
Index(s) == IF s \in live THEN cursor[s] ELSE Begin

EndSlice(s) == Smaller(Len(objects), Index(s) + Limit)

BugOldOffset(s) == IF offset[s] + value[s] > 0 THEN offset[s] ELSE count
OffsetOf(s) == IF s \in live THEN offset[s] ELSE count

Retrieve(r) == LET s == Asker(r) IN
    /\ pc[r] = "idle" /\ pc' = [pc EXCEPT ![r] = "retrieved"]
    /\ offset' = [offset EXCEPT ![s] = OffsetOf(s)]
    /\ value' = [value EXCEPT ![s] = count - OffsetOf(s)]
    /\ known' = known \cup {s} /\ age' = [age EXCEPT ![s] = 0]
    /\ live' = live \cup {s} /\ cursor' = [cursor EXCEPT ![s] = EndSlice(s)]
    /\ served' = [served EXCEPT ![s] = (IF s \in live THEN @ ELSE <<>>)
                                       \o SubSeq(objects, Index(s) + 1, EndSlice(s))]
    /\ left' = [left EXCEPT ![s] = Len(objects) - EndSlice(s)]
    /\ UNCHANGED <<kind, objects, count>>

BadRequest(r) ==    \* a limit that is no number: retrieve is not reached
    /\ Asker(r) \notin Open
    /\ pc[r] = "idle" /\ pc' = [pc EXCEPT ![r] = "counted"]
    /\ UNCHANGED <<kind, objects, cursors, clock, counts, seen>>

SeenCount(r) ==     \* the response carries value[Asker(r)] as it is now
    /\ pc[r] = "retrieved" /\ pc' = [pc EXCEPT ![r] = "counted"]
    /\ UNCHANGED <<kind, objects, cursors, clock, counts, seen>>

-----------------------------------------------------------------------------
(* clear: forget the sessions that are too old, delete what all the others  *)
(* have passed.  The time is read just before the lock; reading it later    *)
(* would forget more.                                                       *)

BugNoExpiry == {}
Expired == {s \in known : age[s] > ClearTime}
BugKeepCursors == live
Kept == live \ Expired

Earliest == IF Kept = {} THEN 0
            ELSE CHOOSE c \in {cursor[s] : s \in Kept} : \A s \in Kept : c <= cursor[s]

Shifted(n) == [s \in Sessions |-> IF s \in Kept THEN cursor[s] - n ELSE 0]

Clear(r) ==
    /\ pc[r] = "counted" /\ pc' = [pc EXCEPT ![r] = "idle"]
    /\ kind = "clearing"
    /\ known' = known \ Expired /\ live' = Kept
    /\ objects' = SubSeq(objects, Earliest + 1, Len(objects))
    /\ cursor' = Shifted(Earliest)
    /\ UNCHANGED <<kind, age, counts, seen>>

KeepAll(r) ==   \* NonClearingHistory.clear
    /\ pc[r] = "counted" /\ pc' = [pc EXCEPT ![r] = "idle"]
    /\ kind = "kept"
    /\ UNCHANGED <<kind, objects, cursors, clock, counts, seen>>

Serve(r) == SeenCount(r) \/ Clear(r) \/ KeepAll(r)
Next == Arrive \/ Tick \/ \E r \in Requests : Retrieve(r) \/ BadRequest(r) \/ Serve(r)
Spec == Init /\ [][Next]_vars

-----------------------------------------------------------------------------
(* Types; no cursor is beyond the end of the history.                       *)
TypeOK ==
    /\ kind \in Kinds /\ objects \in Seq(Nat) /\ live \subseteq known /\ known \subseteq Sessions
    /\ cursor \in [Sessions -> Nat] /\ \A s \in Sessions : cursor[s] <= Len(objects)
    /\ age \in [Sessions -> 0 .. ClearTime + 1]
    /\ count \in 0 .. MaxObjects
    /\ offset \in [Sessions -> Nat] /\ value \in [Sessions -> Nat]
    /\ pc \in [Requests -> {"idle", "retrieved", "counted"}]
    /\ served \in [Sessions -> Seq(Nat)] /\ left \in [Sessions -> Nat]

(* A live session is served every object once, in order, from where it      *)
(* began up to its cursor, whatever the other sessions, the expiry and the  *)
(* deletions do (RamHistory.retrieve, RamHistory.clear).                    *)
Deleted == count - Len(objects)
Reached(s) == Deleted + cursor[s]
ServedOnce == \A s \in live : \A i \in 1 .. Len(served[s]) :
    served[s][i] = Reached(s) - Len(served[s]) + i

(* The validation count kept for a session is that of the objects served to *)
(* it since it began plus those the limit held back, whichever of its       *)
(* requests reads it, and whenever (get_seen_count).                        *)
Validates(s) == value[s] = Len(served[s]) + left[s]
CountMatches == kind = "clearing" => \A s \in live : Validates(s)

(* As long as one page polls, all that has arrived is deleted in the end:   *)
(* sessions of closed pages do not pin it (SelfCleaningRamHistory.clear).   *)
ObjectsDrain == kind = "clearing" => []<>(objects = <<>>)

(* What a session is served and the number it is to check it by               *)
(* (RamHistory.retrieve, get_seen_count).                                     *)
ServedRight == ServedOnce /\ CountMatches
=============================================================================
