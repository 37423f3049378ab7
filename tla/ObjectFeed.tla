------------------------------ MODULE ObjectFeed ------------------------------
(***************************************************************************)
(* What a page of the GDS promises its user of a stream of objects such as *)
(* the events: each object that reaches the ground system is shown once,   *)
(* in order of arrival, or is given up for good, and neither is undone.    *)
(* WebClient is shown to implement it.                                     *)
(***************************************************************************)
EXTENDS Naturals, Sequences, SequencesExt

VARIABLES
    published,  \* number of objects that have arrived; they are numbered from 1
    shown,      \* the objects shown, in order
    gone        \* the objects given up
feed == <<published, shown, gone>>

Arrived == 1 .. published
Shown   == {shown[i] : i \in DOMAIN shown}

Init == published = 0 /\ shown = <<>> /\ gone = {}

Publish == published' = published + 1 /\ UNCHANGED <<shown, gone>>

(* A batch is shown after everything shown before, none of it given up.     *)
Show == /\ IsStrictPrefix(shown, shown')
        /\ \A i \in DOMAIN shown' : shown'[i] \in Arrived \ gone
        /\ \A i \in Len(shown) + 1 .. Len(shown') : i > 1 => shown'[i - 1] < shown'[i]
        /\ UNCHANGED <<published, gone>>

GiveUp == /\ gone \subseteq gone' /\ gone' \subseteq Arrived \ Shown
          /\ UNCHANGED <<published, shown>>

Next == Publish \/ Show \/ GiveUp

Safety == Init /\ [][Next]_feed

(* Nothing that has arrived is left waiting for ever.                       *)
Settled == Arrived \subseteq Shown \cup gone
Spec == Safety /\ []<>Settled
=============================================================================
