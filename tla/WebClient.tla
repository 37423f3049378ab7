------------------------------- MODULE WebClient -------------------------------
(***************************************************************************)
(* A browser page of the GDS and the server it polls: the Loader of        *)
(* js/loader.js with the validation of js/validate.js that its callbacks   *)
(* run through, composed with the history of WebHistory, of which this     *)
(* page is the session Page.  The other sessions are other pages.          *)
(*                                                                         *)
(* The page first loads its session and the dictionaries; when the last of *)
(* them is in, startup registers the poller of each endpoint.  One         *)
(* endpoint is modelled: endpoints share nothing but the session.  The     *)
(* page runs one callback at a time: each action is a whole callback.      *)
(***************************************************************************)
EXTENDS WebHistory

CONSTANTS
    Page,         \* session of this page
    Startup,      \* endpoints that are loaded first: the session, the dictionaries
    Session,      \* the endpoint of Startup that gives the session
    NoRequest,    \* the request of a page that awaits none
    MaxFaults     \* bound on the requests that fail and the responses that are lost

ASSUME ClientAssumption ==
    /\ Page \in Open /\ Session \in Startup /\ MaxFaults \in Nat
    /\ NoRequest \notin Requests

VARIABLES
    loaded,             \* endpoints of Startup whose data is in
    running, queued,    \* context of the polled endpoint
    current,            \* the request the page awaits
    wire,               \* each request of the page: "free", "asked", "served", "answered"
    reply,              \* objects of the response to the one it awaits
    store,              \* objects given to the history of the page, in order
    counted, dropped,   \* validation_counts, dropped
    missed,             \* objects the page will not be given: outside of its
                        \* session, or in a response that was lost
    abandoned,          \* requests given up by the page before the server was done
    failed              \* number of polls that failed

poll   == <<running, queued, current, wire, reply>>
faults == <<abandoned, failed>>
checks == <<counted, dropped>>
page   == <<loaded, poll, store, checks, missed, faults>>
all    == <<vars, page>>

Mine == {r \in Requests : Asker(r) = Page}

ClientInit ==
    /\ Init /\ loaded = {}
    /\ running = FALSE /\ queued = FALSE /\ current = NoRequest
    /\ wire = [r \in Mine |-> "free"] /\ reply = <<>>
    /\ store = <<>> /\ counted = 0 /\ dropped = 0
    /\ missed = {} /\ abandoned = {} /\ failed = 0

Items(seq) == {seq[i] : i \in DOMAIN seq}

-----------------------------------------------------------------------------
(* Loader.setup.  The promise resolves when no load is pending, and startup *)
(* registers the pollers.  After a failure it never does.                   *)

Ready == loaded = Startup

SetupLoad(e) ==
    /\ e \notin loaded /\ loaded' = loaded \cup {e}
    /\ UNCHANGED <<vars, poll, store, checks, missed, faults>>

-----------------------------------------------------------------------------
(* Loader.poller.                                                           *)

(* A request, from load to onreadystatechange, among the requests w that    *)
(* are under way; threads are alike, and it gets the first that is free.  No *)
(* session parameter is sent before the session is known.                   *)
Load(w) == \E r \in Mine :
    /\ w[r] = "free" /\ \A q \in Mine : w[q] = "free" => r[2] <= q[2]
    /\ wire' = [w EXCEPT ![r] = "asked"] /\ current' = r
    /\ running' = TRUE /\ reply' = <<>>

BugNoRunningCheck == FALSE
Busy == running

Fire ==     \* the interval timer that registerPoller started
    /\ Ready
    /\ \/ Busy /\ queued' = TRUE /\ UNCHANGED <<running, current, wire, reply>>
       \/ ~Busy /\ queued' = FALSE /\ Load(wire)
    /\ UNCHANGED <<vars, loaded, store, checks, missed, faults>>

(* finally: the next request starts at once when one was queued.            *)
Finally(again, w) ==
    \/ again /\ queued' = FALSE /\ Load(w)
    \/ ~again /\ queued' = FALSE /\ running' = FALSE
              /\ current' = NoRequest /\ wire' = w /\ reply' = <<>>
Answered == [wire EXCEPT ![current] = "free"]

(* wrapResponseHandler: the poller hands it the list of items, which has    *)
(* neither "history" nor "validation" nor "errors".                         *)
UpdateDropped(history, validation) ==
    /\ counted' = counted + history
    /\ dropped' = (IF validation = 0 THEN counted' ELSE validation) - counted'
BugHandBack == store' = reply \o store
Deliver == store' = store \o reply

Receive ==
    /\ running /\ wire[current] = "answered"
    /\ UpdateDropped(0, 0) /\ Deliver
    /\ Finally(queued \/ Len(reply) >= Limit, Answered)
    /\ UNCHANGED <<vars, loaded, missed, faults>>

(* The status is not 200 or there is no response: catch, then finally.  A   *)
(* connection may drop at any time; a request that is on its way then, or   *)
(* whose thread runs, is not called back.                                   *)
Fail ==
    /\ running
    /\ failed < MaxFaults /\ failed' = failed + 1
    /\ missed' = missed \cup Items(reply)
    /\ \/ /\ wire[current] = "answered"
          /\ Finally(queued, Answered) /\ UNCHANGED abandoned
       \/ /\ wire[current] # "answered"
          /\ Finally(queued, wire) /\ abandoned' = abandoned \cup {current}
    /\ UNCHANGED <<vars, loaded, store, checks>>

-----------------------------------------------------------------------------
(* The server.  A session that is new, or that was forgotten, starts at the *)
(* end of the history.  What a request that was given up takes is lost.     *)

Given == Items(store) \cup Items(reply)

ServeRetrieve(r) ==
    LET taken == SubSeq(objects, Index(Page) + 1, EndSlice(Page))
        skips == IF Page \in live THEN {} ELSE (1 .. Deleted + Begin) \ Given
    IN /\ wire[r] = "asked" /\ Retrieve(r)
       /\ wire' = [wire EXCEPT ![r] = "served"]
       /\ \/ r = current /\ reply' = taken /\ missed' = missed \cup skips
          \/ r # current /\ reply' = reply /\ missed' = missed \cup skips \cup Items(taken)
       /\ UNCHANGED <<loaded, running, queued, current, store, checks, faults>>

ServeRest(r) ==
    /\ wire[r] = "served" /\ Serve(r)
    /\ \/ pc'[r] # "idle" /\ UNCHANGED <<wire, abandoned>>
       \/ /\ pc'[r] = "idle" /\ abandoned' = abandoned \ {r}
          /\ wire' = [wire EXCEPT ![r] = IF r = current THEN "answered" ELSE "free"]
    /\ UNCHANGED <<loaded, running, queued, current, reply, store, checks, missed, failed>>

Others ==
    /\ \/ Arrive \/ Tick
       \/ \E r \in Requests \ Mine : Retrieve(r) \/ BadRequest(r) \/ Serve(r)
    /\ UNCHANGED page

ClientNext == \/ \E e \in Startup : SetupLoad(e)
              \/ Fire \/ Receive \/ Fail
              \/ \E r \in Mine : ServeRetrieve(r) \/ ServeRest(r)
              \/ Others
ClientSpec == ClientInit /\ [][ClientNext]_all

(* The loads of setup succeed; timers fire; the request the page awaits     *)
(* reaches the server, threads run and responses arrive; time passes.       *)
Poll == Receive \/ \E r \in Mine : (r = current /\ ServeRetrieve(r)) \/ ServeRest(r)

FairClient ==
    /\ ClientSpec
    /\ WF_all(\E e \in Startup : SetupLoad(e)) /\ WF_all(Fire) /\ WF_all(Poll)
    /\ WF_all(Tick /\ UNCHANGED page)
    /\ WF_all(\E r \in Requests \ Mine : Serve(r) /\ UNCHANGED page)

-----------------------------------------------------------------------------
(* Types of the page's state; a poll is running exactly when a request is   *)
(* awaited, and none is queued behind a poll that is over (poller, finally). *)
ClientTypeOK ==
    /\ loaded \subseteq Startup /\ running \in BOOLEAN /\ queued \in BOOLEAN
    /\ current \in Mine \cup {NoRequest} /\ abandoned \subseteq Mine
    /\ wire \in [Mine -> {"free", "asked", "served", "answered"}]
    /\ running <=> current # NoRequest
    /\ queued => running
    /\ store \in Seq(Nat) /\ reply \in Seq(Nat) /\ counted \in Nat /\ dropped \in Int

(* A page awaits one request at a time, whatever the timer, the follow-ups  *)
(* and the failures do: any other of its requests that is on its way to the *)
(* server, or whose thread runs beside the one it awaits, failed on the     *)
(* page before (poller).                                                    *)
OneRequest ==
    /\ \A r \in Mine : wire[r] # "free" <=> r = current \/ r \in abandoned
    /\ \A r \in Mine : wire[r] = "served" <=> pc[r] # "idle"
    /\ current \notin abandoned

(* Polls carry a session: none starts before setup has got it.              *)
SessionFirst == running => Session \in loaded

(* What the page shows, what is on its way and what it missed make up the   *)
(* history as far as the session has reached (poller, RamHistory.retrieve). *)
NothingElseMissing == Page \in live =>
    missed \cap Given = {} /\ missed \cup Given = 1 .. Reached(Page)

(* The page shows each object once and in order, or misses it because its   *)
(* response was lost or its session was not there, and comes to an end with *)
(* every object that arrives.                                               *)
Feed == INSTANCE ObjectFeed WITH published <- count, shown <- store, gone <- missed
PageFeed == Feed!Spec

(* The poller keeps to one request at a time, with a session, and what it     *)
(* shows and has on its way is all there is to show (poller).                 *)
PollerSound == ClientTypeOK /\ OneRequest /\ SessionFirst /\ NothingElseMissing
=============================================================================
