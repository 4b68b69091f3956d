------------------------------ MODULE TrbRing ------------------------------
(***************************************************************************)
(* The two kinds of ring of drivers/xhci.c, one page of records each, told *)
(* apart from last lap's records by a cycle bit and by nothing else.       *)
(*                                                                         *)
(* Requests: the driver produces (xhci_command, ep0_push, int_push,        *)
(* bulk_push); the last record is a Link the producer rewrites when it     *)
(* wraps and the controller follows.  Events: the controller produces and  *)
(* the driver consumes; there is no Link, the segment table gives the      *)
(* length, and the controller stops before the driver's dequeue pointer.   *)
(* Each ring is the queue it is meant to be.                               *)
(***************************************************************************)
EXTENDS Integers, Sequences

CONSTANTS Segment,    \* XHCI_TRBS_PER_SEGMENT
          Records     \* what a record may carry

ASSUME SegmentAssumption == Segment \in Nat /\ Segment >= 3

VARIABLES req, enqueue, pcs,      \* request ring: records with the Link last, producer
          fetch, hcs,             \* request ring: the controller's place and cycle state
          requests,               \* history: requests pushed and not fetched
          evt, write, hpcs,       \* event ring: records, the controller's place and cycle
          event_dequeue, event_ccs,
          written                 \* history: events written and not consumed

ringVars == <<req, enqueue, pcs, fetch, hcs, requests, evt, write, hpcs, event_dequeue,
              event_ccs, written>>
requestRing == <<req, enqueue, pcs, fetch, hcs, requests>>
eventRing == <<evt, write, hpcs, event_dequeue, event_ccs, written>>

Places == 0..(Segment - 1)
LinkPlace == Segment - 1
Nothing == "nothing"

ASSUME RecordsAssumption == Nothing \notin Records

Empty0 == [cycle |-> 0, rec |-> Nothing]

----------------------------------------------------------------------------
(* Requests                                                                 *)

Toggled == 1 - pcs

\* At the Link the producer hands it to the controller with the cycle of the lap that
\* ends, and starts again at 0 with the other.  There is no check for a full ring: the
\* driver has far fewer requests outstanding than a segment holds.
Push(r) ==
    /\ Len(requests) < Segment - 1
    /\ requests' = Append(requests, r)
    /\ IF enqueue = LinkPlace
       THEN /\ req' = [req EXCEPT ![LinkPlace].cycle = pcs, ![0] = [cycle |-> Toggled, rec |-> r]]
            /\ enqueue' = 1 /\ pcs' = Toggled
       ELSE /\ req' = [req EXCEPT ![enqueue] = [cycle |-> pcs, rec |-> r]]
            /\ enqueue' = enqueue + 1 /\ UNCHANGED pcs
    /\ UNCHANGED <<fetch, hcs, eventRing>>

\* The controller (external): follow a Link of its own lap, take a record of its own lap.
FollowsLink == fetch = LinkPlace /\ req[LinkPlace].cycle = hcs
FetchPlace == IF FollowsLink THEN 0 ELSE fetch
FetchCycle == IF FollowsLink THEN 1 - hcs ELSE hcs
Fetchable == FetchPlace # LinkPlace /\ req[FetchPlace].cycle = FetchCycle
NextRequest == IF Fetchable THEN req[FetchPlace].rec ELSE Nothing

Fetch ==
    /\ Fetchable
    /\ fetch' = FetchPlace + 1 /\ hcs' = FetchCycle
    /\ requests' = IF requests = << >> THEN requests ELSE Tail(requests)
    /\ UNCHANGED <<req, enqueue, pcs, eventRing>>

----------------------------------------------------------------------------
(* Events                                                                   *)

\* The controller (external) keeps one place free before the dequeue pointer it was told.
Write(r) ==
    /\ (write + 1) % Segment # event_dequeue
    /\ evt' = [evt EXCEPT ![write] = [cycle |-> hpcs, rec |-> r]]
    /\ write' = (write + 1) % Segment
    /\ hpcs' = IF write = Segment - 1 THEN 1 - hpcs ELSE hpcs
    /\ written' = Append(written, r)
    /\ UNCHANGED <<event_dequeue, event_ccs, requestRing>>

\* xhci_next_event: a record of the driver's own lap, or nothing.
xhci_next_event ==
    IF evt[event_dequeue].cycle = event_ccs THEN evt[event_dequeue].rec ELSE Nothing

\* Mutant: the reader's cycle is not turned at the end of the ring.
ConsumeKeepsCycle ==
    /\ xhci_next_event # Nothing
    /\ event_dequeue' = (event_dequeue + 1) % Segment
    /\ UNCHANGED event_ccs
    /\ written' = IF written = << >> THEN written ELSE Tail(written)
    /\ UNCHANGED <<evt, write, hpcs, requestRing>>

\* xhci_consume_record: on to the next place, turning the cycle at the end of the segment.
xhci_consume_record ==
    /\ xhci_next_event # Nothing
    /\ event_dequeue' = (event_dequeue + 1) % Segment
    /\ event_ccs' = IF event_dequeue = Segment - 1 THEN 1 - event_ccs ELSE event_ccs
    /\ written' = IF written = << >> THEN written ELSE Tail(written)
    /\ UNCHANGED <<evt, write, hpcs, requestRing>>

----------------------------------------------------------------------------
\* Zeroed pages; the Link is written with its cycle bit set, and both sides start at 1.
RingInit ==
    /\ req = [p \in Places |-> IF p = LinkPlace THEN [Empty0 EXCEPT !.cycle = 1] ELSE Empty0]
    /\ enqueue = 0 /\ pcs = 1 /\ fetch = 0 /\ hcs = 1 /\ requests = << >>
    /\ evt = [p \in Places |-> Empty0]
    /\ write = 0 /\ hpcs = 1 /\ event_dequeue = 0 /\ event_ccs = 1 /\ written = << >>

RingNext ==
    \/ \E r \in Records : Push(r) \/ Write(r)
    \/ Fetch \/ xhci_consume_record

RingSpec == RingInit /\ [][RingNext]_ringVars

----------------------------------------------------------------------------
\* The controller fetches the requests in the order the driver pushed them, each once, and
\* none that was not pushed; the driver reads the events the same way (the cycle bits of
\* xhci_command, int_push, xhci_next_event and xhci_consume_event).
RingsAreQueues ==
    /\ NextRequest = IF requests = << >> THEN Nothing ELSE Head(requests)
    /\ xhci_next_event = IF written = << >> THEN Nothing ELSE Head(written)
=============================================================================
