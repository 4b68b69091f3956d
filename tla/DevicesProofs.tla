--------------------------- MODULE DevicesProofs ---------------------------
(***************************************************************************)
(* Proofs about three components of the devices run: the xHCI rings, the   *)
(* boot and the internal disks.  A ring of any length is the queue it is   *)
(* meant to be: the cycle bits alone tell this lap's records from the last *)
(* one's.  What the boot leaves on the disks is in order for every number  *)
(* of devices, every set of passphrases and any number of boots.  And a    *)
(* driver that answers well has done what it was asked, however many       *)
(* calls gave up before.                                                   *)
(***************************************************************************)
EXTENDS TrbRing, Boot, Disk, SequenceTheorems, TLAPS

Record == [cycle : {0, 1}, rec : Records \cup {Nothing}]

\* Every variable has its type.
EventTypes ==
    /\ evt \in [Places -> Record] /\ write \in Places /\ event_dequeue \in Places
    /\ hpcs \in {0, 1} /\ event_ccs \in {0, 1} /\ written \in Seq(Records)

RequestTypes ==
    /\ req \in [Places -> Record] /\ enqueue \in Places /\ fetch \in Places
    /\ pcs \in {0, 1} /\ hcs \in {0, 1} /\ requests \in Seq(Records)

\* How the records of the request ring lie while both sides are on one lap: the pushed
\* requests are between the two places and what is behind them carries the other cycle.
OneLap ==
    /\ fetch <= enqueue /\ Len(requests) = enqueue - fetch
    /\ \A p \in Places \ {LinkPlace} :
         /\ p < fetch => req[p].cycle = pcs
         /\ fetch <= p /\ p < enqueue
              => req[p].cycle = pcs /\ req[p].rec = requests[p - fetch + 1]
         /\ enqueue <= p => req[p].cycle # pcs

\* And when the producer is a lap ahead: the requests go round by the Link, which lets
\* the controller through.
LapAhead ==
    /\ 1 <= enqueue /\ enqueue <= fetch
    /\ Len(requests) = LinkPlace - fetch + enqueue
    /\ req[LinkPlace].cycle = hcs
    /\ \A p \in Places \ {LinkPlace} :
         /\ p < enqueue
              => req[p].cycle = pcs /\ req[p].rec = requests[LinkPlace - fetch + p + 1]
         /\ enqueue <= p => req[p].cycle = hcs
         /\ fetch <= p => req[p].rec = requests[p - fetch + 1]

RequestsLie == IF pcs = hcs THEN OneLap ELSE LapAhead

\* The event ring, in the same two cases; the controller never catches up with the
\* driver, so that equal places mean an empty ring.
EventsOneLap ==
    /\ event_dequeue <= write /\ Len(written) = write - event_dequeue
    /\ \A p \in Places :
         /\ p < event_dequeue => evt[p].cycle = hpcs
         /\ event_dequeue <= p /\ p < write
              => evt[p].cycle = hpcs /\ evt[p].rec = written[p - event_dequeue + 1]
         /\ write <= p => evt[p].cycle # hpcs

EventsLapAhead ==
    /\ write < event_dequeue /\ Len(written) = Segment - event_dequeue + write
    /\ \A p \in Places :
         /\ p < write
              => evt[p].cycle = hpcs /\ evt[p].rec = written[Segment - event_dequeue + p + 1]
         /\ write <= p => evt[p].cycle = event_ccs
         /\ event_dequeue <= p => evt[p].rec = written[p - event_dequeue + 1]

EventsLie == IF hpcs = event_ccs THEN EventsOneLap ELSE EventsLapAhead

\* The inductive invariant.
RingIInv == RequestTypes /\ RequestsLie /\ EventTypes /\ EventsLie

---------------------------------------------------------------------------
(* What the two operations of a queue do to its entries. *)
LEMMA AppendEntries ==
  ASSUME NEW s \in Seq(Records), NEW r \in Records
  PROVE  /\ Append(s, r) \in Seq(Records) /\ Len(Append(s, r)) = Len(s) + 1
         /\ \A i \in 1..Len(s) : Append(s, r)[i] = s[i]
         /\ Append(s, r)[Len(s) + 1] = r
  OBVIOUS

(* What is left of a queue when its head goes.                             *)
LEMMA TailEntries ==
  ASSUME NEW s \in Seq(Records), s # << >>
  PROVE  /\ Tail(s) \in Seq(Records) /\ Len(Tail(s)) = Len(s) - 1 /\ Len(s) \in Nat
         /\ \A i \in 1..(Len(s) - 1) : Tail(s)[i] = s[i + 1]
         /\ Head(s) = s[1] /\ Head(s) \in Records
  OBVIOUS

(* A queue without records has length 0.                                   *)
LEMMA EmptyLen == \A s \in Seq(Records) : Len(s) \in Nat /\ (Len(s) = 0 <=> s = << >>)
  OBVIOUS

(* The two places after a step round the ring. *)
LEMMA Round == \A p \in Places : (p + 1) % Segment = IF p = Segment - 1 THEN 0 ELSE p + 1
  BY SegmentAssumption DEF Places

---------------------------------------------------------------------------
(* The inductive invariant. *)
LEMMA RingInitIInv == RingInit => RingIInv
<1> SUFFICES ASSUME RingInit PROVE RingIInv
  OBVIOUS
<1>1. RequestTypes /\ EventTypes
  BY SegmentAssumption
     DEF RingInit, RequestTypes, EventTypes, Record, Places, LinkPlace, Empty0
<1>2. RequestsLie
  BY SegmentAssumption DEF RingInit, RequestsLie, OneLap, Places, LinkPlace, Empty0
<1>3. EventsLie
  BY SegmentAssumption DEF RingInit, EventsLie, EventsOneLap, Places, Empty0
<1> QED
  BY <1>1, <1>2, <1>3 DEF RingIInv

(* The other cycle. *)
LEMMA Turn == \A c \in {0, 1} : 1 - c \in {0, 1} /\ 1 - c # c
  OBVIOUS

(* xhci_command and the others that push. *)
LEMMA PushStep ==
  ASSUME RequestTypes, RequestsLie, NEW r \in Records, Push(r)
  PROVE  RequestTypes' /\ RequestsLie'
<1> USE SegmentAssumption DEF Places, LinkPlace
<1>1. /\ requests' \in Seq(Records) /\ Len(requests') = Len(requests) + 1
      /\ \A i \in 1..Len(requests) : requests'[i] = requests[i]
      /\ requests'[Len(requests) + 1] = r /\ Len(requests) \in Nat
  BY AppendEntries, EmptyLen DEF Push, RequestTypes
<1>2. fetch' = fetch /\ hcs' = hcs /\ Len(requests) < LinkPlace
  BY DEF Push
<1>t. /\ enqueue \in Places /\ fetch \in Places /\ pcs \in {0, 1} /\ hcs \in {0, 1}
      /\ req \in [Places -> Record]
  BY DEF RequestTypes
<1>3. CASE enqueue = LinkPlace
  <2>1. pcs = hcs /\ fetch >= 1 /\ OneLap
    BY <1>2, <1>3, <1>t DEF RequestsLie, OneLap, LapAhead
  <2>2. enqueue' = 1 /\ pcs' = 1 - pcs
    BY <1>3 DEF Push, Toggled
  <2>e. req' = [req EXCEPT ![LinkPlace].cycle = pcs, ![0] = [cycle |-> 1 - pcs, rec |-> r]]
    BY <1>3 DEF Push, Toggled
  <2>t. 1 - pcs \in {0, 1} /\ 1 - pcs # pcs
    BY <1>t, Turn
  <2>3. /\ req'[LinkPlace].cycle = pcs
        /\ req'[0].cycle = 1 - pcs /\ req'[0].rec = r
        /\ \A p \in Places \ {0, LinkPlace} : req'[p] = req[p]
    BY <1>t, <2>e DEF Record
  <2>4. req' \in [Places -> Record]
    <3>1. [cycle |-> 1 - pcs, rec |-> r] \in Record
      BY <2>t DEF Record
    <3>2. [req[LinkPlace] EXCEPT !.cycle = pcs] \in Record
      BY <1>t DEF Record
    <3> QED
      BY <1>t, <2>e, <3>1, <3>2
  <2>5. RequestTypes'
    BY <1>1, <1>2, <1>t, <2>2, <2>t, <2>4 DEF RequestTypes
  <2>6. LapAhead'
    <3>1. Len(requests) = LinkPlace - fetch
      BY <1>3, <2>1 DEF OneLap
    <3>2. ASSUME NEW p \in Places \ {LinkPlace}, p < 1
          PROVE  req'[p].cycle = pcs' /\ req'[p].rec = requests'[LinkPlace - fetch + p + 1]
      <4>1. p = 0
        BY <3>2
      <4> QED
        BY <1>1, <1>t, <2>2, <2>3, <3>1, <4>1
    <3>3. ASSUME NEW p \in Places \ {LinkPlace}, 1 <= p
          PROVE  /\ req'[p].cycle = hcs
                 /\ fetch <= p => req'[p].rec = requests'[p - fetch + 1]
      <4>1. req'[p] = req[p]
        BY <2>3, <3>3
      <4>2. fetch <= p => requests'[p - fetch + 1] = requests[p - fetch + 1]
        <5>1. fetch <= p => p - fetch + 1 \in 1..Len(requests)
          BY <1>t, <3>1, <3>3
        <5> QED
          BY <1>1, <5>1
      <4> QED
        BY <1>3, <1>t, <2>1, <3>3, <4>1, <4>2 DEF OneLap
    <3> QED
      BY <1>1, <1>2, <1>3, <1>t, <2>1, <2>2, <2>3, <3>1, <3>2, <3>3 DEF LapAhead
  <2> QED
    BY <1>2, <2>1, <2>2, <2>t, <2>5, <2>6 DEF RequestsLie
<1>4. CASE enqueue # LinkPlace
  <2>1. enqueue' = enqueue + 1 /\ pcs' = pcs
    BY <1>4 DEF Push
  <2>e. req' = [req EXCEPT ![enqueue] = [cycle |-> pcs, rec |-> r]]
    BY <1>4 DEF Push
  <2>2. /\ req'[enqueue].cycle = pcs /\ req'[enqueue].rec = r
        /\ \A p \in Places \ {enqueue} : req'[p] = req[p]
    BY <1>t, <2>e
  <2>3. req' \in [Places -> Record]
    <3>1. [cycle |-> pcs, rec |-> r] \in Record
      BY <1>t DEF Record
    <3> QED
      BY <1>t, <2>e, <3>1
  <2>4. RequestTypes'
    BY <1>1, <1>2, <1>4, <1>t, <2>1, <2>3 DEF RequestTypes
  <2>5. CASE pcs = hcs
    <3>1. OneLap
      BY <2>5 DEF RequestsLie
    <3>2. OneLap'
      BY <1>1, <1>2, <1>4, <1>t, <2>1, <2>2, <3>1, SMTT(20) DEF OneLap
    <3> QED
      BY <1>2, <2>1, <2>4, <2>5, <3>2 DEF RequestsLie
  <2>6. CASE pcs # hcs
    <3>0. LapAhead
      BY <2>6 DEF RequestsLie
    <3>1. LapAhead /\ enqueue < fetch
      <4>1. Len(requests) = LinkPlace - fetch + enqueue
        BY <3>0 DEF LapAhead
      <4> QED
        BY <1>2, <1>t, <3>0, <4>1
    <3>2. ASSUME NEW p \in Places \ {LinkPlace}
          PROVE  /\ p < enqueue + 1 => /\ req'[p].cycle = pcs
                                       /\ req'[p].rec = requests'[LinkPlace - fetch + p + 1]
                 /\ enqueue + 1 <= p => req'[p].cycle = hcs
                 /\ fetch <= p => req'[p].rec = requests'[p - fetch + 1]
      <4>1. CASE p = enqueue
        BY <1>1, <1>t, <2>2, <3>1, <4>1 DEF LapAhead
      <4>2. CASE p < enqueue
        <5>1. LinkPlace - fetch + p + 1 \in 1..Len(requests)
          BY <1>t, <3>1, <4>2 DEF LapAhead
        <5>2. requests'[LinkPlace - fetch + p + 1] = requests[LinkPlace - fetch + p + 1]
          BY <1>1, <5>1
        <5>3. req'[p] = req[p]
          BY <1>t, <2>2, <4>2
        <5>4. req[p].cycle = pcs /\ req[p].rec = requests[LinkPlace - fetch + p + 1]
          BY <3>1, <4>2 DEF LapAhead
        <5> QED
          BY <1>t, <3>1, <4>2, <5>2, <5>3, <5>4
      <4>3. CASE p > enqueue
        <5>1. fetch <= p => requests'[p - fetch + 1] = requests[p - fetch + 1]
          BY <1>1, <1>t, <3>1, <4>3 DEF LapAhead
        <5>2. req'[p] = req[p] /\ ~(p < enqueue + 1) /\ enqueue <= p
          BY <1>t, <2>2, <4>3
        <5>3. /\ enqueue <= p => req[p].cycle = hcs
              /\ fetch <= p => req[p].rec = requests[p - fetch + 1]
          BY <3>1 DEF LapAhead
        <5> QED
          BY <5>1, <5>2, <5>3
      <4> QED
        BY <1>t, <4>1, <4>2, <4>3
    <3>3. /\ 1 <= enqueue + 1 /\ enqueue + 1 <= fetch
          /\ Len(requests') = LinkPlace - fetch + (enqueue + 1)
      BY <1>1, <1>t, <3>1 DEF LapAhead
    <3>4. req'[LinkPlace].cycle = hcs
      BY <1>4, <2>2, <3>1 DEF LapAhead
    <3>5. LapAhead'
      BY <1>2, <1>t, <2>1, <3>2, <3>3, <3>4 DEF LapAhead
    <3> QED
      BY <1>2, <2>1, <2>4, <2>6, <3>5 DEF RequestsLie
  <2> QED
    BY <2>5, <2>6
<1> QED
  BY <1>3, <1>4

(* What the controller sees next on the request ring. *)
LEMMA NextIsHead ==
  ASSUME RequestTypes, RequestsLie
  PROVE  /\ Fetchable <=> requests # << >>
         /\ Fetchable => req[FetchPlace].rec = Head(requests)
<1> USE SegmentAssumption DEF Places, LinkPlace
<1>1. Len(requests) \in Nat /\ (Len(requests) = 0 <=> requests = << >>)
  BY EmptyLen DEF RequestTypes
<1>2. requests # << >> => Head(requests) = requests[1]
  BY TailEntries DEF RequestTypes
<1>t. enqueue \in Places /\ fetch \in Places /\ pcs \in {0, 1} /\ hcs \in {0, 1}
  BY DEF RequestTypes
<1>3. CASE pcs = hcs
  <2>0. OneLap
    BY <1>3 DEF RequestsLie
  <2>1. CASE fetch = LinkPlace
    BY <1>1, <1>3, <1>t, <2>0, <2>1 DEF Fetchable, FetchPlace, FetchCycle, FollowsLink, OneLap
  <2>2. CASE fetch # LinkPlace
    BY <1>1, <1>2, <1>3, <1>t, <2>0, <2>2 DEF Fetchable, FetchPlace, FetchCycle, FollowsLink, OneLap
  <2> QED
    BY <2>1, <2>2
<1>4. CASE pcs # hcs
  <2>0. LapAhead /\ pcs = 1 - hcs
    BY <1>4, <1>t DEF RequestsLie
  <2>1. CASE fetch = LinkPlace
    <3>1. FetchPlace = 0 /\ FetchCycle = pcs
      BY <2>0, <2>1 DEF FetchPlace, FetchCycle, FollowsLink, LapAhead
    <3> QED
      BY <1>1, <1>2, <1>t, <2>0, <2>1, <3>1 DEF Fetchable, LapAhead
  <2>2. CASE fetch # LinkPlace
    <3>1. FetchPlace = fetch /\ FetchCycle = hcs
      BY <2>2 DEF FetchPlace, FetchCycle, FollowsLink
    <3>2. /\ requests # << >> /\ req[fetch].cycle = hcs
          /\ req[fetch].rec = requests[1]
      BY <1>1, <1>t, <2>0, <2>2 DEF LapAhead
    <3> QED
      BY <1>2, <2>2, <3>1, <3>2 DEF Fetchable
  <2> QED
    BY <2>1, <2>2
<1> QED
  BY <1>3, <1>4

(* The controller takes a request. *)
LEMMA FetchStep ==
  ASSUME RequestTypes, RequestsLie, Fetch
  PROVE  RequestTypes' /\ RequestsLie'
<1> USE SegmentAssumption DEF Places, LinkPlace
<1>1. requests # << >> /\ requests' = Tail(requests)
  BY NextIsHead DEF Fetch
<1>2. /\ requests' \in Seq(Records) /\ Len(requests') = Len(requests) - 1
      /\ \A i \in 1..(Len(requests) - 1) : requests'[i] = requests[i + 1]
      /\ Len(requests) \in Nat
  BY <1>1, TailEntries DEF RequestTypes
<1>3. req' = req /\ enqueue' = enqueue /\ pcs' = pcs
  BY DEF Fetch
<1>t. enqueue \in Places /\ fetch \in Places /\ pcs \in {0, 1} /\ hcs \in {0, 1}
  BY DEF RequestTypes
<1>4. CASE FollowsLink
  <2>1. fetch' = 1 /\ hcs' = 1 - hcs /\ fetch = LinkPlace
    BY <1>4 DEF Fetch, FetchPlace, FetchCycle, FollowsLink
  <2>2. req[0].cycle = 1 - hcs
    BY <1>4 DEF Fetch, Fetchable, FetchPlace, FetchCycle
  <2>3. pcs # hcs /\ pcs = 1 - hcs
    BY <1>t, <2>1, <2>2 DEF RequestsLie, OneLap
  <2>4. RequestTypes'
    BY <1>2, <1>3, <1>t, <2>1, <2>3 DEF RequestTypes
  <2>5. LapAhead
    BY <2>3 DEF RequestsLie
  <2>6. OneLap'
    <3>1. ASSUME NEW p \in Places \ {LinkPlace}, 1 <= p, p < enqueue
          PROVE  requests'[p - 1 + 1] = requests[LinkPlace - fetch + p + 1]
      <4>1. /\ p - 1 + 1 \in 1..(Len(requests) - 1)
            /\ p - 1 + 1 + 1 = LinkPlace - fetch + p + 1
        BY <1>t, <2>1, <2>5, <3>1 DEF LapAhead
      <4> QED
        BY <1>2, <4>1
    <3> QED
      BY <1>2, <1>3, <1>t, <2>1, <2>3, <2>5, <3>1 DEF OneLap, LapAhead
  <2> QED
    BY <1>3, <2>1, <2>3, <2>4, <2>6 DEF RequestsLie
<1>5. CASE ~FollowsLink
  <2>1. fetch' = fetch + 1 /\ hcs' = hcs /\ fetch # LinkPlace
    BY <1>5 DEF Fetch, Fetchable, FetchPlace, FetchCycle
  <2>2. req[fetch].cycle = hcs
    BY <1>5 DEF Fetch, Fetchable, FetchPlace, FetchCycle
  <2>3. RequestTypes'
    BY <1>2, <1>3, <1>t, <2>1 DEF RequestTypes
  <2>4. CASE pcs = hcs
    <3>1. OneLap
      BY <2>4 DEF RequestsLie
    <3>2. ASSUME NEW p \in Places \ {LinkPlace}, fetch + 1 <= p, p < enqueue
          PROVE  requests'[p - (fetch + 1) + 1] = requests[p - fetch + 1]
      BY <1>2, <1>t, <3>1, <3>2 DEF OneLap
    <3>3. fetch < enqueue
      BY <1>t, <2>1, <2>2, <2>4, <3>1 DEF OneLap
    <3>4. OneLap'
      BY <1>2, <1>3, <1>t, <2>1, <3>1, <3>2, <3>3 DEF OneLap
    <3> QED
      BY <1>3, <2>1, <2>3, <2>4, <3>4 DEF RequestsLie
  <2>5. CASE pcs # hcs
    <3>1. LapAhead
      BY <2>5 DEF RequestsLie
    <3>2. ASSUME NEW p \in Places \ {LinkPlace}, fetch + 1 <= p
          PROVE  requests'[p - (fetch + 1) + 1] = requests[p - fetch + 1]
      BY <1>2, <1>t, <3>1, <3>2 DEF LapAhead
    <3>3. ASSUME NEW p \in Places \ {LinkPlace}, p < enqueue
          PROVE  requests'[LinkPlace - (fetch + 1) + p + 1] = requests[LinkPlace - fetch + p + 1]
      BY <1>2, <1>t, <2>1, <3>1, <3>3 DEF LapAhead
    <3>4. ASSUME NEW p \in Places \ {LinkPlace}
          PROVE  /\ p < enqueue
                      => /\ req[p].cycle = pcs
                         /\ req[p].rec = requests'[LinkPlace - (fetch + 1) + p + 1]
                 /\ enqueue <= p => req[p].cycle = hcs
                 /\ fetch + 1 <= p => req[p].rec = requests'[p - (fetch + 1) + 1]
      <4>1. /\ p < enqueue
                 => req[p].cycle = pcs /\ req[p].rec = requests[LinkPlace - fetch + p + 1]
            /\ enqueue <= p => req[p].cycle = hcs
            /\ fetch <= p => req[p].rec = requests[p - fetch + 1]
        BY <3>1 DEF LapAhead
      <4>2. fetch + 1 <= p => fetch <= p
        BY <1>t
      <4> QED
        BY <3>2, <3>3, <4>1, <4>2
    <3>5. /\ 1 <= enqueue /\ enqueue <= fetch + 1
          /\ Len(requests') = LinkPlace - (fetch + 1) + enqueue
          /\ req[LinkPlace].cycle = hcs
      BY <1>2, <1>t, <2>1, <3>1 DEF LapAhead
    <3>6. LapAhead'
      BY <1>3, <2>1, <3>4, <3>5 DEF LapAhead
    <3> QED
      BY <1>3, <2>1, <2>3, <2>5, <3>6 DEF RequestsLie
  <2> QED
    BY <2>4, <2>5
<1> QED
  BY <1>4, <1>5

---------------------------------------------------------------------------
(* The controller writes an event. *)
LEMMA WriteStep ==
  ASSUME EventTypes, EventsLie, NEW r \in Records, Write(r)
  PROVE  EventTypes' /\ EventsLie'
<1> USE SegmentAssumption DEF Places
<1>1. /\ written' \in Seq(Records) /\ Len(written') = Len(written) + 1
      /\ \A i \in 1..Len(written) : written'[i] = written[i]
      /\ written'[Len(written) + 1] = r /\ Len(written) \in Nat
  BY AppendEntries, EmptyLen DEF Write, EventTypes
<1>e. evt' = [evt EXCEPT ![write] = [cycle |-> hpcs, rec |-> r]]
  BY DEF Write
<1>2. event_dequeue' = event_dequeue /\ event_ccs' = event_ccs
  BY DEF Write
<1>t. /\ write \in Places /\ event_dequeue \in Places /\ hpcs \in {0, 1} /\ event_ccs \in {0, 1}
      /\ evt \in [Places -> Record]
  BY DEF EventTypes
<1>3. /\ evt'[write].cycle = hpcs /\ evt'[write].rec = r
      /\ \A p \in Places \ {write} : evt'[p] = evt[p]
  BY <1>e, <1>t
<1>4. evt' \in [Places -> Record]
  <2>1. [cycle |-> hpcs, rec |-> r] \in Record
    BY <1>t DEF Record
  <2> QED
    BY <1>e, <1>t, <2>1
<1>5. write' = IF write = Segment - 1 THEN 0 ELSE write + 1
  BY <1>t, Round DEF Write
<1>6. write' # event_dequeue
  BY DEF Write
<1>7. hpcs' = IF write = Segment - 1 THEN 1 - hpcs ELSE hpcs
  BY DEF Write
<1>8. EventTypes'
  BY <1>1, <1>2, <1>4, <1>5, <1>7, <1>t, Turn DEF EventTypes
<1>9. CASE hpcs = event_ccs
  <2>1. EventsOneLap
    BY <1>9 DEF EventsLie
  <2>2. ASSUME NEW p \in Places, event_dequeue <= p, p < write
        PROVE  written'[p - event_dequeue + 1] = written[p - event_dequeue + 1]
    <3>1. p - event_dequeue + 1 \in 1..Len(written)
      BY <1>t, <2>1, <2>2 DEF EventsOneLap
    <3> QED
      BY <1>1, <3>1
  <2>3. written'[write - event_dequeue + 1] = r
    BY <1>1, <2>1 DEF EventsOneLap
  <2>4. CASE write = Segment - 1
    <3>1. write' = 0 /\ hpcs' # event_ccs
      BY <1>5, <1>7, <1>9, <1>t, <2>4, Turn
    <3>2. ASSUME NEW p \in Places
          PROVE  /\ evt'[p].cycle = event_ccs
                 /\ event_dequeue <= p => evt'[p].rec = written'[p - event_dequeue + 1]
      <4>1. CASE p = write
        BY <1>3, <1>9, <2>3, <4>1
      <4>2. CASE p < write
        BY <1>3, <1>9, <1>t, <2>1, <2>2, <4>2 DEF EventsOneLap
      <4> QED
        BY <2>4, <4>1, <4>2
    <3>3. 0 < event_dequeue /\ Len(written') = Segment - event_dequeue
      BY <1>1, <1>6, <1>t, <2>1, <2>4, <3>1 DEF EventsOneLap
    <3>4. EventsLapAhead'
      BY <1>2, <1>t, <3>1, <3>2, <3>3 DEF EventsLapAhead
    <3> QED
      BY <1>2, <1>8, <3>1, <3>4 DEF EventsLie
  <2>5. CASE write # Segment - 1
    <3>1. write' = write + 1 /\ hpcs' = hpcs
      BY <1>5, <1>7, <2>5
    <3>2. ASSUME NEW p \in Places
          PROVE  /\ p < event_dequeue => evt'[p].cycle = hpcs
                 /\ event_dequeue <= p /\ p < write + 1
                      => evt'[p].cycle = hpcs /\ evt'[p].rec = written'[p - event_dequeue + 1]
                 /\ write + 1 <= p => evt'[p].cycle # hpcs
      <4>1. CASE p = write
        BY <1>3, <1>t, <2>1, <2>3, <4>1
      <4>2. CASE p # write
        BY <1>3, <1>t, <2>1, <2>2, <4>2 DEF EventsOneLap
      <4> QED
        BY <4>1, <4>2
    <3>3. event_dequeue <= write + 1 /\ Len(written') = write + 1 - event_dequeue
      BY <1>1, <1>t, <2>1 DEF EventsOneLap
    <3>4. EventsOneLap'
      BY <1>2, <1>t, <3>1, <3>2, <3>3 DEF EventsOneLap
    <3> QED
      BY <1>2, <1>8, <1>9, <3>1, <3>4 DEF EventsLie
  <2> QED
    BY <2>4, <2>5
<1>10. CASE hpcs # event_ccs
  <2>1. EventsLapAhead
    BY <1>10 DEF EventsLie
  <2>2. write' = write + 1 /\ hpcs' = hpcs /\ write + 1 < event_dequeue
    BY <1>5, <1>6, <1>7, <1>t, <2>1 DEF EventsLapAhead
  <2>3. ASSUME NEW p \in Places, p < write
        PROVE  written'[Segment - event_dequeue + p + 1] = written[Segment - event_dequeue + p + 1]
    <3>1. Segment - event_dequeue + p + 1 \in 1..Len(written)
      BY <1>t, <2>1, <2>3 DEF EventsLapAhead
    <3> QED
      BY <1>1, <3>1
  <2>4. ASSUME NEW p \in Places, event_dequeue <= p
        PROVE  written'[p - event_dequeue + 1] = written[p - event_dequeue + 1]
    <3>1. p - event_dequeue + 1 \in 1..Len(written)
      BY <1>t, <2>1, <2>4 DEF EventsLapAhead
    <3> QED
      BY <1>1, <3>1
  <2>5. written'[Segment - event_dequeue + write + 1] = r
    BY <1>1, <2>1 DEF EventsLapAhead
  <2>6. ASSUME NEW p \in Places
        PROVE  /\ p < write + 1
                    => /\ evt'[p].cycle = hpcs
                       /\ evt'[p].rec = written'[Segment - event_dequeue + p + 1]
               /\ write + 1 <= p => evt'[p].cycle = event_ccs
               /\ event_dequeue <= p => evt'[p].rec = written'[p - event_dequeue + 1]
    <3>1. CASE p = write
      BY <1>3, <1>t, <2>1, <2>5, <3>1 DEF EventsLapAhead
    <3>2. CASE p # write
      <4>1. evt'[p] = evt[p]
        BY <1>3, <3>2
      <4>2. /\ p < write => /\ evt[p].cycle = hpcs
                            /\ evt[p].rec = written[Segment - event_dequeue + p + 1]
            /\ write <= p => evt[p].cycle = event_ccs
            /\ event_dequeue <= p => evt[p].rec = written[p - event_dequeue + 1]
        BY <2>1 DEF EventsLapAhead
      <4>3. (p < write + 1 <=> p < write) /\ (write + 1 <= p => write <= p)
        BY <1>t, <3>2
      <4>4. /\ p < write => evt[p].rec = written'[Segment - event_dequeue + p + 1]
            /\ event_dequeue <= p => evt[p].rec = written'[p - event_dequeue + 1]
        BY <2>3, <2>4, <4>2
      <4> QED
        BY <4>1, <4>2, <4>3, <4>4
    <3> QED
      BY <3>1, <3>2
  <2>7. EventsLapAhead'
    BY <1>1, <1>2, <1>t, <2>1, <2>2, <2>6 DEF EventsLapAhead
  <2> QED
    BY <1>2, <1>8, <1>10, <2>2, <2>7 DEF EventsLie
<1> QED
  BY <1>9, <1>10

(* What the driver sees next on the event ring. *)
LEMMA NextEventIsHead ==
  ASSUME EventTypes, EventsLie
  PROVE  xhci_next_event = IF written = << >> THEN Nothing ELSE Head(written)
<1> USE SegmentAssumption DEF Places
<1>1. Len(written) \in Nat /\ (Len(written) = 0 <=> written = << >>)
  BY EmptyLen DEF EventTypes
<1>2. written # << >> => Head(written) = written[1]
  BY TailEntries DEF EventTypes
<1>t. /\ write \in Places /\ event_dequeue \in Places /\ hpcs \in {0, 1} /\ event_ccs \in {0, 1}
  BY DEF EventTypes
<1>3. CASE hpcs = event_ccs
  BY <1>1, <1>2, <1>3, <1>t DEF EventsLie, EventsOneLap, xhci_next_event
<1>4. CASE hpcs # event_ccs
  BY <1>1, <1>2, <1>4, <1>t DEF EventsLie, EventsLapAhead, xhci_next_event
<1> QED
  BY <1>3, <1>4

(* xhci_consume_record. *)
LEMMA ConsumeStep ==
  ASSUME EventTypes, EventsLie, xhci_consume_record
  PROVE  EventTypes' /\ EventsLie'
<1> USE SegmentAssumption DEF Places
<1>1. written # << >> /\ written' = Tail(written)
  BY NextEventIsHead DEF xhci_consume_record
<1>2. /\ written' \in Seq(Records) /\ Len(written') = Len(written) - 1
      /\ \A i \in 1..(Len(written) - 1) : written'[i] = written[i + 1]
      /\ Len(written) \in Nat /\ Len(written) > 0
  BY <1>1, TailEntries, EmptyLen DEF EventTypes
<1>3. evt' = evt /\ write' = write /\ hpcs' = hpcs
  BY DEF xhci_consume_record
<1>t. write \in Places /\ event_dequeue \in Places /\ hpcs \in {0, 1} /\ event_ccs \in {0, 1}
  BY DEF EventTypes
<1>4. event_dequeue' = IF event_dequeue = Segment - 1 THEN 0 ELSE event_dequeue + 1
  BY <1>t, Round DEF xhci_consume_record
<1>5. event_ccs' = IF event_dequeue = Segment - 1 THEN 1 - event_ccs ELSE event_ccs
  BY DEF xhci_consume_record
<1>6. EventTypes'
  BY <1>2, <1>3, <1>4, <1>5, <1>t, Turn DEF EventTypes
<1>7. CASE hpcs = event_ccs
  <2>1. EventsOneLap
    BY <1>7 DEF EventsLie
  <2>2. event_dequeue < write /\ event_dequeue' = event_dequeue + 1 /\ event_ccs' = event_ccs
    BY <1>2, <1>4, <1>5, <1>t, <2>1 DEF EventsOneLap
  <2>3. ASSUME NEW p \in Places
        PROVE  /\ p < event_dequeue + 1 => evt[p].cycle = hpcs
               /\ event_dequeue + 1 <= p /\ p < write
                    => evt[p].cycle = hpcs /\ evt[p].rec = written'[p - (event_dequeue + 1) + 1]
               /\ write <= p => evt[p].cycle # hpcs
    <3>1. /\ p < event_dequeue => evt[p].cycle = hpcs
          /\ event_dequeue <= p /\ p < write
               => evt[p].cycle = hpcs /\ evt[p].rec = written[p - event_dequeue + 1]
          /\ write <= p => evt[p].cycle # hpcs
      BY <2>1 DEF EventsOneLap
    <3>2. ASSUME event_dequeue + 1 <= p, p < write
          PROVE  written'[p - (event_dequeue + 1) + 1] = written[p - event_dequeue + 1]
      <4>1. /\ p - (event_dequeue + 1) + 1 \in 1..(Len(written) - 1)
            /\ p - (event_dequeue + 1) + 1 + 1 = p - event_dequeue + 1
        BY <1>2, <1>t, <2>1, <3>2 DEF EventsOneLap
      <4> QED
        BY <1>2, <4>1
    <3>3. /\ event_dequeue + 1 <= p => event_dequeue <= p
          /\ p < event_dequeue + 1 => p < event_dequeue \/ (event_dequeue <= p /\ p < write)
      BY <1>t, <2>2
    <3> QED
      BY <3>1, <3>2, <3>3
  <2>4. event_dequeue + 1 <= write /\ Len(written') = write - (event_dequeue + 1)
    BY <1>2, <1>t, <2>1, <2>2 DEF EventsOneLap
  <2>5. EventsOneLap'
    BY <1>3, <2>2, <2>3, <2>4 DEF EventsOneLap
  <2> QED
    BY <1>3, <1>6, <1>7, <2>2, <2>5 DEF EventsLie
<1>8. CASE hpcs # event_ccs
  <2>1. EventsLapAhead
    BY <1>8 DEF EventsLie
  <2>2. CASE event_dequeue = Segment - 1
    <3>1. event_dequeue' = 0 /\ event_ccs' = hpcs
      BY <1>4, <1>5, <1>8, <1>t, <2>2
    <3>2. ASSUME NEW p \in Places
          PROVE  /\ p < write => evt[p].cycle = hpcs /\ evt[p].rec = written'[p - 0 + 1]
                 /\ write <= p => evt[p].cycle # hpcs
      <4>1. /\ p < write
                 => evt[p].cycle = hpcs /\ evt[p].rec = written[Segment - event_dequeue + p + 1]
            /\ write <= p => evt[p].cycle = event_ccs
        BY <2>1 DEF EventsLapAhead
      <4>2. ASSUME p < write
            PROVE  written'[p - 0 + 1] = written[Segment - event_dequeue + p + 1]
        <5>1. /\ p - 0 + 1 \in 1..(Len(written) - 1)
              /\ p - 0 + 1 + 1 = Segment - event_dequeue + p + 1
          BY <1>2, <1>t, <2>1, <2>2, <4>2 DEF EventsLapAhead
        <5> QED
          BY <1>2, <5>1
      <4> QED
        BY <1>8, <4>1, <4>2
    <3>3. 0 <= write /\ Len(written') = write - 0
      BY <1>2, <1>t, <2>1, <2>2 DEF EventsLapAhead
    <3>4. ASSUME NEW p \in Places PROVE ~(p < 0) /\ 0 <= p
      OBVIOUS
    <3>5. EventsOneLap'
      BY <1>3, <3>1, <3>2, <3>3, <3>4 DEF EventsOneLap
    <3> QED
      BY <1>3, <1>6, <3>1, <3>5 DEF EventsLie
  <2>3. CASE event_dequeue # Segment - 1
    <3>1. event_dequeue' = event_dequeue + 1 /\ event_ccs' = event_ccs
      BY <1>4, <1>5, <2>3
    <3>2. ASSUME NEW p \in Places
          PROVE  /\ p < write
                      => /\ evt[p].cycle = hpcs
                         /\ evt[p].rec = written'[Segment - (event_dequeue + 1) + p + 1]
                 /\ write <= p => evt[p].cycle = event_ccs
                 /\ event_dequeue + 1 <= p
                      => evt[p].rec = written'[p - (event_dequeue + 1) + 1]
      <4>1. /\ p < write
                 => evt[p].cycle = hpcs /\ evt[p].rec = written[Segment - event_dequeue + p + 1]
            /\ write <= p => evt[p].cycle = event_ccs
            /\ event_dequeue <= p => evt[p].rec = written[p - event_dequeue + 1]
        BY <2>1 DEF EventsLapAhead
      <4>2. ASSUME p < write
            PROVE  written'[Segment - (event_dequeue + 1) + p + 1]
                     = written[Segment - event_dequeue + p + 1]
        <5>1. /\ Segment - (event_dequeue + 1) + p + 1 \in 1..(Len(written) - 1)
              /\ Segment - (event_dequeue + 1) + p + 1 + 1 = Segment - event_dequeue + p + 1
          BY <1>2, <1>t, <2>1, <2>3, <4>2 DEF EventsLapAhead
        <5> QED
          BY <1>2, <5>1
      <4>3. ASSUME event_dequeue + 1 <= p
            PROVE  /\ event_dequeue <= p
                   /\ written'[p - (event_dequeue + 1) + 1] = written[p - event_dequeue + 1]
        <5>1. /\ p - (event_dequeue + 1) + 1 \in 1..(Len(written) - 1)
              /\ p - (event_dequeue + 1) + 1 + 1 = p - event_dequeue + 1
              /\ event_dequeue <= p
          BY <1>2, <1>t, <2>1, <2>3, <4>3 DEF EventsLapAhead
        <5> QED
          BY <1>2, <5>1
      <4> QED
        BY <4>1, <4>2, <4>3
    <3>3. /\ write < event_dequeue + 1
          /\ Len(written') = Segment - (event_dequeue + 1) + write
      BY <1>2, <1>t, <2>1 DEF EventsLapAhead
    <3>4. EventsLapAhead'
      BY <1>3, <3>1, <3>2, <3>3 DEF EventsLapAhead
    <3> QED
      BY <1>3, <1>6, <1>8, <3>1, <3>4 DEF EventsLie
  <2> QED
    BY <2>2, <2>3
<1> QED
  BY <1>7, <1>8

---------------------------------------------------------------------------
(* One ring is left alone by what happens on the other. *)
LEMMA RingNextIInv == RingIInv /\ [RingNext]_ringVars => RingIInv'
<1> SUFFICES ASSUME RingIInv, [RingNext]_ringVars PROVE RingIInv'
  OBVIOUS
<1>1. RequestTypes /\ RequestsLie /\ EventTypes /\ EventsLie
  BY DEF RingIInv
<1>2. ASSUME UNCHANGED eventRing PROVE EventTypes' /\ EventsLie'
  BY <1>1, <1>2 DEF eventRing, EventTypes, EventsLie, EventsOneLap, EventsLapAhead
<1>3. ASSUME UNCHANGED requestRing PROVE RequestTypes' /\ RequestsLie'
  BY <1>1, <1>3 DEF requestRing, RequestTypes, RequestsLie, OneLap, LapAhead
<1>4. ASSUME NEW r \in Records, Push(r) PROVE RingIInv'
  <2>1. UNCHANGED eventRing
    BY <1>4 DEF Push
  <2> QED
    BY <1>1, <1>2, <1>4, <2>1, PushStep DEF RingIInv
<1>5. CASE Fetch
  <2>1. UNCHANGED eventRing
    BY <1>5 DEF Fetch
  <2> QED
    BY <1>1, <1>2, <1>5, <2>1, FetchStep DEF RingIInv
<1>6. ASSUME NEW r \in Records, Write(r) PROVE RingIInv'
  <2>1. UNCHANGED requestRing
    BY <1>6 DEF Write
  <2> QED
    BY <1>1, <1>3, <1>6, <2>1, WriteStep DEF RingIInv
<1>7. CASE xhci_consume_record
  <2>1. UNCHANGED requestRing
    BY <1>7 DEF xhci_consume_record
  <2> QED
    BY <1>1, <1>3, <1>7, <2>1, ConsumeStep DEF RingIInv
<1>8. CASE UNCHANGED ringVars
  <2>1. UNCHANGED eventRing /\ UNCHANGED requestRing
    BY <1>8 DEF ringVars, eventRing, requestRing
  <2> QED
    BY <1>2, <1>3, <2>1 DEF RingIInv
<1> QED
  BY <1>4, <1>5, <1>6, <1>7, <1>8 DEF RingNext

(* On rings of any length, whatever they carry and however far either side *)
(* gets ahead, the controller fetches exactly what the driver pushed and   *)
(* the driver reads exactly what the controller wrote, in order: the cycle *)
(* bits of xhci.c are enough to tell the laps apart.                       *)
THEOREM RingsStayQueues == RingSpec => []RingsAreQueues
<1>1. RingIInv => RingsAreQueues
  BY NextIsHead, NextEventIsHead DEF RingIInv, RingsAreQueues, NextRequest
<1> QED
  BY <1>1, RingInitIInv, RingNextIInv, PTL DEF RingSpec

---------------------------------------------------------------------------
(* The boot.                                                               *)

Phases == {"off", "mount", "fallback", "unlock", "new", "existing", "hierarchy",
           "root", "esduman", "images", "userspace", "ready", "halted"}

\* The phases in which the disk that was found is in use, those after the choice of
\* the system's disk up to the first program, and those with the disk unlocked.
Attended == {"unlock", "new", "existing", "hierarchy", "root", "esduman", "images", "userspace"}
Chosen == Attended \ {"unlock"}
Unlocked == {"hierarchy", "root", "esduman", "images", "userspace", "ready"}

Slots == [pass : Passes \cup {Empty}, key : Nat]
Images == [kind : {"blank", "foreign", "ours"}, slot : Slots,
           names : SUBSET Names, right : SUBSET Names]

TypeOK ==
    /\ disks \in [Devs -> Images] /\ seen \in Images
    /\ root \in 0..NumDevs /\ booted \in 0..NumDevs
    /\ mounted \in BOOLEAN /\ formatted \in BOOLEAN
    /\ master \in Nat /\ keys \in Nat /\ tries \in Nat /\ phase \in Phases

\* Only a disk of this system has a key slot.
SlotsAreOurs == \A d \in Devs : disks[d].kind # "ours" => disks[d].slot = NoSlot

\* The mounted superblock has the key slot that is on the platter: every change of a
\* slot is flushed at once.
SlotIsFlushed ==
    mounted => /\ root \in Devs /\ disks[root].kind = "ours"
               /\ seen.kind = "ours" /\ seen.slot = disks[root].slot

\* How far the boot has come says what is mounted.
PhaseIsKept ==
    /\ phase = "mount" => root = 1
    /\ phase \in {"off", "mount", "fallback"} => ~mounted
    /\ phase = "fallback" => tries \in Devs
    /\ phase \in Attended => mounted
    /\ phase \in Chosen => booted = root
    /\ phase = "ready" /\ root # 0 => disks[root].kind = "ours"

\* The key in memory is the one in the slot of the disk the system was started from,
\* wherever that disk is now.
KeyOfTheBootDisk ==
    phase \in Unlocked /\ master # 0 => booted \in Devs /\ disks[booted].slot.key = master

BootInv ==
    /\ TypeOK /\ SlotsAreOurs /\ SlotIsFlushed /\ PhaseIsKept /\ KeyOfTheBootDisk
    /\ SystemIsInOrderBeforeUsers

-----------------------------------------------------------------------------
\* The images the boot path makes are images.
LEMMA ImageTypes ==
    /\ NoSlot \in Slots
    /\ Blank \in Images /\ Foreign \in Images /\ format_disk \in Images
    /\ Blank.slot = NoSlot /\ Foreign.slot = NoSlot /\ format_disk.slot = NoSlot
    /\ format_disk.kind = "ours" /\ Foreign.kind = "foreign"
<1>1. NoSlot \in Slots BY DEF NoSlot, Slots
<1> QED BY <1>1 DEF Blank, Foreign, format_disk, Image, Images

\* A flush, whole or torn by a power cut, leaves every disk with the slot it had.
LEMMA FlushKeepsSlots ==
    ASSUME BootInv
    PROVE  /\ bcache_flush \in [Devs -> Images]
           /\ \A d \in Devs : /\ bcache_flush[d].slot = disks[d].slot
                              /\ bcache_flush[d].kind # "ours" => bcache_flush[d].slot = NoSlot
                              /\ disks[d].kind = "ours" => bcache_flush[d].kind = "ours"
BY DEF BootInv, TypeOK, SlotIsFlushed, SlotsAreOurs, bcache_flush

(* A volume torn by a power cut keeps its key slot.                        *)
LEMMA TornKeepsSlots ==
    ASSUME BootInv, root # 0, NEW t \in Torn(root)
    PROVE  /\ t \in Images /\ t.slot = disks[root].slot
           /\ t.kind # "ours" => t.slot = NoSlot
<1>1. root \in Devs /\ disks[root] \in Images BY DEF BootInv, TypeOK, Devs
<1>2. CASE ~mounted
  BY <1>1, <1>2 DEF Torn, BootInv, SlotsAreOurs
<1>3. CASE mounted
  <2>1. PICK keep \in SUBSET Names :
          t = [seen EXCEPT !.names = (seen.names \ keep) \cup (disks[root].names \cap keep),
                           !.right = (seen.right \ keep) \cup (disks[root].right \cap keep)]
    BY <1>3, ZenonT(20) DEF Torn
  <2>2. seen \in Images BY DEF BootInv, TypeOK
  <2>3. /\ (seen.names \ keep) \cup (disks[root].names \cap keep) \in SUBSET Names
        /\ (seen.right \ keep) \cup (disks[root].right \cap keep) \in SUBSET Names
    BY <1>1, <2>2 DEF Images
  <2>4. t \in Images /\ t.slot = seen.slot /\ t.kind = seen.kind
    BY <2>1, <2>2, <2>3, ZenonT(20) DEF Images
  <2> QED BY <1>3, <2>4 DEF BootInv, SlotIsFlushed
<1> QED BY <1>2, <1>3 DEF BootInv, TypeOK

\* A machine that is off has forgotten everything but its disks.
LEMMA OffIsSound ==
    ASSUME BootInv, LoseMemory, phase' = "off", keys' = keys,
           disks' \in [Devs -> Images], SlotsAreOurs'
    PROVE  BootInv'
<1>1. 0 \in 0..NumDevs BY BootAssumption
<1>2. seen' \in Images /\ phase' \in Phases BY ImageTypes DEF LoseMemory, Phases
<1>3. TypeOK' BY <1>1, <1>2, ZenonT(20) DEF TypeOK, LoseMemory, BootInv
<1> QED BY <1>3 DEF BootInv, LoseMemory, SlotIsFlushed, PhaseIsKept, KeyOfTheBootDisk,
                    Attended, Chosen, Unlocked, SystemIsInOrderBeforeUsers

(* The invariant holds before the first boot.                              *)
LEMMA InitBoot == BootInit => BootInv
<1> SUFFICES ASSUME BootInit PROVE BootInv
  OBVIOUS
<1>1. Disks \subseteq Images
  <2>1. ASSUME NEW p \in Passes
        PROVE  Image("ours", keyslot_create(p, 1), SysNames, SysNames) \in Images
    BY DEF Image, keyslot_create, Images, Slots, Names
  <2> QED BY <2>1, ImageTypes DEF Disks
<1>2. \A i \in Disks : i.kind # "ours" => i.slot = NoSlot
  BY DEF Disks, Blank, Foreign, Image
<1>3. disks \in [Devs -> Images] BY <1>1 DEF BootInit
<1>4. SlotsAreOurs BY <1>2 DEF BootInit, SlotsAreOurs
<1>5. root \in 0..NumDevs /\ booted \in 0..NumDevs BY BootAssumption DEF BootInit
<1>6. seen \in Images /\ phase \in Phases BY ImageTypes DEF BootInit, Phases
<1>7. TypeOK BY <1>3, <1>5, <1>6, ZenonT(20) DEF BootInit, TypeOK
<1> QED BY <1>4, <1>7
        DEF BootInit, BootInv, SlotIsFlushed, PhaseIsKept, KeyOfTheBootDisk, Attended, Chosen,
            Unlocked, SystemIsInOrderBeforeUsers

-----------------------------------------------------------------------------
\* init_fs takes no slot away, and what it mounts is a disk of this system.
LEMMA InitFsKeepsSlots ==
    ASSUME BootInv, NEW d \in Devs, NEW f, init_fs(d, f)
    PROVE  /\ disks' \in [Devs -> Images] /\ seen' \in Images
           /\ root' = d /\ mounted' \in BOOLEAN /\ formatted' \in BOOLEAN
           /\ \A e \in Devs : disks'[e].slot = disks[e].slot
           /\ SlotsAreOurs' /\ SlotIsFlushed'
<1>1. disks \in [Devs -> Images] BY DEF BootInv, TypeOK
<1>2. ASSUME NEW e \in Devs
      PROVE  disks'[e].slot = disks[e].slot /\ (disks'[e].kind # "ours" => disks'[e].slot = NoSlot)
  BY <1>1, ImageTypes DEF BootInv, SlotsAreOurs, init_fs, Formats
<1>3. disks' \in [Devs -> Images] BY <1>1, ImageTypes DEF init_fs
<1>4. ASSUME Mounts(d, f) PROVE disks'[d].kind = "ours"
  BY <1>1, <1>4, ImageTypes DEF init_fs, Formats, Mounts, Images
<1>5. seen' \in Images BY <1>3, ImageTypes DEF init_fs
<1>6. SlotIsFlushed' BY <1>4 DEF init_fs, SlotIsFlushed
<1>7. mounted' \in BOOLEAN /\ formatted' \in BOOLEAN
  BY DEF init_fs, Mounts, BootInv, TypeOK
<1> QED BY <1>2, <1>3, <1>5, <1>6, <1>7 DEF SlotsAreOurs, init_fs

(* Every step of the boot keeps the invariant.                             *)
LEMMA StartingKeepsBoot == BootInv /\ Starting => BootInv'
<1> SUFFICES ASSUME BootInv, Starting PROVE BootInv'
  OBVIOUS
<1> USE DEF BootInv, SlotIsFlushed, PhaseIsKept, KeyOfTheBootDisk,
            Attended, Chosen, Unlocked, SystemIsInOrderBeforeUsers
<1>1. CASE PowerOn
  <2>1. /\ phase = "off" /\ phase' = "mount" /\ root' = 1
        /\ UNCHANGED <<disks, mounted, seen, formatted, master, tries, booted, keys>>
    BY <1>1 DEF PowerOn
  <2>2. TypeOK' BY <2>1, BootAssumption DEF TypeOK, Phases
  <2>3. SlotsAreOurs' BY <2>1 DEF SlotsAreOurs
  <2> QED BY <2>1, <2>2, <2>3
<1>2. ASSUME NEW f \in Faults, MountRoot(f) PROVE BootInv'
  <2>1. root \in Devs BY <1>2, BootAssumption DEF MountRoot, Devs
  <2>2. phase' \in {"unlock", "fallback", "halted"} /\ (phase' = "unlock" <=> mounted')
    BY <1>2 DEF MountRoot, init_fs
  <2>3. phase' = "fallback" => tries' \in Devs
    <3>1. phase' = "fallback" => NumDevs > 1 BY <1>2 DEF MountRoot
    <3>2. tries' = 2 BY <1>2 DEF MountRoot
    <3> QED BY <3>1, <3>2, BootAssumption DEF Devs
  <2>4. TypeOK'
    BY <1>2, <2>1, <2>2, InitFsKeepsSlots DEF MountRoot, TypeOK, Phases, Devs
  <2>5. init_fs(root, f) BY <1>2 DEF MountRoot
  <2> QED BY <2>1, <2>2, <2>3, <2>4, <2>5, InitFsKeepsSlots
<1>3. ASSUME NEW f \in Faults, TryOther(f) PROVE BootInv'
  <2>1. tries \in Devs /\ ~mounted BY <1>3, ZenonT(20) DEF TryOther
  <2>2. CASE Mounts(tries, f) \/ tries < NumDevs
    <3>1. init_fs(tries, f) BY <1>3, <2>2 DEF TryOther
    <3>2. phase' \in {"unlock", "fallback"} /\ (phase' = "unlock" <=> mounted')
      BY <1>3, <2>2 DEF TryOther, init_fs
    <3>3. phase' = "fallback" => tries' \in Devs
      <4>1. phase' = "fallback" => tries < NumDevs BY <1>3, <2>2 DEF TryOther
      <4>2. tries' = tries + 1 BY <1>3 DEF TryOther
      <4> QED BY <2>1, <4>1, <4>2, BootAssumption DEF Devs
    <3>4. TypeOK'
      <4>1. /\ tries' = tries + 1 /\ UNCHANGED <<master, keys, booted>>
        BY <1>3, ZenonT(20) DEF TryOther
      <4>2. tries \in 0..NumDevs /\ tries + 1 \in Nat BY <2>1, BootAssumption DEF TypeOK, Devs
      <4>3. phase' \in Phases BY <3>2 DEF Phases
      <4> QED BY <2>1, <3>1, <4>1, <4>2, <4>3, InitFsKeepsSlots DEF TypeOK
    <3> QED BY <2>1, <3>1, <3>2, <3>3, <3>4, InitFsKeepsSlots
  <2>3. CASE ~(Mounts(tries, f) \/ tries < NumDevs)
    <3>1. /\ root' = 1 /\ phase' = "halted" /\ tries' = tries + 1
          /\ disks' = IF Formats(tries, f) THEN [disks EXCEPT ![tries] = format_disk] ELSE disks
          /\ formatted' = (formatted \/ Formats(tries, f))
          /\ UNCHANGED <<mounted, seen, master, booted, keys>>
      BY <1>3, <2>3, ZenonT(20) DEF TryOther
    <3>2. SlotsAreOurs' BY <2>1, <3>1, ImageTypes DEF SlotsAreOurs, TypeOK
    <3>3. disks' \in [Devs -> Images] BY <3>1, ImageTypes, ZenonT(20) DEF TypeOK
    <3>4. TypeOK' BY <3>1, <3>3, BootAssumption DEF TypeOK, Phases, Formats
    <3> QED BY <2>1, <3>1, <3>2, <3>4
  <2> QED BY <2>2, <2>3
<1>4. CASE unlock_disk_key
  BY <1>4 DEF unlock_disk_key, UnlockChoice, TypeOK, SlotsAreOurs, Phases
<1>5. ASSUME NEW p \in Passes \cup {Empty}, NEW q \in Passes \cup {Empty},
             prompt_new_disk_passphrase(p, q)
      PROVE  BootInv'
  <2>1. mounted /\ booted = root /\ root \in Devs BY <1>5 DEF prompt_new_disk_passphrase
  <2>2. CASE p = q /\ p # Empty
    <3> DEFINE s == [seen EXCEPT !.slot = keyslot_create(p, keys + 1)]
    <3>1. /\ keys' = keys + 1 /\ seen' = s /\ disks' = [disks EXCEPT ![root] = s]
          /\ master' = keys + 1 /\ phase' = "hierarchy" /\ tries' = tries + 1
          /\ UNCHANGED <<root, mounted, formatted, booted>>
      BY <1>5, <2>2 DEF prompt_new_disk_passphrase, fs_keyslot_install
    <3>2. keyslot_create(p, keys + 1) \in Slots /\ keyslot_create(p, keys + 1).key = keys + 1
      BY DEF keyslot_create, Slots, TypeOK
    <3>3. s \in Images /\ s.slot.key = keys + 1 /\ s.kind = "ours"
      BY <2>1, <3>2 DEF TypeOK, Images
    <3> HIDE DEF s
    <3>4. disks' \in [Devs -> Images] /\ disks'[root] = s BY <2>1, <3>1, <3>3 DEF TypeOK
    <3>5. SlotsAreOurs' BY <2>1, <3>1, <3>3 DEF SlotsAreOurs, TypeOK
    <3>6. TypeOK' BY <3>1, <3>3, <3>4 DEF TypeOK, Phases
    <3> QED BY <2>1, <3>1, <3>3, <3>4, <3>5, <3>6
  <2>3. CASE ~(p = q /\ p # Empty)
    <3>1. /\ phase' \in {"halted", "new"} /\ tries' = tries + 1
          /\ UNCHANGED <<disks, seen, master, keys, root, mounted, formatted, booted>>
      BY <1>5, <2>3 DEF prompt_new_disk_passphrase, GiveUp
    <3>2. SlotsAreOurs' BY <3>1 DEF SlotsAreOurs
    <3>3. TypeOK' BY <3>1 DEF TypeOK, Phases
    <3> QED BY <2>1, <3>1, <3>2, <3>3
  <2> QED BY <2>2, <2>3
<1>6. ASSUME NEW p \in Passes \cup {Empty}, prompt_existing_disk_passphrase(p) PROVE BootInv'
  <2>1. mounted /\ booted = root /\ root \in Devs /\ seen.slot = disks[root].slot
    BY <1>6 DEF prompt_existing_disk_passphrase
  <2>2. /\ tries' = tries + 1
        /\ UNCHANGED <<disks, seen, keys, root, mounted, formatted, booted>>
        /\ \/ phase' = "hierarchy" /\ master' = seen.slot.key
           \/ phase' \in {"existing", "halted"} /\ master' = master
    BY <1>6 DEF prompt_existing_disk_passphrase, keyslot_unwrap, fs_keyslot_unlock, GiveUp
  <2>3. seen.slot.key \in Nat BY DEF TypeOK, Images, Slots
  <2>4. TypeOK' BY <2>2, <2>3 DEF TypeOK, Phases
  <2>5. SlotsAreOurs' BY <2>2 DEF SlotsAreOurs
  <2> QED BY <2>1, <2>2, <2>4, <2>5
<1>7. CASE Hierarchy
  <2>1. /\ tries' = 0 /\ phase' \in {"images", "root"} /\ phase = "hierarchy"
        /\ UNCHANGED <<disks, root, mounted, formatted, master, booted, keys>>
    BY <1>7 DEF Hierarchy
  <2>2. seen' \in Images /\ seen'.slot = seen.slot /\ seen'.kind = seen.kind
    <3>1. seen \in Images /\ "bin" \in Names BY DEF TypeOK, Names, SysNames
    <3>2. \/ seen' = seen
          \/ seen' = [seen EXCEPT !.names = @ \cup {"bin"}, !.right = @ \cup {"bin"}]
      BY <1>7 DEF Hierarchy
    <3>3. seen.names \cup {"bin"} \in SUBSET Names /\ seen.right \cup {"bin"} \in SUBSET Names
      BY <3>1 DEF Images
    <3> QED BY <3>1, <3>2, <3>3, ZenonT(20) DEF Images
  <2>3. TypeOK' BY <2>1, <2>2 DEF TypeOK, Phases
  <2>4. SlotsAreOurs' BY <2>1 DEF SlotsAreOurs
  <2> QED BY <2>1, <2>2, <2>3, <2>4
<1>8. ASSUME NEW ok \in BOOLEAN, first_boot_setup(ok) PROVE BootInv'
  <2>1. /\ tries' \in Nat /\ phase' \in {"root", "esduman", "images", "halted"}
        /\ phase \in {"root", "esduman"}
        /\ UNCHANGED <<disks, root, mounted, formatted, master, booted, keys>>
    BY <1>8 DEF first_boot_setup, GiveUp, TypeOK
  <2>2. seen' \in Images /\ seen'.slot = seen.slot /\ seen'.kind = seen.kind
    BY <1>8 DEF first_boot_setup, TypeOK, Images, Names, SysNames
  <2>3. TypeOK' BY <2>1, <2>2 DEF TypeOK, Phases
  <2>4. SlotsAreOurs' BY <2>1 DEF SlotsAreOurs
  <2> QED BY <2>1, <2>2, <2>3, <2>4
<1>9. CASE init_filesystem_and_vfs
  <2>1. /\ phase' = "userspace" /\ phase = "images" /\ seen' = FinishFileSystem(seen)
        /\ UNCHANGED <<disks, root, mounted, formatted, master, tries, booted, keys>>
    BY <1>9 DEF init_filesystem_and_vfs
  <2>2. /\ seen' \in Images /\ seen'.slot = seen.slot /\ seen'.kind = seen.kind
        /\ seen'.names \subseteq seen'.right
    BY <2>1, ZenonT(20) DEF FinishFileSystem, apply_system_modes, InstallImages, CleanTmp, TypeOK,
                Images, Names, SysNames
  <2>3. TypeOK' BY <2>1, <2>2 DEF TypeOK, Phases
  <2>4. SlotsAreOurs' BY <2>1 DEF SlotsAreOurs
  <2> QED BY <2>1, <2>2, <2>3, <2>4
<1>10. CASE init_userspace
  <2>1. /\ phase' = "ready" /\ phase = "userspace"
        /\ UNCHANGED <<disks, seen, root, mounted, formatted, master, tries, booted, keys>>
    BY <1>10, ZenonT(20) DEF init_userspace, Memory
  <2>2. TypeOK' BY <2>1 DEF TypeOK, Phases
  <2>3. SlotsAreOurs' BY <2>1 DEF SlotsAreOurs
  <2> QED BY <2>1, <2>2, <2>3
<1> QED BY <1>1, <1>2, <1>3, <1>4, <1>5, <1>6, <1>7, <1>8, <1>9, <1>10, ZenonT(20) DEF Starting

\* A running system: the disks keep their slots, so it is enough to look at the key
\* in memory, which only lockdown takes away.
LEMMA RunningKeepsBoot == BootInv /\ Running => BootInv'
<1> SUFFICES ASSUME BootInv, Running PROVE BootInv'
  OBVIOUS
<1> USE DEF BootInv, SlotIsFlushed, PhaseIsKept, KeyOfTheBootDisk,
            Attended, Chosen, Unlocked, SystemIsInOrderBeforeUsers
<1>1. ASSUME NEW o \in BOOLEAN, SetOpen(o) PROVE BootInv'
  BY <1>1 DEF SetOpen, TypeOK, SlotsAreOurs
<1>2. ASSUME NEW names \in SUBSET Names, NEW right \in SUBSET Names, Change(names, right)
      PROVE  BootInv'
  <2>1. seen' \in Images /\ seen'.slot = seen.slot /\ seen'.kind = seen.kind
    BY <1>2, ZenonT(20) DEF Change, TypeOK, Images
  <2>2. /\ phase = "ready"
        /\ UNCHANGED <<disks, root, mounted, formatted, master, phase, tries, booted, keys>>
    BY <1>2 DEF Change
  <2>3. TypeOK' BY <2>1, <2>2 DEF TypeOK
  <2>4. SlotsAreOurs' BY <2>2 DEF SlotsAreOurs
  <2> QED BY <2>1, <2>2, <2>3, <2>4
<1>3. CASE UseFiles
  <2>1. seen.names \in SUBSET Names /\ seen.right \in SUBSET Names /\ "tmpfile" \in Names
    BY DEF TypeOK, Images, Names
  <2>2. CASE Change(seen.names \cup {"tmpfile"}, seen.right)
    <3>1. seen.names \cup {"tmpfile"} \in SUBSET Names BY <2>1
    <3> QED BY <1>2, <2>1, <2>2, <3>1, ZenonT(20)
  <2>3. ASSUME NEW n \in seen.names \cap SysNames, Change(seen.names, seen.right \ {n})
        PROVE  BootInv'
    <3>1. seen.right \ {n} \in SUBSET Names BY <2>1
    <3> QED BY <1>2, <2>1, <2>3, <3>1, ZenonT(20)
  <2> QED BY <1>3, <2>2, <2>3, ZenonT(20) DEF UseFiles
<1>4. ASSUME NEW d \in Devs, NEW f \in Faults, NEW g \in Faults, sys_mount(d, f, g)
      PROVE  BootInv'
  <2> DEFINE now == bcache_flush
             formats == f # "early" /\ now[d].kind = "blank"
             moves == f = "none" /\ now[d].kind # "foreign"
             left == IF formats THEN [now EXCEPT ![d] = format_disk] ELSE now
             back == root # 0 /\ g = "none"
  <2>1. /\ phase = "ready" /\ disks' = left /\ formatted' = (formatted \/ formats)
        /\ root' = IF moves THEN d ELSE root
        /\ mounted' = (moves \/ back)
        /\ seen' = CASE moves -> left[d] [] ~moves /\ back -> left[root] [] OTHER -> Blank
        /\ UNCHANGED <<master, phase, tries, booted, keys>>
    BY <1>4 DEF sys_mount
  <2>2. /\ now \in [Devs -> Images]
        /\ \A e \in Devs : /\ now[e].slot = disks[e].slot
                           /\ now[e].kind # "ours" => now[e].slot = NoSlot
                           /\ disks[e].kind = "ours" => now[e].kind = "ours"
    BY FlushKeepsSlots
  <2> HIDE DEF now
  <2>3. /\ left \in [Devs -> Images]
        /\ \A e \in Devs : /\ left[e].slot = disks[e].slot
                           /\ left[e].kind # "ours" => left[e].slot = NoSlot
                           /\ disks[e].kind = "ours" => left[e].kind = "ours"
    BY <2>2, ImageTypes
  <2>4. moves => left[d].kind = "ours" BY <2>2, ImageTypes DEF Images
  <2>5. root # 0 => root \in Devs /\ left[root].kind = "ours"
    BY <2>1, <2>3 DEF TypeOK, Devs
  <2> HIDE DEF left
  <2>6. seen' \in Images BY <2>1, <2>3, <2>5, ImageTypes
  <2>7. TypeOK' BY <2>1, <2>3, <2>6 DEF TypeOK, Devs
  <2>8. SlotsAreOurs' BY <2>1, <2>3 DEF SlotsAreOurs
  <2>9. SlotIsFlushed' /\ (root' # 0 => disks'[root'].kind = "ours") BY <2>1, <2>3, <2>4, <2>5, ZenonT(20)
  <2> HIDE DEF moves, back
  <2> QED BY <2>1, <2>3, <2>7, <2>8, <2>9
<1>5. CASE sys_umount
  <2>1. /\ phase = "ready" /\ disks' = bcache_flush /\ root' = 0 /\ mounted' = FALSE
        /\ seen' = Blank /\ UNCHANGED <<formatted, master, phase, tries, booted, keys>>
    BY <1>5, ZenonT(20) DEF sys_umount
  <2>2. TypeOK'
    <3>1. disks' \in [Devs -> Images] /\ seen' \in Images BY <2>1, FlushKeepsSlots, ImageTypes
    <3>2. 0 \in 0..NumDevs BY BootAssumption
    <3> QED BY <2>1, <3>1, <3>2, ZenonT(20) DEF TypeOK
  <2>3. SlotsAreOurs' BY <2>1, FlushKeepsSlots DEF SlotsAreOurs
  <2> QED BY <2>1, <2>2, <2>3, FlushKeepsSlots
<1>6. ASSUME NEW p \in Passes \cup {Empty}, NEW q \in Passes \cup {Empty}, sys_setkey(p, q)
      PROVE  BootInv'
  <2>1. /\ phase = "ready" /\ mounted /\ seen' = fs_keyslot_rewrap(q)
        /\ disks' = [disks EXCEPT ![root] = seen']
        /\ UNCHANGED <<root, mounted, formatted, master, phase, tries, booted, keys>>
    BY <1>6 DEF sys_setkey
  <2>2. keyslot_create(q, seen.slot.key) \in Slots
        /\ keyslot_create(q, seen.slot.key).key = seen.slot.key
    BY DEF keyslot_create, Slots, TypeOK, Images
  <2>3. seen' \in Images /\ seen'.slot.key = seen.slot.key /\ seen'.kind = "ours"
    BY <2>1, <2>2 DEF fs_keyslot_rewrap, TypeOK, Images
  <2>4. disks' \in [Devs -> Images] /\ disks'[root] = seen' /\ root \in Devs
    BY <2>1, <2>3 DEF TypeOK
  <2>5. \A d \in Devs : disks'[d].slot.key = disks[d].slot.key
    BY <2>1, <2>3, <2>4 DEF TypeOK
  <2>6. TypeOK' BY <2>1, <2>3, <2>4 DEF TypeOK
  <2>7. SlotsAreOurs' BY <2>1, <2>3, <2>4 DEF SlotsAreOurs, TypeOK
  <2> QED BY <2>1, <2>3, <2>4, <2>5, <2>6, <2>7
<1>7. ASSUME NEW l \in CRYPTO_ENFORCED..IMMUTABLE, set_security_level(l) PROVE BootInv'
  <2>1. /\ phase = "ready" /\ master' \in {0, master}
        /\ UNCHANGED <<disks, root, mounted, seen, formatted, phase, tries, booted, keys>>
    BY <1>7 DEF set_security_level
  <2>2. TypeOK' BY <2>1 DEF TypeOK
  <2>3. SlotsAreOurs' BY <2>1 DEF SlotsAreOurs
  <2> QED BY <2>1, <2>2, <2>3
<1>8. CASE sys_lockdown
  <2>1. LOCKDOWN \in CRYPTO_ENFORCED..IMMUTABLE BY DEF LOCKDOWN, CRYPTO_ENFORCED, IMMUTABLE
  <2> QED BY <1>7, <1>8, <2>1 DEF sys_lockdown
<1>9. CASE sys_sync
  <2>1. /\ phase = "ready" /\ disks' = bcache_flush
        /\ UNCHANGED <<root, mounted, seen, formatted, master, phase, tries, booted, keys>>
    BY <1>9, ZenonT(20) DEF sys_sync, Memory
  <2>2. TypeOK' BY <2>1, FlushKeepsSlots DEF TypeOK
  <2>3. SlotsAreOurs' BY <2>1, FlushKeepsSlots, ZenonT(20) DEF SlotsAreOurs
  <2>4. \A d \in Devs : disks'[d].slot = disks[d].slot BY <2>1, FlushKeepsSlots, ZenonT(20)
  <2>5. root # 0 => root \in Devs BY DEF TypeOK, Devs
  <2>6. root # 0 => disks'[root].kind = "ours" BY <2>1, <2>5 DEF bcache_flush, TypeOK
  <2>7. SlotIsFlushed' BY <2>1, <2>6 DEF bcache_flush
  <2>8. PhaseIsKept' BY <2>1, <2>6
  <2>9. KeyOfTheBootDisk' BY <2>1, <2>4
  <2> QED BY <2>1, <2>2, <2>3, <2>7, <2>8, <2>9
<1>10. CASE Shutdown
  <2>1. /\ phase' = "off" /\ disks' = bcache_flush /\ LoseMemory /\ UNCHANGED keys
    BY <1>10, ZenonT(20) DEF Shutdown
  <2>2. disks' \in [Devs -> Images] BY <2>1, FlushKeepsSlots
  <2>3. SlotsAreOurs' BY <2>1, FlushKeepsSlots DEF SlotsAreOurs
  <2> QED BY <2>1, <2>2, <2>3, OffIsSound, ZenonT(20)
<1> QED BY <1>1, <1>3, <1>4, <1>5, <1>6, <1>7, <1>8, <1>9, <1>10, ZenonT(20) DEF Running

(* A power cut keeps it, in the middle of formatting too.                  *)
LEMMA PowerCutKeepsBoot ==
    BootInv /\ (PowerCut \/ \E d \in Devs : PowerCutWhileFormatting(d)) => BootInv'
<1> SUFFICES ASSUME BootInv, PowerCut \/ \E d \in Devs : PowerCutWhileFormatting(d)
             PROVE  BootInv'
  OBVIOUS
<1>1. CASE PowerCut
  <2>1. phase' = "off" /\ LoseMemory /\ keys' = keys BY <1>1 DEF PowerCut
  <2>2. disks' \in [Devs -> Images] /\ SlotsAreOurs'
    <3>1. disks \in [Devs -> Images] /\ SlotsAreOurs BY DEF BootInv, TypeOK
    <3>2. CASE root = 0
      BY <1>1, <3>1, <3>2 DEF PowerCut, SlotsAreOurs
    <3>3. CASE root # 0
      <4>1. PICK t \in Torn(root) : disks' = [disks EXCEPT ![root] = t]
        BY <1>1, <3>3, ZenonT(20) DEF PowerCut
      <4>2. t \in Images /\ (t.kind # "ours" => t.slot = NoSlot) BY <3>3, TornKeepsSlots
      <4> QED BY <3>1, <4>1, <4>2, ZenonT(20) DEF SlotsAreOurs
    <3> QED BY <3>2, <3>3
  <2> QED BY <2>1, <2>2, OffIsSound
<1>2. ASSUME NEW d \in Devs, PowerCutWhileFormatting(d) PROVE BootInv'
  <2>1. /\ phase' = "off" /\ LoseMemory /\ keys' = keys
        /\ disks' = [disks EXCEPT ![d] = Foreign]
    BY <1>2 DEF PowerCutWhileFormatting
  <2>2. disks' \in [Devs -> Images] /\ SlotsAreOurs'
    BY <2>1, ImageTypes DEF BootInv, TypeOK, SlotsAreOurs
  <2> QED BY <2>1, <2>2, OffIsSound
<1> QED BY <1>1, <1>2

\* The inductive invariant of the boot path and of the calls that change disks.
THEOREM BootStaysSound == BootSpec => []BootInv
<1>1. BootInv /\ [BootNext]_bootVars => BootInv'
  <2> SUFFICES ASSUME BootInv, [BootNext]_bootVars PROVE BootInv'
    OBVIOUS
  <2>1. CASE UNCHANGED bootVars
    BY <2>1 DEF bootVars, BootInv, TypeOK, SlotsAreOurs, SlotIsFlushed, PhaseIsKept,
                KeyOfTheBootDisk, SystemIsInOrderBeforeUsers
  <2> QED BY <2>1, StartingKeepsBoot, RunningKeepsBoot, PowerCutKeepsBoot DEF BootNext
<1> QED BY <1>1, InitBoot, PTL DEF BootSpec

\* While the disk the system was started from is the root, the key in memory is the
\* one its slot wraps, for any number of disks, users' passphrases, failing reads,
\* mounts, changes of passphrase and power cuts (unlock_disk_key, sys_mount).
THEOREM RunningKeyOpensTheBootDisk == BootSpec => []BootDiskOpensWithTheRunningKey
<1>1. BootInv => BootDiskOpensWithTheRunningKey
  BY DEF BootInv, BootDiskOpensWithTheRunningKey, KeyOfTheBootDisk, SlotIsFlushed, Unlocked
<1> QED BY <1>1, BootStaysSound, PTL

\* When the first program starts, every system path has the mode it must have and
\* /tmp is empty, whatever earlier boots left (init_filesystem_and_vfs).
THEOREM UsersFindTheSystemInOrder == BootSpec => []SystemIsInOrderBeforeUsers
<1>1. BootInv => SystemIsInOrderBeforeUsers BY DEF BootInv
<1> QED BY <1>1, BootStaysSound, PTL

-----------------------------------------------------------------------------
\* The slot of a disk that is mounted by the boot that formatted it is still empty.
FreshDiskHasNoSlot ==
    /\ phase \in {"off", "mount", "fallback"} => ~formatted
    /\ phase = "unlock" /\ formatted => seen.slot = NoSlot
    /\ phase = "new" => seen.slot = NoSlot

(* Before the first boot no disk has just been formatted.                  *)
LEMMA InitFresh == BootInit => FreshDiskHasNoSlot
BY DEF BootInit, FreshDiskHasNoSlot

\* Here a read that fails after a format matters: it would leave fs_was_formatted set
\* for the disk that is tried next.
LEMMA StepFresh ==
    ASSUME "late" \notin Faults
    PROVE  BootInv /\ FreshDiskHasNoSlot /\ [BootNext]_bootVars => FreshDiskHasNoSlot'
<1> SUFFICES ASSUME BootInv, FreshDiskHasNoSlot, [BootNext]_bootVars PROVE FreshDiskHasNoSlot'
  OBVIOUS
<1> USE DEF FreshDiskHasNoSlot
<1>1. CASE UNCHANGED bootVars BY <1>1 DEF bootVars
<1>2. CASE Starting
  <2>1. CASE PowerOn BY <2>1 DEF PowerOn
  <2>2. ASSUME NEW f \in Faults, NEW d \in Devs, init_fs(d, f), ~formatted
        PROVE  /\ formatted' => seen'.slot = NoSlot
               /\ ~mounted' => ~formatted'
    <3>1. f \in {"none", "early"} BY BootAssumption
    <3>2. disks \in [Devs -> Images] BY DEF BootInv, TypeOK
    <3> QED BY <2>2, <3>1, <3>2, ImageTypes, ZenonT(20) DEF init_fs, Formats, Mounts
  <2>3. ASSUME NEW f \in Faults, MountRoot(f) PROVE FreshDiskHasNoSlot'
    <3>1. root \in Devs /\ init_fs(root, f) /\ ~formatted
      BY <2>3, BootAssumption DEF MountRoot, BootInv, PhaseIsKept, Devs
    <3>2. phase' \in {"unlock", "fallback", "halted"} /\ (phase' = "unlock" <=> mounted')
      BY <2>3 DEF MountRoot, init_fs
    <3> QED BY <2>2, <3>1, <3>2
  <2>4. ASSUME NEW f \in Faults, TryOther(f) PROVE FreshDiskHasNoSlot'
    <3>1. tries \in Devs /\ ~formatted BY <2>4 DEF TryOther, BootInv, PhaseIsKept
    <3>2. CASE phase' = "halted" BY <3>2
    <3>3. CASE phase' # "halted"
      <4>1. init_fs(tries, f) /\ phase' \in {"unlock", "fallback"} /\ (phase' = "unlock" <=> mounted')
        BY <2>4, <3>3 DEF TryOther, init_fs
      <4> QED BY <2>2, <3>1, <4>1
    <3> QED BY <3>2, <3>3
  <2>5. CASE unlock_disk_key BY <2>5 DEF unlock_disk_key, UnlockChoice
  <2>6. ASSUME NEW p, NEW q, prompt_new_disk_passphrase(p, q) PROVE FreshDiskHasNoSlot'
    BY <2>6 DEF prompt_new_disk_passphrase, GiveUp
  <2>7. ASSUME NEW p, prompt_existing_disk_passphrase(p) PROVE FreshDiskHasNoSlot'
    BY <2>7 DEF prompt_existing_disk_passphrase, GiveUp, keyslot_unwrap
  <2>8. CASE Hierarchy BY <2>8 DEF Hierarchy
  <2>9. ASSUME NEW ok \in BOOLEAN, first_boot_setup(ok) PROVE FreshDiskHasNoSlot'
    BY <2>9 DEF first_boot_setup, GiveUp
  <2>10. CASE init_filesystem_and_vfs BY <2>10 DEF init_filesystem_and_vfs
  <2>11. CASE init_userspace BY <2>11 DEF init_userspace
  <2> QED BY <1>2, <2>1, <2>3, <2>4, <2>5, <2>6, <2>7, <2>8, <2>9, <2>10, <2>11, ZenonT(20) DEF Starting
<1>3. CASE Running
  BY <1>3, ZenonT(20) DEF Running, SetOpen, UseFiles, Change, sys_mount, sys_umount, sys_setkey,
              set_security_level, sys_lockdown, sys_sync, Shutdown, LoseMemory
<1>4. CASE PowerCut BY <1>4 DEF PowerCut, LoseMemory
<1>5. CASE \E d \in Devs : PowerCutWhileFormatting(d)
  BY <1>5 DEF PowerCutWhileFormatting, LoseMemory
<1> QED BY <1>1, <1>2, <1>3, <1>4, <1>5, ZenonT(20) DEF BootNext

\* No step gives a disk that has a slot another data key.
KeysAreKept == \A d \in Devs : disks[d].slot # NoSlot => disks'[d].slot.key = disks[d].slot.key

(* No step makes a slot wrap another key.                                  *)
LEMMA StepKeepsKeys == BootInv /\ FreshDiskHasNoSlot /\ [BootNext]_bootVars => KeysAreKept
<1> SUFFICES ASSUME BootInv, FreshDiskHasNoSlot, [BootNext]_bootVars PROVE KeysAreKept
  OBVIOUS
<1>1. ASSUME \A d \in Devs : disks'[d].slot = disks[d].slot PROVE KeysAreKept
  BY <1>1 DEF KeysAreKept
<1>2. CASE disks' = disks BY <1>1, <1>2
<1>3. CASE disks' = bcache_flush BY <1>1, <1>3, FlushKeepsSlots
<1>4. ASSUME NEW f \in Faults, MountRoot(f) PROVE KeysAreKept
  <2>1. root \in Devs /\ init_fs(root, f)
    BY <1>4, BootAssumption DEF MountRoot, BootInv, PhaseIsKept, Devs
  <2> QED BY <1>1, <2>1, InitFsKeepsSlots
<1>5. ASSUME NEW f \in Faults, TryOther(f) PROVE KeysAreKept
  <2>1. tries \in Devs BY <1>5 DEF TryOther, BootInv, PhaseIsKept
  <2>2. disks' = IF Formats(tries, f) THEN [disks EXCEPT ![tries] = format_disk] ELSE disks
    BY <1>5 DEF TryOther, init_fs
  <2>3. \A d \in Devs : disks'[d].slot = disks[d].slot
    BY <2>1, <2>2, ImageTypes DEF Formats, BootInv, TypeOK, SlotsAreOurs
  <2> QED BY <1>1, <2>3
<1>6. ASSUME NEW p, NEW q, prompt_new_disk_passphrase(p, q) PROVE KeysAreKept
  <2>1. root \in Devs /\ disks[root].slot = NoSlot
    BY <1>6 DEF prompt_new_disk_passphrase, BootInv, PhaseIsKept, Attended, SlotIsFlushed,
                FreshDiskHasNoSlot
  <2>2. \A d \in Devs : d # root => disks'[d] = disks[d]
    BY <1>6 DEF prompt_new_disk_passphrase, fs_keyslot_install, BootInv, TypeOK
  <2> QED BY <2>1, <2>2, ZenonT(20) DEF KeysAreKept
<1>7. ASSUME NEW d \in Devs, NEW f, NEW g, sys_mount(d, f, g) PROVE KeysAreKept
  <2>1. \/ disks' = bcache_flush
        \/ bcache_flush[d].kind = "blank" /\ disks' = [bcache_flush EXCEPT ![d] = format_disk]
    BY <1>7 DEF sys_mount
  <2>2. \A e \in Devs : disks'[e].slot = disks[e].slot
    BY <2>1, FlushKeepsSlots, ImageTypes
  <2> QED BY <1>1, <2>2
<1>8. ASSUME NEW p, NEW q, sys_setkey(p, q) PROVE KeysAreKept
  <2>1. root \in Devs /\ seen \in Images /\ seen.slot = disks[root].slot
    BY <1>8 DEF sys_setkey, BootInv, SlotIsFlushed, TypeOK
  <2>2. seen'.slot.key = seen.slot.key
    BY <1>8, <2>1 DEF sys_setkey, fs_keyslot_rewrap, keyslot_create, Images, Slots
  <2>3. \A d \in Devs : disks'[d] = IF d = root THEN seen' ELSE disks[d]
    BY <1>8 DEF sys_setkey, BootInv, TypeOK
  <2> QED BY <2>1, <2>2, <2>3 DEF KeysAreKept
<1>9. CASE PowerCut
  <2>1. CASE root = 0 BY <1>2, <1>9, <2>1 DEF PowerCut
  <2>2. CASE root # 0
    <3>1. PICK t \in Torn(root) : disks' = [disks EXCEPT ![root] = t]
      BY <1>9, <2>2, ZenonT(20) DEF PowerCut
    <3>2. t.slot = disks[root].slot BY <2>2, TornKeepsSlots
    <3> QED BY <1>1, <3>1, <3>2 DEF BootInv, TypeOK
  <2> QED BY <2>1, <2>2
<1>10. ASSUME NEW d \in Devs, PowerCutWhileFormatting(d) PROVE KeysAreKept
  <2>1. disks[d].slot = NoSlot /\ \A e \in Devs : e # d => disks'[e] = disks[e]
    BY <1>10 DEF PowerCutWhileFormatting, BootInv, SlotsAreOurs, TypeOK
  <2> QED BY <2>1 DEF KeysAreKept
<1>11. CASE UNCHANGED bootVars BY <1>2, <1>11 DEF bootVars
<1>12. CASE Starting
  BY <1>2, <1>4, <1>5, <1>6, <1>12
     DEF Starting, PowerOn, unlock_disk_key, prompt_existing_disk_passphrase, Hierarchy,
         first_boot_setup, init_filesystem_and_vfs, init_userspace
<1>13. CASE Running
  BY <1>2, <1>3, <1>7, <1>8, <1>13, ZenonT(20)
     DEF Running, SetOpen, UseFiles, Change, sys_umount, set_security_level, sys_lockdown,
         sys_sync, Shutdown
<1> QED BY <1>9, <1>10, <1>11, <1>12, <1>13 DEF BootNext

\* The data key of a disk outlives every boot, mount, change of passphrase and power
\* cut, for any number of disks: no slot is ever made to wrap another key
\* (fs_keyslot_install, fs_keyslot_rewrap). The hypothesis is needed: when a read of
\* init_fs fails after it has formatted a disk, fs_was_formatted stays set and the
\* disk that the boot falls back to is given a new key.
THEOREM DataKeyOutlivesTheBoots ==
    ASSUME "late" \notin Faults
    PROVE  BootSpec => DataKeyIsNeverReplaced
<1>1. BootSpec => []FreshDiskHasNoSlot
  BY InitFresh, StepFresh, BootStaysSound, PTL DEF BootSpec
<1>2. BootInv /\ FreshDiskHasNoSlot /\ [BootNext]_bootVars => [KeysAreKept]_bootVars
  BY StepKeepsKeys
<1> QED BY <1>1, <1>2, BootStaysSound, PTL DEF BootSpec, DataKeyIsNeverReplaced, KeysAreKept
---------------------------------------------------------------------------
(* The internal disks.                                                     *)

Ops == {"none", "read", "write", "flush"}
Waits == {"wait ready", "wait bsy", "wait drq", "wait irq", "wait flush", "wait done"}

Drivers == [kind : {"none", "ata", "ahci"}, at : Waits \cup {"idle"}, op : Ops,
            lba : Sectors \cup {0}, data : SectorData \cup {"none"}, clean : BOOLEAN,
            fired : BOOLEAN]
Drives == [op : Ops, lba : Sectors \cup {0}, busy : BOOLEAN, drq : BOOLEAN, err : BOOLEAN,
           data : SectorData \cup {"none"}, ci : BOOLEAN, tfes : BOOLEAN, stopped : BOOLEAN]

DiskTypes == disk \in Drivers /\ drive \in Drives /\ sectors \in [Sectors -> SectorData]

\* Which driver makes which wait, and what the drive may be doing meanwhile.
DiskOrder ==
    /\ diskDrivers # "done" => disk.kind = "none"
    /\ disk.kind = "none" => disk.at = "idle" /\ ~drive.busy /\ ~drive.drq
    /\ disk.at # "idle" => /\ disk.lba \in Sectors /\ disk.op \in {"read", "write"}
                           /\ disk.op = "write" => disk.data \in SectorData
    /\ disk.at \in {"wait bsy", "wait drq", "wait flush"} => disk.op = "write" /\ disk.kind = "ata"
    /\ disk.at = "wait irq" => disk.kind = "ata"
    /\ disk.at = "wait done" => disk.kind = "ahci"
    /\ drive.busy => drive.op # "none" /\ ~drive.drq
    /\ drive.op \in {"read", "write"} => drive.lba \in Sectors
    /\ disk.kind = "ahci" => /\ ~drive.drq /\ (drive.busy => drive.op # "flush")
                             /\ drive.busy /\ drive.op = "write" => drive.data \in SectorData
                             /\ disk.at = "wait ready" /\ disk.op = "write" => drive.data \in SectorData

\* The drive is at the command the driver waits for.
OnIt == drive.busy /\ drive.op = disk.op /\ drive.lba = disk.lba

\* What the two know of each other at every wait: either the drive is still at this
\* command and the flag or the bit that ends the wait is not up, or it is through with
\* it, and then it failed or the sector is what it should be.
AtaProtocol ==
    disk.clean =>
      /\ disk.at = "wait irq" /\ disk.op = "read" =>
           \/ OnIt /\ ~disk.fired
           \/ ~drive.busy /\ (drive.err \/ drive.data = sectors[disk.lba])
      /\ disk.at = "wait bsy" =>
           /\ drive.data = "none" /\ drive.lba = disk.lba
           /\ drive.op = "write" \/ (~drive.busy /\ ~drive.drq)
      /\ disk.at = "wait drq" =>
           ~drive.busy /\ (drive.drq => drive.op = "write" /\ drive.lba = disk.lba)
      /\ disk.at = "wait irq" /\ disk.op = "write" =>
           \/ OnIt /\ ~disk.fired /\ drive.data = disk.data
           \/ ~drive.busy /\ (drive.err \/ (~drive.drq /\ sectors[disk.lba] = disk.data))
      /\ disk.at = "wait flush" =>
           sectors[disk.lba] = disk.data /\ ~(drive.busy /\ drive.op = "write")

AhciProtocol ==
    disk.clean =>
      /\ disk.kind = "ahci" /\ disk.at = "wait ready" /\ disk.op = "write" =>
           drive.data = disk.data /\ ~LateRead
      /\ disk.at = "wait done" =>
           \/ OnIt /\ drive.ci /\ (disk.op = "write" => drive.data = disk.data)
           \/ ~drive.busy /\ (drive.ci \/ drive.err \/
                sectors[disk.lba] = IF disk.op = "write" THEN disk.data ELSE drive.data)

DiskInv == DiskTypes /\ DiskOrder /\ AtaProtocol /\ AhciProtocol

(* The invariant holds before the drivers look for a disk.                 *)
LEMMA DiskStarts == DiskInit => DiskInv
<1> SUFFICES ASSUME DiskInit PROVE DiskInv
  OBVIOUS
<1>1. DiskTypes
  BY DEF DiskInit, DiskTypes, Drivers, Drives, NoDriver, RestingDrive, Ops, Waits
<1>2. DiskOrder
  BY DEF DiskInit, DiskOrder, NoDriver, RestingDrive
<1>3. AtaProtocol
  BY DEF DiskInit, AtaProtocol, NoDriver, RestingDrive
<1>4. AhciProtocol
  BY DEF DiskInit, AhciProtocol, NoDriver, RestingDrive
<1> QED BY <1>1, <1>2, <1>3, <1>4 DEF DiskInv

(* A call of the block layer.                                              *)
LEMMA CallSteps ==
    ASSUME DiskInv, NEW op \in {"read", "write"}, NEW lba \in Sectors,
           NEW data \in SectorData \cup {"none"}, op = "write" => data \in SectorData,
           DiskCall(op, lba, data)
    PROVE  DiskInv'
<1> USE DiskAssumption DEF DiskInv, DiskTypes, Ops, Waits, DiskCall
<1>1. disk' \in Drivers /\ disk'.kind = disk.kind /\ disk'.at = "wait ready"
      /\ disk'.op = op /\ disk'.lba = lba /\ disk'.data = data
      /\ disk'.clean = ~(op = "write" /\ LateRead)
  BY ZenonT(20) DEF Drivers, LateRead
<1>2. drive' \in Drives
  BY ZenonT(20) DEF Drives
<1>3. DiskOrder'
  BY <1>1, <1>2 DEF DiskOrder, Drives
<1>4. AtaProtocol'
  BY <1>1 DEF AtaProtocol
<1>5. AhciProtocol'
  BY <1>1, ZenonT(20) DEF AhciProtocol, LateRead, Drives
<1> QED BY <1>1, <1>2, <1>3, <1>4, <1>5

(* Finding the disk (ata_identify, ahci_init).                             *)
LEMMA BootSteps == DiskInv /\ (ata_identify \/ ahci_init) => DiskInv'
<1> SUFFICES ASSUME DiskInv, (ata_identify \/ ahci_init) PROVE DiskInv'
  OBVIOUS
<1> USE DiskAssumption DEF DiskInv, DiskTypes, Drivers, Drives, Ops, Waits
<1>1. DiskTypes'
  BY ZenonT(20) DEF DiskOrder, ata_identify, ahci_init
<1>2. DiskOrder'
  BY ZenonT(20) DEF DiskOrder, ata_identify, ahci_init
<1>3. AtaProtocol'
  BY ZenonT(20) DEF DiskOrder, AtaProtocol, OnIt, ata_identify, ahci_init
<1>4. AhciProtocol'
  BY ZenonT(20) DEF DiskOrder, AhciProtocol, OnIt, LateRead, ata_identify, ahci_init
<1> QED BY <1>1, <1>2, <1>3, <1>4, ZenonT(20)

(* A driver gives up on a drive that is busy.                              *)
LEMMA TimeoutStep == DiskInv /\ DiskTimeout => DiskInv'
<1> SUFFICES ASSUME DiskInv, DiskTimeout PROVE DiskInv'
  OBVIOUS
<1> USE DiskAssumption DEF DiskInv, DiskTypes, Drivers, Drives, Ops, Waits
<1>1. DiskTypes'
  <2>1. /\ disk' = [kind |-> disk.kind, at |-> "idle", op |-> "none", lba |-> 0,
                    data |-> "none", clean |-> TRUE, fired |-> disk.fired]
        /\ drive' = drive /\ sectors' = sectors
    BY ZenonT(20) DEF DiskTimeout, DiskAnswer, NoDriver
  <2>2. disk.kind \in {"none", "ata", "ahci"} /\ disk.fired \in BOOLEAN
    BY ZenonT(20)
  <2>3. disk' \in Drivers
    BY <2>1, <2>2, ZenonT(20)
  <2> QED BY <2>1, <2>3, ZenonT(40)
<1>2. DiskOrder'
  BY ZenonT(20) DEF DiskOrder, DiskTimeout, DiskAnswer, NoDriver
<1>3. AtaProtocol'
  BY ZenonT(20) DEF DiskOrder, AtaProtocol, OnIt, DiskTimeout, DiskAnswer, NoDriver
<1>4. AhciProtocol'
  BY ZenonT(20) DEF DiskOrder, AhciProtocol, OnIt, LateRead, DiskTimeout, DiskAnswer, NoDriver
<1> QED BY <1>1, <1>2, <1>3, <1>4, ZenonT(20)

(* ata_read_sector(): the command is given.                                *)
LEMMA AtaGiveReadStep == DiskInv /\ AtaGiveRead => DiskInv'
<1> SUFFICES ASSUME DiskInv, AtaGiveRead PROVE DiskInv'
  OBVIOUS
<1> USE DiskAssumption DEF DiskInv, DiskTypes, Drivers, Drives, Ops, Waits
<1>1. DiskTypes'
  BY ZenonT(20) DEF DiskOrder, AtaGiveRead, Given, RestingDrive, FlagBeforeCommand
<1>2. DiskOrder'
  BY ZenonT(20) DEF DiskOrder, AtaGiveRead, Given, RestingDrive, FlagBeforeCommand
<1>3. AtaProtocol'
  BY ZenonT(20) DEF DiskOrder, AtaProtocol, OnIt, AtaGiveRead, Given, RestingDrive, FlagBeforeCommand
<1>4. AhciProtocol'
  BY ZenonT(20) DEF DiskOrder, AhciProtocol, OnIt, LateRead, AtaGiveRead, Given, RestingDrive, FlagBeforeCommand
<1> QED BY <1>1, <1>2, <1>3, <1>4, ZenonT(20)

(* ata_read_sector(): the sector is taken.                                 *)
LEMMA AtaTakeSectorStep == DiskInv /\ AtaTakeSector => DiskInv'
<1> SUFFICES ASSUME DiskInv, AtaTakeSector PROVE DiskInv'
  OBVIOUS
<1> USE DiskAssumption DEF DiskInv, DiskTypes, Drivers, Drives, Ops, Waits
<1>1. DiskTypes'
  <2>1. disk' = [kind |-> disk.kind, at |-> "idle", op |-> "none", lba |-> 0,
                 data |-> "none", clean |-> TRUE, fired |-> FALSE]
    BY ZenonT(20) DEF AtaTakeSector, DiskAnswer, NoDriver
  <2>2. disk' \in Drivers
    BY <2>1, ZenonT(20)
  <2>3. drive' \in Drives /\ sectors' = sectors
    BY ZenonT(20) DEF AtaTakeSector
  <2> QED BY <2>2, <2>3, ZenonT(20)
<1>2. DiskOrder'
  BY ZenonT(40) DEF DiskOrder, AtaTakeSector, DiskAnswer, NoDriver
<1>3. AtaProtocol'
  BY ZenonT(40) DEF DiskOrder, AtaProtocol, OnIt, AtaTakeSector, DiskAnswer, NoDriver
<1>4. AhciProtocol'
  BY ZenonT(20) DEF DiskOrder, AhciProtocol, OnIt, LateRead, AtaTakeSector, DiskAnswer, NoDriver
<1> QED BY <1>1, <1>2, <1>3, <1>4, ZenonT(20)

(* ata_write_sector(): the command is given.                               *)
LEMMA AtaGiveWriteStep == DiskInv /\ AtaGiveWrite => DiskInv'
<1> SUFFICES ASSUME DiskInv, AtaGiveWrite PROVE DiskInv'
  OBVIOUS
<1> USE DiskAssumption DEF DiskInv, DiskTypes, Drivers, Drives, Ops, Waits
<1>1. DiskTypes'
  BY ZenonT(20) DEF DiskOrder, AtaGiveWrite, Given, RestingDrive
<1>2. DiskOrder'
  BY ZenonT(20) DEF DiskOrder, AtaGiveWrite, Given, RestingDrive
<1>3. AtaProtocol'
  BY ZenonT(40) DEF DiskOrder, AtaProtocol, OnIt, AtaGiveWrite, Given, RestingDrive
<1>4. AhciProtocol'
  BY ZenonT(20) DEF DiskOrder, AhciProtocol, OnIt, LateRead, AtaGiveWrite, Given, RestingDrive
<1> QED BY <1>1, <1>2, <1>3, <1>4, ZenonT(20)

(* ata_write_sector(): the drive is ready for the data, or not.            *)
LEMMA AtaWriteNotBusyStep == DiskInv /\ AtaWriteNotBusy => DiskInv'
<1> SUFFICES ASSUME DiskInv, AtaWriteNotBusy PROVE DiskInv'
  OBVIOUS
<1> USE DiskAssumption DEF DiskInv, DiskTypes, Drivers, Drives, Ops, Waits
<1>1. DiskTypes'
  BY ZenonT(20) DEF DiskOrder, AtaWriteNotBusy
<1>2. DiskOrder'
  BY ZenonT(20) DEF DiskOrder, AtaWriteNotBusy
<1>3. AtaProtocol'
  BY ZenonT(20) DEF DiskOrder, AtaProtocol, OnIt, AtaWriteNotBusy
<1>4. AhciProtocol'
  BY ZenonT(20) DEF DiskOrder, AhciProtocol, OnIt, LateRead, AtaWriteNotBusy
<1> QED BY <1>1, <1>2, <1>3, <1>4, ZenonT(20)

(* ata_write_sector(): the sector is sent.                                 *)
LEMMA AtaSendSectorStep == DiskInv /\ AtaSendSector => DiskInv'
<1> SUFFICES ASSUME DiskInv, AtaSendSector PROVE DiskInv'
  OBVIOUS
<1> USE DiskAssumption DEF DiskInv, DiskTypes, Drivers, Drives, Ops, Waits
<1>1. DiskTypes'
  BY ZenonT(20) DEF DiskOrder, AtaSendSector, FlagBeforeCommand
<1>2. DiskOrder'
  BY ZenonT(20) DEF DiskOrder, AtaSendSector, FlagBeforeCommand
<1>3. AtaProtocol'
  BY ZenonT(20) DEF DiskOrder, AtaProtocol, OnIt, AtaSendSector, FlagBeforeCommand
<1>4. AhciProtocol'
  BY ZenonT(20) DEF DiskOrder, AhciProtocol, OnIt, LateRead, AtaSendSector, FlagBeforeCommand
<1> QED BY <1>1, <1>2, <1>3, <1>4, ZenonT(20)

(* ata_write_sector(): the flush is given.                                 *)
LEMMA AtaFlushStep == DiskInv /\ AtaFlush => DiskInv'
<1> SUFFICES ASSUME DiskInv, AtaFlush PROVE DiskInv'
  OBVIOUS
<1> USE DiskAssumption DEF DiskInv, DiskTypes, Drivers, Drives, Ops, Waits
<1>1. CASE drive.err
  <2>1. /\ disk' = [kind |-> disk.kind, at |-> "idle", op |-> "none", lba |-> 0,
                    data |-> "none", clean |-> TRUE, fired |-> FALSE]
        /\ drive' = drive /\ sectors' = sectors /\ diskDrivers' = diskDrivers
    BY <1>1, ZenonT(20) DEF AtaFlush, DiskAnswer, NoDriver
  <2>2. DiskTypes' /\ DiskOrder'
    BY <2>1, ZenonT(20) DEF DiskOrder, AtaFlush
  <2> QED BY <2>1, <2>2, ZenonT(20) DEF AtaProtocol, AhciProtocol
<1>2. CASE ~drive.err
  <2>1. /\ disk' = [disk EXCEPT !.at = "wait flush", !.fired = FALSE]
        /\ sectors' = sectors /\ diskDrivers' = diskDrivers /\ disk.kind = "ata"
        /\ disk.at = "wait irq" /\ disk.op = "write"
    BY <1>2, ZenonT(20) DEF AtaFlush
  <2>2. \/ drive' = drive /\ drive.drq
        \/ drive' = [RestingDrive EXCEPT !.op = "flush", !.busy = TRUE, !.lba = 0]
    BY <1>2, ZenonT(20) DEF AtaFlush, Given
  <2>3. DiskTypes'
    BY <2>1, <2>2, ZenonT(20) DEF RestingDrive
  <2>4. DiskOrder'
    BY <2>1, <2>2, ZenonT(20) DEF RestingDrive, DiskOrder
  <2>5. AtaProtocol'
    BY <1>2, <2>1, <2>2, ZenonT(40) DEF RestingDrive, DiskOrder, AtaProtocol, OnIt, AtaFlush
  <2>6. AhciProtocol'
    BY <2>1, ZenonT(20) DEF AhciProtocol
  <2> QED BY <2>3, <2>4, <2>5, <2>6, ZenonT(20)
<1> QED BY <1>1, <1>2, ZenonT(20)

(* ata_write_sector(): the flush has ended.                                *)
LEMMA AtaFlushedStep == DiskInv /\ AtaFlushed => DiskInv'
<1> SUFFICES ASSUME DiskInv, AtaFlushed PROVE DiskInv'
  OBVIOUS
<1> USE DiskAssumption DEF DiskInv, DiskTypes, Drivers, Drives, Ops, Waits
<1>1. DiskTypes'
  BY ZenonT(40) DEF DiskOrder, AtaFlushed, DiskAnswer, NoDriver
<1>2. DiskOrder'
  BY ZenonT(20) DEF DiskOrder, AtaFlushed, DiskAnswer, NoDriver
<1>3. AtaProtocol'
  BY ZenonT(20) DEF DiskOrder, AtaProtocol, OnIt, AtaFlushed, DiskAnswer, NoDriver
<1>4. AhciProtocol'
  BY ZenonT(20) DEF DiskOrder, AhciProtocol, OnIt, LateRead, AtaFlushed, DiskAnswer, NoDriver
<1> QED BY <1>1, <1>2, <1>3, <1>4, ZenonT(20)

(* The ATA drive works on its command.                                     *)
LEMMA AtaDriveStep == DiskInv /\ AtaDrive => DiskInv'
<1> SUFFICES ASSUME DiskInv, AtaDrive PROVE DiskInv'
  OBVIOUS
<1> USE DiskAssumption DEF DiskInv, DiskTypes, Drivers, Drives, Ops, Waits
<1>1. disk.kind = "ata" /\ drive.busy /\ diskDrivers' = diskDrivers
  BY ZenonT(20) DEF AtaDrive
<1>2. CASE /\ drive' = [drive EXCEPT !.busy = FALSE, !.err = TRUE, !.op = "none"]
           /\ disk' = [disk EXCEPT !.fired = TRUE] /\ sectors' = sectors
  <2>1. DiskTypes'
    BY <1>1, <1>2, ZenonT(20) DEF DiskOrder, RestingDrive
  <2>2. DiskOrder'
    BY <1>1, <1>2, ZenonT(20) DEF DiskOrder, RestingDrive
  <2>3. AtaProtocol'
    BY <1>1, <1>2, ZenonT(20) DEF DiskOrder, AtaProtocol, OnIt, RestingDrive
  <2>4. AhciProtocol'
    BY <1>1, <1>2, ZenonT(20) DEF DiskOrder, AhciProtocol, OnIt, LateRead, RestingDrive
  <2> QED BY <2>1, <2>2, <2>3, <2>4, ZenonT(20)
<1>3. CASE /\ drive.op = "read"
           /\ drive' = [drive EXCEPT !.busy = FALSE, !.drq = TRUE, !.data = sectors[drive.lba]]
           /\ disk' = [disk EXCEPT !.fired = TRUE] /\ sectors' = sectors
  <2>1. DiskTypes'
    BY <1>1, <1>3, ZenonT(20) DEF DiskOrder, RestingDrive
  <2>2. DiskOrder'
    BY <1>1, <1>3, ZenonT(20) DEF DiskOrder, RestingDrive
  <2>3. AtaProtocol'
    BY <1>1, <1>3, ZenonT(20) DEF DiskOrder, AtaProtocol, OnIt, RestingDrive
  <2>4. AhciProtocol'
    BY <1>1, <1>3, ZenonT(20) DEF DiskOrder, AhciProtocol, OnIt, LateRead, RestingDrive
  <2> QED BY <2>1, <2>2, <2>3, <2>4, ZenonT(20)
<1>4. CASE /\ drive.op = "write" /\ drive.data = "none"
           /\ drive' = [drive EXCEPT !.busy = FALSE, !.drq = TRUE]
           /\ disk' = disk /\ sectors' = sectors
  <2>1. DiskTypes'
    <3>1. drive' \in Drives
      BY <1>4, ZenonT(20)
    <3> QED BY <1>4, <3>1, ZenonT(20)
  <2>2. DiskOrder'
    BY <1>1, <1>4, ZenonT(20) DEF DiskOrder
  <2>3. /\ ~drive'.busy /\ drive'.op = "write" /\ drive'.lba = drive.lba /\ drive'.data = "none"
        /\ disk' = disk /\ sectors' = sectors
    BY <1>4, ZenonT(20)
  <2>4. AtaProtocol'
    BY <1>1, <1>4, <2>3, ZenonT(40) DEF DiskOrder, AtaProtocol, OnIt
  <2>5. AhciProtocol'
    BY <1>1, <1>4, ZenonT(20) DEF DiskOrder, AhciProtocol
  <2> QED BY <2>1, <2>2, <2>4, <2>5, ZenonT(20)
<1>5. CASE /\ drive.op = "write" /\ drive.data # "none"
           /\ sectors' = [sectors EXCEPT ![drive.lba] = drive.data]
           /\ drive' = RestingDrive /\ disk' = [disk EXCEPT !.fired = TRUE]
  <2>1. drive.lba \in Sectors /\ drive.data \in SectorData
    BY <1>5, ZenonT(20) DEF DiskOrder
  <2>2. sectors' \in [Sectors -> SectorData] /\ sectors'[drive.lba] = drive.data
    BY <1>5, <2>1, ZenonT(20)
  <2>3. drive' \in Drives /\ disk' \in Drivers
    BY <1>5, ZenonT(20) DEF RestingDrive
  <2>4. DiskOrder'
    BY <1>1, <1>5, ZenonT(20) DEF DiskOrder, RestingDrive
  <2>5. AtaProtocol'
    BY <1>1, <1>5, <2>1, <2>2, ZenonT(20) DEF DiskOrder, AtaProtocol, OnIt, RestingDrive
  <2>6. AhciProtocol'
    BY <1>1, <1>5, ZenonT(20) DEF DiskOrder, AhciProtocol, OnIt, LateRead, RestingDrive
  <2> QED BY <2>2, <2>3, <2>4, <2>5, <2>6, ZenonT(20)
<1>6. CASE /\ drive.op = "flush" /\ drive' = RestingDrive
           /\ disk' = [disk EXCEPT !.fired = TRUE] /\ sectors' = sectors
  <2>1. DiskTypes'
    BY <1>1, <1>6, ZenonT(20) DEF DiskOrder, RestingDrive
  <2>2. DiskOrder'
    BY <1>1, <1>6, ZenonT(20) DEF DiskOrder, RestingDrive
  <2>3. AtaProtocol'
    BY <1>1, <1>6, ZenonT(20) DEF DiskOrder, AtaProtocol, OnIt, RestingDrive
  <2>4. AhciProtocol'
    BY <1>1, <1>6, ZenonT(20) DEF DiskOrder, AhciProtocol, OnIt, LateRead, RestingDrive
  <2> QED BY <2>1, <2>2, <2>3, <2>4, ZenonT(20)
<1> QED BY <1>2, <1>3, <1>4, <1>5, <1>6, ZenonT(20) DEF AtaDrive

(* ahci_run_command(): the command is given to a port that is idle.        *)
LEMMA AhciIssueStep == DiskInv /\ AhciIssue => DiskInv'
<1> SUFFICES ASSUME DiskInv, AhciIssue PROVE DiskInv'
  OBVIOUS
<1> USE DiskAssumption DEF DiskInv, DiskTypes, Drivers, Drives, Ops, Waits
<1>1. DiskTypes'
  BY ZenonT(20) DEF DiskOrder, AhciIssue
<1>2. DiskOrder'
  BY ZenonT(20) DEF DiskOrder, AhciIssue
<1>3. AtaProtocol'
  BY ZenonT(20) DEF DiskOrder, AtaProtocol, OnIt, AhciIssue
<1>4. AhciProtocol'
  BY ZenonT(20) DEF DiskOrder, AhciProtocol, OnIt, LateRead, AhciIssue
<1> QED BY <1>1, <1>2, <1>3, <1>4, ZenonT(20)

(* ahci_run_command(): the command has ended.                              *)
LEMMA AhciDoneStep == DiskInv /\ AhciDone => DiskInv'
<1> SUFFICES ASSUME DiskInv, AhciDone PROVE DiskInv'
  OBVIOUS
<1> USE DiskAssumption DEF DiskInv, DiskTypes, Drivers, Drives, Ops, Waits
<1>1. DiskTypes'
  BY ZenonT(20) DEF DiskOrder, AhciDone, DiskAnswer, NoDriver
<1>2. DiskOrder'
  BY ZenonT(20) DEF DiskOrder, AhciDone, DiskAnswer, NoDriver
<1>3. AtaProtocol'
  BY ZenonT(20) DEF DiskOrder, AtaProtocol, OnIt, AhciDone, DiskAnswer, NoDriver
<1>4. AhciProtocol'
  BY ZenonT(20) DEF DiskOrder, AhciProtocol, OnIt, LateRead, AhciDone, DiskAnswer, NoDriver
<1> QED BY <1>1, <1>2, <1>3, <1>4, ZenonT(20)

(* The AHCI drive works on its command.                                    *)
LEMMA AhciDriveStep == DiskInv /\ AhciDrive => DiskInv'
<1> SUFFICES ASSUME DiskInv, AhciDrive PROVE DiskInv'
  OBVIOUS
<1> USE DiskAssumption DEF DiskInv, DiskTypes, Drivers, Drives, Ops, Waits
<1>1. disk.kind = "ahci" /\ drive.busy /\ diskDrivers' = diskDrivers
  BY ZenonT(20) DEF AhciDrive
<1>2. CASE /\ drive' = [drive EXCEPT !.busy = FALSE, !.err = TRUE, !.tfes = TRUE, !.stopped = TRUE]
           /\ disk' = disk /\ sectors' = sectors
  <2>1. DiskTypes'
    BY <1>1, <1>2, ZenonT(20) DEF DiskOrder, RestingDrive
  <2>2. DiskOrder'
    BY <1>1, <1>2, ZenonT(20) DEF DiskOrder, RestingDrive
  <2>3. AtaProtocol'
    BY <1>1, <1>2, ZenonT(20) DEF DiskOrder, AtaProtocol, OnIt, RestingDrive
  <2>4. AhciProtocol'
    BY <1>1, <1>2, ZenonT(20) DEF DiskOrder, AhciProtocol, OnIt, LateRead, RestingDrive
  <2> QED BY <2>1, <2>2, <2>3, <2>4, ZenonT(20)
<1>3. CASE /\ drive' = [drive EXCEPT !.busy = FALSE, !.ci = FALSE, !.err = TRUE]
           /\ disk' = disk /\ sectors' = sectors
  <2>1. DiskTypes'
    BY <1>1, <1>3, ZenonT(20) DEF DiskOrder, RestingDrive
  <2>2. DiskOrder'
    BY <1>1, <1>3, ZenonT(20) DEF DiskOrder, RestingDrive
  <2>3. AtaProtocol'
    BY <1>1, <1>3, ZenonT(20) DEF DiskOrder, AtaProtocol, OnIt, RestingDrive
  <2>4. AhciProtocol'
    BY <1>1, <1>3, ZenonT(20) DEF DiskOrder, AhciProtocol, OnIt, LateRead, RestingDrive
  <2> QED BY <2>1, <2>2, <2>3, <2>4, ZenonT(20)
<1>4. CASE /\ drive.op = "read"
           /\ drive' = [drive EXCEPT !.busy = FALSE, !.ci = FALSE, !.data = sectors[drive.lba]]
           /\ disk' = disk /\ sectors' = sectors
  <2>1. DiskTypes'
    BY <1>1, <1>4, ZenonT(20) DEF DiskOrder, RestingDrive
  <2>2. DiskOrder'
    BY <1>1, <1>4, ZenonT(20) DEF DiskOrder, RestingDrive
  <2>3. AtaProtocol'
    BY <1>1, <1>4, ZenonT(20) DEF DiskOrder, AtaProtocol, OnIt, RestingDrive
  <2>4. AhciProtocol'
    BY <1>1, <1>4, ZenonT(20) DEF DiskOrder, AhciProtocol, OnIt, LateRead, RestingDrive
  <2> QED BY <2>1, <2>2, <2>3, <2>4, ZenonT(20)
<1>5. CASE /\ drive.op = "write" /\ drive' = [drive EXCEPT !.busy = FALSE, !.ci = FALSE]
           /\ sectors' = [sectors EXCEPT ![drive.lba] = drive.data] /\ disk' = disk
  <2>1. DiskTypes'
    BY <1>1, <1>5, ZenonT(20) DEF DiskOrder, RestingDrive
  <2>2. DiskOrder'
    BY <1>1, <1>5, ZenonT(20) DEF DiskOrder, RestingDrive
  <2>3. AtaProtocol'
    BY <1>1, <1>5, ZenonT(20) DEF DiskOrder, AtaProtocol, OnIt, RestingDrive
  <2>4. AhciProtocol'
    BY <1>1, <1>5, ZenonT(20) DEF DiskOrder, AhciProtocol, OnIt, LateRead, RestingDrive
  <2> QED BY <2>1, <2>2, <2>3, <2>4, ZenonT(20)
<1> QED BY <1>2, <1>3, <1>4, <1>5, ZenonT(20) DEF AhciDrive

(* Every step of drivers and drives keeps the invariant.                   *)
LEMMA DiskSteps == DiskInv /\ [DiskNext]_diskVars => DiskInv'
<1> SUFFICES ASSUME DiskInv, [DiskNext]_diskVars PROVE DiskInv'
  OBVIOUS
<1>1. CASE \E lba \in Sectors : DiskCall("read", lba, "none")
  BY <1>1, CallSteps
<1>2. CASE \E lba \in Sectors, data \in SectorData : DiskCall("write", lba, data)
  BY <1>2, CallSteps
<1>3. CASE NoDisk \/ UNCHANGED diskVars
  BY <1>3, ZenonT(20) DEF NoDisk, diskVars, DiskInv, DiskTypes, DiskOrder, AtaProtocol, AhciProtocol, OnIt,
              LateRead
<1> QED
  BY <1>1, <1>2, <1>3, BootSteps, TimeoutStep, AtaGiveReadStep, AtaTakeSectorStep,
     AtaGiveWriteStep, AtaWriteNotBusyStep, AtaSendSectorStep, AtaFlushStep, AtaFlushedStep,
     AtaDriveStep, AhciIssueStep, AhciDoneStep, AhciDriveStep DEF DiskNext

\* A driver that answers E_OK has read or written its sector (DiskSuccessIsReal):
\* ata_read_sector(), ata_write_sector() and ahci_run_command(), for a disk of any size
\* and any history of calls that gave up and commands that ended late.
THEOREM DiskSuccessStaysReal == DiskSpec => DiskSuccessIsReal
<1>1. DiskInv /\ [DiskNext]_diskVars =>
        [diskReply'.ok /\ diskReply'.clean /\ ~diskReply.ok
           => diskReply'.data = sectors'[diskReply'.lba]]_diskVars
  <2> SUFFICES ASSUME DiskInv, DiskNext, diskReply'.ok, diskReply'.clean, ~diskReply.ok
               PROVE  diskReply'.data = sectors'[diskReply'.lba]
    BY DEF diskVars
  <2>1. CASE AtaTakeSector
    <3>1. CASE drive.err
      <4>1. diskReply' = [op |-> disk.op, lba |-> disk.lba, data |-> "none", ok |-> FALSE,
                          clean |-> disk.clean]
        BY <2>1, <3>1, ZenonT(20) DEF AtaTakeSector, DiskAnswer
      <4> QED BY <4>1
    <3>2. CASE ~drive.err
      <4>1. /\ diskReply' = [op |-> disk.op, lba |-> disk.lba, data |-> drive.data, ok |-> TRUE,
                             clean |-> disk.clean]
            /\ disk.at = "wait irq" /\ disk.op = "read" /\ disk.fired /\ sectors' = sectors
        BY <2>1, <3>2, ZenonT(20) DEF AtaTakeSector, DiskAnswer
      <4> QED BY <3>2, <4>1, ZenonT(20) DEF DiskInv, AtaProtocol
    <3> QED BY <3>1, <3>2
  <2>2. CASE AtaFlushed
    BY <2>2, ZenonT(20) DEF AtaFlushed, DiskAnswer, DiskInv, AtaProtocol
  <2>3. CASE AhciDone
    BY <2>3, ZenonT(20) DEF AhciDone, DiskAnswer, DiskInv, DiskTypes, Drivers, Drives, AhciProtocol, OnIt,
                Succeeded, DiskOrder
  <2>4. CASE DiskTimeout \/ AtaFlush
    <3>1. \/ diskReply' = diskReply
          \/ diskReply' = [op |-> disk.op, lba |-> disk.lba, data |-> "none", ok |-> FALSE,
                           clean |-> disk.clean]
      BY <2>4, ZenonT(20) DEF DiskTimeout, AtaFlush, DiskAnswer
    <3> QED BY <3>1
  <2>5. CASE \E op \in Ops, lba \in Sectors, data \in SectorData \cup {"none"} : DiskCall(op, lba, data)
    BY <2>5 DEF DiskCall, NoReply
  <2>6. CASE diskReply' = diskReply
    BY <2>6
  <2>7. \/ AtaTakeSector \/ AtaFlush \/ AtaFlushed \/ AhciDone \/ DiskTimeout
        \/ \E op \in Ops, lba \in Sectors, data \in SectorData \cup {"none"} : DiskCall(op, lba, data)
        \/ diskReply' = diskReply
    BY ZenonT(20) DEF DiskNext, ata_identify, ahci_init, AtaGiveRead, AtaGiveWrite, AtaWriteNotBusy,
           AtaSendSector, AtaDrive, AhciIssue, AhciDrive, NoDisk, diskVars, Ops
  <2> QED BY <2>1, <2>2, <2>3, <2>4, <2>5, <2>6, <2>7, ZenonT(20)
<1> QED BY <1>1, DiskStarts, DiskSteps, PTL DEF DiskSpec, DiskSuccessIsReal
============================================================================
