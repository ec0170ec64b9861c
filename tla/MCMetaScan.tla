----------------------------- MODULE MCMetaScan -----------------------------
(***************************************************************************)
(* The event loop of GetBillOfLadingPackMeta checked against spec 4.E on   *)
(* every event list up to MaxEvents long, outside the state machine: the   *)
(* loop sees whatever list a stored pack holds, so the inputs include the  *)
(* lists the guards never build.  A behaviour appends events one by one,   *)
(* so every prefix is checked too.                                         *)
(***************************************************************************)
EXTENDS EBLPack, TLC

CONSTANTS i, s, c, a, MaxEvents

VARIABLE events

Ordered == [issuer |-> i, shipper |-> s, consignee |-> c, releaseAgent |-> a]

\* Two distinct bills of lading, two amendment requests by different
\* parties, and an event that is neither.
Alphabet ==
  { CreateFileBasedBillOfLading(i, Ordered, TRUE),
    CreateFileBasedBillOfLading(i, Ordered, FALSE),
    ActionEvent("AmendmentRequest", c, i),
    ActionEvent("AmendmentRequest", s, i),
    ActionEvent("Transfer", s, c) }

Init == events = <<>>

AddEvent(e) ==
  /\ Len(events) < MaxEvents
  /\ events' = Append(events, e)

Next == \E e \in Alphabet : AddEvent(e)

Spec == Init /\ [][Next]_events

\* The most recent event satisfying P, as a set of at most one event.
MostRecent(es, P(_)) ==
  LET k == SelectLastInSeq(es, P) IN IF k = 0 THEN {} ELSE {es[k]}

\* The loop leaves bl set to the most recent BillOfLading (nil when there is
\* none, which makes GetBillOfLadingPackMeta fail) and amendmentRequest set
\* to the most recent AmendmentRequest exactly when it comes after that
\* BillOfLading, as spec 4.E states the outstanding amendment request.
ScanMatchesSpec ==
  ScanEvents(events) = [bl |-> MostRecent(events, IsBL),
                        ar |-> OutstandingAmendmentRequest(events)]

=============================================================================
