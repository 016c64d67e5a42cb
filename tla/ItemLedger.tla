----------------------------- MODULE ItemLedger -----------------------------
(***************************************************************************)
(* What POST /sync/batch promises the field device (docs/00, "Offline-sync *)
(* batch upsert contract"): an item is ingested once however often it is   *)
(* sent, the answer "accepted" goes to the request that ingested it, every *)
(* other request that hears of it hears "duplicate", and nothing is        *)
(* answered before it is ingested.                                         *)
(***************************************************************************)
CONSTANTS
    Items,    \* what a device may send, by client_uuid
    Batches   \* requests in flight

VARIABLES
    ingested, \* the items on the server
    answer,   \* per request: the items it is about to report
    acked     \* the items the device knows to be on the server

ledgerVars == <<ingested, answer, acked>>

Answers == [accepted : SUBSET Items, duplicate : SUBSET Items]
NoAnswer == [accepted |-> {}, duplicate |-> {}]

Init ==
    /\ ingested = {}
    /\ answer = [b \in Batches |-> NoAnswer]
    /\ acked = {}

\* A request takes all its new items in one step.
Ingest(b) ==
    /\ answer[b] = NoAnswer
    /\ \E new \in SUBSET (Items \ ingested), old \in SUBSET ingested :
          /\ ingested' = ingested \cup new
          /\ answer' = [answer EXCEPT ![b] = [accepted |-> new, duplicate |-> old]]
    /\ UNCHANGED acked

\* An item can also arrive by a request of its own.
Create(i) ==
    /\ ingested' = ingested \cup {i}
    /\ UNCHANGED <<answer, acked>>

Deliver(b) ==
    /\ acked' = acked \cup answer[b].accepted \cup answer[b].duplicate
    /\ answer' = [answer EXCEPT ![b] = NoAnswer]
    /\ UNCHANGED ingested

Lose(b) ==
    /\ answer' = [answer EXCEPT ![b] = NoAnswer]
    /\ UNCHANGED <<ingested, acked>>

Next ==
    \/ \E b \in Batches : Ingest(b) \/ Deliver(b) \/ Lose(b)
    \/ \E i \in Items : Create(i)

Spec == Init /\ [][Next]_ledgerVars
=============================================================================
