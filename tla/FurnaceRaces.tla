---------------------------- MODULE FurnaceRaces ----------------------------
(***************************************************************************)
(* ConcurrentCustody with a memory of which trays have been raced for.     *)
(*                                                                         *)
(* The batch is read when a crucible is charged, taken back or the furnace *)
(* advanced, and is not read again at the write; nothing in the schema     *)
(* ties a crucible to the stage of its batch.  So an advance and another   *)
(* such request about one batch may be in flight together, the furnace     *)
(* closes, and the crucible is inserted or deleted afterwards, or a stage  *)
(* is written twice.  What follows says that this is the only way a tray   *)
(* goes wrong.                                                             *)
(***************************************************************************)
EXTENDS ConcurrentCustody

VARIABLE raced   \* batches an advance has ever raced another request for

\* The batch whose status a request in flight has read.
ReadsBatch(r, b) ==
    \/ r.op = "charge" /\ r.slot[1] = b
    \/ r.op = "uncharge" /\ r.row[1] = b
    \/ r.op = "batch" /\ r.batch = b

Racing(b) ==
    \E x, y \in Session :
        /\ x # y
        /\ inflight[x].op = "batch" /\ inflight[x].batch = b
        /\ ReadsBatch(inflight[y], b)

RacesInit == ConcurrentInit /\ raced = {}

RacesNext == ConcurrentNext /\ raced' = raced \cup {b \in Batch : Racing(b)'}

RacesSpec == RacesInit /\ [][RacesNext]_<<cvars, raced>>

-----------------------------------------------------------------------------
Fired(b) == batch[b] \notin {"unopened", "pending", "charging"}

\* The crucibles are at a stage of their batch, and a fired one has some.
InStep(b) ==
    /\ \A p \in Position : tray[b][p] # Empty => tray[b][p].status \in StagesOf(batch[b])
    /\ Fired(b) => \E p \in Position : tray[b][p] # Empty

\* A batch no advance has raced for is in step with its crucibles, takes the
\* furnace stages one after the other, and once fired neither gains, loses
\* nor exchanges a crucible, however its charges, partings, weighings and
\* results are interleaved: a charge or an uncharge written after the furnace
\* closed was in flight beside the request that closed it.
UnracedTrayIsSettled ==
    [][\A b \in Batch \ raced' :
         /\ InStep(b)'
         /\ batch'[b] # batch[b] =>
               <<batch[b], batch'[b]>> \in BatchTransitions \cup {<<"unopened", "pending">>}
         /\ Fired(b) => \A p \in Position :
               /\ tray'[b][p].holds = tray[b][p].holds
               /\ tray'[b][p].duplicate = tray[b][p].duplicate]_<<cvars, raced>>
=============================================================================
