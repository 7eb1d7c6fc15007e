----------------------------- MODULE StreamState -----------------------------
(***************************************************************************)
(* The durable tables of the streaming runner, scripts/stream_state.py.     *)
(*                                                                         *)
(* stream_items holds one row per audio and stream_stages one row per       *)
(* audio and stage.  Every public method of StreamState runs one            *)
(* autocommitted statement (or one BEGIN IMMEDIATE transaction) under the   *)
(* connection's lock, so every operation below is one atomic step.  Spec    *)
(* lets clients call the operations in any order and with any argument the  *)
(* guards accept: what holds of Spec does not depend on the scheduler.      *)
(*                                                                         *)
(* A job id is fixed.  A request id is a function of the audio, the stage   *)
(* and the input fingerprint (deterministic_request_id), so comparing       *)
(* request ids is comparing fingerprints and the id is not stored again.    *)
(***************************************************************************)
EXTENDS Naturals

CONSTANTS Audio,        \* audio ids (SHA256 of the content)
          Stages,       \* names of the remote stages
          Records,      \* inventory records; r.id is the audio the record is about
          Inputs,       \* input fingerprints
          Results,      \* what a service may answer
          None          \* the SQL NULL

ASSUME NoneAssumption == None \notin Inputs \cup Results \cup Records

ASSUME RecordsAssumption == \A r \in Records : r.id \in Audio

VARIABLES items,   \* items[a]: the row of stream_items, status "absent" when there is none
          rows     \* rows[a][s]: the row of stream_stages, status "absent" when there is none

tables == <<items, rows>>

ItemStatus == {"absent", "pending", "published", "review", "rejected", "failed"}
StageStatus == {"absent", "pending", "running", "succeeded", "failed"}

ItemRow == [status : ItemStatus, record : Records \cup {None}, ordinal : Nat]
StageRow == [status : StageStatus, attempt : Nat,
             input : Inputs \cup {None}, result : Results \cup {None}]

NoItem == [status |-> "absent", record |-> None, ordinal |-> 0]
NoRow == [status |-> "absent", attempt |-> 0, input |-> None, result |-> None]

TypeOK == /\ items \in [Audio -> ItemRow]
          /\ rows \in [Audio -> [Stages -> StageRow]]

Init == /\ items = [a \in Audio |-> NoItem]
        /\ rows = [a \in Audio |-> [s \in Stages |-> NoRow]]

Registered == {a \in Audio : items[a].status # "absent"}

\* COALESCE(MAX(ordinal), -1) + 1.
OrdinalsAfter == {0} \cup {items[a].ordinal + 1 : a \in Registered}
NextOrdinal == CHOOSE n \in OrdinalsAfter : \A m \in OrdinalsAfter : m <= n

\* The one row a statement on stream_stages writes.
RowBecomes(a, s, row) == /\ rows' = [rows EXCEPT ![a][s] = row]
                         /\ UNCHANGED items

-----------------------------------------------------------------------------
(* Faulty variants of operations, each a plausible slip in the code.  A     *)
(* property is worth checking only if one of them breaks it.                *)

\* Recovery forgets the predicate status='running'.
RecoverRunningEverything ==
    /\ rows' = [a \in Audio |-> [s \in Stages |->
                  IF rows[a][s].status = "absent" THEN rows[a][s]
                  ELSE [rows[a][s] EXCEPT !.status = "pending", !.result = None]]]
    /\ UNCHANGED items

\* The upsert also writes status=excluded.status.
RegisterItemResets(r) ==
    /\ items[r.id].record \in {None, r}
    /\ items' = [items EXCEPT ![r.id] =
                    [status |-> "pending", record |-> r,
                     ordinal |-> IF r.id \in Registered THEN @.ordinal ELSE NextOrdinal]]
    /\ UNCHANGED rows

-----------------------------------------------------------------------------
(* The operations. *)

\* register_items with one record.  A known audio keeps its ordinal and its
\* status; a record whose fingerprint differs from the stored one raises, which
\* is the guard here: the transaction rolls back and nothing changes.
InventoryChanged(r) == items[r.id].record \notin {None, r}

RegisterItem(r) ==
    /\ ~InventoryChanged(r)
    /\ IF r.id \in Registered
       THEN UNCHANGED tables
       ELSE /\ items' = [items EXCEPT ![r.id] = [status |-> "pending", record |-> r,
                                                 ordinal |-> NextOrdinal]]
            /\ UNCHANGED rows

\* recover_running: rows left running by a dead runner become pending again.
RecoverRunning ==
    /\ rows' = [a \in Audio |-> [s \in Stages |->
                  IF rows[a][s].status = "running"
                  THEN [rows[a][s] EXCEPT !.status = "pending"]
                  ELSE rows[a][s]]]
    /\ UNCHANGED items

\* set_item_status: no guard but the existence of the row.
SetItemStatus(a, status) ==
    /\ a \in Registered
    /\ items' = [items EXCEPT ![a].status = status]
    /\ UNCHANGED rows

\* prepare_stage: insert the row once; a row prepared for another input raises.
PrepareStage(a, s, input) ==
    /\ a \in Registered
    /\ rows[a][s].input \in {None, input}
    /\ IF rows[a][s].status = "absent"
       THEN RowBecomes(a, s, [status |-> "pending", attempt |-> 0,
                              input |-> input, result |-> None])
       ELSE UNCHANGED tables

\* claim_stage: compare-and-swap pending -> running, counting the attempt.
ClaimStage(a, s, input) ==
    /\ rows[a][s].status = "pending"
    /\ rows[a][s].input = input
    /\ RowBecomes(a, s, [status |-> "running", attempt |-> rows[a][s].attempt + 1,
                         input |-> input, result |-> rows[a][s].result])

\* finish_stage: compare-and-swap running -> succeeded with the result.
FinishStage(a, s, result) ==
    /\ rows[a][s].status = "running"
    /\ RowBecomes(a, s, [status |-> "succeeded", attempt |-> rows[a][s].attempt,
                         input |-> rows[a][s].input, result |-> result])

\* fail_stage: compare-and-swap running -> failed, clearing the result.
FailStage(a, s) ==
    /\ rows[a][s].status = "running"
    /\ RowBecomes(a, s, [status |-> "failed", attempt |-> rows[a][s].attempt,
                         input |-> rows[a][s].input, result |-> None])

Next == \/ \E r \in Records : RegisterItem(r)
        \/ RecoverRunning
        \/ \E a \in Audio, status \in ItemStatus \ {"absent"} : SetItemStatus(a, status)
        \/ \E a \in Audio, s \in Stages, i \in Inputs : PrepareStage(a, s, i)
        \/ \E a \in Audio, s \in Stages, i \in Inputs : ClaimStage(a, s, i)
        \/ \E a \in Audio, s \in Stages, r \in Results : FinishStage(a, s, r)
        \/ \E a \in Audio, s \in Stages : FailStage(a, s)

Spec == Init /\ [][Next]_tables

-----------------------------------------------------------------------------
(* What the tables promise to every client. *)

\* A row that was never claimed has no outcome, a row with an outcome was claimed,
\* a result is stored exactly while the row says succeeded, and every stage row
\* belongs to a registered audio (the foreign key).
RowsCoherent ==
    \A a \in Audio, s \in Stages :
        LET row == rows[a][s] IN
        /\ row.status \in {"running", "succeeded", "failed"} => row.attempt > 0
        /\ row.status = "succeeded" <=> row.result # None
        /\ row.status = "absent" <=> row.input = None
        /\ row.status # "absent" => a \in Registered

\* The ordinals give every registered audio its own place (the unique index):
\* the scan order of a resumed job is a total order.
OrdinalsDistinct ==
    \A a, b \in Registered : a # b => items[a].ordinal # items[b].ordinal

\* A committed result is never replaced, erased or demoted, whatever a late
\* reply, a second claim or a recovery does.
SucceededIsFinal ==
    [][\A a \in Audio, s \in Stages :
          rows[a][s].status = "succeeded" => rows'[a][s] = rows[a][s]]_tables

\* A stage row is bound to the input it was prepared for as long as it exists, and
\* rows are never deleted: a resumed stage has the request id of its first attempt.
InputIsFixed ==
    [][\A a \in Audio, s \in Stages :
          rows[a][s].status # "absent" =>
              /\ rows'[a][s].status # "absent"
              /\ rows'[a][s].input = rows[a][s].input]_tables

\* An attempt is counted once per claim, and only a pending row can be claimed: two
\* claims of one row are always separated by a recovery.
AttemptsCountClaims ==
    [][\A a \in Audio, s \in Stages :
          \/ rows'[a][s].attempt = rows[a][s].attempt
          \/ /\ rows'[a][s].attempt = rows[a][s].attempt + 1
             /\ rows[a][s].status = "pending"
             /\ rows'[a][s].status = "running"]_tables
=============================================================================
