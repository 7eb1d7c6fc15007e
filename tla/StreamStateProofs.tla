-------------------------- MODULE StreamStateProofs --------------------------
(***************************************************************************)
(* What the tables of StreamState promise to every client, proved for any   *)
(* audios, stages, inputs and results.                                      *)
(***************************************************************************)
EXTENDS StreamState, TLAPS

-----------------------------------------------------------------------------
(* Types.  The ordinal of a new item is the CHOOSE of a maximum, so typing it   *)
(* needs that there is one; nothing is assumed about the set of audios.         *)

IsNext(n) == n \in OrdinalsAfter /\ \A m \in OrdinalsAfter : m <= n
TypeInv == TypeOK /\ \E n \in Nat : IsNext(n)

LEMMA NextOrdinalIsNext ==
  ASSUME TypeInv
  PROVE  /\ NextOrdinal \in Nat
         /\ \A a \in Registered : items[a].ordinal < NextOrdinal
<1>1. OrdinalsAfter \subseteq Nat
  BY DEF OrdinalsAfter, Registered, TypeInv, TypeOK, ItemRow
<1>2. IsNext(NextOrdinal)
  BY DEF TypeInv, IsNext, NextOrdinal
<1>3. \A a \in Registered : items[a].ordinal \in Nat /\ items[a].ordinal + 1 \in OrdinalsAfter
  BY DEF OrdinalsAfter, Registered, TypeInv, TypeOK, ItemRow
<1> QED BY <1>1, <1>2, <1>3 DEF IsNext

LEMMA InitTypeInv == Init => TypeInv
<1> SUFFICES ASSUME Init PROVE TypeInv
    OBVIOUS
<1>1. TypeOK
  BY DEF Init, TypeOK, NoItem, NoRow, ItemRow, StageRow, ItemStatus, StageStatus
<1>2. Registered = {}
  BY DEF Init, Registered, NoItem
<1>3. IsNext(0)
  BY <1>2 DEF IsNext, OrdinalsAfter
<1> QED BY <1>1, <1>3 DEF TypeInv

\* The registered audios after an operation: only register_items adds one.
LEMMA RegisteredAfter ==
  ASSUME TypeOK, NEW r \in Records, RegisterItem(r)
  PROVE  Registered' = Registered \cup {r.id}
BY RecordsAssumption DEF RegisterItem, Registered, tables, TypeOK, ItemRow

LEMMA RegisteredStep ==
  ASSUME TypeOK, [Next]_tables
  PROVE  \/ Registered' = Registered
         \/ \E r \in Records : RegisterItem(r) /\ Registered' = Registered \cup {r.id}
<1>1. ASSUME NEW a \in Audio, NEW status \in ItemStatus \ {"absent"}, SetItemStatus(a, status)
      PROVE  Registered' = Registered
  BY <1>1 DEF SetItemStatus, Registered, TypeOK, ItemRow
<1>2. ASSUME UNCHANGED items PROVE Registered' = Registered
  BY <1>2 DEF Registered
<1> QED
  BY <1>1, <1>2, RegisteredAfter
     DEF Next, tables, RecoverRunning, RowBecomes, PrepareStage, ClaimStage, FinishStage,
         FailStage

LEMMA RowBecomesType ==
  ASSUME TypeOK, NEW a \in Audio, NEW s \in Stages, NEW row \in StageRow,
         RowBecomes(a, s, row)
  PROVE  TypeOK'
BY DEF RowBecomes, TypeOK

\* There is still a next ordinal: the old one, or the one after it.
LEMMA StepNext ==
  ASSUME TypeInv, [Next]_tables
  PROVE  \E n \in Nat : IsNext(n)'
<1>1. PICK n \in Nat : IsNext(n)
  BY DEF TypeInv
<1>2. CASE OrdinalsAfter' = OrdinalsAfter
  BY <1>1, <1>2 DEF IsNext
<1>3. ASSUME NEW r \in Records, RegisterItem(r), r.id \notin Registered
      PROVE  \E m \in Nat : IsNext(m)'
  <2>1. /\ r.id \in Audio
        /\ items'[r.id].ordinal = NextOrdinal
        /\ \A a \in Audio : a # r.id => items'[a] = items[a]
    BY <1>3, RecordsAssumption DEF RegisterItem, TypeInv, TypeOK
  <2>2. Registered' = Registered \cup {r.id}
    BY <1>3, RegisteredAfter DEF TypeInv
  <2>3. \A a \in Registered : items'[a].ordinal = items[a].ordinal
    BY <1>3, <2>1 DEF Registered
  <2>4. OrdinalsAfter' = OrdinalsAfter \cup {NextOrdinal + 1}
    BY <2>1, <2>2, <2>3 DEF OrdinalsAfter
  <2>5. NextOrdinal \in Nat /\ OrdinalsAfter \subseteq Nat
    BY NextOrdinalIsNext DEF TypeInv, TypeOK, ItemRow, OrdinalsAfter, Registered
  <2>6. IsNext(NextOrdinal)
    BY DEF TypeInv, IsNext, NextOrdinal
  <2>7. \A m \in OrdinalsAfter' : m <= NextOrdinal + 1
    BY <2>4, <2>5, <2>6 DEF IsNext
  <2>8. \A k : (IsNext(k)' <=> k \in OrdinalsAfter' /\ \A m \in OrdinalsAfter' : m <= k)
    BY DEF IsNext
  <2> QED BY <2>4, <2>5, <2>7, <2>8
<1>4. ASSUME NEW r \in Records, RegisterItem(r), r.id \in Registered
      PROVE  OrdinalsAfter' = OrdinalsAfter
  BY <1>4 DEF RegisterItem, tables, OrdinalsAfter, Registered
<1>5. ASSUME NEW a \in Audio, NEW status \in ItemStatus \ {"absent"}, SetItemStatus(a, status)
      PROVE  OrdinalsAfter' = OrdinalsAfter
  <2>1. \A b \in Audio : items'[b].ordinal = items[b].ordinal
    BY <1>5 DEF SetItemStatus, TypeInv, TypeOK, ItemRow
  <2>2. Registered' = Registered
    BY <1>5 DEF SetItemStatus, Registered, TypeInv, TypeOK, ItemRow
  <2> QED BY <2>1, <2>2 DEF OrdinalsAfter, Registered
<1>6. CASE UNCHANGED items
  BY <1>2, <1>6 DEF OrdinalsAfter, Registered
<1> QED
  BY <1>2, <1>3, <1>4, <1>5, <1>6 DEF Next, tables, RecoverRunning, RowBecomes, PrepareStage,
     ClaimStage, FinishStage, FailStage

LEMMA StepTypeInv == TypeInv /\ [Next]_tables => TypeInv'
<1> SUFFICES ASSUME TypeInv, TypeOK, [Next]_tables PROVE TypeInv'
    BY DEF TypeInv
<1>1. \E n \in Nat : IsNext(n)'
  BY StepNext
<1>2. NextOrdinal \in Nat
  BY NextOrdinalIsNext
<1>3. TypeOK'
  <2>1. ASSUME NEW r \in Records, RegisterItem(r) PROVE TypeOK'
    BY <1>2, <2>1, RecordsAssumption DEF RegisterItem, tables, TypeOK, ItemRow, ItemStatus
  <2>2. CASE RecoverRunning
    <3>1. ASSUME NEW a \in Audio, NEW s \in Stages PROVE rows'[a][s] \in StageRow
      <4>1. /\ rows[a][s] \in StageRow
            /\ rows'[a][s] = IF rows[a][s].status = "running"
                             THEN [rows[a][s] EXCEPT !.status = "pending"] ELSE rows[a][s]
        BY <2>2 DEF RecoverRunning, TypeOK
      <4> QED BY <4>1 DEF StageRow, StageStatus
    <3>2. rows' \in [Audio -> [Stages -> StageRow]]
      BY <2>2, <3>1 DEF RecoverRunning
    <3> QED BY <2>2, <3>2 DEF RecoverRunning, TypeOK
  <2>3. ASSUME NEW a \in Audio, NEW status \in ItemStatus \ {"absent"},
               SetItemStatus(a, status)
        PROVE  TypeOK'
    BY <2>3 DEF SetItemStatus, TypeOK, ItemRow
  <2>4. ASSUME NEW a \in Audio, NEW s \in Stages, NEW i \in Inputs, PrepareStage(a, s, i)
        PROVE  TypeOK'
    BY <2>4, RowBecomesType DEF PrepareStage, tables, TypeOK, StageRow, StageStatus
  <2>5. ASSUME NEW a \in Audio, NEW s \in Stages, NEW i \in Inputs, ClaimStage(a, s, i)
        PROVE  TypeOK'
    BY <2>5, RowBecomesType DEF ClaimStage, TypeOK, StageRow, StageStatus
  <2>6. ASSUME NEW a \in Audio, NEW s \in Stages, NEW r \in Results, FinishStage(a, s, r)
        PROVE  TypeOK'
    BY <2>6, RowBecomesType DEF FinishStage, TypeOK, StageRow, StageStatus
  <2>7. ASSUME NEW a \in Audio, NEW s \in Stages, FailStage(a, s) PROVE TypeOK'
    BY <2>7, RowBecomesType DEF FailStage, TypeOK, StageRow, StageStatus
  <2>8. CASE UNCHANGED tables
    BY <2>8 DEF tables, TypeOK
  <2> QED BY <2>1, <2>2, <2>3, <2>4, <2>5, <2>6, <2>7, <2>8 DEF Next
<1> QED BY <1>1, <1>3 DEF TypeInv

LEMMA TypeInvariant == Spec => []TypeInv
BY InitTypeInv, StepTypeInv, PTL DEF Spec

\* Every reachable pair of tables is well-typed, whatever the clients call.
THEOREM TypeCorrect == Spec => []TypeOK
<1>1. TypeInv => TypeOK BY DEF TypeInv
<1> QED BY TypeInvariant, <1>1, PTL

-----------------------------------------------------------------------------
(* One step, seen from one stage row. *)

Recovered(row, new) ==
    /\ row.status = "running" /\ new.status = "pending"
    /\ new.attempt = row.attempt /\ new.input = row.input /\ new.result = row.result
Prepared(row, new) ==
    /\ row.status = "absent" /\ new.status = "pending"
    /\ new.attempt = 0 /\ new.input \in Inputs /\ new.result = None
Claimed(row, new) ==
    /\ row.status = "pending" /\ new.status = "running"
    /\ new.attempt = row.attempt + 1 /\ new.input = row.input /\ new.result = row.result
Ended(row, new) ==
    /\ row.status = "running" /\ new.status \in {"succeeded", "failed"}
    /\ new.attempt = row.attempt /\ new.input = row.input
    /\ new.status = "succeeded" => new.result \in Results
    /\ new.status = "failed" => new.result = None

\* Whatever the step, a stage row is left alone, recovered, prepared, claimed or ended,
\* and only a registered audio gets a row.
LEMMA RowStep ==
  ASSUME TypeOK, [Next]_tables, NEW a \in Audio, NEW s \in Stages
  PROVE  \/ rows'[a][s] = rows[a][s]
         \/ Recovered(rows[a][s], rows'[a][s])
         \/ Prepared(rows[a][s], rows'[a][s]) /\ a \in Registered
         \/ Claimed(rows[a][s], rows'[a][s])
         \/ Ended(rows[a][s], rows'[a][s])
<1>1. CASE UNCHANGED rows
  BY <1>1
<1>2. CASE RecoverRunning
  <2>1. rows[a][s] \in StageRow
    BY DEF TypeOK
  <2>2. rows'[a][s] = IF rows[a][s].status = "running"
                      THEN [rows[a][s] EXCEPT !.status = "pending"] ELSE rows[a][s]
    BY <1>2 DEF RecoverRunning
  <2> QED BY <2>1, <2>2 DEF Recovered, StageRow
<1>3. ASSUME NEW b \in Audio, NEW t \in Stages, NEW row, RowBecomes(b, t, row)
      PROVE  rows'[a][s] = IF a = b /\ s = t THEN row ELSE rows[a][s]
  BY <1>3 DEF RowBecomes, TypeOK
<1>4. ASSUME NEW b \in Audio, NEW t \in Stages, NEW i \in Inputs, PrepareStage(b, t, i)
      PROVE  \/ rows'[a][s] = rows[a][s]
             \/ Prepared(rows[a][s], rows'[a][s]) /\ a \in Registered
  <2>1. CASE rows[b][t].status = "absent"
    <3>1. RowBecomes(b, t, [status |-> "pending", attempt |-> 0,
                            input |-> i, result |-> None])
      BY <1>4, <2>1 DEF PrepareStage
    <3> QED BY <1>3, <1>4, <2>1, <3>1 DEF PrepareStage, Prepared
  <2>2. CASE rows[b][t].status # "absent"
    BY <1>4, <2>2 DEF PrepareStage, tables
  <2> QED BY <2>1, <2>2
<1>5. ASSUME NEW b \in Audio, NEW t \in Stages, NEW i \in Inputs, ClaimStage(b, t, i)
      PROVE  rows'[a][s] = rows[a][s] \/ Claimed(rows[a][s], rows'[a][s])
  BY <1>3, <1>5 DEF ClaimStage, Claimed
<1>6. ASSUME NEW b \in Audio, NEW t \in Stages, NEW r \in Results, FinishStage(b, t, r)
      PROVE  rows'[a][s] = rows[a][s] \/ Ended(rows[a][s], rows'[a][s])
  BY <1>3, <1>6 DEF FinishStage, Ended
<1>7. ASSUME NEW b \in Audio, NEW t \in Stages, FailStage(b, t)
      PROVE  rows'[a][s] = rows[a][s] \/ Ended(rows[a][s], rows'[a][s])
  BY <1>3, <1>7 DEF FailStage, Ended
<1> QED
  BY <1>1, <1>2, <1>4, <1>5, <1>6, <1>7 DEF Next, tables, RegisterItem, SetItemStatus

-----------------------------------------------------------------------------
(* The rows. *)

LEMMA InitRowsCoherent == Init => RowsCoherent
BY DEF Init, RowsCoherent, NoRow

LEMMA StepRowsCoherent == TypeInv /\ RowsCoherent /\ [Next]_tables => RowsCoherent'
<1> SUFFICES ASSUME TypeInv, RowsCoherent, [Next]_tables, NEW a \in Audio, NEW s \in Stages
             PROVE  LET row == rows'[a][s] IN
                    /\ row.status \in {"running", "succeeded", "failed"} => row.attempt > 0
                    /\ row.status = "succeeded" <=> row.result # None
                    /\ row.status = "absent" <=> row.input = None
                    /\ row.status # "absent" => a \in Registered'
    BY DEF RowsCoherent
<1> DEFINE row == rows[a][s]
           new == rows'[a][s]
<1>1. row \in StageRow /\ row.attempt \in Nat
  BY DEF TypeInv, TypeOK, StageRow
<1>2. /\ row.status \in {"running", "succeeded", "failed"} => row.attempt > 0
      /\ row.status = "succeeded" <=> row.result # None
      /\ row.status = "absent" <=> row.input = None
      /\ row.status # "absent" => a \in Registered
  BY DEF RowsCoherent
<1>3. Registered \subseteq Registered'
  BY RegisteredStep DEF TypeInv
<1>4. None \notin Inputs /\ None \notin Results
  BY NoneAssumption
<1>5. CASE new = row
  BY <1>2, <1>3, <1>5
<1>6. CASE Recovered(row, new)
  BY <1>1, <1>2, <1>3, <1>6 DEF Recovered, StageRow
<1>7. CASE Prepared(row, new) /\ a \in Registered
  BY <1>3, <1>4, <1>7 DEF Prepared
<1>8. CASE Claimed(row, new)
  BY <1>1, <1>2, <1>3, <1>8 DEF Claimed
<1>9. CASE Ended(row, new)
  BY <1>2, <1>3, <1>4, <1>9 DEF Ended
<1> HIDE DEF row, new
<1> QED BY <1>5, <1>6, <1>7, <1>8, <1>9, RowStep DEF TypeInv, row, new

\* A row has an outcome only if it was claimed, a result exactly while it says
\* succeeded, and an audio it belongs to: for any interleaving of the clients.
THEOREM RowsAreCoherent == Spec => []RowsCoherent
BY InitRowsCoherent, StepRowsCoherent, TypeInvariant, PTL DEF Spec

\* A committed result survives every step.
THEOREM ResultsAreFinal == Spec => SucceededIsFinal
<1>1. TypeInv /\ [Next]_tables =>
        [\A a \in Audio, s \in Stages :
           rows[a][s].status = "succeeded" => rows'[a][s] = rows[a][s]]_tables
  BY RowStep DEF TypeInv, Recovered, Prepared, Claimed, Ended
<1> QED BY <1>1, TypeInvariant, PTL DEF Spec, SucceededIsFinal

\* A prepared stage keeps its input fingerprint, and with it its request id.
THEOREM InputsAreFixed == Spec => InputIsFixed
<1>1. ASSUME TypeInv, [Next]_tables, NEW a \in Audio, NEW s \in Stages,
             rows[a][s].status # "absent"
      PROVE  rows'[a][s].status # "absent" /\ rows'[a][s].input = rows[a][s].input
  <2>1. rows[a][s] \in StageRow
    BY <1>1 DEF TypeInv, TypeOK
  <2> QED BY <1>1, <2>1, RowStep DEF TypeInv, Recovered, Prepared, Claimed, Ended, StageRow
<1>2. TypeInv /\ [Next]_tables =>
        [\A a \in Audio, s \in Stages :
           rows[a][s].status # "absent" =>
             /\ rows'[a][s].status # "absent"
             /\ rows'[a][s].input = rows[a][s].input]_tables
  BY <1>1
<1> QED BY <1>2, TypeInvariant, PTL DEF Spec, InputIsFixed

\* A row is first prepared with attempt 0, which is what an absent row counts as having.
Unattempted == \A a \in Audio, s \in Stages :
                  rows[a][s].status = "absent" => rows[a][s].attempt = 0

LEMMA AbsentUnattempted == Spec => []Unattempted
<1>1. Init => Unattempted
  BY DEF Init, NoRow, Unattempted
<1>2. TypeInv /\ Unattempted /\ [Next]_tables => Unattempted'
  <2> SUFFICES ASSUME TypeInv, Unattempted, [Next]_tables, NEW a \in Audio, NEW s \in Stages,
                      rows'[a][s].status = "absent"
               PROVE  rows'[a][s].attempt = 0
      BY DEF Unattempted
  <2> QED BY RowStep DEF TypeInv, Unattempted, Recovered, Prepared, Claimed, Ended
<1> QED BY <1>1, <1>2, TypeInvariant, PTL DEF Spec

\* The attempts of a stage are its claims, each of a row that was pending.
THEOREM AttemptsAreClaims == Spec => AttemptsCountClaims
<1>1. ASSUME TypeInv, Unattempted, [Next]_tables, NEW a \in Audio, NEW s \in Stages
      PROVE  \/ rows'[a][s].attempt = rows[a][s].attempt
             \/ /\ rows'[a][s].attempt = rows[a][s].attempt + 1
                /\ rows[a][s].status = "pending"
                /\ rows'[a][s].status = "running"
  <2>1. rows[a][s] \in StageRow
    BY <1>1 DEF TypeInv, TypeOK
  <2> QED BY <1>1, <2>1, RowStep
         DEF TypeInv, Unattempted, Recovered, Prepared, Claimed, Ended, StageRow
<1>2. TypeInv /\ Unattempted /\ [Next]_tables =>
        [\A a \in Audio, s \in Stages :
           \/ rows'[a][s].attempt = rows[a][s].attempt
           \/ /\ rows'[a][s].attempt = rows[a][s].attempt + 1
              /\ rows[a][s].status = "pending"
              /\ rows'[a][s].status = "running"]_tables
  BY <1>1
<1> QED BY <1>2, TypeInvariant, AbsentUnattempted, PTL DEF Spec, AttemptsCountClaims

-----------------------------------------------------------------------------
(* The ordinals: each is below the next one, which is therefore new. *)

OrdinalInv == TypeInv /\ OrdinalsDistinct

LEMMA InitOrdinalInv == Init => OrdinalInv
BY InitTypeInv DEF OrdinalInv, OrdinalsDistinct, Init, Registered, NoItem

LEMMA StepOrdinalInv == OrdinalInv /\ [Next]_tables => OrdinalInv'
<1> SUFFICES ASSUME OrdinalInv, [Next]_tables PROVE OrdinalsDistinct'
    BY StepTypeInv DEF OrdinalInv
<1>1. /\ TypeInv /\ TypeOK /\ Registered \subseteq Audio
      /\ \A a \in Audio : items[a].ordinal \in Nat
  BY DEF OrdinalInv, TypeInv, TypeOK, ItemRow, Registered
<1>2. CASE /\ Registered' = Registered
           /\ \A a \in Audio : items'[a].ordinal = items[a].ordinal
  BY <1>1, <1>2 DEF OrdinalInv, OrdinalsDistinct
<1>3. ASSUME NEW r \in Records, RegisterItem(r) PROVE OrdinalsDistinct'
  <2>1. CASE r.id \in Registered
    BY <1>2, <2>1, <1>3 DEF RegisterItem, tables, Registered
  <2>2. CASE r.id \notin Registered
    <3>1. /\ r.id \in Audio
          /\ items'[r.id].ordinal = NextOrdinal
          /\ \A a \in Audio : a # r.id => items'[a] = items[a]
      BY <1>1, <1>3, <2>2, RecordsAssumption DEF RegisterItem, TypeOK
    <3>2. Registered' = Registered \cup {r.id}
      BY <1>1, <1>3, RegisteredAfter
    <3>3. NextOrdinal \in Nat /\ \A a \in Registered : items[a].ordinal < NextOrdinal
      BY <1>1, NextOrdinalIsNext
    <3> QED BY <1>1, <2>2, <3>1, <3>2, <3>3 DEF OrdinalInv, OrdinalsDistinct
  <2> QED BY <2>1, <2>2
<1>4. ASSUME NEW a \in Audio, NEW status \in ItemStatus \ {"absent"}, SetItemStatus(a, status)
      PROVE  OrdinalsDistinct'
  BY <1>1, <1>2, <1>4 DEF SetItemStatus, Registered, TypeOK, ItemRow
<1>5. CASE UNCHANGED items
  BY <1>2, <1>5 DEF Registered
<1> QED
  BY <1>3, <1>4, <1>5 DEF Next, tables, RecoverRunning, RowBecomes, PrepareStage, ClaimStage,
     FinishStage, FailStage

\* No two audios of a job share an ordinal, however many times the job was resumed: the
\* unique index on (job_id, ordinal) never makes register_items fail.
THEOREM OrdinalsAreDistinct == Spec => []OrdinalsDistinct
<1>1. OrdinalInv => OrdinalsDistinct
  BY DEF OrdinalInv
<1> QED BY <1>1, InitOrdinalInv, StepOrdinalInv, PTL DEF Spec
=============================================================================
