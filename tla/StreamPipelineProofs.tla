------------------------- MODULE StreamPipelineProofs -------------------------
(***************************************************************************)
(* Invariants of the streaming runner, proved for any number of audios, any *)
(* list of full-track stages, any in-flight limit and any replies.          *)
(*                                                                         *)
(* The tables are used through their operations only, so what               *)
(* StreamStateProofs proves of one operation is used here as it stands.     *)
(*                                                                         *)
(* At the end, the proofs about Inventory, whose records the runner's          *)
(* producer hands it: for any number of paths, contents, replaced files and     *)
(* killed runs the hash cache never lies, and a run that sees no change of the    *)
(* folder writes what the folder holds.                                        *)
(***************************************************************************)
EXTENDS StreamPipeline, Inventory, FiniteSetTheorems, WellFoundedInduction, TLAPS

TableFacts == INSTANCE StreamStateProofs

\* Every name of a stage, and what the assumptions say of the tables' constants.
LEMMA ConstantFacts ==
  /\ TableFacts!NoneAssumption /\ TableFacts!RecordsAssumption
  /\ \A s \in Stages : Upstream(s) \subseteq Stages
  /\ Gate \in Stages /\ Discogs \in Stages /\ Asr \in Stages /\ FullTrack \subseteq Stages
  /\ Gate \notin FullTrack /\ Discogs \notin FullTrack /\ Asr \notin FullTrack
  /\ \A s \in Stages : s = Gate \/ s = Discogs \/ s = Asr \/ s \in FullTrack
<1>1. TableFacts!NoneAssumption /\ TableFacts!RecordsAssumption
  BY RunnerAssumption
     DEF RunnerAssumption, TableFacts!NoneAssumption, TableFacts!RecordsAssumption
<1>2. /\ Gate \in Stages /\ Discogs \in Stages /\ Asr \in Stages /\ FullTrack \subseteq Stages
      /\ \A s \in Stages : s = Gate \/ s = Discogs \/ s = Asr \/ s \in FullTrack
  BY DEF Stages
<1>3. Gate \notin FullTrack /\ Discogs \notin FullTrack /\ Asr \notin FullTrack
  BY RunnerAssumption DEF RunnerAssumption
<1>4. \A s \in Stages : Upstream(s) \subseteq Stages
  BY <1>2 DEF Upstream
<1> QED BY <1>1, <1>2, <1>3, <1>4

\* What each stage is sent: the results of these stages.
LEMMA UpstreamIs ==
  /\ Upstream(Gate) = {} /\ Upstream(Discogs) = {Gate}
  /\ Upstream(Asr) = {Gate, Discogs} \cup FullTrack
  /\ \A s \in FullTrack : Upstream(s) = {Gate, Discogs}
BY ConstantFacts DEF Upstream, Gate, Discogs, Asr

\* The instance of the proofs speaks of the same tables.
LEMMA SameTables ==
  /\ Table!Next <=> TableFacts!Next
  /\ tables = TableFacts!tables
  /\ Table!Init <=> TableFacts!Init
  /\ Table!Registered = TableFacts!Registered
  /\ Table!RowsCoherent <=> TableFacts!RowsCoherent
  /\ Table!OrdinalsDistinct <=> TableFacts!OrdinalsDistinct
<1> USE DEF Table!Registered, TableFacts!Registered, Table!tables, TableFacts!tables
<1>1. Table!Next <=> TableFacts!Next
  BY DEF Table!Next, Table!RegisterItem, Table!RecoverRunning, Table!SetItemStatus,
     Table!PrepareStage, Table!ClaimStage, Table!FinishStage, Table!FailStage,
     Table!InventoryChanged, Table!RowBecomes, Table!ItemStatus, Table!NextOrdinal,
     Table!OrdinalsAfter,
     TableFacts!Next, TableFacts!RegisterItem, TableFacts!RecoverRunning,
     TableFacts!SetItemStatus, TableFacts!PrepareStage, TableFacts!ClaimStage,
     TableFacts!FinishStage, TableFacts!FailStage, TableFacts!InventoryChanged,
     TableFacts!RowBecomes, TableFacts!ItemStatus, TableFacts!NextOrdinal,
     TableFacts!OrdinalsAfter
<1>2. Table!Init <=> TableFacts!Init
  BY DEF Table!Init, Table!NoItem, Table!NoRow, TableFacts!Init, TableFacts!NoItem,
     TableFacts!NoRow
<1>3. Table!RowsCoherent <=> TableFacts!RowsCoherent
  BY DEF Table!RowsCoherent, TableFacts!RowsCoherent
<1>4. Table!OrdinalsDistinct <=> TableFacts!OrdinalsDistinct
  BY DEF Table!OrdinalsDistinct, TableFacts!OrdinalsDistinct
<1> QED BY <1>1, <1>2, <1>3, <1>4 DEF tables

-----------------------------------------------------------------------------
(* The first invariant: types, and the order in which stages are dispatched. *)

\* What _ready_stages has seen before it names the stage.
MayRun(a, s) ==
    /\ s = Discogs => PassedGate(a)
    /\ s \in FullTrack => Routed(a)
    /\ s = Asr => TrackComplete(a) /\ IsSong(a)

\* A stage's result, stored or on its way, is one its service gives.
Answers ==
    \A a \in Audio, s \in Stages :
        /\ rows[a][s].result \in Replies[s] \cup {None}
        /\ call[a][s] \in Replies[s] \cup {None, "waiting"}

Ordered == \A a \in Audio, s \in Stages : ~Is(a, s, "absent") => MayRun(a, s)

\* Between the snapshot and the end of the scan, the items still to visit are pending, and
\* the ready list of the one being visited is what _ready_stages may name.
Control ==
    /\ scan \subseteq {a \in Audio : items[a].status = "pending"}
    /\ pc \notin {"scan", "submit", "claim", "commit"} => scan = {}
    /\ pc \in {"submit", "claim"} =>
          \A a \in Audio : Visiting(a) => \A s \in ready : MayRun(a, s)
    /\ pc = "putback" => held \in Entries

IInv == /\ TypeOK /\ TableFacts!OrdinalInv /\ TableFacts!RowsCoherent
        /\ Answers /\ Ordered /\ StageInputCurrent /\ Control

\* The types of the runner's own variables, as far as the tables are not concerned.
Typed ==
    /\ annotations \in [Audio -> Annotations \cup {None}]
    /\ runs \in 0..MaxRuns /\ pc \in PCs /\ exit \in Exits
    /\ todo \in Seq(Entries) /\ queue \in Seq(Entries) /\ held \in Entries \cup {None}
    /\ finished \in BOOLEAN /\ backlog \in BOOLEAN /\ progress \in BOOLEAN
    /\ seen \subseteq Audio /\ scan \subseteq Audio
    /\ ready \subseteq Stages /\ healthy \subseteq Stages
    /\ call \in [Audio -> [Stages -> Results \cup {None, "waiting", Error}]]

LEMMA TypeOKSplits == TypeOK <=> TableFacts!TypeOK /\ Typed
BY DEF TypeOK, Typed, Row, Table!ItemRow, Table!ItemStatus, Table!StageStatus,
   TableFacts!TypeOK, TableFacts!ItemRow, TableFacts!StageRow, TableFacts!ItemStatus,
   TableFacts!StageStatus

\* What a stage waits for has succeeded.
LEMMA RunsAfterSuccess ==
  ASSUME NEW a \in Audio, NEW s \in Stages, MayRun(a, s)
  PROVE  \A u \in Upstream(s) : Succeeded(a, u)
BY UpstreamIs, ConstantFacts DEF MayRun, TrackComplete, Routed, PassedGate

\* The record a stage may be sent is an input.
LEMMA InputIsInput ==
  ASSUME IInv, NEW a \in Audio, NEW s \in Stages, MayRun(a, s)
  PROVE  InputOf(a, s) \in Inputs
<1>1. \A u \in Upstream(s) : /\ rows[a][u].result \in Results
                             /\ rows[a][u].result \in Replies[u]
  <2>1. \A u \in Upstream(s) : u \in Stages /\ Succeeded(a, u)
    BY RunsAfterSuccess, ConstantFacts
  <2>2. \A u \in Upstream(s) : /\ rows[a][u].result # None
                               /\ rows[a][u].result \in Replies[u] \cup {None}
    BY <2>1 DEF IInv, TableFacts!RowsCoherent, Answers, Succeeded, Is
  <2>3. \A u \in Upstream(s) : rows[a][u].result \in Results \cup {None}
    BY <2>1 DEF IInv, TypeOK, Row
  <2> QED BY <2>2, <2>3
<1>2. InputOf(a, s) \in InputsOf(s)
  BY <1>1 DEF InputOf, InputsOf
<1> QED BY <1>2 DEF Inputs

\* The one row a statement on stream_stages writes.
LEMMA RowWritten ==
  ASSUME TypeOK, NEW a \in Audio, NEW s \in Stages, NEW row, Table!RowBecomes(a, s, row),
         NEW b \in Audio, NEW t \in Stages
  PROVE  rows'[b][t] = IF a = b /\ s = t THEN row ELSE rows[b][t]
BY DEF Table!RowBecomes, TypeOK

-----------------------------------------------------------------------------
(* Every step of the runner is a step of the tables, or leaves them alone. *)

LEMMA PreparedInOrder ==
  ASSUME IInv, NEW a \in Audio, NEW s \in Stages, Prepare(a, s)
  PROVE  MayRun(a, s) /\ InputOf(a, s) \in Inputs
<1>1. MayRun(a, s)
  BY DEF Prepare, NextReady, IInv, Control
<1> QED BY <1>1, InputIsInput

LEMMA ClaimedInput ==
  ASSUME IInv, NEW a \in Audio, NEW s \in Stages, Table!ClaimStage(a, s, InputOf(a, s))
  PROVE  InputOf(a, s) \in Inputs
<1>1. Is(a, s, "pending") /\ rows[a][s].input = InputOf(a, s)
  BY DEF Table!ClaimStage, Is
<1> QED BY <1>1 DEF IInv, TypeOK, Row, TableFacts!RowsCoherent, Is

LEMMA TableStep == IInv /\ [Next]_vars => [Table!Next]_tables
<1> SUFFICES ASSUME IInv, [Next]_vars PROVE [Table!Next]_tables
    OBVIOUS
<1>1. ASSUME Start PROVE Table!Next
  BY <1>1 DEF Start, Table!Next
<1>2. ASSUME NEW a \in Audio, Repair(a) PROVE Table!Next
  BY <1>2 DEF Repair, Table!Next, Table!ItemStatus
<1>3. ASSUME NEW r \in Records, TakeRecord(r) PROVE Table!Next
  BY <1>3 DEF TakeRecord, Table!Next
<1>4. ASSUME DecodeFailed PROVE Table!Next
  BY <1>4 DEF DecodeFailed, Table!Next, Table!ItemStatus, Table!SetItemStatus,
     Table!Registered
<1>5. ASSUME NEW a \in Audio, NEW status \in Terminal, SettleItem(a, status)
      PROVE  Table!Next
  BY <1>5 DEF SettleItem, Table!Next, Table!ItemStatus, Terminal, Verdicts
<1>6. ASSUME NEW a \in Audio, EndItem(a) PROVE Table!Next
  BY <1>5, <1>6 DEF EndItem, Verdict, Terminal, Verdicts
<1>7. ASSUME NEW a \in Audio, CommitPublished(a) \/ PublishRaises(a) PROVE Table!Next
  BY <1>5, <1>7 DEF CommitPublished, PublishRaises, Terminal
<1>8. ASSUME NEW a \in Audio, NEW s \in Stages, Prepare(a, s) PROVE Table!Next
  BY <1>8, PreparedInOrder DEF Prepare, Table!Next
<1>9. ASSUME NEW a \in Audio, NEW s \in Stages, Submit(a, s) \/ Unhealthy(a, s)
      PROVE  Table!Next
  BY <1>9, ClaimedInput DEF Submit, Unhealthy, Table!Next
<1>10. ASSUME NEW a \in Audio, NEW s \in Stages, Collect(a, s) PROVE Table!Next
  <2>1. CASE call[a][s] = Error
    BY <1>10, <2>1 DEF Collect, Table!Next
  <2>2. CASE call[a][s] # Error
    <3>1. call[a][s] \in Results
      BY <1>10, <2>2 DEF Collect, Answered, IInv, TypeOK
    <3> QED BY <1>10, <2>2, <3>1 DEF Collect, Table!Next
  <2> QED BY <2>1, <2>2
<1>11. ASSUME \/ Crash \/ Produce \/ BeginLoop \/ TakeDone \/ TakeInvalid \/ Snapshot
              \/ EndScan \/ AfterWait \/ EndLoop \/ GoRound \/ Peek \/ PutBack
              \/ Finalize \/ Validate
       PROVE  UNCHANGED tables
  BY <1>11 DEF Crash, Produce, BeginLoop, TakeDone, TakeInvalid, Snapshot, EndScan,
     AfterWait, EndLoop, GoRound, Peek, PutBack, Finalize, Validate, LoopAgain
<1>12. ASSUME NEW a \in Audio, \/ Vanish(a) \/ RaiseOnItem(a) \/ WriteAnnotation(a)
                               \/ Dispatch(a) \/ PassOver(a) \/ EndSubmit(a)
       PROVE  UNCHANGED tables
  BY <1>12 DEF Vanish, RaiseOnItem, WriteAnnotation, Dispatch, PassOver, EndSubmit
<1>13. ASSUME NEW a \in Audio, NEW s \in Stages, Reply(a, s) PROVE UNCHANGED tables
  BY <1>13 DEF Reply
<1>14. CASE UNCHANGED vars
  BY <1>14 DEF vars
<1>15. UNCHANGED tables => UNCHANGED Table!tables
  BY DEF tables, Table!tables
<1> QED
  BY <1>1, <1>2, <1>3, <1>4, <1>6, <1>7, <1>8, <1>9, <1>10, <1>11, <1>12, <1>13, <1>14,
     <1>15 DEF Next, MainStep, tables

\* The steps that leave the stage rows alone.
LEMMA RowsKept ==
  ASSUME [Next]_vars
  PROVE  \/ UNCHANGED rows
         \/ Start
         \/ \E a \in Audio, s \in Stages : \/ Prepare(a, s) \/ Submit(a, s)
                                           \/ Unhealthy(a, s) \/ Collect(a, s)
<1>1. ASSUME \/ Crash \/ Produce \/ BeginLoop \/ TakeDone \/ TakeInvalid \/ Snapshot
             \/ EndScan \/ AfterWait \/ EndLoop \/ GoRound \/ Peek \/ PutBack
             \/ Finalize \/ Validate
      PROVE  UNCHANGED rows
  BY <1>1 DEF Crash, Produce, BeginLoop, TakeDone, TakeInvalid, Snapshot, EndScan,
     AfterWait, EndLoop, GoRound, Peek, PutBack, Finalize, Validate, LoopAgain, tables
<1>2. ASSUME NEW a \in Audio, \/ Vanish(a) \/ RaiseOnItem(a) \/ WriteAnnotation(a)
                              \/ Dispatch(a) \/ PassOver(a) \/ EndSubmit(a)
      PROVE  UNCHANGED rows
  BY <1>2 DEF Vanish, RaiseOnItem, WriteAnnotation, Dispatch, PassOver, EndSubmit, tables
<1>3. ASSUME NEW a \in Audio, \/ Repair(a) \/ EndItem(a) \/ CommitPublished(a)
                              \/ PublishRaises(a)
      PROVE  UNCHANGED rows
  BY <1>3 DEF Repair, EndItem, CommitPublished, PublishRaises, SettleItem,
     Table!SetItemStatus
<1>4. ASSUME DecodeFailed PROVE UNCHANGED rows
  BY <1>4 DEF DecodeFailed, Table!SetItemStatus
<1>5. ASSUME NEW r \in Records, TakeRecord(r) PROVE UNCHANGED rows
  BY <1>5 DEF TakeRecord, Table!RegisterItem, Table!tables
<1>6. ASSUME NEW a \in Audio, NEW s \in Stages, Reply(a, s) PROVE UNCHANGED rows
  BY <1>6 DEF Reply, tables
<1>7. CASE UNCHANGED vars
  BY <1>7 DEF vars, tables
<1> QED BY <1>1, <1>2, <1>3, <1>4, <1>5, <1>6, <1>7 DEF Next, MainStep

LEMMA FactsStep == IInv /\ [Next]_vars => [TableFacts!Next]_(TableFacts!tables)
BY TableStep, SameTables DEF tables, TableFacts!tables

\* What one step may do to one row.
LEMMA OneRow ==
  ASSUME IInv, [Next]_vars, NEW a \in Audio, NEW s \in Stages
  PROVE  \/ rows'[a][s] = rows[a][s]
         \/ TableFacts!Recovered(rows[a][s], rows'[a][s])
         \/ /\ TableFacts!Prepared(rows[a][s], rows'[a][s])
            /\ a \in TableFacts!Registered
         \/ TableFacts!Claimed(rows[a][s], rows'[a][s])
         \/ TableFacts!Ended(rows[a][s], rows'[a][s])
<1>1. TableFacts!TypeOK
  BY TypeOKSplits DEF IInv
<1> QED BY <1>1, FactsStep, ConstantFacts, TableFacts!RowStep

LEMMA SuccessStays ==
  ASSUME IInv, [Next]_vars, NEW a \in Audio, NEW s \in Stages, Succeeded(a, s)
  PROVE  rows'[a][s] = rows[a][s] /\ Succeeded(a, s)'
BY OneRow DEF Succeeded, Is, TableFacts!Recovered, TableFacts!Prepared,
   TableFacts!Claimed, TableFacts!Ended

\* Once a stage may run it always may: it waits for results that are final.
LEMMA RouteStays ==
  ASSUME IInv, [Next]_vars, NEW a \in Audio
  PROVE  /\ PassedGate(a) => PassedGate(a)'
         /\ Routed(a) => Routed(a)' /\ (IsSong(a) <=> IsSong(a)')
         /\ TrackComplete(a) => TrackComplete(a)'
<1>1. PassedGate(a) => PassedGate(a)'
  BY SuccessStays, ConstantFacts DEF PassedGate
<1>2. Routed(a) => Routed(a)' /\ (IsSong(a) <=> IsSong(a)')
  BY <1>1, SuccessStays, ConstantFacts DEF Routed, IsSong
<1>3. TrackComplete(a) => TrackComplete(a)'
  BY <1>2, SuccessStays, ConstantFacts DEF TrackComplete
<1> QED BY <1>1, <1>2, <1>3

LEMMA MayRunStays ==
  ASSUME IInv, [Next]_vars, NEW a \in Audio, NEW s \in Stages, MayRun(a, s)
  PROVE  MayRun(a, s)' /\ InputOf(a, s)' = InputOf(a, s)
<1>1. MayRun(a, s)'
  BY RouteStays DEF MayRun, TrackComplete
<1>2. \A u \in Upstream(s) : rows'[a][u] = rows[a][u]
  BY RunsAfterSuccess, SuccessStays, ConstantFacts
<1>3. InputOf(a, s)' = [u \in Upstream(s) |-> rows'[a][u].result]
  BY DEF InputOf
<1>4. InputOf(a, s)' = InputOf(a, s)
  BY <1>2, <1>3 DEF InputOf
<1> QED BY <1>1, <1>4

\* A row comes into being by a prepare, of a stage that may run, on its current input.
LEMMA NewRow ==
  ASSUME IInv, [Next]_vars, NEW a \in Audio, NEW s \in Stages,
         Is(a, s, "absent"), ~Is(a, s, "absent")'
  PROVE  Prepare(a, s) /\ MayRun(a, s) /\ rows'[a][s].input = InputOf(a, s)
<1> USE DEF Is
<1>1. ~UNCHANGED rows
  OBVIOUS
<1>2. ~Start
  BY DEF Start, Table!RecoverRunning
<1>3. TypeOK
  BY DEF IInv
<1>4. ASSUME NEW b \in Audio, NEW t \in Stages, Prepare(b, t)
      PROVE  Prepare(a, s) /\ MayRun(a, s) /\ rows'[a][s].input = InputOf(a, s)
  <2>1. Table!PrepareStage(b, t, InputOf(b, t)) /\ MayRun(b, t)
    BY <1>4, PreparedInOrder DEF Prepare
  <2>2. Table!RowBecomes(b, t, [status |-> "pending", attempt |-> 0,
                                input |-> InputOf(b, t), result |-> None])
    BY <1>1, <2>1 DEF Table!PrepareStage, Table!tables
  <2>3. a = b /\ s = t /\ rows'[a][s].input = InputOf(a, s)
    BY <1>3, <2>2, RowWritten
  <2> QED BY <1>4, <2>1, <2>3
<1>5. ASSUME NEW b \in Audio, NEW t \in Stages, Submit(b, t) \/ Unhealthy(b, t)
      PROVE  FALSE
  BY <1>3, <1>5, RowWritten DEF Submit, Unhealthy, Table!ClaimStage
<1>6. ASSUME NEW b \in Audio, NEW t \in Stages, Collect(b, t) PROVE FALSE
  BY <1>3, <1>6, RowWritten DEF Collect, Table!FailStage, Table!FinishStage
<1> QED BY <1>1, <1>2, <1>4, <1>5, <1>6, RowsKept

-----------------------------------------------------------------------------
(* The first invariant is inductive: its parts, one after the other. *)

LEMMA StopTyped ==
  ASSUME NEW e \in Exits, Stop(e)
  PROVE  /\ pc' \in PCs /\ exit' \in Exits
         /\ todo' \in Seq(Entries) /\ queue' \in Seq(Entries) /\ held' \in Entries \cup {None}
         /\ finished' \in BOOLEAN /\ backlog' \in BOOLEAN /\ progress' \in BOOLEAN
         /\ seen' \subseteq Audio /\ scan' \subseteq Audio
         /\ ready' \subseteq Stages /\ healthy' \subseteq Stages
         /\ call' \in [Audio -> [Stages -> Results \cup {None, "waiting", Error}]]
<1>1. Idle \in [Audio -> [Stages -> Results \cup {None, "waiting", Error}]]
  BY DEF Idle
<1>2. <<>> \in Seq(Entries)
  OBVIOUS
<1> QED BY <1>1, <1>2 DEF Stop, PCs

LEMMA StepTyped == IInv /\ [Next]_vars => Typed'
<1> SUFFICES ASSUME IInv, Typed, [Next]_vars PROVE Typed'
    BY TypeOKSplits DEF IInv
<1>1. /\ \A r \in Records : r.id \in Audio
      /\ Inventories \subseteq Seq(Entries) /\ Done \in Entries
      /\ MaxRuns \in Nat
  BY RunnerAssumption DEF RunnerAssumption, Entries
<1> USE DEF Typed, files, thread, loop
<1>2. CASE Start
  <2>1. PICK records \in Inventories : todo' = Append(records, Done)
    BY <1>2 DEF Start
  <2>2. todo' \in Seq(Entries)
    BY <1>1, <2>1
  <2>3. runs' \in 0..MaxRuns
    BY <1>1, <1>2 DEF Start
  <2> QED BY <1>2, <2>2, <2>3 DEF Start, PCs, Exits
<1>3. CASE Crash
  BY <1>3, StopTyped DEF Crash, Exits
<1>4. CASE Produce
  BY <1>4 DEF Produce
<1>5. CASE BeginLoop \/ TakeDone \/ DecodeFailed
  <2>1. CASE BeginLoop
    BY <2>1 DEF BeginLoop, PCs
  <2>2. CASE TakeDone
    <3>1. Tail(queue) \in Seq(Entries)
      BY <2>2 DEF TakeDone
    <3> QED BY <2>2, <3>1 DEF TakeDone
  <2>3. CASE DecodeFailed
    BY <2>3 DEF DecodeFailed, PCs
  <2> QED BY <1>5, <2>1, <2>2, <2>3
<1>6. CASE TakeInvalid
  BY <1>6, StopTyped DEF TakeInvalid, Exits
<1>7. CASE Snapshot
  <2>1. CASE finished /\ Table!Registered \ seen # {}
    BY <1>7, <2>1, StopTyped DEF Snapshot, Exits
  <2>2. CASE ~(finished /\ Table!Registered \ seen # {})
    BY <1>7, <2>2 DEF Snapshot, PCs
  <2> QED BY <2>1, <2>2
<1>8. CASE EndScan \/ AfterWait \/ GoRound
  BY <1>8 DEF EndScan, AfterWait, GoRound, LoopAgain, PCs
<1>9. CASE EndLoop
  BY <1>9, StopTyped DEF EndLoop, Exits, PCs
<1>10. CASE Peek
  BY <1>10 DEF Peek, PCs
<1>11. CASE PutBack
  <2>1. held \in Entries
    BY <1>11 DEF PutBack, IInv, Control
  <2>2. Append(queue, held) \in Seq(Entries)
    BY <2>1
  <2> QED BY <1>11, <2>2 DEF PutBack, LoopAgain, PCs
<1>12. CASE Finalize
  BY <1>12 DEF Finalize, PCs
<1>13. CASE Validate
  BY <1>13, StopTyped DEF Validate, Exits
<1>14. ASSUME NEW r \in Records, TakeRecord(r) PROVE Typed'
  BY <1>1, <1>14 DEF TakeRecord, PCs, Entries
<1>15. ASSUME NEW a \in Audio, Repair(a) \/ Vanish(a) PROVE Typed'
  BY <1>15 DEF Repair, Vanish
<1>16. ASSUME NEW a \in Audio, \/ EndItem(a) \/ CommitPublished(a) \/ PublishRaises(a)
                               \/ PassOver(a) \/ EndSubmit(a)
       PROVE  Typed'
  BY <1>16 DEF EndItem, CommitPublished, PublishRaises, PassOver, EndSubmit, SettleItem,
     Leave, PCs
<1>17. ASSUME NEW a \in Audio, RaiseOnItem(a) PROVE Typed'
  BY <1>17, StopTyped DEF RaiseOnItem, Exits
<1>18. ASSUME NEW a \in Audio, WriteAnnotation(a) PROVE Typed'
  <2>1. Annotation(a) \in Annotations
    BY DEF Annotation, Annotations, IInv, TypeOK, Row
  <2> QED BY <1>18, <2>1 DEF WriteAnnotation, PCs
<1>19. ASSUME NEW a \in Audio, Dispatch(a) PROVE Typed'
  <2>1. ReadyStages(a) \subseteq Stages
    BY ConstantFacts DEF ReadyStages
  <2> QED BY <1>19, <2>1 DEF Dispatch, PCs
<1>20. ASSUME NEW a \in Audio, NEW s \in Stages, Prepare(a, s) \/ Submit(a, s)
       PROVE  Typed'
  <2>1. CASE Prepare(a, s)
    BY <2>1 DEF Prepare, PCs
  <2>2. CASE Submit(a, s)
    <3>1. call' \in [Audio -> [Stages -> Results \cup {None, "waiting", Error}]]
      BY <2>2 DEF Submit
    <3> QED BY <2>2, <3>1 DEF Submit, PCs
  <2> QED BY <1>20, <2>1, <2>2
<1>21. ASSUME NEW a \in Audio, NEW s \in Stages, Unhealthy(a, s) PROVE Typed'
  BY <1>21, StopTyped DEF Unhealthy, Exits
<1>22. ASSUME NEW a \in Audio, NEW s \in Stages, Collect(a, s) PROVE Typed'
  BY <1>22 DEF Collect, PCs
<1>23. ASSUME NEW a \in Audio, NEW s \in Stages, Reply(a, s) PROVE Typed'
  <2>1. Replies[s] \subseteq Results \cup {Error}
    BY RunnerAssumption DEF RunnerAssumption
  <2> QED BY <1>23, <2>1 DEF Reply
<1>24. CASE UNCHANGED vars
  BY <1>24 DEF vars
<1> QED
  BY <1>2, <1>3, <1>4, <1>5, <1>6, <1>7, <1>8, <1>9, <1>10, <1>11, <1>12, <1>13, <1>14,
     <1>15, <1>16, <1>17, <1>18, <1>19, <1>20, <1>21, <1>22, <1>23, <1>24
     DEF Next, MainStep

\* The steps that touch the in-flight calls.
LEMMA CallsKept ==
  ASSUME [Next]_vars
  PROVE  \/ UNCHANGED call /\ (pc' = "down" => pc = "down")
         \/ pc # "down" /\ pc' = "down" /\ call' = Idle
         \/ \E a \in Audio, s \in Stages : Submit(a, s) \/ Collect(a, s) \/ Reply(a, s)
<1> USE DEF loop
<1>1. ASSUME \/ Start \/ Produce \/ BeginLoop \/ TakeDone \/ DecodeFailed
             \/ EndScan \/ AfterWait \/ GoRound \/ Peek \/ PutBack \/ Finalize
      PROVE  UNCHANGED call /\ (pc' = "down" => pc = "down")
  BY <1>1 DEF Start, Produce, BeginLoop, TakeDone, DecodeFailed, EndScan, AfterWait,
     GoRound, Peek, PutBack, Finalize, LoopAgain
<1>2. ASSUME Crash \/ TakeInvalid \/ Validate
      PROVE  pc # "down" /\ pc' = "down" /\ call' = Idle
  BY <1>2 DEF Crash, TakeInvalid, Validate, Stop
<1>3. ASSUME EndLoop \/ Snapshot
      PROVE  \/ UNCHANGED call /\ pc' # "down"
             \/ pc # "down" /\ pc' = "down" /\ call' = Idle
  BY <1>3 DEF EndLoop, Snapshot, Stop
<1>4. ASSUME NEW a \in Audio, \/ Vanish(a) \/ WriteAnnotation(a) \/ Dispatch(a)
                              \/ PassOver(a) \/ EndSubmit(a) \/ Repair(a) \/ EndItem(a)
                              \/ CommitPublished(a) \/ PublishRaises(a)
      PROVE  UNCHANGED call /\ (pc' = "down" => pc = "down")
  BY <1>4 DEF Vanish, WriteAnnotation, Dispatch, PassOver, EndSubmit, Repair, EndItem,
     CommitPublished, PublishRaises, SettleItem, Scanning
<1>5. ASSUME NEW a \in Audio, RaiseOnItem(a)
      PROVE  pc # "down" /\ pc' = "down" /\ call' = Idle
  BY <1>5 DEF RaiseOnItem, Scanning, Stop
<1>6. ASSUME NEW r \in Records, TakeRecord(r)
      PROVE  UNCHANGED call /\ (pc' = "down" => pc = "down")
  BY <1>6 DEF TakeRecord
<1>7. ASSUME NEW a \in Audio, NEW s \in Stages, Prepare(a, s)
      PROVE  UNCHANGED call /\ pc' # "down"
  BY <1>7 DEF Prepare
<1>8. ASSUME NEW a \in Audio, NEW s \in Stages, Unhealthy(a, s)
      PROVE  pc # "down" /\ pc' = "down" /\ call' = Idle
  BY <1>8 DEF Unhealthy, Stop
<1>9. CASE UNCHANGED vars
  BY <1>9 DEF vars
<1> QED BY <1>1, <1>2, <1>3, <1>4, <1>5, <1>6, <1>7, <1>8, <1>9 DEF Next, MainStep

LEMMA CallWritten ==
  ASSUME TypeOK, NEW a \in Audio, NEW s \in Stages, NEW v,
         call' = [call EXCEPT ![a][s] = v],
         NEW b \in Audio, NEW t \in Stages
  PROVE  call'[b][t] = IF a = b /\ s = t THEN v ELSE call[b][t]
BY DEF TypeOK

LEMMA StepAnswers == IInv /\ [Next]_vars => Answers'
<1> SUFFICES ASSUME IInv, TypeOK, Answers, [Next]_vars, NEW a \in Audio, NEW s \in Stages
             PROVE  /\ rows'[a][s].result \in Replies[s] \cup {None}
                    /\ call'[a][s] \in Replies[s] \cup {None, "waiting"}
    BY DEF Answers, IInv
<1>1. rows'[a][s].result \in Replies[s] \cup {None}
  <2>1. CASE UNCHANGED rows
    BY <2>1 DEF Answers
  <2>2. CASE rows'[a][s].result = rows[a][s].result
    BY <2>2 DEF Answers
  <2>3. CASE Start
    <3>1. rows[a][s] \in Row
      BY DEF TypeOK
    <3>2. rows'[a][s] = IF rows[a][s].status = "running"
                        THEN [rows[a][s] EXCEPT !.status = "pending"] ELSE rows[a][s]
      BY <2>3 DEF Start, Table!RecoverRunning
    <3>3. rows'[a][s].result = rows[a][s].result
      BY <3>1, <3>2 DEF Row
    <3> QED BY <2>2, <3>3
  <2>4. ASSUME NEW b \in Audio, NEW t \in Stages, Prepare(b, t)
        PROVE  rows'[a][s].result \in Replies[s] \cup {None}
    <3>1. CASE rows[b][t].status = "absent"
      BY <2>4, <3>1, RowWritten DEF Prepare, Table!PrepareStage, Answers
    <3>2. CASE rows[b][t].status # "absent"
      BY <2>1, <2>4, <3>2 DEF Prepare, Table!PrepareStage, Table!tables
    <3> QED BY <3>1, <3>2
  <2>5. ASSUME NEW b \in Audio, NEW t \in Stages, Submit(b, t) \/ Unhealthy(b, t)
        PROVE  rows'[a][s].result \in Replies[s] \cup {None}
    BY <2>5, RowWritten DEF Submit, Unhealthy, Table!ClaimStage, Answers
  <2>6. ASSUME NEW b \in Audio, NEW t \in Stages, Collect(b, t)
        PROVE  rows'[a][s].result \in Replies[s] \cup {None}
    <3>1. CASE call[b][t] = Error
      BY <2>6, <3>1, RowWritten DEF Collect, Table!FailStage, Answers
    <3>2. CASE call[b][t] # Error
      <4>1. call[b][t] \in Replies[t]
        BY <2>6 DEF Collect, Answered, Answers
      <4> QED BY <2>6, <3>2, <4>1, RowWritten DEF Collect, Table!FinishStage, Answers
    <3> QED BY <3>1, <3>2
  <2> QED BY <2>1, <2>3, <2>4, <2>5, <2>6, RowsKept
<1>2. call'[a][s] \in Replies[s] \cup {None, "waiting"}
  <2>1. CASE UNCHANGED call \/ call' = Idle
    BY <2>1 DEF Answers, Idle
  <2>2. ASSUME NEW b \in Audio, NEW t \in Stages, Submit(b, t) \/ Collect(b, t)
        PROVE  call'[a][s] \in Replies[s] \cup {None, "waiting"}
    BY <2>2, CallWritten DEF Submit, Collect, Answers
  <2>3. ASSUME NEW b \in Audio, NEW t \in Stages, Reply(b, t)
        PROVE  call'[a][s] \in Replies[s] \cup {None, "waiting"}
    <3>1. PICK r \in Replies[t] : call' = [call EXCEPT ![b][t] = r]
      BY <2>3 DEF Reply
    <3> QED BY <3>1, CallWritten DEF Answers
  <2> QED BY <2>1, <2>2, <2>3, CallsKept
<1> QED BY <1>1, <1>2

LEMMA StepOrdered == IInv /\ [Next]_vars => Ordered' /\ StageInputCurrent'
<1> SUFFICES ASSUME IInv, [Next]_vars, NEW a \in Audio, NEW s \in Stages,
                    ~Is(a, s, "absent")'
             PROVE  MayRun(a, s)' /\ rows'[a][s].input = InputOf(a, s)'
    BY DEF Ordered, StageInputCurrent
<1>1. CASE Is(a, s, "absent")
  BY <1>1, NewRow, MayRunStays
<1>2. CASE ~Is(a, s, "absent")
  <2>1. MayRun(a, s) /\ rows[a][s].input = InputOf(a, s)
    BY <1>2 DEF IInv, Ordered, StageInputCurrent
  <2>2. rows'[a][s].input = rows[a][s].input
    BY <1>2, OneRow DEF Is, TableFacts!Recovered, TableFacts!Prepared, TableFacts!Claimed,
       TableFacts!Ended
  <2> QED BY <2>1, <2>2, MayRunStays
<1> QED BY <1>1, <1>2

\* The scan visits one item at a time: the ordinals are distinct.
LEMMA OneVisited ==
  ASSUME IInv, NEW a \in Audio, NEW b \in Audio, Visiting(a), Visiting(b)
  PROVE  a = b
<1>1. a \in TableFacts!Registered /\ b \in TableFacts!Registered
  BY DEF IInv, Control, Visiting, TableFacts!Registered
<1>2. items[a].ordinal \in Nat /\ items[b].ordinal \in Nat
  BY DEF IInv, TypeOK, Table!ItemRow
<1>3. items[a].ordinal = items[b].ordinal
  BY <1>2 DEF Visiting
<1> QED BY <1>1, <1>3 DEF IInv, TableFacts!OrdinalInv, TableFacts!OrdinalsDistinct

\* _ready_stages names only stages that may run.
LEMMA ReadyMayRun ==
  ASSUME IInv, NEW a \in Audio, NEW s \in ReadyStages(a)
  PROVE  s \in Stages /\ MayRun(a, s)
<1>1. s = Gate => MayRun(a, s)
  BY ConstantFacts DEF MayRun, Gate, Discogs, Asr
<1>2. s = Discogs /\ PassedGate(a) => MayRun(a, s)
  BY ConstantFacts DEF MayRun, Discogs, Asr
<1>3. s \in FullTrack /\ Routed(a) => MayRun(a, s)
  BY ConstantFacts DEF MayRun
<1>4. s = Asr /\ TrackComplete(a) /\ IsSong(a) => MayRun(a, s)
  BY ConstantFacts DEF MayRun, Asr, Discogs
<1> QED BY <1>1, <1>2, <1>3, <1>4, ConstantFacts DEF ReadyStages

LEMMA StopControl == ASSUME NEW e, Stop(e) PROVE Control'
BY DEF Stop, Control

\* Nothing the scan depends on changes.
LEMMA SameControl ==
  ASSUME IInv, [Next]_vars, UNCHANGED <<items, scan, ready, pc, held>>
  PROVE  Control'
<1>1. \A a \in Audio : Visiting(a)' <=> Visiting(a)
  BY DEF Visiting
<1>2. ASSUME NEW a \in Audio, NEW s \in Stages, MayRun(a, s) PROVE MayRun(a, s)'
  BY <1>2, MayRunStays
<1> QED BY <1>1, <1>2 DEF Control, IInv, TypeOK

\* A settled item leaves the scan, and the others are as pending as they were.
LEMMA SettledControl ==
  ASSUME IInv, NEW a \in Audio, NEW status, SettleItem(a, status),
         pc' = "scan"
  PROVE  Control'
<1>1. \A b \in Audio : b # a => items'[b] = items[b]
  BY DEF SettleItem, Table!SetItemStatus, IInv, TypeOK
<1>2. scan' = scan \ {a}
  BY DEF SettleItem, Leave
<1> QED BY <1>1, <1>2 DEF Control, IInv

LEMMA StepControl == IInv /\ [Next]_vars => Control'
<1> SUFFICES ASSUME IInv, Control, [Next]_vars PROVE Control'
    BY DEF IInv
<1> USE DEF loop, thread, tables
<1>1. CASE Start \/ BeginLoop \/ Finalize
  BY <1>1 DEF Start, BeginLoop, Finalize, Control
<1>2. CASE Crash \/ TakeInvalid \/ Validate
  BY <1>2, StopControl DEF Crash, TakeInvalid, Validate
<1>3. CASE Produce \/ TakeDone
  BY <1>3, SameControl DEF Produce, TakeDone
<1>4. CASE DecodeFailed
  BY <1>4 DEF DecodeFailed, Control
<1>5. CASE Snapshot
  <2>1. CASE finished /\ Table!Registered \ seen # {}
    BY <1>5, <2>1, StopControl DEF Snapshot
  <2>2. CASE ~(finished /\ Table!Registered \ seen # {})
    BY <1>5, <2>2 DEF Snapshot, Control, IInv, TypeOK
  <2> QED BY <2>1, <2>2
<1>6. CASE EndScan \/ AfterWait \/ GoRound
  BY <1>6 DEF EndScan, AfterWait, GoRound, LoopAgain, Control
<1>7. CASE EndLoop
  <2>1. CASE backlog
    BY <1>7, <2>1, StopControl DEF EndLoop
  <2>2. CASE ~backlog
    BY <1>7, <2>2 DEF EndLoop, Control
  <2> QED BY <2>1, <2>2
<1>8. CASE Peek
  <2>1. Head(queue) \in Entries
    BY <1>8 DEF Peek, IInv, TypeOK
  <2> QED BY <1>8, <2>1 DEF Peek, Control
<1>9. CASE PutBack
  BY <1>9 DEF PutBack, LoopAgain, Control
<1>10. ASSUME NEW r \in Records, TakeRecord(r) PROVE Control'
  BY <1>10 DEF TakeRecord, Control
<1>11. ASSUME NEW a \in Audio, Repair(a) PROVE Control'
  BY <1>11 DEF Repair, Control
<1>12. ASSUME NEW a \in Audio, Vanish(a) PROVE Control'
  BY <1>12, SameControl DEF Vanish
<1>13. ASSUME NEW a \in Audio, EndItem(a) \/ CommitPublished(a) \/ PublishRaises(a)
       PROVE  Control'
  BY <1>13, SettledControl DEF EndItem, CommitPublished, PublishRaises, Scanning
<1>14. ASSUME NEW a \in Audio, RaiseOnItem(a) PROVE Control'
  BY <1>14, StopControl DEF RaiseOnItem
<1>15. ASSUME NEW a \in Audio, WriteAnnotation(a) PROVE Control'
  BY <1>15 DEF WriteAnnotation, Scanning, Control
<1>16. ASSUME NEW a \in Audio, Dispatch(a) PROVE Control'
  <2>1. \A b \in Audio : Visiting(b)' => b = a
    BY <1>16, OneVisited DEF Dispatch, Scanning, Visiting
  <2>2. \A s \in ReadyStages(a) : MayRun(a, s)'
    BY ReadyMayRun, MayRunStays
  <2> QED BY <1>16, <2>1, <2>2 DEF Dispatch, Scanning, Control
<1>17. ASSUME NEW a \in Audio, PassOver(a) \/ EndSubmit(a) PROVE Control'
  BY <1>17 DEF PassOver, EndSubmit, Scanning, Leave, Control
<1>18. ASSUME NEW a \in Audio, NEW s \in Stages, Prepare(a, s) \/ Submit(a, s)
       PROVE  Control'
  <2>1. /\ UNCHANGED <<items, scan>> /\ ready' \subseteq ready
        /\ pc \in {"submit", "claim"} /\ pc' \in {"submit", "claim"}
    BY <1>18 DEF Prepare, Submit, Table!PrepareStage, Table!ClaimStage, Table!RowBecomes,
       Table!tables
  <2>2. \A b \in Audio : Visiting(b)' <=> Visiting(b)
    BY <2>1 DEF Visiting
  <2>3. ASSUME NEW b \in Audio, NEW t \in Stages, MayRun(b, t) PROVE MayRun(b, t)'
    BY <2>3, MayRunStays
  <2> QED BY <2>1, <2>2, <2>3 DEF Control, IInv, TypeOK
<1>19. ASSUME NEW a \in Audio, NEW s \in Stages, Unhealthy(a, s) PROVE Control'
  BY <1>19, StopControl DEF Unhealthy
<1>20. ASSUME NEW a \in Audio, NEW s \in Stages, Collect(a, s) PROVE Control'
  BY <1>20 DEF Collect, Control
<1>21. ASSUME NEW a \in Audio, NEW s \in Stages, Reply(a, s) PROVE Control'
  BY <1>21, SameControl DEF Reply
<1>22. CASE UNCHANGED vars
  BY <1>22, SameControl DEF vars
<1> QED
  BY <1>1, <1>2, <1>3, <1>4, <1>5, <1>6, <1>7, <1>8, <1>9, <1>10, <1>11, <1>12, <1>13,
     <1>14, <1>15, <1>16, <1>17, <1>18, <1>19, <1>20, <1>21, <1>22 DEF Next, MainStep

LEMMA InitIInv == Init => IInv
<1> SUFFICES ASSUME Init PROVE IInv
    OBVIOUS
<1>1. TableFacts!Init
  BY SameTables DEF Init
<1>2. TableFacts!TypeOK
  BY <1>1, ConstantFacts, TableFacts!InitTypeInv DEF TableFacts!TypeInv
<1>3. \A a \in Audio, s \in Stages : /\ rows[a][s].status = "absent"
                                     /\ rows[a][s].attempt = 0
                                     /\ rows[a][s].input = None
                                     /\ rows[a][s].result = None
                                     /\ items[a].status = "absent"
  BY <1>1 DEF TableFacts!Init, TableFacts!NoRow, TableFacts!NoItem
<1>4. TableFacts!OrdinalInv /\ TableFacts!RowsCoherent
  BY <1>1, ConstantFacts, TableFacts!InitOrdinalInv, TableFacts!InitRowsCoherent
<1>5. Typed
  <2>1. Idle \in [Audio -> [Stages -> Results \cup {None, "waiting", Error}]]
    BY DEF Idle
  <2>2. <<>> \in Seq(Entries)
    OBVIOUS
  <2>3. MaxRuns \in Nat
    BY RunnerAssumption DEF RunnerAssumption
  <2>4. annotations \in [Audio -> Annotations \cup {None}]
    BY DEF Init
  <2>5. runs \in 0..MaxRuns /\ pc \in PCs /\ exit \in Exits
    BY <2>3 DEF Init, PCs, Exits
  <2>6. /\ todo \in Seq(Entries) /\ queue \in Seq(Entries) /\ held \in Entries \cup {None}
        /\ finished \in BOOLEAN /\ backlog \in BOOLEAN /\ progress \in BOOLEAN
        /\ seen \subseteq Audio /\ scan \subseteq Audio
        /\ ready \subseteq Stages /\ healthy \subseteq Stages
    BY <2>2 DEF Init
  <2> QED BY <2>1, <2>4, <2>5, <2>6 DEF Init, Typed
<1>6. Answers /\ Ordered /\ StageInputCurrent /\ Control
  BY <1>3 DEF Init, Answers, Ordered, StageInputCurrent, Control, Is, Idle
<1> QED BY <1>2, <1>4, <1>5, <1>6, TypeOKSplits DEF IInv

LEMMA StepIInv == IInv /\ [Next]_vars => IInv'
<1> SUFFICES ASSUME IInv, [Next]_vars PROVE IInv'
    OBVIOUS
<1>1. TableFacts!OrdinalInv' /\ TableFacts!TypeOK'
  BY FactsStep, ConstantFacts, TableFacts!StepOrdinalInv
     DEF IInv, TableFacts!OrdinalInv, TableFacts!TypeInv
<1>2. TableFacts!RowsCoherent'
  BY FactsStep, ConstantFacts, TableFacts!StepRowsCoherent DEF IInv, TableFacts!OrdinalInv
<1>3. Typed'
  BY StepTyped
<1>4. TypeOK'
  BY <1>1, <1>3, TypeOKSplits, PTL
<1>5. Answers' /\ Ordered' /\ StageInputCurrent' /\ Control'
  BY StepAnswers, StepOrdered, StepControl
<1> QED BY <1>1, <1>2, <1>4, <1>5 DEF IInv

LEMMA Invariance == Spec => []IInv
BY InitIInv, StepIInv, PTL DEF Spec

\* The runner's variables and the tables it keeps are well-typed in every reachable state.
THEOREM RunnerTypeCorrect == Spec => []TypeOK
<1>1. IInv => TypeOK
  BY DEF IInv
<1> QED BY Invariance, <1>1, PTL

\* The runner, its crashes and its restarts only ever use the tables through their
\* operations: everything proved of StreamState holds under the runner.
THEOREM RunnerUsesTables == Spec => Table!Spec
<1>1. Init => Table!Init
  BY DEF Init
<1>2. IInv /\ [Next]_vars => [Table!Next]_(Table!tables)
  BY TableStep DEF tables, Table!tables
<1> QED BY Invariance, <1>1, <1>2, PTL DEF Spec, Table!Spec

\* No stage is ever prepared before everything it depends on has succeeded.
THEOREM DependenciesAreMet == Spec => []DependenciesMet
<1>1. IInv => DependenciesMet
  BY ConstantFacts DEF IInv, Ordered, MayRun, DependenciesMet
<1> QED BY Invariance, <1>1, PTL

\* A prepared stage keeps the input it would be given now, across any restarts, so
\* prepare_stage never raises and a retried request has the id of the first.
THEOREM InputsAreCurrent == Spec => []StageInputCurrent
<1>1. IInv => StageInputCurrent
  BY DEF IInv
<1> QED BY Invariance, <1>1, PTL

-----------------------------------------------------------------------------
(* The in-flight calls against the tables, the attempts of a stage, and why the scheduler *)
(* never stalls.                                                                          *)

\* Only a start makes a runner of none, and only a start counts a run.
LEMMA OnlyStartRevives ==
  ASSUME [Next]_vars
  PROVE  \/ Start
         \/ UNCHANGED runs /\ (pc = "down" => pc' = "down")
<1> USE DEF files, thread, loop
<1>1. ASSUME \/ Crash \/ Produce \/ BeginLoop \/ TakeDone \/ TakeInvalid \/ DecodeFailed
             \/ EndScan \/ AfterWait \/ GoRound \/ Peek \/ PutBack \/ Finalize \/ Validate
             \/ Snapshot \/ EndLoop
      PROVE  UNCHANGED runs /\ pc # "down"
  BY <1>1 DEF Crash, Produce, BeginLoop, TakeDone, TakeInvalid, DecodeFailed, EndScan,
     AfterWait, GoRound, Peek, PutBack, Finalize, Validate, LoopAgain, Snapshot, EndLoop
<1>2. ASSUME NEW a \in Audio, \/ WriteAnnotation(a) \/ Dispatch(a) \/ PassOver(a)
                              \/ EndSubmit(a) \/ Repair(a) \/ EndItem(a) \/ RaiseOnItem(a)
                              \/ CommitPublished(a) \/ PublishRaises(a)
      PROVE  UNCHANGED runs /\ pc # "down"
  BY <1>2 DEF WriteAnnotation, Dispatch, PassOver, EndSubmit, Repair, EndItem, RaiseOnItem,
     CommitPublished, PublishRaises, SettleItem, Scanning
<1>3. ASSUME NEW r \in Records, TakeRecord(r) PROVE UNCHANGED runs /\ pc # "down"
  BY <1>3 DEF TakeRecord
<1>4. ASSUME NEW a \in Audio, NEW s \in Stages,
             Prepare(a, s) \/ Submit(a, s) \/ Unhealthy(a, s) \/ Collect(a, s)
      PROVE  UNCHANGED runs /\ pc # "down"
  BY <1>4 DEF Prepare, Submit, Unhealthy, Collect
<1>5. ASSUME NEW a \in Audio, NEW s \in Stages, Vanish(a) \/ Reply(a, s)
      PROVE  UNCHANGED <<runs, pc>>
  BY <1>5 DEF Vanish, Reply
<1>6. CASE UNCHANGED vars
  BY <1>6 DEF vars
<1> QED BY <1>1, <1>2, <1>3, <1>4, <1>5, <1>6, ConstantFacts DEF Next, MainStep

-----------------------------------------------------------------------------
(* Calls and running rows. *)

CallInv == CallsMatchRows /\ (pc = "down" => call = Idle)

\* A statement on stream_stages moves only the row it names to or from running.
LEMMA PreparedRows ==
  ASSUME IInv, NEW b \in Audio, NEW t \in Stages, Prepare(b, t),
         NEW a \in Audio, NEW s \in Stages
  PROVE  Is(a, s, "running")' <=> Is(a, s, "running")
<1>1. TypeOK
  BY DEF IInv
<1>2. CASE rows[b][t].status = "absent"
  BY <1>1, <1>2, RowWritten DEF Prepare, Table!PrepareStage, Is
<1>3. CASE rows[b][t].status # "absent"
  BY <1>3 DEF Prepare, Table!PrepareStage, Table!tables, Is
<1> QED BY <1>2, <1>3

LEMMA SubmittedRows ==
  ASSUME IInv, NEW b \in Audio, NEW t \in Stages, Submit(b, t),
         NEW a \in Audio, NEW s \in Stages
  PROVE  /\ Is(a, s, "running")' <=> Is(a, s, "running") \/ (a = b /\ s = t)
         /\ call'[a][s] # None <=> call[a][s] # None \/ (a = b /\ s = t)
<1>1. TypeOK /\ None # "waiting"
  BY RunnerAssumption DEF IInv, RunnerAssumption
<1>2. call'[a][s] = IF b = a /\ t = s THEN "waiting" ELSE call[a][s]
  <2>1. call' = [call EXCEPT ![b][t] = "waiting"]
    BY DEF Submit
  <2> QED BY <1>1, <2>1 DEF TypeOK
<1>3. rows'[a][s].status = IF b = a /\ t = s THEN "running" ELSE rows[a][s].status
  BY <1>1, RowWritten DEF Submit, Table!ClaimStage
<1> QED BY <1>1, <1>2, <1>3 DEF Is

LEMMA CollectedRows ==
  ASSUME IInv, NEW b \in Audio, NEW t \in Stages, Collect(b, t),
         NEW a \in Audio, NEW s \in Stages
  PROVE  /\ Is(a, s, "running")' <=> Is(a, s, "running") /\ ~(a = b /\ s = t)
         /\ call'[a][s] # None <=> call[a][s] # None /\ ~(a = b /\ s = t)
<1>1. TypeOK
  BY DEF IInv
<1>2. call'[a][s] = IF b = a /\ t = s THEN None ELSE call[a][s]
  <2>1. call' = [call EXCEPT ![b][t] = None]
    BY DEF Collect
  <2> QED BY <1>1, <2>1 DEF TypeOK
<1>3. CASE call[b][t] = Error
  BY <1>1, <1>2, <1>3, RowWritten DEF Collect, Table!FailStage, Is
<1>4. CASE call[b][t] # Error
  BY <1>1, <1>2, <1>4, RowWritten DEF Collect, Table!FinishStage, Is
<1> QED BY <1>3, <1>4

LEMMA RepliedCalls ==
  ASSUME IInv, NEW b \in Audio, NEW t \in Stages, Reply(b, t),
         NEW a \in Audio, NEW s \in Stages
  PROVE  call'[a][s] # None <=> call[a][s] # None
<1>1. TypeOK
  BY DEF IInv
<1>2. None # "waiting" /\ None \notin Replies[t]
  BY RunnerAssumption DEF RunnerAssumption
<1>3. PICK r \in Replies[t] : call' = [call EXCEPT ![b][t] = r]
  BY DEF Reply
<1> QED BY <1>1, <1>2, <1>3, CallWritten DEF Reply

LEMMA RecoveredRows ==
  ASSUME IInv, Start, NEW a \in Audio, NEW s \in Stages
  PROVE  ~Is(a, s, "running")'
<1>1. rows[a][s] \in Row
  BY DEF IInv, TypeOK
<1>2. rows'[a][s] = IF rows[a][s].status = "running"
                    THEN [rows[a][s] EXCEPT !.status = "pending"] ELSE rows[a][s]
  BY DEF Start, Table!RecoverRunning
<1> QED BY <1>1, <1>2 DEF Row, Is

LEMMA InitCallInv == Init => CallInv
BY DEF Init, CallInv, CallsMatchRows

LEMMA StepCallInv == IInv /\ CallInv /\ [Next]_vars => CallInv'
<1> SUFFICES ASSUME IInv, CallInv, [Next]_vars PROVE CallInv'
    OBVIOUS
<1>1. CASE Start
  BY <1>1, RecoveredRows DEF Start, CallInv, CallsMatchRows, Idle
<1>2. ASSUME NEW a \in Audio, NEW s \in Stages, Submit(a, s) PROVE CallInv'
  BY <1>2, SubmittedRows DEF CallInv, CallsMatchRows, Submit
<1>3. ASSUME NEW a \in Audio, NEW s \in Stages, Collect(a, s) PROVE CallInv'
  BY <1>3, CollectedRows DEF CallInv, CallsMatchRows, Collect
<1>4. ASSUME NEW a \in Audio, NEW s \in Stages, Reply(a, s) PROVE CallInv'
  <2>1. pc # "down" /\ UNCHANGED pc
    BY <1>4, RunnerAssumption DEF Reply, CallInv, Idle, RunnerAssumption
  <2>2. UNCHANGED rows
    BY <1>4 DEF Reply, tables
  <2> QED BY <1>4, <2>1, <2>2, RepliedCalls DEF CallInv, CallsMatchRows, Is
<1>5. CASE pc' = "down" /\ call' = Idle
  BY <1>5 DEF CallInv, CallsMatchRows
<1>6. CASE ~Start /\ UNCHANGED call /\ (pc' = "down" => pc = "down")
  <2>1. pc' = "down" <=> pc = "down"
    BY <1>6, OnlyStartRevives
  <2>2. CASE pc = "down"
    BY <1>6, <2>1, <2>2 DEF CallInv, CallsMatchRows
  <2>3. CASE pc # "down"
    <3>1. ASSUME NEW a \in Audio, NEW s \in Stages, Unhealthy(a, s) PROVE FALSE
      BY <2>1, <2>3, <3>1 DEF Unhealthy, Stop
    <3>2. ASSUME NEW a \in Audio, NEW s \in Stages, Prepare(a, s) PROVE CallInv'
      BY <1>6, <2>1, <2>3, <3>2, PreparedRows DEF CallInv, CallsMatchRows
    <3>3. CASE UNCHANGED rows
      BY <1>6, <2>1, <2>3, <3>3 DEF CallInv, CallsMatchRows, Is
    <3> QED BY <1>2, <1>3, <1>6, <3>1, <3>2, <3>3, RowsKept
  <2> QED BY <2>2, <2>3
<1> QED BY <1>1, <1>2, <1>3, <1>4, <1>5, <1>6, CallsKept

LEMMA CallInvariance == Spec => []CallInv
BY InitCallInv, StepCallInv, Invariance, PTL DEF Spec

\* Every running row of a live runner has its call and every call its running row: a
\* reply is never lost, and finish_stage and fail_stage never raise.
THEOREM CallsAlwaysMatchRows == Spec => []CallsMatchRows
<1>1. CallInv => CallsMatchRows
  BY DEF CallInv
<1> QED BY CallInvariance, <1>1, PTL

-----------------------------------------------------------------------------
(* The in-flight limit. *)

InflightInv == /\ IsFiniteSet(Inflight) /\ InflightBounded
               /\ pc = "claim" => HasCapacity

LEMMA InflightStep ==
  ASSUME IInv, [Next]_vars
  PROVE  \/ Inflight' \subseteq Inflight
         \/ \E a \in Audio, s \in Stages : /\ Submit(a, s)
                                           /\ Inflight' = Inflight \cup {<<a, s>>}
<1> USE DEF Inflight
<1>1. CASE UNCHANGED call
  BY <1>1
<1>2. CASE call' = Idle
  BY <1>2 DEF Idle
<1>3. ASSUME NEW a \in Audio, NEW s \in Stages, Submit(a, s)
      PROVE  Inflight' = Inflight \cup {<<a, s>>}
  BY <1>3, SubmittedRows
<1>4. ASSUME NEW a \in Audio, NEW s \in Stages, Collect(a, s)
      PROVE  Inflight' \subseteq Inflight
  BY <1>4, CollectedRows
<1>5. ASSUME NEW a \in Audio, NEW s \in Stages, Reply(a, s)
      PROVE  Inflight' \subseteq Inflight
  BY <1>5, RepliedCalls
<1> QED BY <1>1, <1>2, <1>3, <1>4, <1>5, CallsKept

\* claim_stage is reached only from the check of the limit.
LEMMA ClaimEntered ==
  ASSUME IInv, [Next]_vars, pc' = "claim"
  PROVE  \/ UNCHANGED call /\ HasCapacity
         \/ pc = "claim" /\ Inflight' \subseteq Inflight
<1> USE DEF thread, loop, files
<1>1. ASSUME \/ Start \/ Crash \/ BeginLoop \/ TakeDone \/ TakeInvalid \/ DecodeFailed
             \/ EndScan \/ AfterWait \/ GoRound \/ Peek \/ PutBack \/ Finalize \/ Validate
             \/ Snapshot \/ EndLoop
      PROVE  FALSE
  BY <1>1 DEF Start, Crash, BeginLoop, TakeDone, TakeInvalid, DecodeFailed, EndScan,
     AfterWait, GoRound, Peek, PutBack, Finalize, Validate, LoopAgain, Snapshot, EndLoop, Stop
<1>2. ASSUME NEW a \in Audio, \/ WriteAnnotation(a) \/ Dispatch(a) \/ PassOver(a)
                              \/ EndSubmit(a) \/ Repair(a) \/ EndItem(a) \/ RaiseOnItem(a)
                              \/ CommitPublished(a) \/ PublishRaises(a)
      PROVE  FALSE
  BY <1>2 DEF WriteAnnotation, Dispatch, PassOver, EndSubmit, Repair, EndItem, RaiseOnItem,
     CommitPublished, PublishRaises, SettleItem, Scanning, Stop
<1>3. ASSUME NEW r \in Records, TakeRecord(r) PROVE FALSE
  BY <1>3 DEF TakeRecord
<1>4. ASSUME NEW a \in Audio, NEW s \in Stages,
             Submit(a, s) \/ Unhealthy(a, s) \/ Collect(a, s)
      PROVE  FALSE
  BY <1>4 DEF Submit, Unhealthy, Collect, Stop
<1>5. ASSUME NEW a \in Audio, NEW s \in Stages, Prepare(a, s)
      PROVE  UNCHANGED call /\ HasCapacity
  BY <1>5 DEF Prepare
<1>6. ASSUME NEW a \in Audio, Vanish(a) PROVE UNCHANGED <<pc, call>>
  BY <1>6 DEF Vanish
<1>7. ASSUME NEW a \in Audio, NEW s \in Stages, Reply(a, s)
      PROVE  UNCHANGED pc /\ Inflight' \subseteq Inflight
  BY <1>7, RepliedCalls DEF Reply, Inflight
<1>8. ASSUME Produce PROVE UNCHANGED <<pc, call>>
  BY <1>8 DEF Produce
<1>9. UNCHANGED call => Inflight' \subseteq Inflight
  BY DEF Inflight
<1>10. CASE UNCHANGED vars
  BY <1>9, <1>10 DEF vars
<1> QED
  BY <1>1, <1>2, <1>3, <1>4, <1>5, <1>6, <1>7, <1>8, <1>9, <1>10 DEF Next, MainStep

LEMMA InitInflightInv == Init => InflightInv
<1> SUFFICES ASSUME Init PROVE InflightInv
    OBVIOUS
<1>1. Inflight = {}
  BY DEF Init, Idle, Inflight
<1>2. MaxInflight \in Nat
  BY RunnerAssumption DEF RunnerAssumption
<1> QED BY <1>1, <1>2, FS_EmptySet DEF Init, InflightInv, InflightBounded

LEMMA StepInflightInv == IInv /\ InflightInv /\ [Next]_vars => InflightInv'
<1> SUFFICES ASSUME IInv, InflightInv, [Next]_vars PROVE InflightInv'
    OBVIOUS
<1>1. MaxInflight \in Nat /\ IsFiniteSet(Inflight) /\ Cardinality(Inflight) \in Nat
  BY RunnerAssumption, FS_CardinalityType DEF RunnerAssumption, InflightInv
<1>2. CASE Inflight' \subseteq Inflight
  <2>1. IsFiniteSet(Inflight') /\ Cardinality(Inflight') <= Cardinality(Inflight)
    BY <1>1, <1>2, FS_Subset
  <2>2. Cardinality(Inflight') \in Nat
    BY <2>1, FS_CardinalityType
  <2>3. pc' = "claim" => Cardinality(Inflight) < MaxInflight
    BY ClaimEntered DEF InflightInv, HasCapacity
  <2>4. InflightBounded' /\ (pc' = "claim" => HasCapacity')
    BY <1>1, <2>1, <2>2, <2>3 DEF InflightInv, InflightBounded, HasCapacity
  <2> QED BY <2>1, <2>4 DEF InflightInv
<1>3. ASSUME NEW a \in Audio, NEW s \in Stages, Submit(a, s),
             Inflight' = Inflight \cup {<<a, s>>}
      PROVE  InflightInv'
  <2>1. Cardinality(Inflight) < MaxInflight /\ pc' # "claim"
    BY <1>3 DEF Submit, InflightInv, HasCapacity
  <2>2. IsFiniteSet(Inflight') /\ Cardinality(Inflight') <= Cardinality(Inflight) + 1
    <3>1. /\ IsFiniteSet(Inflight \cup {<<a, s>>})
          /\ Cardinality(Inflight \cup {<<a, s>>}) =
                IF <<a, s>> \in Inflight THEN Cardinality(Inflight)
                ELSE Cardinality(Inflight) + 1
      BY <1>1, FS_AddElement
    <3> QED BY <1>1, <1>3, <3>1
  <2>3. Cardinality(Inflight') \in Nat
    BY <2>2, FS_CardinalityType
  <2> QED BY <1>1, <2>1, <2>2, <2>3 DEF InflightInv, InflightBounded
<1> QED BY <1>2, <1>3, InflightStep

LEMMA InflightInvariance == Spec => []InflightInv
BY InitInflightInv, StepInflightInv, Invariance, PTL DEF Spec

\* Whatever becomes ready at once, no more requests are in flight than max_inflight.
THEOREM InflightIsBounded == Spec => []InflightBounded
<1>1. InflightInv => InflightBounded
  BY DEF InflightInv
<1> QED BY InflightInvariance, <1>1, PTL

-----------------------------------------------------------------------------
(* Attempts: a row that can be claimed in this run was not claimed in it. *)

AttemptInv ==
    /\ pc # "down" => runs > 0
    /\ \A a \in Audio, s \in Stages :
          /\ rows[a][s].attempt <= runs
          /\ Is(a, s, "absent") => rows[a][s].attempt = 0
          /\ pc # "down" /\ Is(a, s, "pending") => rows[a][s].attempt < runs

\* A row goes back to pending at a start only, and is claimed by a live runner only.
LEMMA RowMoves ==
  ASSUME IInv, [Next]_vars, NEW a \in Audio, NEW s \in Stages
  PROVE  /\ TableFacts!Recovered(rows[a][s], rows'[a][s]) => Start
         /\ TableFacts!Claimed(rows[a][s], rows'[a][s]) => pc # "down"
<1>1. TypeOK
  BY DEF IInv
<1>2. ASSUME NEW b \in Audio, NEW t \in Stages, Prepare(b, t)
      PROVE  ~TableFacts!Recovered(rows[a][s], rows'[a][s]) /\ pc # "down"
  BY <1>2, PreparedRows DEF Is, TableFacts!Recovered, Prepare
<1>3. ASSUME NEW b \in Audio, NEW t \in Stages, Submit(b, t) \/ Unhealthy(b, t)
      PROVE  ~TableFacts!Recovered(rows[a][s], rows'[a][s]) /\ pc # "down"
  BY <1>1, <1>3, RowWritten DEF Submit, Unhealthy, Table!ClaimStage, TableFacts!Recovered
<1>4. ASSUME NEW b \in Audio, NEW t \in Stages, Collect(b, t)
      PROVE  ~TableFacts!Recovered(rows[a][s], rows'[a][s]) /\ pc # "down"
  <2>1. CASE call[b][t] = Error
    BY <1>1, <1>4, <2>1, RowWritten DEF Collect, Table!FailStage, TableFacts!Recovered
  <2>2. CASE call[b][t] # Error
    BY <1>1, <1>4, <2>2, RowWritten DEF Collect, Table!FinishStage, TableFacts!Recovered
  <2> QED BY <2>1, <2>2
<1>5. CASE Start
  BY <1>5, RecoveredRows DEF Is, TableFacts!Claimed
<1>6. CASE UNCHANGED rows
  BY <1>6 DEF TableFacts!Recovered, TableFacts!Claimed
<1> QED BY <1>2, <1>3, <1>4, <1>5, <1>6, RowsKept

LEMMA StepAttemptInv == IInv /\ AttemptInv /\ [Next]_vars => AttemptInv'
<1> SUFFICES ASSUME IInv, AttemptInv, [Next]_vars PROVE AttemptInv'
    OBVIOUS
<1>1. runs \in Nat
  BY RunnerAssumption DEF IInv, TypeOK, RunnerAssumption
<1>2. \/ Start /\ runs' = runs + 1
      \/ ~Start /\ runs' = runs /\ (pc' # "down" => pc # "down")
  BY OnlyStartRevives DEF Start
<1>3. pc' # "down" => runs' > 0
  BY <1>1, <1>2 DEF AttemptInv
<1>4. ASSUME NEW a \in Audio, NEW s \in Stages
      PROVE  /\ rows'[a][s].attempt <= runs'
             /\ rows'[a][s].status = "absent" => rows'[a][s].attempt = 0
             /\ pc' # "down" /\ rows'[a][s].status = "pending" => rows'[a][s].attempt < runs'
  <2>1. /\ rows[a][s].attempt \in Nat /\ rows[a][s].attempt <= runs
        /\ rows[a][s].status = "absent" => rows[a][s].attempt = 0
        /\ pc # "down" /\ rows[a][s].status = "pending" => rows[a][s].attempt < runs
        /\ pc # "down" => runs > 0
    BY DEF AttemptInv, Is, IInv, TypeOK, Row
  <2>2. CASE rows'[a][s] = rows[a][s]
    BY <1>1, <1>2, <2>1, <2>2
  <2>3. CASE TableFacts!Recovered(rows[a][s], rows'[a][s])
    BY <1>1, <1>2, <2>1, <2>3, RowMoves DEF TableFacts!Recovered
  <2>4. CASE TableFacts!Prepared(rows[a][s], rows'[a][s])
    BY <1>1, <1>2, <1>3, <2>1, <2>4 DEF TableFacts!Prepared
  <2>5. CASE TableFacts!Claimed(rows[a][s], rows'[a][s])
    BY <1>1, <1>2, <2>1, <2>5, RowMoves DEF TableFacts!Claimed
  <2>6. CASE TableFacts!Ended(rows[a][s], rows'[a][s])
    BY <1>1, <1>2, <2>1, <2>6 DEF TableFacts!Ended
  <2> QED BY <2>2, <2>3, <2>4, <2>5, <2>6, OneRow
<1> QED BY <1>3, <1>4 DEF AttemptInv, Is

\* A stage is attempted at most once in each run of the runner.
THEOREM AttemptsPerRun == Spec => []OneAttemptPerRun
<1>1. Init => AttemptInv
  BY DEF Init, Table!Init, Table!NoRow, AttemptInv
<1>2. AttemptInv => OneAttemptPerRun
  BY DEF AttemptInv, OneAttemptPerRun
<1> QED BY <1>1, <1>2, StepAttemptInv, Invariance, PTL DEF Spec

-----------------------------------------------------------------------------
(* The scheduler never stalls: an item is passed over only for a running row, and a    *)
(* running row has its call in flight.                                                  *)

LEMMA PassedOverRuns ==
  ASSUME IInv, NEW a \in Audio, PassOver(a)
  PROVE  \E s \in Stages : Is(a, s, "running")
<1> SUFFICES ASSUME \A s \in Stages : ~Is(a, s, "running") PROVE FALSE
    OBVIOUS
<1>1. /\ Verdict(a) = None /\ ~StageFailed(a) /\ ~NoRoute(a)
      /\ ~CanPublish(a) /\ ReadyStages(a) = {}
  BY DEF PassOver
<1>2. \A s \in Stages : Open(a, s) \/ Succeeded(a, s) \/ Is(a, s, "failed")
  BY DEF Open, Succeeded, Is, IInv, TypeOK, Row, Table!StageStatus
<1>3. None \notin Verdicts
  BY RunnerAssumption DEF RunnerAssumption, Results
<1>4. ~Open(a, Gate)
  BY <1>1 DEF ReadyStages
<1>5. Succeeded(a, Gate)
  BY <1>1, <1>2, <1>4, ConstantFacts DEF StageFailed
<1>6. PassedGate(a)
  BY <1>1, <1>3, <1>5 DEF Verdict, PassedGate
<1>7. ~Open(a, Discogs)
  BY <1>1, <1>4, <1>6 DEF ReadyStages
<1>8. Succeeded(a, Discogs)
  BY <1>1, <1>2, <1>6, <1>7, ConstantFacts DEF StageFailed
<1>9. rows[a][Discogs].result \notin Verdicts
  BY <1>1, <1>3, <1>6, <1>8 DEF Verdict, PassedGate
<1>10. Routed(a)
  BY <1>1, <1>6, <1>8, <1>9 DEF NoRoute, Routed
<1>11. \A s \in FullTrack : ~Open(a, s)
  BY <1>1, <1>4, <1>7, <1>10 DEF ReadyStages
<1>12. \A s \in FullTrack : Succeeded(a, s)
  BY <1>1, <1>2, <1>10, <1>11, ConstantFacts DEF StageFailed
<1>13. TrackComplete(a)
  BY <1>10, <1>12 DEF TrackComplete
<1>14. IsSong(a) /\ ~Succeeded(a, Asr)
  BY <1>1, <1>13 DEF CanPublish
<1>15. ~Open(a, Asr)
  BY <1>1, <1>4, <1>7, <1>11, <1>13, <1>14 DEF ReadyStages
<1> QED BY <1>1, <1>2, <1>13, <1>14, <1>15, ConstantFacts DEF StageFailed

Moving ==
    /\ NeverStalls
    /\ pc \in {"submit", "claim"} /\ ~progress => ready # {}
    /\ pc \in {"scan", "submit", "claim", "commit"} /\ backlog /\ ~progress =>
          scan # {} \/ Inflight # {}
    /\ pc = "check" /\ backlog => progress

LEMMA NoCapacityNoIdle == ~HasCapacity => Inflight # {}
<1>1. MaxInflight \in Nat /\ 0 < MaxInflight
  BY RunnerAssumption DEF RunnerAssumption
<1>2. Inflight = {} => Cardinality(Inflight) = 0
  BY FS_EmptySet
<1> QED BY <1>1, <1>2 DEF HasCapacity

LEMMA StopMoving == ASSUME NEW e, Stop(e), e # "stalled" PROVE Moving'
BY DEF Stop, Moving, NeverStalls

LEMMA SameMoving ==
  ASSUME Moving, UNCHANGED <<exit, pc, progress, ready, backlog, scan>>,
         Inflight' = Inflight
  PROVE  Moving'
BY DEF Moving, NeverStalls

LEMMA StepMoving == IInv /\ CallInv /\ Moving /\ [Next]_vars => Moving'
<1> SUFFICES ASSUME IInv, CallInv, Moving, [Next]_vars PROVE Moving'
    OBVIOUS
<1> USE DEF loop, thread
<1>0. UNCHANGED call => Inflight' = Inflight
  BY DEF Inflight
<1>1. CASE Start \/ BeginLoop \/ DecodeFailed \/ AfterWait \/ GoRound \/ Peek \/ PutBack
           \/ Finalize
  BY <1>1 DEF Start, BeginLoop, DecodeFailed, AfterWait, GoRound, Peek, PutBack, Finalize,
     LoopAgain, Moving, NeverStalls
<1>2. CASE Crash \/ TakeInvalid \/ Validate
  BY <1>2, StopMoving DEF Crash, TakeInvalid, Validate
<1>3. CASE TakeDone
  BY <1>3 DEF TakeDone, Moving, NeverStalls
<1>4. CASE Snapshot
  <2>1. CASE finished /\ Table!Registered \ seen # {}
    BY <1>4, <2>1, StopMoving DEF Snapshot
  <2>2. CASE ~(finished /\ Table!Registered \ seen # {})
    BY <1>4, <2>2 DEF Snapshot, Moving, NeverStalls
  <2> QED BY <2>1, <2>2
<1>5. CASE EndScan
  <2>1. Inflight = {} => scan = {}
    BY <1>5, NoCapacityNoIdle DEF EndScan
  <2> QED BY <1>5, <2>1 DEF EndScan, Moving, NeverStalls
<1>6. CASE EndLoop
  <2>1. ~backlog
    BY <1>6 DEF EndLoop, Moving
  <2> QED BY <1>6, <2>1 DEF EndLoop, Moving, NeverStalls
<1>7. CASE Produce
  BY <1>0, <1>7, SameMoving DEF Produce
<1>8. ASSUME NEW r \in Records, TakeRecord(r) PROVE Moving'
  BY <1>8 DEF TakeRecord, Moving, NeverStalls
<1>9. ASSUME NEW a \in Audio, Repair(a) \/ Vanish(a) PROVE Moving'
  BY <1>0, <1>9, SameMoving DEF Repair, Vanish
<1>10. ASSUME NEW a \in Audio, EndItem(a) \/ CommitPublished(a) \/ PublishRaises(a)
       PROVE  Moving'
  BY <1>10 DEF EndItem, CommitPublished, PublishRaises, Scanning, SettleItem, Moving,
     NeverStalls
<1>11. ASSUME NEW a \in Audio, RaiseOnItem(a) PROVE Moving'
  BY <1>11, StopMoving DEF RaiseOnItem
<1>12. ASSUME NEW a \in Audio, WriteAnnotation(a) PROVE Moving'
  BY <1>0, <1>12 DEF WriteAnnotation, Scanning, Moving, NeverStalls
<1>13. ASSUME NEW a \in Audio, Dispatch(a) PROVE Moving'
  BY <1>0, <1>13 DEF Dispatch, Scanning, Moving, NeverStalls
<1>14. ASSUME NEW a \in Audio, PassOver(a) PROVE Moving'
  <2>1. PICK s \in Stages : Is(a, s, "running")
    BY <1>14, PassedOverRuns
  <2>2. <<a, s>> \in Inflight
    BY <1>14, <2>1 DEF PassOver, Scanning, CallInv, CallsMatchRows, Inflight
  <2> QED BY <1>0, <1>14, <2>2 DEF PassOver, Scanning, Moving, NeverStalls
<1>15. ASSUME NEW a \in Audio, EndSubmit(a) PROVE Moving'
  <2>1. progress \/ Inflight # {}
    BY <1>15, NoCapacityNoIdle DEF EndSubmit, Moving
  <2> QED BY <1>0, <1>15, <2>1 DEF EndSubmit, Moving, NeverStalls
<1>16. ASSUME NEW a \in Audio, NEW s \in Stages, Prepare(a, s) PROVE Moving'
  BY <1>0, <1>16 DEF Prepare, Moving, NeverStalls
<1>17. ASSUME NEW a \in Audio, NEW s \in Stages, Submit(a, s) PROVE Moving'
  BY <1>17 DEF Submit, Moving, NeverStalls
<1>18. ASSUME NEW a \in Audio, NEW s \in Stages, Unhealthy(a, s) PROVE Moving'
  BY <1>18, StopMoving DEF Unhealthy
<1>19. ASSUME NEW a \in Audio, NEW s \in Stages, Collect(a, s) PROVE Moving'
  BY <1>19 DEF Collect, Moving, NeverStalls
<1>20. ASSUME NEW a \in Audio, NEW s \in Stages, Reply(a, s) PROVE Moving'
  <2>1. Inflight' = Inflight
    BY <1>20, RepliedCalls DEF Inflight
  <2> QED BY <1>20, <2>1, SameMoving DEF Reply
<1>21. CASE UNCHANGED vars
  BY <1>0, <1>21, SameMoving DEF vars
<1> QED
  BY <1>1, <1>2, <1>3, <1>4, <1>5, <1>6, <1>7, <1>8, <1>9, <1>10, <1>11, <1>12, <1>13,
     <1>14, <1>15, <1>16, <1>17, <1>18, <1>19, <1>20, <1>21 DEF Next, MainStep

\* With pending items and nothing in flight, a pass of the loop always makes progress: the
\* RuntimeError "stream scheduler stalled" is unreachable, whatever the services answer.
THEOREM SchedulerNeverStalls == Spec => []NeverStalls
<1>1. Init => Moving
  BY DEF Init, Moving, NeverStalls
<1>2. Moving => NeverStalls
  BY DEF Moving
<1> QED BY <1>1, <1>2, StepMoving, Invariance, CallInvariance, PTL DEF Spec

-----------------------------------------------------------------------------
(* Items, annotation files and tables: what is published is complete, a partition once    *)
(* reached is kept, and the runner implements TrackLifecycle.                              *)

\* What the statements on stream_items write.
LEMMA StatusSet ==
  ASSUME TypeOK, NEW a, NEW status, Table!SetItemStatus(a, status), NEW b \in Audio
  PROVE  /\ a \in Audio
         /\ items'[b].status = IF b = a THEN status ELSE items[b].status
         /\ items'[b].record = items[b].record /\ items'[b].ordinal = items[b].ordinal
         /\ UNCHANGED rows
<1>1. a \in Audio /\ items' = [items EXCEPT ![a].status = status] /\ UNCHANGED rows
  BY DEF Table!SetItemStatus, Table!Registered
<1> QED BY <1>1 DEF TypeOK, Table!ItemRow

LEMMA ItemRegistered ==
  ASSUME TypeOK, NEW r \in Records, Table!RegisterItem(r), NEW b \in Audio
  PROVE  \/ items'[b] = items[b] /\ (b = r.id => items[b].status # "absent")
         \/ /\ b = r.id /\ items[b].status = "absent"
            /\ items'[b].status = "pending" /\ items'[b].record = r
<1>1. r.id \in Audio
  BY RunnerAssumption DEF RunnerAssumption
<1>2. CASE r.id \in Table!Registered
  BY <1>1, <1>2 DEF Table!RegisterItem, Table!tables, Table!Registered
<1>3. CASE r.id \notin Table!Registered
  <2>1. items' = [items EXCEPT ![r.id] = [status |-> "pending", record |-> r,
                                          ordinal |-> Table!NextOrdinal]]
    BY <1>3 DEF Table!RegisterItem
  <2> QED BY <1>1, <1>3, <2>1 DEF Table!Registered, TypeOK
<1> QED BY <1>2, <1>3

\* The steps that touch the items.
LEMMA ItemsKept ==
  ASSUME IInv, [Next]_vars
  PROVE  \/ UNCHANGED items
         \/ DecodeFailed
         \/ \E r \in Records : TakeRecord(r)
         \/ \E a \in Audio : Repair(a) \/ EndItem(a) \/ CommitPublished(a) \/ PublishRaises(a)
<1>1. ASSUME \/ Start \/ Crash \/ Produce \/ BeginLoop \/ TakeDone \/ TakeInvalid \/ Snapshot
             \/ EndScan \/ AfterWait \/ EndLoop \/ GoRound \/ Peek \/ PutBack
             \/ Finalize \/ Validate
      PROVE  UNCHANGED items
  BY <1>1 DEF Start, Table!RecoverRunning, Crash, Produce, BeginLoop, TakeDone, TakeInvalid,
     Snapshot, EndScan, AfterWait, EndLoop, GoRound, Peek, PutBack, Finalize, Validate,
     LoopAgain, tables
<1>2. ASSUME NEW a \in Audio, \/ Vanish(a) \/ RaiseOnItem(a) \/ WriteAnnotation(a)
                              \/ Dispatch(a) \/ PassOver(a) \/ EndSubmit(a)
      PROVE  UNCHANGED items
  BY <1>2 DEF Vanish, RaiseOnItem, WriteAnnotation, Dispatch, PassOver, EndSubmit, tables
<1>3. ASSUME NEW a \in Audio, NEW s \in Stages, \/ Prepare(a, s) \/ Submit(a, s)
                                                \/ Unhealthy(a, s)
      PROVE  UNCHANGED items
  BY <1>3 DEF Prepare, Submit, Unhealthy, Table!PrepareStage, Table!ClaimStage,
     Table!RowBecomes, Table!tables
<1>4. ASSUME NEW a \in Audio, NEW s \in Stages, Collect(a, s) PROVE UNCHANGED items
  BY <1>4 DEF Collect, Table!FailStage, Table!FinishStage, Table!RowBecomes
<1>5. ASSUME NEW a \in Audio, NEW s \in Stages, Reply(a, s) PROVE UNCHANGED items
  BY <1>5 DEF Reply, tables
<1>6. CASE UNCHANGED vars
  BY <1>6 DEF vars, tables
<1> QED BY <1>1, <1>2, <1>3, <1>4, <1>5, <1>6 DEF Next, MainStep

\* The scan's own changes of an item's status.
LEMMA Settles ==
  ASSUME IInv, NEW a \in Audio, EndItem(a) \/ CommitPublished(a) \/ PublishRaises(a)
  PROVE  \E status \in Terminal :
            /\ SettleItem(a, status) /\ Visiting(a) /\ pc \in {"scan", "commit"}
            /\ pc' = "scan" /\ items[a].status = "pending"
            /\ status = "published" => pc = "commit"
            /\ status \in Verdicts => status = Verdict(a)
<1>1. items[a].status = "pending" /\ Visiting(a)
  BY DEF EndItem, CommitPublished, PublishRaises, Scanning, Visiting, IInv, Control
<1>2. CASE EndItem(a)
  <2>1. CASE Verdict(a) # None /\ SettleItem(a, Verdict(a))
    <3>1. Verdict(a) \in Verdicts
      BY <2>1 DEF Verdict
    <3> QED BY <1>1, <1>2, <2>1, <3>1 DEF EndItem, Scanning, Terminal, Verdicts
  <2>2. CASE SettleItem(a, "failed")
    BY <1>1, <1>2, <2>2 DEF EndItem, Scanning, Terminal, Verdicts
  <2> QED BY <1>2, <2>1, <2>2 DEF EndItem
<1>3. CASE CommitPublished(a)
  BY <1>1, <1>3 DEF CommitPublished, Terminal, Verdicts
<1>4. CASE PublishRaises(a)
  BY <1>1, <1>4 DEF PublishRaises, Scanning, Terminal, Verdicts
<1> QED BY <1>2, <1>3, <1>4

-----------------------------------------------------------------------------
(* Annotation files. *)

\* Everything an annotation was built from is final, so the annotation stays true.
LEMMA AnnotationStays ==
  ASSUME IInv, [Next]_vars, NEW a \in Audio, CanPublish(a)
  PROVE  CanPublish(a)' /\ Annotation(a)' = Annotation(a)
<1>1. TrackComplete(a) /\ TrackComplete(a)' /\ (IsSong(a) <=> IsSong(a)')
  <2>1. TrackComplete(a) /\ Routed(a)
    BY DEF CanPublish, TrackComplete
  <2> QED BY <2>1, RouteStays
<1>2. \A s \in Stages \ {Asr} : rows'[a][s] = rows[a][s]
  BY <1>1, SuccessStays, ConstantFacts DEF TrackComplete, Routed, PassedGate
<1>3. rows'[a][Asr].result = rows[a][Asr].result /\ CanPublish(a)'
  <2>1. CASE IsSong(a)
    BY <1>1, <2>1, SuccessStays, ConstantFacts DEF CanPublish
  <2>2. CASE ~IsSong(a)
    <3>1. Is(a, Asr, "absent")
      BY <2>2, ConstantFacts DEF IInv, Ordered, MayRun
    <3>2. Is(a, Asr, "absent")'
      BY <1>1, <2>2, <3>1, NewRow, ConstantFacts DEF MayRun
    <3>3. rows[a][Asr].result = None /\ rows'[a][Asr].result = None
      BY <3>1, <3>2, StepIInv, ConstantFacts DEF IInv, TableFacts!RowsCoherent, Is
    <3> QED BY <1>1, <2>2, <3>3 DEF CanPublish
  <2> QED BY <2>1, <2>2
<1>4. Annotation(a)' = [s \in Stages |-> rows'[a][s].result]
  BY DEF Annotation
<1>5. \A s \in Stages : rows'[a][s].result = rows[a][s].result
  BY <1>2, <1>3
<1> QED BY <1>3, <1>4, <1>5 DEF Annotation

\* The steps that touch the files.
LEMMA FilesKept ==
  ASSUME [Next]_vars
  PROVE  \/ UNCHANGED annotations
         \/ \E a \in Audio : WriteAnnotation(a) \/ Vanish(a)
<1> USE DEF files
<1>1. ASSUME \/ Start \/ Crash \/ Produce \/ BeginLoop \/ TakeDone \/ TakeInvalid
             \/ DecodeFailed \/ Snapshot \/ EndScan \/ AfterWait \/ EndLoop \/ GoRound
             \/ Peek \/ PutBack \/ Finalize \/ Validate
      PROVE  UNCHANGED annotations
  BY <1>1 DEF Start, Crash, Produce, BeginLoop, TakeDone, TakeInvalid, DecodeFailed,
     Snapshot, EndScan, AfterWait, EndLoop, GoRound, Peek, PutBack, Finalize, Validate,
     LoopAgain
<1>2. ASSUME NEW a \in Audio, \/ RaiseOnItem(a) \/ Dispatch(a) \/ PassOver(a)
                              \/ EndSubmit(a) \/ Repair(a) \/ EndItem(a)
                              \/ CommitPublished(a) \/ PublishRaises(a)
      PROVE  UNCHANGED annotations
  BY <1>2 DEF RaiseOnItem, Dispatch, PassOver, EndSubmit, Repair, EndItem,
     CommitPublished, PublishRaises, SettleItem
<1>3. ASSUME NEW r \in Records, TakeRecord(r) PROVE UNCHANGED annotations
  BY <1>3 DEF TakeRecord
<1>4. ASSUME NEW a \in Audio, NEW s \in Stages, \/ Prepare(a, s) \/ Submit(a, s)
                                                \/ Unhealthy(a, s) \/ Collect(a, s)
                                                \/ Reply(a, s)
      PROVE  UNCHANGED annotations
  BY <1>4 DEF Prepare, Submit, Unhealthy, Collect, Reply
<1>5. CASE UNCHANGED vars
  BY <1>5 DEF vars
<1> QED BY <1>1, <1>2, <1>3, <1>4, <1>5 DEF Next, MainStep

LEMMA StepComplete ==
  IInv /\ AnnotationsComplete /\ [Next]_vars => AnnotationsComplete'
<1> SUFFICES ASSUME IInv, AnnotationsComplete, [Next]_vars,
                    NEW a \in Audio, annotations'[a] # None
             PROVE  CanPublish(a)' /\ annotations'[a] = Annotation(a)'
    BY DEF AnnotationsComplete, CanPublish, TrackComplete
<1>1. TypeOK
  BY DEF IInv
<1>2. CASE annotations'[a] = annotations[a]
  <2>1. CanPublish(a) /\ annotations[a] = Annotation(a)
    BY <1>2 DEF AnnotationsComplete, CanPublish, TrackComplete
  <2> QED BY <1>2, <2>1, AnnotationStays
<1>3. ASSUME NEW b \in Audio, WriteAnnotation(b)
      PROVE  CanPublish(a)' /\ annotations'[a] = Annotation(a)'
  <2>1. CanPublish(b) /\ annotations' = [annotations EXCEPT ![b] = Annotation(b)]
    BY <1>3 DEF WriteAnnotation
  <2>2. CASE a = b
    BY <1>1, <2>1, <2>2, AnnotationStays DEF TypeOK
  <2>3. CASE a # b
    BY <1>1, <1>2, <2>1, <2>3 DEF TypeOK
  <2> QED BY <2>2, <2>3
<1>4. ASSUME NEW b \in Audio, Vanish(b)
      PROVE  CanPublish(a)' /\ annotations'[a] = Annotation(a)'
  BY <1>1, <1>2, <1>4 DEF Vanish, TypeOK
<1> QED BY <1>2, <1>3, <1>4, FilesKept

\* No annotation is ever written, left behind by a crash or rewritten, but from every
\* stage its route requires, and it always agrees with the tables.
THEOREM AnnotationsAreComplete == Spec => []AnnotationsComplete
<1>1. Init => AnnotationsComplete
  BY DEF Init, AnnotationsComplete
<1> QED BY <1>1, StepComplete, Invariance, PTL DEF Spec

-----------------------------------------------------------------------------
(* Published items.  The status is committed only while the file is there, and the     *)
(* repair of a new run restores that before its loop begins.                            *)

PublishInv ==
    /\ PublishedHasFile
    /\ pc = "commit" => \A a \in Audio : Visiting(a) => annotations[a] # None

\* Where the main thread goes from and to, as far as publishing is concerned.
LEMMA LoopEntered ==
  ASSUME [Next]_vars
  PROVE  /\ pc \in {"down", "repair"} /\ pc' \notin {"down", "repair"} =>
               BeginLoop /\ UNCHANGED <<items, annotations>>
         /\ pc' = "commit" => \/ UNCHANGED <<pc, items, scan, annotations>>
                              \/ \E a \in Audio : WriteAnnotation(a)
<1> USE DEF files, thread, loop, tables
<1>1. ASSUME \/ Start \/ Crash \/ BeginLoop \/ TakeDone \/ TakeInvalid \/ DecodeFailed
             \/ EndScan \/ AfterWait \/ EndLoop \/ GoRound \/ Peek \/ PutBack
             \/ Finalize \/ Validate \/ Snapshot
      PROVE  /\ pc' # "commit"
             /\ pc \in {"down", "repair"} /\ pc' \notin {"down", "repair"} =>
                   BeginLoop /\ UNCHANGED <<items, annotations>>
  BY <1>1 DEF Start, Crash, BeginLoop, TakeDone, TakeInvalid, DecodeFailed, EndScan,
     AfterWait, EndLoop, GoRound, Peek, PutBack, Finalize, Validate, LoopAgain, Snapshot, Stop
<1>2. ASSUME NEW a \in Audio, \/ RaiseOnItem(a) \/ Dispatch(a) \/ PassOver(a) \/ EndSubmit(a)
                              \/ EndItem(a) \/ CommitPublished(a) \/ PublishRaises(a)
      PROVE  pc' # "commit" /\ pc \notin {"down", "repair"}
  BY <1>2 DEF RaiseOnItem, Dispatch, PassOver, EndSubmit, EndItem, CommitPublished,
     PublishRaises, Scanning, Stop
<1>3. ASSUME NEW a \in Audio, Repair(a) \/ Vanish(a)
      PROVE  pc' \in {"down", "repair"}
  BY <1>3 DEF Repair, Vanish
<1>4. ASSUME NEW a \in Audio, WriteAnnotation(a) PROVE pc \notin {"down", "repair"}
  BY <1>4 DEF WriteAnnotation, Scanning
<1>5. ASSUME NEW r \in Records, TakeRecord(r)
      PROVE  pc' # "commit" /\ pc \notin {"down", "repair"}
  BY <1>5 DEF TakeRecord
<1>6. ASSUME NEW a \in Audio, NEW s \in Stages, \/ Prepare(a, s) \/ Submit(a, s)
                                                \/ Unhealthy(a, s) \/ Collect(a, s)
      PROVE  pc' # "commit" /\ pc \notin {"down", "repair"}
  BY <1>6 DEF Prepare, Submit, Unhealthy, Collect, Stop
<1>7. ASSUME NEW a \in Audio, NEW s \in Stages, Produce \/ Reply(a, s)
      PROVE  UNCHANGED <<pc, items, scan, annotations>>
  BY <1>7 DEF Produce, Reply
<1>8. CASE Produce
  BY <1>8 DEF Produce
<1>9. CASE UNCHANGED vars
  BY <1>9 DEF vars
<1> QED BY <1>1, <1>2, <1>3, <1>4, <1>5, <1>6, <1>7, <1>8, <1>9 DEF Next, MainStep

LEMMA AnnotationIsSome == ASSUME TypeOK, NEW a \in Audio PROVE Annotation(a) # None
<1>1. Annotation(a) \in Annotations
  BY DEF Annotation, Annotations, TypeOK, Row
<1> QED BY <1>1, RunnerAssumption DEF RunnerAssumption

LEMMA StepPublishInv == IInv /\ PublishInv /\ [Next]_vars => PublishInv'
<1> SUFFICES ASSUME IInv, PublishInv, [Next]_vars PROVE PublishInv'
    OBVIOUS
<1>1. TypeOK
  BY DEF IInv
<1>2. PublishedHasFile'
  <2> SUFFICES ASSUME pc' \notin {"down", "repair"}, NEW a \in Audio,
                      items'[a].status = "published"
               PROVE  annotations'[a] # None
      BY DEF PublishedHasFile
  <2>1. CASE pc \in {"down", "repair"}
    <3>1. BeginLoop /\ UNCHANGED <<items, annotations>>
      BY <2>1, LoopEntered
    <3> QED BY <3>1 DEF BeginLoop, Unbacked
  <2>2. CASE pc \notin {"down", "repair"}
    <3>1. annotations[a] # None => annotations'[a] # None
      <4>1. ASSUME NEW b \in Audio, WriteAnnotation(b)
            PROVE  annotations[a] # None => annotations'[a] # None
        <5>1. annotations'[b] = Annotation(b) /\ \A c \in Audio : c # b =>
                                                     annotations'[c] = annotations[c]
          BY <1>1, <4>1 DEF WriteAnnotation, TypeOK
        <5> QED BY <1>1, <5>1, AnnotationIsSome
      <4>2. ASSUME NEW b \in Audio, Vanish(b) PROVE FALSE
        BY <2>2, <4>2 DEF Vanish
      <4> QED BY <4>1, <4>2, FilesKept
    <3>2. CASE items[a].status = "published"
      BY <2>2, <3>1, <3>2 DEF PublishInv, PublishedHasFile
    <3>3. ASSUME NEW b \in Audio, EndItem(b) \/ CommitPublished(b) \/ PublishRaises(b),
                 items[a].status # "published"
          PROVE  annotations[a] # None
      <4>1. PICK status \in Terminal : /\ SettleItem(b, status) /\ Visiting(b)
                                       /\ status = "published" => pc = "commit"
        BY <3>3, Settles
      <4>2. a = b /\ status = "published"
        BY <1>1, <3>3, <4>1, StatusSet DEF SettleItem
      <4> QED BY <4>1, <4>2 DEF PublishInv
    <3>4. ASSUME NEW b \in Audio, Repair(b) PROVE FALSE
      BY <2>2, <3>4 DEF Repair
    <3>5. ASSUME DecodeFailed PROVE items[a].status = "published"
      BY <1>1, <3>5, StatusSet DEF DecodeFailed
    <3>6. ASSUME NEW r \in Records, TakeRecord(r) PROVE items[a].status = "published"
      BY <1>1, <3>6, ItemRegistered DEF TakeRecord
    <3> QED BY <3>1, <3>2, <3>3, <3>4, <3>5, <3>6, ItemsKept
  <2> QED BY <2>1, <2>2
<1>3. ASSUME pc' = "commit", NEW a \in Audio, Visiting(a)' PROVE annotations'[a] # None
  <2>1. CASE UNCHANGED <<pc, items, scan, annotations>>
    BY <1>3, <2>1 DEF PublishInv, Visiting
  <2>2. ASSUME NEW b \in Audio, WriteAnnotation(b) PROVE annotations'[a] # None
    <3>1. Visiting(a) /\ Visiting(b)
      BY <1>3, <2>2 DEF WriteAnnotation, Scanning, Visiting, tables, loop
    <3>2. a = b
      BY <3>1, OneVisited
    <3> QED BY <1>1, <2>2, <3>2, AnnotationIsSome DEF WriteAnnotation, TypeOK
  <2> QED BY <1>3, <2>1, <2>2, LoopEntered
<1> QED BY <1>2, <1>3 DEF PublishInv

LEMMA PublishInvariance == Spec => []PublishInv
<1>1. Init => PublishInv
  BY DEF Init, PublishInv, PublishedHasFile
<1> QED BY <1>1, StepPublishInv, Invariance, PTL DEF Spec

\* In a run past its repair, an item that says published has its annotation file.
THEOREM PublishedItemsHaveFiles == Spec => []PublishedHasFile
<1>1. PublishInv => PublishedHasFile
  BY DEF PublishInv
<1> QED BY <1>1, PublishInvariance, PTL

-----------------------------------------------------------------------------
(* Audios that could not be decoded: they have no rows, and in the run that has seen   *)
(* them they are failed before the first scan.                                          *)

Undecoded(a) == items[a].record # None /\ items[a].record.decode # "ok"

DecodeInv ==
    /\ \A a \in Audio : items[a].status # "absent" => items[a].record # None
    /\ pc = "decode_failed" => /\ held \in Records /\ held.decode # "ok"
                               /\ items[held.id].record = held
    /\ \A a \in Audio : Undecoded(a) =>
          /\ items[a].status \in {"pending", "failed"}
          /\ \A s \in Stages : Is(a, s, "absent")
          /\ a \in seen => \/ items[a].status = "failed"
                           \/ pc = "decode_failed" /\ held.id = a
    /\ seen # {} => pc \notin {"down", "repair"}
    /\ scan \subseteq seen

\* A scanned item could be decoded.
LEMMA ScannedDecoded ==
  ASSUME IInv, DecodeInv, NEW a \in scan, pc # "decode_failed"
  PROVE  a \in Audio /\ ~Undecoded(a)
<1>1. a \in Audio /\ items[a].status = "pending" /\ a \in seen
  BY DEF IInv, Control, DecodeInv
<1> QED BY <1>1 DEF DecodeInv

\* How seen and the scan change.
LEMMA SeenScan ==
  ASSUME IInv, [Next]_vars
  PROVE  \/ seen' = {} /\ scan' = {}
         \/ /\ UNCHANGED seen /\ (scan' \subseteq scan \/ scan' \subseteq seen)
            /\ pc \notin {"down", "repair"} => pc' \notin {"down", "repair"}
         \/ Start
         \/ \E r \in Records : TakeRecord(r)
<1> USE DEF files, thread, loop, tables
<1>1. ASSUME \/ BeginLoop \/ TakeDone \/ DecodeFailed \/ EndScan \/ AfterWait \/ GoRound
             \/ Peek \/ PutBack \/ Finalize
      PROVE  /\ UNCHANGED seen /\ scan' \subseteq scan
             /\ pc' \notin {"down", "repair"}
  BY <1>1 DEF BeginLoop, TakeDone, DecodeFailed, EndScan, AfterWait, GoRound, Peek, PutBack,
     Finalize, LoopAgain
<1>2. CASE Crash \/ TakeInvalid \/ Validate
  BY <1>2 DEF Crash, TakeInvalid, Validate, Stop
<1>3. CASE Snapshot
  BY <1>3 DEF Snapshot, Stop
<1>4. CASE EndLoop
  BY <1>4 DEF EndLoop, Stop
<1>5. ASSUME NEW a \in Audio, \/ Dispatch(a) \/ PassOver(a) \/ EndSubmit(a) \/ EndItem(a)
                              \/ CommitPublished(a) \/ PublishRaises(a) \/ WriteAnnotation(a)
      PROVE  /\ UNCHANGED seen /\ scan' \subseteq scan
             /\ pc' \notin {"down", "repair"}
  BY <1>5 DEF Dispatch, PassOver, EndSubmit, EndItem, CommitPublished, PublishRaises,
     WriteAnnotation, SettleItem, Leave, Scanning
<1>6. ASSUME NEW a \in Audio, RaiseOnItem(a) PROVE seen' = {} /\ scan' = {}
  BY <1>6 DEF RaiseOnItem, Stop
<1>7. ASSUME NEW a \in Audio, Repair(a) \/ Vanish(a) PROVE UNCHANGED <<pc, seen, scan>>
  BY <1>7 DEF Repair, Vanish
<1>8. ASSUME NEW a \in Audio, NEW s \in Stages, Prepare(a, s) \/ Submit(a, s) \/ Collect(a, s)
      PROVE  /\ UNCHANGED <<seen, scan>> /\ pc' \notin {"down", "repair"}
  BY <1>8 DEF Prepare, Submit, Collect
<1>9. ASSUME NEW a \in Audio, NEW s \in Stages, Unhealthy(a, s)
      PROVE  seen' = {} /\ scan' = {}
  BY <1>9 DEF Unhealthy, Stop
<1>10. ASSUME NEW a \in Audio, NEW s \in Stages, Reply(a, s)
       PROVE  UNCHANGED <<pc, seen, scan>>
  BY <1>10 DEF Reply
<1>11. CASE Produce
  BY <1>11 DEF Produce
<1>12. CASE UNCHANGED vars
  BY <1>12 DEF vars
<1> QED
  BY <1>1, <1>2, <1>3, <1>4, <1>5, <1>6, <1>7, <1>8, <1>9, <1>10, <1>11, <1>12
     DEF Next, MainStep

\* An undecodable record is marked failed before anything else the main thread does.
LEMMA DecodeKept ==
  ASSUME [Next]_vars
  PROVE  /\ pc = "decode_failed" =>
               DecodeFailed \/ UNCHANGED <<pc, held, seen>> \/ seen' = {}
         /\ pc' = "decode_failed" =>
               \/ UNCHANGED <<pc, held>>
               \/ \E r \in Records : TakeRecord(r) /\ held' = r /\ r.decode # "ok"
<1> USE DEF files, thread, loop
<1>1. ASSUME \/ Start \/ BeginLoop \/ TakeDone \/ EndScan \/ AfterWait \/ GoRound
             \/ Peek \/ PutBack \/ Finalize \/ EndLoop \/ Snapshot \/ Validate \/ TakeInvalid
      PROVE  pc # "decode_failed" /\ (pc' = "decode_failed" => UNCHANGED <<pc, held>>)
  BY <1>1 DEF Start, BeginLoop, TakeDone, EndScan, AfterWait, GoRound, Peek, PutBack,
     Finalize, LoopAgain, EndLoop, Snapshot, Validate, TakeInvalid, Stop
<1>2. CASE Crash \/ DecodeFailed
  BY <1>2 DEF Crash, DecodeFailed, Stop
<1>3. ASSUME NEW a \in Audio, \/ Dispatch(a) \/ PassOver(a) \/ EndSubmit(a) \/ EndItem(a)
                              \/ CommitPublished(a) \/ PublishRaises(a) \/ WriteAnnotation(a)
                              \/ RaiseOnItem(a) \/ Repair(a)
      PROVE  pc # "decode_failed" /\ pc' # "decode_failed"
  BY <1>3 DEF Dispatch, PassOver, EndSubmit, EndItem, CommitPublished, PublishRaises,
     WriteAnnotation, RaiseOnItem, Repair, Scanning, Stop
<1>4. ASSUME NEW a \in Audio, NEW s \in Stages, \/ Prepare(a, s) \/ Submit(a, s)
                                                \/ Unhealthy(a, s) \/ Collect(a, s)
      PROVE  pc # "decode_failed" /\ pc' # "decode_failed"
  BY <1>4 DEF Prepare, Submit, Unhealthy, Collect, Stop
<1>5. ASSUME NEW r \in Records, TakeRecord(r)
      PROVE  /\ pc # "decode_failed"
             /\ pc' = "decode_failed" => held' = r /\ r.decode # "ok"
  BY <1>5 DEF TakeRecord
<1>6. ASSUME NEW a \in Audio, Vanish(a) PROVE UNCHANGED <<pc, held, seen>>
  BY <1>6 DEF Vanish
<1>7. ASSUME NEW a \in Audio, NEW s \in Stages, Reply(a, s)
      PROVE  UNCHANGED <<pc, held, seen>>
  BY <1>7 DEF Reply
<1>8. CASE Produce
  BY <1>8 DEF Produce
<1>9. CASE UNCHANGED vars
  BY <1>9 DEF vars
<1> QED BY <1>1, <1>2, <1>3, <1>4, <1>5, <1>6, <1>7, <1>8, <1>9 DEF Next, MainStep

LEMMA StepDecodeInv == IInv /\ DecodeInv /\ [Next]_vars => DecodeInv'
<1> SUFFICES ASSUME IInv, DecodeInv, [Next]_vars PROVE DecodeInv'
    OBVIOUS
<1>1. /\ TypeOK /\ \A r \in Records : r.id \in Audio /\ r # None
      /\ scan \subseteq Audio
  BY RunnerAssumption DEF IInv, TypeOK, RunnerAssumption
\* What each step on the items leaves of one item.
<1>2. ASSUME NEW a \in Audio, items'[a] # items[a], ~DecodeFailed
      PROVE  \/ \E r \in Records : /\ TakeRecord(r) /\ a = r.id
                                    /\ items[a].status = "absent"
                                    /\ items'[a].status = "pending" /\ items'[a].record = r
             \/ /\ items'[a].record = items[a].record /\ items[a].status # "absent"
                /\ \/ ~Undecoded(a)
                   \/ pc = "repair" /\ UNCHANGED pc /\ items'[a].status = "pending"
  <2>1. ASSUME NEW r \in Records, TakeRecord(r)
        PROVE  /\ a = r.id /\ items[a].status = "absent"
               /\ items'[a].status = "pending" /\ items'[a].record = r
    BY <1>1, <1>2, <2>1, ItemRegistered DEF TakeRecord
  <2>2. ASSUME NEW b \in Audio, Repair(b)
        PROVE  /\ items'[a].record = items[a].record /\ items[a].status # "absent"
               /\ pc = "repair" /\ UNCHANGED pc /\ items'[a].status = "pending"
    <3>1. a = b
      BY <1>1, <1>2, <2>2 DEF Repair, Table!SetItemStatus, TypeOK
    <3> QED BY <1>1, <2>2, <3>1, StatusSet DEF Repair, Unbacked
  <2>3. ASSUME NEW b \in Audio, EndItem(b) \/ CommitPublished(b) \/ PublishRaises(b)
        PROVE  /\ items'[a].record = items[a].record /\ items[a].status # "absent"
               /\ ~Undecoded(a)
    <3>1. PICK status \in Terminal : /\ SettleItem(b, status) /\ Visiting(b)
                                     /\ pc \in {"scan", "commit"}
                                     /\ items[b].status = "pending"
      BY <2>3, Settles
    <3>2. a = b
      BY <1>1, <1>2, <3>1 DEF SettleItem, Table!SetItemStatus, TypeOK
    <3> QED BY <1>1, <3>1, <3>2, StatusSet, ScannedDecoded DEF SettleItem, Visiting
  <2> QED BY <1>2, <2>1, <2>2, <2>3, ItemsKept
<1>3. ASSUME NEW a \in Audio, DecodeFailed
      PROVE  /\ items'[a].record = items[a].record
             /\ items'[a].status = IF a = held.id THEN "failed" ELSE items[a].status
             /\ items'[a].status # "absent" => items[a].status # "absent"
             /\ UNCHANGED rows /\ UNCHANGED seen
  <2>1. /\ Table!SetItemStatus(held.id, "failed") /\ UNCHANGED seen
        /\ items[held.id].status # "absent"
    BY <1>3 DEF DecodeFailed, loop, Table!SetItemStatus, Table!Registered
  <2> QED BY <1>1, <2>1, StatusSet
<1>4. ASSUME NEW a \in Audio, items'[a].status # "absent" PROVE items'[a].record # None
  BY <1>1, <1>2, <1>3, <1>4 DEF DecodeInv
<1>5. ASSUME pc' = "decode_failed"
      PROVE  held' \in Records /\ held'.decode # "ok" /\ items'[held'.id].record = held'
  <2>1. CASE UNCHANGED <<pc, held>>
    <3>1. held \in Records /\ held.decode # "ok" /\ items[held.id].record = held
      BY <1>5, <2>1 DEF DecodeInv
    <3>2. items'[held.id].record = items[held.id].record
      BY <1>1, <1>2, <1>3, <1>5, <2>1, <3>1 DEF TakeRecord
    <3> QED BY <2>1, <3>1, <3>2
  <2>2. ASSUME NEW r \in Records, TakeRecord(r), held' = r, r.decode # "ok"
        PROVE  held' \in Records /\ held'.decode # "ok" /\ items'[held'.id].record = held'
    <3>1. items[r.id].record \in {None, r}
      BY <2>2 DEF TakeRecord, Table!RegisterItem, Table!InventoryChanged
    <3> QED BY <1>1, <2>2, <3>1, ItemRegistered DEF TakeRecord, DecodeInv
  <2> QED BY <1>5, <2>1, <2>2, DecodeKept
<1>6. seen' # {} => pc' \notin {"down", "repair"}
  BY SeenScan DEF DecodeInv, Start, TakeRecord, loop
<1>7. scan' \subseteq seen'
  BY SeenScan DEF DecodeInv, Start, TakeRecord, loop
\* An undecoded item gets no row.
<1>8. ASSUME NEW a \in Audio, Undecoded(a) PROVE \A s \in Stages : Is(a, s, "absent")'
  <2> SUFFICES ASSUME NEW s \in Stages, ~Is(a, s, "absent")' PROVE FALSE
      OBVIOUS
  <2>1. Prepare(a, s)
    BY <1>8, NewRow DEF DecodeInv
  <2> QED BY <1>8, <2>1, ScannedDecoded DEF Prepare, Visiting
<1>9. ASSUME NEW a \in Audio, Undecoded(a)'
      PROVE  /\ items'[a].status \in {"pending", "failed"}
             /\ \A s \in Stages : Is(a, s, "absent")'
             /\ a \in seen' => \/ items'[a].status = "failed"
                               \/ pc' = "decode_failed" /\ held'.id = a
  <2>1. CASE items'[a] = items[a] /\ ~DecodeFailed
    <3>1. Undecoded(a)
      BY <1>9, <2>1 DEF Undecoded
    <3>2. ASSUME a \in seen'
          PROVE  items'[a].status = "failed" \/ (pc' = "decode_failed" /\ held'.id = a)
      <4>1. CASE a \in seen
        BY <2>1, <3>1, <3>2, <4>1, DecodeKept DEF DecodeInv
      <4>2. CASE a \notin seen
        <5>1. PICK r \in Records : TakeRecord(r)
          BY <3>2, <4>2, SeenScan DEF Start, loop
        <5>2. a = r.id
          BY <3>2, <4>2, <5>1 DEF TakeRecord
        <5>3. items[a].record = r
          BY <1>1, <2>1, <5>1, <5>2, ItemRegistered
             DEF TakeRecord, Table!RegisterItem, Table!InventoryChanged, DecodeInv
        <5> QED BY <3>1, <5>1, <5>2, <5>3 DEF TakeRecord, Undecoded
      <4> QED BY <4>1, <4>2
    <3> QED BY <1>8, <2>1, <3>1, <3>2 DEF DecodeInv
  <2>2. CASE DecodeFailed
    <3>1. Undecoded(a)
      BY <1>3, <1>9, <2>2 DEF Undecoded
    <3> QED BY <1>3, <1>8, <2>2, <3>1 DEF DecodeInv
  <2>3. ASSUME NEW r \in Records, TakeRecord(r), a = r.id, items[a].status = "absent",
               items'[a].status = "pending", items'[a].record = r
        PROVE  /\ items'[a].status \in {"pending", "failed"}
               /\ \A s \in Stages : Is(a, s, "absent")'
               /\ pc' = "decode_failed" /\ held'.id = a
    <3>1. \A s \in Stages : Is(a, s, "absent")
      BY <2>3 DEF IInv, TableFacts!RowsCoherent, TableFacts!Registered, Is
    <3>2. UNCHANGED rows
      BY <2>3 DEF TakeRecord, Table!RegisterItem, Table!tables
    <3> QED BY <1>9, <2>3, <3>1, <3>2 DEF TakeRecord, Undecoded, Is
  <2>4. CASE /\ items'[a].record = items[a].record
             /\ pc = "repair" /\ UNCHANGED pc /\ items'[a].status = "pending"
    <3>1. Undecoded(a)
      BY <1>9, <2>4 DEF Undecoded
    <3> QED BY <1>6, <1>8, <2>4, <3>1
  <2>5. CASE items'[a].record = items[a].record /\ ~Undecoded(a)
    BY <1>9, <2>5 DEF Undecoded
  <2> QED BY <1>2, <2>1, <2>2, <2>3, <2>4, <2>5
<1> QED BY <1>4, <1>5, <1>6, <1>7, <1>9 DEF DecodeInv

LEMMA DecodeInvariance == Spec => []DecodeInv
<1>1. Init => DecodeInv
  BY DEF Init, Table!Init, Table!NoItem, DecodeInv, Undecoded
<1> QED BY <1>1, StepDecodeInv, Invariance, PTL DEF Spec

\* An audio that could not be decoded is never sent to a service, also not by the run after
\* one that died between registering it and marking it failed.
THEOREM UndecodedIsNeverServed == Spec => []UndecodedNeverServed
<1>1. DecodeInv => UndecodedNeverServed
  BY DEF DecodeInv, Undecoded, UndecodedNeverServed
<1> QED BY <1>1, DecodeInvariance, PTL

\* A partition once reached is kept by every run, except by the repair of a published item
\* whose file is gone.
THEOREM PartitionsAreKept == Spec => TerminalIsFinal
<1>1. ASSUME IInv, DecodeInv, [Next]_vars, NEW a \in Audio, items[a].status \in Terminal
      PROVE  \/ items'[a].status = items[a].status
             \/ Unbacked(a) /\ items'[a].status = "pending"
  <2>1. TypeOK
    BY <1>1 DEF IInv
  <2>2. ASSUME DecodeFailed PROVE items'[a].status = items[a].status
    <3>1. /\ Table!SetItemStatus(held.id, "failed") /\ held \in Records
          /\ items[held.id].record = held /\ held.decode # "ok"
      BY <1>1, <2>2 DEF DecodeFailed, DecodeInv
    <3>2. a = held.id => items[a].status = "failed"
      BY <1>1, <3>1, RunnerAssumption
         DEF RunnerAssumption, DecodeInv, Undecoded, Terminal, Verdicts
    <3> QED BY <2>1, <3>1, <3>2, StatusSet
  <2>3. ASSUME NEW r \in Records, TakeRecord(r) PROVE items'[a].status = items[a].status
    BY <1>1, <2>1, <2>3, ItemRegistered DEF TakeRecord, Terminal, Verdicts
  <2>4. ASSUME NEW b \in Audio, Repair(b)
        PROVE  \/ items'[a].status = items[a].status
               \/ Unbacked(a) /\ items'[a].status = "pending"
    BY <2>1, <2>4, StatusSet DEF Repair
  <2>5. ASSUME NEW b \in Audio, EndItem(b) \/ CommitPublished(b) \/ PublishRaises(b)
        PROVE  items'[a].status = items[a].status
    <3>1. PICK status \in Terminal : SettleItem(b, status) /\ items[b].status = "pending"
      BY <1>1, <2>5, Settles
    <3> QED BY <1>1, <2>1, <3>1, StatusSet DEF SettleItem, Terminal, Verdicts
  <2> QED BY <1>1, <2>2, <2>3, <2>4, <2>5, ItemsKept
<1>2. IInv /\ DecodeInv /\ [Next]_vars =>
        [\A a \in Audio : items[a].status \in Terminal =>
           \/ items'[a].status = items[a].status
           \/ Unbacked(a) /\ items'[a].status = "pending"]_vars
  BY <1>1
<1> QED BY <1>2, Invariance, DecodeInvariance, PTL DEF Spec, TerminalIsFinal

-----------------------------------------------------------------------------
(* The runner implements TrackLifecycle. *)

\* A result appears only when the reply of a running stage is collected.
LEMMA ResultsKept ==
  ASSUME IInv, [Next]_vars
  PROVE  \/ \A a \in Audio, s \in Stages : rows'[a][s].result = rows[a][s].result
         \/ \E a \in Audio, s \in Stages, r \in Results :
               /\ Is(a, s, "running") /\ rows[a][s].result = None
               /\ UNCHANGED <<items, annotations>>
               /\ \A b \in Audio, t \in Stages :
                     rows'[b][t].result = IF a = b /\ s = t THEN r ELSE rows[b][t].result
<1>1. TypeOK
  BY DEF IInv
<1>2. \A a \in Audio, s \in Stages : ~Succeeded(a, s) => rows[a][s].result = None
  BY DEF IInv, TableFacts!RowsCoherent, Succeeded, Is
<1>3. ASSUME Start, NEW a \in Audio, NEW s \in Stages
      PROVE  rows'[a][s].result = rows[a][s].result
  <2>1. rows'[a][s] = IF rows[a][s].status = "running"
                      THEN [rows[a][s] EXCEPT !.status = "pending"] ELSE rows[a][s]
    BY <1>3 DEF Start, Table!RecoverRunning
  <2>2. rows[a][s] \in Row
    BY <1>1 DEF TypeOK
  <2> QED BY <2>1, <2>2 DEF Row
<1>4. ASSUME NEW b \in Audio, NEW t \in Stages, Prepare(b, t) \/ Submit(b, t) \/ Unhealthy(b, t),
             NEW a \in Audio, NEW s \in Stages
      PROVE  rows'[a][s].result = rows[a][s].result
  <2>1. CASE Submit(b, t) \/ Unhealthy(b, t)
    BY <1>1, <2>1, RowWritten DEF Submit, Unhealthy, Table!ClaimStage
  <2>2. CASE Prepare(b, t) /\ Is(b, t, "absent")
    <3>1. rows[b][t].result = None
      BY <1>2, <2>2 DEF Succeeded, Is
    <3> QED BY <1>1, <2>2, <3>1, RowWritten DEF Prepare, Table!PrepareStage, Is
  <2>3. CASE Prepare(b, t) /\ ~Is(b, t, "absent")
    BY <2>3 DEF Prepare, Table!PrepareStage, Table!tables, Is
  <2> QED BY <1>4, <2>1, <2>2, <2>3
<1>5. ASSUME NEW a \in Audio, NEW s \in Stages, Collect(a, s)
      PROVE  /\ Is(a, s, "running") /\ rows[a][s].result = None
             /\ UNCHANGED <<items, annotations>>
             /\ \E r \in Results \cup {None} : \A b \in Audio, t \in Stages :
                   rows'[b][t].result = IF a = b /\ s = t THEN r ELSE rows[b][t].result
  <2>1. Is(a, s, "running") /\ UNCHANGED <<items, annotations>>
    BY <1>5 DEF Collect, Table!FailStage, Table!FinishStage, Table!RowBecomes, Is, files
  <2>2. rows[a][s].result = None
    BY <1>2, <2>1 DEF Succeeded, Is
  <2>3. CASE call[a][s] = Error
    BY <1>1, <1>5, <2>1, <2>2, <2>3, RowWritten DEF Collect, Table!FailStage
  <2>4. CASE call[a][s] # Error
    <3>1. call[a][s] \in Results
      BY <1>1, <1>5, <2>4 DEF Collect, Answered, TypeOK
    <3>2. \A b \in Audio, t \in Stages :
             rows'[b][t].result = IF a = b /\ s = t THEN call[a][s] ELSE rows[b][t].result
      BY <1>1, <1>5, <2>4, RowWritten DEF Collect, Table!FinishStage
    <3> QED BY <2>1, <2>2, <3>1, <3>2
  <2> QED BY <2>3, <2>4
<1>6. ASSUME NEW a \in Audio, NEW s \in Stages, Collect(a, s)
      PROVE  \/ \A b \in Audio, t \in Stages : rows'[b][t].result = rows[b][t].result
             \/ \E r \in Results :
                   /\ Is(a, s, "running") /\ rows[a][s].result = None
                   /\ UNCHANGED <<items, annotations>>
                   /\ \A b \in Audio, t \in Stages :
                        rows'[b][t].result = IF a = b /\ s = t THEN r ELSE rows[b][t].result
  BY <1>5, <1>6
<1> QED BY <1>3, <1>4, <1>6, RowsKept

\* TrackLifecycle sees the results that decide an item's way as the code does.
LEMMA SameRoute ==
  ASSUME IInv, NEW a \in Audio
  PROVE  /\ PassedGate(a) => Lifecycle!Passed(a)
         /\ Routed(a) => Lifecycle!OnRoute(a)
         /\ TrackComplete(a) => Lifecycle!Analysed(a)
         /\ CanPublish(a) => Lifecycle!Complete(a)
<1>1. \A s \in Stages : Succeeded(a, s) <=> rows[a][s].result # None
  BY DEF IInv, TableFacts!RowsCoherent, Succeeded, Is
<1>2. PassedGate(a) => Lifecycle!Passed(a)
  BY <1>1, ConstantFacts
     DEF PassedGate, Lifecycle!Passed, Lifecycle!Gate, Gate, Lifecycle!Verdicts, Verdicts
<1>3. Routed(a) => Lifecycle!OnRoute(a)
  BY <1>2, ConstantFacts
     DEF Routed, Lifecycle!OnRoute, Lifecycle!Discogs, Discogs, Lifecycle!Routes, Routes
<1>4. TrackComplete(a) => Lifecycle!Analysed(a)
  BY <1>1, <1>3, ConstantFacts DEF TrackComplete, Lifecycle!Analysed
<1>5. CanPublish(a) => Lifecycle!Complete(a)
  BY <1>1, <1>4, ConstantFacts
     DEF CanPublish, IsSong, Lifecycle!Complete, Lifecycle!Discogs, Lifecycle!Asr, Discogs, Asr
<1> QED BY <1>2, <1>3, <1>4, <1>5

\* The reply of a running stage is one TrackLifecycle infers.
LEMMA InferStep ==
  ASSUME IInv, NEW a \in Audio, NEW s \in Stages, NEW r \in Results,
         Is(a, s, "running"), rows[a][s].result = None, UNCHANGED <<items, annotations>>,
         \A b \in Audio, t \in Stages :
            rows'[b][t].result = IF a = b /\ s = t THEN r ELSE rows[b][t].result
  PROVE  Lifecycle!Infer(a, s)
<1>1. MayRun(a, s) /\ items[a].status # "absent"
  BY DEF IInv, Ordered, TableFacts!RowsCoherent, TableFacts!Registered, Is
<1>2. Lifecycle!MayInfer(a, s)
  BY <1>1, SameRoute, ConstantFacts
     DEF Lifecycle!MayInfer, MayRun, IsSong, Lifecycle!Discogs, Lifecycle!Asr, Discogs, Asr
<1>3. [b \in Audio |-> [t \in Stages |-> rows'[b][t].result]]
        = [[b \in Audio |-> [t \in Stages |-> rows[b][t].result]] EXCEPT ![a][s] = r]
  <2> DEFINE done == [b \in Audio |-> [t \in Stages |-> rows[b][t].result]]
  <2>1. ASSUME NEW b \in Audio
        PROVE  [t \in Stages |-> rows'[b][t].result] = [done EXCEPT ![a][s] = r][b]
    <3>1. [done EXCEPT ![a][s] = r][b] = IF b = a THEN [done[a] EXCEPT ![s] = r] ELSE done[b]
      OBVIOUS
    <3>2. CASE b = a
      <4>1. [t \in Stages |-> rows'[a][t].result]
              = [[t \in Stages |-> rows[a][t].result] EXCEPT ![s] = r]
        OBVIOUS
      <4> QED BY <3>1, <3>2, <4>1
    <3>3. CASE b # a
      <4>1. [t \in Stages |-> rows'[b][t].result] = [t \in Stages |-> rows[b][t].result]
        BY <3>3
      <4> QED BY <3>1, <3>3, <4>1
    <3> QED BY <3>2, <3>3
  <2> QED BY <2>1
<1> QED BY <1>2, <1>3 DEF Lifecycle!Infer

\* A step that leaves the results and the files alone moves at most one item's status.
LEMMA StatusStep ==
  ASSUME IInv, DecodeInv, PublishInv, [Next]_vars,
         \A a \in Audio, s \in Stages : rows'[a][s].result = rows[a][s].result,
         UNCHANGED annotations
  PROVE  [Lifecycle!Next]_(Lifecycle!track)
<1>1. TypeOK
  BY DEF IInv
<1>2. /\ [a \in Audio |-> [s \in Stages |-> rows'[a][s].result]]
           = [a \in Audio |-> [s \in Stages |-> rows[a][s].result]]
      /\ annotations' = annotations
  OBVIOUS
<1> DEFINE Moves(a, status) == \A b \in Audio :
              items'[b].status = IF b = a THEN status ELSE items[b].status
<1>3. ASSUME NEW a \in Audio, NEW status, Moves(a, status)
      PROVE  [b \in Audio |-> items'[b].status]
               = [[b \in Audio |-> items[b].status] EXCEPT ![a] = status]
  BY <1>3
<1>4. CASE \A a \in Audio : items'[a].status = items[a].status
  <2>1. [b \in Audio |-> items'[b].status] = [b \in Audio |-> items[b].status]
    BY <1>4
  <2> QED BY <1>2, <2>1 DEF Lifecycle!track
<1>5. ASSUME NEW a \in Audio, items[a].status = "pending", Moves(a, "failed")
      PROVE  Lifecycle!Next
  BY <1>2, <1>3, <1>5 DEF Lifecycle!Fail, Lifecycle!Next
<1>6. CASE DecodeFailed
  <2>1. /\ Table!SetItemStatus(held.id, "failed") /\ held \in Records
        /\ items[held.id].record = held /\ held.decode # "ok" /\ held.id \in Audio
    BY <1>6, RunnerAssumption DEF DecodeFailed, DecodeInv, RunnerAssumption
  <2>2. items[held.id].status \in {"pending", "failed"}
    BY <2>1, RunnerAssumption DEF DecodeInv, Undecoded, RunnerAssumption
  <2>3. Moves(held.id, "failed")
    BY <1>1, <2>1, StatusSet
  <2> QED BY <1>4, <1>5, <2>1, <2>2, <2>3
<1>7. ASSUME NEW r \in Records, TakeRecord(r) PROVE [Lifecycle!Next]_(Lifecycle!track)
  <2>1. r.id \in Audio /\ Table!RegisterItem(r)
    BY <1>7, RunnerAssumption DEF RunnerAssumption, TakeRecord
  <2>2. CASE items[r.id].status = "absent" /\ Moves(r.id, "pending")
    BY <1>2, <1>3, <2>1, <2>2 DEF Lifecycle!Admit, Lifecycle!Next
  <2> QED BY <1>1, <1>4, <2>1, <2>2, ItemRegistered
<1>8. ASSUME NEW a \in Audio, Repair(a) PROVE Lifecycle!Next
  <2>1. Moves(a, "pending") /\ items[a].status = "published" /\ annotations[a] = None
    BY <1>1, <1>8, StatusSet DEF Repair, Unbacked
  <2> QED BY <1>2, <1>3, <2>1 DEF Lifecycle!Reopen, Lifecycle!Next
<1>9. ASSUME NEW a \in Audio, EndItem(a) \/ CommitPublished(a) \/ PublishRaises(a)
      PROVE  Lifecycle!Next
  <2>1. PICK status \in Terminal :
           /\ SettleItem(a, status) /\ Visiting(a) /\ items[a].status = "pending"
           /\ status = "published" => pc = "commit"
           /\ status \in Verdicts => status = Verdict(a)
    BY <1>9, Settles
  <2>2. Moves(a, status)
    BY <1>1, <2>1, StatusSet DEF SettleItem
  <2>3. CASE status = "failed"
    BY <1>5, <2>1, <2>2, <2>3
  <2>4. CASE status = "published"
    <3>1. annotations[a] # None
      BY <2>1, <2>4 DEF PublishInv
    <3> QED BY <1>2, <1>3, <2>1, <2>2, <2>4, <3>1 DEF Lifecycle!Publish, Lifecycle!Next
  <2>5. CASE status \in Verdicts
    <3>1. PICK s \in {Gate, Discogs} : rows[a][s].result = status
      BY <2>1, <2>5, RunnerAssumption DEF Verdict, Verdicts, Results, RunnerAssumption
    <3>2. /\ s \in {Lifecycle!Gate, Lifecycle!Discogs} /\ s \in Stages
          /\ status \in Lifecycle!Verdicts
      BY <2>5, ConstantFacts DEF Gate, Discogs, Lifecycle!Gate, Lifecycle!Discogs,
         Verdicts, Lifecycle!Verdicts
    <3>3. [b \in Audio |-> [t \in Stages |-> rows[b][t].result]][a][s] = status
      BY <3>1, <3>2
    <3>4. [b \in Audio |-> items'[b].status] = [[b \in Audio |-> items[b].status] EXCEPT
             ![a] = [b \in Audio |-> [t \in Stages |-> rows[b][t].result]][a][s]]
      BY <1>3, <2>2, <3>3
    <3>5. Lifecycle!Decide(a)
      BY <1>2, <2>1, <3>2, <3>3, <3>4, <2>5 DEF Lifecycle!Decide
    <3> QED BY <3>5 DEF Lifecycle!Next
  <2> QED BY <2>1, <2>3, <2>4, <2>5 DEF Terminal
<1> QED BY <1>4, <1>6, <1>7, <1>8, <1>9, ItemsKept

LEMMA LifecycleStep ==
  ASSUME IInv, DecodeInv, PublishInv, [Next]_vars
  PROVE  [Lifecycle!Next]_(Lifecycle!track)
<1>1. TypeOK
  BY DEF IInv
<1>2. Lifecycle!Stages = Stages
  BY DEF Lifecycle!Stages, Stages, Lifecycle!Gate, Gate, Lifecycle!Discogs, Discogs,
     Lifecycle!Asr, Asr
<1>3. CASE \E a \in Audio, s \in Stages, r \in Results :
               /\ Is(a, s, "running") /\ rows[a][s].result = None
               /\ UNCHANGED <<items, annotations>>
               /\ \A b \in Audio, t \in Stages :
                     rows'[b][t].result = IF a = b /\ s = t THEN r ELSE rows[b][t].result
  BY <1>2, <1>3, InferStep DEF Lifecycle!Next
<1>4. ASSUME \A a \in Audio, s \in Stages : rows'[a][s].result = rows[a][s].result
      PROVE  [Lifecycle!Next]_(Lifecycle!track)
  <2>1. [a \in Audio |-> [s \in Stages |-> rows'[a][s].result]]
          = [a \in Audio |-> [s \in Stages |-> rows[a][s].result]]
    BY <1>4
  <2>2. ASSUME NEW a \in Audio, WriteAnnotation(a) PROVE Lifecycle!Write(a)
    <3>1. CanPublish(a) /\ items[a].status = "pending" /\ UNCHANGED items
      BY <2>2 DEF WriteAnnotation, Scanning, Visiting, IInv, Control, tables
    <3>2. annotations' = [annotations EXCEPT
                            ![a] = [b \in Audio |-> [s \in Stages |-> rows[b][s].result]][a]]
      BY <2>2 DEF WriteAnnotation, Annotation
    <3> QED BY <2>1, <3>1, <3>2, SameRoute DEF Lifecycle!Write
  <2>3. ASSUME NEW a \in Audio, Vanish(a) PROVE Lifecycle!Lose(a)
    BY <2>1, <2>3 DEF Vanish, Lifecycle!Lose, tables
  <2>4. CASE UNCHANGED annotations
    BY <1>4, <2>4, StatusStep
  <2> QED BY <2>2, <2>3, <2>4, FilesKept DEF Lifecycle!Next
<1> QED BY <1>3, <1>4, ResultsKept

\* The runner, with its queue, its calls in flight, its crashes and its restarts, does to
\* each audio only what TrackLifecycle allows.
THEOREM RunnerImplementsLifecycle == Spec => LifecycleSpec
<1>1. Init => Lifecycle!Init
  <2> SUFFICES ASSUME Init PROVE Lifecycle!Init
      OBVIOUS
  <2>1. \A a \in Audio, s \in Stages : rows[a][s].result = None
    BY DEF Init, Table!Init, Table!NoRow
  <2>2. Lifecycle!Stages = Stages
    BY DEF Lifecycle!Stages, Stages, Lifecycle!Gate, Gate, Lifecycle!Discogs, Discogs,
       Lifecycle!Asr, Asr
  <2>3. \A a \in Audio :
           [s \in Stages |-> rows[a][s].result] = [s \in Lifecycle!Stages |-> None]
    BY <2>1, <2>2
  <2>4. [a \in Audio |-> [s \in Stages |-> rows[a][s].result]]
          = [a \in Audio |-> [s \in Lifecycle!Stages |-> None]]
    BY <2>3
  <2>5. \A a \in Audio : items[a].status = "absent"
    BY DEF Init, Table!Init, Table!NoItem
  <2>6. [a \in Audio |-> items[a].status] = [a \in Audio |-> "absent"]
    BY <2>5
  <2> QED BY <2>4, <2>6 DEF Init, Lifecycle!Init
<1>2. IInv /\ DecodeInv /\ PublishInv /\ [Next]_vars => [Lifecycle!Next]_(Lifecycle!track)
  BY LifecycleStep
<1> QED
  BY <1>1, <1>2, Invariance, DecodeInvariance, PublishInvariance, PTL
     DEF Spec, LifecycleSpec, Lifecycle!Spec

-----------------------------------------------------------------------------
(* What a run that is not cut short leaves.  At its end no item is pending, so the      *)
(* partitions cover the inventory; and each kind of terminal status says what the files  *)
(* and the rows hold, so they exclude each other.                                       *)

\* Between the snapshot of the items and the next drain of the queue.
InPass == PCs \ {"down", "repair", "drain", "decode_failed"}

FinalReport == [review |-> WithStatus("review"), rejected |-> WithStatus("rejected"),
                retry |-> WithStatus("failed"), accepted |-> {a \in Audio : Routed(a)},
                inventory |-> Table!Registered]

\* An annotated item is published, or about to be; it did not fail.
FileSettled == \A a \in Audio : annotations[a] # None =>
                  items[a].status \in {"pending", "published"} /\ ~Unusable(a)

\* A review or rejected item is so by the verdict its rows still hold.
VerdictKept == \A a \in Audio : items[a].status \in Verdicts => Verdict(a) = items[a].status

\* With the inventory at its end, a snapshot without a pending item leaves none until the
\* run ends, and only such a snapshot lets it end.
NothingLeft ==
    /\ pc \in InPass /\ finished /\ ~backlog => scan = {} /\ WithStatus("pending") = {}
    /\ pc \in {"finalize", "validate"} => finished /\ ~backlog
    /\ pc = "validate" => report = FinalReport

\* Only a run that has ended has an exit, and a run that was not cut short left no audio
\* pending.
ExitSettled == /\ exit # "none" => pc = "down"
               /\ exit \in {"ok", "retry"} => WithStatus("pending") = {}

EndInv == VerdictKept /\ NothingLeft /\ ExitSettled

\* A verdict rests on results that are final.
LEMMA VerdictStays ==
  ASSUME IInv, [Next]_vars, NEW a \in Audio, Verdict(a) \in Verdicts
  PROVE  Verdict(a)' = Verdict(a)
<1>0. None \notin Verdicts
  BY RunnerAssumption DEF RunnerAssumption, Results
<1>1. CASE Succeeded(a, Gate) /\ rows[a][Gate].result \in Verdicts
  <2>1. rows'[a][Gate] = rows[a][Gate] /\ Succeeded(a, Gate)'
    BY <1>1, SuccessStays, ConstantFacts
  <2> QED BY <1>1, <2>1 DEF Verdict
<1>2. CASE ~(Succeeded(a, Gate) /\ rows[a][Gate].result \in Verdicts)
  <2>1. /\ PassedGate(a) /\ Succeeded(a, Discogs) /\ rows[a][Discogs].result \in Verdicts
        /\ Succeeded(a, Gate)
    BY <1>0, <1>2 DEF Verdict, PassedGate
  <2>2. /\ rows'[a][Gate] = rows[a][Gate] /\ Succeeded(a, Gate)'
        /\ rows'[a][Discogs] = rows[a][Discogs] /\ Succeeded(a, Discogs)'
    BY <2>1, SuccessStays, ConstantFacts
  <2> QED BY <1>2, <2>1, <2>2 DEF Verdict, PassedGate
<1> QED BY <1>1, <1>2

\* A routed item has no verdict.
LEMMA RoutedHasNoVerdict ==
  ASSUME NEW a \in Audio, Routed(a)
  PROVE  Verdict(a) \notin Verdicts
<1>1. None \notin Verdicts
  BY RunnerAssumption DEF RunnerAssumption, Results
<1> QED BY <1>1 DEF Routed, PassedGate, Verdict, Routes, Verdicts

\* An annotated item, when writing does not fail, is settled as published or not at all.
LEMMA AnnotatedSettles ==
  ASSUME IInv, AnnotationsComplete, FileSettled, ~WriteMayFail,
         NEW a \in Audio, annotations[a] # None,
         EndItem(a) \/ CommitPublished(a) \/ PublishRaises(a)
  PROVE  items'[a].status = "published"
<1>1. /\ Routed(a) /\ \A s \in FullTrack : Succeeded(a, s)
      /\ IsSong(a) => Succeeded(a, Asr)
      /\ ~Unusable(a)
  BY DEF AnnotationsComplete, FileSettled
<1>2. Verdict(a) = None
  BY <1>1 DEF Routed, PassedGate, Verdict, Routes, Verdicts
<1>3. ~StageFailed(a)
  BY <1>1 DEF StageFailed, Routed, PassedGate, TrackComplete, Succeeded, Is
<1>4. CommitPublished(a)
  BY <1>1, <1>2, <1>3 DEF EndItem, PublishRaises
<1> QED BY <1>4, StatusSet DEF CommitPublished, SettleItem, IInv

LEMMA StepFileSettled ==
  ASSUME IInv, AnnotationsComplete, DecodeInv, FileSettled, ~WriteMayFail, [Next]_vars
  PROVE  FileSettled'
<1> SUFFICES ASSUME NEW a \in Audio, annotations'[a] # None
             PROVE  items'[a].status \in {"pending", "published"} /\ ~Unusable(a)'
    BY DEF FileSettled
<1>1. TypeOK /\ \A r \in Records : r.id \in Audio
  BY RunnerAssumption DEF IInv, RunnerAssumption
<1>2. CASE annotations[a] # None
  <2>1. /\ items[a].status \in {"pending", "published"} /\ ~Unusable(a)
        /\ CanPublish(a) /\ Routed(a)
    BY <1>2 DEF FileSettled, AnnotationsComplete, CanPublish, TrackComplete
  <2>2. ~Unusable(a)'
    <3>1. Annotation(a)' = Annotation(a)
      BY <2>1, AnnotationStays
    <3>2. \A s \in Stages : rows'[a][s].result = rows[a][s].result
      BY <3>1 DEF Annotation
    <3> QED BY <2>1, <3>2, ConstantFacts DEF Unusable
  <2>3. ASSUME DecodeFailed PROVE items'[a].status = items[a].status
    <3>1. a # held.id
      <4>1. ~Is(a, Gate, "absent")
        BY <2>1 DEF Routed, PassedGate, Succeeded, Is
      <4>2. ~Undecoded(a)
        BY <4>1, ConstantFacts DEF DecodeInv
      <4> QED BY <1>1, <2>1, <2>3, <4>2 DEF DecodeFailed, DecodeInv, Undecoded
    <3> QED BY <1>1, <2>3, <3>1, StatusSet DEF DecodeFailed
  <2>4. ASSUME NEW r \in Records, TakeRecord(r) PROVE items'[a] = items[a]
    BY <1>1, <2>1, <2>4, ItemRegistered DEF TakeRecord
  <2>5. ASSUME NEW b \in Audio, Repair(b)
        PROVE  items'[a].status \in {"pending", "published"}
    BY <1>1, <2>1, <2>5, StatusSet DEF Repair
  <2>6. ASSUME NEW b \in Audio, EndItem(b) \/ CommitPublished(b) \/ PublishRaises(b)
        PROVE  items'[a].status \in {"pending", "published"}
    <3>1. CASE a = b
      BY <1>2, <2>6, <3>1, AnnotatedSettles
    <3>2. CASE a # b
      BY <1>1, <2>1, <2>6, <3>2, Settles, StatusSet DEF SettleItem
    <3> QED BY <3>1, <3>2
  <2> QED BY <2>1, <2>2, <2>3, <2>4, <2>5, <2>6, ItemsKept
<1>3. CASE annotations[a] = None
  <2>1. PICK b \in Audio : WriteAnnotation(b) \/ Vanish(b)
    BY <1>3, FilesKept
  <2>2. WriteAnnotation(a)
    BY <1>1, <1>3, <2>1 DEF WriteAnnotation, Vanish, TypeOK
  <2>3. items[a].status = "pending" /\ ~Unusable(a) /\ UNCHANGED tables
    BY <2>2 DEF WriteAnnotation, Scanning, Visiting, IInv, Control
  <2> QED BY <2>3 DEF Unusable, tables
<1> QED BY <1>2, <1>3

LEMMA StepVerdictKept ==
  ASSUME IInv, VerdictKept, [Next]_vars
  PROVE  VerdictKept'
<1> SUFFICES ASSUME NEW a \in Audio, items'[a].status \in Verdicts
             PROVE  Verdict(a)' = items'[a].status
    BY DEF VerdictKept
<1>1. TypeOK
  BY DEF IInv
<1>2. CASE items'[a].status = items[a].status
  BY <1>2, VerdictStays DEF VerdictKept
<1>3. CASE items'[a].status # items[a].status
  <2>1. ~DecodeFailed
    BY <1>1, <1>3, StatusSet DEF DecodeFailed, Verdicts
  <2>2. \A r \in Records : ~TakeRecord(r)
    BY <1>1, <1>3, ItemRegistered DEF TakeRecord, Verdicts
  <2>3. \A b \in Audio : ~Repair(b)
    BY <1>1, <1>3, StatusSet DEF Repair, Verdicts
  <2>4. PICK b \in Audio : EndItem(b) \/ CommitPublished(b) \/ PublishRaises(b)
    BY <1>3, <2>1, <2>2, <2>3, ItemsKept
  <2>5. PICK status \in Terminal :
           SettleItem(b, status) /\ (status \in Verdicts => status = Verdict(b))
    BY <2>4, Settles
  <2>6. a = b /\ items'[a].status = status
    BY <1>1, <1>3, <2>5, StatusSet DEF SettleItem
  <2>7. Verdict(a) = items'[a].status
    BY <2>5, <2>6
  <2> QED BY <2>7, VerdictStays
<1> QED BY <1>2, <1>3

\* A step that stays within a pass, or enters it by the snapshot, opens no item.
LEMMA PassStays ==
  ASSUME IInv, [Next]_vars, pc' \in InPass
  PROVE  \/ Snapshot
         \/ /\ pc \in InPass /\ UNCHANGED <<finished, backlog>>
            /\ scan = {} => scan' = {} /\ UNCHANGED items
            /\ pc' \in {"finalize", "validate"} =>
                  \/ finished /\ ~backlog
                  \/ pc \in {"finalize", "validate"}
            /\ pc' = "validate" =>
                  \/ Finalize
                  \/ pc = "validate" /\ UNCHANGED <<tables, report>>
<1> USE DEF files, thread, loop, tables, InPass
<1>1. ASSUME \/ Start \/ Crash \/ BeginLoop \/ TakeDone \/ TakeInvalid \/ DecodeFailed
             \/ AfterWait \/ GoRound \/ PutBack \/ Validate
      PROVE  FALSE
  BY <1>1 DEF Start, Crash, BeginLoop, TakeDone, TakeInvalid, DecodeFailed, AfterWait, GoRound,
     PutBack, Validate, LoopAgain, Stop
<1>2. ASSUME EndScan \/ Peek
      PROVE  /\ pc \in InPass /\ UNCHANGED <<finished, backlog, items>>
             /\ scan' \subseteq scan /\ pc' \notin {"finalize", "validate"}
  BY <1>2 DEF EndScan, Peek, PCs
<1>3. ASSUME EndLoop \/ Finalize
      PROVE  /\ pc \in InPass /\ UNCHANGED <<finished, backlog, items, scan>>
             /\ (finished /\ ~backlog) \/ pc \in {"finalize", "validate"}
             /\ pc' = "validate" => Finalize
  BY <1>3 DEF EndLoop, Finalize, Stop, PCs
<1>4. ASSUME NEW a \in Audio, \/ EndItem(a) \/ RaiseOnItem(a) \/ WriteAnnotation(a)
                              \/ CommitPublished(a) \/ PublishRaises(a) \/ Dispatch(a)
                              \/ PassOver(a) \/ EndSubmit(a)
      PROVE  /\ pc \in InPass /\ UNCHANGED <<finished, backlog>>
             /\ scan # {} /\ pc' \notin {"finalize", "validate"}
  BY <1>4 DEF EndItem, RaiseOnItem, WriteAnnotation, CommitPublished, PublishRaises, Dispatch,
     PassOver, EndSubmit, Scanning, Visiting, SettleItem, Stop, PCs
<1>5. ASSUME NEW a \in Audio, Repair(a) \/ Vanish(a) PROVE FALSE
  BY <1>5 DEF Repair, Vanish
<1>6. ASSUME NEW r \in Records, TakeRecord(r) PROVE FALSE
  BY <1>6 DEF TakeRecord
<1>7. ASSUME NEW a \in Audio, NEW s \in Stages, Prepare(a, s) \/ Submit(a, s) \/ Unhealthy(a, s)
      PROVE  /\ pc \in InPass /\ UNCHANGED <<finished, backlog>>
             /\ scan # {} /\ pc' \notin {"finalize", "validate"}
  BY <1>7 DEF Prepare, Submit, Unhealthy, Visiting, Stop, PCs
<1>8. ASSUME NEW a \in Audio, NEW s \in Stages, Collect(a, s)
      PROVE  /\ pc \in InPass /\ UNCHANGED <<finished, backlog, items, scan>>
             /\ pc' \notin {"finalize", "validate"}
  BY <1>8 DEF Collect, Table!FailStage, Table!FinishStage, Table!RowBecomes, PCs
<1>9. ASSUME NEW a \in Audio, NEW s \in Stages, Reply(a, s) \/ Produce
      PROVE  UNCHANGED <<pc, finished, backlog, tables, scan, report>>
  BY <1>9 DEF Reply, Produce
<1>10. CASE Produce
  BY <1>10 DEF Produce
<1>11. CASE UNCHANGED vars
  BY <1>11 DEF vars
<1> QED
  BY <1>1, <1>2, <1>3, <1>4, <1>5, <1>6, <1>7, <1>8, <1>9, <1>10, <1>11 DEF Next, MainStep

LEMMA StepNothingLeft ==
  ASSUME IInv, NothingLeft, [Next]_vars
  PROVE  NothingLeft'
<1>1. CASE pc' \notin InPass
  BY <1>1 DEF NothingLeft, InPass, PCs
<1>2. CASE Snapshot
  <2>1. /\ pc' \notin {"finalize", "validate"} /\ UNCHANGED tables
        /\ pc' = "scan" => /\ UNCHANGED finished
                           /\ scan' = {a \in seen : items[a].status = "pending"}
                           /\ backlog' = (scan' # {})
                           /\ finished => Table!Registered \subseteq seen
    BY <1>2 DEF Snapshot, Stop, loop
  <2>2. ASSUME pc' \in InPass, finished', ~backlog'
        PROVE  scan' = {} /\ WithStatus("pending")' = {}
    <3>1. pc' = "scan"
      BY <1>2, <2>2 DEF Snapshot, Stop, InPass
    <3>2. scan' = {}
      BY <2>1, <2>2, <3>1
    <3>3. \A a \in Audio : items[a].status = "pending" => a \in Table!Registered
      BY DEF Table!Registered
    <3> QED BY <2>1, <2>2, <3>1, <3>2, <3>3 DEF WithStatus, tables
  <2> QED BY <2>1, <2>2 DEF NothingLeft
<1>3. CASE pc' \in InPass /\ ~Snapshot
  <2>1. /\ pc \in InPass /\ UNCHANGED <<finished, backlog>>
        /\ scan = {} => scan' = {} /\ UNCHANGED items
        /\ pc' \in {"finalize", "validate"} =>
              \/ finished /\ ~backlog
              \/ pc \in {"finalize", "validate"}
        /\ pc' = "validate" =>
              \/ Finalize
              \/ pc = "validate" /\ UNCHANGED <<tables, report>>
    BY <1>3, PassStays
  <2>2. finished' /\ ~backlog' => scan' = {} /\ WithStatus("pending")' = {}
    BY <2>1 DEF NothingLeft, WithStatus
  <2>3. pc' \in {"finalize", "validate"} => finished' /\ ~backlog'
    BY <2>1 DEF NothingLeft
  <2>4. ASSUME pc' = "validate" PROVE report' = FinalReport'
    <3>1. CASE Finalize
      BY <3>1 DEF Finalize, FinalReport, WithStatus, Routed, PassedGate, Succeeded, Is, tables,
         Table!Registered
    <3>2. CASE pc = "validate" /\ UNCHANGED <<tables, report>>
      BY <3>2 DEF NothingLeft, FinalReport, WithStatus, Routed, PassedGate, Succeeded, Is,
         tables, Table!Registered
    <3> QED BY <2>1, <2>4, <3>1, <3>2
  <2> QED BY <2>2, <2>3, <2>4 DEF NothingLeft
<1> QED BY <1>1, <1>2, <1>3

\* validate_pipeline_output accepts what the run has written.
LEMMA ValidatedAccepted ==
  ASSUME IInv, AnnotationsComplete, PublishInv, EndInv, FileSettled, pc = "validate"
  PROVE  OutputAccepted
<1>1. /\ TypeOK /\ report = FinalReport /\ WithStatus("pending") = {}
      /\ \A a \in Audio : items[a].status = "published" => annotations[a] # None
  BY DEF IInv, EndInv, NothingLeft, InPass, PCs, PublishInv, PublishedHasFile
<1>2. \A a \in Audio : annotations[a] # None =>
         /\ items[a].status = "published" /\ ~Unusable(a) /\ Routed(a)
         /\ \A s \in FullTrack : Succeeded(a, s)
         /\ IsSong(a) => Succeeded(a, Asr)
         /\ annotations[a] = Annotation(a)
  BY <1>1 DEF AnnotationsComplete, FileSettled, WithStatus
<1>3. \A a \in Audio : Routed(a) => items[a].status \in {"published", "failed"}
  <2> SUFFICES ASSUME NEW a \in Audio, Routed(a)
               PROVE  items[a].status \in {"published", "failed"}
    OBVIOUS
  <2>1. items[a].status # "absent"
    <3>1. ~Is(a, Gate, "absent")
      BY DEF Routed, PassedGate, Succeeded, Is
    <3> QED BY <3>1, ConstantFacts DEF IInv, TableFacts!RowsCoherent, TableFacts!Registered, Is
  <2>2. items[a].status \notin Verdicts
    BY RoutedHasNoVerdict DEF EndInv, VerdictKept
  <2>3. items[a].status # "pending"
    BY <1>1 DEF WithStatus
  <2>4. items[a].status \in Table!ItemStatus
    BY <1>1 DEF TypeOK, Table!ItemRow
  <2> QED BY <2>1, <2>2, <2>3, <2>4 DEF Table!ItemStatus, Verdicts
<1>4. PartitionsExact
  <2> DEFINE parts == <<Annotated, report.review, report.rejected, report.retry>>
  <2>1. /\ report.review = WithStatus("review") /\ report.rejected = WithStatus("rejected")
        /\ report.retry = WithStatus("failed") /\ report.inventory = Table!Registered
        /\ report.accepted = {a \in Audio : Routed(a)}
    BY <1>1 DEF FinalReport
  <2>2. Annotated = WithStatus("published")
    BY <1>1, <1>2 DEF Annotated, WithStatus
  <2>3. report.inventory = Annotated \cup report.review \cup report.rejected \cup report.retry
    <3>1. \A a \in Audio : items[a].status \in Table!ItemStatus
      BY <1>1 DEF TypeOK, Table!ItemRow
    <3> QED BY <1>1, <2>1, <2>2, <3>1 DEF WithStatus, Table!Registered, Table!ItemStatus
  <2>4. /\ Annotated \cap report.review = {} /\ Annotated \cap report.rejected = {}
        /\ Annotated \cap report.retry = {} /\ report.review \cap report.rejected = {}
        /\ report.review \cap report.retry = {} /\ report.rejected \cap report.retry = {}
    BY <2>1, <2>2 DEF WithStatus
  <2>5. report.accepted = Annotated \cup (report.retry \cap report.accepted)
    BY <1>2, <1>3, <2>1, <2>2 DEF WithStatus, Annotated
  <2>6. DOMAIN parts = 1..4
    OBVIOUS
  <2>7. UNION {parts[i] : i \in DOMAIN parts}
          = Annotated \cup report.review \cup report.rejected \cup report.retry
    <3>1. {parts[i] : i \in 1..4} = {Annotated, report.review, report.rejected, report.retry}
      OBVIOUS
    <3> QED BY <2>6, <3>1
  <2>8. \A i, j \in DOMAIN parts : i # j => parts[i] \cap parts[j] = {}
    BY <2>4, <2>6
  <2> QED BY <2>3, <2>5, <2>7, <2>8 DEF PartitionsExact
<1>5. ASSUME NEW a \in Annotated PROVE RecordValid(a)
  <2>1. /\ a \in Audio /\ ~Unusable(a) /\ Routed(a)
        /\ \A s \in FullTrack : Succeeded(a, s)
        /\ IsSong(a) => Succeeded(a, Asr)
        /\ \A s \in Stages : annotations[a][s] = rows[a][s].result
    BY <1>2, <1>5 DEF Annotated, Annotation
  <2>2. \A s \in Stages : Succeeded(a, s) => rows[a][s].result # None
    BY <2>1 DEF IInv, TableFacts!RowsCoherent, Succeeded, Is
  <2>3. /\ annotations[a][Gate] \notin Verdicts \cup {None}
        /\ annotations[a][Discogs] \in Routes
        /\ annotations[a][Discogs] = rows[a][Discogs].result
    BY <2>1, <2>2, ConstantFacts DEF Routed, PassedGate
  <2>4. \A s \in FullTrack : annotations[a][s] \notin {None, "empty"}
    BY <2>1, <2>2, ConstantFacts DEF Unusable
  <2>5. annotations[a][Discogs] = "song" => annotations[a][Asr] \notin {None, "empty"}
    BY <2>1, <2>2, <2>3, ConstantFacts DEF Unusable, IsSong
  <2> QED BY <2>3, <2>4, <2>5 DEF RecordValid
<1> QED BY <1>4, <1>5 DEF OutputAccepted

\* How the exit of a run changes.
LEMMA ExitKept ==
  ASSUME [Next]_vars
  PROVE  \/ Validate
         \/ exit' \in Exits \ {"ok", "retry", "invalid_output"} /\ pc' = "down"
         \/ exit' = "none"
         \/ UNCHANGED exit /\ pc # "down"
         \/ UNCHANGED <<exit, pc, items>>
<1> USE DEF files, thread, loop, tables
<1>1. ASSUME \/ Start \/ Crash \/ TakeInvalid \/ Snapshot \/ EndLoop
      PROVE  \/ exit' \in Exits \ {"ok", "retry", "invalid_output"} /\ pc' = "down"
             \/ exit' = "none"
             \/ UNCHANGED exit /\ pc # "down"
  BY <1>1 DEF Start, Crash, TakeInvalid, Snapshot, EndLoop, Stop, Exits
<1>2. ASSUME \/ BeginLoop \/ TakeDone \/ DecodeFailed \/ EndScan \/ AfterWait \/ GoRound
             \/ Peek \/ PutBack \/ Finalize \/ Produce
      PROVE  UNCHANGED exit /\ pc # "down"
  BY <1>2 DEF BeginLoop, TakeDone, DecodeFailed, EndScan, AfterWait, GoRound, Peek, PutBack,
     Finalize, Produce, LoopAgain
<1>3. ASSUME NEW a \in Audio, \/ Repair(a) \/ EndItem(a) \/ WriteAnnotation(a)
                              \/ CommitPublished(a) \/ PublishRaises(a) \/ Dispatch(a)
                              \/ PassOver(a) \/ EndSubmit(a)
      PROVE  UNCHANGED exit /\ pc # "down"
  BY <1>3 DEF Repair, EndItem, WriteAnnotation, CommitPublished, PublishRaises, Dispatch,
     PassOver, EndSubmit, Scanning, SettleItem
<1>4. ASSUME NEW a \in Audio, RaiseOnItem(a)
      PROVE  exit' \in Exits \ {"ok", "retry", "invalid_output"} /\ pc' = "down"
  BY <1>4 DEF RaiseOnItem, Stop, Exits
<1>5. ASSUME NEW r \in Records, TakeRecord(r) PROVE UNCHANGED exit /\ pc # "down"
  BY <1>5 DEF TakeRecord
<1>6. ASSUME NEW a \in Audio, NEW s \in Stages, Prepare(a, s) \/ Submit(a, s) \/ Collect(a, s)
      PROVE  UNCHANGED exit /\ pc # "down"
  BY <1>6 DEF Prepare, Submit, Collect
<1>7. ASSUME NEW a \in Audio, NEW s \in Stages, Unhealthy(a, s)
      PROVE  exit' \in Exits \ {"ok", "retry", "invalid_output"} /\ pc' = "down"
  BY <1>7 DEF Unhealthy, Stop, Exits
<1>8. ASSUME NEW a \in Audio, NEW s \in Stages, Reply(a, s) PROVE UNCHANGED <<exit, pc, items>>
  BY <1>8 DEF Reply
<1>9. ASSUME NEW a \in Audio, Vanish(a) PROVE UNCHANGED <<exit, pc, items>>
  BY <1>9 DEF Vanish
<1>10. CASE UNCHANGED vars
  BY <1>10 DEF vars
<1> QED
  BY <1>1, <1>2, <1>3, <1>4, <1>5, <1>6, <1>7, <1>8, <1>9, <1>10 DEF Next, MainStep

LEMMA StepExitSettled ==
  ASSUME IInv, EndInv, [Next]_vars
  PROVE  ExitSettled'
<1>1. CASE Validate
  <2>1. pc = "validate" /\ UNCHANGED items /\ pc' = "down"
    BY <1>1 DEF Validate, Stop, tables
  <2>2. WithStatus("pending") = {}
    BY <2>1 DEF EndInv, NothingLeft, InPass, PCs
  <2> QED BY <2>1, <2>2 DEF ExitSettled, WithStatus
<1>2. CASE exit' \in Exits \ {"ok", "retry", "invalid_output"} /\ pc' = "down"
  BY <1>2 DEF ExitSettled
<1>3. CASE exit' = "none"
  BY <1>3 DEF ExitSettled
<1>4. CASE UNCHANGED exit /\ pc # "down"
  BY <1>4 DEF EndInv, ExitSettled
<1>5. CASE UNCHANGED <<exit, pc, items>>
  BY <1>5 DEF EndInv, ExitSettled, WithStatus
<1> QED BY <1>1, <1>2, <1>3, <1>4, <1>5, ExitKept

LEMMA EndInvariance == Spec => []EndInv
<1>1. Init => EndInv
  BY DEF Init, Table!Init, Table!NoItem, EndInv, VerdictKept, NothingLeft, InPass, ExitSettled,
         Verdicts
<1>2. IInv /\ EndInv /\ [Next]_vars => EndInv'
  BY StepVerdictKept, StepNothingLeft, StepExitSettled DEF EndInv
<1> QED BY <1>1, <1>2, Invariance, PTL DEF Spec

\* A run that is not cut short leaves no audio pending.
NobodyPending == exit \in {"ok", "retry"} => WithStatus("pending") = {}

\* A run that ends by itself has brought every audio of its inventory to a partition, also
\* when annotation files could not be written.
THEOREM NobodyIsLeftPending == Spec => []NobodyPending
<1>1. EndInv => NobodyPending
  BY DEF EndInv, ExitSettled, NobodyPending
<1> QED BY <1>1, EndInvariance, PTL

\* When writing an annotation file does not fail, a run that is not cut short ends with output
\* its validation accepts and no audio pending, whatever crashed, failed or vanished before.
THEOREM OutputIsValid == ASSUME ~WriteMayFail PROVE Spec => []OutputValid
<1> DEFINE Accepted == FileSettled /\ exit # "invalid_output"
<1>1. Init => Accepted
  BY DEF Init, FileSettled
<1>2. /\ IInv /\ AnnotationsComplete /\ PublishInv /\ DecodeInv /\ EndInv
      /\ Accepted /\ [Next]_vars
      => Accepted'
  <2> SUFFICES ASSUME IInv, AnnotationsComplete, PublishInv, DecodeInv, EndInv,
                      Accepted, [Next]_vars
               PROVE  Accepted'
    OBVIOUS
  <2>1. FileSettled'
    BY StepFileSettled
  <2>2. exit' # "invalid_output"
    <3>1. CASE Validate
      <4>1. OutputAccepted
        BY <3>1, ValidatedAccepted DEF Validate
      <4> QED BY <3>1, <4>1 DEF Validate, Stop
    <3>2. CASE ~Validate
      BY <3>2, ExitKept
    <3> QED BY <3>1, <3>2
  <2> QED BY <2>1, <2>2
<1>3. EndInv /\ Accepted => OutputValid
  BY DEF EndInv, ExitSettled, OutputValid
<1> HIDE DEF Accepted
<1> QED
  BY <1>1, <1>2, <1>3, Invariance, AnnotationsAreComplete, PublishInvariance, DecodeInvariance,
     EndInvariance, PTL DEF Spec


-----------------------------------------------------------------------------
(* The inventory. *)

Ids == Contents \cup {NoId, Torn}

\* Types, as far as the proof needs them.  A stamp is younger than every edit before it.
FolderTyped ==
    /\ edits \in Nat
    /\ disk \in [Paths -> [content : Contents \cup {Absent}, stamp : 1..(edits + 1)]]
    /\ cache \in [Paths -> [stamp : 0..(edits + 1), id : Ids]]
    /\ stats \in [Paths -> 0..(edits + 1)]
    /\ ids \in [Paths -> Ids \cup {Pending}]

\* What the run in progress knows of a file that was not replaced since its stat is true.
RunIsTrue ==
    phase \in {"hashing", "probing"} =>
        \A p \in Paths : stats[p] = disk[p].stamp =>
            Present(p) /\ ids[p] \in {Pending, disk[p].content}

HashInv == FolderTyped /\ RunIsTrue /\ CacheIsTrue

LEMMA InitHash == InventoryInit => HashInv
<1> SUFFICES ASSUME InventoryInit PROVE HashInv
    OBVIOUS
<1>1. disk \in [Paths -> [content : Contents \cup {Absent}, stamp : {1}]] /\ edits = 0
    BY DEF InventoryInit
<1>2. disk \in [Paths -> [content : Contents \cup {Absent}, stamp : 1..(edits + 1)]]
    BY <1>1
<1>3. cache \in [Paths -> [stamp : 0..(edits + 1), id : Ids]]
    BY <1>1 DEF InventoryInit, NoEntry, Ids
<1>4. FolderTyped
    BY <1>1, <1>2, <1>3 DEF InventoryInit, FolderTyped, Unstated, Unhashed
<1>5. CacheIsTrue
    BY <1>1 DEF InventoryInit, CacheIsTrue, NoEntry
<1> QED BY <1>4, <1>5 DEF HashInv, RunIsTrue, InventoryInit

-----------------------------------------------------------------------------
(* One lemma for each step that writes what the invariant speaks of. *)

\* The identity of a file is read before any of its bytes, or is that of a line of the cache.
LEMMA StatFilesHash == HashInv /\ StatFiles => HashInv'
<1> SUFFICES ASSUME HashInv, StatFiles PROVE HashInv'
    OBVIOUS
<1>1. /\ stats' = [p \in Paths |-> Identity(p)] /\ ids' = [p \in Paths |-> Known(p)]
      /\ UNCHANGED <<disk, cache, edits>>
    BY DEF StatFiles
<1>2. ASSUME NEW p \in Paths
      PROVE  /\ Identity(p) \in 0..(edits + 1)
             /\ Known(p) \in Ids \cup {Pending}
             /\ Identity(p) = disk[p].stamp =>
                    Present(p) /\ Known(p) \in {Pending, disk[p].content}
    <2>1. /\ disk[p].stamp \in 1..(edits + 1) /\ edits \in Nat
          /\ cache[p].id \in Ids
          /\ cache[p].stamp = disk[p].stamp => cache[p].id = disk[p].content
        BY DEF HashInv, FolderTyped, CacheIsTrue
    <2>2. CASE Identity(p) = 0
        BY <2>1, <2>2 DEF Known, Ids
    <2>3. CASE Identity(p) # 0
        <3>1. Identity(p) = disk[p].stamp /\ Present(p)
            BY <2>3 DEF Identity
        <3>2. Known(p) = IF flags.resume /\ cache[p].stamp = Identity(p) THEN cache[p].id ELSE Pending
            BY <2>3 DEF Known
        <3> QED BY <2>1, <3>1, <3>2
    <2> QED BY <2>2, <2>3
<1>3. FolderTyped'
    BY <1>1, <1>2 DEF HashInv, FolderTyped
<1>4. RunIsTrue'
    BY <1>1, <1>2 DEF RunIsTrue, Present
<1>5. CacheIsTrue'
    BY <1>1 DEF HashInv, CacheIsTrue
<1> QED BY <1>3, <1>4, <1>5 DEF HashInv

\* A torn hash is possible only where the file was replaced since its stat.
LEMMA HashOneHash == ASSUME HashInv, NEW p \in Paths, HashOne(p) PROVE HashInv'
<1>1. PICK id \in Digests(p) : ids' = [ids EXCEPT ![p] = id]
    BY DEF HashOne
<1>2. phase = "hashing" /\ UNCHANGED <<disk, cache, edits, stats, phase>>
    BY DEF HashOne
<1>3. disk[p].content \in Contents \cup {Absent}
    BY DEF HashInv, FolderTyped
<1>4. id \in Ids
    BY <1>1, <1>3 DEF Digests, Present, Ids
<1>5. stats[p] = disk[p].stamp => id = disk[p].content
    BY <1>1, <1>2 DEF Digests, HashInv, RunIsTrue
<1>6. FolderTyped'
    BY <1>1, <1>2, <1>4 DEF HashInv, FolderTyped
<1>7. RunIsTrue'
    BY <1>1, <1>2, <1>5 DEF HashInv, FolderTyped, RunIsTrue, Present
<1>8. CacheIsTrue'
    BY <1>2 DEF HashInv, CacheIsTrue
<1> QED BY <1>6, <1>7, <1>8 DEF HashInv

LEMMA WriteCacheHash == HashInv /\ WriteHashCache => HashInv'
<1> SUFFICES ASSUME HashInv, WriteHashCache PROVE HashInv'
    OBVIOUS
<1>1. /\ phase = "hashing" /\ \A p \in Paths : ids[p] # Pending
      /\ cache' = [p \in Paths |-> CacheEntry(p)]
      /\ UNCHANGED <<disk, edits, stats, ids>>
    BY DEF WriteHashCache
<1>2. ASSUME NEW p \in Paths
      PROVE  /\ CacheEntry(p) \in [stamp : 0..(edits + 1), id : Ids]
             /\ CacheEntry(p).stamp = disk[p].stamp => CacheEntry(p).id = disk[p].content
    <2>1. /\ stats[p] \in 0..(edits + 1) /\ ids[p] \in Ids /\ edits \in Nat
          /\ disk[p].stamp \in 1..(edits + 1)
        BY <1>1 DEF HashInv, FolderTyped
    <2>2. stats[p] = disk[p].stamp => ids[p] = disk[p].content
        BY <1>1 DEF HashInv, RunIsTrue
    <2>3. CASE stats[p] = 0 \/ ids[p] = NoId
        BY <2>1, <2>3 DEF CacheEntry, NoEntry, Ids
    <2>4. CASE ~(stats[p] = 0 \/ ids[p] = NoId)
        BY <2>1, <2>2, <2>4 DEF CacheEntry
    <2> QED BY <2>3, <2>4
<1>3. FolderTyped'
    BY <1>1, <1>2 DEF HashInv, FolderTyped
<1>4. RunIsTrue'
    BY <1>1 DEF HashInv, RunIsTrue, Present
<1>5. CacheIsTrue'
    BY <1>1, <1>2 DEF CacheIsTrue
<1> QED BY <1>3, <1>4, <1>5 DEF HashInv

\* An edit gives the file a stamp that no line and no run has seen.
LEMMA EditHash ==
    ASSUME HashInv, NEW p \in Paths, NEW content \in Contents \cup {Absent}, Edit(p, content)
    PROVE  HashInv'
<1>1. /\ disk' = [disk EXCEPT ![p] = [content |-> content, stamp |-> edits + 2]]
      /\ edits' = edits + 1 /\ UNCHANGED <<cache, stats, ids, phase>>
    BY DEF Edit, run
<1>2. edits \in Nat
    BY DEF HashInv, FolderTyped
<1>3. ASSUME NEW q \in Paths
      PROVE  /\ disk'[q] = IF q = p THEN [content |-> content, stamp |-> edits + 2] ELSE disk[q]
             /\ disk[q] \in [content : Contents \cup {Absent}, stamp : 1..(edits + 1)]
             /\ cache[q] \in [stamp : 0..(edits + 1), id : Ids]
             /\ stats[q] \in 0..(edits + 1)
    BY <1>1 DEF HashInv, FolderTyped
<1>4. FolderTyped'
    <2>1. [content |-> content, stamp |-> edits + 2] \in
              [content : Contents \cup {Absent}, stamp : 1..(edits' + 1)]
        BY <1>1, <1>2
    <2>2. ASSUME NEW q \in Paths
          PROVE  disk[q] \in [content : Contents \cup {Absent}, stamp : 1..(edits' + 1)]
        BY <1>1, <1>2, <1>3
    <2>3. disk' \in [Paths -> [content : Contents \cup {Absent}, stamp : 1..(edits' + 1)]]
        BY <1>1, <2>1, <2>2 DEF HashInv, FolderTyped
    <2>4. cache' \in [Paths -> [stamp : 0..(edits' + 1), id : Ids]]
        BY <1>1, <1>2, <1>3 DEF HashInv, FolderTyped
    <2>5. stats' \in [Paths -> 0..(edits' + 1)]
        BY <1>1, <1>2, <1>3 DEF HashInv, FolderTyped
    <2> QED BY <1>1, <1>2, <2>3, <2>4, <2>5 DEF HashInv, FolderTyped
<1>5. RunIsTrue'
    <2> SUFFICES ASSUME (phase \in {"hashing", "probing"})', NEW q \in Paths,
                        (stats[q] = disk[q].stamp)'
                 PROVE  (Present(q) /\ ids[q] \in {Pending, disk[q].content})'
        BY DEF RunIsTrue
    <2>1. q # p
        BY <1>1, <1>2, <1>3
    <2> QED BY <1>1, <1>3, <2>1 DEF HashInv, RunIsTrue, Present
<1>6. CacheIsTrue'
    <2> SUFFICES ASSUME NEW q \in Paths, (cache[q].stamp = disk[q].stamp)'
                 PROVE  (cache[q].id = disk[q].content)'
        BY DEF CacheIsTrue
    <2>1. q # p
        BY <1>1, <1>2, <1>3
    <2> QED BY <1>1, <1>3, <2>1 DEF HashInv, CacheIsTrue
<1> QED BY <1>4, <1>5, <1>6 DEF HashInv

\* The end of a run, written or killed, forgets what it has found.
LEMMA ResetHash == HashInv /\ Reset /\ UNCHANGED <<disk, cache, edits>> => HashInv'
<1> SUFFICES ASSUME HashInv, Reset, UNCHANGED <<disk, cache, edits>> PROVE HashInv'
    OBVIOUS
<1>1. phase' = "down" /\ stats' = [p \in Paths |-> 0] /\ ids' = [p \in Paths |-> Pending]
    BY DEF Reset, Unstated, Unhashed
<1>2. FolderTyped'
    BY <1>1 DEF HashInv, FolderTyped
<1> QED BY <1>1, <1>2 DEF HashInv, RunIsTrue, CacheIsTrue

LEMMA NextKeepsHash == HashInv /\ [InventoryNext]_inventoryVars => HashInv'
<1> SUFFICES ASSUME HashInv, [InventoryNext]_inventoryVars PROVE HashInv'
    OBVIOUS
<1>1. CASE \E resume, retry \in BOOLEAN : ScanMedia(resume, retry)
    BY <1>1 DEF ScanMedia, HashInv, FolderTyped, RunIsTrue, CacheIsTrue, Present
<1>2. CASE StatFiles
    BY <1>2, StatFilesHash
<1>3. CASE WriteHashCache
    BY <1>3, WriteCacheHash
<1>4. CASE WriteInventory \/ Kill
    BY <1>4, ResetHash DEF WriteInventory, Kill
<1>5. ASSUME NEW p \in Paths, HashOne(p) PROVE HashInv'
    BY <1>5, HashOneHash
<1>6. ASSUME NEW p \in Paths, Probe(p) \/ ProbeTimesOut(p) PROVE HashInv'
    BY <1>6 DEF Probe, ProbeTimesOut, HashInv, FolderTyped, RunIsTrue, CacheIsTrue, Present
<1>7. ASSUME NEW p \in Paths, NEW c \in Contents \cup {Absent}, Edit(p, c) PROVE HashInv'
    BY <1>7, EditHash
<1>8. CASE UNCHANGED inventoryVars
    BY <1>8 DEF inventoryVars, run, HashInv, FolderTyped, RunIsTrue, CacheIsTrue, Present
<1> QED BY <1>1, <1>2, <1>3, <1>4, <1>5, <1>6, <1>7, <1>8 DEF InventoryNext, InventoryStep

-----------------------------------------------------------------------------
\* A line of the hash cache whose identity is that of the file states what the file holds,
\* however files are replaced and runs killed between the stat, the hash and the write of the
\* cache (calc_duration.resolve_content_ids).
THEOREM HashCacheIsTrue == InventorySpec => []CacheIsTrue
<1>1. HashInv => CacheIsTrue
    BY DEF HashInv
<1> QED BY <1>1, InitHash, NextKeepsHash, PTL DEF InventorySpec

-----------------------------------------------------------------------------
(* What a run writes.  Beside the hash cache, the proofs need what a run in       *)
(* progress has listed and probed, and what is known of a run that saw no change. *)

Statuses == {"ok", "failed"}

\* A record of this run is of a canonical path, with the id of the hashing.
ProbedAreOwn == \A r \in probed : \E p \in Canonical, status \in Statuses : r = Record(p, status)

RunShape ==
    /\ kills \in Nat /\ listed \subseteq Paths
    /\ phase \in {"down", "listed", "hashing", "probing"}
    /\ phase = "probing" => \A p \in Paths : ids[p] # Pending
    /\ phase # "probing" => probed = {}
    /\ ProbedAreOwn

\* In a quiet run the listing and the stamps are those of the folder, and failures are deserved.
QuietIsCurrent == quiet =>
    /\ phase # "down" => listed = {p \in Paths : Present(p)}
    /\ phase \in {"hashing", "probing"} => \A p \in Paths : Present(p) => stats[p] = disk[p].stamp
    /\ \A r \in probed : r.status = "failed" => r.id \in Undecodable

\* As long as no file was replaced after its hash, no record calls an undecodable content good.
UntouchedIsTrue == untouched =>
    /\ phase \in {"hashing", "probing"} => \A p \in listed :
           ids[p] \in {Pending, Torn, IF Present(p) THEN disk[p].content ELSE NoId}
    /\ \A r \in inventory \cup probed : r.status = "ok" => r.id \notin Undecodable

FolderInv == HashInv /\ RunShape /\ QuietIsCurrent /\ UntouchedIsTrue

LEMMA InitFolder == InventoryInit => FolderInv
<1> SUFFICES ASSUME InventoryInit PROVE FolderInv
    OBVIOUS
<1>1. HashInv
    BY InitHash
<1>2. /\ kills = 0 /\ listed = {} /\ phase = "down" /\ probed = {} /\ inventory = {}
    BY DEF InventoryInit
<1> QED BY <1>1, <1>2 DEF FolderInv, RunShape, ProbedAreOwn, QuietIsCurrent, UntouchedIsTrue

\* A record that is attached to a path keeps its id and its status.
LEMMA AttachKeeps ==
    ASSUME NEW p, NEW r
    PROVE  /\ Attach(p, r).path = p /\ Attach(p, r).id = r.id /\ Attach(p, r).status = r.status
           /\ Attach(p, r).duplicates = SameAsset(p) \ {p}
BY DEF Attach

LEMMA RecordFields ==
    ASSUME NEW p, NEW status
    PROVE  /\ Record(p, status).path = p /\ Record(p, status).id = ids[p]
           /\ Record(p, status).status = status
           /\ Record(p, status).duplicates = SameAsset(p) \ {p}
BY DEF Record, Attach

\* Assets and records depend on the listing and the ids alone.
LEMMA SameRecords ==
    ASSUME UNCHANGED <<listed, ids>>
    PROVE  /\ Canonical' = Canonical
           /\ \A p, status : Record(p, status)' = Record(p, status)
<1>1. listed' = listed /\ ids' = ids
    OBVIOUS
<1>2. ASSUME NEW p PROVE SameAsset(p)' = SameAsset(p)
    BY <1>1 DEF SameAsset
<1>3. Canonical' = Canonical
    <2>1. Canonical' = {p \in listed' : p = Min(SameAsset(p)')}
        BY <1>1 DEF Canonical
    <2> QED BY <1>1, <1>2, <2>1 DEF Canonical
<1>4. ASSUME NEW p, NEW status PROVE Record(p, status)' = Record(p, status)
    BY <1>1, <1>2 DEF Record, Attach
<1> QED BY <1>3, <1>4

-----------------------------------------------------------------------------
(* One lemma for each step of a run. *)

LEMMA ScanFolder ==
    ASSUME FolderInv, NEW resume, NEW retry, ScanMedia(resume, retry)
    PROVE  RunShape' /\ QuietIsCurrent' /\ UntouchedIsTrue'
<1>1. /\ phase' = "listed" /\ listed' = {p \in Paths : Present(p)}
      /\ UNCHANGED <<disk, inventory, ids, stats, probed, kills, untouched>>
      /\ probed = {} /\ kills \in Nat
    BY DEF ScanMedia, FolderInv, RunShape
<1>2. RunShape'
    BY <1>1 DEF RunShape, ProbedAreOwn
<1>3. QuietIsCurrent'
    BY <1>1 DEF QuietIsCurrent, Present
<1>4. UntouchedIsTrue'
    BY <1>1 DEF FolderInv, UntouchedIsTrue
<1> QED BY <1>2, <1>3, <1>4

LEMMA StatFolder ==
    ASSUME FolderInv, StatFiles
    PROVE  RunShape' /\ QuietIsCurrent' /\ UntouchedIsTrue'
<1>1. /\ phase = "listed" /\ phase' = "hashing"
      /\ stats' = [p \in Paths |-> Identity(p)] /\ ids' = [p \in Paths |-> Known(p)]
      /\ UNCHANGED <<disk, listed, inventory, probed, kills, quiet, untouched>>
    BY DEF StatFiles
<1>2. probed = {} /\ kills \in Nat /\ listed \subseteq Paths
    BY <1>1 DEF FolderInv, RunShape
<1>3. RunShape'
    BY <1>1, <1>2 DEF RunShape, ProbedAreOwn
<1>4. QuietIsCurrent'
    <2> SUFFICES ASSUME quiet
                 PROVE  /\ listed = {p \in Paths : Present(p)}
                        /\ \A p \in Paths : Present(p) => Identity(p) = disk[p].stamp
        BY <1>1, <1>2 DEF QuietIsCurrent, Present
    <2>1. listed = {p \in Paths : Present(p)}
        BY <1>1 DEF FolderInv, QuietIsCurrent
    <2> QED BY <2>1 DEF Identity
<1>5. UntouchedIsTrue'
    <2>1. ASSUME NEW p \in listed
          PROVE  Known(p) \in {Pending, Torn, IF Present(p) THEN disk[p].content ELSE NoId}
        <3>1. /\ p \in Paths
              /\ cache[p].stamp = disk[p].stamp => cache[p].id = disk[p].content
              /\ disk[p].stamp # 0
            BY <1>2 DEF FolderInv, HashInv, FolderTyped, CacheIsTrue
        <3>2. CASE Present(p)
            <4>1. Identity(p) = disk[p].stamp
                BY <3>2 DEF Identity
            <4> QED BY <3>1, <3>2, <4>1 DEF Known
        <3>3. CASE ~Present(p)
            BY <3>3 DEF Known, Identity
        <3> QED BY <3>2, <3>3
    <2>2. \A p \in listed : ids'[p] = Known(p)
        BY <1>1, <1>2
    <2> QED BY <1>1, <2>1, <2>2 DEF FolderInv, UntouchedIsTrue, Present
<1> QED BY <1>3, <1>4, <1>5

LEMMA HashOneFolder ==
    ASSUME FolderInv, NEW p \in Paths, HashOne(p)
    PROVE  RunShape' /\ QuietIsCurrent' /\ UntouchedIsTrue'
<1>1. /\ phase = "hashing" /\ phase' = "hashing"
      /\ UNCHANGED <<disk, listed, stats, inventory, probed, kills, quiet, untouched>>
    BY DEF HashOne
<1>2. PICK id \in Digests(p) : ids' = [ids EXCEPT ![p] = id]
    BY DEF HashOne
<1>3. probed = {} /\ kills \in Nat /\ listed \subseteq Paths
    BY <1>1 DEF FolderInv, RunShape
<1>4. RunShape'
    BY <1>1, <1>3 DEF RunShape, ProbedAreOwn
<1>5. QuietIsCurrent'
    BY <1>1, <1>3 DEF FolderInv, QuietIsCurrent, Present
<1>6. UntouchedIsTrue'
    <2> SUFFICES ASSUME untouched, NEW q \in listed
                 PROVE  ids'[q] \in {Pending, Torn, IF Present(q) THEN disk[q].content ELSE NoId}
        BY <1>1, <1>3 DEF FolderInv, UntouchedIsTrue, Present
    <2>1. id \in {Torn, IF Present(p) THEN disk[p].content ELSE NoId}
        BY <1>2 DEF Digests
    <2>2. ids[q] \in {Pending, Torn, IF Present(q) THEN disk[q].content ELSE NoId}
        BY <1>1 DEF FolderInv, UntouchedIsTrue
    <2>3. ids'[q] = IF q = p THEN id ELSE ids[q]
        BY <1>2, <1>3 DEF FolderInv, HashInv, FolderTyped
    <2> QED BY <2>1, <2>2, <2>3
<1> QED BY <1>4, <1>5, <1>6

LEMMA WriteCacheFolder ==
    ASSUME FolderInv, WriteHashCache
    PROVE  RunShape' /\ QuietIsCurrent' /\ UntouchedIsTrue'
<1>1. /\ phase = "hashing" /\ phase' = "probing" /\ \A p \in Paths : ids[p] # Pending
      /\ UNCHANGED <<disk, listed, stats, ids, inventory, probed, kills, quiet, untouched>>
    BY DEF WriteHashCache
<1>2. probed = {} /\ kills \in Nat /\ listed \subseteq Paths
    BY <1>1 DEF FolderInv, RunShape
<1>3. RunShape'
    BY <1>1, <1>2 DEF RunShape, ProbedAreOwn
<1>4. QuietIsCurrent'
    BY <1>1, <1>2 DEF FolderInv, QuietIsCurrent, Present
<1>5. UntouchedIsTrue'
    BY <1>1 DEF FolderInv, UntouchedIsTrue, Present
<1> QED BY <1>3, <1>4, <1>5

LEMMA ProbesFolder ==
    ASSUME FolderInv, NEW p \in Paths, Probe(p) \/ ProbeTimesOut(p)
    PROVE  RunShape' /\ QuietIsCurrent' /\ UntouchedIsTrue'
<1>1. /\ phase = "probing" /\ phase' = "probing" /\ p \in Unprobed
      /\ UNCHANGED <<disk, listed, stats, ids, inventory, kills, untouched>>
    BY DEF Probe, ProbeTimesOut
<1>2. PICK status \in Statuses : probed' = probed \cup {Record(p, status)}
    BY DEF Probe, ProbeTimesOut, ProbedStatus, Statuses
<1>3. /\ (Probe(p) /\ probed' = probed \cup {Record(p, ProbedStatus(p))} /\ quiet' = quiet)
         \/ (probed' = probed \cup {Record(p, "failed")} /\ quiet' = FALSE)
    BY DEF Probe, ProbeTimesOut
<1>4. p \in Canonical /\ p \in listed
    BY <1>1 DEF Unprobed, Canonical
<1>5. /\ disk[p].content \in Contents \cup {Absent} /\ disk[p].stamp # 0
      /\ ids[p] # Pending /\ ids[p] \in Ids
    BY <1>1 DEF FolderInv, RunShape, HashInv, FolderTyped
<1>6. RunShape'
    <2>1. ProbedAreOwn'
        <3>1. Canonical' = Canonical /\ \A q, st : Record(q, st)' = Record(q, st)
            BY <1>1, SameRecords
        <3>2. ASSUME NEW r \in probed'
              PROVE  \E q \in Canonical, st \in Statuses : r = Record(q, st)
            <4>1. CASE r \in probed
                BY <4>1 DEF FolderInv, RunShape, ProbedAreOwn
            <4>2. CASE r = Record(p, status)
                BY <1>2, <1>4, <4>2
            <4> QED BY <1>2, <3>2, <4>1, <4>2
        <3> QED BY <3>1, <3>2 DEF ProbedAreOwn
    <2> QED BY <1>1, <2>1 DEF FolderInv, RunShape
<1>7. QuietIsCurrent'
    <2> SUFFICES ASSUME quiet' PROVE QuietIsCurrent'
        BY DEF QuietIsCurrent
    <2>1. /\ quiet /\ probed' = probed \cup {Record(p, ProbedStatus(p))}
          /\ listed = {q \in Paths : Present(q)}
          /\ \A q \in Paths : Present(q) => stats[q] = disk[q].stamp
          /\ \A r \in probed : r.status = "failed" => r.id \in Undecodable
        BY <1>1, <1>3 DEF FolderInv, QuietIsCurrent
    <2>2. Present(p) /\ ids[p] = disk[p].content
        BY <1>1, <1>4, <1>5, <2>1 DEF FolderInv, HashInv, RunIsTrue
    <2>3. ProbedStatus(p) = "failed" => ids[p] \in Undecodable
        BY <1>5, <2>2 DEF ProbedStatus, Present
    <2>4. \A r \in probed' : r.status = "failed" => r.id \in Undecodable
        BY <2>1, <2>3, RecordFields
    <2> QED BY <1>1, <2>1, <2>4 DEF QuietIsCurrent, Present
<1>8. UntouchedIsTrue'
    <2> SUFFICES ASSUME untouched
                 PROVE  \A r \in probed' : r.status = "ok" => r.id \notin Undecodable
        BY <1>1 DEF FolderInv, UntouchedIsTrue, Present
    <2>1. ids[p] \in {Torn, IF Present(p) THEN disk[p].content ELSE NoId}
        BY <1>1, <1>4, <1>5 DEF FolderInv, UntouchedIsTrue
    <2>2. ProbedStatus(p) = "ok" => ids[p] \notin Undecodable
        BY <2>1, InventoryAssumption DEF ProbedStatus, Present
    <2>3. \A r \in probed : r.status = "ok" => r.id \notin Undecodable
        BY DEF FolderInv, UntouchedIsTrue
    <2> QED BY <1>3, <2>2, <2>3, RecordFields
<1> QED BY <1>6, <1>7, <1>8

\* What a run writes has the ids and statuses of the records it probed or reused.
LEMMA FinalAreProbedOrReused ==
    ASSUME NEW r \in FinalRecords
    PROVE  \/ r \in probed
           \/ \E p \in Canonical : \E old \in Reusable(p) : r = Attach(p, old)
BY DEF FinalRecords, Cached

LEMMA EndFolder ==
    ASSUME FolderInv, WriteInventory \/ Kill
    PROVE  RunShape' /\ QuietIsCurrent' /\ UntouchedIsTrue'
<1>1. Reset /\ UNCHANGED <<disk, quiet, untouched>>
    BY DEF WriteInventory, Kill
<1>2. phase' = "down" /\ listed' = {} /\ probed' = {}
    BY <1>1 DEF Reset
<1>3. kills' \in Nat
    BY DEF WriteInventory, Kill, FolderInv, RunShape
<1>4. \A r \in inventory' : r \in inventory \/ r \in FinalRecords
    BY DEF WriteInventory, Kill, Leftovers
<1>5. RunShape'
    BY <1>2, <1>3 DEF RunShape, ProbedAreOwn
<1>6. QuietIsCurrent'
    BY <1>2 DEF QuietIsCurrent
<1>7. UntouchedIsTrue'
    <2> SUFFICES ASSUME untouched, NEW r \in inventory', r.status = "ok"
                 PROVE  r.id \notin Undecodable
        BY <1>1, <1>2 DEF UntouchedIsTrue
    <2>1. \A old \in inventory \cup probed : old.status = "ok" => old.id \notin Undecodable
        BY DEF FolderInv, UntouchedIsTrue
    <2>2. ASSUME NEW p, NEW old \in Reusable(p), r = Attach(p, old) PROVE r.id \notin Undecodable
        <3>1. old \in inventory
            BY DEF Reusable
        <3>2. r.status = old.status /\ r.id = old.id
            BY <2>2, AttachKeeps
        <3> QED BY <2>1, <3>1, <3>2
    <2> QED BY <1>4, <2>1, <2>2, FinalAreProbedOrReused
<1> QED BY <1>5, <1>6, <1>7

LEMMA EditFolder ==
    ASSUME FolderInv, NEW p \in Paths, NEW content \in Contents \cup {Absent}, Edit(p, content)
    PROVE  RunShape' /\ QuietIsCurrent' /\ UntouchedIsTrue'
<1>1. /\ disk' = [disk EXCEPT ![p] = [content |-> content, stamp |-> edits + 2]]
      /\ quiet' = FALSE
      /\ untouched' = (untouched /\ (phase \in {"down", "listed"} \/ ids[p] = Pending))
      /\ UNCHANGED <<phase, listed, stats, ids, inventory, probed, kills>>
    BY DEF Edit, run
<1>2. RunShape'
    <2>1. Canonical' = Canonical /\ \A q, st : Record(q, st)' = Record(q, st)
        BY <1>1, SameRecords
    <2>2. ProbedAreOwn'
        BY <1>1, <2>1 DEF FolderInv, RunShape, ProbedAreOwn
    <2> QED BY <1>1, <2>2 DEF FolderInv, RunShape
<1>3. QuietIsCurrent'
    BY <1>1 DEF QuietIsCurrent
<1>4. UntouchedIsTrue'
    <2> SUFFICES ASSUME untouched' PROVE UntouchedIsTrue'
        BY DEF UntouchedIsTrue
    <2>1. untouched /\ (phase \in {"down", "listed"} \/ ids[p] = Pending)
        BY <1>1
    <2>2. ASSUME phase \in {"hashing", "probing"}, NEW q \in listed
          PROVE  ids[q] \in {Pending, Torn, IF Present(q)' THEN disk'[q].content ELSE NoId}
        <3>1. CASE q = p
            BY <2>1, <2>2, <3>1
        <3>2. CASE q # p
            <4>1. q \in Paths /\ disk'[q] = disk[q]
                BY <1>1, <3>2 DEF FolderInv, RunShape, HashInv, FolderTyped
            <4>2. ids[q] \in {Pending, Torn, IF Present(q) THEN disk[q].content ELSE NoId}
                BY <2>1, <2>2 DEF FolderInv, UntouchedIsTrue
            <4> QED BY <4>1, <4>2 DEF Present
        <3> QED BY <3>1, <3>2
    <2> QED BY <1>1, <2>1, <2>2 DEF FolderInv, UntouchedIsTrue
<1> QED BY <1>2, <1>3, <1>4

LEMMA StutterFolder ==
    ASSUME FolderInv, UNCHANGED inventoryVars
    PROVE  RunShape' /\ QuietIsCurrent' /\ UntouchedIsTrue'
<1>1. UNCHANGED <<disk, inventory, phase, listed, stats, ids, probed, kills, quiet, untouched>>
    BY DEF inventoryVars, run
<1>2. RunShape'
    <2>1. Canonical' = Canonical /\ \A q, st : Record(q, st)' = Record(q, st)
        BY <1>1, SameRecords
    <2>2. ProbedAreOwn'
        BY <1>1, <2>1 DEF FolderInv, RunShape, ProbedAreOwn
    <2> QED BY <1>1, <2>2 DEF FolderInv, RunShape
<1>3. QuietIsCurrent'
    BY <1>1 DEF FolderInv, QuietIsCurrent, Present
<1>4. UntouchedIsTrue'
    BY <1>1 DEF FolderInv, UntouchedIsTrue, Present
<1> QED BY <1>2, <1>3, <1>4

LEMMA NextKeepsFolder == FolderInv /\ [InventoryNext]_inventoryVars => FolderInv'
<1> SUFFICES ASSUME FolderInv, [InventoryNext]_inventoryVars PROVE FolderInv'
    OBVIOUS
<1>1. HashInv'
    BY NextKeepsHash DEF FolderInv
<1> SUFFICES RunShape' /\ QuietIsCurrent' /\ UntouchedIsTrue'
    BY <1>1 DEF FolderInv
<1>2. CASE \E resume, retry \in BOOLEAN : ScanMedia(resume, retry)
    BY <1>2, ScanFolder
<1>3. CASE StatFiles
    BY <1>3, StatFolder
<1>4. CASE WriteHashCache
    BY <1>4, WriteCacheFolder
<1>5. CASE WriteInventory \/ Kill
    BY <1>5, EndFolder
<1>6. CASE \E p \in Paths : HashOne(p)
    BY <1>6, HashOneFolder
<1>7. CASE \E p \in Paths : Probe(p) \/ ProbeTimesOut(p)
    BY <1>7, ProbesFolder
<1>8. CASE \E p \in Paths, c \in Contents \cup {Absent} : Edit(p, c)
    BY <1>8, EditFolder
<1>9. CASE UNCHANGED inventoryVars
    BY <1>9, StutterFolder
<1> QED BY <1>2, <1>3, <1>4, <1>5, <1>6, <1>7, <1>8, <1>9 DEF InventoryNext, InventoryStep

-----------------------------------------------------------------------------
(* The end of a run. *)

LEMMA MinIsLeast ==
    ASSUME NEW S, S \subseteq Nat, S # {}
    PROVE  Min(S) \in S /\ \A m \in S : Min(S) <= m
<1> DEFINE R == OpToRel(<, Nat)
<1>1. IsWellFoundedOn(R, Nat)
    BY NatLessThanWellFounded
<1>2. \A m, n \in Nat : m < n => <<m, n>> \in R
    BY DEF OpToRel
<1> HIDE DEF R
<1>3. PICK n \in S : \A m \in S : ~(<<m, n>> \in R)
    BY <1>1, WFMin
<1>4. \A m \in S : n <= m
    <2> TAKE m \in S
    <2>1. m \in Nat /\ n \in Nat /\ ~(m < n)
        BY <1>2, <1>3
    <2> QED BY <2>1
<1> QED BY <1>4 DEF Min

\* Every asset has one record in the end: probed in this run, or reused.
LEMMA RecordsAreAssets ==
    ASSUME FolderInv, Unprobed = {}
    PROVE  /\ \A r \in FinalRecords : \E p \in Canonical :
                r.path = p /\ r.id = ids[p] /\ r.duplicates = SameAsset(p) \ {p}
           /\ \A p \in Canonical : \E r \in FinalRecords :
                r.path = p /\ r.id = ids[p] /\ r.duplicates = SameAsset(p) \ {p}
<1>1. ASSUME NEW r \in probed
      PROVE  \E p \in Canonical : r.path = p /\ r.id = ids[p] /\ r.duplicates = SameAsset(p) \ {p}
    <2>1. PICK p \in Canonical, status \in Statuses : r = Record(p, status)
        BY DEF FolderInv, RunShape, ProbedAreOwn
    <2> QED BY <2>1, RecordFields
<1>2. ASSUME NEW p \in Canonical, NEW r \in Cached(p)
      PROVE  r.path = p /\ r.id = ids[p] /\ r.duplicates = SameAsset(p) \ {p}
    <2>1. PICK old \in Reusable(p) : r = Attach(p, old)
        BY DEF Cached
    <2>2. old.id = ids[p]
        BY DEF Reusable
    <2> QED BY <2>1, <2>2, AttachKeeps
<1>3. ASSUME NEW r \in FinalRecords
      PROVE  \E p \in Canonical : r.path = p /\ r.id = ids[p] /\ r.duplicates = SameAsset(p) \ {p}
    <2>1. CASE r \in probed
        BY <1>1, <2>1
    <2>2. CASE \E p \in Canonical : r \in Cached(p)
        BY <1>2, <2>2
    <2> QED BY <2>1, <2>2 DEF FinalRecords
<1>4. ASSUME NEW p \in Canonical
      PROVE  \E r \in FinalRecords : r.path = p /\ r.id = ids[p] /\ r.duplicates = SameAsset(p) \ {p}
    <2>1. Cached(p) # {} \/ \E r \in probed : r.path = p
        BY DEF Unprobed
    <2>2. CASE Cached(p) # {}
        <3>1. PICK r \in Cached(p) : TRUE
            BY <2>2
        <3>2. r \in FinalRecords
            BY DEF FinalRecords
        <3> QED BY <1>2, <3>2
    <2>3. CASE \E r \in probed : r.path = p
        <3>1. PICK r \in probed : r.path = p
            BY <2>3
        <3>2. r \in FinalRecords
            BY DEF FinalRecords
        <3> QED BY <1>1, <3>1, <3>2
    <2> QED BY <2>1, <2>2, <2>3
<1> QED BY <1>3, <1>4

\* In a run that saw no change an asset is what holds one content of the folder.
LEMMA QuietAssets ==
    ASSUME FolderInv, quiet, phase = "probing"
    PROVE  /\ \A p \in listed : /\ p \in Paths /\ disk[p].content # Absent
                                /\ ids[p] = disk[p].content
                                /\ SameAsset(p) = Holding(disk[p].content)
           /\ \A c : c # Absent => Holding(c) \subseteq listed
<1>1. listed = {p \in Paths : disk[p].content # Absent}
    BY DEF FolderInv, QuietIsCurrent, Present
<1>2. ASSUME NEW p \in listed
      PROVE  /\ p \in Paths /\ disk[p].content # Absent
             /\ ids[p] = disk[p].content /\ ids[p] \notin {NoId, Torn}
    <2>1. p \in Paths /\ disk[p].content # Absent /\ disk[p].content \in Contents
        BY <1>1 DEF FolderInv, HashInv, FolderTyped
    <2>2. stats[p] = disk[p].stamp /\ ids[p] # Pending
        BY <2>1 DEF FolderInv, QuietIsCurrent, RunShape, Present
    <2>3. ids[p] = disk[p].content
        BY <2>1, <2>2 DEF FolderInv, HashInv, RunIsTrue
    <2> QED BY <2>1, <2>3, InventoryAssumption
<1>3. ASSUME NEW p \in listed PROVE SameAsset(p) = Holding(disk[p].content)
    <2>1. SameAsset(p) = {q \in listed : ids[q] = ids[p]}
        BY <1>2 DEF SameAsset
    <2>2. ASSUME NEW q
          PROVE  q \in listed /\ ids[q] = ids[p] <=> q \in Paths /\ disk[q].content = disk[p].content
        BY <1>1, <1>2
    <2> QED BY <2>1, <2>2 DEF Holding
<1>4. \A c : c # Absent => Holding(c) \subseteq listed
    BY <1>1 DEF Holding
<1> QED BY <1>2, <1>3, <1>4

\* The least path of every content is canonical, and no other.
LEMMA QuietCanonical ==
    ASSUME FolderInv, quiet, phase = "probing"
    PROVE  /\ \A p \in Canonical : p = Min(Holding(disk[p].content))
           /\ \A c \in {disk[p].content : p \in Paths} \ {Absent} :
                /\ Min(Holding(c)) \in Canonical
                /\ disk[Min(Holding(c))].content = c
<1>1. \A p \in Canonical : p = Min(Holding(disk[p].content))
    BY QuietAssets DEF Canonical
<1>2. ASSUME NEW c \in {disk[p].content : p \in Paths} \ {Absent}
      PROVE  Min(Holding(c)) \in Canonical /\ disk[Min(Holding(c))].content = c
    <2>1. Holding(c) # {} /\ Holding(c) \subseteq Nat
        BY DEF Holding, Paths
    <2>2. Min(Holding(c)) \in Holding(c)
        BY <2>1, MinIsLeast
    <2>3. disk[Min(Holding(c))].content = c
        BY <2>2 DEF Holding
    <2>4. Min(Holding(c)) \in listed
        BY <2>2, QuietAssets
    <2>5. SameAsset(Min(Holding(c))) = Holding(c)
        BY <2>3, <2>4, QuietAssets
    <2> QED BY <2>3, <2>4, <2>5 DEF Canonical
<1> QED BY <1>1, <1>2

LEMMA EndIsWrite ==
    ASSUME FolderInv, InventoryNext, Ends
    PROVE  WriteInventory
<1>1. kills \in Nat
    BY DEF FolderInv, RunShape
<1>2. kills # kills + 1
    BY <1>1
<1> QED BY <1>2 DEF Ends, InventoryNext, InventoryStep, ScanMedia, StatFiles, HashOne, WriteHashCache,
                  Probe, ProbeTimesOut, Kill, Edit, run

LEMMA EndWritesPaths ==
    ASSUME FolderInv, InventoryNext, Ends, quiet
    PROVE  {<<r.path, r.id, r.duplicates>> : r \in inventory'} =
           {<<Min(Holding(c)), c, Holding(c) \ {Min(Holding(c))}>> :
               c \in {disk[p].content : p \in Paths} \ {Absent}}
<1>1. phase = "probing" /\ Unprobed = {} /\ inventory' = FinalRecords
    BY EndIsWrite DEF WriteInventory
<1> DEFINE All == {disk[p].content : p \in Paths} \ {Absent}
           Line(c) == <<Min(Holding(c)), c, Holding(c) \ {Min(Holding(c))}>>
<1>2. ASSUME NEW p \in Canonical
      PROVE  /\ disk[p].content \in All
             /\ <<p, ids[p], SameAsset(p) \ {p}>> = Line(disk[p].content)
    <2>1. p \in listed
        BY DEF Canonical
    <2>2. p \in Paths /\ disk[p].content # Absent /\ ids[p] = disk[p].content
          /\ SameAsset(p) = Holding(disk[p].content)
        BY <1>1, <2>1, QuietAssets
    <2>3. p = Min(Holding(disk[p].content))
        BY <1>1, QuietCanonical
    <2> QED BY <2>2, <2>3
<1>3. ASSUME NEW r \in FinalRecords
      PROVE  \E c \in All : <<r.path, r.id, r.duplicates>> = Line(c)
    <2>1. PICK p \in Canonical : r.path = p /\ r.id = ids[p] /\ r.duplicates = SameAsset(p) \ {p}
        BY <1>1, RecordsAreAssets
    <2> QED BY <1>2, <2>1
<1>4. ASSUME NEW c \in All
      PROVE  \E r \in FinalRecords : <<r.path, r.id, r.duplicates>> = Line(c)
    <2>1. Min(Holding(c)) \in Canonical /\ disk[Min(Holding(c))].content = c
        BY <1>1, QuietCanonical
    <2>2. PICK r \in FinalRecords : /\ r.path = Min(Holding(c)) /\ r.id = ids[Min(Holding(c))]
                                   /\ r.duplicates = SameAsset(Min(Holding(c))) \ {Min(Holding(c))}
        BY <1>1, <2>1, RecordsAreAssets
    <2>3. <<r.path, r.id, r.duplicates>> = Line(c)
        BY <1>2, <2>1, <2>2
    <2> QED BY <2>3
<1> HIDE DEF All, Line
<1>5. {<<r.path, r.id, r.duplicates>> : r \in FinalRecords} = {Line(c) : c \in All}
    BY <1>3, <1>4
<1> QED BY <1>1, <1>5 DEF All, Line

LEMMA EndWritesStatuses ==
    ASSUME FolderInv, InventoryNext, Ends, quiet, untouched, NEW r \in inventory'
    PROVE  /\ r.status = "ok" => r.id \notin Undecodable
           /\ r.status = "failed" /\ (flags.retry \/ ~flags.resume) => r.id \in Undecodable
<1>1. inventory' = FinalRecords
    BY EndIsWrite DEF WriteInventory
<1>2. /\ \A old \in inventory \cup probed : old.status = "ok" => old.id \notin Undecodable
      /\ \A new \in probed : new.status = "failed" => new.id \in Undecodable
    BY DEF FolderInv, UntouchedIsTrue, QuietIsCurrent
<1>3. ASSUME NEW p \in Canonical, NEW old \in Reusable(p), r = Attach(p, old)
      PROVE  /\ r.status = "ok" => r.id \notin Undecodable
             /\ r.status = "failed" => flags.resume /\ ~flags.retry
    <2>1. r.status = old.status /\ r.id = old.id
        BY <1>3, AttachKeeps
    <2>2. old \in inventory /\ flags.resume /\ (old.status = "ok" \/ ~flags.retry)
        BY DEF Reusable
    <2> QED BY <1>2, <2>1, <2>2
<1> QED BY <1>1, <1>2, <1>3, FinalAreProbedOrReused

-----------------------------------------------------------------------------
\* A run during which nothing was replaced writes one record for each content the folder holds,
\* under the least of its paths and with the others as duplicates, whatever earlier runs cached,
\* were killed in or saw change under them (calc_duration.main).
THEOREM InventoryPathsAreCurrent == InventorySpec => PathsAreCurrent
<1>1. FolderInv /\ [InventoryNext]_inventoryVars =>
        [Ends /\ quiet =>
            {<<r.path, r.id, r.duplicates>> : r \in inventory'} =
            {<<Min(Holding(c)), c, Holding(c) \ {Min(Holding(c))}>> :
                c \in {disk[p].content : p \in Paths} \ {Absent}}]_inventoryVars
    BY EndWritesPaths
<1> QED BY <1>1, InitFolder, NextKeepsFolder, PTL DEF InventorySpec, PathsAreCurrent

\* A run during which nothing was replaced and no probe timed out calls nothing decodable that is
\* not, as long as no file was ever replaced between its hash and the end of its run, and it leaves
\* no failure of an earlier run behind unless it resumes without --retry-failures
\* (calc_duration.reusable_inventory_record, inventory_one).
THEOREM InventoryStatusesAreTrue == InventorySpec => StatusesAreTrue
<1>1. FolderInv /\ [InventoryNext]_inventoryVars =>
        [Ends /\ quiet /\ untouched => \A r \in inventory' :
            /\ r.status = "ok" => r.id \notin Undecodable
            /\ r.status = "failed" /\ (flags.retry \/ ~flags.resume) => r.id \in Undecodable
        ]_inventoryVars
    BY EndWritesStatuses
<1> QED BY <1>1, InitFolder, NextKeepsFolder, PTL DEF InventorySpec, StatusesAreTrue
=============================================================================
