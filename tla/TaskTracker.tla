------------------------------ MODULE TaskTracker ------------------------------
(***************************************************************************)
(* The files of a Ray stage and what a process reads from them:             *)
(* MusicToolsPipeline/task_tracker.py and runtime_integrity.py.             *)
(*                                                                         *)
(* progress.jsonl is only ever appended to.  Readers fold its lines, the last *)
(* one of a task wins, and they skip a line that does not parse.  What counts *)
(* of the file is that fold, and, when a kill has left it without its last    *)
(* newline, what the fold will be once the next line is glued to that tail.   *)
(***************************************************************************)
EXTENDS Naturals, Sequences, FiniteSets

CONSTANTS Keys,    \* stable task keys (audio ids)
          None

\* A run fingerprint: the tasks it is for, and how their records were hashed.
Run == [tasks : SUBSET Keys, schema : {"record", "semantic"}]
\* results.jsonl: one record per task, replaced as a whole.  "bare" is a successful record
\* without the fields the stage must deliver.
Result == [about : Keys, status : {"ok", "bare", "error"}]
ASSUME TrackerAssumption == None \notin Keys \cup Run \cup Result

Statuses == [Keys -> {"none", "ok", "error"}]
\* What a reader makes of progress.jsonl; torn: it lacks its last newline; sure: the fold
\* without that last line, which is the one before unless the line was whole.
Progress == [run : Run \cup {None}, status : Statuses, torn : BOOLEAN, sure : Statuses]
NoStatus == [k \in Keys |-> "none"]
NoProgress == [run |-> None, status |-> NoStatus, torn |-> FALSE, sure |-> NoStatus]
\* A line of mark_tasks_finished.
Mark == [key : Keys, status : {"ok", "error"}]

\* The last line of a task wins.
Fold(status, marks) ==
    [k \in Keys |-> LET own == {j \in DOMAIN marks : marks[j].key = k}
                    IN IF own = {} THEN status[k]
                       ELSE marks[CHOOSE j \in own : \A i \in own : i <= j].status]

\* _append_records: glued to a torn tail, the first line is lost, and the tail with it.
Appended(progress, marks) ==
    IF marks = <<>> THEN progress
    ELSE LET status == IF progress.torn THEN Fold(progress.sure, Tail(marks))
                                        ELSE Fold(progress.status, marks)
         IN [progress EXCEPT !.status = status, !.sure = status, !.torn = FALSE]
Announced(progress, run) ==
    IF progress.torn THEN [progress EXCEPT !.status = progress.sure, !.torn = FALSE]
                     ELSE [progress EXCEPT !.run = run]

\* The file after a process was killed in the append: some lines are there, and the last one
\* is whole, or a part, or whole but for its newline.  A kill cuts a write where it reaches
\* a new page: between or inside the lines of a batch.  Bound: never inside its first line.
CutShort(progress, marks) ==
    LET Upto(n) == Appended(progress, SubSeq(marks, 1, n))
    IN {Upto(n) : n \in 0..Len(marks)}
       \cup {[Upto(n) EXCEPT !.torn = TRUE] : n \in 1..(Len(marks) - 1)}
       \cup {[Upto(n) EXCEPT !.torn = TRUE, !.sure = Upto(n - 1).status] : n \in 2..Len(marks)}

\* The constructor refuses a manifest of another run.
ManifestRefused(progress, manifest) ==
    manifest # None /\ progress.run # None /\ manifest.run # progress.run

Completed(progress) == {k \in Keys : progress.status[k] = "ok"}

\* A merge replaces the records of the tasks it has.
Merged(results, new) == [k \in Keys |-> IF k \in DOMAIN new THEN new[k] ELSE results[k]]
=============================================================================
