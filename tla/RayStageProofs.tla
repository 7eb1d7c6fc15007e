---------------------------- MODULE RayStageProofs ----------------------------
(***************************************************************************)
(* Proofs about RayStage, for any inputs, loaders, models, sizes and runs:   *)
(* results belong to their keys, what the tracker calls done has a result,    *)
(* and a graph whose actors all ended has lost nothing.                       *)
(*                                                                         *)
(* FlightInv binds the files to the input of the run, and follows every task  *)
(* id from its loader to the saver: it is never in two places, and never       *)
(* nowhere before its result is stored.                                       *)
(***************************************************************************)
EXTENDS RayStage, FiniteSetTheorems, SequenceTheorems, TLAPS

Live == driver \in {"graph", "failing", "published", "refused"}

Ids == DOMAIN task.input
\* A result in flight is about the task its id stands for.
InFlightResult == {r \in [id : Ids, about : Keys, status : {"ok", "bare", "error"}] :
                      r.about = task.input[r.id]}
Output == [ended : Models \cup {None}, results : Seq(InFlightResult)]
ModelState == [step : {"idle", "busy", "ending", "done"}, batch : Seq(Ids)]
SaverState == [step : {"get", "merge", "mark", "done"}, ended : SUBSET Models,
               map : {task.input}, buffer : Seq(InFlightResult)]
Manifest == {m \in [run : Run, map : Inputs] : m.run.tasks = Image(m.map)}
Drivers == {"down", "reset", "migrate", "migrated", "configure", "configured", "demote", "ready",
            "graph", "failing", "published", "refused"}

FilesOK == /\ progress \in Progress /\ manifest \in Manifest \cup {None}
           /\ results \in [Keys -> Result \cup {None}]
TaskOK == /\ driver \in Drivers
          /\ driver # "down" => task \in [input : Inputs, announce : BOOLEAN, torn : BOOLEAN]
GraphOK == Live =>
    /\ loading \in [Loaders -> Seq(Ids)] /\ inputs \in Seq(Seq(Ids))
    /\ model \in [Models -> ModelState] /\ outputs \in Seq(Output)
    /\ saver \in SaverState
    /\ sentinels \in Nat /\ observed \subseteq Refs /\ dead \subseteq Refs
TypeOK == FilesOK /\ TaskOK /\ GraphOK

\* From configure_run on, the progress file is for the tasks of this input, and from
\* _write_manifest on the manifest is, too.
Bound ==
    /\ progress.torn => progress.run # None
    /\ \A k \in Keys : progress.status[k] # "none" \/ progress.sure[k] # "none" =>
           progress.run # None /\ k \in progress.run.tasks
    /\ \A k \in Keys : results[k] # None /\ progress.run # None => k \in progress.run.tasks
    /\ driver = "reset" => task.announce
    /\ driver = "configure" /\ progress.run = None => task.announce /\ results = NoResults
    /\ driver \in {"migrate", "configure"} /\ progress.run # None => progress.run.tasks = Image(task.input)
    /\ driver \in {"migrate", "migrated", "configured", "demote", "ready"} =>
           progress.run # None /\ progress.run.tasks = Image(task.input)
    /\ driver \in {"demote", "ready"} \/ Live =>
           manifest = [run |-> RunOf(task.input), map |-> task.input]
    /\ Live => progress.run = RunOf(task.input)

\* The file of a run that found it whole is torn only by the death of its saver.
TornIsKnown == driver # "down" /\ progress.torn => task.torn \/ (Live /\ SaveWorker \in dead)

\* What the tracker calls done, with or without its last line, has a result.
DoneIsStored == \A k \in Keys : progress.status[k] = "ok" \/ progress.sure[k] = "ok" => results[k] # None

\* The comparison of both files leaves only tasks done that have a whole result.
DemotedIsRetried == driver = "ready" /\ ~task.torn => \A k \in Completed(progress) : Sound(k)

\* Between the two writes of a flush the results have what the tracker has still to mark.
MergedIsStored ==
    Live /\ saver.step = "mark" =>
        \A j \in DOMAIN saver.buffer :
            LET r == saver.buffer[j]
            IN results[task.input[r.id]] # None /\ results[task.input[r.id]].status = r.status

Distinct(s) == \A i, j \in DOMAIN s : s[i] = s[j] => i = j
Apart(s, t) == \A i \in DOMAIN s, j \in DOMAIN t : s[i] # t[j]
IdsOf(rs) == [j \in DOMAIN rs |-> rs[j].id]

\* No task id is in two places, or twice in one.
LoadingApart ==
    \A l \in Loaders :
       /\ Distinct(loading[l])
       /\ \A o \in Loaders \ {l} : Apart(loading[l], loading[o])
       /\ \A n \in DOMAIN inputs : Apart(loading[l], inputs[n])
       /\ \A m \in Models : Apart(loading[l], model[m].batch)
       /\ \A p \in DOMAIN outputs : Apart(loading[l], IdsOf(outputs[p].results))
       /\ Apart(loading[l], IdsOf(saver.buffer))
InputsApart ==
    \A n \in DOMAIN inputs :
       /\ Distinct(inputs[n])
       /\ \A o \in DOMAIN inputs \ {n} : Apart(inputs[n], inputs[o])
       /\ \A m \in Models : Apart(inputs[n], model[m].batch)
       /\ \A p \in DOMAIN outputs : Apart(inputs[n], IdsOf(outputs[p].results))
       /\ Apart(inputs[n], IdsOf(saver.buffer))
ModelsApart ==
    \A m \in Models :
       /\ Distinct(model[m].batch)
       /\ \A o \in Models \ {m} : Apart(model[m].batch, model[o].batch)
       /\ \A p \in DOMAIN outputs : Apart(model[m].batch, IdsOf(outputs[p].results))
       /\ Apart(model[m].batch, IdsOf(saver.buffer))
OutputsApart ==
    \A p \in DOMAIN outputs :
       /\ Distinct(IdsOf(outputs[p].results))
       /\ \A o \in DOMAIN outputs \ {p} : Apart(IdsOf(outputs[p].results), IdsOf(outputs[o].results))
       /\ Apart(IdsOf(outputs[p].results), IdsOf(saver.buffer))
OnePlace == Live => /\ LoadingApart /\ InputsApart /\ ModelsApart /\ OutputsApart
                    /\ Distinct(IdsOf(saver.buffer))

\* The task ids that are in one of the places.
Flying == {i \in Ids :
    \/ \E l \in Loaders : i \in Image(loading[l])
    \/ \E n \in DOMAIN inputs : i \in Image(inputs[n])
    \/ \E m \in Models : i \in Image(model[m].batch)
    \/ \E p \in DOMAIN outputs : i \in Image(IdsOf(outputs[p].results))
    \/ i \in Image(IdsOf(saver.buffer))}

Agrees(k) == progress.status[k] = IF results[k].status = "error" THEN "error" ELSE "ok"

\* While the saver lives, a task is in flight and not yet done, or stored and marked.
Accounted == Live /\ SaveWorker \notin dead =>
    \A i \in Ids :
        LET k == task.input[i]
        IN /\ i \notin Flying => results[k] # None
           /\ ~task.torn => IF i \in Flying THEN progress.status[k] # "ok" ELSE Agrees(k)

\* The queues drain in order: end markers come after all batches, and the end of a model
\* after all its results.
Draining == Live =>
    /\ \A ref \in observed : Finished(ref)
    /\ \A m \in Models : model[m].step # "busy" => model[m].batch = <<>>
    /\ \A i, j \in DOMAIN inputs : i < j /\ inputs[i] = End => inputs[j] = End
    /\ (\E i \in DOMAIN inputs : inputs[i] = End) \/ (\E m \in Models : model[m].step \in {"ending", "done"})
          => Loaders \subseteq observed
    /\ (\E m \in Models : model[m].step \in {"ending", "done"}) => \A i \in DOMAIN inputs : inputs[i] = End
    /\ \A p \in DOMAIN outputs :
          /\ outputs[p].ended # None =>
                /\ outputs[p].results = <<>>
                /\ model[outputs[p].ended].step = "done" /\ outputs[p].ended \notin saver.ended
                /\ \A o \in DOMAIN outputs \ {p} : outputs[o].ended # outputs[p].ended
    /\ \A m \in saver.ended : model[m].step = "done"
    /\ outputs # <<>> /\ (\A m \in Models : model[m].step = "done") => outputs[Len(outputs)].ended # None
    /\ saver.step = "get" => saver.ended # Models
    /\ saver.step = "done" => saver.ended = Models /\ saver.buffer = <<>> /\ SaveWorker \notin dead
    /\ driver \in {"published", "refused"} => observed = Refs

FlightInv == /\ TypeOK /\ Bound /\ TornIsKnown /\ ResultsBelong /\ DoneIsStored /\ DemotedIsRetried
             /\ MergedIsStored /\ OnePlace /\ Accounted /\ Draining /\ CompletedHasResult

-----------------------------------------------------------------------------
(* Numbers, sets of numbers and sequences. *)

\* Every set of naturals that is not empty has a least member.
LEMMA LeastNatural ==
    ASSUME NEW S, S \subseteq Nat, S # {}
    PROVE  \E n \in S : \A m \in S : n <= m
<1> DEFINE R == OpToRel(<, Nat)
<1>1. IsWellFoundedOn(R, Nat)
  BY NatLessThanWellFounded
<1>2. \A m, n \in Nat : m < n => <<m, n>> \in R
  BY DEF OpToRel
<1> HIDE DEF R
<1>3. PICK n \in S : \A m \in S : ~(<<m, n>> \in R)
  BY <1>1, WFMin
<1>4. \A m \in S : n <= m
  <2> TAKE m \in S
  <2>1. m \in Nat /\ n \in Nat /\ ~(m < n)
    BY <1>2, <1>3
  <2> QED BY <2>1
<1> QED
  BY <1>4

LEMMA MinOfTwo ==
    ASSUME NEW a \in Nat, NEW b \in Nat
    PROVE  /\ Min({a, b}) \in {a, b}
           /\ Min({a, b}) <= a /\ Min({a, b}) <= b
<1>1. \E x \in {a, b} : \A y \in {a, b} : x <= y
  OBVIOUS
<1> QED
  BY <1>1 DEF Min

Increasing(s) == \A i, j \in DOMAIN s : i < j => s[i] < s[j]

\* Every finite set of numbers can be put in order.
LEMMA OrderExists ==
    ASSUME NEW S, S \subseteq Nat, IsFiniteSet(S)
    PROVE  \E s \in [1..Cardinality(S) -> S] : Increasing(s) /\ Image(s) = S
<1> DEFINE Sortable(T) == \E s \in [1..Cardinality(T) -> T] : Increasing(s) /\ Image(s) = T
           Bad == {n \in Nat : \E T \in SUBSET Nat :
                      IsFiniteSet(T) /\ Cardinality(T) = n /\ ~Sortable(T)}
<1>1. ASSUME NEW n \in Bad, \A m \in Bad : n <= m PROVE FALSE
  <2>1. PICK T \in SUBSET Nat : IsFiniteSet(T) /\ Cardinality(T) = n /\ ~Sortable(T)
    BY <1>1
  <2>2. T # {}
    <3> SUFFICES ASSUME T = {} PROVE Sortable(T)
      BY <2>1
    <3>1. Cardinality(T) = 0
      BY FS_EmptySet
    <3>2. [x \in 1..0 |-> 0] \in [1..Cardinality(T) -> T]
      BY <3>1
    <3> WITNESS [x \in 1..0 |-> 0] \in [1..Cardinality(T) -> T]
    <3> QED
      BY DEF Increasing, Image
  <2>3. PICK a \in T : \A b \in T : a <= b
    BY <2>2, LeastNatural
  <2>4. IsFiniteSet(T \ {a}) /\ Cardinality(T \ {a}) = n - 1 /\ n \in Nat /\ n # 0
    BY <2>1, <2>3, FS_RemoveElement, FS_EmptySet, FS_CardinalityType
  <2>5. Sortable(T \ {a})
    <3>1. n - 1 \in Nat /\ n - 1 \notin Bad
      BY <1>1, <2>4
    <3> QED
      BY <2>4, <3>1
  <2>6. PICK s \in [1..(n - 1) -> T \ {a}] : Increasing(s) /\ Image(s) = T \ {a}
    BY <2>4, <2>5
  <2> DEFINE t == [j \in 1..n |-> IF j = 1 THEN a ELSE s[j - 1]]
  <2>7. t \in [1..n -> T]
    BY <2>3, <2>4, <2>6
  <2>8. Increasing(t)
    <3> SUFFICES ASSUME NEW i \in 1..n, NEW j \in 1..n, i < j PROVE t[i] < t[j]
      BY DEF Increasing
    <3>1. j - 1 \in 1..(n - 1) /\ t[j] = s[j - 1] /\ s[j - 1] \in T \ {a}
      BY <2>4, <2>6
    <3>2. CASE i = 1
      <4>1. t[i] = a /\ t[j] \in T \ {a}
        BY <3>1, <3>2
      <4>2. a \in Nat /\ t[j] \in Nat /\ a <= t[j]
        BY <2>3, <4>1
      <4> QED BY <4>1, <4>2
    <3>3. CASE i # 1
      <4>1. i - 1 \in 1..(n - 1) /\ i - 1 < j - 1 /\ t[i] = s[i - 1]
        BY <2>4, <3>3
      <4> QED
        BY <2>6, <3>1, <4>1 DEF Increasing
    <3> QED BY <3>2, <3>3
  <2>9. Image(t) = T
    <3>1. ASSUME NEW x \in T PROVE x \in Image(t)
      <4>1. CASE x = a
        <5>1. 1 \in 1..n /\ t[1] = a
          BY <2>4
        <5> QED BY <4>1, <5>1 DEF Image
      <4>2. CASE x # a
        <5>1. PICK j \in 1..(n - 1) : s[j] = x
          BY <2>6, <4>2 DEF Image
        <5>2. j + 1 \in 1..n /\ t[j + 1] = x
          BY <2>4, <5>1
        <5> QED BY <5>2 DEF Image
      <4> QED BY <4>1, <4>2
    <3> QED
      BY <2>7, <3>1 DEF Image
  <2> HIDE DEF t
  <2>10. Sortable(T)
    BY <2>1, <2>7, <2>8, <2>9
  <2> QED
    BY <2>1, <2>10
<1>2. Bad = {}
  <2> SUFFICES ASSUME Bad # {} PROVE FALSE
    OBVIOUS
  <2>1. Bad \subseteq Nat
    OBVIOUS
  <2>2. \E n \in Bad : \A m \in Bad : n <= m
    <3> HIDE DEF Bad
    <3> QED BY <2>1, LeastNatural
  <2> QED
    BY <1>1, <2>2
<1>3. Cardinality(S) \in Nat
  BY FS_CardinalityType
<1> QED
  BY <1>2, <1>3

\* The numbers of a finite set in order are each of them once.
LEMMA OrderFacts ==
    ASSUME NEW S, S \subseteq Nat, IsFiniteSet(S)
    PROVE  /\ InOrder(S) \in Seq(S)
           /\ \A i, j \in DOMAIN InOrder(S) : InOrder(S)[i] = InOrder(S)[j] => i = j
           /\ \A x \in S : \E j \in DOMAIN InOrder(S) : InOrder(S)[j] = x
<1> DEFINE Sorted(s) == \A i, j \in DOMAIN s : i < j => s[i] < s[j]
           n == Cardinality(S)
<1>1. n \in Nat
  BY FS_CardinalityType
<1>2. PICK t \in [1..n -> S] : Sorted(t) /\ Image(t) = S
  BY OrderExists DEF Increasing
<1>3. InOrder(S) \in [1..n -> S] /\ Sorted(InOrder(S))
  BY <1>2 DEF InOrder
<1> DEFINE s == InOrder(S)
<1>4. \A i, j \in 1..n : s[i] = s[j] => i = j
  <2> SUFFICES ASSUME NEW i \in 1..n, NEW j \in 1..n, s[i] = s[j], i # j PROVE FALSE
    OBVIOUS
  <2>1. s[i] < s[j] \/ s[j] < s[i]
    BY <1>1, <1>3
  <2>2. s[i] \in Nat /\ s[j] \in Nat
    BY <1>3
  <2> HIDE DEF s
  <2> QED BY <2>1, <2>2
<1>5. s \in Seq(S)
  BY <1>1, <1>3, IsASeq
<1>6. \A x \in S : \E j \in 1..n : s[j] = x
  <2>1. \A i, j \in 1..n : i # j => s[i] # s[j]
    BY <1>4
  <2>2. Image(s) \subseteq S /\ IsFiniteSet(1..n) /\ Cardinality(1..n) = n
    BY <1>1, <1>3, FS_Interval DEF Image
  <2>3. s \in Injection(1..n, Image(s)) /\ s \in Surjection(1..n, Image(s))
    BY <1>3, <2>1 DEF Image, Injection, Surjection, IsInjective
  <2>4. s \in Bijection(1..n, Image(s))
    BY <2>3 DEF Bijection
  <2>5. IsFiniteSet(Image(s)) /\ Cardinality(Image(s)) = n
    BY <2>2, <2>4, FS_Bijection DEF ExistsBijection
  <2>6. Image(s) = S
    BY <2>2, <2>5, FS_Subset
  <2> QED
    BY <1>3, <2>6 DEF Image
<1> QED
  BY <1>3, <1>4, <1>5, <1>6

-----------------------------------------------------------------------------
(* progress.jsonl: what an append, whole or cut short, makes of it. *)

KeysDiffer(marks) == \A i, j \in DOMAIN marks : marks[i].key = marks[j].key => i = j

\* A status a line gives to a task.
Given(marks, k, s) == \E j \in DOMAIN marks : marks[j].key = k /\ marks[j].status = s

\* After an append every status is an old one or that of a line; the one without the last
\* line counts only if the file was torn.
Extended(new, old, marks) ==
    /\ new \in Progress /\ new.run = old.run
    /\ \A k \in Keys :
          /\ \/ new.status[k] = old.status[k]
             \/ Given(marks, k, new.status[k])
             \/ old.torn /\ new.status[k] = old.sure[k]
          /\ \/ new.sure[k] \in {old.status[k], old.sure[k]}
             \/ Given(marks, k, new.sure[k])

LEMMA ProgressFields ==
    ASSUME NEW p \in Progress
    PROVE  /\ p.run \in Run \cup {None} /\ p.status \in Statuses /\ p.sure \in Statuses
           /\ p.torn \in BOOLEAN
           /\ p = [run |-> p.run, status |-> p.status, torn |-> p.torn, sure |-> p.sure]
  BY DEF Progress

\* With one line of each task at most, a task has the status of its line, or the one it had.
LEMMA FoldFacts ==
    ASSUME NEW status \in Statuses, NEW marks \in Seq(Mark), KeysDiffer(marks)
    PROVE  /\ Fold(status, marks) \in Statuses
           /\ \A k \in Keys : \/ Given(marks, k, Fold(status, marks)[k])
                              \/ /\ \A j \in DOMAIN marks : marks[j].key # k
                                 /\ Fold(status, marks)[k] = status[k]
<1>1. \A j \in DOMAIN marks : marks[j] \in Mark
  BY ElementOfSeq, LenProperties
<1>2. ASSUME NEW k \in Keys
      PROVE  \/ /\ Given(marks, k, Fold(status, marks)[k])
                /\ Fold(status, marks)[k] \in {"ok", "error"}
             \/ /\ \A j \in DOMAIN marks : marks[j].key # k
                /\ Fold(status, marks)[k] = status[k]
  <2> DEFINE own == {j \in DOMAIN marks : marks[j].key = k}
  <2>1. CASE own = {}
    BY <2>1 DEF Fold
  <2>2. CASE own # {}
    <3>1. PICK j \in own : TRUE
      BY <2>2
    <3>2. own = {j}
      BY <3>1 DEF KeysDiffer
    <3>3. j \in Nat
      BY <3>1, LenProperties
    <3>4. (CHOOSE x \in own : \A i \in own : i <= x) = j
      BY <3>2, <3>3
    <3>5. Fold(status, marks)[k] = marks[j].status
      BY <2>2, <3>4 DEF Fold
    <3> QED
      BY <1>1, <3>1, <3>5 DEF Given, Mark
  <2> QED
    BY <2>1, <2>2
<1>3. Fold(status, marks) \in Statuses
  <2>1. \A k \in Keys : Fold(status, marks)[k] \in {"none", "ok", "error"}
    BY <1>2 DEF Statuses
  <2> QED
    BY <2>1 DEF Fold, Statuses
<1> QED
  BY <1>2, <1>3

\* A prefix of the lines, and the lines without the first, say nothing else.
LEMMA PartOfMarks ==
    ASSUME NEW marks \in Seq(Mark), KeysDiffer(marks)
    PROVE  /\ \A n \in 0..Len(marks) :
                 LET part == SubSeq(marks, 1, n)
                 IN /\ part \in Seq(Mark) /\ KeysDiffer(part)
                    /\ \A k, s : Given(part, k, s) => Given(marks, k, s)
           /\ marks # <<>> =>
                 /\ Tail(marks) \in Seq(Mark) /\ KeysDiffer(Tail(marks))
                 /\ \A k, s : Given(Tail(marks), k, s) => Given(marks, k, s)
<1>1. ASSUME NEW n \in 0..Len(marks)
      PROVE  LET part == SubSeq(marks, 1, n)
             IN /\ part \in Seq(Mark) /\ KeysDiffer(part)
                /\ \A k, s : Given(part, k, s) => Given(marks, k, s)
  <2> DEFINE part == SubSeq(marks, 1, n)
  <2>1. Len(marks) \in Nat /\ DOMAIN marks = 1..Len(marks) /\ \A i \in 1..Len(marks) : marks[i] \in Mark
    BY ElementOfSeq, LenProperties
  <2>2. part \in Seq(Mark) /\ Len(part) = n /\ \A i \in 1..n : part[i] = marks[i]
    <3>1. 1 \in Int /\ n \in Int /\ \A i \in 1..n : marks[i] \in Mark
      BY <2>1
    <3>2. /\ part \in Seq(Mark) /\ Len(part) = (IF 1 <= n THEN n - 1 + 1 ELSE 0)
          /\ \A i \in 1..(n - 1 + 1) : part[i] = marks[1 + i - 1]
      BY <3>1, SubSeqProperties
    <3> QED BY <3>2
  <2>3. DOMAIN part = 1..n
    BY <2>2, LenProperties
  <2> HIDE DEF part
  <2>4. KeysDiffer(part)
    BY <2>1, <2>2, <2>3 DEF KeysDiffer
  <2>5. \A k, s : Given(part, k, s) => Given(marks, k, s)
    BY <2>1, <2>2, <2>3 DEF Given
  <2> QED
    BY <2>2, <2>4, <2>5 DEF part
<1>2. ASSUME marks # <<>>
      PROVE  /\ Tail(marks) \in Seq(Mark) /\ KeysDiffer(Tail(marks))
             /\ \A k, s : Given(Tail(marks), k, s) => Given(marks, k, s)
  <2>1. /\ Tail(marks) \in Seq(Mark) /\ Len(Tail(marks)) = Len(marks) - 1
        /\ \A i \in 1..Len(Tail(marks)) : Tail(marks)[i] = marks[i + 1]
    BY <1>2, HeadTailProperties
  <2>2. Len(marks) \in Nat /\ DOMAIN marks = 1..Len(marks)
    BY LenProperties
  <2>3. DOMAIN Tail(marks) = 1..(Len(marks) - 1)
    BY <2>1, LenProperties
  <2>4. \A i \in DOMAIN Tail(marks) : i + 1 \in DOMAIN marks /\ Tail(marks)[i] = marks[i + 1]
    BY <2>1, <2>2, <2>3
  <2>5. KeysDiffer(Tail(marks))
    <3> SUFFICES ASSUME NEW i \in DOMAIN Tail(marks), NEW j \in DOMAIN Tail(marks),
                        Tail(marks)[i].key = Tail(marks)[j].key
                 PROVE  i = j
      BY DEF KeysDiffer
    <3>1. i + 1 = j + 1
      BY <2>4 DEF KeysDiffer
    <3> QED
      BY <2>2, <2>3, <3>1
  <2>6. \A k, s : Given(Tail(marks), k, s) => Given(marks, k, s)
    BY <2>4 DEF Given
  <2> QED
    BY <2>1, <2>5, <2>6
<1> QED
  BY <1>1, <1>2

LEMMA AppendedFacts ==
    ASSUME NEW p \in Progress, NEW marks \in Seq(Mark), KeysDiffer(marks)
    PROVE  /\ Extended(Appended(p, marks), p, marks)
           /\ Appended(p, marks).torn => p.torn
           /\ ~p.torn => \A k \in Keys :
                 \/ Given(marks, k, Appended(p, marks).status[k])
                 \/ /\ \A j \in DOMAIN marks : marks[j].key # k
                    /\ Appended(p, marks).status[k] = p.status[k]
<1> DEFINE a == Appended(p, marks)
<1>1. CASE marks = <<>>
  <2>1. a = p /\ DOMAIN marks = {}
    BY <1>1 DEF Appended
  <2> QED
    BY <2>1 DEF Extended
<1>2. CASE marks # <<>> /\ p.torn
  <2> DEFINE f == Fold(p.sure, Tail(marks))
  <2>1. Tail(marks) \in Seq(Mark) /\ KeysDiffer(Tail(marks))
        /\ \A k, s : Given(Tail(marks), k, s) => Given(marks, k, s)
    BY <1>2, PartOfMarks
  <2>2. f \in Statuses /\ \A k \in Keys : Given(Tail(marks), k, f[k]) \/ f[k] = p.sure[k]
    BY <2>1, FoldFacts, ProgressFields
  <2>3. a = [p EXCEPT !.status = f, !.sure = f, !.torn = FALSE]
    BY <1>2 DEF Appended
  <2> HIDE DEF f, a
  <2>4. a \in Progress /\ a.run = p.run /\ a.status = f /\ a.sure = f /\ a.torn = FALSE
    BY <2>2, <2>3 DEF Progress
  <2>5. \A k \in Keys : Given(marks, k, f[k]) \/ f[k] = p.sure[k]
    BY <2>1, <2>2
  <2> QED
    BY <1>2, <2>4, <2>5 DEF Extended, a
<1>3. CASE marks # <<>> /\ ~p.torn
  <2> DEFINE f == Fold(p.status, marks)
  <2>1. f \in Statuses /\ \A k \in Keys : \/ Given(marks, k, f[k])
                                         \/ /\ \A j \in DOMAIN marks : marks[j].key # k
                                            /\ f[k] = p.status[k]
    BY FoldFacts, ProgressFields
  <2>2. a = [p EXCEPT !.status = f, !.sure = f, !.torn = FALSE]
    BY <1>3 DEF Appended
  <2> HIDE DEF f, a
  <2>3. a \in Progress /\ a.run = p.run /\ a.status = f /\ a.sure = f /\ a.torn = FALSE
    BY <2>1, <2>2 DEF Progress
  <2> QED
    BY <1>3, <2>1, <2>3 DEF Extended, a
<1> QED
  BY <1>1, <1>2, <1>3

\* A kill in an append leaves what some of its lines say.
LEMMA CutFacts ==
    ASSUME NEW p \in Progress, NEW marks \in Seq(Mark), KeysDiffer(marks),
           NEW c \in CutShort(p, marks)
    PROVE  Extended(c, p, marks)
<1> DEFINE Upto(n) == Appended(p, SubSeq(marks, 1, n))
<1>1. ASSUME NEW n \in 0..Len(marks) PROVE Extended(Upto(n), p, marks)
  <2>1. Extended(Upto(n), p, SubSeq(marks, 1, n))
    BY PartOfMarks, AppendedFacts
  <2>2. \A k, s : Given(SubSeq(marks, 1, n), k, s) => Given(marks, k, s)
    BY PartOfMarks
  <2> QED
    BY <2>1, <2>2 DEF Extended
<1>2. Len(marks) \in Nat
  BY LenProperties
<1>3. \/ \E n \in 0..Len(marks) : c = Upto(n)
      \/ \E n \in 1..(Len(marks) - 1) : c = [Upto(n) EXCEPT !.torn = TRUE]
      \/ \E n \in 2..Len(marks) : c = [Upto(n) EXCEPT !.torn = TRUE, !.sure = Upto(n - 1).status]
  BY DEF CutShort
<1> HIDE DEF Upto
<1>4. CASE \E n \in 0..Len(marks) : c = Upto(n)
  BY <1>1, <1>4
<1>5. CASE \E n \in 1..(Len(marks) - 1) : c = [Upto(n) EXCEPT !.torn = TRUE]
  <2>1. PICK n \in 1..(Len(marks) - 1) : c = [Upto(n) EXCEPT !.torn = TRUE]
    BY <1>5
  <2>2. n \in 0..Len(marks)
    BY <1>2
  <2>3. Extended(Upto(n), p, marks) /\ Upto(n) \in Progress
    BY <1>1, <2>2 DEF Extended
  <2>4. /\ c \in Progress /\ c.run = Upto(n).run /\ c.status = Upto(n).status
        /\ c.sure = Upto(n).sure
    BY <2>1, <2>3 DEF Progress
  <2> QED
    BY <2>3, <2>4 DEF Extended
<1>6. CASE \E n \in 2..Len(marks) : c = [Upto(n) EXCEPT !.torn = TRUE, !.sure = Upto(n - 1).status]
  <2>1. PICK n \in 2..Len(marks) : c = [Upto(n) EXCEPT !.torn = TRUE, !.sure = Upto(n - 1).status]
    BY <1>6
  <2>2. n \in 0..Len(marks) /\ n - 1 \in 0..Len(marks)
    BY <1>2
  <2>3. /\ Extended(Upto(n), p, marks) /\ Upto(n) \in Progress
        /\ Extended(Upto(n - 1), p, marks) /\ Upto(n - 1) \in Progress
    BY <1>1, <2>2 DEF Extended
  <2>4. /\ c \in Progress /\ c.run = Upto(n).run /\ c.status = Upto(n).status
        /\ c.sure = Upto(n - 1).status
    BY <2>1, <2>3 DEF Progress
  <2> QED
    BY <2>3, <2>4 DEF Extended
<1> QED
  BY <1>3, <1>4, <1>5, <1>6

-----------------------------------------------------------------------------
(* The inputs, and what binds a directory to one. *)

LEMMA InputFacts ==
    ASSUME NEW in \in Inputs
    PROVE  /\ in \in Seq(Keys) /\ Len(in) \in Nat \ {0} /\ DOMAIN in = 1..Len(in)
           /\ \A i \in DOMAIN in : in[i] \in Keys
           /\ \A i, j \in DOMAIN in : in[i] = in[j] => i = j
           /\ Image(in) \subseteq Keys /\ RunOf(in) \in Run /\ RunOf(in).tasks = Image(in)
           /\ [run |-> RunOf(in), map |-> in] \in Manifest
           /\ in \in [DOMAIN in -> Keys]
<1>1. in \in Seq(Keys) /\ in # <<>> /\ \A i, j \in DOMAIN in : in[i] = in[j] => i = j
  BY RayAssumption DEF RayAssumption
<1>2. Len(in) \in Nat \ {0} /\ DOMAIN in = 1..Len(in) /\ \A i \in DOMAIN in : in[i] \in Keys
  BY <1>1, LenProperties, EmptySeq, ElementOfSeq
<1>3. Image(in) \subseteq Keys
  BY <1>2 DEF Image
<1> QED
  BY <1>1, <1>2, <1>3, LenProperties DEF RunOf, Run, Manifest

LEMMA NoneFacts ==
    /\ None \notin Keys /\ None \notin Run /\ None \notin Result /\ None \notin Models
    /\ None \notin Manifest
  BY TrackerAssumption, RayAssumption DEF TrackerAssumption, RayAssumption, Manifest

\* A set of task ids in order.
LEMMA IdsInOrder ==
    ASSUME NEW in \in Inputs, NEW S, S \subseteq DOMAIN in
    PROVE  /\ InOrder(S) \in Seq(S) /\ InOrder(S) \in Seq(DOMAIN in)
           /\ \A i, j \in DOMAIN InOrder(S) : InOrder(S)[i] = InOrder(S)[j] => i = j
           /\ \A x \in S : \E j \in DOMAIN InOrder(S) : InOrder(S)[j] = x
           /\ \A j \in DOMAIN InOrder(S) : InOrder(S)[j] \in S
<1>1. S \subseteq Nat /\ IsFiniteSet(S)
  <2>1. S \subseteq 1..Len(in) /\ Len(in) \in Int /\ Len(in) \in Nat
    BY InputFacts
  <2>2. IsFiniteSet(1..Len(in))
    BY <2>1, FS_Interval
  <2> QED
    BY <2>1, <2>2, FS_Subset
<1>2. InOrder(S) \in Seq(S)
  BY <1>1, OrderFacts
<1>3. \A j \in DOMAIN InOrder(S) : InOrder(S)[j] \in S
  BY <1>2, ElementOfSeq, LenProperties
<1>4. InOrder(S) \in Seq(DOMAIN in)
  BY <1>2, SeqMonotonic
<1> QED
  BY <1>1, <1>2, <1>3, <1>4, OrderFacts

\* The tasks whose result is missing or incomplete are marked once each, as errors.
LEMMA DemotionFacts ==
    ASSUME task.input \in Inputs
    PROVE  /\ Demotions \in Seq(Mark) /\ KeysDiffer(Demotions)
           /\ \A k, s : Given(Demotions, k, s) => s = "error" /\ k \in Completed(progress) /\ ~Sound(k)
           /\ \A k \in Completed(progress) \cap Image(task.input) :
                 ~Sound(k) => \E j \in DOMAIN Demotions : Demotions[j].key = k
<1> DEFINE missing == {i \in DOMAIN task.input : /\ task.input[i] \in Completed(progress)
                                                /\ ~Sound(task.input[i])}
           kept == InOrder(missing)
<1>1. /\ kept \in Seq(DOMAIN task.input)
      /\ \A i, j \in DOMAIN kept : kept[i] = kept[j] => i = j
      /\ \A x \in missing : \E j \in DOMAIN kept : kept[j] = x
      /\ \A j \in DOMAIN kept : kept[j] \in missing
  <2>1. missing \subseteq DOMAIN task.input
    OBVIOUS
  <2> HIDE DEF missing
  <2>2. \A in \in Inputs : missing \subseteq DOMAIN in =>
          /\ InOrder(missing) \in Seq(DOMAIN in)
          /\ \A i, j \in DOMAIN InOrder(missing) : InOrder(missing)[i] = InOrder(missing)[j] => i = j
          /\ \A x \in missing : \E j \in DOMAIN InOrder(missing) : InOrder(missing)[j] = x
          /\ \A j \in DOMAIN InOrder(missing) : InOrder(missing)[j] \in missing
    BY IdsInOrder
  <2> QED
    BY <2>1, <2>2
<1>2. Demotions = [j \in DOMAIN kept |-> [key |-> task.input[kept[j]], status |-> "error"]]
  BY DEF Demotions
<1>3. Len(kept) \in Nat /\ DOMAIN kept = 1..Len(kept)
  BY <1>1, LenProperties
<1> HIDE DEF kept
<1>4. \A i \in missing : task.input[i] \in Keys
  BY InputFacts
<1>5. DOMAIN Demotions = DOMAIN kept
      /\ \A j \in DOMAIN kept : Demotions[j] \in Mark /\ Demotions[j].key = task.input[kept[j]]
                                /\ Demotions[j].status = "error"
  BY <1>1, <1>2, <1>4 DEF Mark
<1>6. Demotions \in Seq(Mark)
  <2>1. Demotions \in [1..Len(kept) -> Mark]
    BY <1>2, <1>3, <1>5
  <2> QED
    BY <1>3, <2>1, IsASeq
<1>7. KeysDiffer(Demotions)
  <2> SUFFICES ASSUME NEW i \in DOMAIN kept, NEW j \in DOMAIN kept,
                      task.input[kept[i]] = task.input[kept[j]]
               PROVE  i = j
    BY <1>5 DEF KeysDiffer
  <2>1. kept[i] \in DOMAIN task.input /\ kept[j] \in DOMAIN task.input
    BY <1>1
  <2>2. kept[i] = kept[j]
    BY <2>1, InputFacts
  <2> QED
    BY <1>1, <2>2
<1>8. \A k, s : Given(Demotions, k, s) => s = "error" /\ k \in Completed(progress) /\ ~Sound(k)
  BY <1>1, <1>5 DEF Given
<1>9. ASSUME NEW k \in Completed(progress) \cap Image(task.input), ~Sound(k)
      PROVE  \E j \in DOMAIN Demotions : Demotions[j].key = k
  <2>1. PICK i \in DOMAIN task.input : task.input[i] = k
    BY DEF Image
  <2>2. i \in missing
    BY <1>9, <2>1
  <2> QED
    BY <1>1, <1>5, <2>1, <2>2
<1> QED
  BY <1>6, <1>7, <1>8, <1>9

\* Announcing a run changes no status that the reader had with and without the last line.
LEMMA AnnouncedFacts ==
    ASSUME NEW p \in Progress, NEW run \in Run
    PROVE  LET a == Announced(p, run)
           IN /\ a \in Progress /\ a.torn = FALSE /\ a.sure = p.sure
              /\ a.run = (IF p.torn THEN p.run ELSE run)
              /\ a.status = (IF p.torn THEN p.sure ELSE p.status)
  BY DEF Announced, Progress

\* What holds of the files while no graph runs.
Unstarted == /\ FilesOK /\ TaskOK /\ Bound /\ TornIsKnown /\ ResultsBelong /\ DoneIsStored
             /\ DemotedIsRetried

LEMMA UnstartedIsFlight ==
    ASSUME Unstarted', ~Live' PROVE FlightInv'
<1>1. CompletedHasResult'
  BY DEF Unstarted, DoneIsStored, CompletedHasResult, Completed, Live
<1> QED
  BY <1>1 DEF Unstarted, FlightInv, TypeOK, GraphOK, MergedIsStored, OnePlace, Accounted, Draining

\* Results are not changed, and the files are bound to no input any more.
LEMMA DownKeepsFiles ==
    ASSUME FlightInv, driver' = "down", task' = NoTask, UNCHANGED <<manifest, results>>,
           progress' \in Progress,
           progress'.torn => progress'.run # None,
           \A k \in Keys : progress'.status[k] # "none" \/ progress'.sure[k] # "none" =>
               progress'.run # None /\ k \in progress'.run.tasks,
           \A k \in Keys : progress'.status[k] = "ok" \/ progress'.sure[k] = "ok" => results[k] # None,
           progress'.run = progress.run
    PROVE  FlightInv'
<1>1. ~Live'
  BY DEF Live
<1>2. FilesOK' /\ TaskOK'
  BY DEF FlightInv, TypeOK, FilesOK, TaskOK, Drivers
<1>3. Bound'
  BY <1>1 DEF FlightInv, Bound
<1>4. TornIsKnown' /\ DemotedIsRetried'
  BY DEF TornIsKnown, DemotedIsRetried
<1>5. ResultsBelong' /\ DoneIsStored'
  BY DEF FlightInv, ResultsBelong, DoneIsStored
<1> QED
  BY <1>1, <1>2, <1>3, <1>4, <1>5, UnstartedIsFlight DEF Unstarted

-----------------------------------------------------------------------------
(* Init, and the steps before there is a graph. *)

LEMMA InitFlight == Init => FlightInv
<1> SUFFICES ASSUME Init PROVE FlightInv
  OBVIOUS
<1>1. driver = "down" /\ ~Live
  BY DEF Init, Live
<1>2. NoProgress \in Progress /\ NoStatus \in Statuses
  BY DEF NoProgress, Progress, NoStatus, Statuses
<1>3. FilesOK /\ Bound /\ ResultsBelong /\ DoneIsStored
  <2>1. CASE Fresh
    <3>1. progress = NoProgress /\ manifest = None /\ results = NoResults
      BY <2>1 DEF Fresh
    <3>2. FilesOK
      BY <1>2, <3>1 DEF FilesOK, NoResults
    <3>3. \A k \in Keys : progress.status[k] = "none" /\ progress.sure[k] = "none" /\ results[k] = None
      BY <3>1 DEF NoProgress, NoStatus, NoResults
    <3> QED
      BY <1>1, <3>1, <3>2, <3>3 DEF Bound, ResultsBelong, DoneIsStored, NoProgress
  <2>2. CASE Legacy
    <3> DEFINE run(in) == [tasks |-> Image(in), schema |-> "record"]
    <3>1. PICK in \in Inputs, done \in LegacyDone :
             /\ done \subseteq run(in).tasks
             /\ LET status == [k \in Keys |-> IF k \in done THEN "ok" ELSE "none"]
                IN progress = [run |-> run(in), status |-> status, torn |-> FALSE, sure |-> status]
             /\ manifest = [run |-> run(in), map |-> in]
             /\ results = [k \in Keys |-> IF k \in done THEN [about |-> k, status |-> "ok"] ELSE None]
      BY <2>2 DEF Legacy
    <3>2. run(in) \in Run /\ run(in).tasks = Image(in) /\ run(in) # None
      <4>1. Image(in) \subseteq Keys
        BY InputFacts
      <4>2. run(in) \in Run
        BY <4>1 DEF Run
      <4> QED BY <4>2, NoneFacts
    <3> HIDE DEF run
    <3>3. \A k \in Keys : /\ progress.status[k] = progress.sure[k]
                          /\ progress.status[k] = IF k \in done THEN "ok" ELSE "none"
                          /\ results[k] = IF k \in done THEN [about |-> k, status |-> "ok"] ELSE None
      BY <3>1
    <3>4. \A k \in Keys : [about |-> k, status |-> "ok"] \in Result
      BY DEF Result
    <3>5. progress \in Progress
      BY <3>1, <3>2 DEF Progress, Statuses
    <3>6. manifest \in Manifest
      BY <3>1, <3>2 DEF Manifest
    <3>7. FilesOK
      BY <3>1, <3>4, <3>5, <3>6 DEF FilesOK
    <3>8. progress.run = run(in) /\ ~progress.torn
      BY <3>1
    <3>9. Bound
      BY <1>1, <3>1, <3>2, <3>3, <3>8 DEF Bound
    <3>10. ResultsBelong
      <4> SUFFICES ASSUME NEW k \in Keys, results[k] # None PROVE results[k].about = k
        BY DEF ResultsBelong
      <4>1. results[k] = [about |-> k, status |-> "ok"]
        BY <3>3
      <4> QED BY <4>1
    <3>11. DoneIsStored
      <4>1. \A k \in Keys : [about |-> k, status |-> "ok"] # None
        BY <3>4, NoneFacts
      <4> QED
        BY <3>3, <4>1 DEF DoneIsStored
    <3> QED
      BY <3>7, <3>9, <3>10, <3>11
  <2> QED
    BY <2>1, <2>2 DEF Init
<1>4. TaskOK /\ TornIsKnown /\ DemotedIsRetried
  BY <1>1 DEF TaskOK, Drivers, TornIsKnown, DemotedIsRetried
<1>5. CompletedHasResult
  BY <1>1, <1>3 DEF DoneIsStored, CompletedHasResult, Completed
<1> QED
  BY <1>1, <1>3, <1>4, <1>5
     DEF FlightInv, TypeOK, GraphOK, MergedIsStored, OnePlace, Accounted, Draining

\* The run of a directory: its tasks are those of this input when it is not incompatible.
LEMMA BoundToInput ==
    ASSUME FlightInv, NEW in \in Inputs, ~ManifestRefused(progress, manifest), ~Incompatible(in)
    PROVE  /\ progress.run = None => results = NoResults
           /\ progress.run # None => progress.run.tasks = Image(in)
           /\ Migrates(in) => progress.run # None
<1>1. CASE progress.run = RunOf(in) \/ progress.run = None
  BY <1>1, InputFacts, NoneFacts DEF Incompatible, Migrates
<1>2. CASE Migrates(in)
  <2>1. progress.run # None /\ manifest # None /\ Image(manifest.map) = Image(in)
    BY <1>2 DEF Migrates
  <2>2. manifest.run = progress.run /\ manifest \in Manifest
    BY <2>1 DEF ManifestRefused, FlightInv, TypeOK, FilesOK
  <2> QED
    BY <2>1, <2>2 DEF Manifest
<1> QED
  BY <1>1, <1>2 DEF Incompatible

LEMMA StepStart ==
    ASSUME FlightInv, NEW in \in Inputs, NEW mayReset \in BOOLEAN, NEW changed \in BOOLEAN,
           Start(in, mayReset, changed)
    PROVE  FlightInv'
<1>1. UNCHANGED <<progress, manifest, results>>
  BY DEF Start, files
<1>2. FilesOK' /\ ResultsBelong' /\ DoneIsStored'
  BY <1>1 DEF FlightInv, TypeOK, FilesOK, ResultsBelong, DoneIsStored
<1>3. CASE GiveUp
  BY <1>1, <1>3, DownKeepsFiles DEF FlightInv, TypeOK, FilesOK, Bound, DoneIsStored, GiveUp
<1>4. CASE ~(ManifestRefused(progress, manifest) \/ (Incompatible(in) /\ ~mayReset))
  <2>1. /\ driver' = IF Incompatible(in) THEN "reset"
                     ELSE IF Migrates(in) THEN "migrate" ELSE "configure"
        /\ task' = [input |-> in,
                    announce |-> changed \/ progress.run = None \/ Incompatible(in),
                    torn |-> progress.torn]
        /\ ~ManifestRefused(progress, manifest)
    BY <1>4 DEF Start
  <2>2. ~Live' /\ driver' \in {"reset", "migrate", "configure"}
    BY <2>1 DEF Live
  <2>3. task'.input = in /\ task'.torn = progress.torn
        /\ task'.announce = (changed \/ progress.run = None \/ Incompatible(in))
    BY <2>1
  <2>4. TaskOK'
    <3>1. progress.torn \in BOOLEAN
      BY ProgressFields DEF FlightInv, TypeOK, FilesOK
    <3> QED
      BY <2>1, <2>2, <3>1 DEF TaskOK, Drivers
  <2>5. TornIsKnown' /\ DemotedIsRetried'
    BY <1>1, <2>2, <2>3 DEF TornIsKnown, DemotedIsRetried
  <2>6. Bound'
    <3>1. driver' # "reset" => ~Incompatible(in)
      BY <2>1
    <3>2. driver' = "migrate" => Migrates(in)
      BY <2>1
    <3>3. ASSUME driver' # "reset"
          PROVE  /\ progress.run = None => results = NoResults /\ task'.announce
                 /\ progress.run # None => progress.run.tasks = Image(in)
                 /\ driver' = "migrate" => progress.run # None
      BY <2>1, <2>3, <3>1, <3>2, <3>3, BoundToInput
    <3>4. Incompatible(in) => task'.announce
      BY <2>3
    <3>5. driver' = "reset" => task'.announce
      BY <3>4, <2>1
    <3> QED
      BY <1>1, <2>2, <2>3, <3>3, <3>5 DEF FlightInv, Bound
  <2> QED
    BY <1>2, <2>2, <2>4, <2>5, <2>6, UnstartedIsFlight DEF Unstarted
<1> QED
  BY <1>3, <1>4 DEF Start

LEMMA StepUnlink ==
    ASSUME FlightInv, Unlink PROVE FlightInv'
<1>1. driver = "reset" /\ driver' \in {"reset", "configure"} /\ task' = task /\ ~Live'
  BY DEF Unlink, Live
<1>2. NoProgress \in Progress /\ NoResults \in [Keys -> Result \cup {None}]
      /\ \A k \in Keys : NoProgress.status[k] = "none" /\ NoProgress.sure[k] = "none"
                         /\ NoResults[k] = None
  BY DEF NoProgress, Progress, NoStatus, Statuses, NoResults
<1>3. NoProgress.run = None /\ ~NoProgress.torn
  BY DEF NoProgress
<1>4. \/ progress' = NoProgress /\ UNCHANGED <<manifest, results, driver>>
      \/ progress = NoProgress /\ progress' = progress /\ manifest' = None /\ UNCHANGED <<results, driver>>
      \/ progress = NoProgress /\ progress' = progress /\ UNCHANGED manifest /\ results' = NoResults
         /\ driver' = "configure"
  BY DEF Unlink
<1>5. progress' = NoProgress
  BY <1>4
<1>6. FilesOK' /\ ResultsBelong' /\ DoneIsStored'
  BY <1>2, <1>4, <1>5 DEF FlightInv, TypeOK, FilesOK, ResultsBelong, DoneIsStored
<1>7. TaskOK'
  BY <1>1 DEF FlightInv, TypeOK, TaskOK, Drivers
<1>8. TornIsKnown' /\ DemotedIsRetried'
  BY <1>1, <1>3, <1>5 DEF TornIsKnown, DemotedIsRetried
<1>9. Bound'
  BY <1>1, <1>2, <1>3, <1>4, <1>5 DEF FlightInv, Bound
<1> QED
  BY <1>1, <1>6, <1>7, <1>8, <1>9, UnstartedIsFlight DEF Unstarted

\* An announced run is for this input, when the run it replaces was, or there was none.
LEMMA AnnouncedKeeps ==
    ASSUME FlightInv, driver \in {"migrate", "configure"},
           progress.run = None => results = NoResults,
           progress' = Announced(progress, RunOf(task.input))
    PROVE  /\ progress' \in Progress /\ ~progress'.torn
           /\ progress'.run # None /\ progress'.run.tasks = Image(task.input)
           /\ \A k \in Keys : progress'.status[k] # "none" \/ progress'.sure[k] # "none" =>
                  k \in progress'.run.tasks
           /\ \A k \in Keys : progress'.status[k] = "ok" \/ progress'.sure[k] = "ok" => results[k] # None
           /\ \A k \in Keys : results[k] # None => k \in progress'.run.tasks
<1>1. progress \in Progress /\ RunOf(task.input) \in Run /\ RunOf(task.input).tasks = Image(task.input)
  BY InputFacts DEF FlightInv, TypeOK, FilesOK, TaskOK
<1>2. /\ progress' \in Progress /\ ~progress'.torn /\ progress'.sure = progress.sure
      /\ progress'.run = (IF progress.torn THEN progress.run ELSE RunOf(task.input))
      /\ progress'.status = (IF progress.torn THEN progress.sure ELSE progress.status)
  BY <1>1, AnnouncedFacts
<1>3. progress'.run # None /\ progress'.run.tasks = Image(task.input)
  BY <1>1, <1>2, NoneFacts DEF FlightInv, Bound
<1>4. \A k \in Keys : progress.status[k] # "none" \/ progress.sure[k] # "none" => k \in Image(task.input)
  BY DEF FlightInv, Bound
<1>5. \A k \in Keys : results[k] # None => k \in Image(task.input)
  BY DEF FlightInv, Bound, NoResults
<1> QED
  BY <1>2, <1>3, <1>4, <1>5 DEF FlightInv, DoneIsStored

LEMMA StepMigrate ==
    ASSUME FlightInv, Migrate PROVE FlightInv'
<1>1. /\ driver = "migrate" /\ driver' = "migrated" /\ ~Live' /\ UNCHANGED <<manifest, results, task>>
      /\ progress' = Announced(progress, RunOf(task.input))
  BY DEF Migrate, Live
<1>2. progress.run # None
  BY <1>1 DEF FlightInv, Bound
<1>3. FilesOK' /\ TaskOK'
  BY <1>1, <1>2, AnnouncedKeeps DEF FlightInv, TypeOK, FilesOK, TaskOK, Drivers
<1>4. Bound'
  BY <1>1, <1>2, AnnouncedKeeps DEF Bound
<1>5. TornIsKnown' /\ DemotedIsRetried' /\ ResultsBelong' /\ DoneIsStored'
  BY <1>1, <1>2, AnnouncedKeeps
     DEF FlightInv, TornIsKnown, DemotedIsRetried, ResultsBelong, DoneIsStored
<1> QED
  BY <1>1, <1>3, <1>4, <1>5, UnstartedIsFlight DEF Unstarted

LEMMA StepConfigure ==
    ASSUME FlightInv, Configure PROVE FlightInv'
<1>1. /\ driver = "configure" /\ driver' = "configured" /\ ~Live' /\ UNCHANGED <<manifest, results, task>>
      /\ progress' = IF task.announce THEN Announced(progress, RunOf(task.input)) ELSE progress
  BY DEF Configure, Live
<1>2. progress.run = None => results = NoResults /\ task.announce
  BY <1>1 DEF FlightInv, Bound
<1>3. CASE task.announce
  <2>1. progress' = Announced(progress, RunOf(task.input))
    BY <1>1, <1>3
  <2>2. FilesOK' /\ TaskOK'
    BY <1>1, <1>2, <2>1, AnnouncedKeeps DEF FlightInv, TypeOK, FilesOK, TaskOK, Drivers
  <2>3. Bound'
    BY <1>1, <1>2, <2>1, AnnouncedKeeps DEF Bound
  <2>4. TornIsKnown' /\ DemotedIsRetried' /\ ResultsBelong' /\ DoneIsStored'
    BY <1>1, <1>2, <2>1, AnnouncedKeeps
       DEF FlightInv, TornIsKnown, DemotedIsRetried, ResultsBelong, DoneIsStored
  <2> QED
    BY <1>1, <2>2, <2>3, <2>4, UnstartedIsFlight DEF Unstarted
<1>4. CASE ~task.announce
  <2>1. progress' = progress /\ progress.run # None
    BY <1>1, <1>2, <1>4
  <2>2. FilesOK' /\ TaskOK'
    BY <1>1, <2>1 DEF FlightInv, TypeOK, FilesOK, TaskOK, Drivers
  <2>3. Bound'
    BY <1>1, <2>1 DEF FlightInv, Bound
  <2>4. TornIsKnown' /\ DemotedIsRetried' /\ ResultsBelong' /\ DoneIsStored'
    BY <1>1, <2>1 DEF FlightInv, TornIsKnown, DemotedIsRetried, ResultsBelong, DoneIsStored, Live
  <2> QED
    BY <1>1, <2>2, <2>3, <2>4, UnstartedIsFlight DEF Unstarted
<1> QED
  BY <1>3, <1>4

LEMMA StepWriteManifest ==
    ASSUME FlightInv, WriteManifest PROVE FlightInv'
<1>1. /\ driver \in {"migrated", "configured"} /\ driver' \in {"configure", "demote"}
      /\ ~Live /\ ~Live' /\ UNCHANGED <<progress, results, task>>
      /\ manifest' = [run |-> RunOf(task.input), map |-> task.input]
  BY DEF WriteManifest, Live
<1>2. task.input \in Inputs /\ task \in [input : Inputs, announce : BOOLEAN, torn : BOOLEAN]
  BY <1>1 DEF FlightInv, TypeOK, TaskOK
<1>3. FilesOK' /\ TaskOK'
  BY <1>1, <1>2, InputFacts DEF FlightInv, TypeOK, FilesOK, TaskOK, Drivers
<1>4. Bound'
  BY <1>1 DEF FlightInv, Bound
<1>5. TornIsKnown' /\ DemotedIsRetried' /\ ResultsBelong' /\ DoneIsStored'
  BY <1>1 DEF FlightInv, TornIsKnown, DemotedIsRetried, ResultsBelong, DoneIsStored
<1> QED
  BY <1>1, <1>3, <1>4, <1>5, UnstartedIsFlight DEF Unstarted

\* Lines about tasks of this run, that say "ok" only of what is stored, keep the files right.
LEMMA ExtendedKeeps ==
    ASSUME FlightInv, progress.run # None, NEW marks, NEW c, Extended(c, progress, marks),
           \A k, s : Given(marks, k, s) =>
               k \in progress.run.tasks /\ (s = "ok" => results[k] # None)
    PROVE  /\ c \in Progress /\ c.run = progress.run
           /\ \A k \in Keys : c.status[k] # "none" \/ c.sure[k] # "none" =>
                  c.run # None /\ k \in c.run.tasks
           /\ \A k \in Keys : c.status[k] = "ok" \/ c.sure[k] = "ok" => results[k] # None
<1>1. c \in Progress /\ c.run = progress.run
  BY DEF Extended
<1>2. ASSUME NEW k \in Keys
      PROVE  /\ c.status[k] # "none" \/ c.sure[k] # "none" => k \in progress.run.tasks
             /\ c.status[k] = "ok" \/ c.sure[k] = "ok" => results[k] # None
  <2>1. \/ c.status[k] \in {progress.status[k], progress.sure[k]}
        \/ Given(marks, k, c.status[k])
    BY DEF Extended
  <2>2. \/ c.sure[k] \in {progress.status[k], progress.sure[k]}
        \/ Given(marks, k, c.sure[k])
    BY DEF Extended
  <2>3. /\ progress.status[k] # "none" \/ progress.sure[k] # "none" => k \in progress.run.tasks
        /\ progress.status[k] = "ok" \/ progress.sure[k] = "ok" => results[k] # None
    BY DEF FlightInv, Bound, DoneIsStored
  <2> QED
    BY <2>1, <2>2, <2>3
<1> QED
  BY <1>1, <1>2

\* What the comparison of both files writes keeps them right.
LEMMA DemotionKeeps ==
    ASSUME FlightInv, driver = "demote", NEW c, Extended(c, progress, Demotions)
    PROVE  /\ c \in Progress /\ c.run = progress.run /\ c.run # None
           /\ \A k \in Keys : c.status[k] # "none" \/ c.sure[k] # "none" =>
                  c.run # None /\ k \in c.run.tasks
           /\ \A k \in Keys : c.status[k] = "ok" \/ c.sure[k] = "ok" => results[k] # None
<1>1. progress.run # None /\ task.input \in Inputs
  BY DEF FlightInv, Bound, TypeOK, TaskOK
<1>2. \A k, s : Given(Demotions, k, s) =>
          k \in progress.run.tasks /\ (s = "ok" => results[k] # None)
  BY <1>1, DemotionFacts DEF Completed, FlightInv, Bound
<1> QED
  BY <1>1, <1>2, ExtendedKeeps

LEMMA StepDemote ==
    ASSUME FlightInv, Demote PROVE FlightInv'
<1>1. /\ driver = "demote" /\ ~Live /\ UNCHANGED <<manifest, results>>
      /\ progress' = Appended(progress, Demotions)
  BY DEF Demote, Live
<1>2. progress \in Progress /\ task.input \in Inputs
  BY <1>1 DEF FlightInv, TypeOK, FilesOK, TaskOK
<1>3. /\ Extended(progress', progress, Demotions)
      /\ progress'.torn => progress.torn
      /\ ~progress.torn => \A k \in Keys :
            \/ Given(Demotions, k, progress'.status[k])
            \/ /\ \A j \in DOMAIN Demotions : Demotions[j].key # k
               /\ progress'.status[k] = progress.status[k]
  BY <1>1, <1>2, DemotionFacts, AppendedFacts
<1>4. /\ progress' \in Progress /\ progress'.run = progress.run /\ progress'.run # None
      /\ \A k \in Keys : progress'.status[k] # "none" \/ progress'.sure[k] # "none" =>
             progress'.run # None /\ k \in progress'.run.tasks
      /\ \A k \in Keys : progress'.status[k] = "ok" \/ progress'.sure[k] = "ok" => results[k] # None
  BY <1>1, <1>3, DemotionKeeps
<1>5. CASE GiveUp
  BY <1>1, <1>4, <1>5, DownKeepsFiles DEF GiveUp
<1>6. CASE driver' = "ready" /\ UNCHANGED task
  <2>1. ~Live' /\ FilesOK' /\ TaskOK'
    BY <1>1, <1>4, <1>6 DEF Live, FlightInv, TypeOK, FilesOK, TaskOK, Drivers
  <2>2. Bound'
    BY <1>1, <1>4, <1>6, <2>1 DEF FlightInv, Bound
  <2>3. TornIsKnown' /\ ResultsBelong' /\ DoneIsStored'
    BY <1>1, <1>3, <1>4, <1>6 DEF FlightInv, TornIsKnown, ResultsBelong, DoneIsStored
  <2>4. DemotedIsRetried'
    <3> SUFFICES ASSUME ~task.torn, NEW k \in Keys, progress'.status[k] = "ok" PROVE Sound(k)'
      BY <1>6 DEF DemotedIsRetried, Completed
    <3>1. ~progress.torn
      BY <1>1 DEF FlightInv, TornIsKnown
    <3>2. ~Given(Demotions, k, "ok")
      BY <1>2, DemotionFacts
    <3>3. /\ \A j \in DOMAIN Demotions : Demotions[j].key # k
          /\ progress.status[k] = "ok"
      BY <1>3, <3>1, <3>2
    <3>4. k \in Completed(progress) \cap Image(task.input)
      BY <1>1, <3>3 DEF FlightInv, Bound, Completed
    <3>5. Sound(k)
      BY <1>2, <3>3, <3>4, DemotionFacts
    <3> QED
      BY <1>1, <3>5 DEF Sound
  <2> QED
    BY <2>1, <2>2, <2>3, <2>4, UnstartedIsFlight DEF Unstarted
<1> QED
  BY <1>5, <1>6 DEF Demote

-----------------------------------------------------------------------------
(* The saver's marks, and the end of a run. *)

\* The buffer of the saver and the ids in it.
LEMMA BufferFacts ==
    ASSUME FlightInv, Live
    PROVE  /\ task.input \in Inputs /\ saver.map = task.input /\ saver \in SaverState
           /\ saver.buffer \in Seq(InFlightResult)
           /\ Len(saver.buffer) \in Nat /\ DOMAIN saver.buffer = 1..Len(saver.buffer)
           /\ \A j \in DOMAIN saver.buffer :
                 /\ saver.buffer[j] \in InFlightResult
                 /\ saver.buffer[j].id \in Ids /\ saver.buffer[j].status \in {"ok", "bare", "error"}
                 /\ saver.buffer[j].about = task.input[saver.buffer[j].id]
                 /\ task.input[saver.buffer[j].id] \in Keys
           /\ \A i, j \in DOMAIN saver.buffer : saver.buffer[i].id = saver.buffer[j].id => i = j
<1>1. saver \in SaverState /\ task.input \in Inputs
  BY DEF FlightInv, TypeOK, GraphOK, TaskOK, Live
<1>2. saver.map = task.input /\ saver.buffer \in Seq(InFlightResult)
  BY <1>1 DEF SaverState
<1>3. Len(saver.buffer) \in Nat /\ DOMAIN saver.buffer = 1..Len(saver.buffer)
      /\ \A j \in DOMAIN saver.buffer : saver.buffer[j] \in InFlightResult
  BY <1>2, LenProperties, ElementOfSeq
<1>4. \A i \in Ids : task.input[i] \in Keys
  BY <1>1, InputFacts DEF Ids
<1>5. \A i, j \in DOMAIN saver.buffer : saver.buffer[i].id = saver.buffer[j].id => i = j
  BY DEF FlightInv, OnePlace, Distinct, IdsOf
<1> QED
  BY <1>1, <1>2, <1>3, <1>4, <1>5 DEF InFlightResult

\* A flush marks each task of the buffer once, as its result says.
LEMMA MarkFacts ==
    ASSUME FlightInv, Live
    PROVE  /\ Marks \in Seq(Mark) /\ KeysDiffer(Marks)
           /\ \A k, s : Given(Marks, k, s) =>
                 \E j \in DOMAIN saver.buffer :
                    /\ k = task.input[saver.buffer[j].id]
                    /\ s = IF saver.buffer[j].status = "error" THEN "error" ELSE "ok"
           /\ DOMAIN Marks = DOMAIN saver.buffer
           /\ \A j \in DOMAIN Marks : Marks[j].key = task.input[saver.buffer[j].id]
<1>1. /\ DOMAIN Marks = DOMAIN saver.buffer
      /\ \A j \in DOMAIN Marks :
            /\ Marks[j].key = task.input[saver.buffer[j].id]
            /\ Marks[j].status = IF saver.buffer[j].status = "error" THEN "error" ELSE "ok"
            /\ Marks[j] \in Mark
  BY BufferFacts DEF Marks, Mark
<1>2. Marks \in Seq(Mark)
  <2>1. Marks \in [1..Len(saver.buffer) -> Mark]
    BY <1>1, BufferFacts DEF Marks
  <2> QED
    BY <2>1, BufferFacts, IsASeq
<1>3. KeysDiffer(Marks)
  <2> SUFFICES ASSUME NEW i \in DOMAIN Marks, NEW j \in DOMAIN Marks, Marks[i].key = Marks[j].key
               PROVE  i = j
    BY DEF KeysDiffer
  <2>1. saver.buffer[i].id \in Ids /\ saver.buffer[j].id \in Ids
        /\ task.input[saver.buffer[i].id] = task.input[saver.buffer[j].id]
    BY <1>1, BufferFacts
  <2>2. saver.buffer[i].id = saver.buffer[j].id
    BY <2>1, BufferFacts, InputFacts DEF Ids
  <2> QED
    BY <1>1, <2>2, BufferFacts
<1> QED
  BY <1>1, <1>2, <1>3 DEF Given

LEMMA RunOfGraph ==
    ASSUME FlightInv, Live
    PROVE  progress.run = RunOf(task.input) /\ progress.run # None
           /\ progress.run.tasks = Image(task.input)
  BY InputFacts, NoneFacts DEF FlightInv, Bound, TypeOK, TaskOK, Live

\* Marks agree with the results that were merged before.
LEMMA MarksAreStored ==
    ASSUME FlightInv, Live, saver.step = "mark", NEW k, NEW s, Given(Marks, k, s)
    PROVE  /\ k \in progress.run.tasks /\ k \in Keys /\ results[k] # None
           /\ s = IF results[k].status = "error" THEN "error" ELSE "ok"
<1>1. PICK j \in DOMAIN saver.buffer :
          /\ k = task.input[saver.buffer[j].id]
          /\ s = IF saver.buffer[j].status = "error" THEN "error" ELSE "ok"
  BY MarkFacts
<1>2. results[k] # None /\ results[k].status = saver.buffer[j].status
  BY <1>1 DEF FlightInv, MergedIsStored
<1>3. k \in Keys
  BY <1>1, BufferFacts
<1>4. k \in progress.run.tasks
  BY <1>2, <1>3, RunOfGraph DEF FlightInv, Bound
<1> QED
  BY <1>1, <1>2, <1>3, <1>4

\* A flush, also one that is cut short, keeps the files right.
LEMMA MarkingKeeps ==
    ASSUME FlightInv, Live, saver.step = "mark", NEW c, Extended(c, progress, Marks)
    PROVE  /\ c \in Progress /\ c.run = progress.run /\ c.run # None
           /\ \A k \in Keys : c.status[k] # "none" \/ c.sure[k] # "none" =>
                  c.run # None /\ k \in c.run.tasks
           /\ \A k \in Keys : c.status[k] = "ok" \/ c.sure[k] = "ok" => results[k] # None
<1>1. progress.run # None
  BY RunOfGraph
<1>2. \A k, s : Given(Marks, k, s) =>
          k \in progress.run.tasks /\ (s = "ok" => results[k] # None)
  BY MarksAreStored
<1> QED
  BY <1>1, <1>2, ExtendedKeeps

\* A run that ends, by itself or by a kill, leaves files the next one can start from.
LEMMA StepEnds ==
    ASSUME FlightInv, Exit \/ Leave \/ Crash PROVE FlightInv'
<1>1. driver' = "down" /\ task' = NoTask /\ UNCHANGED <<manifest, results>>
  BY DEF Exit, Leave, Crash, GiveUp, files
<1>2. \/ progress' = progress
      \/ Live /\ saver.step = "mark" /\ progress' \in CutShort(progress, Marks)
      \/ driver = "demote" /\ progress' \in CutShort(progress, Demotions)
  BY DEF Exit, Leave, Crash, files, Saving, InGraph, Live
<1>3. progress \in Progress
  BY DEF FlightInv, TypeOK, FilesOK
<1>4. CASE progress' = progress
  BY <1>1, <1>3, <1>4, DownKeepsFiles DEF FlightInv, Bound, DoneIsStored
<1>5. CASE Live /\ saver.step = "mark" /\ progress' \in CutShort(progress, Marks)
  <2>1. Extended(progress', progress, Marks)
    BY <1>3, <1>5, MarkFacts, CutFacts
  <2> QED
    BY <1>1, <1>5, <2>1, MarkingKeeps, DownKeepsFiles
<1>6. CASE driver = "demote" /\ progress' \in CutShort(progress, Demotions)
  <2>1. task.input \in Inputs
    BY <1>6 DEF FlightInv, TypeOK, TaskOK
  <2>2. Extended(progress', progress, Demotions)
    BY <1>3, <1>6, <2>1, DemotionFacts, CutFacts
  <2> QED
    BY <1>1, <1>6, <2>2, DemotionKeeps, DownKeepsFiles
<1> QED
  BY <1>2, <1>4, <1>5, <1>6

-----------------------------------------------------------------------------
(* Batches that are cut, put at the end of a queue, taken off it, and joined. *)

LEMMA ApartIsSymmetric ==
    ASSUME NEW s, NEW t, Apart(s, t) PROVE Apart(t, s)
  BY DEF Apart

LEMMA NothingIsApart ==
    ASSUME NEW s, NEW t, DOMAIN t = {}
    PROVE  Apart(s, t) /\ Apart(t, s) /\ Distinct(t) /\ Image(t) = {}
  BY DEF Apart, Distinct, Image

\* Both parts of a sequence hold what the whole held.
LEMMA SplitFacts ==
    ASSUME NEW S, NEW s \in Seq(S), NEW n \in 0..Len(s), NEW head, NEW rest,
           head = SubSeq(s, 1, n), rest = SubSeq(s, n + 1, Len(s))
    PROVE  /\ head \in Seq(S) /\ rest \in Seq(S) /\ Len(head) = n
           /\ Image(s) = Image(head) \cup Image(rest)
           /\ Distinct(s) => Distinct(head) /\ Distinct(rest) /\ Apart(head, rest)
           /\ \A u : Apart(s, u) => Apart(head, u) /\ Apart(rest, u)
<1>1. Len(s) \in Nat /\ DOMAIN s = 1..Len(s) /\ \A i \in 1..Len(s) : s[i] \in S
  BY LenProperties, ElementOfSeq
<1>2. /\ head \in Seq(S) /\ Len(head) = n /\ \A i \in 1..n : head[i] = s[i]
  <2>1. 1 \in Int /\ n \in Int /\ \A i \in 1..n : s[i] \in S
    BY <1>1
  <2>2. /\ head \in Seq(S) /\ Len(head) = (IF 1 <= n THEN n - 1 + 1 ELSE 0)
        /\ \A i \in 1..(n - 1 + 1) : head[i] = s[1 + i - 1]
    BY <2>1, SubSeqProperties
  <2> QED BY <2>2
<1>3. /\ rest \in Seq(S) /\ Len(rest) = Len(s) - n
      /\ \A i \in 1..(Len(s) - n) : rest[i] = s[n + i]
  <2>1. n + 1 \in Int /\ Len(s) \in Int /\ \A i \in (n + 1)..Len(s) : s[i] \in S
    BY <1>1
  <2>2. /\ rest \in Seq(S) /\ Len(rest) = (IF n + 1 <= Len(s) THEN Len(s) - (n + 1) + 1 ELSE 0)
        /\ \A i \in 1..(Len(s) - (n + 1) + 1) : rest[i] = s[n + 1 + i - 1]
    BY <2>1, SubSeqProperties
  <2>3. Len(s) - (n + 1) + 1 = Len(s) - n /\ (n + 1 <= Len(s) \/ Len(s) - n = 0)
    <3>1. n \in Nat /\ n <= Len(s) /\ Len(s) \in Nat
      BY <1>1
    <3> QED BY <3>1
  <2>4. \A i \in 1..(Len(s) - n) : n + 1 + i - 1 = n + i
    BY <1>1
  <2> QED BY <2>2, <2>3, <2>4
<1>4. DOMAIN head = 1..n /\ DOMAIN rest = 1..(Len(s) - n)
  BY <1>2, <1>3, LenProperties
<1>5. /\ \A i \in DOMAIN head : i \in DOMAIN s /\ i <= n /\ head[i] = s[i]
      /\ \A i \in DOMAIN rest : n + i \in DOMAIN s /\ n + i > n /\ rest[i] = s[n + i]
      /\ \A i \in DOMAIN s : i \in DOMAIN head \/ i - n \in DOMAIN rest
  <2>1. Len(s) \in Nat /\ DOMAIN s = 1..Len(s) /\ n \in Nat /\ n <= Len(s)
    BY <1>1
  <2>2. ASSUME NEW i \in DOMAIN head PROVE i \in DOMAIN s /\ i <= n /\ head[i] = s[i]
    <3>1. i \in 1..n
      BY <1>4
    <3>2. head[i] = s[i]
      BY <1>2, <3>1
    <3>3. i \in 1..Len(s) /\ i <= n
      BY <2>1, <3>1
    <3> QED BY <2>1, <3>2, <3>3
  <2>3. ASSUME NEW i \in DOMAIN rest PROVE n + i \in DOMAIN s /\ n + i > n /\ rest[i] = s[n + i]
    <3>1. i \in 1..(Len(s) - n)
      BY <1>4
    <3>2. rest[i] = s[n + i]
      BY <1>3, <3>1
    <3>3. n + i \in 1..Len(s) /\ n + i > n
      BY <2>1, <3>1
    <3> QED BY <2>1, <3>2, <3>3
  <2>4. ASSUME NEW i \in DOMAIN s PROVE i \in DOMAIN head \/ i - n \in DOMAIN rest
    <3>1. i \in 1..Len(s)
      BY <2>1
    <3>2. i \in 1..n \/ i - n \in 1..(Len(s) - n)
      BY <2>1, <3>1
    <3> QED BY <1>4, <3>2
  <2> QED BY <2>2, <2>3, <2>4
<1>6. Image(s) = Image(head) \cup Image(rest)
  <2>1. \A x \in Image(head) \cup Image(rest) : x \in Image(s)
    BY <1>5 DEF Image
  <2>2. ASSUME NEW x \in Image(s) PROVE x \in Image(head) \cup Image(rest)
    <3>1. PICK i \in DOMAIN s : s[i] = x
      BY DEF Image
    <3>2. CASE i \in DOMAIN head
      BY <1>5, <3>1, <3>2 DEF Image
    <3>3. CASE i - n \in DOMAIN rest
      <4>1. rest[i - n] = s[i]
        BY <1>1, <1>5, <3>1, <3>3
      <4> QED
        BY <3>1, <3>3, <4>1 DEF Image
    <3> QED
      BY <1>5, <3>2, <3>3
  <2> QED
    BY <2>1, <2>2
<1>7. Distinct(s) => Distinct(head) /\ Distinct(rest) /\ Apart(head, rest)
  <2> SUFFICES ASSUME Distinct(s) PROVE Distinct(head) /\ Distinct(rest) /\ Apart(head, rest)
    OBVIOUS
  <2>1. Distinct(head)
    BY <1>5 DEF Distinct
  <2>2. Distinct(rest)
    <3> SUFFICES ASSUME NEW i \in DOMAIN rest, NEW j \in DOMAIN rest, rest[i] = rest[j] PROVE i = j
      BY DEF Distinct
    <3>1. n + i = n + j
      BY <1>5 DEF Distinct
    <3> QED
      BY <1>1, <1>4, <3>1
  <2>3. Apart(head, rest)
    <3> SUFFICES ASSUME NEW i \in DOMAIN head, NEW j \in DOMAIN rest, head[i] = rest[j] PROVE FALSE
      BY DEF Apart
    <3>1. i = n + j
      BY <1>5 DEF Distinct
    <3> QED
      BY <1>1, <1>4, <3>1
  <2> QED
    BY <2>1, <2>2, <2>3
<1>8. \A u : Apart(s, u) => Apart(head, u) /\ Apart(rest, u)
  BY <1>5 DEF Apart
<1> QED
  BY <1>2, <1>3, <1>6, <1>7, <1>8

LEMMA JoinFacts ==
    ASSUME NEW S, NEW s \in Seq(S), NEW t \in Seq(S), NEW both, both = s \o t
    PROVE  /\ both \in Seq(S) /\ Len(both) = Len(s) + Len(t)
           /\ \A x : x \in Image(IdsOf(both)) <=> x \in Image(IdsOf(s)) \/ x \in Image(IdsOf(t))
           /\ Distinct(IdsOf(s)) /\ Distinct(IdsOf(t)) /\ Apart(IdsOf(s), IdsOf(t)) => Distinct(IdsOf(both))
           /\ \A u : Apart(u, IdsOf(s)) /\ Apart(u, IdsOf(t)) => Apart(u, IdsOf(both))
<1> DEFINE m == Len(s)
           n == Len(t)
<1>1. m \in Nat /\ n \in Nat /\ DOMAIN s = 1..m /\ DOMAIN t = 1..n
  BY LenProperties
<1>2. both \in Seq(S) /\ Len(both) = m + n
      /\ \A i \in 1..(m + n) : both[i] = IF i <= m THEN s[i] ELSE t[i - m]
  BY ConcatProperties
<1>3. DOMAIN both = 1..(m + n)
  BY <1>2, LenProperties
<1> DEFINE a == IdsOf(s)
           b == IdsOf(t)
           c == IdsOf(both)
<1>4. DOMAIN a = 1..m /\ DOMAIN b = 1..n /\ DOMAIN c = 1..(m + n)
  BY <1>1, <1>3 DEF IdsOf
<1>5. \A i \in 1..(m + n) : c[i] = IF i <= m THEN a[i] ELSE b[i - m]
  <2> TAKE i \in 1..(m + n)
  <2>1. CASE i <= m
    <3>1. i \in 1..m
      BY <1>1, <2>1
    <3> QED
      BY <1>1, <1>2, <1>3, <2>1, <3>1 DEF IdsOf
  <2>2. CASE ~(i <= m)
    <3>1. i - m \in 1..n
      BY <1>1, <2>2
    <3> QED
      BY <1>1, <1>2, <1>3, <2>2, <3>1 DEF IdsOf
  <2> QED BY <2>1, <2>2
<1> HIDE DEF m, n, a, b, c
<1>6. /\ \A i \in DOMAIN a : i \in DOMAIN c /\ c[i] = a[i]
      /\ \A j \in DOMAIN b : m + j \in DOMAIN c /\ c[m + j] = b[j]
      /\ \A i \in DOMAIN c : \/ i \in DOMAIN a /\ c[i] = a[i]
                             \/ i - m \in DOMAIN b /\ c[i] = b[i - m] /\ i \notin DOMAIN a
  <2>1. \A j \in DOMAIN b : m + j \in 1..(m + n) /\ ~(m + j <= m) /\ m + j - m = j
    BY <1>1, <1>4
  <2>2. \A j \in DOMAIN b : m + j \in DOMAIN c /\ c[m + j] = b[j]
    <3> TAKE j \in DOMAIN b
    <3>1. m + j \in 1..(m + n) /\ ~(m + j <= m) /\ m + j - m = j
      BY <2>1
    <3>2. c[m + j] = b[m + j - m]
      BY <1>1, <1>4, <1>5, <3>1
    <3> QED BY <1>4, <3>1, <3>2
  <2> QED
    BY <1>1, <1>4, <1>5, <2>2
<1>7. \A x : x \in Image(c) <=> x \in Image(a) \/ x \in Image(b)
  BY <1>6 DEF Image
<1>8. Distinct(a) /\ Distinct(b) /\ Apart(a, b) => Distinct(c)
  <2> SUFFICES ASSUME Distinct(a), Distinct(b), Apart(a, b),
                      NEW i \in DOMAIN c, NEW j \in DOMAIN c, c[i] = c[j]
               PROVE  i = j
    BY DEF Distinct
  <2>1. i \in Int /\ j \in Int
    BY <1>4
  <2>2. CASE i \in DOMAIN a /\ c[i] = a[i]
    <3>1. j \in DOMAIN a /\ c[j] = a[j]
      BY <1>6, <2>2 DEF Apart
    <3> QED BY <2>2, <3>1 DEF Distinct
  <2>3. CASE i - m \in DOMAIN b /\ c[i] = b[i - m] /\ i \notin DOMAIN a
    <3>1. j - m \in DOMAIN b /\ c[j] = b[j - m]
      BY <1>6, <2>3 DEF Apart
    <3>2. i - m = j - m
      BY <2>3, <3>1 DEF Distinct
    <3> QED BY <1>1, <2>1, <3>2
  <2> QED BY <1>6, <2>2, <2>3
<1>9. \A u : Apart(u, a) /\ Apart(u, b) => Apart(u, c)
  BY <1>6 DEF Apart
<1> QED
  BY <1>2, <1>7, <1>8, <1>9 DEF a, b, c, m, n

\* A queue with an element put at its end, and one whose head was taken.
LEMMA PutFacts ==
    ASSUME NEW S, NEW q \in Seq(S), NEW e \in S, NEW longer, longer = Append(q, e)
    PROVE  /\ longer \in Seq(S) /\ Len(q) \in Nat /\ Len(longer) = Len(q) + 1
           /\ DOMAIN q = 1..Len(q) /\ DOMAIN longer = DOMAIN q \cup {Len(q) + 1}
           /\ Len(q) + 1 \notin DOMAIN q
           /\ \A i \in DOMAIN q : longer[i] = q[i]
           /\ longer[Len(q) + 1] = e
<1>1. /\ longer \in Seq(S) /\ Len(longer) = Len(q) + 1
      /\ \A i \in 1..Len(q) : longer[i] = q[i]
      /\ longer[Len(q) + 1] = e
  BY AppendProperties
<1>2. Len(q) \in Nat /\ DOMAIN q = 1..Len(q) /\ DOMAIN longer = 1..(Len(q) + 1)
  BY <1>1, LenProperties
<1> QED
  BY <1>1, <1>2

LEMMA TakeFacts ==
    ASSUME NEW S, NEW q \in Seq(S), q # <<>>, NEW shorter, shorter = Tail(q)
    PROVE  /\ shorter \in Seq(S) /\ Len(q) \in Nat \ {0} /\ Len(shorter) = Len(q) - 1
           /\ DOMAIN q = 1..Len(q) /\ DOMAIN shorter = 1..(Len(q) - 1)
           /\ 1 \in DOMAIN q /\ Head(q) = q[1] /\ Head(q) \in S
           /\ \A i \in DOMAIN shorter : i \in Nat /\ i + 1 \in DOMAIN q \ {1} /\ shorter[i] = q[i + 1]
           /\ \A i \in DOMAIN q : i = 1 \/ (i - 1 \in DOMAIN shorter /\ shorter[i - 1] = q[i])
<1>1. /\ shorter \in Seq(S) /\ Len(shorter) = Len(q) - 1 /\ Head(q) \in S
      /\ \A i \in 1..Len(shorter) : shorter[i] = q[i + 1]
  BY HeadTailProperties
<1>2. Len(q) \in Nat /\ Len(q) # 0 /\ DOMAIN q = 1..Len(q)
  BY LenProperties, EmptySeq
<1>3. DOMAIN shorter = 1..(Len(q) - 1)
  BY <1>1, LenProperties
<1>4. Head(q) = q[1]
  OBVIOUS
<1> QED
  BY <1>1, <1>2, <1>3, <1>4

-----------------------------------------------------------------------------
(* Steps of the graph. *)

LEMMA GraphFacts ==
    ASSUME FlightInv, Live
    PROVE  /\ task.input \in Inputs /\ Ids \subseteq Nat
           /\ loading \in [Loaders -> Seq(Ids)] /\ inputs \in Seq(Seq(Ids))
           /\ model \in [Models -> ModelState] /\ outputs \in Seq(Output) /\ saver \in SaverState
           /\ observed \subseteq Refs /\ dead \subseteq Refs /\ sentinels \in Nat
           /\ Loaders \subseteq Nat \ {0} /\ Loaders # {}
           /\ \A n \in DOMAIN inputs : inputs[n] \in Seq(Ids)
           /\ \A m \in Models : model[m].batch \in Seq(Ids)
                                /\ model[m].step \in {"idle", "busy", "ending", "done"}
           /\ \A p \in DOMAIN outputs : outputs[p].ended \in Models \cup {None}
                                        /\ outputs[p].results \in Seq(InFlightResult)
<1>1. /\ task.input \in Inputs /\ Ids \subseteq Nat
      /\ loading \in [Loaders -> Seq(Ids)] /\ inputs \in Seq(Seq(Ids))
      /\ model \in [Models -> ModelState] /\ outputs \in Seq(Output) /\ saver \in SaverState
      /\ observed \subseteq Refs /\ dead \subseteq Refs /\ sentinels \in Nat
  <2>1. task.input \in Inputs
    BY DEF FlightInv, TypeOK, TaskOK, Live
  <2>2. DOMAIN task.input = 1..Len(task.input) /\ Len(task.input) \in Nat
    BY <2>1, InputFacts
  <2>3. Ids \subseteq Nat
    BY <2>2 DEF Ids
  <2> QED
    BY <2>1, <2>3 DEF FlightInv, TypeOK, GraphOK
<1>2. Loaders \subseteq Nat \ {0} /\ Loaders # {}
  <2>1. NumLoaders \in Nat \ {0} /\ Len(task.input) \in Nat \ {0}
    BY <1>1, InputFacts, RayAssumption DEF RayAssumption
  <2> DEFINE most == Min({NumLoaders, Len(task.input)})
  <2>2. most \in Nat \ {0}
    BY <2>1, MinOfTwo
  <2>3. Loaders = 1..most
    BY DEF Loaders
  <2> HIDE DEF most
  <2>4. 1 \in 1..most /\ 1..most \subseteq Nat \ {0}
    BY <2>2
  <2> QED
    BY <2>3, <2>4
<1>3. \A n \in DOMAIN inputs : inputs[n] \in Seq(Ids)
  BY <1>1, LenProperties, ElementOfSeq
<1>4. \A p \in DOMAIN outputs : outputs[p] \in Output
  BY <1>1, LenProperties, ElementOfSeq
<1> QED
  BY <1>1, <1>2, <1>3, <1>4 DEF ModelState, Output

\* The kinds of actors are told apart.
LEMMA RefFacts ==
    ASSUME FlightInv, Live
    PROVE  /\ \A l \in Loaders : l \notin Models /\ l # SaveWorker
           /\ SaveWorker \notin Models
           /\ \A l \in Loaders : Finished(l) = (loading[l] = <<>>)
           /\ \A m \in Models : Finished(m) = (model[m].step = "done")
           /\ Finished(SaveWorker) = (saver.step = "done")
<1>1. /\ \A l \in Loaders : l \notin Models /\ l # SaveWorker
      /\ SaveWorker \notin Models
  BY GraphFacts, RayAssumption DEF RayAssumption
<1> QED
  BY <1>1 DEF Finished

LEMMA FilesStay ==
    ASSUME FlightInv, Live, Live', UNCHANGED <<files, task>>, dead \subseteq dead'
    PROVE  /\ FilesOK' /\ TaskOK' /\ Bound' /\ TornIsKnown' /\ ResultsBelong' /\ DoneIsStored'
           /\ DemotedIsRetried' /\ CompletedHasResult'
<1>1. UNCHANGED <<progress, manifest, results, task>>
  BY DEF files
<1>2. FilesOK'
  BY <1>1 DEF FlightInv, TypeOK, FilesOK
<1>3. TaskOK'
  BY <1>1 DEF FlightInv, TypeOK, TaskOK, Live, Drivers
<1>4. Bound'
  <2>1. driver' \notin {"reset", "configure", "migrate", "migrated", "configured", "demote", "ready"}
    BY DEF Live
  <2> QED
    BY <1>1, <2>1 DEF FlightInv, Bound
<1>5. TornIsKnown' /\ DemotedIsRetried'
  BY <1>1 DEF FlightInv, TornIsKnown, DemotedIsRetried, Live
<1>6. ResultsBelong' /\ DoneIsStored'
  BY <1>1 DEF FlightInv, ResultsBelong, DoneIsStored
<1>7. CompletedHasResult'
  BY <1>1 DEF FlightInv, CompletedHasResult, Completed, Live
<1> QED
  BY <1>2, <1>3, <1>4, <1>5, <1>6, <1>7

LEMMA AccountsStay ==
    ASSUME FlightInv, Live, Live', UNCHANGED <<files, task>>, dead \subseteq dead', Flying' = Flying
    PROVE  Accounted'
<1>1. UNCHANGED <<progress, manifest, results, task, Ids>>
  BY DEF files, Ids
<1>2. SaveWorker \notin dead' => SaveWorker \notin dead
  OBVIOUS
<1> QED
  BY <1>1, <1>2 DEF FlightInv, Accounted, Agrees

LEMMA StepLoadBatch ==
    ASSUME FlightInv, NEW l \in Loaders, LoadBatch(l) PROVE FlightInv'
<1> DEFINE n == Min({BatchSize, Len(loading[l])})
           head == SubSeq(loading[l], 1, n)
           rest == SubSeq(loading[l], n + 1, Len(loading[l]))
           N == Len(inputs) + 1
<1>1. /\ Live /\ driver' = driver /\ UNCHANGED <<files, task, model, outputs, saver, sentinels, observed, dead>>
      /\ loading[l] # <<>> /\ inputs' = Append(inputs, head)
      /\ loading' = [loading EXCEPT ![l] = rest]
  BY DEF LoadBatch, InGraph, Live
<1>2. Live' /\ Loaders' = Loaders /\ Ids' = Ids /\ InFlightResult' = InFlightResult /\ Refs' = Refs
  BY <1>1 DEF Live, Loaders, Ids, InFlightResult, Refs
<1>3. loading[l] \in Seq(Ids) /\ Len(loading[l]) \in Nat \ {0} /\ n \in 1..Len(loading[l])
  <2>1. loading[l] \in Seq(Ids)
    BY <1>1, GraphFacts
  <2>2. Len(loading[l]) \in Nat /\ Len(loading[l]) # 0
    BY <1>1, <2>1, LenProperties, EmptySeq
  <2>3. BatchSize \in Nat \ {0}
    BY RayAssumption DEF RayAssumption
  <2>4. n \in {BatchSize, Len(loading[l])} /\ n <= Len(loading[l])
    BY <2>2, <2>3, MinOfTwo
  <2> QED
    BY <2>1, <2>2, <2>3, <2>4
<1> HIDE DEF n
<1>4. /\ head \in Seq(Ids) /\ rest \in Seq(Ids) /\ Len(head) = n
      /\ Image(loading[l]) = Image(head) \cup Image(rest)
      /\ Distinct(loading[l]) => Distinct(head) /\ Distinct(rest) /\ Apart(head, rest)
      /\ \A u : Apart(loading[l], u) => Apart(head, u) /\ Apart(rest, u)
  <2>1. n \in 0..Len(loading[l])
    BY <1>3
  <2>2. head = SubSeq(loading[l], 1, n) /\ rest = SubSeq(loading[l], n + 1, Len(loading[l]))
    OBVIOUS
  <2> HIDE DEF head, rest
  <2> DEFINE Parts(s, k, h, r) ==
                 /\ h \in Seq(Ids) /\ r \in Seq(Ids) /\ Len(h) = k
                 /\ Image(s) = Image(h) \cup Image(r)
                 /\ Distinct(s) => Distinct(h) /\ Distinct(r) /\ Apart(h, r)
                 /\ \A u : Apart(s, u) => Apart(h, u) /\ Apart(r, u)
  <2>3. \A s \in Seq(Ids) : \A k \in 0..Len(s) : \A h, r :
           h = SubSeq(s, 1, k) /\ r = SubSeq(s, k + 1, Len(s)) => Parts(s, k, h, r)
    BY SplitFacts, ZenonT(60)
  <2> HIDE DEF Parts
  <2>4. Parts(loading[l], n, head, rest)
    BY <1>3, <2>1, <2>2, <2>3
  <2> QED
    BY <2>4 DEF Parts
<1> HIDE DEF head, rest
<1>5. head # End
  BY <1>3, <1>4, EmptySeq DEF End
<1>6. /\ inputs' \in Seq(Seq(Ids)) /\ DOMAIN inputs' = DOMAIN inputs \cup {N}
      /\ N \notin DOMAIN inputs /\ inputs'[N] = head
      /\ \A i \in DOMAIN inputs : inputs'[i] = inputs[i]
      /\ DOMAIN inputs = 1..Len(inputs) /\ Len(inputs) \in Nat
  <2>1. inputs \in Seq(Seq(Ids))
    BY <1>1, GraphFacts
  <2>2. head \in Seq(Ids) /\ inputs' = Append(inputs, head)
    BY <1>1, <1>4
  <2> QED BY <2>1, <2>2, PutFacts
<1>7. /\ loading' \in [Loaders -> Seq(Ids)] /\ loading'[l] = rest
      /\ \A o \in Loaders \ {l} : loading'[o] = loading[o]
  BY <1>1, <1>4, GraphFacts
<1> HIDE DEF N
<1>8. GraphOK'
  BY <1>1, <1>2, <1>6, <1>7, GraphFacts DEF GraphOK, Output, SaverState, ModelState
<1>9. OnePlace'
  <2>1. LoadingApart /\ InputsApart /\ ModelsApart /\ OutputsApart
    BY <1>1 DEF FlightInv, OnePlace
  <2>2. LoadingApart'
    <3> SUFFICES ASSUME NEW k \in Loaders
        PROVE  /\ Distinct(loading'[k])
               /\ \A o \in Loaders \ {k} : Apart(loading'[k], loading'[o])
               /\ \A i \in DOMAIN inputs' : Apart(loading'[k], inputs'[i])
               /\ \A m \in Models : Apart(loading'[k], model[m].batch)
               /\ \A p \in DOMAIN outputs : Apart(loading'[k], IdsOf(outputs[p].results))
               /\ Apart(loading'[k], IdsOf(saver.buffer))
      BY <1>1, <1>2 DEF LoadingApart
    <3>1. CASE k = l
      BY <1>4, <1>6, <1>7, <2>1, <3>1, ApartIsSymmetric DEF LoadingApart
    <3>2. CASE k # l
      BY <1>4, <1>6, <1>7, <2>1, <3>2, ApartIsSymmetric DEF LoadingApart
    <3> QED BY <3>1, <3>2
  <2>3. InputsApart'
    <3> SUFFICES ASSUME NEW i \in DOMAIN inputs'
        PROVE  /\ Distinct(inputs'[i])
               /\ \A o \in DOMAIN inputs' \ {i} : Apart(inputs'[i], inputs'[o])
               /\ \A m \in Models : Apart(inputs'[i], model[m].batch)
               /\ \A p \in DOMAIN outputs : Apart(inputs'[i], IdsOf(outputs[p].results))
               /\ Apart(inputs'[i], IdsOf(saver.buffer))
      BY <1>1, <1>2 DEF InputsApart
    <3>1. CASE i = N
      BY <1>4, <1>6, <2>1, <3>1 DEF LoadingApart
    <3>2. CASE i # N
      <4>1. i \in DOMAIN inputs /\ inputs'[i] = inputs[i]
        BY <1>6, <3>2
      <4>2. Apart(inputs[i], head)
        BY <1>4, <2>1, <4>1, ApartIsSymmetric DEF LoadingApart
      <4> QED
        BY <1>6, <2>1, <4>1, <4>2 DEF InputsApart
    <3> QED BY <3>1, <3>2
  <2>4. ModelsApart' /\ OutputsApart'
    BY <1>1, <2>1 DEF ModelsApart, OutputsApart
  <2> QED
    BY <1>1, <2>2, <2>3, <2>4 DEF FlightInv, OnePlace
<1>10. Flying' = Flying
  <2>1. \A i : (\E k \in Loaders : i \in Image(loading'[k])) \/ (\E j \in DOMAIN inputs' : i \in Image(inputs'[j]))
            <=> (\E k \in Loaders : i \in Image(loading[k])) \/ (\E j \in DOMAIN inputs : i \in Image(inputs[j]))
    BY <1>4, <1>6, <1>7
  <2> QED
    BY <1>1, <1>2, <2>1 DEF Flying
<1>11. Draining'
  <2>1. l \notin observed
    BY <1>1, RefFacts DEF FlightInv, Draining
  <2>2. \A ref \in observed : Finished(ref)'
    BY <1>1, <1>7, <2>1 DEF FlightInv, Draining, Finished
  <2>3. /\ ~(\E i \in DOMAIN inputs : inputs[i] = End)
        /\ ~(\E m \in Models : model[m].step \in {"ending", "done"})
    BY <1>1, <2>1 DEF FlightInv, Draining
  <2>4. ~(\E i \in DOMAIN inputs' : inputs'[i] = End)
    BY <1>5, <1>6, <2>3
  <2> QED
    BY <1>1, <1>2, <2>2, <2>3, <2>4 DEF FlightInv, Draining
<1>12. MergedIsStored'
  BY <1>1, <1>2 DEF FlightInv, MergedIsStored, files
<1> QED
  BY <1>1, <1>2, <1>8, <1>9, <1>10, <1>11, <1>12, FilesStay, AccountsStay DEF FlightInv, TypeOK

LEMMA StepTakeBatch ==
    ASSUME FlightInv, NEW w \in Models, TakeBatch(w) PROVE FlightInv'
<1> DEFINE batch == Head(inputs)
<1>1. /\ Live /\ driver' = driver /\ UNCHANGED <<files, task, loading, outputs, saver, sentinels, observed, dead>>
      /\ model[w].step = "idle" /\ inputs # <<>> /\ inputs' = Tail(inputs)
      /\ model' = [model EXCEPT ![w] = [step |-> IF batch = End THEN "ending" ELSE "busy",
                                        batch |-> batch]]
  BY DEF TakeBatch, InGraph, Live
<1>2. Live' /\ Loaders' = Loaders /\ Ids' = Ids /\ InFlightResult' = InFlightResult /\ Refs' = Refs
  BY <1>1 DEF Live, Loaders, Ids, InFlightResult, Refs
<1>3. /\ inputs' \in Seq(Seq(Ids)) /\ 1 \in DOMAIN inputs /\ batch = inputs[1] /\ batch \in Seq(Ids)
      /\ \A i \in DOMAIN inputs' : i \in Nat /\ i + 1 \in DOMAIN inputs \ {1} /\ inputs'[i] = inputs[i + 1]
      /\ \A i \in DOMAIN inputs : i = 1 \/ (i - 1 \in DOMAIN inputs' /\ inputs'[i - 1] = inputs[i])
      /\ \A i \in DOMAIN inputs : i \in Nat /\ i >= 1
  <2>1. inputs \in Seq(Seq(Ids))
    BY <1>1, GraphFacts
  <2>2. DOMAIN inputs = 1..Len(inputs) /\ Len(inputs) \in Nat
    BY <2>1, LenProperties
  <2>3. \A i \in DOMAIN inputs : i \in Nat /\ i >= 1
    BY <2>2
  <2> QED
    BY <1>1, <2>1, <2>3, TakeFacts
<1>4. model[w].batch = <<>>
  BY <1>1 DEF FlightInv, Draining
<1> HIDE DEF batch
<1>5. /\ model' \in [Models -> ModelState] /\ model'[w].batch = batch
      /\ model'[w].step = (IF batch = End THEN "ending" ELSE "busy")
      /\ \A m \in Models \ {w} : model'[m] = model[m]
  BY <1>1, <1>2, <1>3, GraphFacts DEF ModelState
<1>6. GraphOK'
  BY <1>1, <1>2, <1>3, <1>5, GraphFacts DEF GraphOK, Output, SaverState, ModelState
<1>7. OnePlace'
  <2>1. LoadingApart /\ InputsApart /\ ModelsApart /\ OutputsApart
    BY <1>1 DEF FlightInv, OnePlace
  <2>2. LoadingApart'
    <3> SUFFICES ASSUME NEW k \in Loaders
        PROVE  /\ Distinct(loading[k])
               /\ \A o \in Loaders \ {k} : Apart(loading[k], loading[o])
               /\ \A i \in DOMAIN inputs' : Apart(loading[k], inputs'[i])
               /\ \A m \in Models : Apart(loading[k], model'[m].batch)
               /\ \A p \in DOMAIN outputs : Apart(loading[k], IdsOf(outputs[p].results))
               /\ Apart(loading[k], IdsOf(saver.buffer))
      BY <1>1, <1>2 DEF LoadingApart
    <3> QED
      BY <1>3, <1>5, <2>1 DEF LoadingApart
  <2>3. InputsApart'
    <3> SUFFICES ASSUME NEW i \in DOMAIN inputs'
        PROVE  /\ Distinct(inputs'[i])
               /\ \A o \in DOMAIN inputs' \ {i} : Apart(inputs'[i], inputs'[o])
               /\ \A m \in Models : Apart(inputs'[i], model'[m].batch)
               /\ \A p \in DOMAIN outputs : Apart(inputs'[i], IdsOf(outputs[p].results))
               /\ Apart(inputs'[i], IdsOf(saver.buffer))
      BY <1>1, <1>2 DEF InputsApart
    <3>1. i + 1 \in DOMAIN inputs /\ i + 1 # 1 /\ inputs'[i] = inputs[i + 1]
      BY <1>3
    <3>2. \A o \in DOMAIN inputs' \ {i} : Apart(inputs'[i], inputs'[o])
      <4> TAKE o \in DOMAIN inputs' \ {i}
      <4>1. o + 1 \in DOMAIN inputs \ {i + 1} /\ inputs'[o] = inputs[o + 1]
        BY <1>3
      <4> QED BY <2>1, <3>1, <4>1 DEF InputsApart
    <3>3. \A m \in Models : Apart(inputs'[i], model'[m].batch)
      BY <1>3, <1>5, <2>1, <3>1 DEF InputsApart
    <3> QED
      BY <2>1, <3>1, <3>2, <3>3 DEF InputsApart
  <2>4. ModelsApart'
    <3> SUFFICES ASSUME NEW m \in Models
        PROVE  /\ Distinct(model'[m].batch)
               /\ \A o \in Models \ {m} : Apart(model'[m].batch, model'[o].batch)
               /\ \A p \in DOMAIN outputs : Apart(model'[m].batch, IdsOf(outputs[p].results))
               /\ Apart(model'[m].batch, IdsOf(saver.buffer))
      BY <1>1, <1>2 DEF ModelsApart
    <3>1. CASE m = w
      BY <1>3, <1>5, <2>1, <3>1 DEF InputsApart
    <3>2. CASE m # w
      <4>1. Apart(model[m].batch, batch)
        BY <1>3, <2>1, ApartIsSymmetric DEF InputsApart
      <4> QED
        BY <1>5, <2>1, <3>2, <4>1 DEF ModelsApart
    <3> QED BY <3>1, <3>2
  <2>5. OutputsApart'
    BY <1>1, <2>1 DEF OutputsApart
  <2> QED
    BY <1>1, <2>2, <2>3, <2>4, <2>5 DEF FlightInv, OnePlace
<1>8. Flying' = Flying
  <2>1. Image(model[w].batch) = {}
    BY <1>4, NothingIsApart
  <2>2. \A i : (\E j \in DOMAIN inputs' : i \in Image(inputs'[j])) \/ (\E m \in Models : i \in Image(model'[m].batch))
            <=> (\E j \in DOMAIN inputs : i \in Image(inputs[j])) \/ (\E m \in Models : i \in Image(model[m].batch))
    <3> TAKE i
    <3>1. (\E j \in DOMAIN inputs : i \in Image(inputs[j])) <=>
             i \in Image(batch) \/ \E j \in DOMAIN inputs' : i \in Image(inputs'[j])
      BY <1>3
    <3>2. (\E m \in Models : i \in Image(model'[m].batch)) <=>
             i \in Image(batch) \/ \E m \in Models : i \in Image(model[m].batch)
      BY <1>5, <2>1
    <3> QED BY <3>1, <3>2
  <2> QED
    BY <1>1, <1>2, <2>2 DEF Flying
<1>9. Draining'
  <2>1. w \notin observed
    BY <1>1, RefFacts DEF FlightInv, Draining
  <2>2. \A ref \in observed : Finished(ref)'
    BY <1>1, <1>5, <2>1 DEF FlightInv, Draining, Finished
  <2>3. \A m \in Models : model'[m].step # "busy" => model'[m].batch = <<>>
    BY <1>1, <1>5 DEF FlightInv, Draining, End
  <2>4. \A i, j \in DOMAIN inputs' : i < j /\ inputs'[i] = End => inputs'[j] = End
    <3> SUFFICES ASSUME NEW i \in DOMAIN inputs', NEW j \in DOMAIN inputs', i < j, inputs'[i] = End
                 PROVE  inputs'[j] = End
      OBVIOUS
    <3>1. i + 1 \in DOMAIN inputs /\ j + 1 \in DOMAIN inputs /\ i + 1 < j + 1
          /\ inputs[i + 1] = End /\ inputs'[j] = inputs[j + 1]
      BY <1>3
    <3> QED
      BY <1>1, <3>1 DEF FlightInv, Draining
  <2>5. (\E i \in DOMAIN inputs' : inputs'[i] = End) \/ (\E m \in Models : model'[m].step \in {"ending", "done"})
          => Loaders \subseteq observed
    <3>1. (\E i \in DOMAIN inputs' : inputs'[i] = End) => \E i \in DOMAIN inputs : inputs[i] = End
      BY <1>3
    <3>2. (\E m \in Models : model'[m].step \in {"ending", "done"}) =>
             (\E i \in DOMAIN inputs : inputs[i] = End) \/ (\E m \in Models : model[m].step \in {"ending", "done"})
      BY <1>3, <1>5
    <3> QED
      BY <1>1, <3>1, <3>2 DEF FlightInv, Draining
  <2>6. (\E m \in Models : model'[m].step \in {"ending", "done"}) => \A i \in DOMAIN inputs' : inputs'[i] = End
    <3> SUFFICES ASSUME \E m \in Models : model'[m].step \in {"ending", "done"}, NEW i \in DOMAIN inputs'
                 PROVE  inputs'[i] = End
      OBVIOUS
    <3>1. i + 1 \in DOMAIN inputs /\ 1 < i + 1 /\ inputs'[i] = inputs[i + 1]
      <4>1. i \in Nat /\ i + 1 \in DOMAIN inputs /\ i + 1 # 1 /\ i + 1 >= 1 /\ inputs'[i] = inputs[i + 1]
        BY <1>3
      <4> QED BY <4>1
    <3>2. CASE inputs[1] = End
      BY <1>1, <1>3, <3>1, <3>2 DEF FlightInv, Draining
    <3>3. CASE inputs[1] # End
      <4>1. \E m \in Models : model[m].step \in {"ending", "done"}
        BY <1>3, <1>5, <3>3
      <4> QED
        BY <1>1, <3>1, <4>1 DEF FlightInv, Draining
    <3> QED BY <3>2, <3>3
  <2>7. model'[w].step # "done" /\ \A m \in Models : model[m].step = "done" => model'[m].step = "done"
    BY <1>1, <1>5
  <2>8. \A p \in DOMAIN outputs' :
          /\ outputs'[p].ended # None =>
                /\ outputs'[p].results = <<>>
                /\ model'[outputs'[p].ended].step = "done" /\ outputs'[p].ended \notin saver'.ended
                /\ \A o \in DOMAIN outputs' \ {p} : outputs'[o].ended # outputs'[p].ended
    <3>1. \A p \in DOMAIN outputs : outputs[p].ended \in Models \cup {None}
      BY <1>1, GraphFacts
    <3> QED
      BY <1>1, <2>7, <3>1 DEF FlightInv, Draining
  <2>9. \A m \in saver'.ended : model'[m].step = "done"
    <3>1. saver.ended \subseteq Models
      BY <1>1, GraphFacts DEF SaverState
    <3> QED
      BY <1>1, <2>7, <3>1 DEF FlightInv, Draining
  <2> QED
    BY <1>1, <1>2, <2>2, <2>3, <2>4, <2>5, <2>6, <2>7, <2>8, <2>9 DEF FlightInv, Draining
<1>10. MergedIsStored'
  BY <1>1, <1>2 DEF FlightInv, MergedIsStored, files
<1> QED
  BY <1>1, <1>2, <1>6, <1>7, <1>8, <1>9, <1>10, FilesStay, AccountsStay DEF FlightInv, TypeOK

LEMMA StepPutResults ==
    ASSUME FlightInv, NEW w \in Models, PutResults(w) PROVE FlightInv'
<1> DEFINE batch == model[w].batch
           N == Len(outputs) + 1
<1>1. /\ Live /\ driver' = driver /\ UNCHANGED <<files, task, loading, inputs, saver, sentinels, observed, dead>>
      /\ model[w].step = "busy" /\ model' = [model EXCEPT ![w] = Idle]
  BY DEF PutResults, InGraph, Live
<1>2. Live' /\ Loaders' = Loaders /\ Ids' = Ids /\ InFlightResult' = InFlightResult /\ Refs' = Refs
  BY <1>1 DEF Live, Loaders, Ids, InFlightResult, Refs
<1>3. batch \in Seq(Ids) /\ DOMAIN batch = 1..Len(batch) /\ Len(batch) \in Nat
      /\ \A j \in DOMAIN batch : batch[j] \in Ids
  <2>1. batch \in Seq(Ids)
    BY <1>1, GraphFacts
  <2> HIDE DEF batch
  <2> QED
    BY <2>1, LenProperties, ElementOfSeq
<1>4. PICK status \in [DOMAIN batch -> {"ok", "bare", "error"}] :
          outputs' = Append(outputs, [ended |-> None, results |-> [j \in DOMAIN batch |->
                        [id |-> batch[j], about |-> task.input[batch[j]], status |-> status[j]]]])
  BY DEF PutResults
<1> HIDE DEF batch
<1> DEFINE rs == [j \in DOMAIN batch |->
                    [id |-> batch[j], about |-> task.input[batch[j]], status |-> status[j]]]
           out == [ended |-> None, results |-> rs]
<1>5. rs \in Seq(InFlightResult) /\ IdsOf(rs) = batch
  <2>1. \A i \in Ids : task.input[i] \in Keys
    BY <1>1, GraphFacts, InputFacts DEF Ids
  <2>2. \A j \in DOMAIN batch : rs[j] \in InFlightResult /\ rs[j].id = batch[j]
    BY <1>3, <1>4, <2>1 DEF InFlightResult
  <2>3. rs \in [1..Len(batch) -> InFlightResult]
    BY <1>3, <2>2
  <2>4. rs \in Seq(InFlightResult)
    BY <1>3, <2>3, IsASeq
  <2>5. DOMAIN rs = DOMAIN batch
    OBVIOUS
  <2> HIDE DEF rs
  <2>6. batch \in [1..Len(batch) -> Ids]
    BY <1>3
  <2>7. IdsOf(rs) = [j \in 1..Len(batch) |-> batch[j]]
    BY <1>3, <2>2, <2>5 DEF IdsOf
  <2> QED
    BY <2>4, <2>6, <2>7
<1>6. out \in Output /\ out.ended = None /\ out.results = rs
  BY <1>5 DEF Output
<1>7. outputs' = Append(outputs, out)
  BY <1>4
<1> HIDE DEF rs, out
<1>8. /\ outputs' \in Seq(Output) /\ Len(outputs) \in Nat
      /\ DOMAIN outputs' = DOMAIN outputs \cup {N} /\ N \notin DOMAIN outputs
      /\ \A p \in DOMAIN outputs : outputs'[p] = outputs[p]
      /\ outputs'[N] = out
  BY <1>1, <1>6, <1>7, GraphFacts, PutFacts
<1> HIDE DEF N
<1>9. /\ model' \in [Models -> ModelState] /\ model'[w].batch = <<>> /\ model'[w].step = "idle"
      /\ \A m \in Models \ {w} : model'[m] = model[m]
  <2>1. <<>> \in Seq(Ids)
    BY EmptySeq
  <2> QED
    BY <1>1, <2>1, GraphFacts DEF ModelState, Idle
<1>10. GraphOK'
  BY <1>1, <1>2, <1>8, <1>9, GraphFacts DEF GraphOK, Output, SaverState, ModelState
<1>11. IdsOf(outputs'[N].results) = batch /\ \A p \in DOMAIN outputs : outputs'[p].results = outputs[p].results
  BY <1>5, <1>6, <1>8
<1>12. \A s : Apart(s, model'[w].batch) /\ Apart(model'[w].batch, s) /\ Distinct(model'[w].batch)
       /\ Image(model'[w].batch) = {}
  BY <1>9, NothingIsApart
<1>13. OnePlace'
  <2>1. LoadingApart /\ InputsApart /\ ModelsApart /\ OutputsApart
    BY <1>1 DEF FlightInv, OnePlace
  <2>2. \A p \in DOMAIN outputs : Apart(batch, IdsOf(outputs[p].results)) /\ Apart(IdsOf(outputs[p].results), batch)
    BY <2>1, ApartIsSymmetric DEF ModelsApart, batch
  <2>3. LoadingApart'
    <3> SUFFICES ASSUME NEW k \in Loaders
        PROVE  /\ Distinct(loading[k])
               /\ \A o \in Loaders \ {k} : Apart(loading[k], loading[o])
               /\ \A i \in DOMAIN inputs : Apart(loading[k], inputs[i])
               /\ \A m \in Models : Apart(loading[k], model'[m].batch)
               /\ \A p \in DOMAIN outputs' : Apart(loading[k], IdsOf(outputs'[p].results))
               /\ Apart(loading[k], IdsOf(saver.buffer))
      BY <1>1, <1>2 DEF LoadingApart
    <3>1. \A m \in Models : Apart(loading[k], model'[m].batch)
      BY <1>9, <1>12, <2>1 DEF LoadingApart
    <3>2. \A p \in DOMAIN outputs' : Apart(loading[k], IdsOf(outputs'[p].results))
      <4>1. Apart(loading[k], batch)
        BY <2>1 DEF LoadingApart, batch
      <4> QED
        BY <1>8, <1>11, <2>1, <4>1 DEF LoadingApart
    <3> QED
      BY <2>1, <3>1, <3>2 DEF LoadingApart
  <2>4. InputsApart'
    <3> SUFFICES ASSUME NEW i \in DOMAIN inputs
        PROVE  /\ Distinct(inputs[i])
               /\ \A o \in DOMAIN inputs \ {i} : Apart(inputs[i], inputs[o])
               /\ \A m \in Models : Apart(inputs[i], model'[m].batch)
               /\ \A p \in DOMAIN outputs' : Apart(inputs[i], IdsOf(outputs'[p].results))
               /\ Apart(inputs[i], IdsOf(saver.buffer))
      BY <1>1, <1>2 DEF InputsApart
    <3>1. \A m \in Models : Apart(inputs[i], model'[m].batch)
      BY <1>9, <1>12, <2>1 DEF InputsApart
    <3>2. \A p \in DOMAIN outputs' : Apart(inputs[i], IdsOf(outputs'[p].results))
      <4>1. Apart(inputs[i], batch)
        BY <2>1 DEF InputsApart, batch
      <4> QED
        BY <1>8, <1>11, <2>1, <4>1 DEF InputsApart
    <3> QED
      BY <2>1, <3>1, <3>2 DEF InputsApart
  <2>5. ModelsApart'
    <3> SUFFICES ASSUME NEW m \in Models
        PROVE  /\ Distinct(model'[m].batch)
               /\ \A o \in Models \ {m} : Apart(model'[m].batch, model'[o].batch)
               /\ \A p \in DOMAIN outputs' : Apart(model'[m].batch, IdsOf(outputs'[p].results))
               /\ Apart(model'[m].batch, IdsOf(saver.buffer))
      BY <1>1, <1>2 DEF ModelsApart
    <3>1. CASE m = w
      BY <1>12, <3>1
    <3>2. CASE m # w
      <4>1. Apart(model[m].batch, batch) /\ model'[m] = model[m]
        BY <1>9, <2>1, <3>2 DEF ModelsApart, batch
      <4>2. \A p \in DOMAIN outputs' : Apart(model'[m].batch, IdsOf(outputs'[p].results))
        BY <1>8, <1>11, <2>1, <4>1 DEF ModelsApart
      <4>3. \A o \in Models \ {m} : Apart(model'[m].batch, model'[o].batch)
        BY <1>9, <1>12, <2>1, <4>1 DEF ModelsApart
      <4> QED
        BY <2>1, <4>1, <4>2, <4>3 DEF ModelsApart
    <3> QED BY <3>1, <3>2
  <2>6. OutputsApart'
    <3> SUFFICES ASSUME NEW p \in DOMAIN outputs'
        PROVE  /\ Distinct(IdsOf(outputs'[p].results))
               /\ \A o \in DOMAIN outputs' \ {p} : Apart(IdsOf(outputs'[p].results), IdsOf(outputs'[o].results))
               /\ Apart(IdsOf(outputs'[p].results), IdsOf(saver.buffer))
      BY <1>1, <1>2 DEF OutputsApart
    <3>1. CASE p = N
      <4>1. Distinct(batch) /\ Apart(batch, IdsOf(saver.buffer))
        BY <2>1 DEF ModelsApart, batch
      <4> QED
        BY <1>8, <1>11, <2>2, <3>1, <4>1
    <3>2. CASE p # N
      BY <1>8, <1>11, <2>1, <2>2, <3>2 DEF OutputsApart
    <3> QED BY <3>1, <3>2
  <2> QED
    BY <1>1, <2>3, <2>4, <2>5, <2>6 DEF FlightInv, OnePlace
<1>14. Flying' = Flying
  <2>1. \A i : (\E p \in DOMAIN outputs' : i \in Image(IdsOf(outputs'[p].results)))
                  \/ (\E m \in Models : i \in Image(model'[m].batch))
            <=> (\E p \in DOMAIN outputs : i \in Image(IdsOf(outputs[p].results)))
                  \/ (\E m \in Models : i \in Image(model[m].batch))
    <3> TAKE i
    <3>1. (\E p \in DOMAIN outputs' : i \in Image(IdsOf(outputs'[p].results))) <=>
             i \in Image(batch) \/ \E p \in DOMAIN outputs : i \in Image(IdsOf(outputs[p].results))
      BY <1>8, <1>11
    <3>2. (\E m \in Models : i \in Image(model[m].batch)) <=>
             i \in Image(batch) \/ \E m \in Models : i \in Image(model'[m].batch)
      <4>1. batch = model[w].batch
        BY DEF batch
      <4> QED BY <1>9, <1>12, <4>1
    <3> QED BY <3>1, <3>2
  <2> QED
    BY <1>1, <1>2, <2>1 DEF Flying
<1>15. Draining'
  <2>1. \A m \in Models : /\ model[m].step = "done" => m # w
                          /\ model'[m].step \in {"ending", "done"} => m # w
                          /\ m # w => model'[m] = model[m]
    BY <1>1, <1>9
  <2>2. \A ref \in observed : Finished(ref)'
    BY <1>1, <2>1 DEF FlightInv, Draining, Finished
  <2>3. \A m \in Models : model'[m].step # "busy" => model'[m].batch = <<>>
    BY <1>1, <1>9 DEF FlightInv, Draining
  <2>4. (\E m \in Models : model'[m].step \in {"ending", "done"}) =>
             \E m \in Models : model[m].step \in {"ending", "done"}
    BY <2>1
  <2>5. \A p \in DOMAIN outputs' :
          /\ outputs'[p].ended # None =>
                /\ outputs'[p].results = <<>>
                /\ model'[outputs'[p].ended].step = "done" /\ outputs'[p].ended \notin saver'.ended
                /\ \A o \in DOMAIN outputs' \ {p} : outputs'[o].ended # outputs'[p].ended
    <3> SUFFICES ASSUME NEW p \in DOMAIN outputs', outputs'[p].ended # None
                 PROVE  /\ outputs'[p].results = <<>>
                        /\ model'[outputs'[p].ended].step = "done" /\ outputs'[p].ended \notin saver'.ended
                        /\ \A o \in DOMAIN outputs' \ {p} : outputs'[o].ended # outputs'[p].ended
      OBVIOUS
    <3>1. p \in DOMAIN outputs /\ outputs'[p] = outputs[p] /\ outputs[p].ended # None
      BY <1>6, <1>8
    <3>2. outputs[p].ended \in Models
      BY <1>1, <3>1, GraphFacts
    <3>3. model'[outputs[p].ended].step = "done" /\ outputs[p].ended \notin saver.ended
          /\ outputs[p].results = <<>>
      BY <1>1, <2>1, <3>1, <3>2 DEF FlightInv, Draining
    <3>4. \A o \in DOMAIN outputs' \ {p} : outputs'[o].ended # outputs'[p].ended
      BY <1>1, <1>6, <1>8, <3>1 DEF FlightInv, Draining
    <3> QED BY <1>1, <3>1, <3>3, <3>4
  <2>6. \A m \in saver'.ended : model'[m].step = "done"
    <3>1. saver.ended \subseteq Models
      BY <1>1, GraphFacts DEF SaverState
    <3> QED
      BY <1>1, <2>1, <3>1 DEF FlightInv, Draining
  <2>7. model'[w].step # "done"
    BY <1>9
  <2> QED
    BY <1>1, <1>2, <2>2, <2>3, <2>4, <2>5, <2>6, <2>7 DEF FlightInv, Draining
<1>16. MergedIsStored'
  BY <1>1, <1>2 DEF FlightInv, MergedIsStored, files
<1> QED
  BY <1>1, <1>2, <1>10, <1>13, <1>14, <1>15, <1>16, FilesStay, AccountsStay DEF FlightInv, TypeOK

\* The end of a model is the last element it puts on the queue, and holds no result.
LEMMA StepPutEnded ==
    ASSUME FlightInv, NEW w \in Models, PutEnded(w) PROVE FlightInv'
<1> DEFINE out == [ended |-> w, results |-> <<>>]
           N == Len(outputs) + 1
<1>1. /\ Live /\ driver' = driver /\ UNCHANGED <<files, task, loading, inputs, saver, sentinels, observed, dead>>
      /\ model[w].step = "ending" /\ outputs' = Append(outputs, out)
      /\ model' = [model EXCEPT ![w].step = "done"]
  BY DEF PutEnded, InGraph, Live
<1>2. Live' /\ Loaders' = Loaders /\ Ids' = Ids /\ InFlightResult' = InFlightResult /\ Refs' = Refs
  BY <1>1 DEF Live, Loaders, Ids, InFlightResult, Refs
<1>3. out \in Output /\ out.ended = w /\ out.results = <<>> /\ w # None
  <2>1. <<>> \in Seq(InFlightResult)
    BY EmptySeq
  <2> QED BY <2>1, NoneFacts DEF Output
<1> HIDE DEF out
<1>4. /\ outputs' \in Seq(Output) /\ Len(outputs) \in Nat /\ Len(outputs') = N
      /\ DOMAIN outputs' = DOMAIN outputs \cup {N} /\ N \notin DOMAIN outputs
      /\ \A p \in DOMAIN outputs : outputs'[p] = outputs[p]
      /\ outputs'[N] = out
  BY <1>1, <1>3, GraphFacts, PutFacts
<1> HIDE DEF N
<1>5. /\ model' \in [Models -> ModelState] /\ model'[w].step = "done"
      /\ \A m \in Models : model'[m].batch = model[m].batch
      /\ \A m \in Models \ {w} : model'[m] = model[m]
  BY <1>1, GraphFacts DEF ModelState
<1>6. GraphOK'
  BY <1>1, <1>2, <1>4, <1>5, GraphFacts DEF GraphOK, Output, SaverState, ModelState
<1>7. /\ DOMAIN IdsOf(out.results) = {}
      /\ \A p \in DOMAIN outputs : outputs'[p].results = outputs[p].results
  BY <1>3, <1>4 DEF IdsOf
<1>8. \A s : Apart(s, IdsOf(out.results)) /\ Apart(IdsOf(out.results), s) /\ Distinct(IdsOf(out.results))
             /\ Image(IdsOf(out.results)) = {}
  BY <1>7, NothingIsApart
<1>9. OnePlace'
  <2>1. LoadingApart /\ InputsApart /\ ModelsApart /\ OutputsApart
    BY <1>1 DEF FlightInv, OnePlace
  <2>2. LoadingApart' /\ InputsApart' /\ ModelsApart'
    BY <1>1, <1>2, <1>4, <1>5, <1>7, <1>8, <2>1 DEF LoadingApart, InputsApart, ModelsApart
  <2>3. OutputsApart'
    BY <1>1, <1>4, <1>7, <1>8, <2>1 DEF OutputsApart
  <2> QED
    BY <1>1, <2>2, <2>3 DEF FlightInv, OnePlace
<1>10. Flying' = Flying
  <2>1. \A i : (\E p \in DOMAIN outputs' : i \in Image(IdsOf(outputs'[p].results))) <=>
               (\E p \in DOMAIN outputs : i \in Image(IdsOf(outputs[p].results)))
    BY <1>4, <1>7, <1>8
  <2> QED
    BY <1>1, <1>2, <1>5, <2>1 DEF Flying
<1>11. Draining'
  <2>1. \A m \in Models : /\ model[m].step = "done" => m # w /\ model'[m].step = "done"
                          /\ model'[m].step = "busy" <=> model[m].step = "busy"
                          /\ model'[m].step \in {"ending", "done"} <=> model[m].step \in {"ending", "done"}
    BY <1>1, <1>5
  <2>2. \A ref \in observed : Finished(ref)'
    BY <1>1, <2>1 DEF FlightInv, Draining, Finished
  <2>3. \A m \in Models : model'[m].step # "busy" => model'[m].batch = <<>>
    BY <1>1, <1>5, <2>1 DEF FlightInv, Draining
  <2>4. (\E m \in Models : model'[m].step \in {"ending", "done"}) =>
             \E m \in Models : model[m].step \in {"ending", "done"}
    BY <2>1
  <2>5. \A m \in saver.ended : model[m].step = "done" /\ m \in Models
    <3>1. saver.ended \subseteq Models
      BY <1>1, GraphFacts DEF SaverState
    <3> QED
      BY <1>1, <3>1 DEF FlightInv, Draining
  <2>6. \A p \in DOMAIN outputs : outputs[p].ended # None =>
           outputs[p].ended \in Models /\ outputs[p].ended # w
    BY <1>1, <2>1, GraphFacts DEF FlightInv, Draining
  <2>7. \A p \in DOMAIN outputs' :
          /\ outputs'[p].ended # None =>
                /\ outputs'[p].results = <<>>
                /\ model'[outputs'[p].ended].step = "done" /\ outputs'[p].ended \notin saver'.ended
                /\ \A o \in DOMAIN outputs' \ {p} : outputs'[o].ended # outputs'[p].ended
    <3> SUFFICES ASSUME NEW p \in DOMAIN outputs', outputs'[p].ended # None
                 PROVE  /\ outputs'[p].results = <<>>
                        /\ model'[outputs'[p].ended].step = "done" /\ outputs'[p].ended \notin saver'.ended
                        /\ \A o \in DOMAIN outputs' \ {p} : outputs'[o].ended # outputs'[p].ended
      OBVIOUS
    <3>1. CASE p = N
      <4>1. outputs'[p].ended = w /\ outputs'[p].results = <<>>
        BY <1>3, <1>4, <3>1
      <4>2. w \notin saver.ended
        BY <2>1, <2>5
      <4>3. \A o \in DOMAIN outputs' \ {p} : outputs'[o].ended # w
        BY <1>3, <1>4, <2>6, <3>1
      <4> QED
        BY <1>1, <1>5, <4>1, <4>2, <4>3
    <3>2. CASE p # N
      <4>1. p \in DOMAIN outputs /\ outputs'[p] = outputs[p] /\ outputs[p].ended # None
        BY <1>4, <3>2
      <4>2. outputs[p].ended \in Models /\ outputs[p].ended # w
        BY <2>6, <4>1
      <4>3. outputs[p].results = <<>> /\ model'[outputs[p].ended].step = "done"
            /\ outputs[p].ended \notin saver.ended
        BY <1>1, <2>1, <4>1, <4>2 DEF FlightInv, Draining
      <4>4. \A o \in DOMAIN outputs' \ {p} : outputs'[o].ended # outputs'[p].ended
        BY <1>1, <1>3, <1>4, <4>1, <4>2 DEF FlightInv, Draining
      <4> QED BY <1>1, <4>1, <4>3, <4>4
    <3> QED BY <3>1, <3>2
  <2>8. \A m \in saver'.ended : model'[m].step = "done"
    BY <1>1, <2>1, <2>5
  <2>9. outputs'[Len(outputs')].ended # None
    BY <1>3, <1>4
  <2> QED
    BY <1>1, <1>2, <2>2, <2>3, <2>4, <2>7, <2>8, <2>9 DEF FlightInv, Draining
<1>12. MergedIsStored'
  BY <1>1, <1>2 DEF FlightInv, MergedIsStored, files
<1> QED
  BY <1>1, <1>2, <1>6, <1>9, <1>10, <1>11, <1>12, FilesStay, AccountsStay DEF FlightInv, TypeOK

\* What is on the queue of results after its head was taken.
LEMMA TakenResults ==
    ASSUME FlightInv, Live, outputs # <<>>, outputs' = Tail(outputs)
    PROVE  /\ outputs' \in Seq(Output) /\ 1 \in DOMAIN outputs /\ Head(outputs) = outputs[1]
           /\ Head(outputs).ended \in Models \cup {None} /\ Head(outputs).results \in Seq(InFlightResult)
           /\ \A p \in DOMAIN outputs' : p + 1 \in DOMAIN outputs \ {1} /\ outputs'[p] = outputs[p + 1]
           /\ \A p \in DOMAIN outputs : p = 1 \/ (p - 1 \in DOMAIN outputs' /\ outputs'[p - 1] = outputs[p])
           /\ \A p, o \in DOMAIN outputs' : p # o => p + 1 # o + 1
           /\ outputs' # <<>> => outputs'[Len(outputs')] = outputs[Len(outputs)]
<1>1. outputs \in Seq(Output)
  BY GraphFacts
<1>2. /\ outputs' \in Seq(Output) /\ Len(outputs) \in Nat \ {0} /\ Len(outputs') = Len(outputs) - 1
      /\ DOMAIN outputs = 1..Len(outputs) /\ DOMAIN outputs' = 1..(Len(outputs) - 1)
      /\ 1 \in DOMAIN outputs /\ Head(outputs) = outputs[1] /\ Head(outputs) \in Output
      /\ \A i \in DOMAIN outputs' : i \in Nat /\ i + 1 \in DOMAIN outputs \ {1} /\ outputs'[i] = outputs[i + 1]
      /\ \A i \in DOMAIN outputs : i = 1 \/ (i - 1 \in DOMAIN outputs' /\ outputs'[i - 1] = outputs[i])
  BY <1>1, TakeFacts
<1>3. \A p, o \in DOMAIN outputs' : p # o => p + 1 # o + 1
  BY <1>2
<1>4. ASSUME outputs' # <<>> PROVE outputs'[Len(outputs')] = outputs[Len(outputs)]
  <2>1. Len(outputs') # 0
    BY <1>2, <1>4, EmptySeq
  <2>2. Len(outputs') \in DOMAIN outputs' /\ Len(outputs') + 1 = Len(outputs)
    BY <1>2, <2>1
  <2> QED
    BY <1>2, <2>2
<1> QED
  BY <1>2, <1>3, <1>4 DEF Output

\* The places but the queue of results and the buffer keep what they have; with the buffer
\* having what was taken, the ids stay apart and none is lost.
LEMMA TakenStaysApart ==
    ASSUME FlightInv, Live, Live', outputs # <<>>, outputs' = Tail(outputs),
           UNCHANGED <<task, loading, inputs, model>>,
           saver'.buffer = saver.buffer \o Head(outputs).results
    PROVE  OnePlace' /\ Flying' = Flying /\ saver'.buffer \in Seq(InFlightResult)
<1> DEFINE taken == Head(outputs).results
<1>1. Loaders' = Loaders /\ Ids' = Ids
  BY DEF Loaders, Ids
<1>2. /\ outputs' \in Seq(Output) /\ 1 \in DOMAIN outputs /\ taken = outputs[1].results
      /\ taken \in Seq(InFlightResult)
      /\ \A p \in DOMAIN outputs' : p + 1 \in DOMAIN outputs \ {1} /\ outputs'[p] = outputs[p + 1]
      /\ \A p \in DOMAIN outputs : p = 1 \/ (p - 1 \in DOMAIN outputs' /\ outputs'[p - 1] = outputs[p])
      /\ \A p, o \in DOMAIN outputs' : p # o => p + 1 # o + 1
  BY TakenResults
<1>3. saver.buffer \in Seq(InFlightResult)
  BY BufferFacts
<1>4. saver'.buffer = saver.buffer \o taken
  OBVIOUS
<1> HIDE DEF taken
<1>5. /\ saver'.buffer \in Seq(InFlightResult)
      /\ \A x : x \in Image(IdsOf(saver'.buffer)) <=> x \in Image(IdsOf(saver.buffer)) \/ x \in Image(IdsOf(taken))
      /\ Distinct(IdsOf(saver.buffer)) /\ Distinct(IdsOf(taken)) /\ Apart(IdsOf(saver.buffer), IdsOf(taken))
            => Distinct(IdsOf(saver'.buffer))
      /\ \A u : Apart(u, IdsOf(saver.buffer)) /\ Apart(u, IdsOf(taken)) => Apart(u, IdsOf(saver'.buffer))
  <2> DEFINE Joined(s, t, both) ==
                /\ both \in Seq(InFlightResult)
                /\ \A x : x \in Image(IdsOf(both)) <=> x \in Image(IdsOf(s)) \/ x \in Image(IdsOf(t))
                /\ Distinct(IdsOf(s)) /\ Distinct(IdsOf(t)) /\ Apart(IdsOf(s), IdsOf(t)) => Distinct(IdsOf(both))
                /\ \A u : Apart(u, IdsOf(s)) /\ Apart(u, IdsOf(t)) => Apart(u, IdsOf(both))
  <2>1. ASSUME NEW s \in Seq(InFlightResult), NEW t \in Seq(InFlightResult), NEW both, both = s \o t
        PROVE  Joined(s, t, both)
    BY <2>1, JoinFacts
  <2> HIDE DEF Joined
  <2>2. Joined(saver.buffer, taken, saver'.buffer)
    BY <1>2, <1>3, <1>4, <2>1
  <2> QED
    BY <2>2 DEF Joined
<1>6. LoadingApart /\ InputsApart /\ ModelsApart /\ OutputsApart /\ Distinct(IdsOf(saver.buffer))
  BY DEF FlightInv, OnePlace
<1>7. LoadingApart'
  <2> SUFFICES ASSUME NEW k \in Loaders
      PROVE  /\ Distinct(loading[k])
             /\ \A o \in Loaders \ {k} : Apart(loading[k], loading[o])
             /\ \A i \in DOMAIN inputs : Apart(loading[k], inputs[i])
             /\ \A m \in Models : Apart(loading[k], model[m].batch)
             /\ \A p \in DOMAIN outputs' : Apart(loading[k], IdsOf(outputs'[p].results))
             /\ Apart(loading[k], IdsOf(saver'.buffer))
    BY <1>1 DEF LoadingApart
  <2> QED
    BY <1>2, <1>5, <1>6 DEF LoadingApart
<1>8. InputsApart'
  <2> SUFFICES ASSUME NEW i \in DOMAIN inputs
      PROVE  /\ Distinct(inputs[i])
             /\ \A o \in DOMAIN inputs \ {i} : Apart(inputs[i], inputs[o])
             /\ \A m \in Models : Apart(inputs[i], model[m].batch)
             /\ \A p \in DOMAIN outputs' : Apart(inputs[i], IdsOf(outputs'[p].results))
             /\ Apart(inputs[i], IdsOf(saver'.buffer))
    BY DEF InputsApart
  <2> QED
    BY <1>2, <1>5, <1>6 DEF InputsApart
<1>9. ModelsApart'
  <2> SUFFICES ASSUME NEW m \in Models
      PROVE  /\ Distinct(model[m].batch)
             /\ \A o \in Models \ {m} : Apart(model[m].batch, model[o].batch)
             /\ \A p \in DOMAIN outputs' : Apart(model[m].batch, IdsOf(outputs'[p].results))
             /\ Apart(model[m].batch, IdsOf(saver'.buffer))
    BY DEF ModelsApart
  <2> QED
    BY <1>2, <1>5, <1>6 DEF ModelsApart
<1>10. OutputsApart'
  <2> SUFFICES ASSUME NEW p \in DOMAIN outputs'
      PROVE  /\ Distinct(IdsOf(outputs'[p].results))
             /\ \A o \in DOMAIN outputs' \ {p} : Apart(IdsOf(outputs'[p].results), IdsOf(outputs'[o].results))
             /\ Apart(IdsOf(outputs'[p].results), IdsOf(saver'.buffer))
    BY DEF OutputsApart
  <2>1. p + 1 \in DOMAIN outputs /\ p + 1 # 1 /\ outputs'[p] = outputs[p + 1]
    BY <1>2
  <2>2. \A o \in DOMAIN outputs' \ {p} : Apart(IdsOf(outputs'[p].results), IdsOf(outputs'[o].results))
    <3> TAKE o \in DOMAIN outputs' \ {p}
    <3>1. o + 1 \in DOMAIN outputs \ {p + 1} /\ outputs'[o] = outputs[o + 1]
      BY <1>2
    <3> QED BY <1>6, <2>1, <3>1 DEF OutputsApart
  <2>3. Apart(IdsOf(outputs[p + 1].results), IdsOf(taken))
    BY <1>2, <1>6, <2>1 DEF OutputsApart
  <2> QED
    BY <1>5, <1>6, <2>1, <2>2, <2>3 DEF OutputsApart
<1>11. Distinct(IdsOf(saver'.buffer))
  <2>1. Distinct(IdsOf(taken)) /\ Apart(IdsOf(taken), IdsOf(saver.buffer))
    BY <1>2, <1>6 DEF OutputsApart
  <2> QED
    BY <1>5, <1>6, <2>1, ApartIsSymmetric
<1>12. Flying' = Flying
  <2>1. \A i : (\E p \in DOMAIN outputs : i \in Image(IdsOf(outputs[p].results))) <=>
               i \in Image(IdsOf(taken)) \/ \E p \in DOMAIN outputs' : i \in Image(IdsOf(outputs'[p].results))
    BY <1>2
  <2> QED
    BY <1>1, <1>5, <2>1 DEF Flying
<1> QED
  BY <1>5, <1>7, <1>8, <1>9, <1>10, <1>11, <1>12 DEF OnePlace

LEMMA StepGetResult ==
    ASSUME FlightInv, GetResult PROVE FlightInv'
<1> DEFINE head == Head(outputs)
<1>1. /\ Live /\ driver' = driver /\ UNCHANGED <<files, task, loading, inputs, model, sentinels, observed, dead>>
      /\ saver.step = "get" /\ outputs # <<>> /\ outputs' = Tail(outputs) /\ SaveWorker \notin dead
  BY DEF GetResult, Saving, InGraph, Live
<1>2. Live' /\ Loaders' = Loaders /\ Ids' = Ids /\ InFlightResult' = InFlightResult /\ Refs' = Refs
  BY <1>1 DEF Live, Loaders, Ids, InFlightResult, Refs
<1>3. /\ outputs' \in Seq(Output) /\ 1 \in DOMAIN outputs /\ head = outputs[1]
      /\ head.ended \in Models \cup {None} /\ head.results \in Seq(InFlightResult)
      /\ \A p \in DOMAIN outputs' : p + 1 \in DOMAIN outputs \ {1} /\ outputs'[p] = outputs[p + 1]
      /\ \A p, o \in DOMAIN outputs' : p # o => p + 1 # o + 1
      /\ outputs' # <<>> => outputs'[Len(outputs')] = outputs[Len(outputs)]
  BY <1>1, TakenResults
<1>4. saver \in SaverState /\ saver.buffer \in Seq(InFlightResult)
  BY <1>1, BufferFacts
<1>5. \/ /\ head.ended # None
         /\ saver' = [saver EXCEPT !.ended = saver.ended \cup {head.ended},
                         !.step = IF saver.ended \cup {head.ended} # Models THEN "get"
                                  ELSE IF saver.buffer = <<>> THEN "done" ELSE "merge"]
      \/ /\ head.ended = None
         /\ \E step \in {"merge", "get"} :
               saver' = [saver EXCEPT !.buffer = saver.buffer \o head.results, !.step = step]
  BY DEF GetResult
<1> HIDE DEF head
<1>6. saver'.buffer = saver.buffer \o head.results
  <2>1. CASE head.ended # None
    <3>1. head.results = <<>>
      BY <1>1, <1>3, <2>1 DEF FlightInv, Draining
    <3>2. saver'.buffer = saver.buffer
      BY <1>4, <1>5, <2>1 DEF SaverState
    <3> QED
      BY <1>4, <3>1, <3>2, ConcatEmptySeq
  <2>2. CASE head.ended = None
    BY <1>4, <1>5, <2>2 DEF SaverState
  <2> QED BY <2>1, <2>2
<1>7. /\ saver'.map = saver.map /\ saver'.step \in {"get", "merge", "done"}
      /\ saver'.ended = IF head.ended = None THEN saver.ended ELSE saver.ended \cup {head.ended}
      /\ saver'.step = "get" => saver'.ended # Models \/ head.ended = None
      /\ saver'.step = "done" => saver'.ended = Models /\ saver'.buffer = <<>>
      /\ saver' = [step |-> saver'.step, ended |-> saver'.ended, map |-> saver'.map, buffer |-> saver'.buffer]
  BY <1>4, <1>5 DEF SaverState
<1>8. OnePlace' /\ Flying' = Flying /\ saver'.buffer \in Seq(InFlightResult)
  BY <1>1, <1>2, <1>6, TakenStaysApart DEF head
<1>9. GraphOK'
  <2>1. saver' \in SaverState
    <3>1. saver'.ended \in SUBSET Models /\ saver'.map \in {task.input}
      BY <1>3, <1>4, <1>7 DEF SaverState
    <3> QED
      BY <1>7, <1>8, <3>1 DEF SaverState
  <2> QED
    BY <1>1, <1>2, <1>3, <2>1, GraphFacts DEF GraphOK, Output, SaverState, ModelState
<1>10. Draining'
  <2>1. \A ref \in observed : Finished(ref)'
    BY <1>1 DEF FlightInv, Draining, Finished
  <2>2. \A p \in DOMAIN outputs' :
          /\ outputs'[p].ended # None =>
                /\ outputs'[p].results = <<>>
                /\ model[outputs'[p].ended].step = "done" /\ outputs'[p].ended \notin saver'.ended
                /\ \A o \in DOMAIN outputs' \ {p} : outputs'[o].ended # outputs'[p].ended
    <3> SUFFICES ASSUME NEW p \in DOMAIN outputs', outputs'[p].ended # None
                 PROVE  /\ outputs'[p].results = <<>>
                        /\ model[outputs'[p].ended].step = "done" /\ outputs'[p].ended \notin saver'.ended
                        /\ \A o \in DOMAIN outputs' \ {p} : outputs'[o].ended # outputs'[p].ended
      OBVIOUS
    <3>1. p + 1 \in DOMAIN outputs /\ p + 1 # 1 /\ outputs'[p] = outputs[p + 1]
      BY <1>3
    <3>2. /\ outputs[p + 1].results = <<>>
          /\ model[outputs[p + 1].ended].step = "done" /\ outputs[p + 1].ended \notin saver.ended
          /\ \A o \in DOMAIN outputs \ {p + 1} : outputs[o].ended # outputs[p + 1].ended
      BY <1>1, <3>1 DEF FlightInv, Draining
    <3>3. head.ended # outputs[p + 1].ended
      BY <1>3, <3>1, <3>2
    <3>4. \A o \in DOMAIN outputs' \ {p} : outputs'[o].ended # outputs'[p].ended
      <4> TAKE o \in DOMAIN outputs' \ {p}
      <4>1. o + 1 \in DOMAIN outputs \ {p + 1} /\ outputs'[o] = outputs[o + 1]
        BY <1>3
      <4> QED BY <3>1, <3>2, <4>1
    <3> QED
      BY <1>7, <3>1, <3>2, <3>3, <3>4
  <2>3. \A m \in saver'.ended : model[m].step = "done"
    <3>1. head.ended # None => model[head.ended].step = "done"
      BY <1>1, <1>3 DEF FlightInv, Draining
    <3> QED
      BY <1>1, <1>7, <3>1 DEF FlightInv, Draining
  <2>4. outputs' # <<>> /\ (\A m \in Models : model[m].step = "done") => outputs'[Len(outputs')].ended # None
    BY <1>1, <1>3 DEF FlightInv, Draining
  <2>5. saver'.step = "get" => saver'.ended # Models
    BY <1>1, <1>7 DEF FlightInv, Draining
  <2>6. /\ \A m \in Models : model[m].step # "busy" => model[m].batch = <<>>
        /\ \A i, j \in DOMAIN inputs : i < j /\ inputs[i] = End => inputs[j] = End
        /\ (\E i \in DOMAIN inputs : inputs[i] = End) \/ (\E m \in Models : model[m].step \in {"ending", "done"})
              => Loaders \subseteq observed
        /\ (\E m \in Models : model[m].step \in {"ending", "done"}) => \A i \in DOMAIN inputs : inputs[i] = End
        /\ driver \in {"published", "refused"} => observed = Refs
    BY <1>1 DEF FlightInv, Draining
  <2> QED
    BY <1>1, <1>2, <1>7, <2>1, <2>2, <2>3, <2>4, <2>5, <2>6 DEF Draining
<1>11. MergedIsStored'
  BY <1>7 DEF MergedIsStored
<1> QED
  BY <1>1, <1>2, <1>8, <1>9, <1>10, <1>11, FilesStay, AccountsStay DEF FlightInv, TypeOK

-----------------------------------------------------------------------------
(* The supervisor. *)

LEMMA StepSendEnd ==
    ASSUME FlightInv, SendEnd PROVE FlightInv'
<1> DEFINE N == Len(inputs) + 1
<1>1. /\ Live /\ driver' = driver /\ UNCHANGED <<files, task, loading, model, outputs, saver, observed, dead>>
      /\ Loaders \subseteq observed /\ sentinels > 0
      /\ inputs' = Append(inputs, End) /\ sentinels' = sentinels - 1
  BY DEF SendEnd, Live
<1>2. Live' /\ Loaders' = Loaders /\ Ids' = Ids /\ InFlightResult' = InFlightResult /\ Refs' = Refs
  BY <1>1 DEF Live, Loaders, Ids, InFlightResult, Refs
<1>3. End \in Seq(Ids) /\ DOMAIN End = {}
  BY EmptySeq DEF End
<1>4. /\ inputs' \in Seq(Seq(Ids)) /\ DOMAIN inputs' = DOMAIN inputs \cup {N}
      /\ N \notin DOMAIN inputs /\ inputs'[N] = End
      /\ \A i \in DOMAIN inputs : inputs'[i] = inputs[i]
      /\ DOMAIN inputs = 1..Len(inputs) /\ Len(inputs) \in Nat
  <2>1. inputs \in Seq(Seq(Ids))
    BY <1>1, GraphFacts
  <2>2. End \in Seq(Ids) /\ inputs' = Append(inputs, End)
    BY <1>1, <1>3
  <2> QED BY <2>1, <2>2, PutFacts
<1>5. \A i \in DOMAIN inputs : ~(N < i)
  BY <1>4
<1> HIDE DEF N
<1>6. GraphOK'
  <2>1. sentinels' \in Nat
    BY <1>1, GraphFacts
  <2> QED
    BY <1>1, <1>2, <1>4, <2>1, GraphFacts DEF GraphOK, Output, SaverState, ModelState
<1>7. \A s : Apart(s, End) /\ Apart(End, s) /\ Distinct(End) /\ Image(End) = {}
  BY <1>3, NothingIsApart
<1>8. OnePlace'
  <2>1. LoadingApart /\ InputsApart /\ ModelsApart /\ OutputsApart
    BY <1>1 DEF FlightInv, OnePlace
  <2>2. LoadingApart' /\ ModelsApart' /\ OutputsApart'
    BY <1>1, <1>2, <1>4, <1>7, <2>1 DEF LoadingApart, ModelsApart, OutputsApart
  <2>3. InputsApart'
    <3> SUFFICES ASSUME NEW n \in DOMAIN inputs'
                 PROVE  /\ Distinct(inputs'[n])
                        /\ \A o \in DOMAIN inputs' \ {n} : Apart(inputs'[n], inputs'[o])
                        /\ \A m \in Models : Apart(inputs'[n], model[m].batch)
                        /\ \A p \in DOMAIN outputs : Apart(inputs'[n], IdsOf(outputs[p].results))
                        /\ Apart(inputs'[n], IdsOf(saver.buffer))
      BY <1>1 DEF InputsApart
    <3>1. CASE n = N
      BY <1>4, <1>7, <3>1
    <3>2. CASE n \in DOMAIN inputs
      <4>1. inputs'[n] = inputs[n]
        BY <1>4, <3>2
      <4>2. \A o \in DOMAIN inputs' \ {n} : Apart(inputs[n], inputs'[o])
        BY <1>4, <1>7, <2>1, <3>2 DEF InputsApart
      <4> QED BY <2>1, <3>2, <4>1, <4>2 DEF InputsApart
    <3> QED BY <1>4, <3>1, <3>2
  <2> QED
    BY <1>1, <2>2, <2>3 DEF FlightInv, OnePlace
<1>9. Flying' = Flying
  <2>1. \A i : (\E j \in DOMAIN inputs' : i \in Image(inputs'[j])) <=> (\E j \in DOMAIN inputs : i \in Image(inputs[j]))
    BY <1>4, <1>7
  <2> QED
    BY <1>1, <1>2, <2>1 DEF Flying
<1>10. Draining'
  <2>1. \A ref \in observed : Finished(ref)'
    BY <1>1 DEF FlightInv, Draining, Finished
  <2>2. \A i, j \in DOMAIN inputs' : i < j /\ inputs'[i] = End => inputs'[j] = End
    <3> SUFFICES ASSUME NEW i \in DOMAIN inputs', NEW j \in DOMAIN inputs', i < j, inputs'[i] = End
                 PROVE  inputs'[j] = End
      OBVIOUS
    <3>1. CASE j = N
      BY <1>4, <3>1
    <3>2. CASE j # N
      <4>1. i \in DOMAIN inputs /\ j \in DOMAIN inputs
        BY <1>4, <1>5, <3>2
      <4> QED
        BY <1>1, <1>4, <4>1 DEF FlightInv, Draining
    <3> QED BY <3>1, <3>2
  <2>3. (\E m \in Models : model[m].step \in {"ending", "done"}) => \A i \in DOMAIN inputs' : inputs'[i] = End
    BY <1>1, <1>4 DEF FlightInv, Draining
  <2> QED
    BY <1>1, <1>2, <2>1, <2>2, <2>3 DEF FlightInv, Draining
<1>11. MergedIsStored'
  BY <1>1, <1>2 DEF FlightInv, MergedIsStored, files
<1> QED
  BY <1>1, <1>2, <1>6, <1>8, <1>9, <1>10, <1>11, FilesStay, AccountsStay DEF FlightInv, TypeOK

\* The supervisor gets only the results of actors that have finished, and goes on to
\* publish when it has all of them.
LEMMA StepSupervise ==
    ASSUME FlightInv, (\E ref \in Refs : Observe(ref)) \/ ObserveDeath \/ Publish PROVE FlightInv'
<1>1. /\ Live /\ Live'
      /\ UNCHANGED <<files, task, loading, inputs, model, outputs, saver, sentinels, dead>>
  BY DEF Observe, ObserveDeath, Publish, Live, graph
<1>2. Loaders' = Loaders /\ Ids' = Ids /\ InFlightResult' = InFlightResult /\ Refs' = Refs
  BY <1>1 DEF Loaders, Ids, InFlightResult, Refs
<1>3. /\ observed \subseteq observed' /\ observed' \subseteq Refs
      /\ \A ref \in observed' : Finished(ref)
      /\ driver' \in {"published", "refused"} => observed' = Refs
  <2>1. observed \subseteq Refs /\ (\A ref \in observed : Finished(ref))
        /\ (driver \in {"published", "refused"} => observed = Refs)
    BY <1>1, GraphFacts DEF FlightInv, Draining
  <2>2. CASE \E ref \in Refs : Observe(ref)
    <3>1. PICK ref \in Refs : Observe(ref)
      BY <2>2
    <3>2. Finished(ref) /\ driver' \notin {"published", "refused"}
          /\ (observed' = observed \/ observed' = observed \cup {ref})
      BY <3>1 DEF Observe
    <3> QED BY <2>1, <3>1, <3>2
  <2>3. CASE ObserveDeath
    BY <2>1, <2>3 DEF ObserveDeath, graph
  <2>4. CASE Publish
    BY <2>1, <2>4 DEF Publish, graph
  <2> QED BY <2>2, <2>3, <2>4
<1>4. GraphOK'
  BY <1>1, <1>2, <1>3, GraphFacts DEF GraphOK, Output, SaverState, ModelState
<1>5. OnePlace'
  <2>1. LoadingApart' /\ InputsApart' /\ ModelsApart' /\ OutputsApart'
    BY <1>1, <1>2 DEF FlightInv, OnePlace, LoadingApart, InputsApart, ModelsApart, OutputsApart
  <2> QED
    BY <1>1, <2>1 DEF FlightInv, OnePlace
<1>6. Flying' = Flying
  BY <1>1, <1>2 DEF Flying
<1>7. Draining'
  <2>1. \A ref \in observed' : Finished(ref)'
    BY <1>1, <1>3 DEF Finished
  <2> QED
    BY <1>1, <1>2, <1>3, <2>1 DEF FlightInv, Draining
<1>8. MergedIsStored'
  BY <1>1, <1>2 DEF FlightInv, MergedIsStored, files
<1> QED
  BY <1>1, <1>2, <1>4, <1>5, <1>6, <1>7, <1>8, FilesStay, AccountsStay DEF FlightInv, TypeOK

-----------------------------------------------------------------------------
(* The two writes of a flush, and a death in the second. *)

\* A merge stores the result of each task of the buffer, and leaves the others.
LEMMA MergeFacts ==
    ASSUME FlightInv, Live, MergeResults
    PROVE  /\ \A j \in DOMAIN saver.buffer :
                 results'[task.input[saver.buffer[j].id]] =
                     [about |-> saver.buffer[j].about, status |-> saver.buffer[j].status]
           /\ \A k \in Keys : (\A j \in DOMAIN saver.buffer : task.input[saver.buffer[j].id] # k)
                                  => results'[k] = results[k]
           /\ results' \in [Keys -> Result \cup {None}]
           /\ \A k \in Keys : results[k] # None => results'[k] # None
           /\ ResultsBelong'
<1> DEFINE merged == {saver.map[r.id] : r \in Image(saver.buffer)}
           Of(k) == CHOOSE r \in Image(saver.buffer) : saver.map[r.id] = k
           new == [k \in merged |-> [about |-> Of(k).about, status |-> Of(k).status]]
<1>1. results' = Merged(results, new)
  BY DEF MergeResults
<1>2. \A k \in Keys : results'[k] = IF k \in merged THEN [about |-> Of(k).about, status |-> Of(k).status]
                                                   ELSE results[k]
  BY <1>1 DEF Merged
<1>3. results' = [k \in Keys |-> results'[k]]
  BY <1>1 DEF Merged
<1>4. merged = {task.input[saver.buffer[j].id] : j \in DOMAIN saver.buffer}
  BY BufferFacts DEF Image
<1>5. ASSUME NEW j \in DOMAIN saver.buffer
      PROVE  Of(task.input[saver.buffer[j].id]) = saver.buffer[j]
  <2> DEFINE k == task.input[saver.buffer[j].id]
  <2>1. saver.buffer[j] \in Image(saver.buffer) /\ saver.map[saver.buffer[j].id] = k
    BY BufferFacts DEF Image
  <2>2. ASSUME NEW r \in Image(saver.buffer), saver.map[r.id] = k PROVE r = saver.buffer[j]
    <3>1. PICK o \in DOMAIN saver.buffer : saver.buffer[o] = r
      BY DEF Image
    <3>2. saver.buffer[o].id \in Ids /\ saver.buffer[j].id \in Ids
          /\ task.input[saver.buffer[o].id] = task.input[saver.buffer[j].id]
      BY <2>2, <3>1, BufferFacts
    <3>3. saver.buffer[o].id = saver.buffer[j].id
      BY <3>2, BufferFacts, InputFacts DEF Ids
    <3> QED
      BY <3>1, <3>3, BufferFacts
  <2> HIDE DEF k
  <2>3. Of(k) = saver.buffer[j]
    BY <2>1, <2>2
  <2> QED
    BY <2>3 DEF k
<1> HIDE DEF Of
<1>6. ASSUME NEW j \in DOMAIN saver.buffer
      PROVE  results'[task.input[saver.buffer[j].id]] =
                 [about |-> saver.buffer[j].about, status |-> saver.buffer[j].status]
  <2>1. task.input[saver.buffer[j].id] \in merged /\ task.input[saver.buffer[j].id] \in Keys
    BY <1>4, BufferFacts
  <2> QED
    BY <1>2, <1>5, <2>1
<1>7. ASSUME NEW k \in Keys, \A j \in DOMAIN saver.buffer : task.input[saver.buffer[j].id] # k
      PROVE  results'[k] = results[k]
  BY <1>2, <1>4, <1>7
<1>8. ASSUME NEW j \in DOMAIN saver.buffer
      PROVE  /\ results'[task.input[saver.buffer[j].id]] \in Result
             /\ results'[task.input[saver.buffer[j].id]].about = task.input[saver.buffer[j].id]
  <2>1. saver.buffer[j].about = task.input[saver.buffer[j].id] /\ task.input[saver.buffer[j].id] \in Keys
        /\ saver.buffer[j].status \in {"ok", "bare", "error"}
    BY BufferFacts
  <2>2. results'[task.input[saver.buffer[j].id]] =
                 [about |-> saver.buffer[j].about, status |-> saver.buffer[j].status]
    BY <1>6
  <2>3. [about |-> saver.buffer[j].about, status |-> saver.buffer[j].status] \in Result
    BY <2>1 DEF Result
  <2> QED
    BY <2>1, <2>2, <2>3
<1>9. ASSUME NEW k \in Keys
      PROVE  /\ results'[k] \in Result \cup {None}
             /\ results[k] # None => results'[k] # None
             /\ results'[k] # None => results'[k].about = k
  <2>1. CASE \E j \in DOMAIN saver.buffer : task.input[saver.buffer[j].id] = k
    BY <1>8, <2>1, NoneFacts
  <2>2. CASE \A j \in DOMAIN saver.buffer : task.input[saver.buffer[j].id] # k
    BY <1>7, <2>2 DEF FlightInv, TypeOK, FilesOK, ResultsBelong
  <2> QED BY <2>1, <2>2
<1>10. results' \in [Keys -> Result \cup {None}]
  BY <1>3, <1>9
<1> QED
  BY <1>6, <1>7, <1>9, <1>10 DEF ResultsBelong

\* The ids of the buffer are in flight.
LEMMA BufferedIsFlying ==
    ASSUME FlightInv, Live
    PROVE  /\ \A j \in DOMAIN saver.buffer : saver.buffer[j].id \in Flying
           /\ \A i \in Ids : (\E j \in DOMAIN saver.buffer : task.input[saver.buffer[j].id] = task.input[i])
                                <=> i \in Image(IdsOf(saver.buffer))
<1>1. ASSUME NEW j \in DOMAIN saver.buffer PROVE saver.buffer[j].id \in Image(IdsOf(saver.buffer))
  BY DEF Image, IdsOf
<1>2. ASSUME NEW i \in Ids, NEW j \in DOMAIN saver.buffer, task.input[saver.buffer[j].id] = task.input[i]
      PROVE  saver.buffer[j].id = i
  BY <1>2, BufferFacts, InputFacts DEF Ids
<1>3. \A i \in Image(IdsOf(saver.buffer)) : \E j \in DOMAIN saver.buffer : saver.buffer[j].id = i
  BY DEF Image, IdsOf
<1> QED
  BY <1>1, <1>2, <1>3, BufferFacts DEF Flying

LEMMA StepMergeResults ==
    ASSUME FlightInv, MergeResults PROVE FlightInv'
<1>1. /\ Live /\ driver' = driver /\ SaveWorker \notin dead
      /\ UNCHANGED <<progress, manifest, task, loading, inputs, model, outputs, sentinels, observed, dead>>
      /\ saver.step = "merge" /\ saver' = [saver EXCEPT !.step = "mark"]
  BY DEF MergeResults, Saving, InGraph, Live
<1>2. Live' /\ Loaders' = Loaders /\ Ids' = Ids /\ InFlightResult' = InFlightResult /\ Refs' = Refs
  BY <1>1 DEF Live, Loaders, Ids, InFlightResult, Refs
<1>3. /\ saver \in SaverState /\ saver' \in SaverState /\ saver'.buffer = saver.buffer
      /\ saver'.ended = saver.ended /\ saver'.step = "mark"
  BY <1>1, BufferFacts DEF SaverState
<1>4. /\ results' \in [Keys -> Result \cup {None}]
      /\ \A k \in Keys : results[k] # None => results'[k] # None
      /\ ResultsBelong'
  BY <1>1, MergeFacts
<1>5. FilesOK' /\ TaskOK'
  BY <1>1, <1>4 DEF FlightInv, TypeOK, FilesOK, TaskOK
<1>6. GraphOK'
  BY <1>1, <1>2, <1>3, GraphFacts DEF GraphOK, Output, SaverState, ModelState
<1>7. OnePlace'
  <2>1. LoadingApart' /\ InputsApart' /\ ModelsApart' /\ OutputsApart'
    BY <1>1, <1>2, <1>3 DEF FlightInv, OnePlace, LoadingApart, InputsApart, ModelsApart, OutputsApart
  <2> QED
    BY <1>1, <1>3, <2>1 DEF FlightInv, OnePlace
<1>8. Flying' = Flying
  BY <1>1, <1>2, <1>3 DEF Flying
<1>9. Draining'
  <2>1. \A ref \in observed : Finished(ref)'
    BY <1>1, <1>3 DEF FlightInv, Draining, Finished
  <2> QED
    BY <1>1, <1>2, <1>3, <2>1 DEF FlightInv, Draining
<1>10. MergedIsStored'
  <2>1. \A j \in DOMAIN saver.buffer :
           /\ results'[task.input[saver.buffer[j].id]] # None
           /\ results'[task.input[saver.buffer[j].id]].status = saver.buffer[j].status
    <3> TAKE j \in DOMAIN saver.buffer
    <3> DEFINE stored == [about |-> saver.buffer[j].about, status |-> saver.buffer[j].status]
    <3>1. stored \in Result
      BY <1>1, BufferFacts DEF Result
    <3>2. results'[task.input[saver.buffer[j].id]] = stored
      BY <1>1, MergeFacts
    <3>3. stored.status = saver.buffer[j].status
      OBVIOUS
    <3> HIDE DEF stored
    <3> QED
      BY <3>1, <3>2, <3>3, NoneFacts
  <2> QED
    BY <1>1, <1>3, <2>1 DEF MergedIsStored
<1>11. Bound'
  <2>1. driver \notin {"reset", "configure", "migrate", "migrated", "configured", "demote", "ready"}
    BY <1>1 DEF Live
  <2>2. \A k \in Keys : results'[k] # None => k \in progress.run.tasks
    <3> SUFFICES ASSUME NEW k \in Keys, results'[k] # None PROVE k \in progress.run.tasks
      OBVIOUS
    <3>1. CASE \E j \in DOMAIN saver.buffer : task.input[saver.buffer[j].id] = k
      <4>1. k \in Image(task.input)
        BY <1>1, <3>1, BufferFacts DEF Image, Ids
      <4> QED
        BY <1>1, <4>1, RunOfGraph
    <3>2. CASE \A j \in DOMAIN saver.buffer : task.input[saver.buffer[j].id] # k
      <4>1. results[k] # None
        BY <1>1, <3>2, MergeFacts
      <4> QED
        BY <1>1, <4>1, RunOfGraph DEF FlightInv, Bound
    <3> QED BY <3>1, <3>2
  <2> QED
    BY <1>1, <1>2, <2>1, <2>2 DEF FlightInv, Bound
<1>12. TornIsKnown' /\ DemotedIsRetried' /\ DoneIsStored'
  BY <1>1, <1>2, <1>4 DEF FlightInv, TornIsKnown, DemotedIsRetried, DoneIsStored, Live
<1>13. Accounted'
  <2>1. ASSUME NEW i \in Ids
        PROVE  LET k == task.input[i]
               IN /\ i \notin Flying => results'[k] # None
                  /\ ~task.torn => IF i \in Flying THEN progress.status[k] # "ok"
                                   ELSE progress.status[k] = IF results'[k].status = "error" THEN "error" ELSE "ok"
    <3>1. task.input[i] \in Keys
      BY <1>1, GraphFacts, InputFacts DEF Ids
    <3>2. i \notin Flying => results'[task.input[i]] = results[task.input[i]]
      <4>1. i \notin Flying => i \notin Image(IdsOf(saver.buffer))
        BY DEF Flying
      <4>2. i \notin Flying => \A j \in DOMAIN saver.buffer : task.input[saver.buffer[j].id] # task.input[i]
        BY <1>1, <4>1, BufferedIsFlying
      <4> QED
        BY <1>1, <3>1, <4>2, MergeFacts
    <3> QED
      BY <1>1, <3>2 DEF FlightInv, Accounted, Agrees
  <2> QED
    BY <1>1, <1>2, <1>8, <2>1 DEF Accounted, Agrees
<1>14. CompletedHasResult'
  <2>1. \A k \in Completed(progress) : results'[k] # None
    BY <1>4 DEF FlightInv, CompletedHasResult, Completed
  <2>2. ASSUME ~task.torn, NEW k \in Completed(progress) PROVE results'[k].status # "error"
    <3>1. CASE \E j \in DOMAIN saver.buffer : task.input[saver.buffer[j].id] = k
      <4>1. PICK j \in DOMAIN saver.buffer : task.input[saver.buffer[j].id] = k
        BY <3>1
      <4>2. saver.buffer[j].id \in Ids /\ saver.buffer[j].id \in Flying
        BY <1>1, BufferFacts, BufferedIsFlying
      <4>3. progress.status[k] # "ok"
        BY <1>1, <2>2, <4>1, <4>2 DEF FlightInv, Accounted
      <4> QED
        BY <4>3 DEF Completed
    <3>2. CASE \A j \in DOMAIN saver.buffer : task.input[saver.buffer[j].id] # k
      <4>1. results'[k] = results[k]
        BY <1>1, <3>2, MergeFacts DEF Completed
      <4> QED
        BY <1>1, <2>2, <4>1 DEF FlightInv, CompletedHasResult, Live
    <3> QED BY <3>1, <3>2
  <2>3. Completed(progress)' = Completed(progress)
    BY <1>1 DEF Completed
  <2> QED
    BY <1>1, <2>1, <2>2, <2>3 DEF CompletedHasResult
<1> QED
  BY <1>4, <1>5, <1>6, <1>7, <1>9, <1>10, <1>11, <1>12, <1>13, <1>14 DEF FlightInv, TypeOK

\* What was marked agrees with its result, in a run that found the file whole.
LEMMA StepMarkFinished ==
    ASSUME FlightInv, MarkFinished PROVE FlightInv'
<1>1. /\ Live /\ driver' = driver /\ SaveWorker \notin dead
      /\ UNCHANGED <<manifest, results, task, loading, inputs, model, outputs, sentinels, observed, dead>>
      /\ saver.step = "mark" /\ progress' = Appended(progress, Marks)
      /\ saver' = [saver EXCEPT !.buffer = <<>>,
                                !.step = IF saver.ended = Models THEN "done" ELSE "get"]
  BY DEF MarkFinished, Saving, InGraph, Live
<1>2. Live' /\ Loaders' = Loaders /\ Ids' = Ids /\ InFlightResult' = InFlightResult /\ Refs' = Refs
  BY <1>1 DEF Live, Loaders, Ids, InFlightResult, Refs
<1>3. /\ saver' \in SaverState /\ saver'.buffer = <<>> /\ saver'.ended = saver.ended
      /\ saver'.step = IF saver.ended = Models THEN "done" ELSE "get"
  <2>1. <<>> \in Seq(InFlightResult)
    BY EmptySeq
  <2> QED
    BY <1>1, <2>1, BufferFacts DEF SaverState
<1>4. /\ Extended(progress', progress, Marks)
      /\ progress'.torn => progress.torn
      /\ ~progress.torn => \A k \in Keys :
            \/ Given(Marks, k, progress'.status[k])
            \/ /\ \A j \in DOMAIN Marks : Marks[j].key # k
               /\ progress'.status[k] = progress.status[k]
  <2>1. progress \in Progress
    BY DEF FlightInv, TypeOK, FilesOK
  <2> QED
    BY <1>1, <2>1, MarkFacts, AppendedFacts
<1>5. /\ progress' \in Progress /\ progress'.run = progress.run /\ progress'.run # None
      /\ \A k \in Keys : progress'.status[k] # "none" \/ progress'.sure[k] # "none" =>
             progress'.run # None /\ k \in progress'.run.tasks
      /\ \A k \in Keys : progress'.status[k] = "ok" \/ progress'.sure[k] = "ok" => results[k] # None
  BY <1>1, <1>4, MarkingKeeps
<1>6. ~task.torn => ~progress.torn
  BY <1>1 DEF FlightInv, TornIsKnown, Live
<1>7. FilesOK' /\ TaskOK'
  BY <1>1, <1>5 DEF FlightInv, TypeOK, FilesOK, TaskOK
<1>8. GraphOK'
  BY <1>1, <1>2, <1>3, GraphFacts DEF GraphOK, Output, SaverState, ModelState
<1>9. Bound'
  <2>1. driver \notin {"reset", "configure", "migrate", "migrated", "configured", "demote", "ready"}
    BY <1>1 DEF Live
  <2> QED
    BY <1>1, <1>2, <1>5, <2>1 DEF FlightInv, Bound
<1>10. TornIsKnown' /\ DemotedIsRetried' /\ ResultsBelong' /\ DoneIsStored'
  BY <1>1, <1>2, <1>4, <1>5 DEF FlightInv, TornIsKnown, DemotedIsRetried, ResultsBelong, DoneIsStored, Live
<1>11. DOMAIN IdsOf(saver'.buffer) = {}
  BY <1>3 DEF IdsOf
<1>12. \A s : Apart(s, IdsOf(saver'.buffer)) /\ Distinct(IdsOf(saver'.buffer)) /\ Image(IdsOf(saver'.buffer)) = {}
  BY <1>11, NothingIsApart
<1>13. OnePlace'
  <2>1. LoadingApart /\ InputsApart /\ ModelsApart /\ OutputsApart
    BY <1>1 DEF FlightInv, OnePlace
  <2>2. LoadingApart' /\ InputsApart' /\ ModelsApart' /\ OutputsApart'
    BY <1>1, <1>2, <1>12, <2>1 DEF LoadingApart, InputsApart, ModelsApart, OutputsApart
  <2> QED
    BY <1>12, <2>2 DEF OnePlace
<1>14. Flying' = Flying \ Image(IdsOf(saver.buffer))
  <2>1. LoadingApart /\ InputsApart /\ ModelsApart /\ OutputsApart
    BY <1>1 DEF FlightInv, OnePlace
  <2>2. \A i \in Image(IdsOf(saver.buffer)) :
          /\ \A l \in Loaders : i \notin Image(loading[l])
          /\ \A n \in DOMAIN inputs : i \notin Image(inputs[n])
          /\ \A m \in Models : i \notin Image(model[m].batch)
          /\ \A p \in DOMAIN outputs : i \notin Image(IdsOf(outputs[p].results))
    BY <2>1 DEF LoadingApart, InputsApart, ModelsApart, OutputsApart, Apart, Image
  <2> QED
    BY <1>1, <1>2, <1>12, <2>2 DEF Flying
<1>15. Accounted'
  <2>1. ASSUME NEW i \in Ids
        PROVE  LET k == task.input[i]
               IN /\ i \notin Flying' => results[k] # None
                  /\ ~task.torn => IF i \in Flying' THEN progress'.status[k] # "ok"
                                   ELSE progress'.status[k] = IF results[k].status = "error" THEN "error" ELSE "ok"
    <3>1. task.input[i] \in Keys
      BY <1>1, GraphFacts, InputFacts DEF Ids
    <3>2. CASE i \in Image(IdsOf(saver.buffer))
      <4>1. PICK j \in DOMAIN saver.buffer : task.input[saver.buffer[j].id] = task.input[i]
        BY <1>1, <3>2, BufferedIsFlying
      <4>2. i \notin Flying' /\ results[task.input[i]] # None
        BY <1>1, <1>14, <3>2, <4>1 DEF FlightInv, MergedIsStored
      <4>3. j \in DOMAIN Marks /\ Marks[j].key = task.input[i]
        BY <1>1, <4>1, MarkFacts
      <4>4. ~task.torn => Given(Marks, task.input[i], progress'.status[task.input[i]])
        BY <1>4, <1>6, <3>1, <4>3
      <4>5. ~task.torn => progress'.status[task.input[i]] =
                             IF results[task.input[i]].status = "error" THEN "error" ELSE "ok"
        BY <1>1, <4>4, MarksAreStored
      <4> QED
        BY <4>2, <4>5
    <3>3. CASE i \notin Image(IdsOf(saver.buffer))
      <4>1. \A s : ~Given(Marks, task.input[i], s)
        BY <1>1, <3>3, MarkFacts, BufferedIsFlying
      <4>2. ~task.torn => progress'.status[task.input[i]] = progress.status[task.input[i]]
        BY <1>4, <1>6, <3>1, <4>1
      <4>3. i \in Flying' <=> i \in Flying
        BY <1>14, <3>3
      <4> QED
        BY <1>1, <4>2, <4>3 DEF FlightInv, Accounted, Agrees
    <3> QED BY <3>2, <3>3
  <2> QED
    BY <1>1, <1>2, <2>1 DEF Accounted, Agrees
<1>16. Draining'
  <2>1. \A ref \in observed : Finished(ref)'
    BY <1>1, <1>3 DEF FlightInv, Draining, Finished
  <2> QED
    BY <1>1, <1>2, <1>3, <2>1 DEF FlightInv, Draining
<1>17. MergedIsStored'
  BY <1>3 DEF MergedIsStored
<1>18. CompletedHasResult'
  <2>1. \A k \in Keys : progress'.status[k] = "ok" => results[k] # None
    BY <1>5
  <2>2. ASSUME ~task.torn, NEW k \in Keys, progress'.status[k] = "ok" PROVE results[k].status # "error"
    <3>1. CASE Given(Marks, k, "ok")
      BY <1>1, <3>1, MarksAreStored
    <3>2. CASE progress.status[k] = "ok"
      BY <1>1, <2>2, <3>2 DEF FlightInv, CompletedHasResult, Completed, Live
    <3> QED
      BY <1>4, <1>6, <2>2, <3>1, <3>2
  <2> QED
    BY <1>1, <2>1, <2>2 DEF CompletedHasResult, Completed
<1> QED
  BY <1>7, <1>8, <1>9, <1>10, <1>13, <1>15, <1>16, <1>17, <1>18 DEF FlightInv, TypeOK

\* A death loses what the actor had; the files stay right, and only the saver's can tear one.
LEMMA StepDie ==
    ASSUME FlightInv, NEW ref \in Refs, Die(ref) PROVE FlightInv'
<1>1. /\ Live /\ driver' = driver /\ dead = {} /\ dead' = dead \cup {ref}
      /\ UNCHANGED <<manifest, results, task, loading, inputs, model, outputs, saver, sentinels, observed>>
      /\ progress' \in IF ref = SaveWorker /\ saver.step = "mark" THEN CutShort(progress, Marks) ELSE {progress}
  BY DEF Die, Live
<1>2. Live' /\ Loaders' = Loaders /\ Ids' = Ids /\ InFlightResult' = InFlightResult /\ Refs' = Refs
  BY <1>1 DEF Live, Loaders, Ids, InFlightResult, Refs
<1>3. progress \in Progress
  BY DEF FlightInv, TypeOK, FilesOK
<1>4. \/ progress' = progress
      \/ ref = SaveWorker /\ saver.step = "mark" /\ Extended(progress', progress, Marks)
  BY <1>1, <1>3, MarkFacts, CutFacts
<1>5. /\ progress' \in Progress /\ progress'.run = progress.run /\ progress'.run # None
      /\ \A k \in Keys : progress'.status[k] # "none" \/ progress'.sure[k] # "none" =>
             progress'.run # None /\ k \in progress'.run.tasks
      /\ \A k \in Keys : progress'.status[k] = "ok" \/ progress'.sure[k] = "ok" => results[k] # None
  <2>1. CASE progress' = progress
    BY <1>1, <1>3, <2>1, RunOfGraph DEF FlightInv, Bound, DoneIsStored
  <2>2. CASE ref = SaveWorker /\ saver.step = "mark" /\ Extended(progress', progress, Marks)
    BY <1>1, <2>2, MarkingKeeps
  <2> QED BY <1>4, <2>1, <2>2
<1>6. ~task.torn => ~progress.torn
  BY <1>1 DEF FlightInv, TornIsKnown, Live
<1>7. FilesOK' /\ TaskOK'
  BY <1>1, <1>5 DEF FlightInv, TypeOK, FilesOK, TaskOK
<1>8. GraphOK'
  <2>1. dead' \subseteq Refs
    BY <1>1
  <2> QED
    BY <1>1, <1>2, <2>1, GraphFacts DEF GraphOK, Output, SaverState, ModelState
<1>9. Bound'
  <2>1. driver \notin {"reset", "configure", "migrate", "migrated", "configured", "demote", "ready"}
    BY <1>1 DEF Live
  <2> QED
    BY <1>1, <1>2, <1>5, <2>1 DEF FlightInv, Bound
<1>10. TornIsKnown'
  BY <1>1, <1>2, <1>4, <1>6 DEF TornIsKnown
<1>11. DemotedIsRetried' /\ ResultsBelong' /\ DoneIsStored'
  BY <1>1, <1>2, <1>5 DEF FlightInv, DemotedIsRetried, ResultsBelong, DoneIsStored, Live
<1>12. OnePlace'
  <2>1. LoadingApart' /\ InputsApart' /\ ModelsApart' /\ OutputsApart'
    BY <1>1, <1>2 DEF FlightInv, OnePlace, LoadingApart, InputsApart, ModelsApart, OutputsApart
  <2> QED
    BY <1>1, <2>1 DEF FlightInv, OnePlace
<1>13. Flying' = Flying
  BY <1>1, <1>2 DEF Flying
<1>14. Accounted'
  <2>1. CASE ref = SaveWorker
    BY <1>1, <2>1 DEF Accounted
  <2>2. CASE ref # SaveWorker
    <3>1. progress' = progress
      BY <1>4, <2>2
    <3> QED
      BY <1>1, <1>2, <1>13, <3>1 DEF FlightInv, Accounted, Agrees
  <2> QED BY <2>1, <2>2
<1>15. Draining'
  <2>1. \A r \in observed : Finished(r)'
    BY <1>1 DEF FlightInv, Draining, Finished
  <2>2. saver.step = "done" => SaveWorker \notin dead'
    BY <1>1, RefFacts DEF FlightInv, Draining, Die
  <2> QED
    BY <1>1, <1>2, <2>1, <2>2 DEF FlightInv, Draining
<1>16. MergedIsStored'
  BY <1>1, <1>2 DEF FlightInv, MergedIsStored
<1>17. CompletedHasResult'
  <2>1. \A k \in Keys : progress'.status[k] = "ok" => results[k] # None
    BY <1>5
  <2>2. ASSUME ~task.torn, NEW k \in Keys, progress'.status[k] = "ok" PROVE results[k].status # "error"
    <3>1. CASE progress.status[k] = "ok"
      BY <1>1, <2>2, <3>1 DEF FlightInv, CompletedHasResult, Completed, Live
    <3>2. CASE saver.step = "mark" /\ Given(Marks, k, "ok")
      BY <1>1, <3>2, MarksAreStored
    <3> QED
      BY <1>4, <1>6, <2>2, <3>1, <3>2 DEF Extended
  <2> QED
    BY <1>1, <2>1, <2>2 DEF CompletedHasResult, Completed
<1> QED
  BY <1>7, <1>8, <1>9, <1>10, <1>11, <1>12, <1>14, <1>15, <1>16, <1>17 DEF FlightInv, TypeOK

-----------------------------------------------------------------------------
(* The start of a graph: the shards of the loaders. *)

\* n things dealt out to parts as evenly as can be, the first ones one longer.
LEMMA DivisionFacts ==
    ASSUME NEW n \in Nat, NEW parts \in Nat \ {0}
    PROVE  /\ n \div parts \in Nat /\ n % parts \in Nat /\ n % parts < parts
           /\ n = (parts * (n \div parts)) + (n % parts)
  OBVIOUS

\* Before part l come l - 1 parts of the base length, and one more in each of the first ones.
Offset(l, base, rest) == ((l - 1) * base) + (IF l - 1 <= rest THEN l - 1 ELSE rest)

\* Parts follow each other without a gap.
LEMMA OffsetFacts ==
    ASSUME NEW base \in Nat, NEW rest \in Nat
    PROVE  /\ \A l \in Nat \ {0} :
                 /\ Offset(l, base, rest) \in Nat
                 /\ Offset(l + 1, base, rest) = Offset(l, base, rest) + base + (IF l <= rest THEN 1 ELSE 0)
           /\ Offset(1, base, rest) = 0
           /\ \A l \in Nat : rest <= l => Offset(l + 1, base, rest) = (l * base) + rest
           /\ \A l, o \in Nat \ {0} : l <= o => Offset(l, base, rest) <= Offset(o, base, rest)
<1>1. ASSUME NEW l \in Nat \ {0}
      PROVE  /\ Offset(l, base, rest) \in Nat
             /\ Offset(l + 1, base, rest) = Offset(l, base, rest) + base + (IF l <= rest THEN 1 ELSE 0)
  <2> DEFINE p == (l - 1) * base
             q == (l + 1 - 1) * base
  <2>1. p \in Nat /\ q = p + base
    <3>1. PICK k \in Nat : l = k + 1
      <4>1. l - 1 \in Nat /\ l = (l - 1) + 1
        OBVIOUS
      <4> QED BY <4>1
    <3>2. p = k * base /\ q = (k + 1) * base
      BY <3>1
    <3>3. k * base \in Nat /\ (k + 1) * base = (k * base) + base
      OBVIOUS
    <3> QED BY <3>2, <3>3
  <2>2. /\ Offset(l, base, rest) = p + (IF l - 1 <= rest THEN l - 1 ELSE rest)
        /\ Offset(l + 1, base, rest) = q + (IF l + 1 - 1 <= rest THEN l + 1 - 1 ELSE rest)
    BY DEF Offset
  <2> HIDE DEF p, q
  <2> QED
    BY <2>1, <2>2
<1>2. Offset(1, base, rest) = 0
  BY DEF Offset
<1>3. ASSUME NEW l \in Nat, rest <= l PROVE Offset(l + 1, base, rest) = (l * base) + rest
  <2>1. l + 1 - 1 = l /\ (IF l <= rest THEN l ELSE rest) = rest
    BY <1>3
  <2> QED
    BY <2>1 DEF Offset
<1>4. ASSUME NEW l \in Nat \ {0}, NEW o \in Nat \ {0}, l <= o
      PROVE  Offset(l, base, rest) <= Offset(o, base, rest)
  <2> DEFINE p == (l - 1) * base
             q == (o - 1) * base
  <2>1. p \in Nat /\ q \in Nat /\ p <= q
    <3>1. PICK k \in Nat, d \in Nat : l = k + 1 /\ o = k + d + 1
      <4>1. l - 1 \in Nat /\ o - l \in Nat /\ l = (l - 1) + 1 /\ o = (l - 1) + (o - l) + 1
        BY <1>4
      <4> QED BY <4>1
    <3>2. p = k * base /\ q = (k + d) * base
      BY <3>1
    <3>3. k * base \in Nat /\ d * base \in Nat /\ (k + d) * base = (k * base) + (d * base)
      OBVIOUS
    <3> QED BY <3>2, <3>3
  <2>2. /\ Offset(l, base, rest) = p + (IF l - 1 <= rest THEN l - 1 ELSE rest)
        /\ Offset(o, base, rest) = q + (IF o - 1 <= rest THEN o - 1 ELSE rest)
    BY DEF Offset
  <2> HIDE DEF p, q
  <2> QED
    BY <1>4, <2>1, <2>2
<1> QED
  BY <1>1, <1>2, <1>3, <1>4

\* Every id is in exactly one shard.
LEMMA ShardFacts ==
    ASSUME task.input \in Inputs
    PROVE  /\ \A l \in Loaders : Shard(l) \subseteq DOMAIN task.input
           /\ \A l, o \in Loaders : l # o => Shard(l) \cap Shard(o) = {}
           /\ \A i \in DOMAIN task.input : \E l \in Loaders : i \in Shard(l)
<1> DEFINE n == Len(task.input)
           most == Min({NumLoaders, n})
           base == n \div most
           rest == n % most
           At(l) == Offset(l, base, rest)
<1>1. n \in Nat \ {0} /\ DOMAIN task.input = 1..n /\ NumLoaders \in Nat \ {0}
  BY InputFacts, RayAssumption DEF RayAssumption
<1>2. most \in Nat \ {0}
  BY <1>1, MinOfTwo
<1>3. Loaders = 1..most
  BY DEF Loaders
<1>4. Cardinality(Loaders) = most
  <2> HIDE DEF most
  <2>1. Cardinality(1..most) = most
    BY <1>2, FS_Interval
  <2> QED BY <1>3, <2>1
<1> HIDE DEF most
<1>5. base \in Nat /\ rest \in Nat /\ rest < most /\ n = (most * base) + rest
  BY <1>1, <1>2, DivisionFacts
<1>6. ASSUME NEW l \in Loaders
      PROVE  Shard(l) = (At(l) + 1)..(At(l) + base + IF l <= rest THEN 1 ELSE 0)
  <2>1. l - 1 \in Nat
    BY <1>2, <1>3
  <2>2. Min({l - 1, rest}) = IF l - 1 <= rest THEN l - 1 ELSE rest
    <3>1. /\ Min({l - 1, rest}) \in {l - 1, rest}
          /\ Min({l - 1, rest}) <= l - 1 /\ Min({l - 1, rest}) <= rest
      BY <1>5, <2>1, MinOfTwo
    <3> HIDE DEF rest
    <3> QED BY <1>5, <2>1, <3>1
  <2> QED
    BY <1>4, <2>2 DEF Shard, Offset
<1> HIDE DEF base, rest
<1>7. /\ \A l \in Nat \ {0} : /\ At(l) \in Nat
                              /\ At(l + 1) = At(l) + base + IF l <= rest THEN 1 ELSE 0
      /\ At(1) = 0 /\ At(most + 1) = (most * base) + rest
      /\ \A l, o \in Nat \ {0} : l <= o => At(l) <= At(o)
  <2>1. rest <= most /\ most \in Nat
    BY <1>2, <1>5
  <2>2. base \in Nat /\ rest \in Nat
    BY <1>5
  <2>3. \A l \in Nat \ {0} : /\ At(l) \in Nat
                            /\ At(l + 1) = At(l) + base + IF l <= rest THEN 1 ELSE 0
    BY <2>2, OffsetFacts
  <2>4. At(1) = 0 /\ \A l, o \in Nat \ {0} : l <= o => At(l) <= At(o)
    BY <2>2, OffsetFacts
  <2>5. At(most + 1) = (most * base) + rest
    BY <2>1, <2>2, OffsetFacts
  <2> QED
    BY <2>3, <2>4, <2>5
<1> HIDE DEF At, n
<1>8. ASSUME NEW l \in Loaders
      PROVE  /\ l \in Nat \ {0} /\ l + 1 \in Nat \ {0} /\ l <= most
             /\ \A i : i \in Shard(l) <=> i \in Nat /\ At(l) < i /\ i <= At(l + 1)
  <2>1. l \in Nat \ {0} /\ l + 1 \in Nat \ {0} /\ l <= most
    BY <1>2, <1>3
  <2>2. At(l) \in Nat /\ At(l + 1) \in Nat /\ Shard(l) = (At(l) + 1)..At(l + 1)
    BY <1>6, <1>7, <2>1
  <2> QED
    BY <2>1, <2>2
<1>9. At(most + 1) = n
  BY <1>5, <1>7
<1>10. ASSUME NEW l \in Loaders PROVE Shard(l) \subseteq DOMAIN task.input
  <2>1. At(l + 1) <= n /\ At(l + 1) \in Nat /\ At(l) \in Nat
    BY <1>2, <1>7, <1>8, <1>9
  <2> QED
    BY <1>1, <1>8, <2>1
<1>11. ASSUME NEW l \in Loaders, NEW o \in Loaders, l < o PROVE Shard(l) \cap Shard(o) = {}
  <2>1. l + 1 <= o
    BY <1>8, <1>11
  <2>2. At(l + 1) <= At(o) /\ At(l + 1) \in Nat /\ At(o) \in Nat
    BY <1>7, <1>8, <2>1
  <2> QED
    BY <1>8, <2>2
<1>12. ASSUME NEW i \in DOMAIN task.input PROVE \E l \in Loaders : i \in Shard(l)
  <2> DEFINE after == {m \in Nat \ {0} : i <= At(m)}
  <2>1. i \in Nat /\ 1 <= i /\ i <= n /\ most + 1 \in after
    BY <1>1, <1>2, <1>9
  <2>2. PICK m \in after : \A o \in after : m <= o
    <3>1. after \subseteq Nat /\ after # {}
      BY <2>1
    <3> HIDE DEF after
    <3> QED BY <3>1, LeastNatural
  <2>3. m # 1 /\ m \in Nat \ {0} /\ m <= most + 1 /\ i <= At(m)
    BY <1>7, <2>1, <2>2
  <2>4. m - 1 \in Loaders /\ m - 1 \in Nat \ {0} /\ m - 1 + 1 = m
    BY <1>2, <1>3, <2>3
  <2>5. At(m - 1) < i
    <3>1. m - 1 \notin after
      <4>1. ~(m <= m - 1)
        BY <2>3
      <4> QED BY <2>2, <4>1
    <3>2. ~(i <= At(m - 1)) /\ At(m - 1) \in Nat
      BY <1>7, <2>4, <3>1
    <3> QED BY <2>1, <3>2
  <2>6. i \in Shard(m - 1)
    BY <1>8, <2>1, <2>3, <2>4, <2>5
  <2> QED
    BY <2>4, <2>6
<1>13. ASSUME NEW l \in Loaders, NEW o \in Loaders, l # o PROVE Shard(l) \cap Shard(o) = {}
  <2>1. l < o \/ o < l
    BY <1>8, <1>13
  <2> QED
    BY <1>11, <2>1
<1> QED
  BY <1>10, <1>12, <1>13

\* A graph starts with every task in its loader that the tracker does not call done, and
\* the others have whole results.
LEMMA StepStartGraph ==
    ASSUME FlightInv, StartGraph PROVE FlightInv'
<1>1. driver = "ready" /\ ~Live /\ UNCHANGED <<progress, manifest, results>>
  BY DEF StartGraph, Live, files
<1>2. /\ task.input \in Inputs /\ progress \in Progress /\ progress.run # None
      /\ manifest = [run |-> RunOf(task.input), map |-> task.input]
      /\ task \in [input : Inputs, announce : BOOLEAN, torn : BOOLEAN]
  BY <1>1 DEF FlightInv, TypeOK, TaskOK, FilesOK, Bound
<1>3. CASE GiveUp
  BY <1>1, <1>2, <1>3, DownKeepsFiles DEF FlightInv, Bound, DoneIsStored, GiveUp
<1>4. CASE ~ManifestRefused(progress, manifest)
  <2> DEFINE todo(l) == {i \in Shard(l) : task.input[i] \notin Completed(progress)}
  <2>1. /\ loading' = [l \in Loaders |-> InOrder(todo(l))]
        /\ model' = [m \in Models |-> Idle]
        /\ saver' = [step |-> "get", ended |-> {}, map |-> task.input, buffer |-> <<>>]
        /\ sentinels' = Cardinality(Models)
        /\ inputs' = <<>> /\ outputs' = <<>> /\ observed' = {} /\ dead' = {}
        /\ driver' = "graph" /\ UNCHANGED task
    BY <1>2, <1>4 DEF StartGraph
  <2>2. progress.run = RunOf(task.input)
    <3>1. manifest # None
      BY <1>2, InputFacts, NoneFacts
    <3>2. manifest.run = progress.run
      BY <1>2, <1>4, <3>1 DEF ManifestRefused
    <3> QED BY <1>2, <3>2
  <2>3. Live' /\ Loaders' = Loaders /\ Ids' = Ids /\ InFlightResult' = InFlightResult /\ Refs' = Refs
    BY <2>1 DEF Live, Loaders, Ids, InFlightResult, Refs
  <2>4. \A l \in Loaders : todo(l) \subseteq DOMAIN task.input
    BY <1>2, ShardFacts
  <2>5. \A l \in Loaders :
          /\ loading'[l] = InOrder(todo(l))
          /\ loading'[l] \in Seq(Ids)
          /\ Distinct(loading'[l])
          /\ \A x \in todo(l) : \E j \in DOMAIN loading'[l] : loading'[l][j] = x
          /\ \A j \in DOMAIN loading'[l] : loading'[l][j] \in todo(l)
    <3> TAKE l \in Loaders
    <3> DEFINE S == todo(l)
    <3>1. loading'[l] = InOrder(S) /\ S \subseteq DOMAIN task.input
      BY <2>1, <2>4
    <3> HIDE DEF S
    <3>2. /\ InOrder(S) \in Seq(DOMAIN task.input)
          /\ \A i, j \in DOMAIN InOrder(S) : InOrder(S)[i] = InOrder(S)[j] => i = j
          /\ \A x \in S : \E j \in DOMAIN InOrder(S) : InOrder(S)[j] = x
          /\ \A j \in DOMAIN InOrder(S) : InOrder(S)[j] \in S
      BY <1>2, <3>1, IdsInOrder
    <3>3. /\ loading'[l] = InOrder(S) /\ loading'[l] \in Seq(Ids) /\ Distinct(loading'[l])
          /\ \A x \in S : \E j \in DOMAIN loading'[l] : loading'[l][j] = x
          /\ \A j \in DOMAIN loading'[l] : loading'[l][j] \in S
      BY <3>1, <3>2 DEF Distinct, Ids
    <3> QED
      BY <3>3 DEF S
  <2>6. \A l \in Loaders, o \in Loaders : l # o => Apart(loading'[l], loading'[o])
    <3> SUFFICES ASSUME NEW l \in Loaders, NEW o \in Loaders, l # o,
                        NEW i \in DOMAIN loading'[l], NEW j \in DOMAIN loading'[o],
                        loading'[l][i] = loading'[o][j]
                 PROVE  FALSE
      BY DEF Apart
    <3>1. loading'[l][i] \in Shard(l) /\ loading'[o][j] \in Shard(o)
      BY <2>5
    <3> QED
      BY <1>2, <3>1, ShardFacts
  <2> HIDE DEF todo
  <2>7. saver' \in SaverState /\ saver'.buffer = <<>> /\ saver'.step = "get" /\ saver'.ended = {}
    <3>1. <<>> \in Seq(InFlightResult)
      BY EmptySeq
    <3> QED
      BY <2>1, <3>1 DEF SaverState
  <2>8. model' \in [Models -> ModelState] /\ \A m \in Models : model'[m].batch = <<>> /\ model'[m].step = "idle"
    <3>1. <<>> \in Seq(Ids)
      BY EmptySeq
    <3> QED
      BY <2>1, <3>1 DEF ModelState, Idle
  <2>9. GraphOK'
    <3>1. loading' \in [Loaders -> Seq(Ids)]
      BY <2>1, <2>5
    <3>2. <<>> \in Seq(Seq(Ids)) /\ <<>> \in Seq(Output)
      BY EmptySeq
    <3>3. sentinels' \in Nat
      BY <2>1, FS_CardinalityType, RayAssumption DEF RayAssumption
    <3> QED
      BY <2>1, <2>3, <2>7, <2>8, <3>1, <3>2, <3>3 DEF GraphOK, Output, SaverState, ModelState
  <2>10. FilesOK' /\ TaskOK' /\ ResultsBelong' /\ DoneIsStored'
    BY <1>1, <1>2, <2>1 DEF FlightInv, TypeOK, FilesOK, TaskOK, Drivers, ResultsBelong, DoneIsStored
  <2>11. Bound'
    BY <1>1, <1>2, <2>1, <2>2, <2>3 DEF FlightInv, Bound
  <2>12. TornIsKnown' /\ DemotedIsRetried'
    BY <1>1, <2>1 DEF FlightInv, TornIsKnown, DemotedIsRetried
  <2>13. DOMAIN inputs' = {} /\ DOMAIN outputs' = {}
    BY <2>1
  <2>14. DOMAIN IdsOf(saver'.buffer) = {}
    BY <2>7 DEF IdsOf
  <2>15. OnePlace'
    <3>1. \A s : /\ Apart(s, IdsOf(saver'.buffer)) /\ Distinct(IdsOf(saver'.buffer))
                 /\ \A m \in Models : Apart(s, model'[m].batch) /\ Distinct(model'[m].batch)
      BY <2>8, <2>14, NothingIsApart
    <3>2. LoadingApart'
      BY <2>3, <2>5, <2>6, <2>13, <3>1 DEF LoadingApart
    <3>3. InputsApart' /\ OutputsApart'
      BY <2>13 DEF InputsApart, OutputsApart
    <3>4. ModelsApart'
      BY <2>13, <3>1 DEF ModelsApart
    <3> QED
      BY <3>1, <3>2, <3>3, <3>4 DEF OnePlace
  <2>16. \A i \in Ids : i \in Flying' <=> task.input[i] \notin Completed(progress)
    <3>1. \A i : i \notin Image(IdsOf(saver'.buffer)) /\ \A m \in Models : i \notin Image(model'[m].batch)
      BY <2>8, <2>14, NothingIsApart
    <3>2. \A i \in Ids : i \in Flying' <=> \E l \in Loaders : i \in Image(loading'[l])
      BY <2>3, <2>13, <3>1 DEF Flying
    <3>3. \A l \in Loaders : \A i : i \in Image(loading'[l]) <=> i \in todo(l)
      BY <2>5 DEF Image
    <3>4. \A i \in Ids : (\E l \in Loaders : i \in todo(l)) <=> task.input[i] \notin Completed(progress)
      BY <1>2, ShardFacts DEF todo, Ids
    <3> QED
      BY <3>2, <3>3, <3>4
  <2>17. \A i \in Ids : task.input[i] \in Keys
    BY <1>2, InputFacts DEF Ids
  <2>18. ~task.torn => \A k \in Completed(progress) : results[k] # None /\ results[k].status = "ok"
    BY <1>1 DEF FlightInv, DemotedIsRetried, Sound
  <2>19. Accounted'
    <3>1. ASSUME NEW i \in Ids
          PROVE  LET k == task.input[i]
                 IN /\ i \notin Flying' => results[k] # None
                    /\ ~task.torn => IF i \in Flying' THEN progress.status[k] # "ok"
                                     ELSE progress.status[k] = IF results[k].status = "error" THEN "error" ELSE "ok"
      <4>1. task.input[i] \in Completed(progress) =>
               results[task.input[i]] # None /\ progress.status[task.input[i]] = "ok"
        BY DEF FlightInv, DoneIsStored, Completed
      <4>2. task.input[i] \notin Completed(progress) => progress.status[task.input[i]] # "ok"
        BY <2>17 DEF Completed
      <4> QED
        BY <2>16, <2>18, <4>1, <4>2
    <3> QED
      BY <1>1, <2>1, <2>3, <3>1 DEF Accounted, Agrees
  <2>20. Draining'
    <3>1. saver'.ended # Models
      BY <2>7, RayAssumption DEF RayAssumption
    <3>2. \A m \in Models : model'[m].step \notin {"busy", "ending", "done"}
      BY <2>8
    <3> QED
      BY <2>1, <2>7, <2>8, <2>13, <3>1, <3>2 DEF Draining
  <2>21. MergedIsStored'
    BY <2>7 DEF MergedIsStored
  <2>22. CompletedHasResult'
    <3>1. Completed(progress)' = Completed(progress)
      BY <1>1 DEF Completed
    <3>2. \A k \in Completed(progress) : results[k] # None
      BY DEF FlightInv, DoneIsStored, Completed
    <3> QED
      BY <1>1, <2>1, <2>18, <3>1, <3>2 DEF CompletedHasResult
  <2> QED
    BY <2>9, <2>10, <2>11, <2>12, <2>15, <2>19, <2>20, <2>21, <2>22 DEF FlightInv, TypeOK
<1> QED
  BY <1>3, <1>4 DEF StartGraph

-----------------------------------------------------------------------------
(* The theorems. *)

LEMMA StutterKeeps ==
    ASSUME FlightInv, UNCHANGED vars PROVE FlightInv'
<1>1. /\ UNCHANGED <<progress, manifest, results, driver, task, loading, inputs, model, outputs>>
      /\ UNCHANGED <<saver, sentinels, observed, dead>>
  BY DEF vars, files, graph
<1>2. /\ Live' = Live /\ Ids' = Ids /\ Loaders' = Loaders /\ Refs' = Refs
      /\ InFlightResult' = InFlightResult /\ Flying' = Flying
  BY <1>1 DEF Live, Ids, Loaders, Refs, InFlightResult, Flying
<1>3. TypeOK'
  BY <1>1, <1>2 DEF FlightInv, TypeOK, FilesOK, TaskOK, GraphOK, SaverState, ModelState, Output
<1>4. Bound' /\ TornIsKnown' /\ ResultsBelong' /\ DoneIsStored' /\ DemotedIsRetried' /\ MergedIsStored'
  BY <1>1, <1>2 DEF FlightInv, Bound, TornIsKnown, ResultsBelong, DoneIsStored, DemotedIsRetried,
                    MergedIsStored, Completed, Sound
<1>5. OnePlace'
  BY <1>1, <1>2 DEF FlightInv, OnePlace, LoadingApart, InputsApart, ModelsApart, OutputsApart
<1>6. Accounted' /\ CompletedHasResult'
  BY <1>1, <1>2 DEF FlightInv, Accounted, Agrees, CompletedHasResult, Completed
<1>7. Draining'
  BY <1>1, <1>2 DEF FlightInv, Draining, Finished
<1> QED
  BY <1>3, <1>4, <1>5, <1>6, <1>7 DEF FlightInv

LEMMA StepKeepsFlight ==
    ASSUME FlightInv, [Next]_vars PROVE FlightInv'
<1>1. CASE \E input \in Inputs, mayReset, changed \in BOOLEAN : Start(input, mayReset, changed)
  BY <1>1, StepStart
<1>2. CASE Resume
  BY <1>2, StepUnlink, StepMigrate, StepConfigure, StepWriteManifest, StepDemote, StepStartGraph DEF Resume
<1>3. CASE Supervise
  BY <1>3, StepSendEnd, StepSupervise, StepEnds DEF Supervise
<1>4. CASE Saver
  BY <1>4, StepGetResult, StepMergeResults, StepMarkFinished DEF Saver
<1>5. CASE \E l \in Loaders : LoadBatch(l)
  BY <1>5, StepLoadBatch
<1>6. CASE \E m \in Models : Model(m)
  BY <1>6, StepTakeBatch, StepPutResults, StepPutEnded DEF Model
<1>7. CASE \E ref \in Refs : Die(ref)
  BY <1>7, StepDie
<1>8. CASE Crash
  BY <1>8, StepEnds
<1>9. CASE UNCHANGED vars
  BY <1>9, StutterKeeps
<1> QED
  BY <1>1, <1>2, <1>3, <1>4, <1>5, <1>6, <1>7, <1>8, <1>9 DEF Next

\* The files are bound to the input of the run, and every task is in one place, in every state.
THEOREM FlightInvariant == Spec => []FlightInv
<1>1. Init => FlightInv
  BY InitFlight
<1>2. FlightInv /\ [Next]_vars => FlightInv'
  BY StepKeepsFlight
<1> QED
  BY <1>1, <1>2, PTL DEF Spec

\* The variables have their types: what the queues, the actors and the files hold.
THEOREM TypeCorrect == Spec => []TypeOK
<1>1. FlightInv => TypeOK
  BY DEF FlightInv
<1> QED
  BY <1>1, FlightInvariant, PTL

\* A result is about the track whose key it is stored under, whoever computed its row number
\* and however the input was reordered since.
THEOREM EveryResultBelongs == Spec => []ResultsBelong
<1>1. FlightInv => ResultsBelong
  BY DEF FlightInv
<1> QED
  BY <1>1, FlightInvariant, PTL

\* What the tracker calls done has a result, after any number of kills, torn lines and runs.
THEOREM DoneHasResult == Spec => []CompletedHasResult
<1>1. FlightInv => CompletedHasResult
  BY DEF FlightInv
<1> QED
  BY <1>1, FlightInvariant, PTL

\* When the supervisor has the results of all actors, nothing is in flight any more.
LEMMA DrainedAtTheEnd ==
    ASSUME FlightInv, driver \in {"published", "refused"}
    PROVE  Flying = {}
<1>1. Live /\ observed = Refs
  BY DEF FlightInv, Draining, Live
<1>2. \A ref \in Refs : Finished(ref)
  BY <1>1 DEF FlightInv, Draining
<1>3. \A l \in Loaders : loading[l] = <<>>
  BY <1>1, <1>2, RefFacts DEF Refs
<1>4. \A m \in Models : model[m].step = "done" /\ model[m].batch = <<>>
  BY <1>1, <1>2, RefFacts DEF Refs, FlightInv, Draining
<1>5. saver.step = "done" /\ saver.ended = Models /\ saver.buffer = <<>>
  BY <1>1, <1>2, RefFacts DEF Refs, FlightInv, Draining
<1>6. \A n \in DOMAIN inputs : inputs[n] = End
  <2>1. Models # {}
    BY RayAssumption DEF RayAssumption
  <2> QED
    BY <1>1, <1>4, <2>1 DEF FlightInv, Draining
<1>7. outputs = <<>>
  <2> SUFFICES ASSUME outputs # <<>> PROVE FALSE
    OBVIOUS
  <2>1. outputs \in Seq(Output) /\ Len(outputs) \in DOMAIN outputs
    <3>1. outputs \in Seq(Output)
      BY <1>1, GraphFacts
    <3>2. DOMAIN outputs = 1..Len(outputs) /\ Len(outputs) \in Nat /\ Len(outputs) # 0
      BY <3>1, LenProperties, EmptySeq
    <3> QED BY <3>1, <3>2
  <2>2. outputs[Len(outputs)].ended # None
    BY <1>1, <1>4 DEF FlightInv, Draining
  <2>3. outputs[Len(outputs)].ended \in Models
    BY <1>1, <2>1, <2>2, GraphFacts
  <2>4. outputs[Len(outputs)].ended \notin saver.ended
    BY <1>1, <2>1, <2>2 DEF FlightInv, Draining
  <2> QED
    BY <1>5, <2>3, <2>4
<1>8. \A s : DOMAIN s = {} => Image(s) = {}
  BY DEF Image
<1>9. /\ \A l \in Loaders : Image(loading[l]) = {}
      /\ \A n \in DOMAIN inputs : Image(inputs[n]) = {}
      /\ \A m \in Models : Image(model[m].batch) = {}
      /\ DOMAIN outputs = {} /\ Image(IdsOf(saver.buffer)) = {}
  BY <1>3, <1>4, <1>5, <1>6, <1>7, <1>8 DEF End, IdsOf
<1> QED
  BY <1>9 DEF Flying

\* A graph whose actors all ended has stored a result of every task, under the manifest of
\* its run, and the tracker agrees with every one of them unless the run found it torn.
THEOREM NoTaskIsLost == Spec => []NothingLost
<1>1. ASSUME FlightInv PROVE NothingLost
  <2> SUFFICES ASSUME driver \in {"published", "refused"}
               PROVE  /\ {k \in Keys : results[k] # None} = Image(task.input)
                      /\ manifest = [run |-> progress.run, map |-> task.input]
                      /\ ~task.torn => \A k \in Image(task.input) :
                            progress.status[k] = IF results[k].status = "error" THEN "error" ELSE "ok"
    BY DEF NothingLost
  <2>1. Live /\ Flying = {} /\ SaveWorker \notin dead
    <3>1. Live /\ observed = Refs /\ \A ref \in observed : Finished(ref)
      BY <1>1 DEF FlightInv, Draining, Live
    <3>2. saver.step = "done"
      BY <1>1, <3>1, RefFacts DEF Refs
    <3> QED
      BY <1>1, <3>1, <3>2, DrainedAtTheEnd DEF FlightInv, Draining
  <2>2. /\ progress.run = RunOf(task.input) /\ progress.run.tasks = Image(task.input)
        /\ manifest = [run |-> RunOf(task.input), map |-> task.input]
    BY <1>1, <2>1, RunOfGraph DEF FlightInv, Bound
  <2>3. \A i \in Ids : /\ results[task.input[i]] # None
                       /\ ~task.torn => Agrees(task.input[i])
    BY <1>1, <2>1 DEF FlightInv, Accounted
  <2>4. \A k \in Image(task.input) : k \in Keys /\ results[k] # None /\ (~task.torn => Agrees(k))
    <3>1. Image(task.input) \subseteq Keys
      BY <1>1, <2>1, GraphFacts, InputFacts
    <3> QED
      BY <2>3, <3>1 DEF Image, Ids
  <2>5. \A k \in Keys : results[k] # None => k \in Image(task.input)
    BY <1>1, <2>1, <2>2, RunOfGraph DEF FlightInv, Bound
  <2> QED
    BY <2>2, <2>4, <2>5 DEF Agrees
<1> QED
  BY <1>1, FlightInvariant, PTL
=============================================================================
