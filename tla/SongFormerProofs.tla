--------------------------- MODULE SongFormerProofs ---------------------------
(***************************************************************************)
(* Proofs about the structure stage, for any tracks, workers and queue size, *)
(* any number of faults and any number of runs.                             *)
(*                                                                         *)
(* First what the output rows say, which rests on the order of the two      *)
(* commit writes.  Then that no task is doubled or lost on its way from the  *)
(* queue to the collected answers, which takes the order of the queue, one   *)
(* place per track, and a count of the end markers.                          *)
(***************************************************************************)
EXTENDS SongFormerRun, FiniteSetTheorems, SequenceTheorems, TLAPS

Usable == Tracks \ Unusable
Outcome == ContentTypes \cup {"none"}
Ahead == [track : Tracks \cup {"none"}, load : {"stop", "nothing", "skipped", "failed", "loaded"}]
QueueItem == [track : Tracks \cup {"none"}, load : {"task", "stop"}]
WorkerState == [state : {"absent", "starting", "up", "hung", "dead", "exited"},
                step : {"wait", "infer", "predicted"}, track : Tracks \cup {"none"},
                ahead : Ahead]
Message == [type : {"ready", "init_error", "result"}, worker : Workers,
            track : Tracks \cup {"none"}, ok : BOOLEAN]
OutputRow == [state : {"none", "ok", "error"}, structure : Outcome]
Phases == {"new", "ready", "dispatch", "collect", "join", "raised", "done", "failed"}

TypeOK ==
    /\ contentType \in [Tracks -> ContentTypes]
    /\ prediction \in [Tracks -> Outcome] /\ marker \in [Tracks -> Outcome]
    /\ torn \subseteq Tracks /\ rows \in [Tracks -> OutputRow]
    /\ phase \in Phases /\ tasks \in Seq(Usable) /\ sent \in Nat
    /\ queue \in Seq(QueueItem)
    /\ worker \in [Workers -> WorkerState]
    /\ messages \subseteq Message
    /\ ready \subseteq Workers /\ received \subseteq Tracks /\ failures \subseteq Tracks
    /\ struck \subseteq Workers

\* What a loader has ahead: a track with what became of it, an end marker, or nothing.
Fits(a) == /\ a.load = "nothing" <=> a = Nothing
           /\ a.load = "stop" <=> a = Stop
           /\ a.track = "none" => a.load \in {"stop", "nothing"}

\* What a worker holds is a track, and one that has not started or has ended holds nothing.
Sound(p) == /\ p.step = "wait" <=> p.track = "none"
            /\ Fits(p.ahead)
            /\ p.state \notin {"up", "hung"} => p = Process(p.state)

Holds == \A w \in Workers : Sound(worker[w])

Carried ==
    /\ \A n \in DOMAIN queue :
          queue[n] # Stop => queue[n].load = "task" /\ queue[n].track \in Usable
    /\ \A m \in messages : m.type = "result" <=> m.track \in Tracks

\* No worker outlives its run.
Ends == ~Running => Live = {}

Now(t) == Reusable(t, contentType[t])

\* Whatever is called done is reusable: what a loader skipped, what was answered as ok, and
\* what was no task to begin with.
DoneIsReusable == Running =>
    /\ \A w \in Workers : worker[w].ahead.load = "skipped" => Now(worker[w].ahead.track)
    /\ \A m \in messages : m.type = "result" /\ m.ok => Now(m.track)
    /\ \A t \in received \ failures : Now(t)
    /\ \A t \in Usable : t \in Expected \/ Now(t)

AllReceived == phase = "join" => received = Expected

\* The two files of a track agree, unless a commit of it is between its two writes, or was when
\* it was stopped.
Committed == \A t \in Tracks :
    \/ marker[t] = "none" \/ prediction[t] = marker[t] \/ t \in torn
    \/ \E w \in Workers : worker[w].step = "predicted" /\ worker[w].track = t

Predicted == Running =>
    \A w \in Workers :
        worker[w].step = "predicted" => prediction[worker[w].track] = contentType[worker[w].track]

\* What holds of the state whatever the files say.
Shape == TypeOK /\ Holds /\ Carried /\ Ends

OutputInv == /\ Shape /\ DoneIsReusable /\ AllReceived
             /\ Committed /\ Predicted /\ OutputIsTrue

-----------------------------------------------------------------------------
(* Tasks on their way. *)

\* The items that left the queue, and the tracks that left with them.
Fetched == sent - Len(queue)
Gone(t) == \E i \in 1..Len(tasks) : i <= Fetched /\ tasks[i] = t

\* The queue holds the items put last, in their order; no track is two tasks.
QueueInOrder == Running =>
    /\ Len(queue) <= sent /\ sent <= Len(tasks) + EndMarkers
    /\ \A n \in 1..Len(queue) : queue[n] = Item(Fetched + n)
    /\ \A i, j \in 1..Len(tasks) : tasks[i] = tasks[j] => i = j

\* How far each phase of the main process is.
InPhase == Running =>
    /\ Expected # {}
    /\ phase = "ready" => sent = 0
    /\ phase \in {"ready", "dispatch"} => sent < Len(tasks) + EndMarkers /\ received = {}
    /\ phase \in {"collect", "join"} => sent = Len(tasks) + EndMarkers
    /\ phase = "collect" => received # Expected

\* Where a track may be once it has left the queue.
InHand(t) == {w \in Workers : worker[w].track = t}
LoadedAhead(t) == {w \in Workers : worker[w].ahead.track = t}
Answers(t) == {m \in messages : m.track = t}
Somewhere(t) == InHand(t) # {} \/ LoadedAhead(t) # {} \/ Answers(t) # {} \/ t \in received

One(S) == \A x, y \in S : x = y
PlacedOnce(t) ==
    /\ One(InHand(t)) /\ One(LoadedAhead(t)) /\ One(Answers(t))
    /\ InHand(t) # {} => LoadedAhead(t) = {} /\ Answers(t) = {} /\ t \notin received
    /\ LoadedAhead(t) # {} => Answers(t) = {} /\ t \notin received
    /\ Answers(t) # {} => t \notin received

Placed(t) == /\ PlacedOnce(t)
             /\ Somewhere(t) => Gone(t)
             /\ struck = {} /\ Gone(t) => Somewhere(t)

OnePlace == Running => \A t \in Tracks : Placed(t)

\* Without a fault: every end marker taken has stopped another worker, and each phase waits
\* for something that will come, so that nothing is raised.
Stopped == {w \in Workers : worker[w].ahead = Stop \/ worker[w].state = "exited"}

Counted == /\ Fetched <= Len(tasks) => Stopped = {}
           /\ Fetched > Len(tasks) => Cardinality(Stopped) = Fetched - Len(tasks)

Heard == /\ ready # Workers
         /\ \A w \in Workers :
               /\ worker[w].state = "starting" => w \notin ready
               /\ worker[w].state = "starting" \/ w \in ready \/ Says(w, "ready") \in messages
         /\ \A m \in messages : /\ m = Says(m.worker, "ready")
                                /\ worker[m.worker].state = "up" /\ m.worker \notin ready

Orderly == Running /\ struck = {} =>
    /\ phase # "raised"
    /\ \A w \in Workers : worker[w].state \in {"starting", "up", "exited"}
    /\ Counted
    /\ phase = "ready" => Heard
    /\ phase # "ready" => /\ \A w \in Workers : worker[w].state # "starting"
                          /\ \A m \in messages : m.type = "result"

PlacesInv == Shape /\ QueueInOrder /\ InPhase /\ OnePlace /\ Orderly

-----------------------------------------------------------------------------
(* The tasks of a run. *)

\* The sequence SetToSeq makes of a finite set holds every element of it once.
LEMMA SetInOrder ==
    ASSUME NEW S, IsFiniteSet(S)
    PROVE  /\ SetToSeq(S) \in Seq(S)
           /\ Range(SetToSeq(S)) = S
           /\ \A i, j \in 1..Len(SetToSeq(S)) : SetToSeq(S)[i] = SetToSeq(S)[j] => i = j
<1> DEFINE n == Cardinality(S)
           s == SetToSeq(S)
<1>1. n \in Nat /\ ExistsBijection(1..n, S)
  BY FS_CardinalityType
<1>2. \E f \in [1..n -> S] : IsInjective(f)
  BY <1>1 DEF ExistsBijection, Bijection, Injection
<1>3. s \in [1..n -> S] /\ IsInjective(s)
  BY <1>2 DEF SetToSeq
<1>4. s \in Injection(1..n, S)
  BY <1>3 DEF Injection
<1>5. s \in Surjection(1..n, S)
  <2>1. Cardinality(1..n) = n
    BY <1>1, FS_Interval
  <2> QED
    BY <1>4, <2>1, FS_Injection
<1>6. s \in Seq(S) /\ Len(s) = n
  BY <1>1, <1>3
<1>7. Range(s) = S
  BY <1>3, <1>5 DEF Range, Surjection
<1> QED
  BY <1>3, <1>6, <1>7 DEF IsInjective

\* The tasks of a run are the usable tracks without a reusable prediction, each once.
LEMMA TasksAreNew ==
    /\ NewTasks \in Seq(Usable)
    /\ Range(NewTasks) = {t \in Usable : ~Now(t)}
    /\ \A i, j \in 1..Len(NewTasks) : NewTasks[i] = NewTasks[j] => i = j
<1> DEFINE S == {t \in Usable : ~Now(t)}
<1>1. IsFiniteSet(S)
  BY SongFormerAssumption, FS_Subset DEF SongFormerAssumption, Usable
<1>2. NewTasks = SetToSeq(S)
  BY DEF NewTasks, Usable, Now
<1>3. SetToSeq(S) \in Seq(S)
  BY <1>1, SetInOrder
<1>4. SetToSeq(S) \in Seq(Usable)
  BY <1>3, SeqMonotonic
<1> QED
  BY <1>1, <1>2, <1>4, SetInOrder

-----------------------------------------------------------------------------
(* The shape of the state. *)

\* A worker that steps or is struck was alive, and is left with what a worker may hold.
Moves(w) == \E p \in WorkerState : Sound(p) /\ worker' = [worker EXCEPT ![w] = p]

\* What a loader takes from the queue is a task or an end marker.
LEMMA HeadOfQueue ==
    ASSUME TypeOK, Carried, queue # <<>>
    PROVE  /\ Tail(queue) \in Seq(QueueItem)
           /\ Len(Tail(queue)) = Len(queue) - 1
           /\ \A n \in 1..Len(Tail(queue)) : n + 1 \in 1..Len(queue) /\ Tail(queue)[n] = queue[n + 1]
           /\ Len(queue) >= 1 /\ Head(queue) = queue[1]
           /\ Head(queue) \in QueueItem
           /\ Head(queue) # Stop => Head(queue).load = "task" /\ Head(queue).track \in Usable
<1>1. queue \in Seq(QueueItem)
  BY DEF TypeOK
<1>2. Len(queue) \in Nat /\ Len(queue) # 0 /\ DOMAIN queue = 1..Len(queue)
  BY <1>1, EmptySeq, LenProperties
<1>3. /\ Tail(queue) \in Seq(QueueItem) /\ Head(queue) \in QueueItem
      /\ Len(Tail(queue)) = Len(queue) - 1
      /\ \A n \in 1..Len(Tail(queue)) : Tail(queue)[n] = queue[n + 1]
  BY <1>1, HeadTailProperties
<1>4. Head(queue) = queue[1]
  BY <1>1, <1>2
<1> QED
  BY <1>2, <1>3, <1>4 DEF Carried

LEMMA NoneIsNoTrack == "none" \notin Tracks
  BY SongFormerAssumption DEF SongFormerAssumption

\* A process that has just begun, or has ended, holds nothing.
LEMMA ProcessIsSound ==
    ASSUME NEW state \in {"starting", "up", "dead", "exited"}
    PROVE  Process(state) \in WorkerState /\ Sound(Process(state))
  BY DEF Process, WorkerState, Sound, Fits, Ahead, Nothing, Stop

\* A process that is neither up nor hung holds nothing.
LEMMA Resting ==
    ASSUME Shape, NEW w \in Workers, worker[w].state \notin {"up", "hung"}
    PROVE  worker[w].step = "wait" /\ worker[w].track = "none" /\ worker[w].ahead = Nothing
<1>1. worker[w] = Process(worker[w].state)
  BY DEF Shape, Holds, Sound
<1> QED
  BY <1>1 DEF Process

LEMMA WorkerMoves ==
    ASSUME Shape, NEW w \in Workers, WorkerStep(w) \/ Fault(w)
    PROVE  Alive(w) /\ Moves(w)
<1> USE DEF Moves
<1> DEFINE p == worker[w]
<1>0. p \in WorkerState /\ Sound(p) /\ p.ahead \in Ahead
  BY DEF Shape, TypeOK, Holds, WorkerState
<1>1. CASE Load(w) \/ Exit(w) \/ AnswerLoaded(w) \/ InitFails(w)
  BY <1>1, ProcessIsSound DEF Load, Exit, AnswerLoaded, InitFails, Taken, Up, Alive
<1>2. CASE Fetch(w)
  <2>2. Alive(w) /\ queue # <<>> /\ p.state = "up"
    BY <1>2 DEF Fetch, MayFetch, Up, Alive
  <2>3. PICK a \in Ahead : worker' = [worker EXCEPT ![w].ahead = a] /\ Fits(a)
    <3>1. CASE Head(queue) = Stop
      <4>1. worker' = [worker EXCEPT ![w].ahead = Stop]
        BY <1>2, <3>1 DEF Fetch
      <4>2. Stop \in Ahead /\ Fits(Stop)
        BY DEF Ahead, Stop, Nothing, Fits
      <4> QED
        BY <4>1, <4>2
    <3>2. CASE Head(queue) # Stop
      <4>1. Head(queue).track \in Tracks
        BY <2>2, <3>2, HeadOfQueue DEF Shape, Usable
      <4>2. PICK load \in {"skipped", "failed", "loaded"} :
                worker' = [worker EXCEPT ![w].ahead = [track |-> Head(queue).track, load |-> load]]
        BY <1>2, <3>2 DEF Fetch
      <4> DEFINE a == [track |-> Head(queue).track, load |-> load]
      <4>3. a \in Ahead /\ Fits(a)
        BY <4>1, NoneIsNoTrack DEF Ahead, Stop, Nothing, Fits
      <4> QED
        BY <4>2, <4>3
    <3> QED
      BY <3>1, <3>2
  <2>4. [p EXCEPT !.ahead = a] \in WorkerState /\ Sound([p EXCEPT !.ahead = a])
    BY <1>0, <2>2, <2>3 DEF WorkerState, Sound
  <2> QED
    BY <2>2, <2>3, <2>4
<1>3. CASE Begin(w)
  <2>1. p.ahead.track \in Tracks /\ p.state = "up"
    BY <1>0, <1>3 DEF Begin, Taken, Up, Sound, Fits, Ahead
  <2> DEFINE q == [state |-> "up", step |-> "infer", track |-> p.ahead.track, ahead |-> Nothing]
  <2>2. q \in WorkerState /\ Sound(q)
    BY <2>1, NoneIsNoTrack DEF WorkerState, Sound, Fits, Ahead, Nothing, Stop
  <2> QED
    BY <1>3, <2>1, <2>2 DEF Begin, Alive
<1>4. CASE WritePrediction(w)
  <2>1. [p EXCEPT !.step = "predicted"] \in WorkerState /\ Sound([p EXCEPT !.step = "predicted"])
    BY <1>0, <1>4 DEF WritePrediction, Up, WorkerState, Sound
  <2> QED
    BY <1>4, <2>1 DEF WritePrediction, Up, Alive
<1>5. CASE WriteMarker(w) \/ InferFails(w)
  <2> DEFINE q == [p EXCEPT !.step = "wait", !.track = "none"]
  <2>1. q \in WorkerState /\ Sound(q) /\ p.state = "up"
    BY <1>0, <1>5 DEF WriteMarker, InferFails, Up, WorkerState, Sound
  <2> QED
    BY <1>5, <2>1 DEF WriteMarker, InferFails, Answered, Alive
<1>6. CASE Killed(w)
  <2>1. worker' = [worker EXCEPT ![w] = Process("dead")]
    BY <1>6 DEF Killed, Ended, Shape, TypeOK
  <2> QED
    BY <1>6, <2>1, ProcessIsSound DEF Killed
<1>7. CASE Hangs(w)
  <2>1. [p EXCEPT !.state = "hung"] \in WorkerState /\ Sound([p EXCEPT !.state = "hung"])
    BY <1>0, <1>7 DEF WorkerState, Sound
  <2> QED
    BY <1>7, <2>1 DEF Hangs, Alive
<1> QED
  BY <1>1, <1>2, <1>3, <1>4, <1>5, <1>6, <1>7 DEF WorkerStep, Fault

\* A process that ends leaves nothing but a torn commit.
LEMMA EndedShape ==
    ASSUME TypeOK, Holds, NEW S \in SUBSET Workers, Ended(S)
    PROVE  /\ worker' \in [Workers -> WorkerState] /\ Holds'
           /\ torn' \subseteq Tracks
           /\ Live' = Live \ S
<1>1. \A w \in Workers : worker'[w] = IF w \in S THEN Process("dead") ELSE worker[w]
  BY DEF Ended
<1>2. worker' \in [Workers -> WorkerState]
  BY ProcessIsSound DEF Ended, TypeOK
<1>3. Holds'
  BY <1>1, ProcessIsSound DEF Holds, Sound, Fits, Process
<1>4. TornBy(S) \subseteq Tracks
  <2> SUFFICES ASSUME NEW w \in Workers, worker[w].step = "predicted"
               PROVE  worker[w].track \in Tracks
    BY DEF TornBy
  <2> QED
    BY DEF TypeOK, Holds, Sound, WorkerState
<1>5. Live' = Live \ S
  BY <1>1 DEF Live, Alive, Process
<1> QED
  BY <1>2, <1>3, <1>4, <1>5 DEF Ended, TypeOK

\* The actions that leave contentType, tasks, sent, ready, received and failures alone keep
\* the shape of the state when worker, torn, messages, queue, prediction, marker keep theirs.
Proper(m) == m \in Message /\ (m.type = "result" <=> m.track \in Tracks)
Steady == UNCHANGED <<contentType, rows, tasks, sent, ready, received, failures>>

LEMMA ShapeKept ==
    ASSUME Shape, Steady, phase' \in Phases,
           worker' \in [Workers -> WorkerState], Holds',
           torn' \subseteq Tracks, struck' \subseteq Workers,
           \A m \in messages' : m \in messages \/ Proper(m),
           queue' = queue \/ (queue # <<>> /\ queue' = Tail(queue)),
           prediction' \in [Tracks -> Outcome] /\ marker' \in [Tracks -> Outcome],
           ~Running' => Live' = {}
    PROVE  Shape'
<1>1. messages' \subseteq Message
  BY DEF Shape, TypeOK, Proper
<1>2. \A m \in messages' : m.type = "result" <=> m.track \in Tracks
  BY DEF Shape, Carried, Proper
<1>3. queue' \in Seq(QueueItem)
  BY HeadOfQueue DEF Shape, TypeOK
<1>4. \A n \in DOMAIN queue' : queue'[n] # Stop =>
          queue'[n].load = "task" /\ queue'[n].track \in Usable
  <2>1. CASE queue' = queue
    BY <2>1 DEF Shape, Carried
  <2>2. CASE queue # <<>> /\ queue' = Tail(queue)
    <3>1. DOMAIN queue' = 1..Len(queue') /\ DOMAIN queue = 1..Len(queue)
      BY <1>3, LenProperties DEF Shape, TypeOK
    <3> QED
      BY <2>2, <3>1, HeadOfQueue DEF Shape, Carried
  <2> QED
    BY <2>1, <2>2
<1> QED
  BY <1>1, <1>2, <1>3, <1>4 DEF Shape, TypeOK, Carried, Ends, Steady

\* What a worker says of a track, or of itself.
LEMMA Said ==
    ASSUME NEW w \in Workers
    PROVE  /\ \A t \in Tracks, ok \in BOOLEAN : Proper(Answer(w, t, ok))
           /\ \A type \in {"ready", "init_error"} : Proper(Says(w, type))
  BY NoneIsNoTrack DEF Answer, Says, Message, Proper

LEMMA WorkerKeepsShape ==
    ASSUME Shape, NEW w \in Workers, WorkerStep(w) \/ Fault(w)
    PROVE  Shape'
<1>1. PICK p \in WorkerState : Sound(p) /\ worker' = [worker EXCEPT ![w] = p]
  BY WorkerMoves DEF Moves
<1>2. Alive(w) /\ Running
  BY WorkerMoves DEF Shape, Ends, Live
<1>3. worker' \in [Workers -> WorkerState] /\ Holds'
  BY <1>1 DEF Shape, TypeOK, Holds
<1>4. Steady /\ phase' = phase /\ Running'
  BY <1>2 DEF Steady, WorkerStep, Fault, Load, Fetch, Begin, Exit, AnswerLoaded, WritePrediction,
              WriteMarker, InferFails, InitFails, Killed, Hangs, WorkerOnly, mainVars, Running
<1>5. phase' \in Phases
  BY <1>4 DEF Shape, TypeOK
<1>6. struck' \subseteq Workers
  BY DEF Shape, TypeOK, WorkerStep, Fault, Load, Fetch, Begin, Exit, AnswerLoaded, WritePrediction,
         WriteMarker, InferFails, InitFails, Killed, Hangs, WorkerOnly
<1>7. queue' = queue \/ (queue # <<>> /\ queue' = Tail(queue))
  BY DEF WorkerStep, Fault, Load, Fetch, Begin, Exit, AnswerLoaded, WritePrediction,
         WriteMarker, InferFails, InitFails, Killed, Hangs
<1>8. torn' \subseteq Tracks
  <2>1. TornBy({w}) \subseteq Tracks
    BY DEF TornBy, Shape, TypeOK, Holds, Sound, WorkerState
  <2> QED
    BY <2>1 DEF Shape, TypeOK, WorkerStep, Fault, Load, Fetch, Begin, Exit, AnswerLoaded,
         WritePrediction, WriteMarker, InferFails, InitFails, Killed, Hangs, Ended, files
<1>9. worker[w].step \in {"infer", "predicted"} => worker[w].track \in Tracks
  BY DEF Shape, TypeOK, Holds, Sound, WorkerState
<1>10. prediction' \in [Tracks -> Outcome] /\ marker' \in [Tracks -> Outcome]
  BY <1>9 DEF Shape, TypeOK, WorkerStep, Fault, Load, Fetch, Begin, Exit, AnswerLoaded, Outcome,
         WritePrediction, WriteMarker, InferFails, InitFails, Killed, Hangs, files
<1>11. \A m \in messages' : m \in messages \/ Proper(m)
  <2>1. CASE AnswerLoaded(w)
    <3>1. PICK load \in {"skipped", "failed"} :
             /\ worker[w].ahead.load = load
             /\ messages' = messages \cup {Answer(w, worker[w].ahead.track, load = "skipped")}
      BY <2>1 DEF AnswerLoaded, Taken
    <3>2. worker[w].ahead.track \in Tracks
      BY <3>1 DEF Shape, TypeOK, Holds, Sound, Fits, WorkerState, Ahead
    <3> QED
      BY <3>1, <3>2, Said
  <2>2. CASE WriteMarker(w) \/ InferFails(w)
    <3>1. PICK ok \in BOOLEAN : messages' = messages \cup {Answer(w, worker[w].track, ok)}
      BY <2>2 DEF WriteMarker, InferFails
    <3>2. worker[w].track \in Tracks
      BY <1>9, <2>2 DEF WriteMarker, InferFails
    <3> QED
      BY <3>1, <3>2, Said
  <2>3. CASE Load(w) \/ InitFails(w)
    BY <2>3, Said DEF Load, InitFails
  <2>4. CASE Killed(w)
    BY <2>4 DEF Killed
  <2>5. CASE Fetch(w) \/ Begin(w) \/ Exit(w) \/ WritePrediction(w) \/ Hangs(w)
    BY <2>5 DEF Fetch, Begin, Exit, WritePrediction, Hangs
  <2> QED
    BY <2>1, <2>2, <2>3, <2>4, <2>5 DEF WorkerStep, Fault
<1> QED
  BY <1>3, <1>4, <1>5, <1>6, <1>7, <1>8, <1>10, <1>11, ShapeKept

\* Initially no process runs.
LEMMA InitShape == SongFormerInit => Shape
<1> SUFFICES ASSUME SongFormerInit PROVE Shape
  OBVIOUS
<1>1. \A w \in Workers : worker[w] = Process("absent") /\ worker[w] \in WorkerState
  BY DEF SongFormerInit, Process, WorkerState, Ahead, Nothing
<1>2. TypeOK
  <2>1. worker \in [Workers -> WorkerState]
    BY <1>1 DEF SongFormerInit
  <2>2. contentType \in [Tracks -> ContentTypes]
    BY DEF SongFormerInit
  <2>3. rows \in [Tracks -> OutputRow]
    BY DEF SongFormerInit, NoRow, OutputRow, Outcome
  <2>4. prediction \in [Tracks -> Outcome] /\ marker \in [Tracks -> Outcome]
    BY DEF SongFormerInit, Outcome
  <2> QED
    BY <2>1, <2>2, <2>3, <2>4, EmptySeq DEF SongFormerInit, TypeOK, Phases
<1>3. Holds
  BY <1>1, ProcessIsSound DEF Holds, Sound, Fits, Process, Nothing, Stop
<1>4. Carried /\ Ends
  BY <1>1 DEF SongFormerInit, Carried, Ends, Live, Alive, Process
<1> QED
  BY <1>2, <1>3, <1>4 DEF Shape

LEMMA MergedRows ==
    ASSUME Shape PROVE Merged \in [Tracks -> OutputRow]
  BY DEF Merged, Shape, TypeOK, OutputRow, Outcome

\* The actions of the main process that leave the workers alone.
LEMMA MainKeepsShape ==
    ASSUME Shape, MergeOnly \/ HearReady \/ Put \/ Collect \/ JoinAndMerge \/ Raise
    PROVE  Shape'
<1>1. UNCHANGED <<contentType, files, tasks, worker>> /\ Live' = Live /\ Holds'
  BY DEF Shape, MergeOnly, HearReady, Put, Collect, JoinAndMerge, Raise, Live, Alive, Holds
<1>2. rows' \in [Tracks -> OutputRow]
  BY MergedRows DEF Shape, TypeOK, MergeOnly, HearReady, Put, Collect, JoinAndMerge, Raise
<1>3. messages' \subseteq messages
  BY DEF MergeOnly, HearReady, Put, Collect, JoinAndMerge, Raise
<1>4. phase' \in Phases /\ sent' \in Nat /\ struck' \subseteq Workers
  BY DEF Shape, TypeOK, Phases, MergeOnly, HearReady, Put, Collect, JoinAndMerge, Raise
<1>5. ready' \subseteq Workers
  BY DEF Shape, TypeOK, Message, MergeOnly, HearReady, Put, Collect, JoinAndMerge, Raise
<1>6. received' \subseteq Tracks /\ failures' \subseteq Tracks
  BY DEF Shape, TypeOK, Carried, MergeOnly, HearReady, Put, Collect, JoinAndMerge, Raise
<1>7. /\ queue' \in Seq(QueueItem)
      /\ \A n \in DOMAIN queue' : queue'[n] # Stop =>
             queue'[n].load = "task" /\ queue'[n].track \in Usable
  <2>1. CASE queue' = queue
    BY <2>1 DEF Shape, TypeOK, Carried
  <2>2. CASE Put
    <3> DEFINE item == Item(sent + 1)
    <3>1. item = Stop \/ (item.load = "task" /\ item.track \in Usable)
      BY ElementOfSeq DEF Shape, TypeOK, Item
    <3>2. item \in QueueItem
      <4>1. CASE sent + 1 <= Len(tasks)
        <5>1. tasks[sent + 1] \in Usable
          BY <4>1, ElementOfSeq DEF Shape, TypeOK
        <5> QED
          BY <4>1, <5>1 DEF Item, QueueItem, Usable
      <4>2. CASE ~(sent + 1 <= Len(tasks))
        BY <4>2 DEF Item, QueueItem, Stop
      <4> QED
        BY <4>1, <4>2
    <3>3. queue' = Append(queue, item)
      BY <2>2 DEF Put
    <3> HIDE DEF item
    <3>4. /\ queue' \in Seq(QueueItem)
          /\ DOMAIN queue' = 1..Len(queue) + 1
          /\ \A n \in 1..Len(queue) : queue'[n] = queue[n]
          /\ queue'[Len(queue) + 1] = item
          /\ DOMAIN queue = 1..Len(queue)
      BY <3>2, <3>3, AppendProperties, LenProperties DEF Shape, TypeOK
    <3>5. \A n \in DOMAIN queue' : n \in DOMAIN queue \/ n = Len(queue) + 1
      BY <3>4, LenProperties DEF Shape, TypeOK
    <3> QED
      BY <3>1, <3>4, <3>5 DEF Shape, Carried
  <2> QED
    BY <2>1, <2>2 DEF MergeOnly, HearReady, Collect, JoinAndMerge, Raise
<1>8. ~Running' => Live' = {}
  <2>1. CASE JoinAndMerge
    BY <1>1, <2>1 DEF JoinAndMerge, Live, Alive
  <2>2. CASE MergeOnly
    BY <1>1, <2>2 DEF MergeOnly, Shape, Ends
  <2>3. CASE HearReady \/ Put \/ Collect \/ Raise
    BY <1>1, <2>3 DEF HearReady, Put, Collect, Raise, Running, Shape, Ends
  <2> QED
    BY <2>1, <2>2, <2>3
<1>9. Carried'
  BY <1>3, <1>7 DEF Shape, Carried
<1>10. TypeOK'
  BY <1>1, <1>2, <1>3, <1>4, <1>5, <1>6, <1>7 DEF Shape, TypeOK, files
<1> QED
  BY <1>1, <1>8, <1>9, <1>10 DEF Shape, Ends

LEMMA StartKeepsShape ==
    ASSUME Shape, StartWorkers PROVE Shape'
<1>1. \A w \in Workers : worker'[w] = Process("starting")
  BY DEF StartWorkers
<1>2. worker' \in [Workers -> WorkerState] /\ Holds'
  BY <1>1, ProcessIsSound DEF StartWorkers, Holds
<1>3. tasks' \in Seq(Usable)
  BY TasksAreNew DEF StartWorkers
<1>4. queue' \in Seq(QueueItem) /\ DOMAIN queue' = {}
  BY EmptySeq DEF StartWorkers
<1> QED
  BY <1>2, <1>3, <1>4 DEF Shape, TypeOK, Carried, Ends, StartWorkers, Running, Phases, files

LEMMA EndKeepsShape ==
    ASSUME Shape, Terminate \/ RaiseThrough \/ HostCrash PROVE Shape'
<1>1. CASE Terminate
  <2>1. PICK w \in Live : Ended({w}) /\ phase' = IF Live = {w} THEN "failed" ELSE phase
    BY <1>1 DEF Terminate
  <2>2. {w} \subseteq Workers
    BY DEF Live
  <2>3. Live' = Live \ {w} /\ Holds' /\ torn' \subseteq Tracks
        /\ worker' \in [Workers -> WorkerState]
    BY <2>1, <2>2, EndedShape DEF Shape
  <2>4. ~Running' => Live' = {}
    BY <1>1, <2>1, <2>3 DEF Terminate, Running
  <2> QED
    BY <1>1, <2>1, <2>3, <2>4, ShapeKept DEF Terminate, Steady, Shape, TypeOK, Phases
<1>2. CASE RaiseThrough
  BY <1>2 DEF RaiseThrough, Shape, TypeOK, Phases, Holds, Carried, Ends, Live, Alive, files
<1>3. CASE HostCrash
  <2>1. Ended(Live) /\ Live \subseteq Workers
    BY <1>3 DEF HostCrash, Live
  <2>2. Live' = {} /\ Holds' /\ torn' \subseteq Tracks /\ worker' \in [Workers -> WorkerState]
    BY <2>1, EndedShape DEF Shape
  <2> QED
    BY <1>3, <2>2, ShapeKept DEF HostCrash, Steady, Shape, TypeOK, Phases
<1> QED
  BY <1>1, <1>2, <1>3

LEMMA RerouteKeepsShape ==
    ASSUME Shape, NEW t \in Tracks, Reroute(t) PROVE Shape'
<1>1. contentType' \in [Tracks -> ContentTypes]
  <2>1. (CHOOSE c \in ContentTypes : c # contentType[t]) \in ContentTypes
    BY DEF ContentTypes
  <2> QED
    BY <2>1 DEF Reroute, Shape, TypeOK
<1> QED
  BY <1>1 DEF Reroute, Shape, TypeOK, Phases, Holds, Carried, Ends, Live, Alive, files, Running

LEMMA StepShape == Shape /\ [SongFormerNext]_songFormerVars => Shape'
<1> SUFFICES ASSUME Shape, [SongFormerNext]_songFormerVars PROVE Shape'
  OBVIOUS
<1>1. ASSUME NEW w \in Workers, WorkerStep(w) \/ Fault(w) PROVE Shape'
  BY <1>1, WorkerKeepsShape
<1>2. ASSUME NEW t \in Tracks \ Unusable, Reroute(t) PROVE Shape'
  BY <1>2, RerouteKeepsShape
<1>3. ASSUME UNCHANGED songFormerVars PROVE Shape'
  BY <1>3 DEF songFormerVars, files, mainVars, Shape, TypeOK, Holds, Carried, Ends, Live, Alive,
              Running
<1> QED
  BY <1>1, <1>2, <1>3, MainKeepsShape, StartKeepsShape, EndKeepsShape DEF SongFormerNext, MainStep

\* Type correctness of the structure stage.
THEOREM TypeCorrect == SongFormerSpec => []TypeOK
<1>1. Shape => TypeOK
  BY DEF Shape
<1> QED
  BY <1>1, InitShape, StepShape, PTL DEF SongFormerSpec

-----------------------------------------------------------------------------
(* What the output rows say. *)

\* What Now says, of the next state.
Then(t) == prediction'[t] # "none" /\ marker'[t] = contentType'[t]

\* Nothing of a track is taken back while a run goes on: its content type stays, and a
\* prediction that can be reused stays so.
LEMMA NowIsKept ==
    ASSUME Shape, Running, SongFormerNext
    PROVE  /\ contentType' = contentType /\ tasks' = tasks
           /\ \A t \in Tracks : Now(t) => Then(t)
<1>0. ~MergeOnly /\ ~StartWorkers /\ \A t \in Tracks : ~Reroute(t)
  BY DEF MergeOnly, StartWorkers, Reroute
<1>1. CASE prediction' = prediction /\ marker' = marker /\ contentType' = contentType
           /\ tasks' = tasks
  BY <1>1 DEF Now, Reusable, Then
<1>2. ASSUME NEW w \in Workers, WritePrediction(w) \/ WriteMarker(w)
      PROVE  /\ contentType' = contentType /\ tasks' = tasks
             /\ \A t \in Tracks : Now(t) => Then(t)
  <2>1. worker[w].track \in Tracks /\ contentType[worker[w].track] # "none"
    BY <1>2 DEF WritePrediction, WriteMarker, Shape, TypeOK, Holds, Sound, WorkerState, ContentTypes
  <2> QED
    BY <1>2, <2>1 DEF WritePrediction, WriteMarker, WorkerOnly, mainVars, Now, Reusable,
                      Then, Shape, TypeOK
<1>3. ASSUME NEW w \in Workers, WorkerStep(w) \/ Fault(w),
             ~WritePrediction(w), ~WriteMarker(w)
      PROVE  UNCHANGED <<prediction, marker, contentType, tasks>>
  BY <1>3 DEF WorkerStep, Fault, Load, Fetch, Begin, Exit, AnswerLoaded, InferFails, InitFails,
              Killed, Hangs, WorkerOnly, files, mainVars
<1>4. ASSUME MainStep \/ HostCrash PROVE UNCHANGED <<prediction, marker, contentType, tasks>>
  BY <1>0, <1>4 DEF MainStep, HearReady, Put, Collect, JoinAndMerge, Raise, Terminate,
                    RaiseThrough, HostCrash, files
<1> QED
  BY <1>0, <1>1, <1>2, <1>3, <1>4 DEF SongFormerNext

\* Where a step can leave a running state, and what it then leaves of the rows.
LEMMA RowsAreMerged ==
    ASSUME OutputInv, SongFormerNext, phase' = "done"
    PROVE  /\ rows' = Merged /\ UNCHANGED <<contentType, files, failures>>
           /\ MergeOnly \/ JoinAndMerge
<1>1. ASSUME NEW w \in Workers, WorkerStep(w) \/ Fault(w) PROVE phase' = phase /\ Running
  <2>1. Running
    BY <1>1, WorkerMoves DEF OutputInv, Shape, Ends, Live
  <2> QED
    BY <1>1, <2>1 DEF WorkerStep, Fault, Load, Fetch, Begin, Exit, AnswerLoaded, WritePrediction,
              WriteMarker, InferFails, InitFails, Killed, Hangs, WorkerOnly, mainVars
<1>2. MergeOnly \/ JoinAndMerge
  BY <1>1 DEF SongFormerNext, MainStep, StartWorkers, HearReady, Put, Collect, Raise, Terminate,
         RaiseThrough, HostCrash, Reroute, Running
<1> QED
  BY <1>2 DEF MergeOnly, JoinAndMerge, files

\* The rows of a finished run.
LEMMA StepOutput ==
    ASSUME OutputInv, SongFormerNext PROVE OutputIsTrue'
<1> SUFFICES ASSUME phase' = "done", NEW t \in Tracks
             PROVE  /\ rows'[t].state = "error" => t \in Unusable \cup failures'
                    /\ rows'[t].state = "ok" =>
                          rows'[t].structure = contentType'[t] \/ t \in torn'
                    /\ rows'[t].state # "none"
  BY DEF OutputIsTrue
<1>1. rows' = Merged /\ UNCHANGED <<contentType, files, failures>>
  BY RowsAreMerged
<1>2. \A w \in Workers : worker[w].step = "wait"
  <2>1. \A w \in Workers : ~Alive(w)
    BY RowsAreMerged DEF MergeOnly, JoinAndMerge, OutputInv, Shape, Ends, Live, Alive
  <2> QED
    BY <2>1 DEF OutputInv, Shape, Holds, Sound, Process, Alive, TypeOK, WorkerState
<1>3. t \in Usable /\ ~Now(t) => t \in failures
  <2>1. CASE MergeOnly
    <3>1. Range(NewTasks) = {}
      BY <2>1, TasksAreNew, EmptySeq DEF MergeOnly, Range
    <3> QED
      BY <3>1, TasksAreNew
  <2>2. CASE JoinAndMerge
    BY <2>2 DEF JoinAndMerge, OutputInv, DoneIsReusable, AllReceived, Running
  <2> QED
    BY <2>1, <2>2, RowsAreMerged
<1>4. t \in Usable /\ Now(t) => prediction[t] = contentType[t] \/ t \in torn
  BY <1>2 DEF Now, Reusable, OutputInv, Committed, Shape, TypeOK, ContentTypes
<1> QED
  BY <1>1, <1>3, <1>4 DEF Merged, Usable, Now, files

\* The files of a track agree again, or its commit is torn.
LEMMA StepCommitted ==
    ASSUME OutputInv, SongFormerNext PROVE Committed'
<1>a. worker \in [Workers -> WorkerState] /\ prediction \in [Tracks -> Outcome]
      /\ marker \in [Tracks -> Outcome]
  BY DEF OutputInv, Shape, TypeOK
<1>1. ASSUME NEW S \in SUBSET Workers, Ended(S), prediction' = prediction, marker' = marker
      PROVE  Committed'
  <2>1. \A w \in Workers : worker'[w] = IF w \in S THEN Process("dead") ELSE worker[w]
    BY <1>1 DEF Ended
  <2>2. \A w \in Workers : worker[w].step = "predicted" /\ w \in S => worker[w].track \in torn'
    BY <1>1 DEF Ended, TornBy
  <2>3. torn \subseteq torn'
    BY <1>1 DEF Ended
  <2> QED
    BY <1>1, <2>1, <2>2, <2>3 DEF OutputInv, Committed
<1>2. ASSUME NEW w \in Workers, WritePrediction(w) PROVE Committed'
  <2>1. worker[w].step = "infer" /\ worker'[w].step = "predicted"
        /\ worker'[w].track = worker[w].track
        /\ \A v \in Workers \ {w} : worker'[v] = worker[v]
    BY <1>2, <1>a DEF WritePrediction, WorkerState
  <2>2. marker' = marker /\ torn' = torn
        /\ \A u \in Tracks : u = worker[w].track \/ prediction'[u] = prediction[u]
    BY <1>2, <1>a DEF WritePrediction
  <2> QED
    BY <2>1, <2>2 DEF OutputInv, Committed
<1>3. ASSUME NEW w \in Workers, WriteMarker(w) PROVE Committed'
  <2>1. worker[w].step = "predicted" /\ worker[w].track \in Tracks
        /\ \A v \in Workers \ {w} : worker'[v] = worker[v]
    BY <1>3, <1>a DEF WriteMarker, Answered, OutputInv, Shape, Holds, Sound, WorkerState
  <2>2. prediction[worker[w].track] = contentType[worker[w].track]
    BY <2>1, <1>3, WorkerMoves DEF OutputInv, Predicted, Shape, Ends, Live, WorkerStep
  <2>3. prediction' = prediction /\ torn' = torn \ {worker[w].track}
        /\ marker'[worker[w].track] = contentType[worker[w].track]
        /\ \A u \in Tracks : u = worker[w].track \/ marker'[u] = marker[u]
    BY <1>3, <1>a, <2>1 DEF WriteMarker
  <2> QED
    BY <2>1, <2>2, <2>3 DEF OutputInv, Committed
<1>4. ASSUME NEW w \in Workers, InferFails(w) PROVE Committed'
  <2>1. \A v \in Workers \ {w} : worker'[v] = worker[v]
    BY <1>4, <1>a DEF InferFails, Answered
  <2>2. worker[w].step = "predicted" => worker[w].track \in torn'
    BY <1>4 DEF InferFails, TornBy
  <2>3. torn \subseteq torn' /\ UNCHANGED <<prediction, marker>>
    BY <1>4 DEF InferFails
  <2> QED
    BY <2>1, <2>2, <2>3 DEF OutputInv, Committed
<1>5. ASSUME UNCHANGED <<prediction, marker, torn>>,
             \A w \in Workers : worker[w].step = "predicted" =>
                 worker'[w].step = "predicted" /\ worker'[w].track = worker[w].track
      PROVE  Committed'
  BY <1>5 DEF OutputInv, Committed
<1>6. ASSUME NEW w \in Workers,
             Load(w) \/ Fetch(w) \/ Begin(w) \/ Exit(w) \/ AnswerLoaded(w) \/ InitFails(w) \/ Hangs(w)
      PROVE  Committed'
  <2>1. UNCHANGED <<prediction, marker, torn>>
    BY <1>6 DEF Load, Fetch, Begin, Exit, AnswerLoaded, InitFails, Hangs, files
  <2>2. worker[w].step = "predicted" =>
            worker'[w].step = "predicted" /\ worker'[w].track = worker[w].track
    <3>1. CASE Load(w) \/ InitFails(w)
      BY <3>1, Resting DEF Load, InitFails, OutputInv
    <3>2. CASE Begin(w) \/ Exit(w) \/ AnswerLoaded(w)
      BY <3>2 DEF Begin, Exit, AnswerLoaded, Taken
    <3>3. CASE Hangs(w)
      BY <3>3, <1>a DEF Hangs, WorkerState
    <3>4. CASE Fetch(w)
      BY <3>4, <1>a DEF Fetch, WorkerState
    <3> QED
      BY <1>6, <3>1, <3>2, <3>3, <3>4
  <2>3. \A v \in Workers \ {w} : worker'[v] = worker[v]
    <3>1. PICK p \in WorkerState : worker' = [worker EXCEPT ![w] = p]
      BY <1>6, WorkerMoves DEF Moves, OutputInv, WorkerStep, Fault
    <3> QED
      BY <3>1, <1>a
  <2> QED
    BY <1>5, <2>1, <2>2, <2>3
<1>7. ASSUME NEW w \in Workers, Killed(w) PROVE Committed'
  BY <1>1, <1>7 DEF Killed
<1>8. CASE StartWorkers
  <2>1. \A w \in Workers : worker[w].step = "wait"
    <3>1. \A w \in Workers : ~Alive(w)
      BY <1>8 DEF StartWorkers, OutputInv, Shape, Ends, Live
    <3> QED
      BY <3>1, <1>a DEF OutputInv, Shape, Holds, Sound, Process, Alive, WorkerState
  <2> QED
    BY <1>5, <1>8, <2>1 DEF StartWorkers, files
<1>9. CASE Terminate
  BY <1>1, <1>9 DEF Terminate, Live
<1>10. CASE HostCrash
  BY <1>1, <1>10 DEF HostCrash, Live
<1>11. CASE MergeOnly \/ HearReady \/ Put \/ Collect \/ JoinAndMerge \/ Raise \/ RaiseThrough
  BY <1>5, <1>11 DEF MergeOnly, HearReady, Put, Collect, JoinAndMerge, Raise, RaiseThrough, files
<1>12. ASSUME NEW u \in Tracks, Reroute(u) PROVE Committed'
  BY <1>5, <1>12 DEF Reroute, files
<1> QED
  BY <1>2, <1>3, <1>4, <1>6, <1>7, <1>8, <1>9, <1>10, <1>11, <1>12
     DEF SongFormerNext, MainStep, WorkerStep, Fault

\* Between its two writes a worker commits what it inferred in this run.
LEMMA StepPredicted ==
    ASSUME OutputInv, SongFormerNext PROVE Predicted'
<1>a. worker \in [Workers -> WorkerState] /\ prediction \in [Tracks -> Outcome]
  BY DEF OutputInv, Shape, TypeOK
<1>1. CASE StartWorkers
  BY <1>1 DEF StartWorkers, Predicted, Process
<1>2. CASE ~Running'
  BY <1>2 DEF Predicted
<1>3. ASSUME Running, NEW w \in Workers, WritePrediction(w) PROVE Predicted'
  <2>1. \A v \in Workers \ {w} : worker'[v] = worker[v]
    BY <1>3, <1>a DEF WritePrediction
  <2>2. worker'[w].track = worker[w].track /\ worker[w].track \in Tracks
    BY <1>3, <1>a DEF WritePrediction, OutputInv, Shape, Holds, Sound, WorkerState
  <2>3. contentType' = contentType
        /\ prediction' = [prediction EXCEPT ![worker[w].track] = contentType[worker[w].track]]
    BY <1>3 DEF WritePrediction, WorkerOnly
  <2>4. \A v \in Workers : worker[v].step = "predicted" => worker[v].track \in Tracks
    BY <1>a DEF OutputInv, Shape, Holds, Sound, WorkerState
  <2> QED
    BY <1>3, <1>a, <2>1, <2>2, <2>3, <2>4 DEF OutputInv, Predicted
<1>4. ASSUME Running, UNCHANGED <<prediction, contentType>>,
             \A w \in Workers : worker'[w].step = "predicted" =>
                 worker[w].step = "predicted" /\ worker'[w].track = worker[w].track
      PROVE  Predicted'
  BY <1>4 DEF OutputInv, Predicted
<1>5. ASSUME Running, NEW S \in SUBSET Workers, Ended(S), UNCHANGED <<prediction, contentType>>
      PROVE  Predicted'
  BY <1>4, <1>5 DEF Ended, Process
<1>6. ASSUME Running, NEW w \in Workers, WorkerStep(w) \/ Fault(w),
             ~WritePrediction(w), ~Killed(w)
      PROVE  Predicted'
  <2>1. UNCHANGED <<prediction, contentType>>
    BY <1>6 DEF WorkerStep, Fault, Load, Fetch, Begin, Exit, AnswerLoaded, WriteMarker, InferFails,
         InitFails, Hangs, WorkerOnly, files
  <2>2. \A v \in Workers \ {w} : worker'[v] = worker[v]
    <3>1. PICK p \in WorkerState : worker' = [worker EXCEPT ![w] = p]
      BY <1>6, WorkerMoves DEF Moves, OutputInv
    <3> QED
      BY <3>1, <1>a
  <2>3. worker'[w].step = "predicted" =>
            worker[w].step = "predicted" /\ worker'[w].track = worker[w].track
    <3>1. CASE Load(w) \/ Exit(w) \/ AnswerLoaded(w) \/ InitFails(w)
      BY <1>a, <3>1 DEF Load, Exit, AnswerLoaded, InitFails, Process
    <3>2. CASE Begin(w)
      BY <1>a, <3>2 DEF Begin
    <3>3. CASE Fetch(w)
      BY <1>a, <3>3 DEF Fetch, WorkerState
    <3>4. CASE WriteMarker(w) \/ InferFails(w)
      BY <1>a, <3>4 DEF WriteMarker, InferFails, Answered, WorkerState
    <3>5. CASE Hangs(w)
      BY <1>a, <3>5 DEF Hangs, WorkerState
    <3> QED
      BY <1>6, <3>1, <3>2, <3>3, <3>4, <3>5 DEF WorkerStep, Fault
  <2> QED
    BY <1>4, <1>6, <2>1, <2>2, <2>3
<1>7. CASE Running /\ (HearReady \/ Put \/ Collect \/ JoinAndMerge \/ Raise \/ RaiseThrough)
  BY <1>4, <1>7 DEF HearReady, Put, Collect, JoinAndMerge, Raise, RaiseThrough, files
<1>8. CASE Running /\ (Terminate \/ HostCrash)
  BY <1>5, <1>8 DEF Terminate, HostCrash, Live
<1>9. ASSUME Running, NEW w \in Workers, Killed(w) PROVE Predicted'
  BY <1>5, <1>9 DEF Killed
<1>10. CASE Running /\ (MergeOnly \/ \E t \in Tracks : Reroute(t))
  BY <1>10 DEF MergeOnly, Reroute
<1>11. CASE ~Running /\ ~StartWorkers
  <2>1. ~Running'
    <3>1. ASSUME NEW w \in Workers, WorkerStep(w) \/ Fault(w) PROVE FALSE
      BY <1>11, <3>1, WorkerMoves DEF OutputInv, Shape, Ends, Live
    <3>2. phase \in {"new", "done", "failed"}
      BY <1>11 DEF Running
    <3>3. MergeOnly \/ \E t \in Tracks : Reroute(t)
      <4>1. ~HearReady /\ ~Put /\ ~Collect /\ ~JoinAndMerge
        BY <3>2 DEF HearReady, Put, Collect, JoinAndMerge
      <4>2. ~Terminate /\ ~RaiseThrough /\ ~HostCrash
        BY <1>11, <3>2 DEF Terminate, RaiseThrough, HostCrash
      <4>3. ~Raise
        BY <3>2 DEF Raise, BadMessage, Stalled
      <4> QED
        BY <1>11, <3>1, <4>1, <4>2, <4>3 DEF SongFormerNext, MainStep
    <3> QED
      BY <3>3 DEF MergeOnly, Reroute, Running
  <2> QED
    BY <1>2, <2>1
<1> QED
  BY <1>1, <1>3, <1>6, <1>7, <1>8, <1>9, <1>10, <1>11 DEF SongFormerNext, MainStep

\* Every task is received before the workers are joined.
LEMMA StepAllReceived ==
    ASSUME OutputInv, SongFormerNext PROVE AllReceived'
<1>1. CASE phase' # "join"
  BY <1>1 DEF AllReceived
<1>2. CASE phase = "join" /\ phase' = "join"
  <2>1. ASSUME NEW w \in Workers, WorkerStep(w) \/ Fault(w) PROVE UNCHANGED <<received, tasks>>
    BY <2>1 DEF WorkerStep, Fault, Load, Fetch, Begin, Exit, AnswerLoaded, WritePrediction,
           WriteMarker, InferFails, InitFails, Killed, Hangs, WorkerOnly, mainVars
  <2>2. UNCHANGED <<received, tasks>>
    BY <1>2, <2>1 DEF SongFormerNext, MainStep, MergeOnly, StartWorkers, HearReady, Put, Collect,
           JoinAndMerge, Raise, Terminate, RaiseThrough, HostCrash, Reroute
  <2> QED
    BY <1>2, <2>2 DEF OutputInv, AllReceived, Expected
<1>3. CASE phase # "join" /\ phase' = "join"
  <2>1. ASSUME NEW w \in Workers, WorkerStep(w) \/ Fault(w) PROVE phase' = phase
    BY <2>1 DEF WorkerStep, Fault, Load, Fetch, Begin, Exit, AnswerLoaded, WritePrediction,
           WriteMarker, InferFails, InitFails, Killed, Hangs, WorkerOnly, mainVars
  <2>2. Collect
    BY <1>3, <2>1 DEF SongFormerNext, MainStep, MergeOnly, StartWorkers, HearReady, Put,
           JoinAndMerge, Raise, Terminate, RaiseThrough, HostCrash, Reroute
  <2> QED
    BY <1>3, <2>2 DEF Collect, AllReceived, Expected
<1> QED
  BY <1>1, <1>2, <1>3

\* What is called done stays reusable, and nothing else is called done.
LEMMA StepDone ==
    ASSUME OutputInv, SongFormerNext PROVE DoneIsReusable'
<1>a. worker \in [Workers -> WorkerState]
  BY DEF OutputInv, Shape, TypeOK
<1>b. /\ \A w \in Workers : worker[w].ahead.load = "skipped" => worker[w].ahead.track \in Tracks
      /\ \A m \in messages : m.type = "result" => m.track \in Tracks
      /\ received \subseteq Tracks /\ Usable \subseteq Tracks
  BY <1>a DEF OutputInv, Shape, TypeOK, Holds, Sound, Fits, WorkerState, Ahead, Carried, Usable
<1>1. CASE StartWorkers
  <2>1. \A t \in Usable : t \in Range(NewTasks) \/ Now(t)
    BY TasksAreNew
  <2>2. \A w \in Workers : worker'[w].ahead.load = "nothing"
    BY <1>1 DEF StartWorkers, Process, Nothing
  <2>3. UNCHANGED <<contentType, prediction, marker>> /\ Expected' = Range(NewTasks)
        /\ messages' = {} /\ received' = {}
    BY <1>1 DEF StartWorkers, files, Expected
  <2> QED
    BY <2>1, <2>2, <2>3 DEF DoneIsReusable, Now, Reusable
<1>2. CASE ~Running'
  BY <1>2 DEF DoneIsReusable
<1>3. CASE ~Running /\ Running' /\ ~StartWorkers
  <2>1. ASSUME NEW w \in Workers, WorkerStep(w) \/ Fault(w) PROVE FALSE
    BY <1>3, <2>1, WorkerMoves DEF OutputInv, Shape, Ends, Live
  <2>2. phase \in {"new", "done", "failed"}
    BY <1>3 DEF Running
  <2>3. ~HearReady /\ ~Put /\ ~Collect /\ ~JoinAndMerge
    BY <2>2 DEF HearReady, Put, Collect, JoinAndMerge
  <2>4. ~Terminate /\ ~RaiseThrough /\ ~HostCrash
    BY <1>3, <2>2 DEF Terminate, RaiseThrough, HostCrash
  <2>5. ~Raise
    BY <2>2 DEF Raise, BadMessage, Stalled
  <2>6. ~MergeOnly /\ \A t \in Tracks : ~Reroute(t)
    BY <1>3 DEF MergeOnly, Reroute, Running
  <2> QED
    BY <1>3, <2>1, <2>3, <2>4, <2>5, <2>6 DEF SongFormerNext, MainStep
<1>4. CASE Running /\ Running'
  <2>1. /\ contentType' = contentType /\ tasks' = tasks
        /\ \A t \in Tracks : Now(t) => Then(t)
    BY <1>4, NowIsKept DEF OutputInv
  <2>2. \A t \in Usable : t \in Expected' \/ Then(t)
    BY <1>4, <1>b, <2>1 DEF OutputInv, DoneIsReusable, Expected
  <2>3. \A w \in Workers : worker'[w].ahead.load = "skipped" => Then(worker'[w].ahead.track)
    <3>1. ASSUME NEW w \in Workers,
                 worker'[w].ahead = worker[w].ahead \/ worker'[w].ahead.load # "skipped"
          PROVE  worker'[w].ahead.load = "skipped" => Then(worker'[w].ahead.track)
      BY <1>4, <1>b, <2>1, <3>1 DEF OutputInv, DoneIsReusable
    <3>2. ASSUME NEW w \in Workers, Fetch(w),
                 worker'[w].ahead.load = "skipped"
          PROVE  Then(worker'[w].ahead.track)
      <4>1. Head(queue) # Stop
        BY <1>a, <3>2 DEF Fetch, Stop, WorkerState
      <4>2. Head(queue).track \in Tracks
        BY <3>2, <4>1, HeadOfQueue DEF Fetch, OutputInv, Shape, Usable
      <4>3. worker'[w].ahead.track = Head(queue).track /\ Now(Head(queue).track)
        BY <1>a, <3>2, <4>1 DEF Fetch, Now, WorkerState
      <4> QED
        BY <2>1, <4>2, <4>3
    <3>3. ASSUME NEW w \in Workers, WorkerStep(w) \/ Fault(w), NEW v \in Workers
          PROVE  worker'[v].ahead.load = "skipped" => Then(worker'[v].ahead.track)
      <4>1. CASE v # w
        <5>1. worker'[v] = worker[v]
          BY <1>a, <3>3, <4>1, WorkerMoves DEF Moves, OutputInv
        <5> QED
          BY <3>1, <5>1
      <4>2. CASE v = w /\ Fetch(w)
        BY <3>2, <4>2
      <4>3. CASE v = w /\ (Load(w) \/ Begin(w) \/ Exit(w) \/ AnswerLoaded(w) \/ InitFails(w))
        <5>1. worker'[w].ahead.load # "skipped"
          BY <1>a, <4>3 DEF Load, Begin, Exit, AnswerLoaded, InitFails, Process, Nothing
        <5> QED
          BY <3>1, <4>3, <5>1
      <4>4. CASE v = w /\ (WritePrediction(w) \/ WriteMarker(w) \/ InferFails(w) \/ Hangs(w))
        <5>1. worker'[w].ahead = worker[w].ahead
          BY <1>a, <4>4 DEF WritePrediction, WriteMarker, InferFails, Hangs, Answered, WorkerState
        <5> QED
          BY <3>1, <4>4, <5>1
      <4>5. CASE v = w /\ Killed(w)
        <5>1. worker'[w].ahead.load # "skipped"
          BY <4>5 DEF Killed, Ended, Process, Nothing
        <5> QED
          BY <3>1, <4>5, <5>1
      <4> QED
        BY <3>3, <4>1, <4>2, <4>3, <4>4, <4>5 DEF WorkerStep, Fault
    <3>4. CASE MainStep \/ HostCrash \/ \E t \in Tracks : Reroute(t)
      <4>1. \A w \in Workers : worker'[w] = worker[w] \/ worker'[w].ahead.load # "skipped"
        <5>1. ASSUME NEW S \in SUBSET Workers, Ended(S), NEW w \in Workers
              PROVE  worker'[w] = worker[w] \/ worker'[w].ahead.load # "skipped"
          BY <5>1 DEF Ended, Process, Nothing
        <5>2. CASE Terminate \/ HostCrash
          BY <5>1, <5>2 DEF Terminate, HostCrash, Live
        <5>3. ASSUME ~Terminate, ~HostCrash PROVE worker' = worker
          BY <1>4, <3>4, <5>3 DEF MainStep, MergeOnly, StartWorkers, HearReady, Put, Collect,
                 JoinAndMerge, Raise, RaiseThrough, Reroute
        <5> QED
          BY <5>2, <5>3
      <4> QED
        BY <3>1, <4>1
    <3> QED
      BY <3>3, <3>4 DEF SongFormerNext
  <2>4. \A m \in messages' : m.type = "result" /\ m.ok => Then(m.track)
    <3>1. ASSUME messages' \subseteq messages
          PROVE  \A m \in messages' : m.type = "result" /\ m.ok => Then(m.track)
      BY <1>4, <1>b, <2>1, <3>1 DEF OutputInv, DoneIsReusable
    <3>2. ASSUME NEW m, messages' = messages \cup {m},
                 m.type = "result" /\ m.ok => m.track \in Tracks /\ Then(m.track)
          PROVE  \A l \in messages' : l.type = "result" /\ l.ok => Then(l.track)
      BY <1>4, <1>b, <2>1, <3>2 DEF OutputInv, DoneIsReusable
    <3>3. ASSUME NEW w \in Workers, Load(w) \/ InitFails(w)
          PROVE  \A m \in messages' : m.type = "result" /\ m.ok => Then(m.track)
      BY <3>2, <3>3 DEF Load, InitFails, Says
    <3>4. ASSUME NEW w \in Workers, AnswerLoaded(w)
          PROVE  \A m \in messages' : m.type = "result" /\ m.ok => Then(m.track)
      <4>1. PICK load \in {"skipped", "failed"} :
               /\ worker[w].ahead.load = load
               /\ messages' = messages \cup {Answer(w, worker[w].ahead.track, load = "skipped")}
        BY <3>4 DEF AnswerLoaded, Taken
      <4> DEFINE m == Answer(w, worker[w].ahead.track, load = "skipped")
      <4>2. m.ok => load = "skipped" /\ m.track = worker[w].ahead.track
        BY DEF Answer
      <4>3. m.ok => m.track \in Tracks /\ Now(m.track)
        BY <1>4, <1>b, <4>1, <4>2 DEF OutputInv, DoneIsReusable
      <4>4. m.ok => m.track \in Tracks /\ Then(m.track)
        BY <2>1, <4>3, <4>2
      <4> HIDE DEF m
      <4> QED
        BY <3>2, <4>1, <4>4 DEF m
    <3>5. ASSUME NEW w \in Workers, WriteMarker(w)
          PROVE  \A m \in messages' : m.type = "result" /\ m.ok => Then(m.track)
      <4>1. worker[w].track \in Tracks /\ worker[w].step = "predicted"
        BY <1>a, <3>5 DEF WriteMarker, OutputInv, Shape, Holds, Sound, WorkerState
      <4>2. prediction[worker[w].track] = contentType[worker[w].track]
            /\ contentType[worker[w].track] # "none"
        BY <1>4, <4>1 DEF OutputInv, Predicted, Shape, TypeOK, ContentTypes
      <4>3. Then(worker[w].track)
        BY <2>1, <3>5, <4>1, <4>2 DEF WriteMarker, Then, OutputInv, Shape, TypeOK
      <4> DEFINE m == Answer(w, worker[w].track, TRUE)
      <4>4. messages' = messages \cup {m} /\ m.track = worker[w].track
        BY <3>5 DEF WriteMarker, Answer
      <4> HIDE DEF m
      <4> QED
        BY <3>2, <4>1, <4>3, <4>4
    <3>6. ASSUME NEW w \in Workers, InferFails(w)
          PROVE  \A m \in messages' : m.type = "result" /\ m.ok => Then(m.track)
      <4> DEFINE m == Answer(w, worker[w].track, FALSE)
      <4>1. messages' = messages \cup {m} /\ ~m.ok
        BY <3>6 DEF InferFails, Answer
      <4> HIDE DEF m
      <4> QED
        BY <3>2, <4>1
    <3>7. ASSUME NEW w \in Workers,
                 Fetch(w) \/ Begin(w) \/ Exit(w) \/ WritePrediction(w) \/ Killed(w) \/ Hangs(w)
          PROVE  messages' \subseteq messages
      BY <3>7 DEF Fetch, Begin, Exit, WritePrediction, Killed, Hangs
    <3>8. CASE MainStep \/ HostCrash \/ \E t \in Tracks : Reroute(t)
      <4>1. messages' \subseteq messages
        BY <3>8 DEF MainStep, MergeOnly, StartWorkers, HearReady, Put, Collect, JoinAndMerge, Raise,
               Terminate, RaiseThrough, HostCrash, Reroute
      <4> QED
        BY <3>1, <4>1
    <3> QED
      BY <3>1, <3>3, <3>4, <3>5, <3>6, <3>7, <3>8 DEF SongFormerNext, WorkerStep, Fault
  <2>5. \A t \in received' \ failures' : Then(t)
    <3>1. CASE UNCHANGED <<received, failures>>
      BY <1>4, <1>b, <2>1, <3>1 DEF OutputInv, DoneIsReusable
    <3>2. CASE Collect
      <4>1. PICK m \in messages :
               /\ m.type = "result" /\ received' = received \cup {m.track}
               /\ failures' = IF m.ok THEN failures ELSE failures \cup {m.track}
        BY <3>2 DEF Collect
      <4>2. m.ok => Now(m.track) /\ m.track \in Tracks
        BY <1>4, <1>b, <4>1 DEF OutputInv, DoneIsReusable
      <4>3. \A t \in received' \ failures' : Now(t) /\ t \in Tracks
        BY <1>4, <1>b, <4>1, <4>2 DEF OutputInv, DoneIsReusable
      <4> QED
        BY <2>1, <4>3
    <3>3. ASSUME NEW w \in Workers, WorkerStep(w) \/ Fault(w) PROVE UNCHANGED <<received, failures>>
      BY <3>3 DEF WorkerStep, Fault, Load, Fetch, Begin, Exit, AnswerLoaded, WritePrediction,
             WriteMarker, InferFails, InitFails, Killed, Hangs, WorkerOnly, mainVars
    <3>4. ASSUME MainStep \/ HostCrash \/ \E t \in Tracks : Reroute(t), ~Collect
          PROVE  UNCHANGED <<received, failures>>
      BY <1>4, <3>4 DEF MainStep, MergeOnly, StartWorkers, HearReady, Put, JoinAndMerge, Raise,
             Terminate, RaiseThrough, HostCrash, Reroute
    <3> QED
      BY <3>1, <3>2, <3>3, <3>4 DEF SongFormerNext
  <2> QED
    BY <2>2, <2>3, <2>4, <2>5 DEF DoneIsReusable, Now, Reusable, Then
<1> QED
  BY <1>1, <1>2, <1>3, <1>4

LEMMA StepOutputInv == OutputInv /\ [SongFormerNext]_songFormerVars => OutputInv'
<1>1. CASE UNCHANGED songFormerVars
  BY <1>1, StepShape DEF songFormerVars, files, mainVars, OutputInv, DoneIsReusable, AllReceived,
         Committed, Predicted, OutputIsTrue, Running, Now, Reusable, Expected
<1>2. CASE SongFormerNext
  BY <1>2, StepShape, StepDone, StepAllReceived, StepCommitted, StepPredicted, StepOutput
     DEF OutputInv
<1> QED
  BY <1>1, <1>2

LEMMA InitOutputInv == SongFormerInit => OutputInv
<1> SUFFICES ASSUME SongFormerInit PROVE OutputInv
  OBVIOUS
<1>1. ~Running /\ phase = "new" /\ \A t \in Tracks : marker[t] = "none"
  BY DEF SongFormerInit, Running
<1> QED
  BY <1>1, InitShape DEF OutputInv, DoneIsReusable, AllReceived, Committed, Predicted, OutputIsTrue

\* A finished run has a row for every track; a row that says ok holds a structure inferred as
\* the content type the track has now, unless a commit of that track was once stopped between
\* the prediction and its metadata.
THEOREM RowsAreTrue == SongFormerSpec => []OutputIsTrue
<1>1. OutputInv => OutputIsTrue
  BY DEF OutputInv
<1> QED
  BY <1>1, InitOutputInv, StepOutputInv, PTL DEF SongFormerSpec

-----------------------------------------------------------------------------
(* The order of the queue. *)

LEMMA EndMarkersType == EndMarkers \in Nat \ {0}
  BY FS_CardinalityType, FS_EmptySet, SongFormerAssumption DEF EndMarkers, SongFormerAssumption

\* A run begins with StartWorkers.
LEMMA OnlyStartRuns ==
    ASSUME Shape, SongFormerNext, ~Running, Running'
    PROVE  StartWorkers
<1>1. ASSUME NEW w \in Workers, WorkerStep(w) \/ Fault(w) PROVE FALSE
  BY <1>1, WorkerMoves DEF Shape, Ends, Live
<1>2. phase \in {"new", "done", "failed"}
  BY DEF Running
<1>3. ~HearReady /\ ~Put /\ ~Collect /\ ~JoinAndMerge
  BY <1>2 DEF HearReady, Put, Collect, JoinAndMerge
<1>4. ~Terminate /\ ~RaiseThrough /\ ~HostCrash
  BY <1>2 DEF Terminate, RaiseThrough, HostCrash
<1>5. ~Raise
  BY <1>2 DEF Raise, BadMessage, Stalled
<1>6. ~MergeOnly /\ \A t \in Tracks : ~Reroute(t)
  BY DEF MergeOnly, Reroute, Running
<1> QED
  BY <1>1, <1>3, <1>4, <1>5, <1>6 DEF SongFormerNext, MainStep

\* A step of a running stage is one of the main process or of a worker, or ends the run.
LEMMA StepsOfARun ==
    ASSUME SongFormerNext, Running, Running'
    PROVE  \/ HearReady \/ Put \/ Collect \/ Raise \/ Terminate
           \/ \E w \in Workers : WorkerStep(w) \/ Fault(w)
  BY DEF SongFormerNext, MainStep, MergeOnly, StartWorkers, JoinAndMerge, RaiseThrough, HostCrash,
         Reroute, Running

\* What a step of a worker leaves to the main process.
LEMMA WorkerSteps ==
    ASSUME NEW w \in Workers, WorkerStep(w) \/ Fault(w)
    PROVE  /\ UNCHANGED <<phase, tasks, sent, ready, received, failures>>
           /\ Fetch(w) \/ queue' = queue
           /\ WorkerStep(w) => struck' = struck
           /\ Fault(w) => struck' = struck \cup {w}
  BY DEF WorkerStep, Fault, Load, Fetch, Begin, Exit, AnswerLoaded, WritePrediction,
         WriteMarker, InferFails, InitFails, Killed, Hangs, WorkerOnly, mainVars

LEMMA QueueFacts ==
    ASSUME Shape, QueueInOrder, Running
    PROVE  /\ Len(queue) \in Nat /\ sent \in Nat /\ Fetched \in Nat /\ Len(tasks) \in Nat
           /\ Fetched + Len(queue) = sent
           /\ \A i \in 1..Len(tasks) : tasks[i] \in Usable /\ tasks[i] \in Tracks
           /\ DOMAIN tasks = 1..Len(tasks) /\ DOMAIN queue = 1..Len(queue)
<1>1. queue \in Seq(QueueItem) /\ tasks \in Seq(Usable) /\ sent \in Nat
  BY DEF Shape, TypeOK
<1>2. Len(queue) \in Nat /\ Len(tasks) \in Nat /\ Len(queue) <= sent
  BY <1>1, LenProperties DEF QueueInOrder
<1> QED
  BY <1>1, <1>2, ElementOfSeq, LenProperties DEF Fetched, Usable

LEMMA StepQueueInOrder ==
    ASSUME PlacesInv, SongFormerNext PROVE QueueInOrder'
<1>1. CASE ~Running'
  BY <1>1 DEF QueueInOrder
<1>2. CASE StartWorkers
  <2>1. Len(queue') = 0 /\ sent' = 0 /\ tasks' = NewTasks
    BY <1>2, EmptySeq DEF StartWorkers
  <2>2. Len(tasks') \in Nat
    BY <2>1, TasksAreNew, LenProperties
  <2> QED
    BY <2>1, <2>2, TasksAreNew, EndMarkersType DEF QueueInOrder
<1>3. CASE Running /\ Running'
  <2>0. /\ Len(queue) <= sent /\ sent <= Len(tasks) + EndMarkers
        /\ \A n \in 1..Len(queue) : queue[n] = Item(Fetched + n)
        /\ \A i, j \in 1..Len(tasks) : tasks[i] = tasks[j] => i = j
    BY <1>3 DEF PlacesInv, QueueInOrder
  <2>1. CASE UNCHANGED <<queue, sent, tasks>>
    BY <2>0, <2>1 DEF QueueInOrder, Item, Fetched
  <2>2. CASE Put
    <3>1. queue' = Append(queue, Item(sent + 1)) /\ sent' = sent + 1 /\ tasks' = tasks
          /\ sent < Len(tasks) + EndMarkers
      BY <1>3, <2>2 DEF Put, PlacesInv, InPhase
    <3>2. queue \in Seq(QueueItem \cup {Item(sent + 1)})
      BY SeqMonotonic DEF PlacesInv, Shape, TypeOK
    <3>3. /\ Len(queue') = Len(queue) + 1
          /\ \A n \in 1..Len(queue) : queue'[n] = queue[n]
          /\ queue'[Len(queue) + 1] = Item(sent + 1)
      BY <3>1, <3>2, AppendProperties
    <3>4. Fetched' = Fetched /\ Fetched + Len(queue) = sent
      BY <1>3, <3>1, <3>3, QueueFacts DEF Fetched, PlacesInv
    <3>5. \A n \in 1..Len(queue') : queue'[n] = Item(Fetched + n)
      BY <1>3, <2>0, <3>3, <3>4, QueueFacts DEF PlacesInv
    <3>6. \A n \in 1..Len(queue') : queue'[n] = Item(Fetched + n)'
      BY <3>1, <3>4, <3>5 DEF Item
    <3>7. Len(queue') <= sent' /\ sent' <= Len(tasks) + EndMarkers
      BY <1>3, <2>0, <3>1, <3>3, QueueFacts, EndMarkersType DEF PlacesInv
    <3> QED
      BY <2>0, <3>1, <3>6, <3>7 DEF QueueInOrder, EndMarkers
  <2>3. ASSUME NEW w \in Workers, Fetch(w) PROVE QueueInOrder'
    <3>1. queue # <<>> /\ queue' = Tail(queue) /\ sent' = sent /\ tasks' = tasks
      BY <2>3 DEF Fetch, WorkerOnly, mainVars
    <3>2. /\ Len(queue') = Len(queue) - 1 /\ Len(queue) >= 1
          /\ \A n \in 1..Len(queue') : n + 1 \in 1..Len(queue) /\ queue'[n] = queue[n + 1]
      BY <3>1, HeadOfQueue DEF PlacesInv, Shape
    <3>3. Fetched' = Fetched + 1
      BY <1>3, <3>1, <3>2, QueueFacts DEF Fetched, PlacesInv
    <3>4. \A n \in 1..Len(queue') : queue'[n] = Item(Fetched + 1 + n)
      <4> TAKE n \in 1..Len(queue')
      <4>1. n \in Nat /\ Fetched \in Nat
        BY <1>3, QueueFacts DEF PlacesInv
      <4>2. queue'[n] = Item(Fetched + (n + 1))
        BY <2>0, <3>2
      <4>3. Fetched + (n + 1) = Fetched + 1 + n
        BY <4>1
      <4> QED
        BY <4>2, <4>3
    <3>5. \A n \in 1..Len(queue') : queue'[n] = Item(Fetched + n)'
      BY <3>1, <3>3, <3>4 DEF Item
    <3> QED
      BY <1>3, <2>0, <3>1, <3>2, <3>5, QueueFacts DEF QueueInOrder, PlacesInv, EndMarkers
  <2>4. CASE HearReady \/ Collect \/ Raise \/ Terminate
    BY <2>1, <2>4 DEF HearReady, Collect, Raise, Terminate
  <2> QED
    BY <1>3, <2>1, <2>2, <2>3, <2>4, StepsOfARun, WorkerSteps
<1> QED
  BY <1>1, <1>2, <1>3, OnlyStartRuns DEF PlacesInv

LEMMA StepInPhase ==
    ASSUME PlacesInv, SongFormerNext PROVE InPhase'
<1>1. CASE ~Running'
  BY <1>1 DEF InPhase
<1>2. CASE StartWorkers
  <2>1. tasks' = NewTasks /\ NewTasks # <<>> /\ sent' = 0 /\ received' = {} /\ phase' = "ready"
    BY <1>2 DEF StartWorkers
  <2>2. NewTasks \in Seq(Usable) /\ Len(NewTasks) \in Nat \ {0} /\ DOMAIN NewTasks = 1..Len(NewTasks)
    BY <2>1, TasksAreNew, EmptySeq, LenProperties
  <2>3. NewTasks[1] \in Range(NewTasks)
    BY <2>2 DEF Range
  <2> QED
    BY <2>1, <2>2, <2>3, EndMarkersType DEF InPhase, Expected, EndMarkers
<1>3. CASE Running /\ Running'
  <2>0. /\ Expected # {}
        /\ phase = "ready" => sent = 0
        /\ phase \in {"ready", "dispatch"} => sent < Len(tasks) + EndMarkers /\ received = {}
        /\ phase \in {"collect", "join"} => sent = Len(tasks) + EndMarkers
        /\ phase = "collect" => received # Expected
        /\ sent <= Len(tasks) + EndMarkers
    BY <1>3 DEF PlacesInv, InPhase, QueueInOrder
  <2>a. sent \in Nat /\ Len(tasks) \in Nat /\ EndMarkers \in Nat
    BY <1>3, QueueFacts, EndMarkersType DEF PlacesInv
  <2>1. CASE UNCHANGED <<phase, tasks, sent, received>>
    BY <2>0, <2>1 DEF InPhase, Expected
  <2>2. CASE HearReady
    BY <2>0, <2>2 DEF HearReady, InPhase, Expected
  <2>3. CASE Put
    <3>1. sent' = sent + 1 /\ tasks' = tasks /\ received' = received /\ received = {}
          /\ Expected' = Expected /\ sent < Len(tasks) + EndMarkers
          /\ phase' = IF sent' = Len(tasks) + EndMarkers THEN "collect" ELSE "dispatch"
      BY <2>0, <2>3 DEF Put, Expected
    <3>2. EndMarkers' = EndMarkers
      BY DEF EndMarkers
    <3>3. CASE sent' = Len(tasks) + EndMarkers
      BY <2>0, <3>1, <3>2, <3>3 DEF InPhase
    <3>4. CASE sent' # Len(tasks) + EndMarkers
      <4>1. sent' < Len(tasks) + EndMarkers
        BY <2>a, <3>1, <3>4
      <4> QED
        BY <2>0, <3>1, <3>2, <3>4, <4>1 DEF InPhase
    <3> QED
      BY <3>3, <3>4
  <2>4. CASE Collect
    BY <2>0, <2>4 DEF Collect, InPhase, Expected
  <2>5. CASE Raise
    BY <2>0, <2>5 DEF Raise, InPhase, Expected
  <2>6. CASE Terminate
    <3>1. phase' = phase
      BY <1>3, <2>6 DEF Terminate, Running
    <3> QED
      BY <2>1, <2>6, <3>1 DEF Terminate
  <2> QED
    BY <1>3, <2>1, <2>2, <2>3, <2>4, <2>5, <2>6, StepsOfARun, WorkerSteps
<1> QED
  BY <1>1, <1>2, <1>3, OnlyStartRuns DEF PlacesInv

-----------------------------------------------------------------------------
(* One place for a track. *)

\* The main process takes nothing from the queue.
LEMMA GoneKept ==
    ASSUME PlacesInv, Running, HearReady \/ Put \/ Collect \/ Raise \/ Terminate, NEW t \in Tracks
    PROVE  Gone(t)' <=> Gone(t)
<1>1. CASE UNCHANGED <<queue, sent, tasks>>
  BY <1>1 DEF Gone, Fetched
<1>2. CASE Put
  <2>1. queue \in Seq(QueueItem \cup {Item(sent + 1)})
    BY SeqMonotonic DEF PlacesInv, Shape, TypeOK
  <2>2. Len(queue') = Len(queue) + 1 /\ sent' = sent + 1 /\ tasks' = tasks
    BY <1>2, <2>1, AppendProperties DEF Put
  <2>3. Fetched' = Fetched
    BY <2>2, QueueFacts DEF Fetched, PlacesInv
  <2> QED
    BY <2>2, <2>3 DEF Gone
<1>3. CASE HearReady \/ Collect \/ Raise \/ Terminate
  BY <1>1, <1>3 DEF HearReady, Collect, Raise, Terminate
<1> QED
  BY <1>2, <1>3

\* A track that stays where it is, or gets lost in a fault, is not doubled.
LEMMA PlacedKept ==
    ASSUME NEW t \in Tracks, Placed(t), Gone(t)' <=> Gone(t),
           InHand(t)' \subseteq InHand(t), LoadedAhead(t)' \subseteq LoadedAhead(t),
           Answers(t)' \subseteq Answers(t), t \in received' => t \in received,
           \/ struck' # {}
           \/ struck = {} /\ (Somewhere(t) => Somewhere(t)')
    PROVE  Placed(t)'
<1>1. PlacedOnce(t)'
  BY DEF Placed, PlacedOnce, One
<1>2. Somewhere(t)' => Somewhere(t)
  BY DEF Somewhere
<1> QED
  BY <1>1, <1>2 DEF Placed

\* The steps of a worker that move a track on.
LEMMA WorkerPlaced ==
    ASSUME PlacesInv, SongFormerNext, Running, Running', NEW w \in Workers,
           WorkerStep(w) \/ Fault(w), NEW t \in Tracks
    PROVE  Placed(t)'
<1> DEFINE s == worker[w]
<1>0. /\ Placed(t) /\ s \in WorkerState /\ Sound(s)
      /\ s.track \in Tracks \cup {"none"} /\ s.ahead.track \in Tracks \cup {"none"}
      /\ t # "none" /\ worker \in [Workers -> WorkerState] /\ struck \subseteq Workers
  BY NoneIsNoTrack DEF PlacesInv, OnePlace, Shape, TypeOK, Holds, WorkerState, Ahead
<1>1. /\ UNCHANGED <<phase, tasks, sent, ready, received, failures>>
      /\ Fetch(w) \/ queue' = queue
      /\ WorkerStep(w) => struck' = struck
      /\ Fault(w) => struck' = struck \cup {w}
  BY WorkerSteps
<1>2. ~Fetch(w) => (Gone(t)' <=> Gone(t))
  BY <1>1 DEF Gone, Fetched
<1>3. ASSUME NEW p \in WorkerState, worker' = [worker EXCEPT ![w] = p]
      PROVE  /\ InHand(t)' = (InHand(t) \ {w}) \cup (IF p.track = t THEN {w} ELSE {})
             /\ LoadedAhead(t)' = (LoadedAhead(t) \ {w}) \cup (IF p.ahead.track = t THEN {w} ELSE {})
  <2>1. \A v \in Workers : worker'[v] = IF v = w THEN p ELSE worker[v]
    BY <1>0, <1>3
  <2> QED
    BY <2>1 DEF InHand, LoadedAhead
<1>4. /\ w \in InHand(t) <=> s.track = t
      /\ w \in LoadedAhead(t) <=> s.ahead.track = t
  BY DEF InHand, LoadedAhead
<1>5. CASE InHand(t)' = InHand(t) /\ LoadedAhead(t)' = LoadedAhead(t) /\ Answers(t)' = Answers(t)
           /\ ~Fetch(w)
  <2>1. Somewhere(t)' <=> Somewhere(t)
    BY <1>1, <1>5 DEF Somewhere
  <2>2. struck' = struck \/ struck' # {}
    BY <1>1
  <2> QED
    BY <1>0, <1>1, <1>2, <1>5, <2>1, <2>2, PlacedKept
<1>6. CASE Killed(w)
  <2>1. worker' = [worker EXCEPT ![w] = Process("dead")] /\ messages' \subseteq messages
    BY <1>0, <1>6 DEF Killed, Ended
  <2>2. InHand(t)' \subseteq InHand(t) /\ LoadedAhead(t)' \subseteq LoadedAhead(t)
    BY <1>0, <1>3, <2>1, ProcessIsSound DEF Process, Nothing
  <2>3. Answers(t)' \subseteq Answers(t) /\ struck' # {} /\ ~Fetch(w)
    <3>1. Answers(t)' \subseteq Answers(t) /\ struck' # {}
      BY <1>6, <2>1 DEF Killed, Answers
    <3>2. worker'[w].ahead = Nothing /\ worker'[w].state = "dead"
      BY <1>0, <2>1 DEF Process
    <3>3. Fetch(w) => worker'[w].state = "up"
      BY <1>0 DEF Fetch, MayFetch, Up, WorkerState
    <3> QED
      BY <3>1, <3>2, <3>3
  <2> QED
    BY <1>0, <1>1, <1>2, <2>2, <2>3, PlacedKept
<1>7. CASE Load(w) \/ InitFails(w) \/ Exit(w)
  <2>1. s.track = "none" /\ s.ahead.track = "none"
    BY <1>7, Resting DEF Load, InitFails, Exit, Taken, PlacesInv, Shape, Holds, Sound, Fits, Stop,
                         Nothing
  <2>2. PICK state \in {"up", "dead", "exited"} : worker' = [worker EXCEPT ![w] = Process(state)]
    BY <1>7 DEF Load, InitFails, Exit
  <2>3. InHand(t)' = InHand(t) /\ LoadedAhead(t)' = LoadedAhead(t)
    BY <1>0, <1>3, <1>4, <2>1, <2>2, ProcessIsSound DEF Process, Nothing
  <2>4. Answers(t)' = Answers(t)
    BY <1>0, <1>7 DEF Load, InitFails, Exit, Says, Answers
  <2>5. ~Fetch(w)
    <3>1. Fetch(w) => s.state = "up" /\ s.ahead.load # "stop"
      BY DEF Fetch, MayFetch, Up, Nothing
    <3> QED
      BY <1>7, <3>1 DEF Load, InitFails, Exit, Taken
  <2> QED
    BY <1>5, <2>3, <2>4, <2>5
<1>8. CASE WritePrediction(w) \/ Hangs(w)
  <2>1. PICK p \in WorkerState :
           worker' = [worker EXCEPT ![w] = p] /\ p.track = s.track /\ p.ahead = s.ahead
    <3>1. [s EXCEPT !.step = "predicted"] \in WorkerState
          /\ [s EXCEPT !.state = "hung"] \in WorkerState
      BY <1>0 DEF WorkerState
    <3> QED
      BY <1>0, <1>8, <3>1 DEF WritePrediction, Hangs, WorkerState
  <2>2. InHand(t)' = InHand(t) /\ LoadedAhead(t)' = LoadedAhead(t)
    BY <1>3, <1>4, <2>1
  <2>3. Answers(t)' = Answers(t) /\ queue' = queue
    BY <1>8 DEF WritePrediction, Hangs, Answers
  <2>4. ~Fetch(w)
    <3> SUFFICES ASSUME Fetch(w) PROVE FALSE
      OBVIOUS
    <3>1. queue # <<>> /\ queue' = Tail(queue)
      BY DEF Fetch
    <3>2. Len(queue') = Len(queue) - 1
      BY <3>1, HeadOfQueue DEF PlacesInv, Shape
    <3>3. Len(queue) \in Nat
      BY QueueFacts DEF PlacesInv
    <3> QED
      BY <2>3, <3>2, <3>3
  <2> QED
    BY <1>5, <2>2, <2>3, <2>4
<1>9. CASE Begin(w)
  <2> DEFINE p == [state |-> "up", step |-> "infer", track |-> s.ahead.track, ahead |-> Nothing]
  <2>1. p \in WorkerState /\ worker' = [worker EXCEPT ![w] = p] /\ s.track = "none"
    BY <1>0, <1>9 DEF Begin, Taken, WorkerState, Ahead, Nothing, Sound
  <2>2. /\ InHand(t)' = (InHand(t) \ {w}) \cup (IF s.ahead.track = t THEN {w} ELSE {})
        /\ LoadedAhead(t)' = LoadedAhead(t) \ {w}
    BY <1>0, <1>3, <2>1 DEF Nothing
  <2>3. Answers(t)' = Answers(t) /\ queue' = queue
    BY <1>9 DEF Begin, Answers
  <2>4. Gone(t)' <=> Gone(t)
    BY <1>1, <2>3 DEF Gone, Fetched
  <2>5. CASE s.ahead.track # t
    BY <1>0, <1>1, <1>4, <2>1, <2>2, <2>3, <2>4, <2>5 DEF Placed, PlacedOnce, Somewhere, One
  <2>6. CASE s.ahead.track = t
    <3>1. LoadedAhead(t) = {w} /\ InHand(t) = {} /\ Answers(t) = {} /\ t \notin received
      BY <1>0, <1>4, <2>6 DEF Placed, PlacedOnce, One
    <3>2. InHand(t)' = {w} /\ LoadedAhead(t)' = {} /\ Answers(t)' = {} /\ t \notin received'
      BY <1>1, <2>2, <2>3, <2>6, <3>1
    <3>3. Gone(t)
      BY <1>0, <3>1 DEF Placed, Somewhere
    <3> QED
      BY <2>4, <3>2, <3>3 DEF Placed, PlacedOnce, Somewhere, One
  <2> QED
    BY <2>5, <2>6
<1>10. CASE AnswerLoaded(w)
  <2>1. PICK ok \in BOOLEAN : messages' = messages \cup {Answer(w, s.ahead.track, ok)}
    BY <1>10 DEF AnswerLoaded
  <2>2. worker' = [worker EXCEPT ![w] = Process("up")] /\ s.track = "none" /\ queue' = queue
    BY <1>0, <1>10 DEF AnswerLoaded, Taken, Sound
  <2>3. InHand(t)' = InHand(t) /\ LoadedAhead(t)' = LoadedAhead(t) \ {w}
    BY <1>0, <1>3, <1>4, <2>2, ProcessIsSound DEF Process, Nothing
  <2>4. Answers(t)' = Answers(t) \cup (IF s.ahead.track = t THEN {Answer(w, t, ok)} ELSE {})
    BY <2>1 DEF Answers, Answer
  <2>5. Gone(t)' <=> Gone(t)
    BY <1>1, <2>2 DEF Gone, Fetched
  <2>6. CASE s.ahead.track # t
    BY <1>0, <1>1, <1>4, <2>2, <2>3, <2>4, <2>5, <2>6 DEF Placed, PlacedOnce, Somewhere, One
  <2>7. CASE s.ahead.track = t
    <3>1. LoadedAhead(t) = {w} /\ InHand(t) = {} /\ Answers(t) = {} /\ t \notin received
      BY <1>0, <1>4, <2>7 DEF Placed, PlacedOnce, One
    <3>2. InHand(t)' = {} /\ LoadedAhead(t)' = {} /\ Answers(t)' = {Answer(w, t, ok)}
          /\ t \notin received'
      BY <1>1, <2>3, <2>4, <2>7, <3>1
    <3>3. Gone(t)
      BY <1>0, <3>1 DEF Placed, Somewhere
    <3> QED
      BY <2>5, <3>2, <3>3 DEF Placed, PlacedOnce, Somewhere, One
  <2> QED
    BY <2>6, <2>7
<1>11. CASE WriteMarker(w) \/ InferFails(w)
  <2>1. PICK ok \in BOOLEAN : messages' = messages \cup {Answer(w, s.track, ok)}
    BY <1>11 DEF WriteMarker, InferFails
  <2> DEFINE p == [s EXCEPT !.step = "wait", !.track = "none"]
  <2>2. p \in WorkerState /\ worker' = [worker EXCEPT ![w] = p] /\ p.track = "none"
        /\ p.ahead = s.ahead /\ queue' = queue
    BY <1>0, <1>11 DEF WriteMarker, InferFails, Answered, WorkerState
  <2> HIDE DEF p
  <2>3. InHand(t)' = InHand(t) \ {w} /\ LoadedAhead(t)' = LoadedAhead(t)
    BY <1>0, <1>3, <1>4, <2>2
  <2>4. Answers(t)' = Answers(t) \cup (IF s.track = t THEN {Answer(w, t, ok)} ELSE {})
    BY <2>1 DEF Answers, Answer
  <2>5. Gone(t)' <=> Gone(t)
    BY <1>1, <2>2 DEF Gone, Fetched
  <2>6. struck' = struck
    BY <1>1, <1>11 DEF WorkerStep
  <2>7. CASE s.track # t
    BY <1>0, <1>1, <1>4, <2>3, <2>4, <2>5, <2>6, <2>7 DEF Placed, PlacedOnce, Somewhere, One
  <2>8. CASE s.track = t
    <3>1. InHand(t) = {w} /\ LoadedAhead(t) = {} /\ Answers(t) = {} /\ t \notin received
      BY <1>0, <1>4, <2>8 DEF Placed, PlacedOnce, One
    <3>2. InHand(t)' = {} /\ LoadedAhead(t)' = {} /\ Answers(t)' = {Answer(w, t, ok)}
          /\ t \notin received'
      BY <1>1, <2>3, <2>4, <2>8, <3>1
    <3>3. Gone(t)
      BY <1>0, <3>1 DEF Placed, Somewhere
    <3> QED
      BY <2>5, <3>2, <3>3 DEF Placed, PlacedOnce, Somewhere, One
  <2> QED
    BY <2>7, <2>8
<1>12. CASE Fetch(w)
  <2>0. /\ queue # <<>> /\ queue' = Tail(queue) /\ s.ahead = Nothing
        /\ Len(queue') = Len(queue) - 1 /\ Len(queue) >= 1 /\ Head(queue) = queue[1]
    BY <1>12, HeadOfQueue DEF Fetch, MayFetch, PlacesInv, Shape
  <2>1. Head(queue) = Item(Fetched + 1) /\ Fetched' = Fetched + 1
        /\ \A i, j \in 1..Len(tasks) : tasks[i] = tasks[j] => i = j
    <3>0. sent \in Nat /\ Len(queue) \in Nat /\ sent' = sent
      BY <1>1, QueueFacts DEF PlacesInv
    <3>1. Fetched' = Fetched + 1
      BY <2>0, <3>0 DEF Fetched
    <3>2. 1 \in 1..Len(queue)
      BY <2>0, QueueFacts DEF PlacesInv
    <3> QED
      BY <2>0, <3>1, <3>2 DEF PlacesInv, QueueInOrder
  <2>2. Answers(t)' = Answers(t) /\ struck' = struck
    BY <1>1, <1>12 DEF Fetch, Answers, WorkerStep
  <2>3. CASE Head(queue) = Stop
    <3>1. worker' = [worker EXCEPT ![w].ahead = Stop]
      BY <1>12, <2>3 DEF Fetch
    <3> DEFINE p == [s EXCEPT !.ahead = Stop]
    <3>2. p \in WorkerState /\ worker' = [worker EXCEPT ![w] = p] /\ p.track = s.track
          /\ p.ahead.track = "none"
      BY <1>0, <3>1 DEF WorkerState, Ahead, Stop
    <3> HIDE DEF p
    <3>a. /\ InHand(t)' = (InHand(t) \ {w}) \cup (IF p.track = t THEN {w} ELSE {})
          /\ LoadedAhead(t)' = (LoadedAhead(t) \ {w}) \cup (IF p.ahead.track = t THEN {w} ELSE {})
      BY <1>3, <3>2
    <3>b. w \notin LoadedAhead(t)
      BY <1>0, <1>4, <2>0 DEF Nothing
    <3>3. InHand(t)' = InHand(t) /\ LoadedAhead(t)' = LoadedAhead(t)
      BY <1>0, <1>4, <3>2, <3>a, <3>b
    <3>4. ~(Fetched + 1 <= Len(tasks))
      BY <2>1, <2>3 DEF Item, Stop
    <3>5. Gone(t)' <=> Gone(t)
      BY <1>1, <2>1, <3>4, QueueFacts DEF Gone, PlacesInv
    <3> QED
      BY <1>0, <1>1, <2>2, <3>3, <3>5 DEF Placed, PlacedOnce, Somewhere
  <2>4. CASE Head(queue) # Stop
    <3>1. Fetched + 1 <= Len(tasks) /\ Head(queue).track = tasks[Fetched + 1]
      BY <2>1, <2>4 DEF Item
    <3>2. PICK load \in {"skipped", "failed", "loaded"} :
              worker' = [worker EXCEPT ![w].ahead = [track |-> Head(queue).track, load |-> load]]
      BY <1>12, <2>4 DEF Fetch
    <3> DEFINE a == [track |-> tasks[Fetched + 1], load |-> load]
               p == [s EXCEPT !.ahead = a]
    <3>3. Fetched + 1 \in 1..Len(tasks) /\ tasks[Fetched + 1] \in Tracks
      BY <3>1, QueueFacts DEF PlacesInv
    <3>4. a \in Ahead
      BY <3>3 DEF Ahead
    <3>5. p \in WorkerState /\ worker' = [worker EXCEPT ![w] = p] /\ p.track = s.track
          /\ p.ahead.track = tasks[Fetched + 1]
      BY <1>0, <3>1, <3>2, <3>4 DEF WorkerState
    <3> HIDE DEF p, a
    <3>6. /\ InHand(t)' = InHand(t)
          /\ LoadedAhead(t)' = LoadedAhead(t) \cup (IF tasks[Fetched + 1] = t THEN {w} ELSE {})
      <4>1. /\ InHand(t)' = (InHand(t) \ {w}) \cup (IF p.track = t THEN {w} ELSE {})
            /\ LoadedAhead(t)' = (LoadedAhead(t) \ {w})
                                     \cup (IF p.ahead.track = t THEN {w} ELSE {})
        BY <1>3, <3>5
      <4>2. w \notin LoadedAhead(t)
        BY <1>0, <1>4, <2>0 DEF Nothing
      <4> QED
        BY <1>0, <1>4, <3>5, <4>1, <4>2
    <3>7. Gone(t)' <=> Gone(t) \/ tasks[Fetched + 1] = t
      BY <1>1, <2>1, <3>3, QueueFacts DEF Gone, PlacesInv
    <3>8. CASE tasks[Fetched + 1] # t
      BY <1>0, <1>1, <2>2, <3>6, <3>7, <3>8 DEF Placed, PlacedOnce, Somewhere
    <3>9. CASE tasks[Fetched + 1] = t
      <4>1. ~Gone(t)
        <5> SUFFICES ASSUME NEW i \in 1..Len(tasks), i <= Fetched, tasks[i] = t PROVE FALSE
          BY DEF Gone
        <5>1. i = Fetched + 1
          BY <2>1, <3>3, <3>9
        <5> QED
          BY <5>1, QueueFacts DEF PlacesInv
      <4>2. InHand(t) = {} /\ LoadedAhead(t) = {} /\ Answers(t) = {} /\ t \notin received
        BY <1>0, <4>1 DEF Placed, Somewhere
      <4>3. InHand(t)' = {} /\ LoadedAhead(t)' = {w} /\ Answers(t)' = {} /\ t \notin received'
        BY <1>1, <2>2, <3>6, <3>9, <4>2
      <4> QED
        BY <3>7, <3>9, <4>3 DEF Placed, PlacedOnce, Somewhere, One
    <3> QED
      BY <3>8, <3>9
  <2> QED
    BY <2>3, <2>4
<1> QED
  BY <1>6, <1>7, <1>8, <1>9, <1>10, <1>11, <1>12 DEF WorkerStep, Fault

\* A run begins with every track nowhere and nothing gone.
LEMMA StartPlaced ==
    ASSUME StartWorkers, NEW t \in Tracks
    PROVE  Placed(t)'
<1>1. \A w \in Workers : worker'[w] = Process("starting")
  BY DEF StartWorkers
<1>2. InHand(t)' = {} /\ LoadedAhead(t)' = {}
  BY <1>1, NoneIsNoTrack DEF InHand, LoadedAhead, Process, Nothing
<1>3. Answers(t)' = {} /\ t \notin received' /\ sent' = 0 /\ Len(queue') = 0
  BY EmptySeq DEF StartWorkers, Answers
<1>4. ~Gone(t)'
  BY <1>3, TasksAreNew, LenProperties DEF Gone, Fetched, StartWorkers
<1> QED
  BY <1>2, <1>3, <1>4 DEF Placed, PlacedOnce, Somewhere, One

\* The steps of the main process: an answer that is collected is received.
LEMMA MainPlaced ==
    ASSUME PlacesInv, SongFormerNext, Running, Running',
           HearReady \/ Put \/ Collect \/ Raise \/ Terminate, NEW t \in Tracks
    PROVE  Placed(t)'
<1>0. Placed(t) /\ t # "none"
  BY NoneIsNoTrack DEF PlacesInv, OnePlace
<1>1. Gone(t)' <=> Gone(t)
  BY GoneKept
<1>2. CASE HearReady \/ Put \/ Raise
  <2>1. InHand(t)' = InHand(t) /\ LoadedAhead(t)' = LoadedAhead(t)
        /\ UNCHANGED <<received, struck>>
    BY <1>2 DEF HearReady, Put, Raise, InHand, LoadedAhead
  <2>2. Answers(t)' = Answers(t)
    <3>1. \A m \in messages : m.type = "ready" => m.track # t
      BY DEF PlacesInv, Shape, Carried
    <3> QED
      BY <1>2, <3>1 DEF HearReady, Put, Raise, Answers
  <2> QED
    BY <1>0, <1>1, <2>1, <2>2 DEF Placed, PlacedOnce, Somewhere
<1>3. CASE Terminate
  <2>1. PICK w \in Live : Ended({w})
    BY <1>3 DEF Terminate
  <2>2. \A v \in Workers : worker'[v] = worker[v] \/ worker'[v] = Process("dead")
    BY <2>1 DEF Ended
  <2>3. InHand(t)' \subseteq InHand(t) /\ LoadedAhead(t)' \subseteq LoadedAhead(t)
    BY <1>0, <2>2 DEF InHand, LoadedAhead, Process, Nothing
  <2>4. Answers(t)' = Answers(t) /\ received' = received
    BY <1>3 DEF Terminate, Answers
  <2>5. struck' # {}
    BY <1>3 DEF Terminate, PlacesInv, Orderly
  <2> QED
    BY <1>0, <1>1, <2>3, <2>4, <2>5, PlacedKept
<1>4. CASE Collect
  <2>1. PICK m \in messages :
           /\ m.type = "result" /\ m.track \in Expected \ received
           /\ messages' = messages \ {m} /\ received' = received \cup {m.track}
    BY <1>4 DEF Collect
  <2>2. InHand(t)' = InHand(t) /\ LoadedAhead(t)' = LoadedAhead(t) /\ struck' = struck
    BY <1>4 DEF Collect, InHand, LoadedAhead
  <2>3. CASE m.track # t
    <3>1. Answers(t)' = Answers(t) /\ (t \in received' <=> t \in received)
      BY <2>1, <2>3 DEF Answers
    <3> QED
      BY <1>0, <1>1, <2>2, <3>1 DEF Placed, PlacedOnce, Somewhere
  <2>4. CASE m.track = t
    <3>1. m \in Answers(t)
      BY <2>4 DEF Answers
    <3>2. Answers(t) = {m} /\ InHand(t) = {} /\ LoadedAhead(t) = {}
      BY <1>0, <3>1 DEF Placed, PlacedOnce, One
    <3>3. Answers(t)' = {} /\ t \in received'
      BY <2>1, <2>4, <3>2 DEF Answers
    <3>4. Gone(t)
      BY <1>0, <3>1 DEF Placed, Somewhere
    <3> QED
      BY <1>1, <2>2, <3>2, <3>3, <3>4 DEF Placed, PlacedOnce, Somewhere, One
  <2> QED
    BY <2>3, <2>4
<1> QED
  BY <1>2, <1>3, <1>4

LEMMA StepOnePlace ==
    ASSUME PlacesInv, SongFormerNext PROVE OnePlace'
<1>1. CASE ~Running'
  BY <1>1 DEF OnePlace
<1>2. CASE ~Running /\ Running'
  <2>1. StartWorkers
    BY <1>2, OnlyStartRuns DEF PlacesInv
  <2>2. \A t \in Tracks : Placed(t)'
    BY <2>1, StartPlaced
  <2> QED
    BY <2>2 DEF OnePlace
<1>3. CASE Running /\ Running'
  <2>1. \A t \in Tracks : Placed(t)'
    BY <1>3, StepsOfARun, WorkerPlaced, MainPlaced
  <2> QED
    BY <2>1 DEF OnePlace
<1> QED
  BY <1>1, <1>2, <1>3

-----------------------------------------------------------------------------
(* Without a fault nothing is raised. *)

\* All workers are stopped as soon as all end markers are taken, and not before.
LEMMA AllStopped ==
    ASSUME PlacesInv, Running, Counted
    PROVE  /\ Stopped = Workers <=> Fetched = Len(tasks) + EndMarkers
           /\ IsFiniteSet(Stopped) /\ Cardinality(Stopped) \in Nat
<1>1. IsFiniteSet(Workers) /\ Stopped \subseteq Workers /\ Workers # {}
  BY SongFormerAssumption DEF SongFormerAssumption, Stopped
<1>2. IsFiniteSet(Stopped) /\ Cardinality(Stopped) \in Nat
      /\ (Cardinality(Workers) = Cardinality(Stopped) => Workers = Stopped)
  BY <1>1, FS_Subset, FS_CardinalityType
<1>3. Fetched \in Nat /\ Len(tasks) \in Nat /\ EndMarkers \in Nat \ {0}
  BY QueueFacts, EndMarkersType DEF PlacesInv
<1>4. ASSUME Stopped = Workers PROVE Fetched = Len(tasks) + EndMarkers
  <2>1. Fetched > Len(tasks)
    BY <1>1, <1>3, <1>4 DEF Counted
  <2> QED
    BY <1>3, <1>4, <2>1 DEF Counted, EndMarkers
<1>5. ASSUME Fetched = Len(tasks) + EndMarkers PROVE Stopped = Workers
  <2>1. Cardinality(Stopped) = EndMarkers
    BY <1>3, <1>5 DEF Counted
  <2> QED
    BY <1>2, <2>1 DEF EndMarkers
<1> QED
  BY <1>2, <1>4, <1>5

\* Before anything is sent no worker holds anything.
LEMMA NothingSent ==
    ASSUME PlacesInv, Running, struck = {}, sent = 0
    PROVE  /\ queue = <<>> /\ Fetched = 0 /\ Stopped = {}
           /\ \A w \in Workers : worker[w].step = "wait" /\ worker[w].ahead = Nothing
           /\ \A t \in Tracks : ~Somewhere(t)
<1>1. Len(queue) = 0 /\ Fetched = 0 /\ Len(tasks) \in Nat
  BY QueueFacts DEF PlacesInv, QueueInOrder
<1>2. queue = <<>>
  BY <1>1, EmptySeq DEF PlacesInv, Shape, TypeOK
<1>3. Stopped = {}
  BY <1>1 DEF PlacesInv, Orderly, Counted
<1>4. \A t \in Tracks : ~Somewhere(t)
  BY <1>1 DEF PlacesInv, OnePlace, Placed, Gone
<1>5. ASSUME NEW w \in Workers PROVE worker[w].step = "wait" /\ worker[w].ahead = Nothing
  <2>1. worker[w] \in WorkerState /\ Sound(worker[w]) /\ worker[w].ahead # Stop
    BY <1>3 DEF PlacesInv, Shape, TypeOK, Holds, Stopped
  <2>2. worker[w].track = "none" /\ worker[w].ahead.track = "none"
    BY <1>4, <2>1 DEF Somewhere, InHand, LoadedAhead, WorkerState, Ahead
  <2> QED
    BY <2>1, <2>2 DEF Sound, Fits
<1> QED
  BY <1>1, <1>2, <1>3, <1>4, <1>5

\* No alarm is false: what a phase waits for is there, or will come from a worker that can step.
LEMMA NothingRaised ==
    ASSUME PlacesInv, Running, struck = {}
    PROVE  ~Raise /\ ~Terminate
<1>0. /\ phase # "raised"
      /\ \A w \in Workers : worker[w].state \in {"starting", "up", "exited"}
      /\ Counted
      /\ phase = "ready" => Heard
      /\ phase # "ready" => /\ \A w \in Workers : worker[w].state # "starting"
                            /\ \A m \in messages : m.type = "result"
  BY DEF PlacesInv, Orderly
<1>1. Crashed = {}
  BY <1>0 DEF Crashed
<1>2. Fetched \in Nat /\ sent \in Nat /\ Len(queue) \in Nat /\ Fetched + Len(queue) = sent
      /\ Len(tasks) \in Nat /\ EndMarkers \in Nat \ {0} /\ sent <= Len(tasks) + EndMarkers
  BY QueueFacts, EndMarkersType DEF PlacesInv, QueueInOrder
<1>3. ASSUME \A w \in Workers : worker[w].state = "exited"
      PROVE  Fetched = Len(tasks) + EndMarkers
  <2>1. Stopped = Workers
    BY <1>3 DEF Stopped
  <2> QED
    BY <1>0, <2>1, AllStopped
<1>4. phase = "dispatch" => Live # {}
  <2> SUFFICES ASSUME phase = "dispatch", Live = {} PROVE FALSE
    OBVIOUS
  <2>1. \A w \in Workers : worker[w].state = "exited"
    BY <1>0 DEF Live, Alive
  <2>2. sent < Len(tasks) + EndMarkers
    BY DEF PlacesInv, InPhase
  <2> QED
    BY <1>2, <1>3, <2>1, <2>2
<1>5. \A m \in messages : ~BadMessage(m)
  <2> SUFFICES ASSUME NEW m \in messages, BadMessage(m) PROVE FALSE
    OBVIOUS
  <2>1. CASE phase = "ready"
    <3>1. m = Says(m.worker, "ready") /\ m.worker \notin ready
      BY <1>0, <2>1 DEF Heard
    <3>2. m.type = "ready"
      BY <3>1 DEF Says
    <3> QED
      BY <2>1, <3>1, <3>2 DEF BadMessage
  <2>2. CASE phase = "collect"
    <3>1. m.type = "result" /\ m.track \in Tracks
      BY <1>0, <2>2 DEF PlacesInv, Shape, Carried
    <3>2. m \in Answers(m.track)
      BY DEF Answers
    <3>3. Gone(m.track) /\ m.track \notin received
      BY <3>1, <3>2 DEF PlacesInv, OnePlace, Placed, PlacedOnce, Somewhere
    <3>4. m.track \in Expected
      BY <3>3, QueueFacts DEF Gone, Expected, Range, PlacesInv
    <3> QED
      BY <2>2, <3>1, <3>3, <3>4 DEF BadMessage
  <2> QED
    BY <2>1, <2>2 DEF BadMessage
<1>6. ~Stalled
  <2> SUFFICES ASSUME Stalled PROVE FALSE
    OBVIOUS
  <2>1. \A w \in Workers : \/ worker[w].state = "exited"
                           \/ /\ worker[w].state = "up" /\ worker[w].step = "wait"
                              /\ worker[w].ahead = Nothing /\ queue = <<>>
    BY <1>0 DEF Stalled, Blocked, Alive
  <2>2. queue # <<>> => Fetched = Len(tasks) + EndMarkers
    BY <1>3, <2>1
  <2>3. CASE phase = "ready"
    <3>1. messages = {}
      BY <2>3 DEF Stalled
    <3>2. sent = 0
      BY <2>3 DEF PlacesInv, InPhase
    <3>3. \A w \in Workers : worker[w].state # "exited"
      BY <3>2, NothingSent DEF Stopped
    <3>4. \A w \in Workers : w \in ready
      BY <1>0, <2>1, <2>3, <3>1, <3>3 DEF Heard
    <3> QED
      BY <1>0, <2>3, <3>4 DEF Heard, PlacesInv, Shape, TypeOK
  <2>4. CASE phase = "dispatch"
    <3>1. Len(queue) >= QueueSize /\ QueueSize \in Nat \ {0}
      BY <2>4, SongFormerAssumption DEF Stalled, SongFormerAssumption
    <3>2. queue # <<>>
      BY <1>2, <3>1, EmptySeq
    <3>3. sent < Len(tasks) + EndMarkers
      BY <2>4 DEF PlacesInv, InPhase
    <3> QED
      BY <1>2, <2>2, <3>2, <3>3
  <2>5. CASE phase \in {"collect", "join"}
    <3>1. sent = Len(tasks) + EndMarkers
      BY <2>5 DEF PlacesInv, InPhase
    <3>2. queue = <<>> => Len(queue) = 0
      BY EmptySeq
    <3>3. Fetched = Len(tasks) + EndMarkers
      BY <1>2, <2>2, <3>1, <3>2
    <3>4. CASE phase = "collect"
      <4>1. messages = {} /\ received # Expected
        BY <3>4 DEF Stalled, PlacesInv, InPhase
      <4>2. \A t \in received : t \in Expected
        <5> TAKE t \in received
        <5>1. t \in Tracks /\ Somewhere(t)
          BY DEF PlacesInv, Shape, TypeOK, Somewhere
        <5>2. Gone(t)
          BY <5>1 DEF PlacesInv, OnePlace, Placed
        <5> QED
          BY <5>2, QueueFacts DEF Gone, Expected, Range, PlacesInv
      <4>3. PICK t \in Expected : t \notin received
        BY <4>1, <4>2
      <4>4. PICK i \in 1..Len(tasks) : tasks[i] = t
        BY QueueFacts DEF Expected, Range, PlacesInv
      <4>5. t \in Tracks /\ Gone(t)
        BY <1>2, <3>3, <4>4, QueueFacts DEF Gone, PlacesInv
      <4>6. Somewhere(t)
        BY <4>5 DEF PlacesInv, OnePlace, Placed
      <4>7. \A w \in Workers : worker[w].track = "none" /\ worker[w].ahead = Nothing
        <5> TAKE w \in Workers
        <5>1. CASE worker[w].state = "exited"
          BY <5>1, Resting DEF PlacesInv
        <5>2. CASE worker[w].step = "wait" /\ worker[w].ahead = Nothing
          BY <5>2 DEF PlacesInv, Shape, Holds, Sound
        <5> QED
          BY <2>1, <5>1, <5>2
      <4> QED
        BY <4>1, <4>3, <4>5, <4>6, <4>7, NoneIsNoTrack
           DEF Somewhere, InHand, LoadedAhead, Answers, Nothing
    <3>5. CASE phase = "join"
      <4>1. PICK w \in Workers : worker[w].state = "up" /\ worker[w].ahead = Nothing
        BY <2>1, <3>5 DEF Stalled, Live, Alive
      <4>2. w \in Stopped
        BY <1>0, <3>3, AllStopped
      <4> QED
        BY <4>1, <4>2 DEF Stopped, Stop, Nothing
    <3> QED
      BY <2>5, <3>4, <3>5
  <2> QED
    BY <2>3, <2>4, <2>5 DEF Stalled
<1> QED
  BY <1>0, <1>1, <1>4, <1>5, <1>6 DEF Raise, Terminate

\* The end markers taken and the workers stopped go together.
LEMMA WorkerCounted ==
    ASSUME PlacesInv, Running, struck = {}, NEW w \in Workers, WorkerStep(w)
    PROVE  Counted'
<1>0. /\ worker[w] \in WorkerState /\ Sound(worker[w]) /\ worker \in [Workers -> WorkerState]
      /\ worker[w].state \in {"starting", "up"} /\ Counted
  BY WorkerMoves DEF PlacesInv, Shape, TypeOK, Holds, Orderly, Alive
<1>a. UNCHANGED <<tasks, sent>> /\ (Fetch(w) \/ queue' = queue)
  BY WorkerSteps
<1>b. Fetched \in Nat /\ Len(tasks) \in Nat /\ sent \in Nat /\ Len(queue) \in Nat
  BY QueueFacts DEF PlacesInv
<1>1. ASSUME NEW p \in WorkerState, worker' = [worker EXCEPT ![w] = p]
      PROVE  Stopped' = (Stopped \ {w})
                           \cup (IF p.ahead = Stop \/ p.state = "exited" THEN {w} ELSE {})
  <2>1. \A v \in Workers : worker'[v] = IF v = w THEN p ELSE worker[v]
    BY <1>0, <1>1
  <2> QED
    BY <2>1 DEF Stopped
<1>2. w \in Stopped <=> worker[w].ahead = Stop
  BY <1>0 DEF Stopped
<1>3. CASE Stopped' = Stopped /\ queue' = queue
  BY <1>a, <1>0, <1>3 DEF Counted, Fetched
<1>4. CASE Load(w) \/ Exit(w) \/ AnswerLoaded(w)
  <2>1. CASE Exit(w)
    <3>1. worker' = [worker EXCEPT ![w] = Process("exited")] /\ worker[w].ahead = Stop
      BY <1>0, <2>1 DEF Exit, Taken, Sound, Fits
    <3>2. Stopped' = Stopped
      BY <1>1, <1>2, <3>1, ProcessIsSound DEF Process
    <3> QED
      BY <1>3, <2>1, <3>2 DEF Exit
  <2>2. CASE Load(w) \/ AnswerLoaded(w)
    <3>1. worker' = [worker EXCEPT ![w] = Process("up")] /\ worker[w].ahead # Stop
      BY <1>0, <2>2, Resting DEF Load, AnswerLoaded, Taken, Stop, Nothing, PlacesInv
    <3>2. Stopped' = Stopped
      BY <1>1, <1>2, <3>1, ProcessIsSound DEF Process, Stop, Nothing
    <3> QED
      BY <1>3, <2>2, <3>2 DEF Load, AnswerLoaded
  <2> QED
    BY <1>4, <2>1, <2>2
<1>5. CASE Begin(w)
  <2> DEFINE p == [state |-> "up", step |-> "infer", track |-> worker[w].ahead.track, ahead |-> Nothing]
  <2>1. p \in WorkerState /\ worker' = [worker EXCEPT ![w] = p] /\ worker[w].ahead # Stop
    BY <1>0, <1>5 DEF Begin, Taken, WorkerState, Ahead, Nothing, Stop
  <2>2. Stopped' = Stopped
    BY <1>1, <1>2, <2>1 DEF Stop, Nothing
  <2> QED
    BY <1>3, <1>5, <2>2 DEF Begin
<1>6. CASE WritePrediction(w) \/ WriteMarker(w) \/ InferFails(w)
  <2>1. PICK p \in WorkerState :
           worker' = [worker EXCEPT ![w] = p] /\ p.state = "up" /\ p.ahead = worker[w].ahead
    <3>1. [worker[w] EXCEPT !.step = "predicted"] \in WorkerState
          /\ [worker[w] EXCEPT !.step = "wait", !.track = "none"] \in WorkerState
      BY <1>0 DEF WorkerState
    <3> QED
      BY <1>0, <1>6, <3>1 DEF WritePrediction, WriteMarker, InferFails, Up, Answered, WorkerState
  <2>2. Stopped' = Stopped
    BY <1>1, <1>2, <2>1
  <2> QED
    BY <1>3, <1>6, <2>2 DEF WritePrediction, WriteMarker, InferFails
<1>7. CASE Fetch(w)
  <2>0. /\ queue # <<>> /\ queue' = Tail(queue) /\ worker[w].ahead = Nothing
        /\ worker[w].state = "up"
        /\ Len(queue') = Len(queue) - 1 /\ Len(queue) >= 1 /\ Head(queue) = queue[1]
    BY <1>7, HeadOfQueue DEF Fetch, MayFetch, Up, PlacesInv, Shape
  <2>1. Head(queue) = Item(Fetched + 1)
    <3>1. 1 \in 1..Len(queue)
      BY <1>b, <2>0
    <3> QED
      BY <2>0, <3>1 DEF PlacesInv, QueueInOrder
  <2>2. Fetched' = Fetched + 1 /\ Len(tasks') = Len(tasks) /\ w \notin Stopped
    <3>1. sent' = sent /\ tasks' = tasks
      BY <1>a
    <3>2. Fetched' = Fetched + 1
      BY <1>b, <2>0, <3>1 DEF Fetched
    <3> QED
      BY <1>2, <2>0, <3>1, <3>2 DEF Stop, Nothing
  <2>3. CASE Head(queue) = Stop
    <3>1. Fetched >= Len(tasks)
      BY <1>b, <2>1, <2>3 DEF Item, Stop
    <3>2. worker' = [worker EXCEPT ![w].ahead = Stop]
      BY <1>7, <2>3 DEF Fetch
    <3> DEFINE p == [worker[w] EXCEPT !.ahead = Stop]
    <3>3. p \in WorkerState /\ worker' = [worker EXCEPT ![w] = p] /\ p.ahead = Stop
      BY <1>0, <3>2 DEF WorkerState, Ahead, Stop
    <3> HIDE DEF p
    <3>4. Stopped' = Stopped \cup {w}
      BY <1>1, <2>2, <3>3
    <3>5. IsFiniteSet(Stopped) /\ Cardinality(Stopped) \in Nat
      BY <1>0, AllStopped
    <3>6. Cardinality(Stopped') = Cardinality(Stopped) + 1
      BY <2>2, <3>4, <3>5, FS_AddElement
    <3>7. Cardinality(Stopped) = Fetched - Len(tasks)
      BY <1>0, <1>b, <3>1, FS_EmptySet DEF Counted
    <3> QED
      BY <1>b, <2>2, <3>1, <3>6, <3>7 DEF Counted
  <2>4. CASE Head(queue) # Stop
    <3>1. Fetched + 1 <= Len(tasks) /\ Head(queue).track = tasks[Fetched + 1]
      BY <2>1, <2>4 DEF Item
    <3>2. PICK load \in {"skipped", "failed", "loaded"} :
              worker' = [worker EXCEPT ![w].ahead = [track |-> Head(queue).track, load |-> load]]
      BY <1>7, <2>4 DEF Fetch
    <3> DEFINE a == [track |-> tasks[Fetched + 1], load |-> load]
               p == [worker[w] EXCEPT !.ahead = a]
    <3>3. Fetched + 1 \in 1..Len(tasks) /\ tasks[Fetched + 1] \in Tracks
      BY <1>b, <3>1, QueueFacts DEF PlacesInv
    <3>4. a \in Ahead /\ a # Stop
      BY <3>3 DEF Ahead, Stop
    <3>5. p \in WorkerState /\ worker' = [worker EXCEPT ![w] = p] /\ p.state = "up" /\ p.ahead = a
      BY <1>0, <2>0, <3>1, <3>2, <3>4 DEF WorkerState
    <3> HIDE DEF p, a
    <3>6. Stopped' = Stopped
      BY <1>1, <2>2, <3>4, <3>5
    <3> QED
      BY <1>0, <1>b, <2>2, <3>1, <3>6 DEF Counted
  <2> QED
    BY <2>3, <2>4
<1> QED
  BY <1>4, <1>5, <1>6, <1>7 DEF WorkerStep

\* What a worker does before every worker is ready, and after.
LEMMA WorkerOrderly ==
    ASSUME PlacesInv, Running, struck = {}, NEW w \in Workers, WorkerStep(w)
    PROVE  Orderly'
<1>0. /\ worker[w] \in WorkerState /\ Sound(worker[w]) /\ worker \in [Workers -> WorkerState]
      /\ \A v \in Workers : worker[v].state \in {"starting", "up", "exited"}
      /\ phase # "raised" /\ phase' = phase /\ ready' = ready
      /\ phase = "ready" => Heard
      /\ phase # "ready" => /\ \A v \in Workers : worker[v].state # "starting"
                            /\ \A m \in messages : m.type = "result"
  BY WorkerSteps DEF PlacesInv, Shape, TypeOK, Holds, Orderly
<1>1. PICK p \in WorkerState : worker' = [worker EXCEPT ![w] = p]
  BY WorkerMoves DEF Moves, PlacesInv
<1>2. \A v \in Workers : worker'[v] = IF v = w THEN p ELSE worker[v]
  BY <1>0, <1>1
<1>3. Counted'
  BY WorkerCounted
<1>4. CASE phase = "ready"
  <2>1. sent = 0
    BY <1>4 DEF PlacesInv, InPhase
  <2>2. queue = <<>> /\ worker[w].step = "wait" /\ worker[w].ahead = Nothing
    BY <2>1, NothingSent
  <2>3. Load(w)
    BY <2>2 DEF WorkerStep, Fetch, Begin, Exit, AnswerLoaded, WritePrediction, WriteMarker,
                InferFails, Taken, Nothing
  <2>4. p.state = "up" /\ messages' = messages \cup {Says(w, "ready")}
        /\ worker[w].state = "starting"
    BY <1>0, <1>1, <2>3 DEF Load, Process
  <2>5. w \notin ready /\ Says(w, "ready").worker = w
    BY <1>0, <1>4, <2>4 DEF Heard, Says
  <2>6. \A m \in messages : m.worker # w
    BY <1>0, <1>4, <2>4 DEF Heard
  <2>7. \A m \in messages : m.worker \in Workers
    BY DEF PlacesInv, Shape, TypeOK, Message
  <2>8. ready' # Workers /\ \A v \in Workers :
               /\ worker'[v].state = "starting" => v \notin ready'
               /\ worker'[v].state = "starting" \/ v \in ready' \/ Says(v, "ready") \in messages'
    BY <1>0, <1>2, <1>4, <2>4 DEF Heard
  <2>9. \A m \in messages' : /\ m = Says(m.worker, "ready")
                             /\ worker'[m.worker].state = "up" /\ m.worker \notin ready'
    BY <1>0, <1>2, <1>4, <2>4, <2>5, <2>6, <2>7 DEF Heard
  <2>10. Heard'
    BY <2>8, <2>9 DEF Heard
  <2>11. \A v \in Workers : worker'[v].state \in {"starting", "up", "exited"}
    BY <1>0, <1>2, <2>4
  <2> QED
    BY <1>0, <1>3, <1>4, <2>10, <2>11 DEF Orderly
<1>5. CASE phase # "ready"
  <2>1. worker[w].state # "starting" /\ ~Load(w)
    BY <1>0, <1>5 DEF Load
  <2>2. p.state \in {"up", "exited"}
    <3>1. CASE Exit(w) \/ AnswerLoaded(w)
      BY <1>0, <1>1, <3>1 DEF Exit, AnswerLoaded, Process
    <3>2. CASE Begin(w)
      BY <1>0, <1>1, <3>2 DEF Begin
    <3>3. CASE Fetch(w)
      BY <1>0, <1>1, <3>3 DEF Fetch, MayFetch, Up, WorkerState
    <3>4. CASE WritePrediction(w) \/ WriteMarker(w) \/ InferFails(w)
      <4>1. worker[w].state = "up"
        BY <3>4 DEF WritePrediction, WriteMarker, InferFails, Up
      <4>2. \/ worker' = [worker EXCEPT ![w] = [worker[w] EXCEPT !.step = "predicted"]]
            \/ worker' = [worker EXCEPT ![w] = [worker[w] EXCEPT !.step = "wait", !.track = "none"]]
        BY <1>0, <3>4 DEF WritePrediction, WriteMarker, InferFails, Answered
      <4>3. worker'[w].state = worker[w].state
        <5>1. worker[w] \in WorkerState /\ w \in DOMAIN worker
          BY <1>0
        <5>2. CASE worker' = [worker EXCEPT ![w] = [worker[w] EXCEPT !.step = "predicted"]]
          BY <5>1, <5>2 DEF WorkerState
        <5>3. CASE worker' = [worker EXCEPT ![w] = [worker[w] EXCEPT !.step = "wait", !.track = "none"]]
          BY <5>1, <5>3 DEF WorkerState
        <5> QED BY <4>2, <5>2, <5>3
      <4> QED
        BY <1>2, <4>1, <4>3
    <3> QED
      BY <2>1, <3>1, <3>2, <3>3, <3>4 DEF WorkerStep
  <2>3. \A m \in messages' : m.type = "result"
    BY <1>0, <1>5, <2>1 DEF WorkerStep, Fetch, Begin, Exit, AnswerLoaded, WritePrediction,
           WriteMarker, InferFails, Answer
  <2>4. \A v \in Workers : worker'[v].state \in {"up", "exited"}
    BY <1>0, <1>2, <1>5, <2>2
  <2> QED
    BY <1>0, <1>3, <1>5, <2>3, <2>4 DEF Orderly
<1> QED
  BY <1>4, <1>5

\* What the main process does when no worker is lost.
LEMMA MainOrderly ==
    ASSUME PlacesInv, Running, struck = {}, HearReady \/ Put \/ Collect
    PROVE  Orderly'
<1>0. /\ \A v \in Workers : worker[v].state \in {"starting", "up", "exited"}
      /\ Counted /\ worker' = worker
      /\ phase = "ready" => Heard
      /\ phase # "ready" => /\ \A v \in Workers : worker[v].state # "starting"
                            /\ \A m \in messages : m.type = "result"
  BY DEF PlacesInv, Orderly, HearReady, Put, Collect
<1>1. Fetched' = Fetched /\ tasks' = tasks
  <2>1. CASE HearReady \/ Collect
    BY <2>1 DEF HearReady, Collect, Fetched
  <2>2. CASE Put
    <3>1. queue \in Seq(QueueItem \cup {Item(sent + 1)})
      BY SeqMonotonic DEF PlacesInv, Shape, TypeOK
    <3>2. Len(queue') = Len(queue) + 1 /\ sent' = sent + 1 /\ tasks' = tasks
      BY <2>2, <3>1, AppendProperties DEF Put
    <3> QED
      BY <3>2, QueueFacts DEF Fetched, PlacesInv
  <2> QED
    BY <2>1, <2>2
<1>2. Counted'
  BY <1>0, <1>1 DEF Counted, Stopped
<1>3. CASE Put \/ Collect
  <2>1. phase # "ready" /\ phase' \notin {"ready", "raised"} /\ messages' \subseteq messages
    BY <1>3 DEF Put, Collect
  <2> QED
    BY <1>0, <1>2, <2>1 DEF Orderly
<1>4. CASE HearReady
  <2>1. PICK m \in messages :
           /\ messages' = messages \ {m} /\ ready' = ready \cup {m.worker}
           /\ phase' = IF ready' = Workers THEN "dispatch" ELSE "ready"
    BY <1>4 DEF HearReady
  <2>2. Heard
    BY <1>0, <1>4 DEF HearReady
  <2>3. \A l \in messages : l.worker \in Workers /\ (l.worker = m.worker => l = m)
    <3>1. \A l \in messages : l = Says(l.worker, "ready")
      BY <2>2 DEF Heard
    <3>2. \A l \in messages : l.worker = m.worker => l = m
      BY <3>1
    <3> QED
      BY <3>2 DEF PlacesInv, Shape, TypeOK, Message
  <2>4. \A v \in Workers : worker[v].state = "starting" => v \notin ready'
    BY <2>1, <2>2 DEF Heard
  <2>5. \A l \in messages' : /\ l = Says(l.worker, "ready") /\ l.worker \in Workers
                             /\ worker[l.worker].state = "up" /\ l.worker \notin ready'
    BY <2>1, <2>2, <2>3 DEF Heard
  <2>6. CASE ready' = Workers
    <3>1. messages' = {} /\ \A v \in Workers : worker[v].state # "starting"
      BY <2>4, <2>5, <2>6
    <3> QED
      BY <1>0, <1>2, <2>1, <2>6, <3>1 DEF Orderly
  <2>7. CASE ready' # Workers
    <3>1. \A v \in Workers :
             worker[v].state = "starting" \/ v \in ready' \/ Says(v, "ready") \in messages'
      BY <2>1, <2>2 DEF Heard, Says
    <3>2. Heard'
      BY <1>0, <2>4, <2>5, <2>7, <3>1 DEF Heard
    <3> QED
      BY <1>0, <1>2, <2>1, <2>7, <3>2 DEF Orderly
  <2> QED
    BY <2>6, <2>7
<1> QED
  BY <1>3, <1>4

LEMMA StepOrderly ==
    ASSUME PlacesInv, SongFormerNext PROVE Orderly'
<1>1. CASE ~Running' \/ struck' # {}
  BY <1>1 DEF Orderly
<1>2. CASE ~Running /\ Running'
  <2>1. StartWorkers
    BY <1>2, OnlyStartRuns DEF PlacesInv
  <2>2. /\ \A w \in Workers : worker'[w] = Process("starting")
        /\ phase' = "ready" /\ messages' = {} /\ ready' = {} /\ sent' = 0
        /\ Len(queue') = 0 /\ tasks' = NewTasks
    BY <2>1, EmptySeq DEF StartWorkers
  <2>3. Stopped' = {}
    BY <2>2 DEF Stopped, Process, Stop, Nothing
  <2>4. Fetched' = 0 /\ Len(tasks') \in Nat
    BY <2>2, TasksAreNew, LenProperties DEF Fetched
  <2>5. Counted'
    BY <2>3, <2>4 DEF Counted
  <2>6. Heard'
    BY <2>2, SongFormerAssumption DEF Heard, Process, SongFormerAssumption
  <2> QED
    BY <2>2, <2>5, <2>6 DEF Orderly, Process
<1>3. CASE Running /\ Running' /\ struck' = {}
  <2>1. ASSUME NEW w \in Workers, WorkerStep(w) \/ Fault(w) PROVE WorkerStep(w) /\ struck = {}
    BY <1>3, <2>1, WorkerSteps
  <2>2. ASSUME HearReady \/ Put \/ Collect \/ Raise \/ Terminate PROVE struck = {}
    BY <1>3, <2>2 DEF HearReady, Put, Collect, Raise, Terminate
  <2> QED
    BY <1>3, <2>1, <2>2, StepsOfARun, WorkerOrderly, MainOrderly, NothingRaised
<1> QED
  BY <1>1, <1>2, <1>3

LEMMA StepPlaces == PlacesInv /\ [SongFormerNext]_songFormerVars => PlacesInv'
<1>1. CASE UNCHANGED songFormerVars
  <2>1. UNCHANGED <<phase, tasks, sent, ready, received, queue, worker, messages, struck>>
    BY <1>1 DEF songFormerVars, mainVars
  <2>2. Fetched' = Fetched /\ Running' = Running /\ Expected' = Expected
    BY <2>1 DEF Fetched, Running, Expected
  <2>3. QueueInOrder' = QueueInOrder
    BY <2>1, <2>2 DEF QueueInOrder, Item, EndMarkers
  <2>4. InPhase' = InPhase
    BY <2>1, <2>2 DEF InPhase, EndMarkers
  <2>5. OnePlace' = OnePlace
    BY <2>1, <2>2 DEF OnePlace, Placed, PlacedOnce, Somewhere, Gone, InHand, LoadedAhead, Answers
  <2>6. Stopped' = Stopped /\ Heard' = Heard
    BY <2>1 DEF Stopped, Heard
  <2>7. Orderly' = Orderly
    BY <2>1, <2>2, <2>6 DEF Orderly, Counted
  <2> QED
    BY <1>1, <2>3, <2>4, <2>5, <2>7, StepShape DEF PlacesInv
<1>2. CASE SongFormerNext
  BY <1>2, StepShape, StepQueueInOrder, StepInPhase, StepOnePlace, StepOrderly DEF PlacesInv
<1> QED
  BY <1>1, <1>2

LEMMA InitPlaces == SongFormerInit => PlacesInv
<1> SUFFICES ASSUME SongFormerInit PROVE PlacesInv
  OBVIOUS
<1>1. ~Running
  BY DEF SongFormerInit, Running
<1> QED
  BY <1>1, InitShape DEF PlacesInv, QueueInOrder, InPhase, OnePlace, Orderly

LEMMA PlacesHolds == SongFormerSpec => []PlacesInv
  BY InitPlaces, StepPlaces, PTL DEF SongFormerSpec

-----------------------------------------------------------------------------
(* Counting the places. *)

\* A set without two elements has one or none.
LEMMA OneOrNone ==
    ASSUME NEW S, One(S)
    PROVE  Cardinality(S) = IF S = {} THEN 0 ELSE 1
<1>1. CASE S = {}
  BY <1>1, FS_EmptySet
<1>2. CASE S # {}
  <2>1. PICK x : x \in S
    BY <1>2
  <2>2. S = {x}
    BY <2>1 DEF One
  <2> QED
    BY <1>2, <2>2, FS_Singleton
<1> QED
  BY <1>1, <1>2

\* A task is yet to be put, on the queue, or gone from it: exactly one of the three.
LEMMA PlacesCounted ==
    ASSUME PlacesInv, Running, NEW t \in Expected
    PROVE  /\ Places(t) = 0 \/ Places(t) = 1
           /\ struck = {} => Places(t) = 1
<1>0. /\ Len(queue) \in Nat /\ sent \in Nat /\ Fetched \in Nat /\ Len(tasks) \in Nat
      /\ Fetched + Len(queue) = sent /\ DOMAIN queue = 1..Len(queue)
      /\ \A n \in 1..Len(queue) : queue[n] = Item(Fetched + n)
      /\ \A i, j \in 1..Len(tasks) : tasks[i] = tasks[j] => i = j
  BY QueueFacts DEF PlacesInv, QueueInOrder
<1>1. PICK i \in 1..Len(tasks) : tasks[i] = t
  BY QueueFacts DEF Expected, Range, PlacesInv
<1>2. t \in Tracks /\ t # "none" /\ Placed(t)
  BY <1>1, QueueFacts, NoneIsNoTrack DEF PlacesInv, OnePlace
<1> DEFINE Unsent == {n \in (sent + 1)..Len(tasks) : tasks[n] = t}
           Waiting == {n \in DOMAIN queue : queue[n].track = t}
<1>3. \A n \in Unsent : n = i
  BY <1>0, <1>1
<1>4. \A n \in Waiting : Fetched + n = i
  <2> TAKE n \in Waiting
  <2>1. n \in 1..Len(queue) /\ Item(Fetched + n).track = t
    BY <1>0
  <2>2. Fetched + n <= Len(tasks) /\ tasks[Fetched + n] = t
    BY <1>2, <2>1 DEF Item, Stop
  <2> QED
    BY <1>0, <1>1, <2>1, <2>2
<1>5. i > sent <=> Unsent # {}
  BY <1>0, <1>1, <1>3
<1>6. i > Fetched /\ i <= sent <=> Waiting # {}
  <2>1. ASSUME i > Fetched, i <= sent PROVE Waiting # {}
    <3>1. i - Fetched \in 1..Len(queue) /\ Fetched + (i - Fetched) = i
      BY <1>0, <2>1
    <3>2. queue[i - Fetched].track = t
      BY <1>0, <1>1, <3>1 DEF Item
    <3> QED
      BY <1>0, <3>1, <3>2
  <2>2. ASSUME Waiting # {} PROVE i > Fetched /\ i <= sent
    <3>1. PICK n \in Waiting : Fetched + n = i
      BY <1>4, <2>2
    <3>2. n \in 1..Len(queue)
      BY <1>0
    <3> QED
      BY <1>0, <3>1, <3>2
  <2> QED
    BY <2>1, <2>2
<1>7. Gone(t) <=> i <= Fetched
  BY <1>0, <1>1 DEF Gone
<1>8. One(Unsent) /\ One(Waiting) /\ One(received \cap {t})
  BY <1>0, <1>1, <1>3, <1>4 DEF One
<1>9. /\ Cardinality(Unsent) = IF i > sent THEN 1 ELSE 0
      /\ Cardinality(Waiting) = IF i > Fetched /\ i <= sent THEN 1 ELSE 0
  BY <1>5, <1>6, <1>8, OneOrNone
<1>10. /\ Cardinality(InHand(t)) = IF InHand(t) = {} THEN 0 ELSE 1
       /\ Cardinality(LoadedAhead(t)) = IF LoadedAhead(t) = {} THEN 0 ELSE 1
       /\ Cardinality(Answers(t)) = IF Answers(t) = {} THEN 0 ELSE 1
       /\ Cardinality(received \cap {t}) = IF t \notin received THEN 0 ELSE 1
  BY <1>2, <1>8, OneOrNone DEF Placed, PlacedOnce
<1> HIDE DEF Unsent, Waiting
<1>11. Places(t) = Cardinality(Unsent) + Cardinality(Waiting) + Cardinality(InHand(t))
                     + Cardinality(LoadedAhead(t)) + Cardinality(Answers(t))
                     + Cardinality(received \cap {t})
  BY DEF Places, Unsent, Waiting, InHand, LoadedAhead, Answers
<1>12. CASE Gone(t)
  <2>1. Cardinality(Unsent) = 0 /\ Cardinality(Waiting) = 0
    BY <1>0, <1>7, <1>9, <1>12
  <2>2. struck = {} => Somewhere(t)
    BY <1>2, <1>12 DEF Placed
  <2> DEFINE hand == Cardinality(InHand(t))
             ahead == Cardinality(LoadedAhead(t))
             said == Cardinality(Answers(t))
             got == Cardinality(received \cap {t})
  <2>3. Places(t) = hand + ahead + said + got
    BY <1>10, <1>11, <2>1
  <2>4. CASE InHand(t) # {}
    <3>1. hand = 1 /\ ahead = 0 /\ said = 0 /\ got = 0
      BY <1>2, <1>10, <2>4 DEF Placed, PlacedOnce
    <3> QED
      BY <2>3, <3>1
  <2>5. CASE InHand(t) = {} /\ LoadedAhead(t) # {}
    <3>1. hand = 0 /\ ahead = 1 /\ said = 0 /\ got = 0
      BY <1>2, <1>10, <2>5 DEF Placed, PlacedOnce
    <3> QED
      BY <2>3, <3>1
  <2>6. CASE InHand(t) = {} /\ LoadedAhead(t) = {} /\ Answers(t) # {}
    <3>1. hand = 0 /\ ahead = 0 /\ said = 1 /\ got = 0
      BY <1>2, <1>10, <2>6 DEF Placed, PlacedOnce
    <3> QED
      BY <2>3, <3>1
  <2>7. CASE InHand(t) = {} /\ LoadedAhead(t) = {} /\ Answers(t) = {}
    <3>1. hand = 0 /\ ahead = 0 /\ said = 0 /\ got = IF t \in received THEN 1 ELSE 0
      BY <1>10, <2>7
    <3>2. struck = {} => t \in received
      BY <2>2, <2>7 DEF Somewhere
    <3> QED
      BY <2>3, <3>1, <3>2
  <2> QED
    BY <2>4, <2>5, <2>6, <2>7
<1>13. CASE ~Gone(t)
  <2>1. Cardinality(Unsent) + Cardinality(Waiting) = 1
    BY <1>0, <1>7, <1>9, <1>13
  <2>2. ~Somewhere(t)
    BY <1>2, <1>13 DEF Placed
  <2> QED
    BY <1>9, <1>10, <1>11, <2>1, <2>2 DEF Somewhere
<1> QED
  BY <1>12, <1>13

\* No task of a run is ever in two places, whatever fails; while nothing fails it is in one,
\* so each is answered, and once.
THEOREM EachAnsweredOnce == SongFormerSpec => []AnsweredOnce
<1>1. PlacesInv => AnsweredOnce
  BY PlacesCounted DEF AnsweredOnce
<1> QED
  BY <1>1, PlacesHolds, PTL

\* The main process gives up a run only after a worker was killed, hung or failed to load.
RaisesForAFault == phase = "raised" => struck # {}

\* No deadline passes, no message is unexpected and no worker is missing while none has failed:
\* a stage is never aborted by its own order of steps.
THEOREM NoFalseAlarm == SongFormerSpec => []RaisesForAFault
<1>1. PlacesInv => RaisesForAFault
  BY DEF PlacesInv, Orderly, RaisesForAFault, Running
<1> QED
  BY <1>1, PlacesHolds, PTL
=============================================================================
