---------------------------- MODULE BatchModeProofs ----------------------------
(***************************************************************************)
(* Batch mode: the resident services, what their handlers answer, and the      *)
(* script that runs the programs one after the other.                          *)
(*                                                                         *)
(* The manager.  NoOrphan is not inductive: why the file of a service may be   *)
(* given up, or be written, is known only with what the command has read       *)
(* before.  IInv says, for each step of a command, what its file and the       *)
(* process it looks at may be by then.                                        *)
(*                                                                         *)
(* The handlers.  AnswersAreOwn speaks of a complete batch; BatchesInv says     *)
(* of an incomplete one that each answer given is sound and the only one of     *)
(* its place, and where the open places of each handler are.                   *)
(*                                                                         *)
(* The script, for any inventory, any answers of the services, and any number *)
(* of failures and crashes.  First publish_annotation_records by itself: it    *)
(* replaces the published tree atomically, for every set of trees.  Then the   *)
(* script: the files between its programs say the truth about every audio, so  *)
(* that no check of a later program ends the run, and the final partitions are *)
(* right.                                                                   *)
(***************************************************************************)
EXTENDS BatchRunner, ServiceManager, ServiceBatches, FiniteSetTheorems, SequenceTheorems,
        TLAPS

AllSteps == {"idle", "check"} \cup StartSteps \cup StopSteps
Commands == [step : AllSteps, todo : Seq(Op), seen : Identity \cup {None}]

TypeOK == /\ proc \in [Pids -> Process \cup {None}]
          /\ births \in 0..MaxBirths
          /\ file \in [ServiceNames -> Identity \cup {None}]
          /\ cmd \in [Managers -> Commands]
          /\ overlap \in BOOLEAN /\ killed \in BOOLEAN

\* A command that is not idle has an operation to do.
HasWork == \A m \in Managers : ~At(m, "idle") => cmd[m].todo # <<>>

\* Every process was born.
BornBefore == \A p \in Pids : proc[p] # None => proc[p].birth <= births

\* The steps that look at a process have one, and it was born before.
HasSeen == \A m \in Managers :
              cmd[m].step \in {"record"} \cup StopSteps =>
                  cmd[m].seen \in Identity /\ cmd[m].seen.birth <= births

\* The pid about to be signalled is free, or belongs to the very process of the service.
Aimed == \A m \in Managers :
            cmd[m].step \in {"term", "kill"} /\ proc[cmd[m].seen.pid] # None =>
                Alive(cmd[m].seen) /\ proc[cmd[m].seen.pid].program = Service(m)

\* The process just started is one of the service.
Spawned == \A m \in Managers :
              At(m, "record") /\ Alive(cmd[m].seen) =>
                  proc[cmd[m].seen.pid].program = Service(m)

\* Without an overlap there is one command at a time.
Alone == ~overlap => \A m, n \in Managers : ~At(m, "idle") /\ ~At(n, "idle") => m = n

\* Commands that come one after the other find the state files as they left them.
FileKept == ~overlap /\ ~killed =>
               \A m \in Managers :
                  /\ cmd[m].step \in {"spawn", "record"} => file[Service(m)] = None
                  /\ cmd[m].step \in StopSteps => file[Service(m)] = cmd[m].seen

IInv == /\ TypeOK /\ HasWork /\ BornBefore /\ HasSeen /\ Aimed /\ Spawned
        /\ Alone /\ FileKept /\ NoOrphan

-----------------------------------------------------------------------------
(* What a command is left with. *)

\* An operation to do begins a list, and what is left of the list is a list.
LEMMA OpsSplit ==
    ASSUME NEW todo \in Seq(Op), todo # <<>>
    PROVE  /\ Head(todo) \in Op /\ Tail(todo) \in Seq(Op)
           /\ Len(todo) # 1 => Tail(todo) # <<>>
<1>1. /\ Head(todo) \in Op /\ Tail(todo) \in Seq(Op)
      /\ Len(Tail(todo)) = Len(todo) - 1
  BY HeadTailProperties
<1>2. Len(todo) \in Nat /\ Len(todo) # 0
  BY EmptySeq, LenProperties
<1>3. Len(todo) # 1 => Len(Tail(todo)) # 0
  BY <1>1, <1>2
<1> QED
  BY <1>1, <1>3, EmptySeq

\* The command m is idle, or about to begin an operation.
Between(m) == \E c \in Commands :
                 /\ cmd' = [cmd EXCEPT ![m] = c]
                 /\ c.step \in {"idle", "check"}
                 /\ c.step = "check" => c.todo # <<>>

\* An error leaves a command idle.
LEMMA RaiseRests ==
    ASSUME NEW m \in Managers, Raise(m)
    PROVE  Between(m)
<1>1. Idle \in Commands
  BY DEF Idle, Commands, AllSteps
<1> QED
  BY <1>1 DEF Raise, Between, Idle

\* The end of an operation leaves a command idle, or at the next operation.
LEMMA FinishRests ==
    ASSUME TypeOK, HasWork, NEW m \in Managers, ~At(m, "idle"), Finish(m)
    PROVE  Between(m)
<1>1. cmd[m].todo \in Seq(Op) /\ cmd[m].todo # <<>>
  BY DEF TypeOK, HasWork, Commands
<1>2. CASE Len(cmd[m].todo) = 1
  <2>1. Raise(m)
    BY <1>2 DEF Finish, Raise
  <2> QED
    BY <2>1, RaiseRests
<1>3. CASE Len(cmd[m].todo) # 1
  <2> DEFINE c == [step |-> "check", todo |-> Tail(cmd[m].todo), seen |-> None]
  <2>1. c \in Commands /\ c.todo # <<>>
    BY <1>1, <1>3, OpsSplit DEF Commands, AllSteps
  <2>2. cmd' = [cmd EXCEPT ![m] = c]
    BY <1>3 DEF Finish
  <2> QED
    BY <2>1, <2>2 DEF Between
<1> QED
  BY <1>2, <1>3

\* The lists of operations main can build.
LEMMA ListsOfOps ==
    ASSUME NEW list \in Seq(ServiceNames), list # <<>>,
           NEW todo \in {Each("start", list), Each("stop", Backwards(list)), Restarts(list)}
    PROVE  todo \in Seq(Op) /\ todo # <<>>
<1>1. Len(list) \in Nat \ {0} /\ DOMAIN list = 1..Len(list)
  OBVIOUS
<1>2. ASSUME NEW kind \in {"start", "stop"}, NEW names \in Seq(ServiceNames), Len(names) = Len(list)
      PROVE  Each(kind, names) \in Seq(Op) /\ Each(kind, names) # <<>>
  <2>1. Each(kind, names) \in [1..Len(list) -> Op]
    BY <1>2 DEF Each, Op
  <2> QED
    BY <2>1, <1>1
<1>3. Backwards(list) \in [1..Len(list) -> ServiceNames]
  BY <1>1 DEF Backwards
<1>4. Backwards(list) \in Seq(ServiceNames) /\ Len(Backwards(list)) = Len(list)
  BY <1>1, <1>3
<1>5. Restarts(list) \in [1..(2 * Len(list)) -> Op]
  <2>1. ASSUME NEW k \in 1..(2 * Len(list))
        PROVE  (k + 1) \div 2 \in 1..Len(list)
    BY <1>1
  <2> QED
    BY <2>1, <1>1 DEF Restarts, Op
<1>6. Restarts(list) \in Seq(Op) /\ Restarts(list) # <<>>
  BY <1>1, <1>5
<1> QED
  BY <1>2, <1>4, <1>6

\* Taking a command leaves it at its first operation.
LEMMA CommandRests ==
    ASSUME NEW m \in Managers, Command(m)
    PROVE  Between(m)
<1>1. PICK list \in {<<s>> : s \in ServiceNames} \cup {Services} :
         \E todo \in {Each("start", list), Each("stop", Backwards(list)), Restarts(list)} :
            cmd' = [cmd EXCEPT ![m] = [step |-> "check", todo |-> todo, seen |-> None]]
  BY DEF Command
<1>2. PICK todo \in {Each("start", list), Each("stop", Backwards(list)), Restarts(list)} :
         cmd' = [cmd EXCEPT ![m] = [step |-> "check", todo |-> todo, seen |-> None]]
  BY <1>1
<1>3. list \in Seq(ServiceNames) /\ list # <<>>
  <2>1. CASE list = Services
    BY <2>1, ManagerAssumption DEF ManagerAssumption
  <2>2. CASE \E s \in ServiceNames : list = <<s>>
    BY <2>2
  <2> QED
    BY <2>1, <2>2
<1>4. todo \in Seq(Op) /\ todo # <<>>
  BY <1>3, ListsOfOps
<1>5. [step |-> "check", todo |-> todo, seen |-> None] \in Commands
  BY <1>4 DEF Commands, AllSteps
<1> QED
  BY <1>2, <1>4, <1>5 DEF Between

-----------------------------------------------------------------------------
(* What each step keeps. *)

\* A step that leaves a command between two operations, whatever it does to the state
\* files, keeps what is said of the others.
LEMMA RestingKeepsOthers ==
    ASSUME IInv, NEW m \in Managers, Between(m),
           UNCHANGED <<proc, births>>, file' \in [ServiceNames -> Identity \cup {None}],
           overlap' \in BOOLEAN, killed' \in BOOLEAN,
           ~overlap' => \A n \in Managers \ {m} : At(n, "idle"),
           overlap => overlap', killed => killed'
    PROVE  /\ TypeOK' /\ HasWork' /\ BornBefore' /\ HasSeen'
           /\ Aimed' /\ Spawned' /\ Alone' /\ FileKept'
           /\ At(m, "idle")' \/ At(m, "check")'
           /\ \A n \in Managers \ {m} : cmd'[n] = cmd[n]
<1> USE DEF IInv, At
<1>1. PICK c \in Commands :
         /\ cmd' = [cmd EXCEPT ![m] = c]
         /\ c.step \in {"idle", "check"}
         /\ c.step = "check" => c.todo # <<>>
  BY DEF Between
<1>2. /\ cmd'[m] = c
      /\ \A n \in Managers \ {m} : cmd'[n] = cmd[n]
  BY <1>1 DEF TypeOK
<1>3. TypeOK'
  BY <1>1 DEF TypeOK
<1>4. HasWork' /\ BornBefore' /\ HasSeen' /\ Aimed' /\ Spawned'
  BY <1>1, <1>2 DEF HasWork, BornBefore, HasSeen, Aimed, Spawned, Alive, Service, StopSteps
<1>5. Alone'
  BY <1>2 DEF Alone
<1>6. FileKept'
  BY <1>1, <1>2 DEF FileKept, Service, StopSteps
<1> QED
  BY <1>1, <1>2, <1>3, <1>4, <1>5, <1>6

\* If it leaves the state files alone, and was not about to write one for a live process, no
\* process loses its owner.
LEMMA RestingKeeps ==
    ASSUME IInv, NEW m \in Managers, Between(m),
           UNCHANGED <<proc, births, file>>,
           overlap' \in BOOLEAN, killed' \in BOOLEAN,
           overlap => overlap', killed => killed',
           ~overlap' => \A n \in Managers \ {m} : At(n, "idle"),
           At(m, "record") => killed' \/ ~Alive(cmd[m].seen)
    PROVE  IInv'
<1>1. /\ TypeOK' /\ HasWork' /\ BornBefore' /\ HasSeen'
      /\ Aimed' /\ Spawned' /\ Alone' /\ FileKept'
      /\ \A n \in Managers \ {m} : cmd'[n] = cmd[n]
  BY RestingKeepsOthers DEF IInv, TypeOK
<1>2. NoOrphan'
  BY <1>1 DEF IInv, NoOrphan, Alive, At
<1> QED
  BY <1>1, <1>2 DEF IInv

\* Commands that come one after the other are alone.
LEMMA OneAtATime ==
    ASSUME IInv, NEW m \in Managers, ~At(m, "idle"), ~overlap
    PROVE  \A n \in Managers \ {m} : At(n, "idle")
BY DEF IInv, Alone

\* A process of the service is managed, when the commands came one after the other and no
\* command is about to write a state file.
LEMMA Owned ==
    ASSUME IInv, ~overlap, ~killed, \A m \in Managers : ~At(m, "record"),
           NEW p \in Pids, proc[p] # None, proc[p].program \in ServiceNames
    PROVE  Managed(file[proc[p].program], proc[p].program)
<1> DEFINE id == [pid |-> p, birth |-> proc[p].birth]
<1>1. file[proc[p].program] = id
  BY DEF IInv, NoOrphan
<1>2. id \in Identity
  BY DEF IInv, TypeOK, Process, Identity
<1>3. id # None
  BY <1>2, ManagerAssumption DEF ManagerAssumption
<1> QED
  BY <1>1, <1>3 DEF Managed, Alive

\* The state file of a service is given up only when no process of the service is left.
LEMMA GivenUp ==
    ASSUME IInv, NEW m \in Managers, ~At(m, "idle"), ~At(m, "record"),
           ~Managed(file[Service(m)], Service(m)) \/ overlap \/ killed,
           file' = [file EXCEPT ![Service(m)] = None],
           UNCHANGED <<proc, overlap, killed>>
    PROVE  NoOrphan' /\ file' \in [ServiceNames -> Identity \cup {None}]
<1>1. NoOrphan'
  <2> SUFFICES ASSUME ~overlap, ~killed,
                      NEW p \in Pids, proc[p] # None, proc[p].program \in ServiceNames
               PROVE  file'[proc[p].program] = [pid |-> p, birth |-> proc[p].birth]
    BY DEF NoOrphan
  <2>1. \A n \in Managers : ~At(n, "record")
    BY OneAtATime DEF At
  <2>2. Managed(file[proc[p].program], proc[p].program)
    BY <2>1, Owned
  <2>3. proc[p].program # Service(m)
    BY <2>2
  <2> QED
    BY <2>1, <2>3 DEF IInv, NoOrphan, TypeOK
<1> QED
  BY <1>1 DEF IInv, TypeOK

\* So a command may give it up at the end of an operation.
LEMMA GivenUpAtTheEnd ==
    ASSUME IInv, NEW m \in Managers, ~At(m, "idle"), ~At(m, "record"), Between(m),
           ~Managed(file[Service(m)], Service(m)) \/ overlap \/ killed,
           file' = [file EXCEPT ![Service(m)] = None],
           UNCHANGED <<proc, births, overlap, killed>>
    PROVE  IInv'
<1>1. NoOrphan' /\ file' \in [ServiceNames -> Identity \cup {None}]
  BY GivenUp
<1>2. /\ TypeOK' /\ HasWork' /\ BornBefore' /\ HasSeen'
      /\ Aimed' /\ Spawned' /\ Alone' /\ FileKept'
  BY <1>1, OneAtATime, RestingKeepsOthers DEF IInv, TypeOK
<1> QED
  BY <1>1, <1>2 DEF IInv

-----------------------------------------------------------------------------
(* The steps of a command. *)

\* Taking a command.
LEMMA CommandKeeps == ASSUME IInv, NEW m \in Managers, Command(m) PROVE IInv'
<1>1. Between(m)
  BY CommandRests
<1>2. /\ overlap' \in BOOLEAN /\ (overlap => overlap')
      /\ ~overlap' => \A n \in Managers \ {m} : At(n, "idle")
  BY DEF Command, IInv, TypeOK
<1> QED
  BY <1>1, <1>2, RestingKeeps DEF Command, At, IInv, TypeOK

\* A command that is killed.
LEMMA DiesKeeps == ASSUME IInv, NEW m \in Managers, Dies(m) PROVE IInv'
<1>1. Between(m)
  BY RaiseRests DEF Dies
<1> QED
  BY <1>1, RestingKeeps, OneAtATime DEF Dies, IInv, TypeOK

\* A command that waits, or gives up waiting.
LEMMA WaitKeeps ==
    ASSUME IInv, NEW m \in Managers, Wait(m) \/ WaitTimesOut(m) \/ KillTimesOut(m)
    PROVE  IInv'
<1>1. /\ Raise(m) \/ (Finish(m) /\ ~At(m, "idle") /\ ~At(m, "record"))
      /\ UNCHANGED <<proc, births, file, overlap, killed>>
  BY DEF Wait, WaitTimesOut, KillTimesOut, At
<1>2. Between(m)
  BY <1>1, RaiseRests, FinishRests DEF IInv
<1> QED
  BY <1>1, <1>2, RestingKeeps, OneAtATime DEF Wait, WaitTimesOut, KillTimesOut, At, IInv, TypeOK

\* The end of a stop.
LEMMA GoneKeeps == ASSUME IInv, NEW m \in Managers, Gone(m) PROVE IInv'
<1>1. ~At(m, "idle") /\ ~At(m, "record") /\ cmd[m].step \in StopSteps
  BY DEF Gone, At, StopSteps
<1>2. Between(m)
  BY <1>1, FinishRests DEF Gone, IInv
<1>3. ~Managed(file[Service(m)], Service(m)) \/ overlap \/ killed
  BY <1>1 DEF IInv, FileKept, Gone
<1> QED
  BY <1>1, <1>2, <1>3, GivenUpAtTheEnd DEF Gone

\* A step within an operation.
LEMMA GotoGoes ==
    ASSUME IInv, NEW m \in Managers, ~At(m, "idle"),
           NEW step \in AllSteps, NEW seen \in Identity \cup {None}, Goto(m, step, seen),
           UNCHANGED <<overlap, killed>>
    PROVE  /\ cmd' \in [Managers -> Commands] /\ HasWork' /\ Alone'
           /\ cmd'[m] = [step |-> step, todo |-> cmd[m].todo, seen |-> seen]
           /\ \A n \in Managers \ {m} : cmd'[n] = cmd[n]
           /\ Service(m)' = Service(m)
<1>1. [step |-> step, todo |-> cmd[m].todo, seen |-> seen] \in Commands
  BY DEF IInv, TypeOK, Commands
<1>2. /\ cmd' \in [Managers -> Commands]
      /\ cmd'[m] = [step |-> step, todo |-> cmd[m].todo, seen |-> seen]
      /\ \A n \in Managers \ {m} : cmd'[n] = cmd[n]
  BY <1>1 DEF IInv, TypeOK, Goto
<1>3. HasWork' /\ Alone' /\ Service(m)' = Service(m)
  BY <1>2 DEF IInv, HasWork, Alone, At, Service
<1> QED
  BY <1>2, <1>3

\* The service of a command is one of the services.
LEMMA ServiceNamed ==
    ASSUME IInv, NEW m \in Managers, ~At(m, "idle")
    PROVE  Service(m) \in ServiceNames
<1>1. Head(cmd[m].todo) \in Op
  BY OpsSplit DEF IInv, TypeOK, HasWork, Commands
<1> QED
  BY <1>1 DEF Service, Op

\* The beginning of an operation.
LEMMA CheckKeeps == ASSUME IInv, NEW m \in Managers, Check(m) PROVE IInv'
<1>1. ~At(m, "idle") /\ ~At(m, "record") /\ Service(m) \in ServiceNames
  BY ServiceNamed DEF Check, At
<1>2. CASE Managed(file[Service(m)], Service(m)) /\ Finish(m) /\ UNCHANGED file
  <2>1. Between(m)
    BY <1>1, <1>2, FinishRests DEF IInv
  <2> QED
    BY <1>1, <1>2, <2>1, RestingKeeps, OneAtATime DEF Check, IInv, TypeOK
<1>3. CASE /\ Managed(file[Service(m)], Service(m))
           /\ Goto(m, "term", file[Service(m)]) /\ UNCHANGED file
  <2>1. /\ file[Service(m)] \in Identity /\ file[Service(m)].birth <= births
    BY <1>1, <1>3 DEF Managed, Alive, IInv, TypeOK, BornBefore, Identity
  <2>2. /\ cmd' \in [Managers -> Commands] /\ HasWork' /\ Alone'
        /\ cmd'[m] = [step |-> "term", todo |-> cmd[m].todo, seen |-> file[Service(m)]]
        /\ \A n \in Managers \ {m} : cmd'[n] = cmd[n]
        /\ Service(m)' = Service(m)
    BY <1>1, <1>3, <2>1, GotoGoes DEF Check, AllSteps, StopSteps
  <2>3. TypeOK'
    BY <1>3, <2>2 DEF Check, IInv, TypeOK
  <2>4. BornBefore' /\ HasSeen'
    BY <1>3, <2>1, <2>2 DEF Check, IInv, BornBefore, HasSeen
  <2>5. Aimed' /\ Spawned'
    <3>1. \A n \in Managers \ {m} : Service(n)' = Service(n)
      BY <2>2 DEF Service
    <3>2. cmd'[m].step = "term" /\ cmd'[m].seen = file[Service(m)] /\ UNCHANGED proc
      BY <2>2 DEF Check
    <3>3. Alive(file[Service(m)]) /\ proc[file[Service(m)].pid].program = Service(m)
      BY <1>3 DEF Managed
    <3>4. Aimed'
      BY <2>2, <3>1, <3>2, <3>3 DEF IInv, Aimed, Alive
    <3> QED
      BY <2>2, <3>1, <3>2, <3>4 DEF IInv, Spawned, Alive, At
  <2>6. FileKept'
    <3> SUFFICES ASSUME ~overlap, ~killed, NEW n \in Managers
                 PROVE  /\ cmd'[n].step \in {"spawn", "record"} => file[Service(n)'] = None
                        /\ cmd'[n].step \in StopSteps => file[Service(n)'] = cmd'[n].seen
      BY <1>3 DEF Check, FileKept, Service, StopSteps
    <3>1. CASE n = m
      BY <2>2, <3>1
    <3>2. CASE n # m
      <4>1. cmd'[n].step = "idle"
        BY <1>1, <2>2, <3>2, OneAtATime DEF At
      <4> QED BY <4>1 DEF StopSteps
    <3> QED BY <3>1, <3>2
  <2>7. NoOrphan'
    BY <1>1, <1>3, <2>2 DEF Check, IInv, NoOrphan, At
  <2> QED
    BY <2>2, <2>3, <2>4, <2>5, <2>6, <2>7 DEF IInv
<1>4. CASE /\ ~Managed(file[Service(m)], Service(m))
           /\ file' = [file EXCEPT ![Service(m)] = None] /\ (Finish(m) \/ Raise(m))
  <2>1. Between(m)
    BY <1>1, <1>4, FinishRests, RaiseRests DEF IInv
  <2> QED
    BY <1>1, <1>4, <2>1, GivenUpAtTheEnd DEF Check
<1>5. CASE /\ ~Managed(file[Service(m)], Service(m))
           /\ file' = [file EXCEPT ![Service(m)] = None] /\ Goto(m, "spawn", None)
  <2>1. NoOrphan' /\ file' \in [ServiceNames -> Identity \cup {None}]
    BY <1>1, <1>5, GivenUp DEF Check
  <2>2. /\ cmd' \in [Managers -> Commands] /\ HasWork' /\ Alone'
        /\ cmd'[m] = [step |-> "spawn", todo |-> cmd[m].todo, seen |-> None]
        /\ \A n \in Managers \ {m} : cmd'[n] = cmd[n]
        /\ Service(m)' = Service(m)
    BY <1>1, <1>5, GotoGoes DEF Check, AllSteps, StartSteps
  <2>3. TypeOK'
    BY <2>1, <2>2 DEF Check, IInv, TypeOK
  <2>4. BornBefore' /\ HasSeen' /\ Aimed' /\ Spawned'
    BY <2>2 DEF Check, IInv, BornBefore, HasSeen, Aimed, Spawned, Alive, At, Service, StopSteps
  <2>5. FileKept'
    BY <1>1, <1>5, <2>2, OneAtATime
       DEF Check, IInv, TypeOK, FileKept, Service, At, StopSteps
  <2> QED
    BY <2>1, <2>2, <2>3, <2>4, <2>5 DEF IInv
<1> QED
  BY <1>2, <1>3, <1>4, <1>5 DEF Check

\* A process is started.
LEMMA SpawnKeeps == ASSUME IInv, NEW m \in Managers, Spawn(m) PROVE IInv'
<1>1. ~At(m, "idle") /\ ~At(m, "record") /\ Service(m) \in ServiceNames
  BY ServiceNamed DEF Spawn, At
<1>2. CASE Raise(m) /\ UNCHANGED <<proc, births>>
  BY <1>1, <1>2, RaiseRests, RestingKeeps, OneAtATime DEF Spawn, IInv, TypeOK
<1>3. ASSUME NEW p \in Pids, Born(p, Service(m), "loading"),
             Goto(m, "record", [pid |-> p, birth |-> births + 1])
      PROVE  IInv'
  <2> DEFINE id == [pid |-> p, birth |-> births + 1]
             new == [program |-> Service(m), birth |-> births + 1, run |-> "loading"]
  <2>1. /\ births + 1 \in 1..MaxBirths /\ births' = births + 1 /\ births' \in 0..MaxBirths
        /\ id \in Identity /\ new \in Process /\ new # None
        /\ proc[p] = None /\ proc' = [proc EXCEPT ![p] = new]
    BY <1>1, <1>3, ManagerAssumption
       DEF ManagerAssumption, Born, IInv, TypeOK, Identity, Process
  <2> HIDE DEF new, id
  <2>2. /\ cmd' \in [Managers -> Commands] /\ HasWork' /\ Alone'
        /\ cmd'[m] = [step |-> "record", todo |-> cmd[m].todo, seen |-> id]
        /\ \A n \in Managers \ {m} : cmd'[n] = cmd[n]
        /\ Service(m)' = Service(m)
    BY <1>1, <1>3, <2>1, GotoGoes DEF Spawn, AllSteps, StartSteps, id
  <2>3. TypeOK'
    BY <2>1, <2>2 DEF Spawn, IInv, TypeOK
  <2>4. BornBefore' /\ HasSeen'
    BY <2>1, <2>2 DEF IInv, BornBefore, HasSeen, At, StopSteps, id, new, TypeOK, Process, Identity
  <2>5. Aimed'
    BY <1>3, <2>1, <2>2
       DEF Born, NoReuseInWindow, InWindow, IInv, TypeOK, Aimed, Alive, At, Service
  <2>6. Spawned'
    <3>1. \A n \in Managers \ {m} :
             At(n, "record") /\ Alive(cmd[n].seen)' => Alive(cmd[n].seen)
      BY <2>1, <2>2 DEF IInv, TypeOK, HasSeen, Alive, At, Identity, new
    <3> QED
      BY <2>1, <2>2, <3>1 DEF IInv, TypeOK, HasSeen, Spawned, Alive, At, Service, new, id, Identity
  <2>7. FileKept'
    BY <1>1, <2>2, OneAtATime DEF Spawn, IInv, FileKept, Service, At, StopSteps
  <2>8. NoOrphan'
    BY <1>1, <2>1, <2>2, OneAtATime DEF Spawn, IInv, TypeOK, NoOrphan, At, id, new
  <2> QED
    BY <2>2, <2>3, <2>4, <2>5, <2>6, <2>7, <2>8 DEF IInv
<1> QED
  BY <1>2, <1>3 DEF Spawn

\* The state file is written.
LEMMA RecordKeeps == ASSUME IInv, NEW m \in Managers, Record(m) PROVE IInv'
<1>1. ~At(m, "idle") /\ Service(m) \in ServiceNames /\ cmd[m].seen \in Identity
  BY ServiceNamed DEF Record, At, IInv, HasSeen
<1>2. CASE ~Alive(cmd[m].seen) /\ Raise(m) /\ UNCHANGED file
  BY <1>1, <1>2, RaiseRests, RestingKeeps, OneAtATime DEF Record, IInv, TypeOK
<1>3. CASE /\ Alive(cmd[m].seen)
           /\ file' = [file EXCEPT ![Service(m)] = cmd[m].seen]
           /\ Goto(m, "wait", None) \/ Finish(m)
  <2>1. file' \in [ServiceNames -> Identity \cup {None}]
    BY <1>1, <1>3 DEF IInv, TypeOK
  <2>2. NoOrphan'
    <3> SUFFICES ASSUME ~overlap, ~killed,
                        NEW p \in Pids, proc[p] # None, proc[p].program \in ServiceNames
                 PROVE  file'[proc[p].program] = [pid |-> p, birth |-> proc[p].birth]
      BY DEF Record, NoOrphan
    <3> DEFINE id == [pid |-> p, birth |-> proc[p].birth]
    <3>1. /\ \A n \in Managers : At(n, "record") => n = m
          /\ file[Service(m)] = None
      BY <1>1, OneAtATime DEF At, Record, IInv, FileKept
    <3>2. file[proc[p].program] = id \/ cmd[m].seen = id
      BY <3>1 DEF IInv, NoOrphan
    <3>3. CASE cmd[m].seen = id
      BY <1>1, <1>3, <3>3 DEF IInv, TypeOK, Spawned, Record, At
    <3>4. CASE file[proc[p].program] = id
      <4>1. id # None
        BY ManagerAssumption DEF ManagerAssumption, IInv, TypeOK, Process, Identity
      <4> QED
        BY <1>1, <1>3, <3>1, <3>4, <4>1 DEF IInv, TypeOK
    <3> QED
      BY <3>2, <3>3, <3>4
  <2>3. CASE Finish(m)
    <3>1. Between(m)
      BY <1>1, <2>3, FinishRests DEF IInv
    <3>2. /\ TypeOK' /\ HasWork' /\ BornBefore' /\ HasSeen'
          /\ Aimed' /\ Spawned' /\ Alone' /\ FileKept'
      BY <1>1, <2>1, <3>1, OneAtATime, RestingKeepsOthers DEF Record, IInv, TypeOK
    <3> QED
      BY <2>2, <3>2 DEF IInv
  <2>4. CASE Goto(m, "wait", None)
    <3>1. /\ cmd' \in [Managers -> Commands] /\ HasWork' /\ Alone'
          /\ cmd'[m] = [step |-> "wait", todo |-> cmd[m].todo, seen |-> None]
          /\ \A n \in Managers \ {m} : cmd'[n] = cmd[n]
          /\ Service(m)' = Service(m)
      BY <1>1, <2>4, GotoGoes DEF Record, AllSteps, StartSteps
    <3>2. TypeOK'
      BY <2>1, <3>1 DEF Record, IInv, TypeOK
    <3>3. BornBefore' /\ HasSeen' /\ Aimed' /\ Spawned'
      BY <3>1 DEF Record, IInv, BornBefore, HasSeen, Aimed, Spawned, Alive, At, Service, StopSteps
    <3>4. FileKept'
      BY <1>1, <3>1, OneAtATime DEF Record, IInv, FileKept, Service, At, StopSteps
    <3> QED
      BY <2>2, <3>1, <3>2, <3>3, <3>4 DEF IInv
  <2> QED
    BY <1>3, <2>3, <2>4
<1> QED
  BY <1>2, <1>3 DEF Record

\* The processes change at most in what they do.
SameProcesses ==
    \A p \in Pids :
        /\ proc'[p] # None <=> proc[p] # None
        /\ proc[p] # None => /\ proc'[p].program = proc[p].program
                             /\ proc'[p].birth = proc[p].birth

\* A step within a stop, which goes on with the process it looks at.
LEMMA StopGoesOn ==
    ASSUME IInv, NEW m \in Managers, cmd[m].step \in StopSteps,
           NEW step \in StopSteps, Goto(m, step, cmd[m].seen),
           step \in {"term", "kill"} => Managed(cmd[m].seen, Service(m)) /\ UNCHANGED proc,
           proc' \in [Pids -> Process \cup {None}],
           SameProcesses,
           UNCHANGED <<births, file, overlap, killed>>
    PROVE  IInv'
<1>1. ~At(m, "idle") /\ ~At(m, "record") /\ cmd[m].seen \in Identity
  BY DEF IInv, HasSeen, At, StopSteps
<1>2. /\ cmd' \in [Managers -> Commands] /\ HasWork' /\ Alone'
      /\ cmd'[m] = [step |-> step, todo |-> cmd[m].todo, seen |-> cmd[m].seen]
      /\ \A n \in Managers \ {m} : cmd'[n] = cmd[n]
      /\ Service(m)' = Service(m)
  BY <1>1, GotoGoes DEF AllSteps
<1>3. /\ cmd'[m].step = step /\ cmd'[m].seen = cmd[m].seen
      /\ \A n \in Managers \ {m} : Service(n)' = Service(n)
  BY <1>2 DEF Service
<1>4. TypeOK'
  BY <1>2 DEF IInv, TypeOK
<1>5. BornBefore' /\ HasSeen'
  BY <1>2, <1>3 DEF IInv, BornBefore, HasSeen, SameProcesses
<1>6. Aimed'
  <2>1. ASSUME NEW n \in Managers, cmd'[n].step \in {"term", "kill"},
               proc'[cmd'[n].seen.pid] # None
        PROVE  Alive(cmd[n].seen)' /\ proc'[cmd'[n].seen.pid].program = Service(n)'
    <3>1. cmd'[n].seen = cmd[n].seen /\ cmd[n].seen \in Identity
      BY <1>2, <1>3, <2>1 DEF IInv, HasSeen, StopSteps
    <3>2. Alive(cmd[n].seen) /\ proc[cmd[n].seen.pid].program = Service(n)
      BY <1>2, <1>3, <2>1, <3>1 DEF IInv, Aimed, Managed, Identity, SameProcesses
    <3> QED
      BY <1>2, <1>3, <3>1, <3>2 DEF Alive, Identity, SameProcesses
  <2> QED
    BY <2>1 DEF Aimed
<1>7. Spawned'
  <2>1. ASSUME NEW n \in Managers, At(n, "record")', Alive(cmd[n].seen)'
        PROVE  proc'[cmd'[n].seen.pid].program = Service(n)'
    <3>1. n # m /\ At(n, "record") /\ cmd'[n] = cmd[n]
      BY <1>2, <1>3, <2>1 DEF At, StopSteps
    <3>2. cmd[n].seen \in Identity
      BY <3>1 DEF IInv, HasSeen, At
    <3>3. Alive(cmd[n].seen)
      BY <2>1, <3>1, <3>2 DEF Alive, Identity, SameProcesses
    <3> QED
      BY <1>3, <3>1, <3>2, <3>3 DEF IInv, Spawned, Alive, Identity, SameProcesses
  <2> QED
    BY <2>1 DEF Spawned
<1>8. FileKept'
  BY <1>1, <1>2, <1>3, OneAtATime DEF IInv, FileKept, At, StopSteps
<1>9. NoOrphan'
  BY <1>1, <1>2, <1>3 DEF IInv, NoOrphan, At, StopSteps, SameProcesses
<1> QED
  BY <1>2, <1>4, <1>5, <1>6, <1>7, <1>8, <1>9 DEF IInv

\* The signals, and the patience between them.
LEMMA StopKeeps ==
    ASSUME IInv, NEW m \in Managers, Term(m) \/ Kill(m) \/ TermTimesOut(m)
    PROVE  IInv'
<1>1. CASE TermTimesOut(m)
  <2>1. /\ cmd[m].step \in StopSteps /\ "kill" \in StopSteps
        /\ Managed(cmd[m].seen, Service(m)) /\ Goto(m, "kill", cmd[m].seen)
        /\ UNCHANGED <<proc, births, file, overlap, killed>>
    BY <1>1 DEF TermTimesOut, At, StopSteps
  <2>2. proc' \in [Pids -> Process \cup {None}] /\ SameProcesses
    BY <2>1 DEF IInv, TypeOK, SameProcesses
  <2> QED
    BY <2>1, <2>2, StopGoesOn
<1>2. ASSUME NEW here \in {"term", "kill"}, NEW next \in {"wait_term", "wait_kill"},
             NEW run \in {"terminating", "killed"}, Signal(m, here, run, next)
      PROVE  IInv'
  <2>1. ~At(m, "idle") /\ ~At(m, "record") /\ cmd[m].step \in StopSteps
    BY <1>2 DEF Signal, At, StopSteps
  <2>2. CASE Raise(m) /\ UNCHANGED proc
    BY <1>2, <2>1, <2>2, RaiseRests, RestingKeeps, OneAtATime DEF Signal, IInv, TypeOK
  <2>3. CASE /\ proc[cmd[m].seen.pid] # None
             /\ proc' = [proc EXCEPT ![cmd[m].seen.pid].run = run]
             /\ Goto(m, next, cmd[m].seen)
    <3> DEFINE p == cmd[m].seen.pid
               signalled == [proc[p] EXCEPT !.run = run]
    <3>1. p \in Pids /\ proc[p] \in Process
      BY <2>1, <2>3 DEF IInv, TypeOK, HasSeen, Identity
    <3>2. /\ signalled \in Process /\ signalled.program = proc[p].program
          /\ signalled.birth = proc[p].birth
      BY <3>1 DEF Process
    <3>3. signalled # None
      BY <3>2, ManagerAssumption DEF ManagerAssumption
    <3>4. proc' = [proc EXCEPT ![p] = signalled]
      BY <2>3
    <3> HIDE DEF signalled, p
    <3>5. /\ proc' \in [Pids -> Process \cup {None}]
          /\ SameProcesses
      BY <2>3, <3>1, <3>2, <3>3, <3>4 DEF IInv, TypeOK, SameProcesses, p
    <3> QED
      BY <1>2, <2>1, <2>3, <3>5, StopGoesOn DEF Signal, StopSteps
  <2> QED
    BY <1>2, <2>2, <2>3 DEF Signal
<1>3. CASE Term(m)
  BY <1>2, <1>3 DEF Term
<1>4. CASE Kill(m)
  BY <1>2, <1>4 DEF Kill
<1> QED
  BY <1>1, <1>3, <1>4

-----------------------------------------------------------------------------
(* The processes. *)

\* A process that loads or ends: no other is touched.
LEMMA LoadsOrEndsKeeps ==
    ASSUME IInv, NEW p \in Pids, Loads(p) \/ Ends(p)
    PROVE  IInv'
<1>1. UNCHANGED <<births, file, cmd, overlap, killed>> /\ proc[p] # None
  BY DEF Loads, Ends
<1>2. PICK new \in Process \cup {None} :
         /\ proc' = [proc EXCEPT ![p] = new]
         /\ new # None => new.program = proc[p].program /\ new.birth = proc[p].birth
  <2>1. proc[p] \in Process
    BY <1>1 DEF IInv, TypeOK
  <2>2. /\ [proc[p] EXCEPT !.run = "serving"] \in Process
        /\ [proc[p] EXCEPT !.run = "serving"].program = proc[p].program
        /\ [proc[p] EXCEPT !.run = "serving"].birth = proc[p].birth
    BY <2>1 DEF Process
  <2>3. CASE proc' = [proc EXCEPT ![p] = [proc[p] EXCEPT !.run = "serving"]]
    BY <2>2, <2>3
  <2>4. CASE proc' = [proc EXCEPT ![p] = None]
    BY <2>4
  <2> QED
    BY <2>3, <2>4 DEF Loads, Ends
<1>3. /\ proc' \in [Pids -> Process \cup {None}]
      /\ \A q \in Pids : proc'[q] # None =>
            /\ proc[q] # None
            /\ proc'[q].program = proc[q].program /\ proc'[q].birth = proc[q].birth
  BY <1>1, <1>2 DEF IInv, TypeOK
<1>4. TypeOK' /\ HasWork' /\ BornBefore' /\ HasSeen' /\ Alone' /\ FileKept'
  BY <1>1, <1>3
     DEF IInv, TypeOK, HasWork, BornBefore, HasSeen, Alone, FileKept, At, Service
<1>5. \A id \in Identity : Alive(id)' => Alive(id) /\ proc'[id.pid].program = proc[id.pid].program
  BY <1>3 DEF Alive, Identity
<1>6. Aimed'
  BY <1>1, <1>3 DEF IInv, Aimed, HasSeen, StopSteps, Identity, Alive, Service
<1>7. Spawned'
  BY <1>1, <1>5 DEF IInv, Spawned, HasSeen, Service, At, Alive
<1>8. NoOrphan'
  BY <1>1, <1>3 DEF IInv, NoOrphan, At
<1> QED
  BY <1>4, <1>6, <1>7, <1>8 DEF IInv

\* A program that is none of the services starts, with the pid of a dead one perhaps.
LEMMA ForeignKeeps == ASSUME IInv, NEW p \in Pids, Foreign(p) PROVE IInv'
<1> DEFINE new == [program |-> Other, birth |-> births + 1, run |-> "serving"]
<1>1. /\ births + 1 \in 1..MaxBirths /\ births' = births + 1 /\ births' \in 0..MaxBirths
      /\ new \in Process /\ new # None
      /\ proc[p] = None /\ proc' = [proc EXCEPT ![p] = new]
      /\ UNCHANGED <<file, cmd, overlap, killed>>
  BY ManagerAssumption DEF ManagerAssumption, Foreign, Born, IInv, TypeOK, Process
<1>2. new.program \notin ServiceNames /\ new.birth = births + 1
  BY ManagerAssumption DEF ManagerAssumption
<1> HIDE DEF new
<1>3. TypeOK' /\ HasWork' /\ BornBefore' /\ HasSeen' /\ Alone' /\ FileKept'
  BY <1>1, <1>2 DEF IInv, TypeOK, Process, HasWork, BornBefore, HasSeen, StopSteps, Identity,
                    Alone, FileKept, At, Service
<1>4. \A id \in Identity : id.birth <= births /\ Alive(id)' =>
         Alive(id) /\ proc'[id.pid].program = proc[id.pid].program
  BY <1>1, <1>2 DEF IInv, TypeOK, Alive, Identity
<1>5. Aimed'
  <2>1. \A m \in Managers : cmd[m].step \in {"term", "kill"} => cmd[m].seen.pid # p
    BY DEF Foreign, Born, NoReuseInWindow, InWindow
  <2> QED
    BY <1>1, <2>1 DEF IInv, TypeOK, Aimed, HasSeen, StopSteps, Identity, Alive, Service
<1>6. Spawned'
  BY <1>1, <1>4 DEF IInv, Spawned, HasSeen, Service, At, Alive
<1>7. NoOrphan'
  BY <1>1, <1>2 DEF IInv, TypeOK, NoOrphan, At
<1> QED
  BY <1>3, <1>5, <1>6, <1>7 DEF IInv

-----------------------------------------------------------------------------
(* The theorems. *)

\* IInv holds at first, and every step keeps it.
THEOREM IInvInvariant == ManagerSpec => []IInv
<1>1. ManagerInit => IInv
  <2> SUFFICES ASSUME ManagerInit PROVE IInv
    OBVIOUS
  <2>1. Idle \in Commands
    BY DEF Idle, Commands, AllSteps
  <2>2. TypeOK
    <3>1. births \in 0..MaxBirths
      BY ManagerAssumption DEF ManagerAssumption, ManagerInit
    <3>2. /\ proc \in [Pids -> Process \cup {None}]
          /\ file \in [ServiceNames -> Identity \cup {None}]
          /\ cmd \in [Managers -> Commands]
      BY <2>1 DEF ManagerInit
    <3>3. overlap \in BOOLEAN /\ killed \in BOOLEAN
      BY DEF ManagerInit
    <3> QED
      BY <3>1, <3>2, <3>3 DEF TypeOK
  <2>3. HasWork /\ HasSeen /\ Aimed /\ Spawned /\ Alone /\ FileKept
    BY DEF ManagerInit, Idle, HasWork, HasSeen, Aimed, Spawned, Alone, FileKept, At, StopSteps
  <2>4. BornBefore /\ NoOrphan
    BY DEF ManagerInit, BornBefore, NoOrphan
  <2> QED
    BY <2>2, <2>3, <2>4 DEF IInv
<1>2. IInv /\ [ManagerNext]_managerVars => IInv'
  <2> SUFFICES ASSUME IInv, [ManagerNext]_managerVars PROVE IInv'
    OBVIOUS
  <2>1. CASE UNCHANGED managerVars
    BY <2>1 DEF managerVars, IInv, TypeOK, HasWork, BornBefore, HasSeen, Aimed, Spawned, Alone,
                FileKept, NoOrphan, At, Alive, Service
  <2>2. ASSUME NEW m \in Managers, Command(m) \/ Step(m) \/ Dies(m)
        PROVE  IInv'
    BY <2>2, CommandKeeps, DiesKeeps, CheckKeeps, SpawnKeeps, RecordKeeps, WaitKeeps, StopKeeps,
       GoneKeeps DEF Step
  <2>3. ASSUME NEW p \in Pids, Foreign(p) \/ Loads(p) \/ Ends(p)
        PROVE  IInv'
    BY <2>3, ForeignKeeps, LoadsOrEndsKeeps
  <2> QED
    BY <2>1, <2>2, <2>3 DEF ManagerNext
<1> QED
  BY <1>1, <1>2, PTL DEF ManagerSpec

\* The values stay of their types.
THEOREM TypeCorrect == ManagerSpec => []TypeOK
<1>1. IInv => TypeOK
  BY DEF IInv
<1> QED
  BY <1>1, IInvInvariant, PTL

\* Commands that come one after the other and live to their end leave no process of a service
\* that no state file names.
THEOREM NoServiceIsLost == ManagerSpec => []NoOrphan
<1>1. IInv => NoOrphan
  BY DEF IInv
<1> QED
  BY <1>1, IInvInvariant, PTL

\* There is at most one process of a service then.
OneOfEach ==
    ~overlap /\ ~killed =>
        \A p, q \in Pids :
            /\ proc[p] # None /\ proc[q] # None
            /\ proc[p].program = proc[q].program /\ proc[p].program \in ServiceNames
            => p = q

\* Commands that come one after the other never start a second process of a service.
THEOREM NoSecondProcess == ManagerSpec => []OneOfEach
<1>1. IInv => OneOfEach
  <2> SUFFICES ASSUME IInv, ~overlap, ~killed,
                      NEW p \in Pids, NEW q \in Pids, proc[p] # None, proc[q] # None,
                      proc[p].program = proc[q].program, proc[p].program \in ServiceNames
               PROVE  p = q
    BY DEF OneOfEach
  <2> DEFINE s == proc[p].program
             Id(r) == [pid |-> r, birth |-> proc[r].birth]
  <2>1. /\ file[s] = Id(p) \/ \E m \in Managers : At(m, "record") /\ cmd[m].seen = Id(p)
        /\ file[s] = Id(q) \/ \E m \in Managers : At(m, "record") /\ cmd[m].seen = Id(q)
    BY DEF IInv, NoOrphan
  <2>2. Id(p) = Id(q) => p = q
    OBVIOUS
  <2>3. ASSUME NEW m \in Managers, At(m, "record"),
               NEW r \in Pids, proc[r] # None, proc[r].program = s, cmd[m].seen = Id(r)
        PROVE  /\ \A n \in Managers : At(n, "record") => n = m
               /\ file[s] = None
    <3>1. Alive(cmd[m].seen) /\ proc[cmd[m].seen.pid].program = s
      BY <2>3 DEF Alive
    <3>2. s = Service(m)
      BY <2>3, <3>1 DEF IInv, Spawned
    <3> QED
      BY <2>3, <3>2 DEF IInv, FileKept, Alone, At
  <2>4. Id(p) # None /\ Id(q) # None
    BY ManagerAssumption DEF ManagerAssumption, IInv, TypeOK, Process, Identity
  <2> HIDE DEF s, Id
  <2> QED
    BY <2>1, <2>2, <2>3, <2>4 DEF s
<1> QED
  BY <1>1, IInvInvariant, PTL

\* What a signal may go to (the property SignalsOwn, at one pid).
OwnSignal(p) ==
    proc[p] # None /\ proc'[p] # None /\ proc'[p].run \in {"terminating", "killed"}
    /\ proc'[p] # proc[p] =>
        \E m \in Managers : /\ cmd[m].step \in {"term", "kill"}
                            /\ cmd[m].seen = [pid |-> p, birth |-> proc[p].birth]
                            /\ proc[p].program = Service(m)

\* Only Term and Kill signal, and the pid they look at still belongs to the process they read
\* of in the state file.
LEMMA SignalStep ==
    ASSUME IInv, [ManagerNext]_managerVars, NEW p \in Pids
    PROVE  OwnSignal(p)
<1> SUFFICES ASSUME proc[p] # None, proc'[p] # None,
                    proc'[p].run \in {"terminating", "killed"}, proc'[p] # proc[p]
             PROVE  \E m \in Managers :
                       /\ cmd[m].step \in {"term", "kill"}
                       /\ cmd[m].seen = [pid |-> p, birth |-> proc[p].birth]
                       /\ proc[p].program = Service(m)
  BY DEF OwnSignal
<1>1. ASSUME NEW q \in Pids, NEW program, NEW run, Born(q, program, run)
      PROVE  FALSE
  BY <1>1 DEF Born, IInv, TypeOK
<1>2. ASSUME NEW q \in Pids, Loads(q)
      PROVE  FALSE
  BY <1>2 DEF Loads, IInv, TypeOK, Process
<1>3. ASSUME NEW q \in Pids, Ends(q)
      PROVE  FALSE
  BY <1>3 DEF Ends, IInv, TypeOK
<1>4. PICK m \in Managers : Term(m) \/ Kill(m)
  BY <1>1, <1>2, <1>3
     DEF ManagerNext, managerVars, Command, Step, Dies, Check, Spawn, Record, Wait, WaitTimesOut,
         Gone, TermTimesOut, KillTimesOut, Foreign
<1>5. /\ cmd[m].step \in {"term", "kill"}
      /\ \E run : proc' = [proc EXCEPT ![cmd[m].seen.pid].run = run]
  BY <1>4 DEF Term, Kill, Signal, At
<1>6. cmd[m].seen \in Identity
  BY <1>5 DEF IInv, HasSeen, StopSteps
<1>7. cmd[m].seen.pid = p
  BY <1>5, <1>6 DEF IInv, TypeOK, Identity
<1>8. proc[p].birth = cmd[m].seen.birth /\ proc[p].program = Service(m)
  BY <1>5, <1>7 DEF IInv, Aimed, Alive
<1>9. cmd[m].seen = [pid |-> p, birth |-> proc[p].birth]
  BY <1>6, <1>7, <1>8 DEF Identity
<1> QED
  BY <1>5, <1>8, <1>9

\* No signal goes to a program that has got the pid of a dead service, whether or not the
\* commands overlap or are killed.
THEOREM NoStrangerSignalled == ManagerSpec => SignalsOwn
<1>1. IInv /\ [ManagerNext]_managerVars => [\A p \in Pids : OwnSignal(p)]_managerVars
  BY SignalStep
<1>2. ManagerSpec => [][\A p \in Pids : OwnSignal(p)]_managerVars
  BY <1>1, IInvInvariant, PTL DEF ManagerSpec
<1> QED
  BY <1>2 DEF SignalsOwn, OwnSignal

-----------------------------------------------------------------------------
(* What the handler of a batch keeps. *)

Placed == {x.at : x \in answers}
Status == {"ok", "error"}

BatchShape == /\ service \in Handlers /\ (batch = <<>> \/ batch \in Batches)
              /\ batch = <<>> => /\ answers = {} /\ begun = {} /\ ended = {} /\ together = {}
                                 /\ buffered = {} /\ current = 0

\* What the helper threads and the buffer hold are positions of the batch.
Helpers == /\ service # "music_cpu" => begun \subseteq Positions /\ ended \subseteq begun
           /\ service = "music_cpu" => begun = {}
           /\ service # "discogs" => current = 0 /\ buffered = {}

\* A track whose frames wait for the model is not answered, and the model can take it.
Unanswered == /\ buffered \subseteq Open /\ \A i \in buffered : ~Fails(i)
              /\ current # 0 => current \in Open \ buffered

AnswersSound == \A x \in answers : /\ x.at \in Positions /\ x = Answer(x.at, x.status)
                                   /\ x.status \in Status
                                   /\ x.status = "error" <=> Excused(x.at)
OneEach == \A x, y \in answers : x.at = y.at => x = y
Shared == \A is \in together : is \subseteq Placed

\* SongFormer answers from the first request on, CPU MIR the requests of the lanes that are over.
InTurn == service = "songformer" => \E n \in Nat : Placed = 1..n
ByLane == service = "music_cpu" => \A x \in answers : \E l \in ended : x.at \in Lane(l)

BatchesInv == /\ BatchShape /\ Helpers /\ Unanswered /\ AnswersSound /\ OneEach /\ Shared
              /\ InTurn /\ ByLane

-----------------------------------------------------------------------------
(* Answers and their places. *)

LEMMA AnswerFields ==
    ASSUME NEW i, NEW status
    PROVE  Answer(i, status).at = i /\ Answer(i, status).of = batch[i]
           /\ Answer(i, status).status = status
BY DEF Answer

LEMMA BatchIsSequence ==
    ASSUME BatchShape
    PROVE  /\ Len(batch) \in Nat /\ Positions = 1..Len(batch) /\ 0 \notin Positions
           /\ batch = <<>> <=> Positions = {}
<1>1. batch \in Seq(Requests)
    <2>1. CASE batch = <<>>
        BY <2>1, EmptySeq
    <2>2. CASE batch \in Batches
        BY <2>2, BatchesAssumption
    <2> QED BY <2>1, <2>2 DEF BatchShape
<1> QED BY <1>1 DEF Positions

\* There are as many answers as answered places.
LEMMA OnePerPlace ==
    ASSUME BatchShape, AnswersSound, OneEach
    PROVE  IsFiniteSet(Placed) /\ IsFiniteSet(answers) /\ Cardinality(answers) = Cardinality(Placed)
<1>1. Placed \subseteq 1..Len(batch) /\ Len(batch) \in Nat
    BY BatchIsSequence DEF AnswersSound, Placed
<1>2. IsFiniteSet(Placed)
    <2>1. IsFiniteSet(1..Len(batch))
        BY <1>1, FS_Interval
    <2> QED BY <1>1, <2>1, FS_Subset
<1> DEFINE f == [x \in answers |-> x.at]
<1>3. f \in [answers -> Placed]
    BY DEF Placed
<1>4. f \in Injection(answers, Placed)
    BY <1>3 DEF OneEach, Injection, IsInjective
<1>5. f \in Surjection(answers, Placed)
    BY <1>3 DEF Placed, Surjection
<1> QED BY <1>2, <1>4, <1>5, FS_Injection

\* New answers at open places, for a call that failed or for none.
LEMMA PutKeeps ==
    ASSUME BatchesInv, UNCHANGED <<service, batch>>,
           NEW is, is \subseteq Open, NEW new, answers' = answers \cup new,
           together' = together \/ together' = together \cup {is},
           \A x \in new : /\ x.at \in is /\ x = Answer(x.at, x.status) /\ x.status \in Status
                          /\ x.status = "error" <=> Excused(x.at)',
           \A i \in is : \E x \in new : x.at = i,
           \A x, y \in new : x.at = y.at => x = y
    PROVE  AnswersSound' /\ OneEach' /\ Shared' /\ Placed' = Placed \cup is
<1>1. /\ is \subseteq Positions /\ is \cap Placed = {} /\ Positions' = Positions
      /\ \A i, status : Answer(i, status)' = Answer(i, status)
    BY DEF Open, Placed, Positions, Answer
<1>2. \A x \in answers : Excused(x.at)' <=> Excused(x.at)
    <2> SUFFICES ASSUME NEW x \in answers PROVE Excused(x.at)' <=> Excused(x.at)
        OBVIOUS
    <2>1. x.at \notin is
        BY <1>1 DEF Placed
    <2>2. (Own(x.at)' <=> Own(x.at)) /\ (Fails(x.at)' <=> Fails(x.at))
        BY DEF Own, Fails
    <2>3. (\E js \in together' : x.at \in js) <=> (\E js \in together : x.at \in js)
        BY <2>1
    <2> QED BY <2>2, <2>3 DEF Excused
<1>3. AnswersSound'
    BY <1>1, <1>2 DEF BatchesInv, AnswersSound
<1>4. OneEach'
    BY <1>1 DEF BatchesInv, OneEach, Placed
<1>5. Placed' = Placed \cup is
    BY DEF Placed
<1>6. Shared'
    BY <1>5 DEF BatchesInv, Shared
<1> QED BY <1>3, <1>4, <1>5, <1>6

\* A call of a model that answers these open places, each as its request deserves or all alike.
LEMMA SettlesKeeps ==
    ASSUME BatchesInv, UNCHANGED <<service, batch>>, NEW is, is \subseteq Open, Settles(is),
           service = "discogs" => \A i \in is : ~Fails(i)
    PROVE  AnswersSound' /\ OneEach' /\ Shared' /\ Placed' = Placed \cup is
<1>1. /\ is \cap Placed = {}
      /\ \A js \in together : js \cap is = {}
    BY DEF Open, Placed, BatchesInv, Shared
<1>2. \A i : (Own(i)' <=> Own(i)) /\ (Fails(i)' <=> Fails(i))
    BY DEF Own, Fails
<1>3. CASE answers' = answers \cup {Verdict(i) : i \in is} /\ UNCHANGED <<callFaults, together>>
    <2> DEFINE new == {Verdict(i) : i \in is}
    <2>1. ASSUME NEW i \in is PROVE Excused(i)' <=> Own(i)
        BY <1>1, <1>2, <1>3 DEF Excused
    <2>2. ASSUME NEW i \in is
          PROVE  /\ Verdict(i).at = i /\ Verdict(i) = Answer(i, Verdict(i).status)
                 /\ Verdict(i).status \in Status
                 /\ Verdict(i).status = "error" <=> Excused(i)'
        BY <2>1, AnswerFields DEF Verdict, Status
    <2>3. \A x \in new : /\ x.at \in is /\ x = Answer(x.at, x.status) /\ x.status \in Status
                         /\ x.status = "error" <=> Excused(x.at)'
        BY <2>2
    <2>4. (\A i \in is : \E x \in new : x.at = i) /\ (\A x, y \in new : x.at = y.at => x = y)
        BY <2>2
    <2> HIDE DEF new
    <2>5. answers' = answers \cup new /\ together' = together
        BY <1>3 DEF new
    <2> QED BY <2>3, <2>4, <2>5, PutKeeps
<1>4. CASE answers' = answers \cup AnswersOf(is, "error") /\ together' = together \cup {is}
    <2> DEFINE new == {Answer(i, "error") : i \in is}
    <2>1. ASSUME NEW i \in is PROVE Excused(i)'
        BY <1>4 DEF Excused
    <2>2. ASSUME NEW i \in is
          PROVE  Answer(i, "error").at = i /\ Answer(i, "error").status = "error"
        BY AnswerFields
    <2>3. \A x \in new : /\ x.at \in is /\ x = Answer(x.at, x.status) /\ x.status \in Status
                         /\ x.status = "error" <=> Excused(x.at)'
        BY <2>1, <2>2 DEF Status
    <2>4. (\A i \in is : \E x \in new : x.at = i) /\ (\A x, y \in new : x.at = y.at => x = y)
        BY <2>2
    <2> HIDE DEF new
    <2>5. answers' = answers \cup new
        BY <1>4 DEF new, AnswersOf
    <2> QED BY <1>4, <2>3, <2>4, <2>5, PutKeeps
<1> QED BY <1>3, <1>4 DEF Settles

-----------------------------------------------------------------------------
(* The steps of a batch. *)

LEMMA InitBatches == BatchesInit => BatchesInv
<1> SUFFICES ASSUME BatchesInit PROVE BatchesInv
    OBVIOUS
<1>1. /\ service \in Handlers /\ batch = <<>> /\ answers = {} /\ begun = {} /\ ended = {}
      /\ current = 0 /\ buffered = {} /\ together = {}
    BY DEF BatchesInit
<1>2. Placed = 1..0
    BY <1>1 DEF Placed
<1>3. InTurn
    BY <1>2 DEF InTurn
<1> QED BY <1>1, <1>3 DEF BatchesInv, BatchShape, Helpers, Unanswered, AnswersSound, OneEach, Shared, ByLane

LEMMA BeginKeeps ==
    ASSUME BatchesInv, NEW b \in Batches, Begin(b)
    PROVE  BatchesInv'
<1>1. /\ batch = <<>> /\ batch' = b
      /\ answers' = IF service # "discogs" THEN {}
                    ELSE {[at |-> i, of |-> b[i], status |-> "error"] :
                             i \in {j \in DOMAIN b : ~Acceptable(b[j])}}
      /\ UNCHANGED <<service, begun, ended, current, buffered, together>>
    BY DEF Begin
<1>2. begun = {} /\ ended = {} /\ together = {} /\ buffered = {} /\ current = 0
    BY <1>1 DEF BatchesInv, BatchShape
<1>3. ASSUME NEW x \in answers'
      PROVE  /\ service = "discogs" /\ x.at \in DOMAIN b /\ ~Acceptable(b[x.at])
             /\ x = [at |-> x.at, of |-> b[x.at], status |-> "error"] /\ x.status = "error"
    BY <1>1
<1>4. BatchShape'
    <2>1. b = <<>> => answers' = {}
        <3>1. b = <<>> => DOMAIN b = {}
            OBVIOUS
        <3> QED BY <1>3, <3>1
    <2> QED BY <1>1, <1>2, <2>1 DEF BatchesInv, BatchShape
<1>5. Helpers' /\ Unanswered' /\ Shared'
    BY <1>1, <1>2 DEF Helpers, Unanswered, Shared
<1>6. AnswersSound'
    <2> SUFFICES ASSUME NEW x \in answers'
                 PROVE  /\ x.at \in Positions' /\ x = Answer(x.at, x.status)'
                        /\ x.status \in Status /\ x.status = "error" /\ Excused(x.at)'
        BY DEF AnswersSound
    <2>1. Own(x.at)'
        BY <1>1, <1>3 DEF Own, Acceptable
    <2> QED BY <1>1, <1>3, <2>1 DEF Positions, Answer, Status, Excused
<1>7. OneEach'
    BY <1>3 DEF OneEach
<1>8. InTurn' /\ ByLane'
    <2>1. service # "discogs" => Placed' = 1..0
        BY <1>3 DEF Placed
    <2> QED BY <1>1, <1>3, <2>1 DEF InTurn, ByLane
<1> QED BY <1>4, <1>5, <1>6, <1>7, <1>8 DEF BatchesInv

LEMMA ReturnKeeps ==
    ASSUME BatchesInv, Return
    PROVE  BatchesInv'
<1>1. /\ batch' = <<>> /\ answers' = {} /\ begun' = {} /\ ended' = {} /\ together' = {}
      /\ service' = service /\ current' = 0 /\ buffered' = {}
    BY DEF Return
<1>2. Placed' = 1..0
    BY <1>1 DEF Placed
<1>3. InTurn'
    BY <1>2 DEF InTurn
<1> QED BY <1>1, <1>3 DEF BatchesInv, BatchShape, Helpers, Unanswered, AnswersSound, OneEach, Shared, ByLane

\* What stays when no answer is given.
LEMMA NoAnswerKeeps ==
    ASSUME BatchesInv, UNCHANGED <<service, batch, answers, together>>
    PROVE  /\ AnswersSound' /\ OneEach' /\ Shared' /\ InTurn'
           /\ Open' = Open /\ Positions' = Positions
           /\ \A i : (Fails(i)' <=> Fails(i)) /\ Lane(i)' = Lane(i)
<1>1. Placed' = Placed /\ Positions' = Positions /\ Open' = Open
    BY DEF Placed, Positions, Open
<1>2. \A i : (Own(i)' <=> Own(i)) /\ (Fails(i)' <=> Fails(i))
    BY DEF Own, Fails
<1>3. \A i : Excused(i)' <=> Excused(i)
    BY <1>2 DEF Excused
<1>4. \A i, status : Answer(i, status)' = Answer(i, status)
    BY DEF Answer
<1>5. AnswersSound' /\ OneEach' /\ Shared' /\ InTurn'
    BY <1>1, <1>3, <1>4 DEF BatchesInv, AnswersSound, OneEach, Shared, InTurn
<1>6. \A l : Lane(l)' = Lane(l)
    BY <1>1 DEF Lane, Lanes
<1> QED BY <1>1, <1>2, <1>5, <1>6

LEMMA DecodesKeep ==
    ASSUME BatchesInv, NEW i \in Positions, BeginDecode(i) \/ EndDecode(i) \/ TakeDecoded(i)
    PROVE  BatchesInv'
<1>1. UNCHANGED <<service, batch, answers, together, buffered>> /\ batch # <<>>
    BY DEF BeginDecode, MayBegin, Is, EndDecode, TakeDecoded
<1>2. BatchShape'
    BY <1>1 DEF BatchesInv, BatchShape
<1>3. service # "music_cpu"
    BY DEF BeginDecode, MayBegin, Is, EndDecode, TakeDecoded, BatchesInv, Helpers
<1>4. Helpers'
    <2>1. begun' \subseteq Positions /\ ended' \subseteq begun'
        BY <1>3 DEF BeginDecode, EndDecode, TakeDecoded, BatchesInv, Helpers
    <2>2. service # "discogs" => current' = current
        BY DEF BeginDecode, EndDecode, TakeDecoded, Is
    <2> QED BY <1>1, <1>3, <2>1, <2>2 DEF BatchesInv, Helpers, Positions
<1>5. Unanswered'
    <2>1. current' = current \/ current' \in Open \ buffered
        BY DEF BeginDecode, EndDecode, TakeDecoded
    <2> QED BY <1>1, <2>1, NoAnswerKeeps DEF BatchesInv, Unanswered
<1>6. ByLane'
    BY <1>1, <1>3 DEF ByLane
<1> QED BY <1>1, <1>2, <1>4, <1>5, <1>6, NoAnswerKeeps DEF BatchesInv

\* The places that are open after some of them were answered.
LEMMA OpenAfter ==
    ASSUME UNCHANGED batch, NEW is, Placed' = Placed \cup is
    PROVE  Open' = Open \ is
BY DEF Open, Placed, Positions

LEMMA FlushKeeps ==
    ASSUME BatchesInv, Flush
    PROVE  BatchesInv'
<1>1. /\ service = "discogs" /\ batch # <<>> /\ Settles(buffered) /\ buffered' = {}
      /\ UNCHANGED <<service, batch, begun, ended, current>>
    BY DEF Flush, Is
<1>2. /\ buffered \subseteq Open /\ \A i \in buffered : ~Fails(i)
      /\ current # 0 => current \in Open \ buffered
    BY DEF BatchesInv, Unanswered
<1>3. AnswersSound' /\ OneEach' /\ Shared' /\ Placed' = Placed \cup buffered
    BY <1>1, <1>2, SettlesKeeps
<1>4. BatchShape'
    BY <1>1 DEF BatchesInv, BatchShape
<1>5. Helpers'
    BY <1>1 DEF BatchesInv, Helpers, Positions
<1>6. Unanswered'
    <2>1. Open' = Open \ buffered
        BY <1>1, <1>3, OpenAfter
    <2> QED BY <1>1, <1>2, <2>1 DEF Unanswered
<1>7. InTurn' /\ ByLane'
    BY <1>1 DEF InTurn, ByLane
<1> QED BY <1>3, <1>4, <1>5, <1>6, <1>7 DEF BatchesInv

LEMMA KeepKeeps ==
    ASSUME BatchesInv, Keep
    PROVE  BatchesInv'
<1>1. /\ service = "discogs" /\ batch # <<>> /\ current # 0 /\ current' = 0
      /\ UNCHANGED <<service, batch, begun, ended, together>>
    BY DEF Keep, Is
<1>2. /\ buffered \subseteq Open /\ \A i \in buffered : ~Fails(i)
      /\ current \in Open \ buffered
    BY <1>1 DEF BatchesInv, Unanswered
<1>0. PICK c : c = current
    OBVIOUS
<1>3. \A i : Fails(i)' <=> Fails(i)
    BY <1>1 DEF Fails, Own
<1>4. BatchShape'
    BY <1>1 DEF BatchesInv, BatchShape
<1>5. Helpers'
    BY <1>1 DEF BatchesInv, Helpers, Positions
<1>6. InTurn' /\ ByLane'
    BY <1>1 DEF InTurn, ByLane
<1>7. CASE Fails(current)
    <2>1. answers' = answers \cup {Answer(c, "error")} /\ buffered' = buffered
        BY <1>0, <1>7 DEF Keep
    <2>2. Excused(c)'
        BY <1>0, <1>1, <1>3, <1>7 DEF Excused
    <2>3. AnswersSound' /\ OneEach' /\ Shared' /\ Placed' = Placed \cup {c}
        <3> DEFINE is == {c}
                   new == {Answer(c, "error")}
        <3>1. is \subseteq Open
            BY <1>0, <1>2
        <3>2. \A x \in new : /\ x.at \in is /\ x = Answer(x.at, x.status) /\ x.status \in Status
                             /\ x.status = "error" <=> Excused(x.at)'
            BY <2>2, AnswerFields DEF Status
        <3>3. (\A i \in is : \E x \in new : x.at = i) /\ (\A x, y \in new : x.at = y.at => x = y)
            BY AnswerFields
        <3>4. answers' = answers \cup new
            BY <2>1
        <3> HIDE DEF new, is
        <3>5. AnswersSound' /\ OneEach' /\ Shared' /\ Placed' = Placed \cup is
            BY <1>1, <3>1, <3>2, <3>3, <3>4, PutKeeps
        <3> QED BY <3>5 DEF is
    <2>4. Unanswered'
        <3>1. Open' = Open \ {c}
            BY <1>1, <2>3, OpenAfter
        <3> QED BY <1>0, <1>1, <1>2, <1>3, <2>1, <3>1 DEF Unanswered
    <2> QED BY <1>4, <1>5, <1>6, <2>3, <2>4 DEF BatchesInv
<1>8. CASE ~Fails(current)
    <2>1. buffered' = buffered \cup {current} /\ answers' = answers
        BY <1>8 DEF Keep
    <2>2. AnswersSound' /\ OneEach' /\ Shared' /\ Open' = Open
        BY <1>1, <2>1, NoAnswerKeeps
    <2>3. Unanswered'
        BY <1>1, <1>2, <1>3, <1>8, <2>1, <2>2 DEF Unanswered
    <2> QED BY <1>4, <1>5, <1>6, <2>2, <2>3 DEF BatchesInv
<1> QED BY <1>7, <1>8

\* A lane that is not over has no answers: every position is in one lane.
LEMMA EndLaneKeeps ==
    ASSUME BatchesInv, NEW l, EndLane(l)
    PROVE  BatchesInv'
<1>1. /\ service = "music_cpu" /\ batch # <<>> /\ l \notin ended /\ ended' = ended \cup {l}
      /\ UNCHANGED <<service, batch, begun, current, buffered>>
    BY DEF EndLane, Is
<1>2. Settles(Lane(l))
    BY DEF EndLane, Settles, LaneAnswers
<1>3. Lane(l) \subseteq Open
    <2> SUFFICES ASSUME NEW x \in answers, x.at \in Lane(l) PROVE FALSE
        BY DEF Lane, Open
    <2>1. PICK o \in ended : x.at \in Lane(o)
        BY <1>1 DEF BatchesInv, ByLane
    <2>2. o = l
        BY <2>1 DEF Lane
    <2> QED BY <1>1, <2>1, <2>2
<1>4. AnswersSound' /\ OneEach' /\ Shared' /\ Placed' = Placed \cup Lane(l)
    BY <1>1, <1>2, <1>3, SettlesKeeps
<1>5. BatchShape'
    BY <1>1 DEF BatchesInv, BatchShape
<1>6. Helpers'
    BY <1>1 DEF BatchesInv, Helpers
<1>7. Unanswered'
    BY <1>1 DEF BatchesInv, Helpers, Unanswered
<1>8. ByLane'
    <2>1. \A o : Lane(o)' = Lane(o)
        BY <1>1 DEF Lane, Lanes, Positions
    <2> SUFFICES ASSUME NEW x \in answers' PROVE \E o \in ended' : x.at \in Lane(o)
        BY <2>1 DEF ByLane
    <2>2. x.at \in Placed \cup Lane(l)
        BY <1>4 DEF Placed
    <2>3. CASE x.at \in Placed
        <3>1. PICK y \in answers : y.at = x.at
            BY <2>3 DEF Placed
        <3> QED BY <1>1, <3>1 DEF BatchesInv, ByLane
    <2> QED BY <1>1, <2>2, <2>3
<1>9. InTurn'
    BY <1>1 DEF InTurn
<1> QED BY <1>4, <1>5, <1>6, <1>7, <1>8, <1>9 DEF BatchesInv

\* The next position of SongFormer is the first open one.
LEMMA InferNextKeeps ==
    ASSUME BatchesInv, NEW i \in Positions, InferNext(i)
    PROVE  BatchesInv'
<1>1. /\ service = "songformer" /\ batch # <<>> /\ i = Cardinality(answers) + 1 /\ Settles({i})
      /\ UNCHANGED <<service, batch, begun, ended, current, buffered>>
    BY DEF InferNext, Is
<1>2. PICK n \in Nat : Placed = 1..n
    BY <1>1 DEF BatchesInv, InTurn
<1>3. Cardinality(answers) = n
    <2>1. Cardinality(answers) = Cardinality(1..n)
        BY <1>2, OnePerPlace DEF BatchesInv
    <2>2. 1 \in Int /\ n \in Int
        OBVIOUS
    <2>3. Cardinality(1..n) = IF 1 > n THEN 0 ELSE n - 1 + 1
        BY <2>2, FS_Interval
    <2> QED BY <2>1, <2>3
<1>4. i \notin Placed
    BY <1>1, <1>2, <1>3
<1>5. {i} \subseteq Open
    BY <1>4 DEF Open, Placed
<1>6. AnswersSound' /\ OneEach' /\ Shared' /\ Placed' = Placed \cup {i}
    BY <1>1, <1>5, SettlesKeeps
<1>7. BatchShape'
    BY <1>1 DEF BatchesInv, BatchShape
<1>8. Helpers' /\ Unanswered' /\ ByLane'
    BY <1>1 DEF BatchesInv, Helpers, Unanswered, ByLane, Positions
<1>9. InTurn'
    <2>1. Placed' = 1..(n + 1)
        BY <1>1, <1>2, <1>3, <1>6
    <2> QED BY <2>1 DEF InTurn
<1> QED BY <1>6, <1>7, <1>8, <1>9 DEF BatchesInv

LEMMA AskUpstreamKeeps ==
    ASSUME BatchesInv, NEW i \in Positions, AskUpstream(i)
    PROVE  BatchesInv'
<1>1. /\ service = "alm" /\ batch # <<>> /\ i \in Open
      /\ UNCHANGED <<service, batch, begun, ended, current, buffered>>
    BY DEF AskUpstream, Is
<1>2. \/ answers' = answers /\ together' = together
      \/ Settles({i})
      \/ answers' = answers \cup AnswersOf({i}, "error") /\ together' = together \cup {{i}}
    <2>1. CASE ~Own(i) /\ answers' = answers \cup {Answer(i, "ok")} /\ UNCHANGED <<callFaults, together>>
        <3>1. {Verdict(j) : j \in {i}} = {Answer(i, "ok")}
            BY <2>1 DEF Verdict
        <3> QED BY <2>1, <3>1 DEF Settles
    <2>2. AnswersOf({i}, "error") = {Answer(i, "error")}
        BY DEF AnswersOf
    <2> QED BY <2>1, <2>2 DEF AskUpstream
<1>3. BatchShape'
    BY <1>1 DEF BatchesInv, BatchShape
<1>4. Helpers' /\ Unanswered' /\ InTurn' /\ ByLane'
    BY <1>1 DEF BatchesInv, Helpers, Unanswered, InTurn, ByLane, Positions
<1>5. AnswersSound' /\ OneEach' /\ Shared'
    <2>1. CASE answers' = answers /\ together' = together
        BY <1>1, <2>1, NoAnswerKeeps
    <2>2. CASE Settles({i})
        BY <1>1, <2>2, SettlesKeeps
    <2>3. CASE answers' = answers \cup AnswersOf({i}, "error") /\ together' = together \cup {{i}}
        <3> DEFINE is == {i}
                   new == {Answer(i, "error")}
        <3>1. is \subseteq Open
            BY <1>1
        <3>2. Excused(i)'
            BY <2>3 DEF Excused
        <3>3. \A x \in new : /\ x.at \in is /\ x = Answer(x.at, x.status) /\ x.status \in Status
                             /\ x.status = "error" <=> Excused(x.at)'
            BY <3>2, AnswerFields DEF Status
        <3>4. (\A j \in is : \E x \in new : x.at = j) /\ (\A x, y \in new : x.at = y.at => x = y)
            BY AnswerFields
        <3>5. answers' = answers \cup new /\ together' = together \cup {is}
            BY <2>3 DEF AnswersOf
        <3> HIDE DEF new, is
        <3> QED BY <1>1, <3>1, <3>3, <3>4, <3>5, PutKeeps
    <2> QED BY <1>2, <2>1, <2>2, <2>3
<1> QED BY <1>3, <1>4, <1>5 DEF BatchesInv

LEMMA BatchesStutter == BatchesInv /\ UNCHANGED batchesVars => BatchesInv'
<1> SUFFICES ASSUME BatchesInv, UNCHANGED batchesVars PROVE BatchesInv'
    OBVIOUS
<1>1. UNCHANGED <<service, batch, answers, begun, ended, current, buffered, together>>
    BY DEF batchesVars
<1>2. /\ AnswersSound' /\ OneEach' /\ Shared' /\ InTurn' /\ Open' = Open /\ Positions' = Positions
      /\ \A i : (Fails(i)' <=> Fails(i)) /\ Lane(i)' = Lane(i)
    BY <1>1, NoAnswerKeeps
<1>3. BatchShape' /\ Helpers' /\ Unanswered' /\ ByLane'
    BY <1>1, <1>2 DEF BatchesInv, BatchShape, Helpers, Unanswered, ByLane
<1> QED BY <1>2, <1>3 DEF BatchesInv

LEMMA NextKeepsBatches == BatchesInv /\ [BatchesNext]_batchesVars => BatchesInv'
<1> SUFFICES ASSUME BatchesInv, [BatchesNext]_batchesVars PROVE BatchesInv'
    OBVIOUS
<1>1. CASE \E b \in Batches : Begin(b)
    BY <1>1, BeginKeeps
<1>2. CASE Return
    BY <1>2, ReturnKeeps
<1>3. CASE Flush
    BY <1>3, FlushKeeps
<1>4. CASE Keep
    BY <1>4, KeepKeeps
<1>5. ASSUME NEW i \in Positions, BeginDecode(i) \/ EndDecode(i) \/ TakeDecoded(i) PROVE BatchesInv'
    BY <1>5, DecodesKeep
<1>6. ASSUME NEW i \in Positions, InferNext(i) PROVE BatchesInv'
    BY <1>6, InferNextKeeps
<1>7. ASSUME NEW i \in Positions, AskUpstream(i) PROVE BatchesInv'
    BY <1>7, AskUpstreamKeeps
<1>8. CASE \E l \in 0..(Workers - 1) : EndLane(l)
    BY <1>8, EndLaneKeeps
<1>9. CASE UNCHANGED batchesVars
    BY <1>9, BatchesStutter
<1> QED BY <1>1, <1>2, <1>3, <1>4, <1>5, <1>6, <1>7, <1>8, <1>9 DEF BatchesNext, BatchesStep

-----------------------------------------------------------------------------
\* Every batch goes back with exactly one answer for each request, at its place and of its request,
\* and with an error only where the request was bad or shared a call that failed - for any number
\* of requests, threads, lanes, retries and failing calls of any of the four handlers
\* (process_discogs_batch, process_cpu_mir_batch, SongFormerRuntime.process_batch, _infer_one).
THEOREM BatchAnswersAreOwn == BatchesSpec => []AnswersAreOwn
<1>1. BatchesInv => AnswersAreOwn
    <2> SUFFICES ASSUME BatchesInv, batch # <<>>, Open = {}
                 PROVE  /\ Cardinality(answers) = Len(batch)
                        /\ \A x \in answers : /\ x.of = batch[x.at]
                                              /\ x.status = "error" <=> Excused(x.at)
        BY DEF AnswersAreOwn
    <2>1. Positions = 1..Len(batch) /\ Len(batch) \in Nat
        BY BatchIsSequence DEF BatchesInv
    <2>2. Placed = 1..Len(batch)
        BY <2>1 DEF Open, Placed, BatchesInv, AnswersSound
    <2>3. Cardinality(1..Len(batch)) = Len(batch)
        <3>1. 1 \in Int /\ Len(batch) \in Int
            BY <2>1
        <3>2. Cardinality(1..Len(batch)) = IF 1 > Len(batch) THEN 0 ELSE Len(batch) - 1 + 1
            BY <3>1, FS_Interval
        <3> QED BY <2>1, <3>2
    <2>4. Cardinality(answers) = Len(batch)
        BY <2>2, <2>3, OnePerPlace DEF BatchesInv
    <2>5. ASSUME NEW x \in answers PROVE x.of = batch[x.at] /\ (x.status = "error" <=> Excused(x.at))
        <3>1. x = Answer(x.at, x.status) /\ (x.status = "error" <=> Excused(x.at))
            BY DEF BatchesInv, AnswersSound
        <3> QED BY <3>1, AnswerFields
    <2> QED BY <2>4, <2>5
<1>2. BatchesSpec => []BatchesInv
    BY InitBatches, NextKeepsBatches, PTL DEF BatchesSpec
<1> QED BY <1>1, <1>2, PTL

-----------------------------------------------------------------------------
\* The strengthening.  Two facts carry it: a backup is removed only after the tree it backs
\* up is in place again, and a swap moves nothing but a verified staging tree.
PublishInv ==
    /\ PublishTypeOK
    /\ destination = NoTree => backup # Partial
    /\ publishing \in {"clear", "write", "verify", "remove_old", "swap_out"} => backup = NoTree
    /\ publishing # "idle" => goal \in Trees
    /\ publishing \in {"remove_old", "swap_out"} => destination # NoTree /\ staging = goal
    /\ publishing = "swap_in" => /\ destination = NoTree /\ staging = goal
                                 /\ backup \in Trees \cup {NoTree}
    /\ publishing = "remove_backup" => destination # NoTree

-----------------------------------------------------------------------------
(* The invariant. *)

LEMMA PublishInitInv == PublishInit => PublishInv
BY TreeAssumption DEF PublishInit, PublishInv, PublishTypeOK, Steps, TreeAssumption

LEMMA StepKeepsInv == PublishInv /\ PublishStep => PublishInv'
<1> SUFFICES ASSUME PublishInv, PublishStep PROVE PublishInv'
    OBVIOUS
<1> USE TreeAssumption DEF PublishInv, PublishTypeOK, Steps, TreeAssumption
<1>1. CASE Recover       BY <1>1 DEF Recover
<1>2. CASE Clear         BY <1>2 DEF Clear
<1>3. CASE Write         BY <1>3 DEF Write
<1>4. CASE Verify        BY <1>4 DEF Verify
<1>5. CASE RemoveOld     BY <1>5 DEF RemoveOld
<1>6. CASE SwapOut       BY <1>6 DEF SwapOut
<1>7. CASE SwapIn        BY <1>7 DEF SwapIn
<1>8. CASE RemoveBackup  BY <1>8 DEF RemoveBackup
<1> QED BY <1>1, <1>2, <1>3, <1>4, <1>5, <1>6, <1>7, <1>8 DEF PublishStep

LEMMA NextKeepsInv == PublishInv /\ [PublishNext]_publishVars => PublishInv'
<1> SUFFICES ASSUME PublishInv, [PublishNext]_publishVars PROVE PublishInv'
    OBVIOUS
<1>1. CASE \E tree \in Trees : BeginPublish(tree)
    BY <1>1, TreeAssumption
    DEF BeginPublish, PublishInv, PublishTypeOK, Steps, TreeAssumption
<1>2. CASE PublishStep
    BY <1>2, StepKeepsInv
<1>3. CASE PublishFails
    BY <1>3, TreeAssumption
    DEF PublishFails, WriteFails, SwapInFails, PublishInv, PublishTypeOK, Steps, TreeAssumption
<1>4. CASE PublisherDies
    BY <1>4, TreeAssumption
    DEF PublisherDies, PublishInv, PublishTypeOK, Steps, TreeAssumption
<1>5. CASE UNCHANGED publishVars
    BY <1>5 DEF publishVars, PublishInv, PublishTypeOK
<1> QED BY <1>1, <1>2, <1>3, <1>4, <1>5 DEF PublishNext

LEMMA PublishInvariant == PublishSpec => []PublishInv
BY PublishInitInv, NextKeepsInv, PTL DEF PublishSpec

\* The three directories and the publisher are well-typed whatever tree is published, and
\* wherever a publication was cut short.
THEOREM PublisherTypeCorrect == PublishSpec => []PublishTypeOK
<1>1. PublishInv => PublishTypeOK
    BY DEF PublishInv
<1> QED BY <1>1, PublishInvariant, PTL

-----------------------------------------------------------------------------
(* The refinement. *)

\* A step publishes the whole of the goal or leaves the published tree as it is, and only a
\* new publication changes the goal.
LEMMA StepIsAtomic ==
    ASSUME PublishInv, PublishNext
    PROVE  \/ goal' \in Trees /\ Published' = Published
           \/ goal \in Trees /\ Published' = goal /\ goal' = goal
           \/ Published' = Published /\ goal' = goal
<1> USE TreeAssumption DEF PublishInv, PublishTypeOK, Published, TreeAssumption
<1>1. CASE \E tree \in Trees : BeginPublish(tree)  BY <1>1 DEF BeginPublish
<1>2. CASE Recover        BY <1>2 DEF Recover
<1>3. CASE Clear          BY <1>3 DEF Clear
<1>4. CASE Write          BY <1>4 DEF Write
<1>5. CASE Verify         BY <1>5 DEF Verify
<1>6. CASE RemoveOld      BY <1>6 DEF RemoveOld
<1>7. CASE SwapOut        BY <1>7 DEF SwapOut
<1>8. CASE SwapIn         BY <1>8 DEF SwapIn
<1>9. CASE RemoveBackup   BY <1>9 DEF RemoveBackup
<1>10. CASE PublishFails  BY <1>10 DEF PublishFails, WriteFails, SwapInFails
<1>11. CASE PublisherDies BY <1>11 DEF PublisherDies
<1> QED BY <1>1, <1>2, <1>3, <1>4, <1>5, <1>6, <1>7, <1>8, <1>9, <1>10, <1>11
        DEF PublishNext, PublishStep

\* publish_annotation_records implements the atomic replacement of a tree: whichever step a
\* publication fails or dies in, and whatever an earlier one left, the published tree is the
\* old one or the whole new one.
THEOREM PublicationIsAtomic == PublishSpec => ImplementsAtomic
<1>1. PublishInit => Atomic!Init
    BY DEF PublishInit, Atomic!Init, Published
<1>2. ASSUME PublishInv, [PublishNext]_publishVars
      PROVE  [Atomic!Next]_<<Published, goal>>
    <2>1. CASE PublishNext
        BY <1>2, <2>1, StepIsAtomic DEF Atomic!Next, Atomic!Aim, Atomic!Replace
    <2>2. CASE UNCHANGED publishVars
        BY <2>2 DEF publishVars, Published
    <2> QED BY <1>2, <2>1, <2>2
<1> QED BY <1>1, <1>2, PublishInvariant, PTL DEF PublishSpec, ImplementsAtomic, Atomic!Spec

-----------------------------------------------------------------------------
(* The places of the script, each with those after it.  A run in which nothing is accepted  *)
(* goes from "route" to "publish".                                                         *)
FromValidate == {"validate", "done"}
FromCombine == {"combine_retry"} \cup FromValidate
FromFinish == {"finish"} \cup FromCombine
FromPublish == {"publish", "publishing"} \cup FromFinish
FromMerge == {"merge"} \cup FromPublish
FromPaths == {"path_conflicts"} \cup FromMerge
FromFinal == {"active_final"} \cup FromPaths
FromAsr == {"section_asr"} \cup FromFinal
FromActive == {"active_sections"} \cup FromAsr
FromSections == {"sections"} \cup FromActive
FromWhole == {"whole_track"} \cup FromSections
FromRoute == {"route"} \cup FromWhole
FromDiscogs == {"discogs", "discogs_write"} \cup FromRoute
PCs == {"gate", "gate_write"} \cup FromDiscogs \cup Ended

Levels == {"accepted", "global", "sections", "final", "publish"}

BatchTypeOK ==
    /\ pc \in PCs
    /\ gate \in [Names(GateFiles) -> SUBSET Audios]
    /\ discogs \in [Names(DiscogsFiles) -> SUBSET Audios]
    /\ results \in [Late -> [Audios -> Outcome]]
    /\ sections \in [Audios -> Outcome]
    /\ jobs \in [Whole -> [step : {"idle", "runs", "done", "failed"}, sources : SUBSET Audios,
                           have : [Audios -> Outcome]]]
    /\ \A o \in orphans : /\ o.stage \in Whole
                          /\ o.job.have \in [Audios -> Outcome]
    /\ manifest \in [Levels -> SUBSET Audios]
    /\ retryAt \in [RetryFiles -> SUBSET Failure]
    /\ final \in [review : SUBSET Audios, rejected : SUBSET Audios, retry : SUBSET Failure]
    /\ disturbed \in BOOLEAN
    /\ ~RunAlm => \A a \in Audios : results["alm"][a] = "none"

\* A partition of the sources by what was answered of them.
Divides(partition, names, answer, sources) ==
    /\ partition["failures"] \subseteq sources
    /\ \A n \in Names(names) \ {"failures"} : \A a \in Audios :
          a \in partition[n] <=> a \in sources /\ a \notin partition["failures"] /\ answer[a] = n

\* What is still to be written completes such a partition.
Writing(writes, partition, names, answer, sources) ==
    /\ writes = [left |-> writes.left, values |-> writes.values]
    /\ writes.values \in [Names(names) -> SUBSET Audios]
    /\ Divides(writes.values, names, answer, sources)
    /\ \E k \in 1..4 : /\ writes.left = SubSeq(names, k, 4)
                       /\ \A j \in 1..(k - 1) : partition[names[j]] = writes.values[names[j]]

PartitionsInv ==
    /\ pc = "gate_write" => Writing(pending, gate, GateFiles, Decision, Audios)
    /\ pc \in FromDiscogs => Divides(gate, GateFiles, Decision, Audios)
    /\ pc = "discogs_write" => Writing(pending, discogs, DiscogsFiles, Kind, gate["accepted"])
    /\ pc \in FromRoute => Divides(discogs, DiscogsFiles, Kind, gate["accepted"])
    /\ pc \in FromWhole => manifest["accepted"] = discogs["song"] \cup discogs["instrumental"]
    /\ pc \in FromCombine => /\ final["review"] = gate["review"] \cup discogs["review"]
                             /\ final["rejected"] = gate["rejected"]

\* The tree that is published.
TreeInv ==
    /\ PublishInv
    /\ publishing = "remove_backup" => destination = goal
    /\ pc # "publishing" => publishing = "idle"
    /\ pc = "publishing" => goal = manifest["publish"]
    /\ pc \in FromFinish => destination = manifest["publish"]

\* The first of the full-track stages that failed.
FirstWhole(a, s) ==
    \/ s = "music_cpu" /\ results["music_cpu"][a] = "error"
    \/ s = "structure_raw" /\ results["music_cpu"][a] = "ok" /\ results["structure_raw"][a] = "error"
    \/ /\ s = "alm" /\ RunAlm /\ results["music_cpu"][a] = "ok"
       /\ results["structure_raw"][a] = "ok" /\ results["alm"][a] = "error"

\* The audios of a retry file are those of one level that are not in the next, each once.
Drops(level, base, active) ==
    /\ \A f \in retryAt[level] : f.audio \in base \ active
    /\ \A a \in base \ active : \E f \in retryAt[level] : f.audio = a

JobsInv ==
    /\ pc \in {"gate", "gate_write", "discogs", "discogs_write", "route", "whole_track"} =>
          retryAt = Empty(RetryFiles)
    /\ pc = "whole_track" => \A s \in Whole :
          /\ Runs(jobs[s]) => jobs[s].sources = manifest["accepted"]
          /\ jobs[s].step = "done" /\ ~disturbed => \A a \in Audios :
                results[s][a] # "none" <=> a \in manifest["accepted"]

WholeTrue ==
    pc \in FromSections =>
       /\ \A s \in Whole : \A a \in manifest["accepted"] : results[s][a] \in {"ok", "error"}
       /\ \A a \in Audios : a \in manifest["global"] <=>
             a \in manifest["accepted"] /\ \A s \in Whole : results[s][a] = "ok"
       /\ Drops("global", manifest["accepted"], manifest["global"])
       /\ \A f \in retryAt["global"] : FirstWhole(f.audio, f.stage)
SectionsTrue ==
    /\ pc = "active_sections" => \A a \in Audios : sections[a] # "none" <=> a \in manifest["global"]
    /\ pc \in FromAsr =>
       /\ \A a \in manifest["global"] : sections[a] \in {"ok", "error"}
       /\ \A a \in Audios : a \in manifest["sections"] <=>
             a \in manifest["global"] /\ sections[a] = "ok"
       /\ Drops("sections", manifest["global"], manifest["sections"])
       /\ \A f \in retryAt["sections"] : f.stage = "structure_postprocess"
FinalTrue ==
    /\ pc = "active_final" => \A a \in Audios : results["section_asr"][a] # "none" <=> a \in manifest["sections"]
    /\ pc \in FromPaths =>
       /\ \A a \in manifest["accepted"] :
             results["section_asr"][a] # "none" <=> a \in manifest["sections"]
       /\ \A a \in Audios : a \in manifest["final"] <=>
             a \in manifest["sections"] /\ results["section_asr"][a] = "ok"
       /\ Drops("final", manifest["sections"], manifest["final"])
       /\ \A f \in retryAt["final"] : f.stage = "section_asr"
PathsTrue ==
    pc \in FromMerge =>
       /\ \A a \in Audios : a \in manifest["publish"] <=>
             a \in manifest["final"] /\ a \notin Conflicting(manifest["final"])
       /\ Drops("path", manifest["final"], manifest["publish"])
       /\ \A f \in retryAt["path"] : f.stage = "annotation_path"

\* What the files say is what the programs answered, in a run no orphan wrote into.
FilesTrue ==
    ~disturbed => /\ WholeTrue /\ SectionsTrue /\ FinalTrue /\ PathsTrue
                  /\ pc \in FromValidate => final["retry"] = Collected

BatchInv == /\ BatchTypeOK /\ PartitionsInv /\ TreeInv /\ JobsInv /\ FilesTrue
            /\ pc = "refused" => disturbed

-----------------------------------------------------------------------------
(* The operators of the script. *)

\* The order in which the script waits for its parallel programs.
LEMMA WaitOrderIs ==
    WaitOrder = IF RunAlm THEN <<"music_cpu", "structure_raw", "alm">>
                          ELSE <<"music_cpu", "structure_raw">>
<1> DEFINE two == <<"music_cpu", "structure_raw">>
           three == <<"music_cpu", "structure_raw", "alm">>
           one == <<"alm">>
           Jobs == {"music_cpu", "structure_raw", "alm"}
<1>1. CASE RunAlm
    <2>1. two \in Seq(Jobs) /\ one \in Seq(Jobs) /\ three \in Seq(Jobs)
        OBVIOUS
    <2>2. /\ two \o one \in Seq(Jobs) /\ Len(two \o one) = 3
          /\ \A i \in 1..3 : (two \o one)[i] = IF i <= 2 THEN two[i] ELSE one[i - 2]
        BY <2>1, ConcatProperties
    <2>3. \A i \in 1..3 : (two \o one)[i] = three[i]
        BY <2>2
    <2>4. two \o one = three
        BY <2>1, <2>2, <2>3, SeqEqual
    <2> QED BY <1>1, <2>4 DEF WaitOrder
<1>2. CASE ~RunAlm
    <2>1. two \in Seq(Jobs)
        OBVIOUS
    <2>2. two \o <<>> = two
        BY <2>1, ConcatEmptySeq
    <2> QED BY <1>2, <2>2 DEF WaitOrder
<1> QED BY <1>1, <1>2

LEMMA WaitRange == Range(WaitOrder) = Whole
<1>1. CASE RunAlm   BY <1>1, WaitOrderIs DEF Range, Whole
<1>2. CASE ~RunAlm  BY <1>2, WaitOrderIs DEF Range, Whole
<1> QED BY <1>1, <1>2

LEMMA StageNames ==
    Names(StageOrder) = {"music_gate", "discogs_mir", "music_cpu", "structure_raw", "alm",
                         "structure_postprocess", "section_asr", "annotation_path"}
BY DEF Names, StageOrder

LEMMA FileNames ==
    /\ Names(GateFiles) = {"accepted", "review", "rejected", "failures"}
    /\ Names(DiscogsFiles) = {"song", "instrumental", "review", "failures"}
BY DEF Names, GateFiles, DiscogsFiles

\* A set of at most eight places has a first one.
LEMMA FirstPlace ==
    ASSUME NEW n \in 0..8, NEW S \in SUBSET (1..n), S # {}
    PROVE  \E m \in S : \A j \in S : m <= j
<1>1. CASE 1 \in S  BY <1>1
<1>2. CASE 1 \notin S /\ 2 \in S  BY <1>2
<1>3. CASE 1 \notin S /\ 2 \notin S /\ 3 \in S  BY <1>3
<1>4. CASE 1 \notin S /\ 2 \notin S /\ 3 \notin S /\ 4 \in S  BY <1>4
<1>5. CASE S \subseteq 5..8
    <2>1. CASE 5 \in S  BY <1>5, <2>1
    <2>2. CASE 5 \notin S /\ 6 \in S  BY <1>5, <2>2
    <2>3. CASE 5 \notin S /\ 6 \notin S /\ 7 \in S  BY <1>5, <2>3
    <2>4. CASE \A j \in S : j = 8
        <3>1. 8 \in S
            BY <2>4
        <3> QED BY <2>4, <3>1
    <2>5. \A j \in S : j = 5 \/ j = 6 \/ j = 7 \/ j = 8
        BY <1>5
    <2> QED BY <2>1, <2>2, <2>3, <2>4, <2>5
<1> QED BY <1>1, <1>2, <1>3, <1>4, <1>5

\* FirstFailing is the first of the given stages that failed, if any of them did.
LEMMA FirstFailingIs ==
    ASSUME NEW n \in 0..8, NEW order, DOMAIN order = 1..n,
           NEW failed, \E k \in 1..n : order[k] \in failed
    PROVE  \E k \in 1..n : /\ order[k] \in failed /\ FirstFailing(order, failed) = order[k]
                           /\ \A j \in 1..n : order[j] \in failed => k <= j
<1> DEFINE ks == {k \in DOMAIN order : order[k] \in failed}
           first == CHOOSE k \in ks : \A j \in ks : k <= j
<1>1. ks \in SUBSET (1..n) /\ ks # {}
    OBVIOUS
<1>2. \E m \in ks : \A j \in ks : m <= j
    <2> HIDE DEF ks
    <2> QED BY <1>1, FirstPlace
<1>3. first \in ks /\ \A j \in ks : first <= j
    <2> HIDE DEF ks
    <2> QED BY <1>2
<1>4. FirstFailing(order, failed) = order[first]
    BY DEF FirstFailing
<1> HIDE DEF first
<1>5. first \in 1..n /\ order[first] \in failed
    BY <1>3
<1>6. \A j \in 1..n : order[j] \in failed => first <= j
    BY <1>3
<1> QED BY <1>4, <1>5, <1>6

\* The names of the files of a partition.
FileName == Names(GateFiles) \cup Names(DiscogsFiles)
LEMMA FileOrders ==
    /\ GateFiles \in Seq(FileName) /\ Len(GateFiles) = 4
    /\ DiscogsFiles \in Seq(FileName) /\ Len(DiscogsFiles) = 4
    /\ Names(GateFiles) = {GateFiles[k] : k \in 1..4}
    /\ Names(DiscogsFiles) = {DiscogsFiles[k] : k \in 1..4}
BY FileNames DEF FileName, GateFiles, DiscogsFiles, Names

\* A partitioning program that goes on to write has divided its sources.
LEMMA InferDivides ==
    ASSUME NEW here, NEW writing, NEW stage, NEW partition, NEW answer, NEW sources \in SUBSET Audios,
           NEW names \in Seq(FileName), Len(names) = 4, "failures" \in Names(names),
           Infer(here, writing, stage, partition, names, answer, sources)
    PROVE  \/ pc' \in {"unreadable", "failed"}
           \/ pc' = writing /\ Writing(pending', partition, names, answer, sources)
<1>1. CASE pc' \in {"unreadable", "failed"}
    BY <1>1
<1>2. CASE ~(pc' \in {"unreadable", "failed"})
    <2>1. PICK failed \in SUBSET sources :
              /\ pending' = [left |-> names,
                             values |-> Partitioned(names, answer, sources, failed)]
              /\ pc' = writing
        BY <1>2 DEF Infer
    <2> DEFINE values == Partitioned(names, answer, sources, failed)
    <2>2. values \in [Names(names) -> SUBSET Audios]
        BY DEF Partitioned
    <2>3. Divides(values, names, answer, sources)
        BY DEF Divides, Partitioned
    <2>4. names = SubSeq(names, 1, 4)
        BY SubSeqFull
    <2> HIDE DEF values
    <2>5. /\ pending'.values = values /\ pending'.left = names
          /\ pending' = [left |-> names, values |-> values]
        BY <2>1 DEF values
    <2>6. Writing(pending', partition, names, answer, sources)
        BY <2>2, <2>3, <2>4, <2>5 DEF Writing
    <2> QED BY <2>1, <2>6
<1> QED BY <1>1, <1>2

\* One write more, and after the last the partition is there.
LEMMA WriteDivides ==
    ASSUME NEW here, NEW next, NEW answer, NEW sources,
           NEW names \in Seq(FileName), Len(names) = 4,
           Names(names) = {names[k] : k \in 1..4},
           NEW partition \in [Names(names) -> SUBSET Audios],
           Writing(pending, partition, names, answer, sources), WriteOne(here, next)
    PROVE  /\ Written(partition) \in [Names(names) -> SUBSET Audios]
           /\ \/ /\ pc' = here
                 /\ Writing(pending', Written(partition), names, answer, sources)
              \/ pc' = next /\ Divides(Written(partition), names, answer, sources)
<1>1. PICK k \in 1..4 :
          /\ pending.left = SubSeq(names, k, 4)
          /\ \A j \in 1..(k - 1) : partition[names[j]] = pending.values[names[j]]
    BY DEF Writing
<1>2. /\ pending.values \in [Names(names) -> SUBSET Audios]
      /\ Divides(pending.values, names, answer, sources)
      /\ pending = [left |-> pending.left, values |-> pending.values]
    BY DEF Writing
<1>3. /\ Head(pending.left) = names[k] /\ Tail(pending.left) = SubSeq(names, k + 1, 4)
    <2>1. k \in 1..Len(names) /\ 4 \in k..Len(names)
        OBVIOUS
    <2>2. pending.left = SubSeq(names, k, 4)
        BY <1>1
    <2> HIDE DEF FileName, Names
    <2>3. Head(SubSeq(names, k, 4)) = names[k] /\ Tail(SubSeq(names, k, 4)) = SubSeq(names, k + 1, 4)
        BY <2>1, HeadTailOfSubSeq
    <2> QED BY <2>2, <2>3
<1>4. Len(pending.left) = 5 - k
    <2>1. ASSUME NEW i \in k..4
          PROVE  names[i] \in FileName
        <3>1. i \in 1..Len(names)
            OBVIOUS
        <3> QED BY <3>1, ElementOfSeq
    <2>2. k \in Int /\ 4 \in Int /\ k <= 4
        OBVIOUS
    <2> HIDE DEF FileName
    <2>3. Len(SubSeq(names, k, 4)) = IF k <= 4 THEN 4 - k + 1 ELSE 0
        BY <2>1, <2>2, SubSeqProperties
    <2> QED BY <1>1, <2>2, <2>3
<1>5. names[k] \in Names(names)
    OBVIOUS
<1>6. Written(partition) = [partition EXCEPT ![names[k]] = pending.values[names[k]]]
    BY <1>3 DEF Written
<1>7. Written(partition) \in [Names(names) -> SUBSET Audios]
    BY <1>2, <1>5, <1>6
<1>8. \A j \in 1..k : Written(partition)[names[j]] = pending.values[names[j]]
    <2> SUFFICES ASSUME NEW j \in 1..k
                 PROVE  Written(partition)[names[j]] = pending.values[names[j]]
        OBVIOUS
    <2>1. names[j] \in Names(names)
        OBVIOUS
    <2>2. CASE names[j] = names[k]
        BY <1>5, <1>6, <2>2
    <2>3. CASE names[j] # names[k]
        <3>1. j \in 1..(k - 1)
            BY <2>3
        <3> QED BY <1>1, <1>6, <2>1, <2>3, <3>1
    <2> QED BY <2>2, <2>3
<1>9. CASE k < 4
    <2>1. /\ pc' = here
          /\ pending' = [pending EXCEPT !.left = Tail(pending.left)]
        BY <1>4, <1>9 DEF WriteOne
    <2>2. /\ pending' = [left |-> SubSeq(names, k + 1, 4), values |-> pending.values]
          /\ pending'.values = pending.values /\ pending'.left = SubSeq(names, k + 1, 4)
        BY <1>2, <1>3, <2>1
    <2>3. k + 1 \in 1..4 /\ (k + 1) - 1 = k
        BY <1>9
    <2>4. Writing(pending', Written(partition), names, answer, sources)
        BY <1>2, <1>8, <2>2, <2>3 DEF Writing
    <2> QED BY <1>7, <2>1, <2>4
<1>10. CASE k = 4
    <2>1. pc' = next
        BY <1>4, <1>10 DEF WriteOne
    <2>2. \A n \in Names(names) : Written(partition)[n] = pending.values[n]
        BY <1>8, <1>10
    <2>3. Written(partition) = pending.values
        BY <1>2, <1>7, <2>2
    <2> QED BY <1>2, <1>7, <2>1, <2>3
<1> QED BY <1>9, <1>10

\* What command_active does: it refuses outputs that do not cover its base, or splits the base
\* in two and says of the one part which stage failed first.
Refuses(base, stages, outputs) ==
    /\ pc' = "refused" /\ UNCHANGED <<manifest, retryAt>>
    /\ \E s \in Range(stages) : {a \in Audios : outputs[s][a] # "none"} # base
Splits(base, stages, outputs, level, next) ==
    /\ pc' = next
    /\ manifest' \in [Levels -> SUBSET Audios]
    /\ retryAt' \in [RetryFiles -> SUBSET Failure]
    /\ \A l \in Levels \ {level} : manifest'[l] = manifest[l]
    /\ \A l \in RetryFiles \ {level} : retryAt'[l] = retryAt[l]
    /\ \A s \in Range(stages) : \A a \in Audios : outputs[s][a] # "none" <=> a \in base
    /\ \A a \in Audios : a \in manifest'[level] <=>
          a \in base /\ \A s \in Range(stages) : outputs[s][a] = "ok"
    /\ \A a \in base \ manifest'[level] : \E f \in retryAt'[level] : f.audio = a
    /\ \A f \in retryAt'[level] :
          /\ f.audio \in base \ manifest'[level]
          /\ \E k \in DOMAIN stages :
                /\ f.stage = stages[k] /\ outputs[stages[k]][f.audio] # "ok"
                /\ \A j \in DOMAIN stages : outputs[stages[j]][f.audio] # "ok" => k <= j

LEMMA ActiveSplits ==
    ASSUME NEW here, NEW base \in SUBSET Audios, NEW n \in 1..8, NEW stages, NEW outputs,
           DOMAIN stages = 1..n, Range(stages) \subseteq Names(StageOrder),
           NEW level \in {"global", "sections", "final"}, NEW next,
           manifest \in [Levels -> SUBSET Audios], retryAt \in [RetryFiles -> SUBSET Failure],
           Active(here, base, stages, outputs, level, next)
    PROVE  Refuses(base, stages, outputs) \/ Splits(base, stages, outputs, level, next)
<1> DEFINE FailedIn(a) == {s \in Range(stages) : outputs[s][a] # "ok"}
           kept == {a \in base : FailedIn(a) = {}}
           dropped == {[audio |-> a, stage |-> FirstFailing(stages, FailedIn(a))] :
                          a \in {b \in base : FailedIn(b) # {}}}
<1>1. CASE \E s \in Range(stages) : {a \in Audios : outputs[s][a] # "none"} # base
    BY <1>1 DEF Active, Refuses
<1>2. CASE \A s \in Range(stages) : {a \in Audios : outputs[s][a] # "none"} = base
    <2>1. /\ pc' = next
          /\ manifest' = [manifest EXCEPT ![level] = kept]
          /\ retryAt' = [retryAt EXCEPT ![level] = dropped]
        BY <1>2 DEF Active
    <2>2. \A a \in base : FailedIn(a) # {} =>
              \E k \in 1..n : /\ stages[k] \in FailedIn(a)
                              /\ FirstFailing(stages, FailedIn(a)) = stages[k]
                              /\ \A j \in 1..n : stages[j] \in FailedIn(a) => k <= j
        <3> SUFFICES ASSUME NEW a \in base, FailedIn(a) # {}
                     PROVE  \E k \in 1..n : /\ stages[k] \in FailedIn(a)
                                            /\ FirstFailing(stages, FailedIn(a)) = stages[k]
                                            /\ \A j \in 1..n : stages[j] \in FailedIn(a) => k <= j
            OBVIOUS
        <3>1. \E k \in 1..n : stages[k] \in FailedIn(a)
            BY DEF Range
        <3>2. n \in 0..8
            OBVIOUS
        <3> HIDE DEF FailedIn
        <3> QED BY <3>1, <3>2, FirstFailingIs
    <2>3. \A k \in 1..n : stages[k] \in Range(stages) /\ stages[k] \in Names(StageOrder)
        BY DEF Range
    <2>4. level \in Levels /\ level \in RetryFiles
        BY DEF Levels, RetryFiles
    <2>5. kept \in SUBSET Audios
        OBVIOUS
    <2>6. \A a \in Audios : a \in kept <=>
              a \in base /\ \A s \in Range(stages) : outputs[s][a] = "ok"
        OBVIOUS
    <2>7. \A f \in dropped :
             /\ f \in Failure /\ f.audio \in base \ kept
             /\ \E k \in 1..n : /\ f.stage = stages[k] /\ outputs[stages[k]][f.audio] # "ok"
                                /\ \A j \in 1..n : outputs[stages[j]][f.audio] # "ok" => k <= j
        <3> SUFFICES ASSUME NEW f \in dropped
                     PROVE  /\ f \in Failure /\ f.audio \in base \ kept
                            /\ \E k \in 1..n :
                                  /\ f.stage = stages[k] /\ outputs[stages[k]][f.audio] # "ok"
                                  /\ \A j \in 1..n : outputs[stages[j]][f.audio] # "ok" => k <= j
            OBVIOUS
        <3>1. PICK a \in base : /\ FailedIn(a) # {}
                                /\ f = [audio |-> a, stage |-> FirstFailing(stages, FailedIn(a))]
            OBVIOUS
        <3>2. f.audio = a /\ f.stage = FirstFailing(stages, FailedIn(a))
            BY <3>1
        <3>3. PICK k \in 1..n : /\ stages[k] \in FailedIn(a)
                                /\ FirstFailing(stages, FailedIn(a)) = stages[k]
                                /\ \A j \in 1..n : stages[j] \in FailedIn(a) => k <= j
            BY <2>2, <3>1
        <3>4. f \in Failure
            <4> HIDE DEF FailedIn
            <4> QED BY <2>3, <3>1, <3>3 DEF Failure
        <3>5. \A j \in 1..n : outputs[stages[j]][a] # "ok" => k <= j
            BY <2>3, <3>3
        <3>6. outputs[stages[k]][a] # "ok"
            BY <3>3
        <3>7. a \in base \ kept
            BY <3>1
        <3> HIDE DEF FailedIn, kept, dropped
        <3> QED BY <3>2, <3>3, <3>4, <3>5, <3>6, <3>7
    <2>8. dropped \in SUBSET Failure
        <3> HIDE DEF dropped
        <3> QED BY <2>7
    <2>9. \A a \in base \ kept : \E f \in dropped : f.audio = a
        <3> SUFFICES ASSUME NEW a \in base \ kept PROVE \E f \in dropped : f.audio = a
            OBVIOUS
        <3> DEFINE f == [audio |-> a, stage |-> FirstFailing(stages, FailedIn(a))]
        <3>1. f \in dropped /\ f.audio = a
            OBVIOUS
        <3> HIDE DEF dropped, f
        <3> QED BY <3>1
    <2>10. \A s \in Range(stages) : \A a \in Audios : outputs[s][a] # "none" <=> a \in base
        BY <1>2
    <2> HIDE DEF kept, dropped
    <2>11. /\ manifest' \in [Levels -> SUBSET Audios] /\ manifest'[level] = kept
           /\ \A l \in Levels \ {level} : manifest'[l] = manifest[l]
        BY <2>1, <2>4, <2>5
    <2>12. /\ retryAt' \in [RetryFiles -> SUBSET Failure] /\ retryAt'[level] = dropped
           /\ \A l \in RetryFiles \ {level} : retryAt'[l] = retryAt[l]
        BY <2>1, <2>8, <2>4
    <2> QED BY <2>1, <2>6, <2>7, <2>9, <2>10, <2>11, <2>12 DEF Splits
<1> QED BY <1>1, <1>2

\* The result of a source is what it had, or what was answered; nobody else has one.
LEMMA OutputIs ==
    ASSUME NEW job, NEW failed, job.have \in [Audios -> Outcome]
    PROVE  /\ Output(job, failed) \in [Audios -> Outcome]
           /\ \A a \in Audios : Output(job, failed)[a] # "none" <=> a \in job.sources
BY DEF Output, Outcome

LEMMA ReusedIs ==
    ASSUME NEW kept \in [Audios -> Outcome]
    PROVE  /\ Reused(kept) \in [Audios -> Outcome]
           /\ InstrumentalAsr(Reused(kept)) \in [Audios -> Outcome]
BY DEF Reused, InstrumentalAsr, Outcome

LEMMA NothingTyped == Nothing \in [Audios -> Outcome] /\ NoJob.have \in [Audios -> Outcome]
BY DEF Nothing, Outcome, NoJob

-----------------------------------------------------------------------------
(* Types. *)

LEMMA TypesAtFirst == BatchInit => BatchTypeOK
<1> SUFFICES ASSUME BatchInit PROVE BatchTypeOK
    OBVIOUS
<1> USE DEF BatchInit
<1>1. pc \in PCs
    BY DEF PCs, Ended
<1>2. /\ gate \in [Names(GateFiles) -> SUBSET Audios]
      /\ discogs \in [Names(DiscogsFiles) -> SUBSET Audios]
      /\ manifest \in [Levels -> SUBSET Audios] /\ retryAt \in [RetryFiles -> SUBSET Failure]
    BY DEF Empty, Levels
<1>3. /\ results \in [Late -> [Audios -> Outcome]] /\ sections \in [Audios -> Outcome]
      /\ ~RunAlm => \A a \in Audios : results["alm"][a] = "none"
    BY DEF Nothing, Outcome, Late
<1>4. jobs \in [Whole -> [step : {"idle", "runs", "done", "failed"}, sources : SUBSET Audios,
                          have : [Audios -> Outcome]]]
    BY DEF NoJob, Nothing, Outcome
<1>5. final \in [review : SUBSET Audios, rejected : SUBSET Audios, retry : SUBSET Failure]
    BY DEF Empty
<1> QED BY <1>1, <1>2, <1>3, <1>4, <1>5 DEF BatchTypeOK

\* A parallel program writes the output of its stage, and nothing else.
LEMMA JobWritesTyped ==
    ASSUME BatchTypeOK, NEW stage \in Late, NEW job, job.have \in [Audios -> Outcome],
           JobWrites(stage, job)
    PROVE  /\ results' \in [Late -> [Audios -> Outcome]]
           /\ \A s \in Late \ {stage} : results'[s] = results[s]
           /\ \A a \in Audios : results'[stage][a] # "none" <=> a \in job.sources
<1>1. PICK failed : results' = [results EXCEPT ![stage] = Output(job, failed)]
    BY DEF JobWrites
<1>2. /\ Output(job, failed) \in [Audios -> Outcome]
      /\ \A a \in Audios : Output(job, failed)[a] # "none" <=> a \in job.sources
    BY OutputIs
<1>3. results \in [Late -> [Audios -> Outcome]]
    BY DEF BatchTypeOK
<1> QED BY <1>1, <1>2, <1>3

LEMMA StageSets ==
    /\ Whole \subseteq Late /\ "section_asr" \in Late /\ "section_asr" \notin Whole
    /\ "music_cpu" \in Whole /\ "structure_raw" \in Whole
    /\ RunAlm => Whole = {"music_cpu", "structure_raw", "alm"}
    /\ ~RunAlm => Whole = {"music_cpu", "structure_raw"}
    /\ "failures" \in Names(GateFiles) /\ "failures" \in Names(DiscogsFiles)
BY FileNames DEF Whole, Late

\* The stages command_active is given.
LEMMA WaitStages ==
    /\ RunAlm => DOMAIN WaitOrder = 1..3
    /\ ~RunAlm => DOMAIN WaitOrder = 1..2
    /\ Range(WaitOrder) \subseteq Names(StageOrder)
    /\ Range(<<"structure_postprocess">>) = {"structure_postprocess"}
    /\ Range(<<"section_asr">>) = {"section_asr"}
    /\ DOMAIN <<"structure_postprocess">> = 1..1 /\ DOMAIN <<"section_asr">> = 1..1
<1>1. /\ RunAlm => DOMAIN WaitOrder = 1..3
      /\ ~RunAlm => DOMAIN WaitOrder = 1..2
    BY WaitOrderIs
<1>2. Range(WaitOrder) \subseteq Names(StageOrder)
    BY WaitRange, StageNames, StageSets
<1>3. /\ DOMAIN <<"structure_postprocess">> = 1..1 /\ DOMAIN <<"section_asr">> = 1..1
      /\ Range(<<"structure_postprocess">>) = {"structure_postprocess"}
      /\ Range(<<"section_asr">>) = {"section_asr"}
    BY DEF Range
<1> QED BY <1>1, <1>2, <1>3

\* The three uses of command_active.
LEMMA GlobalSplits ==
    ASSUME BatchTypeOK, ActiveGlobal
    PROVE  \/ Refuses(manifest["accepted"], WaitOrder, results)
           \/ Splits(manifest["accepted"], WaitOrder, results, "global", "sections")
<1>1. Active("whole_track", manifest["accepted"], WaitOrder, results, "global", "sections")
    BY DEF ActiveGlobal
<1>2. /\ manifest \in [Levels -> SUBSET Audios] /\ manifest["accepted"] \in SUBSET Audios
      /\ retryAt \in [RetryFiles -> SUBSET Failure]
    BY DEF BatchTypeOK, Levels
<1>3. \E n \in 1..8 : DOMAIN WaitOrder = 1..n
    <2>1. 2 \in 1..8 /\ 3 \in 1..8
        OBVIOUS
    <2> QED BY <2>1, WaitStages
<1>4. PICK n \in 1..8 : DOMAIN WaitOrder = 1..n
    BY <1>3
<1>5. Range(WaitOrder) \subseteq Names(StageOrder) /\ "global" \in {"global", "sections", "final"}
    BY WaitStages
<1> QED BY <1>1, <1>2, <1>4, <1>5, ActiveSplits

LEMMA SectionsSplit ==
    ASSUME BatchTypeOK, ActiveSections
    PROVE  \/ Refuses(manifest["global"], <<"structure_postprocess">>,
                      [structure_postprocess |-> sections])
           \/ Splits(manifest["global"], <<"structure_postprocess">>,
                     [structure_postprocess |-> sections], "sections", "section_asr")
<1> DEFINE stages == <<"structure_postprocess">>
           outputs == [structure_postprocess |-> sections]
<1>1. Active("active_sections", manifest["global"], stages, outputs, "sections", "section_asr")
    BY DEF ActiveSections
<1>2. /\ manifest \in [Levels -> SUBSET Audios] /\ manifest["global"] \in SUBSET Audios
      /\ retryAt \in [RetryFiles -> SUBSET Failure]
    BY DEF BatchTypeOK, Levels
<1>3. /\ DOMAIN stages = 1..1 /\ Range(stages) \subseteq Names(StageOrder)
      /\ 1 \in 1..8 /\ "sections" \in {"global", "sections", "final"}
    BY WaitStages, StageNames
<1> HIDE DEF stages, outputs
<1>4. \/ Refuses(manifest["global"], stages, outputs)
      \/ Splits(manifest["global"], stages, outputs, "sections", "section_asr")
    BY <1>1, <1>2, <1>3, ActiveSplits
<1> QED BY <1>4 DEF stages, outputs

LEMMA FinalSplits ==
    ASSUME BatchTypeOK, ActiveFinal
    PROVE  \/ Refuses(manifest["sections"], <<"section_asr">>, results)
           \/ Splits(manifest["sections"], <<"section_asr">>, results, "final", "path_conflicts")
<1> DEFINE stages == <<"section_asr">>
<1>1. Active("active_final", manifest["sections"], stages, results, "final", "path_conflicts")
    BY DEF ActiveFinal
<1>2. /\ manifest \in [Levels -> SUBSET Audios] /\ manifest["sections"] \in SUBSET Audios
      /\ retryAt \in [RetryFiles -> SUBSET Failure]
    BY DEF BatchTypeOK, Levels
<1>3. /\ DOMAIN stages = 1..1 /\ Range(stages) \subseteq Names(StageOrder)
      /\ 1 \in 1..8 /\ "final" \in {"global", "sections", "final"}
    BY WaitStages, StageNames
<1> HIDE DEF stages
<1>4. \/ Refuses(manifest["sections"], stages, results)
      \/ Splits(manifest["sections"], stages, results, "final", "path_conflicts")
    BY <1>1, <1>2, <1>3, ActiveSplits
<1> QED BY <1>4 DEF stages

LEMMA FailuresTyped == BatchTypeOK => Failures \subseteq Failure
<1> SUFFICES ASSUME BatchTypeOK, NEW f \in Failures PROVE f \in Failure
    OBVIOUS
<1>1. CASE f \in {[audio |-> a, stage |-> "music_gate"] : a \in gate["failures"]}
    BY <1>1, StageNames, StageSets DEF BatchTypeOK, Failure
<1>2. CASE f \in {[audio |-> a, stage |-> "discogs_mir"] : a \in discogs["failures"]}
    BY <1>2, StageNames, StageSets DEF BatchTypeOK, Failure
<1>3. CASE f \in UNION {retryAt[r] : r \in RetryFiles}
    BY <1>3 DEF BatchTypeOK
<1> QED BY <1>1, <1>2, <1>3 DEF Failures

\* What combine-retry keeps of an audio is one of the stages its failures name.
LEMMA CollectedIs ==
    ASSUME BatchTypeOK, NEW f \in Collected
    PROVE  /\ f \in Failure
           /\ f.audio \notin destination \cup final["review"] \cup final["rejected"]
           /\ \E g \in Failures : g.audio = f.audio /\ g.stage = f.stage
<1> DEFINE occupied == destination \cup final["review"] \cup final["rejected"]
           Stages(a) == {h.stage : h \in {g \in Failures : g.audio = a}}
<1>1. PICK a \in {h.audio : h \in Failures} \ occupied :
          f = [audio |-> a, stage |-> FirstFailing(StageOrder, Stages(a))]
    BY DEF Collected
<1>2. PICK g \in Failures : g.audio = a
    BY <1>1
<1>3. g.stage \in Stages(a) /\ g.stage \in Names(StageOrder) /\ a \in Audios
    BY <1>2, FailuresTyped DEF Failure
<1>4. DOMAIN StageOrder = 1..8
    BY DEF StageOrder
<1>5. PICK k \in 1..8 : StageOrder[k] \in Stages(a) /\ FirstFailing(StageOrder, Stages(a)) = StageOrder[k]
    <2>1. \E k \in 1..8 : StageOrder[k] \in Stages(a)
        BY <1>3, <1>4 DEF Names
    <2> HIDE DEF Stages
    <2> QED BY <1>4, <2>1, FirstFailingIs, 8 \in 0..8
<1>6. PICK h \in Failures : h.audio = a /\ h.stage = StageOrder[k]
    BY <1>5
<1>7. f.audio = a /\ f.stage = StageOrder[k] /\ f = [audio |-> a, stage |-> StageOrder[k]]
    BY <1>1, <1>5
<1>8. StageOrder[k] \in Names(StageOrder)
    BY <1>4 DEF Names
<1>9. f \in Failure
    BY <1>3, <1>7, <1>8 DEF Failure
<1> QED BY <1>1, <1>6, <1>7, <1>9

LEMMA TypesKept ==
    ASSUME BatchTypeOK, PartitionsInv, [BatchNext]_batchVars
    PROVE  BatchTypeOK'
<1> USE DEF BatchTypeOK
<1>1. CASE Start
    BY <1>1 DEF Start, PCs, FromDiscogs, Empty
<1>2. CASE Gate
    <2>1. pc' \in {"unreadable", "failed", "gate_write"}
        BY <1>2 DEF Gate, Infer
    <2> QED BY <1>2, <2>1 DEF Gate, Infer, files, PCs, Ended
<1>3. CASE GateWrite
    <2>1. /\ Writing(pending, gate, GateFiles, Decision, Audios)
          /\ pc = "gate_write"
        BY <1>3 DEF GateWrite, WriteOne, PartitionsInv
    <2>2. WriteOne("gate_write", "discogs") /\ gate' = Written(gate)
        BY <1>3 DEF GateWrite
    <2>3. Written(gate) \in [Names(GateFiles) -> SUBSET Audios]
          /\ pc' \in {"gate_write", "discogs"}
        BY <2>1, <2>2, FileOrders, WriteDivides
    <2> QED BY <1>3, <2>2, <2>3 DEF GateWrite, WriteOne, PCs, FromDiscogs
<1>4. CASE Discogs
    <2>1. pc' \in {"unreadable", "failed", "discogs_write"}
        BY <1>4 DEF Discogs, Infer
    <2> QED BY <1>4, <2>1 DEF Discogs, Infer, files, PCs, Ended, FromDiscogs
<1>5. CASE DiscogsWrite
    <2>1. /\ Writing(pending, discogs, DiscogsFiles, Kind, gate["accepted"])
          /\ pc = "discogs_write"
        BY <1>5 DEF DiscogsWrite, WriteOne, PartitionsInv
    <2>2. WriteOne("discogs_write", "route") /\ discogs' = Written(discogs)
        BY <1>5 DEF DiscogsWrite
    <2>3. Written(discogs) \in [Names(DiscogsFiles) -> SUBSET Audios]
          /\ pc' \in {"discogs_write", "route"}
        BY <2>1, <2>2, FileOrders, WriteDivides
    <2> QED BY <1>5, <2>2, <2>3 DEF DiscogsWrite, WriteOne, PCs, FromDiscogs, FromRoute
<1>6. CASE Route
    <2> DEFINE accepted == discogs["song"] \cup discogs["instrumental"]
    <2>1. accepted \in SUBSET Audios
        BY FileNames
    <2>2. \A s \in Whole : Reused(results[s]) \in [Audios -> Outcome]
        BY ReusedIs, StageSets
    <2>3. CASE accepted # {}
        <3>1. /\ manifest' = [manifest EXCEPT !["accepted"] = accepted]
              /\ jobs' = [s \in Whole |->
                             [step |-> "runs", sources |-> accepted, have |-> Reused(results[s])]]
              /\ pc' = "whole_track"
            BY <1>6, <2>3 DEF Route
        <3>2. manifest' \in [Levels -> SUBSET Audios]
            BY <2>1, <3>1 DEF Levels
        <3>3. jobs' \in [Whole -> [step : {"idle", "runs", "done", "failed"}, sources : SUBSET Audios,
                                   have : [Audios -> Outcome]]]
            BY <2>1, <2>2, <3>1
        <3> QED BY <1>6, <3>1, <3>2, <3>3
                DEF Route, PCs, FromDiscogs, FromRoute, FromWhole
    <2>4. CASE accepted = {}
        <3>1. manifest' = Empty(DOMAIN manifest) /\ pc' = "publish" /\ UNCHANGED jobs
            BY <1>6, <2>4 DEF Route
        <3>2. manifest' \in [Levels -> SUBSET Audios]
            BY <3>1 DEF Empty
        <3> QED BY <1>6, <3>1, <3>2
                DEF Route, PCs, FromDiscogs, FromRoute, FromWhole, FromSections, FromActive, FromAsr,
                    FromFinal, FromPaths, FromMerge, FromPublish
    <2> QED BY <2>3, <2>4
<1>7. ASSUME NEW s \in Whole, JobEnds(s) PROVE BatchTypeOK'
    <2>1. /\ JobWrites(s, jobs[s]) /\ Becomes(s, "done")
          /\ UNCHANGED <<pc, gate, discogs, sections, manifest, retryAt, final, orphans, disturbed>>
        BY <1>7 DEF JobEnds
    <2>2. jobs[s].have \in [Audios -> Outcome] /\ s \in Late
        BY StageSets
    <2>3. results' \in [Late -> [Audios -> Outcome]]
          /\ \A t \in Late \ {s} : results'[t] = results[t]
        BY <2>1, <2>2, JobWritesTyped
    <2>4. jobs' \in [Whole -> [step : {"idle", "runs", "done", "failed"}, sources : SUBSET Audios,
                               have : [Audios -> Outcome]]]
        BY <2>1, NothingTyped DEF Becomes, NoJob
    <2>5. ~RunAlm => results'["alm"] = results["alm"]
        BY <2>3, StageSets DEF Late
    <2> QED BY <2>1, <2>3, <2>4, <2>5
<1>8. ASSUME NEW s \in Whole, JobFails(s) PROVE BatchTypeOK'
    <2>1. jobs' \in [Whole -> [step : {"idle", "runs", "done", "failed"}, sources : SUBSET Audios,
                               have : [Audios -> Outcome]]]
        BY <1>8, NothingTyped DEF JobFails, Becomes, NoJob
    <2> QED BY <1>8, <2>1 DEF JobFails, files
<1>9. CASE WaitFails
    <2>1. jobs' \in [Whole -> [step : {"idle", "runs", "done", "failed"}, sources : SUBSET Audios,
                               have : [Audios -> Outcome]]]
        BY <1>9, NothingTyped DEF WaitFails, NoJob
    <2>2. \A o \in orphans' : o.stage \in Whole /\ o.job.have \in [Audios -> Outcome]
        BY <1>9 DEF WaitFails
    <2> QED BY <1>9, <2>1, <2>2 DEF WaitFails, files, PCs, Ended
<1>10. CASE OrphanEnds
    <2>1. PICK o \in orphans :
              /\ JobWrites(o.stage, o.job) /\ orphans' = orphans \ {o} /\ disturbed' = TRUE
              /\ UNCHANGED <<pc, gate, discogs, sections, manifest, retryAt, final, jobs>>
        BY <1>10 DEF OrphanEnds
    <2>2. o.job.have \in [Audios -> Outcome] /\ o.stage \in Whole /\ o.stage \in Late
        BY StageSets
    <2>3. results' \in [Late -> [Audios -> Outcome]]
          /\ \A t \in Late \ {o.stage} : results'[t] = results[t]
        BY <2>1, <2>2, JobWritesTyped
    <2>4. ~RunAlm => results'["alm"] = results["alm"]
        BY <2>2, <2>3, StageSets DEF Late
    <2> QED BY <2>1, <2>3, <2>4
<1>11. CASE ActiveGlobal
    <2>1. /\ jobs' = [s \in Whole |-> NoJob]
          /\ UNCHANGED <<gate, discogs, results, sections, final, orphans, disturbed>>
        BY <1>11 DEF ActiveGlobal
    <2>2. pc' \in {"refused", "sections"} /\ manifest' \in [Levels -> SUBSET Audios]
          /\ retryAt' \in [RetryFiles -> SUBSET Failure]
        BY <1>11, GlobalSplits DEF Refuses, Splits
    <2>3. jobs' \in [Whole -> [step : {"idle", "runs", "done", "failed"}, sources : SUBSET Audios,
                               have : [Audios -> Outcome]]]
        BY <2>1, NothingTyped DEF NoJob
    <2> QED BY <2>1, <2>2, <2>3
            DEF PCs, Ended, FromDiscogs, FromRoute, FromWhole, FromSections
<1>12. CASE Postprocess
    <2>1. sections' \in [Audios -> Outcome]
        BY <1>12 DEF Postprocess, Outcome
    <2> QED BY <1>12, <2>1
            DEF Postprocess, PCs, Ended, FromDiscogs, FromRoute, FromWhole, FromSections, FromActive
<1>13. CASE ActiveSections
    <2>1. UNCHANGED <<gate, discogs, results, sections, final, jobs, orphans, disturbed>>
        BY <1>13 DEF ActiveSections
    <2>2. pc' \in {"refused", "section_asr"} /\ manifest' \in [Levels -> SUBSET Audios]
          /\ retryAt' \in [RetryFiles -> SUBSET Failure]
        BY <1>13, SectionsSplit DEF Refuses, Splits
    <2> QED BY <2>1, <2>2
            DEF PCs, Ended, FromDiscogs, FromRoute, FromWhole, FromSections, FromActive, FromAsr
<1>14. CASE SectionAsr
    <2>1. /\ UNCHANGED <<gate, discogs, sections, manifest, retryAt, final, jobs, orphans, disturbed>>
          /\ pc' \in {"refused", "active_final", "failed"}
        BY <1>14 DEF SectionAsr
    <2>2. /\ results' \in [Late -> [Audios -> Outcome]]
          /\ \A t \in Late \ {"section_asr"} : results'[t] = results[t]
        <3>1. CASE UNCHANGED results
            BY <3>1
        <3>2. CASE JobWrites("section_asr",
                             [sources |-> manifest["sections"],
                              have |-> InstrumentalAsr(Reused(results["section_asr"]))])
            <4> DEFINE job == [sources |-> manifest["sections"],
                               have |-> InstrumentalAsr(Reused(results["section_asr"]))]
            <4>1. job.have \in [Audios -> Outcome]
                BY ReusedIs, StageSets
            <4> HIDE DEF job
            <4>2. JobWrites("section_asr", job)
                BY <3>2 DEF job
            <4> QED BY <4>1, <4>2, JobWritesTyped, StageSets
        <3> QED BY <1>14, <3>1, <3>2 DEF SectionAsr
    <2>3. results'["alm"] = results["alm"]
        BY <2>2 DEF Late
    <2> QED BY <2>1, <2>2, <2>3
            DEF PCs, Ended, FromDiscogs, FromRoute, FromWhole, FromSections, FromActive, FromAsr,
                FromFinal
<1>15. CASE ActiveFinal
    <2>1. UNCHANGED <<gate, discogs, results, sections, final, jobs, orphans, disturbed>>
        BY <1>15 DEF ActiveFinal
    <2>2. pc' \in {"refused", "path_conflicts"} /\ manifest' \in [Levels -> SUBSET Audios]
          /\ retryAt' \in [RetryFiles -> SUBSET Failure]
        BY <1>15, FinalSplits DEF Refuses, Splits
    <2> QED BY <2>1, <2>2
            DEF PCs, Ended, FromDiscogs, FromRoute, FromWhole, FromSections, FromActive, FromAsr,
                FromFinal, FromPaths
<1>16. CASE PathConflicts
    <2>1. Conflicting(manifest["final"]) \subseteq Audios
        BY DEF Conflicting, Levels
    <2>2. manifest' \in [Levels -> SUBSET Audios]
        BY <1>16 DEF PathConflicts, Levels
    <2>3. retryAt' \in [RetryFiles -> SUBSET Failure]
        <3>1. retryAt' = [retryAt EXCEPT !["path"] =
                  {[audio |-> a, stage |-> "annotation_path"] : a \in Conflicting(manifest["final"])}]
            BY <1>16 DEF PathConflicts
        <3>2. {[audio |-> a, stage |-> "annotation_path"] : a \in Conflicting(manifest["final"])}
                  \in SUBSET Failure
            BY <2>1, StageNames DEF Failure
        <3> QED BY <3>1, <3>2
    <2> QED BY <1>16, <2>2, <2>3
            DEF PathConflicts, PCs, FromDiscogs, FromRoute, FromWhole, FromSections, FromActive,
                FromAsr, FromFinal, FromPaths, FromMerge
<1>17. CASE Merge
    BY <1>17 DEF Merge, files, PCs, Ended, FromDiscogs, FromRoute, FromWhole, FromSections,
                 FromActive, FromAsr, FromFinal, FromPaths, FromMerge, FromPublish
<1>18. CASE PublishBegins
    BY <1>18 DEF PublishBegins, files, PCs, Ended, FromDiscogs, FromRoute, FromWhole, FromSections,
                 FromActive, FromAsr, FromFinal, FromPaths, FromMerge, FromPublish
<1>19. CASE PublishGoesOn
    BY <1>19 DEF PublishGoesOn, files, PCs, Ended, FromDiscogs, FromRoute, FromWhole, FromSections,
                 FromActive, FromAsr, FromFinal, FromPaths, FromMerge, FromPublish, FromFinish
<1>20. CASE PublishRaises
    BY <1>20 DEF PublishRaises, files, PCs, Ended
<1>21. CASE CopyFinal
    <2>1. gate["review"] \cup discogs["review"] \subseteq Audios /\ gate["rejected"] \subseteq Audios
        BY FileNames
    <2>2. final' \in [review : SUBSET Audios, rejected : SUBSET Audios, retry : SUBSET Failure]
        BY <1>21, <2>1 DEF CopyFinal
    <2> QED BY <1>21, <2>2
            DEF CopyFinal, PCs, FromDiscogs, FromRoute, FromWhole, FromSections, FromActive, FromAsr,
                FromFinal, FromPaths, FromMerge, FromPublish, FromFinish, FromCombine
<1>22. CASE CombineRetry
    <2>1. Collected \subseteq Failure
        BY CollectedIs
    <2>2. final' \in [review : SUBSET Audios, rejected : SUBSET Audios, retry : SUBSET Failure]
        <3>1. final' = final \/ final' = [final EXCEPT !["retry"] = Collected]
            BY <1>22 DEF CombineRetry
        <3> HIDE DEF Collected
        <3>2. final \in [review : SUBSET Audios, rejected : SUBSET Audios, retry : SUBSET Failure]
            OBVIOUS
        <3>3. CASE final' = [final EXCEPT !["retry"] = Collected]
            BY <2>1, <3>2, <3>3
        <3> QED BY <3>1, <3>2, <3>3
    <2>3. pc' \in {"refused", "validate"}
        BY <1>22 DEF CombineRetry
    <2> QED BY <1>22, <2>2, <2>3
            DEF CombineRetry, PCs, Ended, FromDiscogs, FromRoute, FromWhole, FromSections,
                FromActive, FromAsr, FromFinal, FromPaths, FromMerge, FromPublish, FromFinish,
                FromCombine, FromValidate
<1>23. CASE Validate
    <2>1. pc' \in {"done", "refused"}
        BY <1>23 DEF Validate
    <2> QED BY <1>23, <2>1 DEF Validate, files, PCs, Ended
<1>24. CASE Crash
    <2>1. jobs' \in [Whole -> [step : {"idle", "runs", "done", "failed"}, sources : SUBSET Audios,
                               have : [Audios -> Outcome]]]
        BY <1>24, NothingTyped DEF Crash, NoJob
    <2> QED BY <1>24, <2>1 DEF Crash, files, PCs, Ended
<1>25. CASE Forget \/ UNCHANGED batchVars
    BY <1>25 DEF Forget, batchVars, files
<1> QED BY <1>1, <1>2, <1>3, <1>4, <1>5, <1>6, <1>7, <1>8, <1>9, <1>10, <1>11, <1>12, <1>13, <1>14,
           <1>15, <1>16, <1>17, <1>18, <1>19, <1>20, <1>21, <1>22, <1>23, <1>24, <1>25
        DEF BatchNext, Script

-----------------------------------------------------------------------------
(* The partitions of the gates. *)

LEMMA PartitionsAtFirst == BatchInit => PartitionsInv
BY DEF BatchInit, PartitionsInv, FromDiscogs, FromRoute, FromWhole, FromSections, FromActive,
       FromAsr, FromFinal, FromPaths, FromMerge, FromPublish, FromFinish, FromCombine, FromValidate

\* The places of the script, one after the other.
Afterwards == /\ FromValidate \subseteq FromCombine /\ FromCombine \subseteq FromFinish
              /\ FromFinish \subseteq FromPublish /\ FromPublish \subseteq FromMerge
              /\ FromMerge \subseteq FromPaths /\ FromPaths \subseteq FromFinal
              /\ FromFinal \subseteq FromAsr /\ FromAsr \subseteq FromActive
              /\ FromActive \subseteq FromSections /\ FromSections \subseteq FromWhole
              /\ FromWhole \subseteq FromRoute /\ FromRoute \subseteq FromDiscogs
LEMMA PlacesFollow == Afterwards
BY DEF Afterwards, FromDiscogs, FromRoute, FromWhole, FromSections, FromActive, FromAsr,
       FromFinal, FromPaths, FromMerge, FromPublish, FromFinish, FromCombine, FromValidate

\* A step that leaves the partitions alone keeps what is known of them, wherever it leads.
LEMMA PartitionsStay ==
    ASSUME PartitionsInv, UNCHANGED <<gate, discogs>>,
           pc' \in {"gate_write", "discogs_write"} => UNCHANGED <<pc, pending>>,
           pc' \in FromDiscogs => pc \in FromDiscogs,
           pc' \in FromRoute => pc \in FromRoute,
           pc' \in FromWhole => pc \in FromWhole /\ manifest'["accepted"] = manifest["accepted"],
           pc' \in FromCombine => /\ pc \in FromCombine /\ final'["review"] = final["review"]
                                  /\ final'["rejected"] = final["rejected"]
    PROVE  PartitionsInv'
BY DEF PartitionsInv

LEMMA PartitionsKept ==
    ASSUME BatchTypeOK, PartitionsInv, [BatchNext]_batchVars
    PROVE  PartitionsInv'
<1> DEFINE Stay == /\ UNCHANGED <<gate, discogs>>
                   /\ pc' \in {"gate_write", "discogs_write"} => UNCHANGED <<pc, pending>>
                   /\ pc' \in FromDiscogs => pc \in FromDiscogs
                   /\ pc' \in FromRoute => pc \in FromRoute
                   /\ pc' \in FromWhole =>
                         pc \in FromWhole /\ manifest'["accepted"] = manifest["accepted"]
                   /\ pc' \in FromCombine =>
                         /\ pc \in FromCombine /\ final'["review"] = final["review"]
                         /\ final'["rejected"] = final["rejected"]
<1>0. Stay => PartitionsInv'
    BY PartitionsStay
<1>1. CASE Start
    <2>1. Stay
        BY <1>1 DEF Start, FromDiscogs, FromRoute, FromWhole, FromSections, FromActive, FromAsr,
                    FromFinal, FromPaths, FromMerge, FromPublish, FromFinish, FromCombine,
                    FromValidate
    <2> QED BY <1>0, <2>1
<1>2. CASE Gate
    <2>1. \/ pc' \in {"unreadable", "failed"}
          \/ pc' = "gate_write" /\ Writing(pending', gate, GateFiles, Decision, Audios)
        BY <1>2, FileOrders, StageSets, InferDivides DEF Gate
    <2>2. gate' = gate
        BY <1>2 DEF Gate, Infer, files
    <2> QED BY <2>1, <2>2
            DEF PartitionsInv, FromDiscogs, FromRoute, FromWhole, FromSections, FromActive,
                FromAsr, FromFinal, FromPaths, FromMerge, FromPublish, FromFinish, FromCombine,
                FromValidate
<1>3. CASE GateWrite
    <2>1. /\ Writing(pending, gate, GateFiles, Decision, Audios)
          /\ gate \in [Names(GateFiles) -> SUBSET Audios]
        BY <1>3 DEF GateWrite, WriteOne, PartitionsInv, BatchTypeOK
    <2>2. WriteOne("gate_write", "discogs") /\ gate' = Written(gate)
        BY <1>3 DEF GateWrite
    <2>3. \/ pc' = "gate_write" /\ Writing(pending', gate', GateFiles, Decision, Audios)
          \/ pc' = "discogs" /\ Divides(gate', GateFiles, Decision, Audios)
        BY <2>1, <2>2, FileOrders, WriteDivides
    <2> QED BY <2>3
            DEF PartitionsInv, FromDiscogs, FromRoute, FromWhole, FromSections, FromActive,
                FromAsr, FromFinal, FromPaths, FromMerge, FromPublish, FromFinish, FromCombine,
                FromValidate
<1>4. CASE Discogs
    <2>1. gate["accepted"] \in SUBSET Audios
        BY FileNames DEF BatchTypeOK
    <2>2. Infer("discogs", "discogs_write", "discogs_mir", discogs, DiscogsFiles, Kind,
                gate["accepted"])
        BY <1>4 DEF Discogs
    <2>3. \/ pc' \in {"unreadable", "failed"}
          \/ pc' = "discogs_write" /\ Writing(pending', discogs, DiscogsFiles, Kind, gate["accepted"])
        BY <2>1, <2>2, FileOrders, StageSets, InferDivides
    <2>4. UNCHANGED <<gate, discogs>> /\ pc = "discogs"
        BY <1>4 DEF Discogs, Infer, files
    <2>5. Divides(gate, GateFiles, Decision, Audios)
        BY <2>4 DEF PartitionsInv, FromDiscogs
    <2> QED BY <2>3, <2>4, <2>5
            DEF PartitionsInv, FromDiscogs, FromRoute, FromWhole, FromSections, FromActive,
                FromAsr, FromFinal, FromPaths, FromMerge, FromPublish, FromFinish, FromCombine,
                FromValidate
<1>5. CASE DiscogsWrite
    <2>1. /\ Writing(pending, discogs, DiscogsFiles, Kind, gate["accepted"])
          /\ discogs \in [Names(DiscogsFiles) -> SUBSET Audios]
          /\ pc = "discogs_write" /\ gate' = gate
        BY <1>5 DEF DiscogsWrite, WriteOne, PartitionsInv, BatchTypeOK
    <2>2. WriteOne("discogs_write", "route") /\ discogs' = Written(discogs)
        BY <1>5 DEF DiscogsWrite
    <2>3. \/ pc' = "discogs_write" /\ Writing(pending', discogs', DiscogsFiles, Kind, gate["accepted"])
          \/ pc' = "route" /\ Divides(discogs', DiscogsFiles, Kind, gate["accepted"])
        BY <2>1, <2>2, FileOrders, WriteDivides
    <2>4. Divides(gate, GateFiles, Decision, Audios)
        BY <2>1 DEF PartitionsInv, FromDiscogs
    <2> QED BY <2>1, <2>3, <2>4
            DEF PartitionsInv, FromDiscogs, FromRoute, FromWhole, FromSections, FromActive,
                FromAsr, FromFinal, FromPaths, FromMerge, FromPublish, FromFinish, FromCombine,
                FromValidate
<1>6. CASE Route
    <2>1. pc = "route" /\ UNCHANGED <<gate, discogs>>
        BY <1>6 DEF Route
    <2>2. pc' \in {"whole_track", "publish"}
          /\ manifest'["accepted"] = discogs["song"] \cup discogs["instrumental"]
        BY <1>6 DEF Route, BatchTypeOK, Levels, Empty
    <2>3. /\ Divides(gate, GateFiles, Decision, Audios)
          /\ Divides(discogs, DiscogsFiles, Kind, gate["accepted"])
        BY <2>1, PlacesFollow DEF PartitionsInv, FromRoute, Afterwards
    <2>4. pc' \notin FromCombine
        BY <2>2 DEF FromCombine, FromValidate
    <2> QED BY <2>1, <2>2, <2>3, <2>4 DEF PartitionsInv
<1>7. ASSUME NEW s \in Whole, JobEnds(s) PROVE PartitionsInv'
    <2>1. Stay
        BY <1>7 DEF JobEnds
    <2> QED BY <1>0, <2>1
<1>8. ASSUME NEW s \in Whole, JobFails(s) PROVE PartitionsInv'
    <2>1. Stay
        BY <1>8 DEF JobFails, files
    <2> QED BY <1>0, <2>1
<1>9. CASE WaitFails
    <2>1. Stay
        BY <1>9 DEF WaitFails, files, FromDiscogs, FromRoute, FromWhole, FromSections, FromActive, FromAsr,
                    FromFinal, FromPaths, FromMerge, FromPublish, FromFinish, FromCombine,
                    FromValidate
    <2> QED BY <1>0, <2>1
<1>10. CASE OrphanEnds
    <2>1. Stay
        BY <1>10 DEF OrphanEnds
    <2> QED BY <1>0, <2>1
<1>11. CASE ActiveGlobal
    <2>1. Stay
        <3>1. /\ pc = "whole_track" /\ pc' \in {"refused", "sections"}
              /\ manifest'["accepted"] = manifest["accepted"]
            BY <1>11, GlobalSplits DEF Refuses, Splits, ActiveGlobal, Active, Levels
        <3> QED BY <1>11, <3>1
                DEF ActiveGlobal, FromDiscogs, FromRoute, FromWhole, FromSections, FromActive,
                    FromAsr, FromFinal, FromPaths, FromMerge, FromPublish, FromFinish, FromCombine,
                    FromValidate
    <2> QED BY <1>0, <2>1
<1>12. CASE Postprocess
    <2>1. Stay
        BY <1>12 DEF Postprocess, FromDiscogs, FromRoute, FromWhole, FromSections, FromActive,
                     FromAsr, FromFinal, FromPaths, FromMerge, FromPublish, FromFinish, FromCombine,
                     FromValidate
    <2> QED BY <1>0, <2>1
<1>13. CASE ActiveSections
    <2>1. Stay
        <3>1. /\ pc = "active_sections" /\ pc' \in {"refused", "section_asr"}
              /\ manifest'["accepted"] = manifest["accepted"]
            BY <1>13, SectionsSplit DEF Refuses, Splits, ActiveSections, Active, Levels
        <3> QED BY <1>13, <3>1
                DEF ActiveSections, FromDiscogs, FromRoute, FromWhole, FromSections, FromActive,
                    FromAsr, FromFinal, FromPaths, FromMerge, FromPublish, FromFinish, FromCombine,
                    FromValidate
    <2> QED BY <1>0, <2>1
<1>14. CASE SectionAsr
    <2>1. Stay
        BY <1>14 DEF SectionAsr, FromDiscogs, FromRoute, FromWhole, FromSections, FromActive,
                     FromAsr, FromFinal, FromPaths, FromMerge, FromPublish, FromFinish, FromCombine,
                     FromValidate
    <2> QED BY <1>0, <2>1
<1>15. CASE ActiveFinal
    <2>1. Stay
        <3>1. /\ pc = "active_final" /\ pc' \in {"refused", "path_conflicts"}
              /\ manifest'["accepted"] = manifest["accepted"]
            BY <1>15, FinalSplits DEF Refuses, Splits, ActiveFinal, Active, Levels
        <3> QED BY <1>15, <3>1
                DEF ActiveFinal, FromDiscogs, FromRoute, FromWhole, FromSections, FromActive,
                    FromAsr, FromFinal, FromPaths, FromMerge, FromPublish, FromFinish, FromCombine,
                    FromValidate
    <2> QED BY <1>0, <2>1
<1>16. CASE PathConflicts
    <2>1. Stay
        <3>1. manifest'["accepted"] = manifest["accepted"]
            BY <1>16 DEF PathConflicts, BatchTypeOK, Levels
        <3> QED BY <1>16, <3>1
                DEF PathConflicts, FromDiscogs, FromRoute, FromWhole, FromSections, FromActive,
                    FromAsr, FromFinal, FromPaths, FromMerge, FromPublish, FromFinish, FromCombine,
                    FromValidate
    <2> QED BY <1>0, <2>1
<1>17. CASE Merge
    <2>1. Stay
        BY <1>17 DEF Merge, files, FromDiscogs, FromRoute, FromWhole, FromSections, FromActive,
                     FromAsr, FromFinal, FromPaths, FromMerge, FromPublish, FromFinish, FromCombine,
                     FromValidate
    <2> QED BY <1>0, <2>1
<1>18. CASE PublishBegins \/ PublishGoesOn \/ PublishRaises
    <2>1. Stay
        BY <1>18 DEF PublishBegins, PublishGoesOn, PublishRaises, files, FromDiscogs, FromRoute,
                     FromWhole, FromSections, FromActive, FromAsr, FromFinal, FromPaths, FromMerge,
                     FromPublish, FromFinish, FromCombine, FromValidate
    <2> QED BY <1>0, <2>1
<1>19. CASE CopyFinal
    <2>1. /\ pc = "finish" /\ pc' = "combine_retry" /\ UNCHANGED <<gate, discogs, manifest>>
          /\ final'["review"] = gate["review"] \cup discogs["review"]
          /\ final'["rejected"] = gate["rejected"]
        BY <1>19 DEF CopyFinal, BatchTypeOK
    <2>2. pc \in FromFinish
        BY <2>1 DEF FromFinish
    <2>3. pc \in FromDiscogs /\ pc \in FromRoute /\ pc \in FromWhole
        BY <2>2, PlacesFollow DEF Afterwards
    <2> QED BY <2>1, <2>3 DEF PartitionsInv
<1>20. CASE CombineRetry
    <2>1. Stay
        <3>1. final'["review"] = final["review"] /\ final'["rejected"] = final["rejected"]
            BY <1>20 DEF CombineRetry, BatchTypeOK
        <3> QED BY <1>20, <3>1
                DEF CombineRetry, FromDiscogs, FromRoute, FromWhole, FromSections, FromActive,
                    FromAsr, FromFinal, FromPaths, FromMerge, FromPublish, FromFinish, FromCombine,
                    FromValidate
    <2> QED BY <1>0, <2>1
<1>21. CASE Validate
    <2>1. Stay
        BY <1>21 DEF Validate, files, FromDiscogs, FromRoute, FromWhole, FromSections, FromActive,
                     FromAsr, FromFinal, FromPaths, FromMerge, FromPublish, FromFinish, FromCombine,
                     FromValidate
    <2> QED BY <1>0, <2>1
<1>22. CASE Crash
    <2>1. Stay
        BY <1>22 DEF Crash, files, FromDiscogs, FromRoute, FromWhole, FromSections, FromActive,
                     FromAsr, FromFinal, FromPaths, FromMerge, FromPublish, FromFinish, FromCombine,
                     FromValidate
    <2> QED BY <1>0, <2>1
<1>23. CASE Forget \/ UNCHANGED batchVars
    <2>1. Stay
        BY <1>23 DEF Forget, batchVars, files
    <2> QED BY <1>0, <2>1
<1> QED BY <1>1, <1>2, <1>3, <1>4, <1>5, <1>6, <1>7, <1>8, <1>9, <1>10, <1>11, <1>12, <1>13, <1>14,
           <1>15, <1>16, <1>17, <1>18, <1>19, <1>20, <1>21, <1>22, <1>23
        DEF BatchNext, Script

-----------------------------------------------------------------------------
(* The tree and the jobs. *)

\* Each step of the script is a step of the publisher, or leaves it alone.
LEMMA StepPublishes ==
    ASSUME BatchAssumption, BatchTypeOK, [BatchNext]_batchVars
    PROVE  [PublishNext]_publishVars
<1>1. CASE PublishBegins
    <2>1. manifest["publish"] \in Trees
        BY DEF BatchTypeOK, Levels, BatchAssumption
    <2>2. BeginPublish(manifest["publish"])
        BY <1>1 DEF PublishBegins
    <2> QED BY <2>1, <2>2 DEF PublishNext
<1>2. CASE PublishGoesOn \/ PublishRaises
    BY <1>2 DEF PublishGoesOn, PublishRaises, PublishNext
<1>3. CASE Crash
    <2>1. CASE publishing = "idle"
        BY <1>3, <2>1 DEF Crash, publishVars
    <2>2. CASE publishing # "idle"
        BY <1>3, <2>2 DEF Crash, PublishNext, PublisherDies
    <2> QED BY <2>1, <2>2
<1>4. CASE Forget \/ UNCHANGED batchVars
    BY <1>4 DEF Forget, batchVars, publishVars
<1>5. CASE \/ Start \/ Gate \/ GateWrite \/ Discogs \/ DiscogsWrite \/ Route \/ WaitFails \/ OrphanEnds
           \/ \E s \in Whole : JobEnds(s) \/ JobFails(s)
    BY <1>5 DEF Start, Gate, GateWrite, Discogs, DiscogsWrite, Infer, WriteOne, Route, WaitFails,
                OrphanEnds, JobEnds, JobFails, publishVars
<1>6. CASE \/ ActiveGlobal \/ Postprocess \/ ActiveSections \/ SectionAsr \/ ActiveFinal
           \/ PathConflicts \/ Merge \/ CopyFinal \/ CombineRetry \/ Validate
    BY <1>6 DEF ActiveGlobal, Postprocess, ActiveSections, SectionAsr, ActiveFinal, PathConflicts,
                Merge, CopyFinal, CombineRetry, Validate, publishVars
<1> QED BY <1>1, <1>2, <1>3, <1>4, <1>5, <1>6 DEF BatchNext, Script

LEMMA TreeAtFirst == BatchInit => TreeInv
<1> SUFFICES ASSUME BatchInit PROVE TreeInv
    OBVIOUS
<1>1. PublishInv
    BY PublishInitInv DEF BatchInit
<1>2. publishing = "idle" /\ pc = "stopped"
    BY DEF BatchInit, PublishInit
<1> QED BY <1>1, <1>2
        DEF TreeInv, FromFinish, FromCombine, FromValidate

\* A step that leaves the publisher alone keeps what is known of it, where it does not lead to
\* what comes after a publication.
LEMMA TreeStays ==
    ASSUME TreeInv, PublishInv', UNCHANGED publishVars, pc # "publishing" /\ pc' # "publishing",
           pc' \in FromFinish => pc \in FromFinish /\ manifest'["publish"] = manifest["publish"]
    PROVE  TreeInv'
BY DEF TreeInv, publishVars

LEMMA TreeKept ==
    ASSUME BatchAssumption, BatchTypeOK, TreeInv, [BatchNext]_batchVars
    PROVE  TreeInv'
<1>0. PublishInv'
    BY StepPublishes, NextKeepsInv DEF TreeInv
<1> DEFINE Stay == /\ UNCHANGED publishVars /\ pc # "publishing" /\ pc' # "publishing"
                   /\ pc' \in FromFinish =>
                         pc \in FromFinish /\ manifest'["publish"] = manifest["publish"]
<1>00. Stay => TreeInv'
    BY <1>0, TreeStays
<1>1. CASE \/ Start \/ Gate \/ GateWrite \/ Discogs \/ DiscogsWrite \/ Route \/ WaitFails
    <2>1. Stay
        BY <1>1 DEF Start, Ended, Gate, GateWrite, Discogs, DiscogsWrite, Infer, WriteOne, Route,
                    WaitFails, publishVars, FromFinish, FromCombine, FromValidate
    <2> QED BY <1>00, <2>1
<1>2. ASSUME NEW s \in Whole, JobEnds(s) \/ JobFails(s) PROVE TreeInv'
    <2>1. Stay
        BY <1>2 DEF JobEnds, JobFails, publishVars, files
    <2> QED BY <1>00, <2>1
<1>3. CASE OrphanEnds
    <2>1. UNCHANGED <<publishVars, pc, manifest>>
        BY <1>3 DEF OrphanEnds
    <2> QED BY <1>0, <2>1 DEF TreeInv, publishVars
<1>4. CASE ActiveGlobal \/ ActiveSections \/ ActiveFinal
    <2>1. Stay
        BY <1>4 DEF ActiveGlobal, ActiveSections, ActiveFinal, Active, publishVars, FromFinish,
                    FromCombine, FromValidate
    <2> QED BY <1>00, <2>1
<1>5. CASE Postprocess \/ SectionAsr \/ PathConflicts \/ Merge
    <2>1. Stay
        BY <1>5 DEF Postprocess, SectionAsr, PathConflicts, Merge, publishVars, FromFinish,
                    FromCombine, FromValidate
    <2> QED BY <1>00, <2>1
<1>6. CASE CopyFinal \/ CombineRetry \/ Validate
    <2>1. Stay
        BY <1>6 DEF CopyFinal, CombineRetry, Validate, publishVars, files, FromFinish, FromCombine,
                    FromValidate
    <2> QED BY <1>00, <2>1
<1>7. CASE PublishBegins
    <2>1. publishing' = "recover" /\ goal' = manifest'["publish"] /\ pc' = "publishing"
        BY <1>7 DEF PublishBegins, BeginPublish, files
    <2> QED BY <1>0, <2>1 DEF TreeInv, FromFinish, FromCombine, FromValidate
<1>8. CASE PublishGoesOn
    <2>1. /\ pc = "publishing" /\ PublishStep /\ manifest' = manifest
          /\ pc' = IF publishing' = "idle" THEN "finish" ELSE "publishing"
        BY <1>8 DEF PublishGoesOn, files
    <2>2. goal' = goal /\ goal = manifest["publish"]
        BY <2>1 DEF TreeInv, PublishStep, Recover, Clear, Write, Verify, RemoveOld, SwapOut, SwapIn,
                    RemoveBackup
    <2>3. publishing' = "remove_backup" => destination' = goal
        BY <2>1 DEF TreeInv, PublishInv, PublishStep, Recover, Clear, Write, Verify, RemoveOld,
                    SwapOut, SwapIn, RemoveBackup
    <2>4. publishing' = "idle" => destination' = goal
        BY <2>1 DEF TreeInv, PublishStep, Recover, Clear, Write, Verify, RemoveOld, SwapOut, SwapIn,
                    RemoveBackup
    <2> QED BY <1>0, <2>1, <2>2, <2>3, <2>4 DEF TreeInv, FromFinish, FromCombine, FromValidate
<1>9. CASE PublishRaises
    <2>1. publishing' = "idle" /\ pc' = "failed"
        BY <1>9 DEF PublishRaises, PublishFails, WriteFails, SwapInFails
    <2> QED BY <1>0, <2>1 DEF TreeInv, FromFinish, FromCombine, FromValidate
<1>10. CASE Crash
    <2>1. publishing' = "idle" /\ pc' = "stopped"
        BY <1>10 DEF Crash
    <2> QED BY <1>0, <2>1 DEF TreeInv, FromFinish, FromCombine, FromValidate
<1>11. CASE Forget \/ UNCHANGED batchVars
    <2>1. UNCHANGED <<publishVars, pc, manifest>>
        BY <1>11 DEF Forget, batchVars, files
    <2> QED BY <1>0, <2>1 DEF TreeInv, publishVars
<1> QED BY <1>1, <1>2, <1>3, <1>4, <1>5, <1>6, <1>7, <1>8, <1>9, <1>10, <1>11 DEF BatchNext, Script

LEMMA JobsAtFirst == BatchInit => JobsInv
BY DEF BatchInit, JobsInv

LEMMA JobsKept ==
    ASSUME BatchTypeOK, JobsInv, [BatchNext]_batchVars
    PROVE  JobsInv'
<1> DEFINE Early == {"gate", "gate_write", "discogs", "discogs_write", "route", "whole_track"}
<1>1. CASE Start
    BY <1>1 DEF Start, JobsInv
<1>2. CASE Gate \/ GateWrite \/ Discogs \/ DiscogsWrite
    <2>1. pc \in {"gate", "gate_write", "discogs", "discogs_write"} /\ pc' # "whole_track"
          /\ retryAt' = retryAt
        BY <1>2 DEF Gate, GateWrite, Discogs, DiscogsWrite, Infer, WriteOne, files
    <2> QED BY <2>1 DEF JobsInv
<1>3. CASE Route
    <2>1. pc = "route" /\ retryAt' = retryAt
        BY <1>3 DEF Route
    <2>2. \/ pc' = "publish"
          \/ \A s \in Whole : jobs'[s].step = "runs" /\ jobs'[s].sources = manifest'["accepted"]
        <3> DEFINE accepted == discogs["song"] \cup discogs["instrumental"]
        <3>1. CASE accepted = {}
            BY <1>3, <3>1 DEF Route
        <3>2. CASE accepted # {}
            <4>1. /\ manifest' = [manifest EXCEPT !["accepted"] = accepted]
                  /\ jobs' = [s \in Whole |->
                                 [step |-> "runs", sources |-> accepted, have |-> Reused(results[s])]]
                BY <1>3, <3>2 DEF Route
            <4>2. manifest \in [Levels -> SUBSET Audios] /\ "accepted" \in Levels
                BY DEF BatchTypeOK, Levels
            <4> HIDE DEF accepted
            <4>3. manifest'["accepted"] = accepted
                BY <4>1, <4>2
            <4> QED BY <4>1, <4>3
        <3> QED BY <3>1, <3>2
    <2> QED BY <2>1, <2>2 DEF JobsInv
<1>4. ASSUME NEW s \in Whole, JobEnds(s) PROVE JobsInv'
    <2>1. /\ JobWrites(s, jobs[s]) /\ Becomes(s, "done") /\ pc = "whole_track" /\ Runs(jobs[s])
          /\ UNCHANGED <<pc, manifest, retryAt, disturbed>>
        BY <1>4 DEF JobEnds
    <2>2. jobs[s].have \in [Audios -> Outcome] /\ s \in Late
        BY StageSets DEF BatchTypeOK
    <2>3. /\ \A t \in Late \ {s} : results'[t] = results[t]
          /\ \A a \in Audios : results'[s][a] # "none" <=> a \in jobs[s].sources
        BY <2>1, <2>2, JobWritesTyped
    <2>4. jobs'[s].step = "done" /\ \A t \in Whole \ {s} : jobs'[t] = jobs[t]
        BY <2>1 DEF Becomes, NoJob, BatchTypeOK
    <2>5. jobs[s].sources = manifest["accepted"]
        BY <2>1 DEF JobsInv
    <2>6. \A t \in Whole : Runs(jobs'[t]) => jobs'[t].sources = manifest'["accepted"]
        BY <2>1, <2>4 DEF JobsInv, Runs
    <2>7. ASSUME NEW t \in Whole, jobs'[t].step = "done", ~disturbed'
          PROVE  \A a \in Audios : results'[t][a] # "none" <=> a \in manifest'["accepted"]
        <3>1. CASE t = s
            BY <2>1, <2>3, <2>5, <3>1
        <3>2. CASE t # s
            <4>1. results'[t] = results[t] /\ jobs'[t] = jobs[t]
                BY <2>3, <2>4, <3>2, StageSets
            <4> QED BY <2>1, <2>7, <4>1 DEF JobsInv
        <3> QED BY <3>1, <3>2
    <2> QED BY <2>1, <2>6, <2>7 DEF JobsInv
<1>5. ASSUME NEW s \in Whole, JobFails(s) PROVE JobsInv'
    <2>1. /\ Becomes(s, "failed") /\ UNCHANGED <<pc, manifest, retryAt, results, disturbed>>
        BY <1>5 DEF JobFails, files
    <2>2. jobs'[s].step = "failed" /\ \A t \in Whole \ {s} : jobs'[t] = jobs[t]
        BY <2>1 DEF Becomes, NoJob, BatchTypeOK
    <2> QED BY <2>1, <2>2 DEF JobsInv, Runs
<1>6. CASE OrphanEnds
    BY <1>6 DEF OrphanEnds, JobsInv
<1>7. CASE WaitFails \/ PublishRaises \/ Crash
    BY <1>7 DEF WaitFails, PublishRaises, Crash, JobsInv
<1>8. CASE ActiveGlobal \/ ActiveSections \/ ActiveFinal
    <2>1. pc' \notin Early
        BY <1>8 DEF ActiveGlobal, ActiveSections, ActiveFinal, Active
    <2> QED BY <2>1 DEF JobsInv
<1>9. CASE Postprocess \/ SectionAsr \/ PathConflicts \/ Merge
    <2>1. pc' \notin Early
        BY <1>9 DEF Postprocess, SectionAsr, PathConflicts, Merge
    <2> QED BY <2>1 DEF JobsInv
<1>10. CASE PublishBegins \/ PublishGoesOn \/ CopyFinal \/ CombineRetry \/ Validate
    <2>1. pc' \notin Early
        BY <1>10 DEF PublishBegins, PublishGoesOn, CopyFinal, CombineRetry, Validate
    <2> QED BY <2>1 DEF JobsInv
<1>11. CASE Forget \/ UNCHANGED batchVars
    BY <1>11 DEF Forget, batchVars, files, JobsInv
<1> QED BY <1>1, <1>2, <1>3, <1>4, <1>5, <1>6, <1>7, <1>8, <1>9, <1>10, <1>11 DEF BatchNext, Script

-----------------------------------------------------------------------------
(* What the files say. *)

\* A step that leads to no place where the files are known.
LEMMA FilesUnknown ==
    ASSUME pc' \notin FromSections
    PROVE  WholeTrue' /\ SectionsTrue' /\ FinalTrue' /\ PathsTrue'
<1>1. pc' \notin FromAsr /\ pc' \notin FromPaths /\ pc' \notin FromMerge
    BY PlacesFollow DEF Afterwards
<1>2. pc' # "active_sections" /\ pc' # "active_final"
    BY DEF FromSections, FromActive, FromAsr, FromFinal
<1> QED BY <1>1, <1>2 DEF WholeTrue, SectionsTrue, FinalTrue, PathsTrue

\* Steps that leave a level alone keep what is known of it.
LEMMA WholeStays ==
    ASSUME WholeTrue,
           pc' \in FromSections =>
              /\ pc \in FromSections /\ \A s \in Whole : results'[s] = results[s]
              /\ manifest'["accepted"] = manifest["accepted"]
              /\ manifest'["global"] = manifest["global"] /\ retryAt'["global"] = retryAt["global"]
    PROVE  WholeTrue'
<1> SUFFICES ASSUME pc' \in FromSections PROVE WholeTrue'
    BY DEF WholeTrue
<1>1. /\ pc \in FromSections /\ \A s \in Whole : results'[s] = results[s]
      /\ manifest'["accepted"] = manifest["accepted"]
      /\ manifest'["global"] = manifest["global"] /\ retryAt'["global"] = retryAt["global"]
    OBVIOUS
<1>2. /\ "music_cpu" \in Whole /\ "structure_raw" \in Whole /\ (RunAlm => "alm" \in Whole)
    BY StageSets
<1>3. \A a, s : FirstWhole(a, s) => FirstWhole(a, s)'
    BY <1>1, <1>2 DEF FirstWhole
<1>4. Drops("global", manifest["accepted"], manifest["global"]) =>
          Drops("global", manifest["accepted"], manifest["global"])'
    BY <1>1 DEF Drops
<1> QED BY <1>1, <1>3, <1>4 DEF WholeTrue

LEMMA SectionsStay ==
    ASSUME SectionsTrue, pc' # "active_sections",
           pc' \in FromAsr =>
              /\ pc \in FromAsr /\ sections' = sections
              /\ manifest'["global"] = manifest["global"]
              /\ manifest'["sections"] = manifest["sections"]
              /\ retryAt'["sections"] = retryAt["sections"]
    PROVE  SectionsTrue'
BY DEF SectionsTrue, Drops

LEMMA FinalStays ==
    ASSUME FinalTrue, pc' # "active_final",
           pc' \in FromPaths =>
              /\ pc \in FromPaths /\ results'["section_asr"] = results["section_asr"]
              /\ manifest'["accepted"] = manifest["accepted"]
              /\ manifest'["sections"] = manifest["sections"]
              /\ manifest'["final"] = manifest["final"] /\ retryAt'["final"] = retryAt["final"]
    PROVE  FinalTrue'
BY DEF FinalTrue, Drops

\* A step after which everything is as before.
LEMMA FilesStay ==
    ASSUME WholeTrue, SectionsTrue, FinalTrue, PathsTrue,
           UNCHANGED <<results, sections, manifest, retryAt>>,
           pc' = pc \/ pc' \notin FromSections \/ (pc \in FromMerge /\ pc' \in FromMerge)
    PROVE  WholeTrue' /\ SectionsTrue' /\ FinalTrue' /\ PathsTrue'
<1>1. CASE pc' = pc
    BY <1>1 DEF WholeTrue, SectionsTrue, FinalTrue, PathsTrue, FirstWhole, Drops
<1>2. CASE pc' \notin FromSections
    BY <1>2, FilesUnknown
<1>3. CASE pc \in FromMerge /\ pc' \in FromMerge
    <2>1. /\ pc' # "active_sections" /\ pc' # "active_final"
          /\ pc \in FromPaths /\ pc \in FromAsr /\ pc \in FromSections
        BY <1>3, PlacesFollow
        DEF Afterwards, FromMerge, FromPublish, FromFinish, FromCombine, FromValidate
    <2>2. WholeTrue' /\ SectionsTrue' /\ FinalTrue'
        BY <2>1, WholeStays, SectionsStay, FinalStays
    <2>3. PathsTrue'
        BY <1>3 DEF PathsTrue, Drops
    <2> QED BY <2>2, <2>3
<1> QED BY <1>1, <1>2, <1>3

\* With nothing accepted there is nothing to say.
LEMMA EmptyFiles ==
    ASSUME \A l \in Levels : manifest'[l] = {}, \A l \in RetryFiles : retryAt'[l] = {},
           pc' = "publish"
    PROVE  WholeTrue' /\ SectionsTrue' /\ FinalTrue' /\ PathsTrue'
<1>1. /\ manifest'["accepted"] = {} /\ manifest'["global"] = {} /\ manifest'["sections"] = {}
      /\ manifest'["final"] = {} /\ manifest'["publish"] = {}
    BY DEF Levels
<1>2. /\ retryAt'["global"] = {} /\ retryAt'["sections"] = {} /\ retryAt'["final"] = {}
      /\ retryAt'["path"] = {}
    BY DEF RetryFiles
<1> QED BY <1>1, <1>2 DEF WholeTrue, SectionsTrue, FinalTrue, PathsTrue, Drops

LEMMA GlobalIsTrue ==
    ASSUME BatchTypeOK, ActiveGlobal
    PROVE  WholeTrue' /\ SectionsTrue' /\ FinalTrue' /\ PathsTrue'
<1>1. CASE Refuses(manifest["accepted"], WaitOrder, results)
    <2>1. pc' \notin FromSections
        BY <1>1 DEF Refuses, FromSections, FromActive, FromAsr, FromFinal, FromPaths, FromMerge,
                    FromPublish, FromFinish, FromCombine, FromValidate
    <2> QED BY <2>1, FilesUnknown
<1>2. CASE Splits(manifest["accepted"], WaitOrder, results, "global", "sections")
    <2>1. /\ pc' = "sections" /\ results' = results
          /\ manifest'["accepted"] = manifest["accepted"]
        BY <1>2 DEF Splits, ActiveGlobal, Levels
    <2>2. \A s \in Whole : \A a \in manifest["accepted"] : results[s][a] \in {"ok", "error"}
        <3>1. \A s \in Whole : \A a \in Audios : results[s][a] # "none" <=> a \in manifest["accepted"]
            BY <1>2, WaitRange DEF Splits
        <3>2. \A s \in Whole : \A a \in Audios : results[s][a] \in {"none", "ok", "error"}
            BY StageSets DEF BatchTypeOK, Outcome
        <3>3. manifest["accepted"] \subseteq Audios
            BY DEF BatchTypeOK, Levels
        <3> QED BY <3>1, <3>2, <3>3
    <2>3. \A a \in Audios : a \in manifest'["global"] <=>
              a \in manifest["accepted"] /\ \A s \in Whole : results[s][a] = "ok"
        BY <1>2, WaitRange DEF Splits
    <2>4. /\ \A f \in retryAt'["global"] : f.audio \in manifest["accepted"] \ manifest'["global"]
          /\ \A a \in manifest["accepted"] \ manifest'["global"] :
                \E f \in retryAt'["global"] : f.audio = a
        BY <1>2 DEF Splits
    <2>5. ASSUME NEW f \in retryAt'["global"] PROVE FirstWhole(f.audio, f.stage)
        <3> DEFINE a == f.audio
        <3>1. PICK k \in DOMAIN WaitOrder :
                  /\ f.stage = WaitOrder[k] /\ results[WaitOrder[k]][a] # "ok"
                  /\ \A j \in DOMAIN WaitOrder : results[WaitOrder[j]][a] # "ok" => k <= j
            BY <1>2 DEF Splits
        <3>2. a \in manifest["accepted"]
            BY <2>4
        <3>3. \A s \in Whole : results[s][a] \in {"ok", "error"}
            BY <2>2, <3>2
        <3> HIDE DEF a
        <3>4. CASE RunAlm
            <4>1. /\ DOMAIN WaitOrder = 1..3 /\ WaitOrder[1] = "music_cpu"
                  /\ WaitOrder[2] = "structure_raw" /\ WaitOrder[3] = "alm"
                BY <3>4, WaitOrderIs
            <4>2. Whole = {"music_cpu", "structure_raw", "alm"}
                BY <3>4, StageSets
            <4>3. CASE k = 1
                BY <3>1, <3>3, <4>1, <4>2, <4>3 DEF FirstWhole, a
            <4>4. CASE k = 2
                <5>1. results["music_cpu"][a] = "ok"
                    BY <3>1, <4>1, <4>4
                <5> QED BY <3>1, <3>3, <4>1, <4>2, <4>4, <5>1 DEF FirstWhole, a
            <4>5. CASE k = 3
                <5>1. results["music_cpu"][a] = "ok" /\ results["structure_raw"][a] = "ok"
                    BY <3>1, <4>1, <4>5
                <5> QED BY <3>1, <3>3, <3>4, <4>1, <4>2, <4>5, <5>1 DEF FirstWhole, a
            <4> QED BY <4>1, <4>3, <4>4, <4>5
        <3>5. CASE ~RunAlm
            <4>1. /\ DOMAIN WaitOrder = 1..2 /\ WaitOrder[1] = "music_cpu"
                  /\ WaitOrder[2] = "structure_raw"
                BY <3>5, WaitOrderIs
            <4>2. Whole = {"music_cpu", "structure_raw"}
                BY <3>5, StageSets
            <4>3. CASE k = 1
                BY <3>1, <3>3, <4>1, <4>2, <4>3 DEF FirstWhole, a
            <4>4. CASE k = 2
                <5>1. results["music_cpu"][a] = "ok"
                    BY <3>1, <4>1, <4>4
                <5> QED BY <3>1, <3>3, <4>1, <4>2, <4>4, <5>1 DEF FirstWhole, a
            <4> QED BY <4>1, <4>3, <4>4
        <3> QED BY <3>4, <3>5
    <2>6. \A f \in retryAt'["global"] : FirstWhole(f.audio, f.stage)'
        BY <2>1, <2>5 DEF FirstWhole
    <2>7. WholeTrue'
        BY <2>1, <2>2, <2>3, <2>4, <2>6 DEF WholeTrue, Drops
    <2>8. pc' \notin FromAsr /\ pc' \notin FromPaths /\ pc' \notin FromMerge
        BY <2>1 DEF FromAsr, FromFinal, FromPaths, FromMerge, FromPublish, FromFinish, FromCombine,
                    FromValidate
    <2> QED BY <2>1, <2>7, <2>8 DEF SectionsTrue, FinalTrue, PathsTrue
<1> QED BY <1>1, <1>2, GlobalSplits

LEMMA PostprocessIsTrue ==
    ASSUME WholeTrue, Postprocess
    PROVE  WholeTrue' /\ SectionsTrue' /\ FinalTrue' /\ PathsTrue'
<1>1. pc = "sections" /\ UNCHANGED <<results, manifest, retryAt>> /\ pc' \in {"refused", "active_sections"}
    BY DEF Postprocess
<1>2. pc \in FromSections
    BY <1>1 DEF FromSections
<1>3. WholeTrue'
    BY <1>1, <1>2, WholeStays
<1>4. pc' \notin FromAsr /\ pc' \notin FromPaths /\ pc' \notin FromMerge
    BY <1>1 DEF FromAsr, FromFinal, FromPaths, FromMerge, FromPublish, FromFinish, FromCombine,
                FromValidate
<1>5. pc' = "active_sections" => \A a \in Audios : sections'[a] # "none" <=> a \in manifest'["global"]
    BY DEF Postprocess
<1> QED BY <1>1, <1>3, <1>4, <1>5 DEF SectionsTrue, FinalTrue, PathsTrue

LEMMA SectionsAreTrue ==
    ASSUME BatchTypeOK, WholeTrue, ActiveSections
    PROVE  WholeTrue' /\ SectionsTrue' /\ FinalTrue' /\ PathsTrue'
<1> DEFINE outputs == [structure_postprocess |-> sections]
           stages == <<"structure_postprocess">>
<1>1. CASE Refuses(manifest["global"], stages, outputs)
    <2>1. pc' \notin FromSections
        BY <1>1 DEF Refuses, FromSections, FromActive, FromAsr, FromFinal, FromPaths, FromMerge,
                    FromPublish, FromFinish, FromCombine, FromValidate
    <2> QED BY <2>1, FilesUnknown
<1>2. CASE Splits(manifest["global"], stages, outputs, "sections", "section_asr")
    <2>1. /\ pc = "active_sections" /\ pc' = "section_asr" /\ UNCHANGED <<results, sections>>
          /\ manifest'["accepted"] = manifest["accepted"]
          /\ manifest'["global"] = manifest["global"] /\ retryAt'["global"] = retryAt["global"]
        BY <1>2 DEF Splits, ActiveSections, Active, Levels, RetryFiles
    <2>2. /\ Range(stages) = {"structure_postprocess"} /\ DOMAIN stages = 1..1
          /\ stages[1] = "structure_postprocess" /\ outputs["structure_postprocess"] = sections
        BY WaitStages
    <2> HIDE DEF stages, outputs
    <2>3. /\ \A a \in Audios : sections[a] # "none" <=> a \in manifest["global"]
          /\ \A a \in Audios : a \in manifest'["sections"] <=>
                a \in manifest["global"] /\ sections[a] = "ok"
          /\ \A a \in manifest["global"] \ manifest'["sections"] :
                \E f \in retryAt'["sections"] : f.audio = a
          /\ \A f \in retryAt'["sections"] :
                /\ f.audio \in manifest["global"] \ manifest'["sections"]
                /\ f.stage = "structure_postprocess"
        BY <1>2, <2>2 DEF Splits
    <2>4. \A a \in manifest["global"] : sections[a] \in {"ok", "error"}
        BY <2>3 DEF BatchTypeOK, Outcome, Levels
    <2>5. pc \in FromSections /\ pc' # "active_sections" /\ pc' # "active_final"
          /\ pc' \notin FromPaths /\ pc' \notin FromMerge
        BY <2>1 DEF FromSections, FromActive, FromAsr, FromFinal, FromPaths, FromMerge, FromPublish,
                    FromFinish, FromCombine, FromValidate
    <2>6. WholeTrue'
        BY <2>1, <2>5, WholeStays
    <2>7. SectionsTrue'
        BY <2>1, <2>3, <2>4, <2>5 DEF SectionsTrue, Drops
    <2> QED BY <2>5, <2>6, <2>7 DEF FinalTrue, PathsTrue
<1> QED BY <1>1, <1>2, SectionsSplit

LEMMA SectionAsrIsTrue ==
    ASSUME BatchTypeOK, WholeTrue, SectionsTrue, SectionAsr
    PROVE  WholeTrue' /\ SectionsTrue' /\ FinalTrue' /\ PathsTrue'
<1>1. /\ pc = "section_asr" /\ UNCHANGED <<sections, manifest, retryAt>>
      /\ pc' \in {"refused", "failed", "active_final"}
    BY DEF SectionAsr
<1>2. CASE pc' # "active_final"
    <2>1. pc' \notin FromSections
        BY <1>1, <1>2 DEF FromSections, FromActive, FromAsr, FromFinal, FromPaths, FromMerge,
                          FromPublish, FromFinish, FromCombine, FromValidate
    <2> QED BY <2>1, FilesUnknown
<1>3. CASE pc' = "active_final"
    <2> DEFINE job == [sources |-> manifest["sections"],
                       have |-> InstrumentalAsr(Reused(results["section_asr"]))]
    <2>1. JobWrites("section_asr", job)
        BY <1>3 DEF SectionAsr
    <2>2. job.have \in [Audios -> Outcome] /\ job.sources = manifest["sections"]
        BY ReusedIs, StageSets DEF BatchTypeOK
    <2> HIDE DEF job
    <2>3. /\ \A s \in Late \ {"section_asr"} : results'[s] = results[s]
          /\ \A a \in Audios : results'["section_asr"][a] # "none" <=> a \in manifest["sections"]
        BY <2>1, <2>2, StageSets, JobWritesTyped
    <2>4. \A s \in Whole : results'[s] = results[s]
        BY <2>3, StageSets
    <2>5. pc \in FromSections /\ pc \in FromAsr /\ pc' # "active_sections"
          /\ pc' \notin FromPaths /\ pc' \notin FromMerge
        BY <1>1, <1>3 DEF FromSections, FromActive, FromAsr, FromFinal, FromPaths, FromMerge,
                          FromPublish, FromFinish, FromCombine, FromValidate
    <2>6. WholeTrue' /\ SectionsTrue'
        BY <1>1, <2>4, <2>5, WholeStays, SectionsStay
    <2> QED BY <1>1, <2>3, <2>5, <2>6 DEF FinalTrue, PathsTrue
<1> QED BY <1>2, <1>3

LEMMA FinalIsTrue ==
    ASSUME BatchTypeOK, WholeTrue, SectionsTrue, ActiveFinal
    PROVE  WholeTrue' /\ SectionsTrue' /\ FinalTrue' /\ PathsTrue'
<1> DEFINE stages == <<"section_asr">>
<1>1. CASE Refuses(manifest["sections"], stages, results)
    <2>1. pc' \notin FromSections
        BY <1>1 DEF Refuses, FromSections, FromActive, FromAsr, FromFinal, FromPaths, FromMerge,
                    FromPublish, FromFinish, FromCombine, FromValidate
    <2> QED BY <2>1, FilesUnknown
<1>2. CASE Splits(manifest["sections"], stages, results, "final", "path_conflicts")
    <2>1. /\ pc = "active_final" /\ pc' = "path_conflicts" /\ UNCHANGED <<results, sections>>
          /\ \A l \in {"accepted", "global", "sections"} : manifest'[l] = manifest[l]
          /\ \A l \in {"global", "sections"} : retryAt'[l] = retryAt[l]
        BY <1>2 DEF Splits, ActiveFinal, Active, Levels, RetryFiles
    <2>2. /\ Range(stages) = {"section_asr"} /\ DOMAIN stages = 1..1 /\ stages[1] = "section_asr"
        BY WaitStages
    <2> HIDE DEF stages
    <2>3. /\ \A a \in Audios : results["section_asr"][a] # "none" <=> a \in manifest["sections"]
          /\ \A a \in Audios : a \in manifest'["final"] <=>
                a \in manifest["sections"] /\ results["section_asr"][a] = "ok"
          /\ \A a \in manifest["sections"] \ manifest'["final"] :
                \E f \in retryAt'["final"] : f.audio = a
          /\ \A f \in retryAt'["final"] :
                /\ f.audio \in manifest["sections"] \ manifest'["final"]
                /\ f.stage = "section_asr"
        BY <1>2, <2>2 DEF Splits
    <2>4. manifest["accepted"] \subseteq Audios
        BY DEF BatchTypeOK, Levels
    <2>5. pc \in FromSections /\ pc \in FromAsr /\ pc' # "active_sections" /\ pc' # "active_final"
          /\ pc' \notin FromMerge
        BY <2>1 DEF FromSections, FromActive, FromAsr, FromFinal, FromPaths, FromMerge, FromPublish,
                    FromFinish, FromCombine, FromValidate
    <2>6. WholeTrue' /\ SectionsTrue'
        BY <2>1, <2>5, WholeStays, SectionsStay
    <2>7. FinalTrue'
        BY <2>1, <2>3, <2>4, <2>5 DEF FinalTrue, Drops
    <2> QED BY <2>5, <2>6, <2>7 DEF PathsTrue
<1> QED BY <1>1, <1>2, FinalSplits

LEMMA PathsAreTrue ==
    ASSUME BatchTypeOK, WholeTrue, SectionsTrue, FinalTrue, PathConflicts
    PROVE  WholeTrue' /\ SectionsTrue' /\ FinalTrue' /\ PathsTrue'
<1> DEFINE conflicts == Conflicting(manifest["final"])
           records == {[audio |-> a, stage |-> "annotation_path"] : a \in conflicts}
<1>1. /\ pc = "path_conflicts" /\ pc' = "merge" /\ UNCHANGED <<results, sections>>
      /\ manifest' = [manifest EXCEPT !["publish"] = manifest["final"] \ conflicts]
      /\ retryAt' = [retryAt EXCEPT !["path"] = records]
    BY DEF PathConflicts
<1>2. conflicts \subseteq manifest["final"]
    BY DEF Conflicting
<1>3. /\ \A f \in records : f.audio \in conflicts /\ f.stage = "annotation_path"
      /\ \A a \in conflicts : \E f \in records : f.audio = a
    <2>1. \A a \in conflicts : /\ [audio |-> a, stage |-> "annotation_path"] \in records
                               /\ [audio |-> a, stage |-> "annotation_path"].audio = a
        OBVIOUS
    <2>2. \A f \in records : f.audio \in conflicts /\ f.stage = "annotation_path"
        OBVIOUS
    <2> HIDE DEF records
    <2> QED BY <2>1, <2>2
<1> HIDE DEF conflicts, records
<1>4. /\ \A l \in Levels \ {"publish"} : manifest'[l] = manifest[l]
      /\ manifest'["publish"] = manifest["final"] \ conflicts
      /\ \A l \in RetryFiles \ {"path"} : retryAt'[l] = retryAt[l]
      /\ retryAt'["path"] = records
    BY <1>1 DEF BatchTypeOK, Levels, RetryFiles
<1>5. /\ \A l \in {"accepted", "global", "sections", "final"} : manifest'[l] = manifest[l]
      /\ \A l \in {"global", "sections", "final"} : retryAt'[l] = retryAt[l]
    BY <1>4 DEF Levels, RetryFiles
<1>6. /\ pc \in FromSections /\ pc \in FromAsr /\ pc \in FromPaths
      /\ pc' # "active_sections" /\ pc' # "active_final"
    BY <1>1 DEF FromSections, FromActive, FromAsr, FromFinal, FromPaths
<1>7. WholeTrue' /\ SectionsTrue' /\ FinalTrue'
    BY <1>1, <1>5, <1>6, WholeStays, SectionsStay, FinalStays
<1>8. Conflicting(manifest'["final"]) = conflicts
    BY <1>5 DEF conflicts
<1>9. PathsTrue'
    BY <1>2, <1>3, <1>4, <1>5, <1>8 DEF PathsTrue, Drops
<1> QED BY <1>7, <1>9

LEMMA FilesKept ==
    ASSUME BatchTypeOK, JobsInv, FilesTrue, ~disturbed', [BatchNext]_batchVars
    PROVE  WholeTrue' /\ SectionsTrue' /\ FinalTrue' /\ PathsTrue'
<1>1. CASE \/ Start \/ Gate \/ GateWrite \/ Discogs \/ DiscogsWrite \/ WaitFails \/ PublishRaises
           \/ Crash \/ \E s \in Whole : JobEnds(s) \/ JobFails(s)
    <2>1. pc' \notin FromSections
        BY <1>1 DEF Start, Gate, GateWrite, Discogs, DiscogsWrite, Infer, WriteOne, WaitFails,
                    PublishRaises, Crash, JobEnds, JobFails, FromSections, FromActive, FromAsr,
                    FromFinal, FromPaths, FromMerge, FromPublish, FromFinish, FromCombine,
                    FromValidate
    <2> QED BY <2>1, FilesUnknown
<1>2. CASE Route
    <2> DEFINE accepted == discogs["song"] \cup discogs["instrumental"]
    <2>1. CASE accepted # {}
        <3>1. pc' \notin FromSections
            BY <1>2, <2>1
            DEF Route, FromSections, FromActive, FromAsr, FromFinal, FromPaths, FromMerge,
                FromPublish, FromFinish, FromCombine, FromValidate
        <3> QED BY <3>1, FilesUnknown
    <2>2. CASE accepted = {}
        <3>1. /\ pc = "route" /\ pc' = "publish" /\ retryAt' = retryAt
              /\ manifest' = Empty(DOMAIN manifest)
            BY <1>2, <2>2 DEF Route
        <3>2. \A l \in Levels : manifest'[l] = {}
            BY <3>1 DEF BatchTypeOK, Empty
        <3>3. \A l \in RetryFiles : retryAt'[l] = {}
            BY <3>1 DEF JobsInv, Empty
        <3> QED BY <3>1, <3>2, <3>3, EmptyFiles
    <2> QED BY <2>1, <2>2
<1>3. CASE OrphanEnds
    BY <1>3 DEF OrphanEnds
<1>4. CASE \/ ActiveGlobal \/ Postprocess \/ ActiveSections \/ SectionAsr \/ ActiveFinal
           \/ PathConflicts
    <2>1. ~disturbed
        BY <1>4 DEF ActiveGlobal, Postprocess, ActiveSections, SectionAsr, ActiveFinal, PathConflicts
    <2>2. WholeTrue /\ SectionsTrue /\ FinalTrue
        BY <2>1 DEF FilesTrue
    <2> QED BY <1>4, <2>2, GlobalIsTrue, PostprocessIsTrue, SectionsAreTrue, SectionAsrIsTrue,
               FinalIsTrue, PathsAreTrue
<1>5. CASE \/ Merge \/ PublishBegins \/ PublishGoesOn \/ CopyFinal \/ CombineRetry \/ Validate
           \/ Forget \/ UNCHANGED batchVars
    <2>1. UNCHANGED <<results, sections, manifest, retryAt, disturbed>>
        BY <1>5 DEF Merge, PublishBegins, PublishGoesOn, CopyFinal, CombineRetry, Validate, files,
                    Forget, batchVars
    <2>2. pc' = pc \/ pc' \notin FromSections \/ (pc \in FromMerge /\ pc' \in FromMerge)
        BY <1>5 DEF Merge, PublishBegins, PublishGoesOn, CopyFinal, CombineRetry, Validate, files,
                    Forget, batchVars, FromSections, FromActive, FromAsr, FromFinal, FromPaths, FromMerge,
                    FromPublish, FromFinish, FromCombine, FromValidate
    <2> QED BY <2>1, <2>2, FilesStay DEF FilesTrue
<1> QED BY <1>1, <1>2, <1>3, <1>4, <1>5 DEF BatchNext, Script

-----------------------------------------------------------------------------
(* What became of an audio, once the last list is written. *)

LEMMA StagePlaces ==
    /\ DOMAIN StageOrder = 1..8
    /\ StageOrder[1] = "music_gate" /\ StageOrder[2] = "discogs_mir"
    /\ StageOrder[3] = "music_cpu" /\ StageOrder[4] = "structure_raw" /\ StageOrder[5] = "alm"
    /\ StageOrder[6] = "structure_postprocess" /\ StageOrder[7] = "section_asr"
    /\ StageOrder[8] = "annotation_path"
BY DEF StageOrder

LEMMA FailedAtIs ==
    ASSUME NEW a
    PROVE  /\ FailedAt(a, StageOrder[1]) <=> a \in gate["failures"]
           /\ FailedAt(a, StageOrder[2]) <=> a \in discogs["failures"]
           /\ FailedAt(a, StageOrder[3]) <=>
                 a \in manifest["accepted"] /\ results["music_cpu"][a] = "error"
           /\ FailedAt(a, StageOrder[4]) <=>
                 a \in manifest["accepted"] /\ results["structure_raw"][a] = "error"
           /\ FailedAt(a, StageOrder[5]) <=>
                 a \in manifest["accepted"] /\ results["alm"][a] = "error"
           /\ FailedAt(a, StageOrder[6]) <=> a \in manifest["global"] /\ sections[a] = "error"
           /\ FailedAt(a, StageOrder[7]) <=>
                 a \in manifest["accepted"] /\ results["section_asr"][a] = "error"
           /\ FailedAt(a, StageOrder[8]) <=> a \in Conflicting(manifest["final"])
<1>1. FailedAt(a, "music_gate") <=> a \in gate["failures"]
    BY DEF FailedAt, Late
<1>2. FailedAt(a, "discogs_mir") <=> a \in discogs["failures"]
    BY DEF FailedAt, Late
<1>3. \A s \in Late : FailedAt(a, s) <=> a \in manifest["accepted"] /\ results[s][a] = "error"
    BY DEF FailedAt, Late
<1>4. FailedAt(a, "structure_postprocess") <=> a \in manifest["global"] /\ sections[a] = "error"
    BY DEF FailedAt, Late
<1>5. FailedAt(a, "annotation_path") <=> a \in Conflicting(manifest["final"])
    BY DEF FailedAt, Late, Conflicting
<1>6. /\ "music_cpu" \in Late /\ "structure_raw" \in Late /\ "alm" \in Late
      /\ "section_asr" \in Late
    BY DEF Late
<1> QED BY <1>1, <1>2, <1>3, <1>4, <1>5, <1>6, StagePlaces

\* The stage is the first at which the audio failed.
FirstStage(a, s) ==
    \E k \in 1..8 : /\ s = StageOrder[k] /\ FailedAt(a, StageOrder[k])
                    /\ \A j \in 1..(k - 1) : ~FailedAt(a, StageOrder[j])

\* The lists are known.
Known == /\ BatchTypeOK /\ PartitionsInv /\ WholeTrue /\ SectionsTrue /\ FinalTrue /\ PathsTrue
         /\ pc \in FromMerge

\* Every audio is in one file of each gate it came to.
LEMMA GatesDivide ==
    ASSUME BatchAssumption, Known, NEW a \in Audios
    PROVE  /\ \/ a \in gate["accepted"] /\ Decision[a] = "accepted"
              \/ a \in gate["review"] /\ Decision[a] = "review"
              \/ a \in gate["rejected"] /\ Decision[a] = "rejected"
              \/ a \in gate["failures"]
           /\ a \in gate["failures"] =>
                 a \notin gate["accepted"] \cup gate["review"] \cup gate["rejected"]
           /\ a \in gate["accepted"] => Decision[a] = "accepted"
           /\ a \in gate["review"] => Decision[a] = "review"
           /\ a \in gate["rejected"] => Decision[a] = "rejected"
           /\ a \in gate["accepted"] =>
                 \/ a \in manifest["accepted"] /\ Kind[a] # "review"
                 \/ a \in discogs["review"] /\ Kind[a] = "review"
                 \/ a \in discogs["failures"]
           /\ a \in manifest["accepted"] => a \in gate["accepted"] /\ a \notin discogs["failures"]
           /\ a \in manifest["accepted"] => Kind[a] # "review"
           /\ a \in discogs["failures"] => a \in gate["accepted"] /\ a \notin discogs["review"]
           /\ a \in discogs["review"] => a \in gate["accepted"] /\ Kind[a] = "review"
           /\ a \in manifest["accepted"] <=> a \in discogs["song"] \cup discogs["instrumental"]
<1>1. pc \in FromDiscogs /\ pc \in FromRoute /\ pc \in FromWhole
    BY PlacesFollow DEF Known, Afterwards
<1>2. /\ Divides(gate, GateFiles, Decision, Audios)
      /\ Divides(discogs, DiscogsFiles, Kind, gate["accepted"])
      /\ manifest["accepted"] = discogs["song"] \cup discogs["instrumental"]
    BY <1>1 DEF Known, PartitionsInv
<1>3. \A n \in {"accepted", "review", "rejected"} :
          a \in gate[n] <=> a \notin gate["failures"] /\ Decision[a] = n
    BY <1>2, FileNames DEF Divides
<1>4. \A n \in {"song", "instrumental", "review"} :
          a \in discogs[n] <=> a \in gate["accepted"] /\ a \notin discogs["failures"] /\ Kind[a] = n
    BY <1>2, FileNames DEF Divides
<1>5. a \in discogs["failures"] => a \in gate["accepted"]
    BY <1>2 DEF Divides
<1>6. Decision[a] \in {"accepted", "review", "rejected"} /\ Kind[a] \in {"song", "instrumental", "review"}
    BY DEF BatchAssumption
<1> QED BY <1>2, <1>3, <1>4, <1>5, <1>6

\* Each level is a part of the one before, and nothing of it has failed so far.
LEMMA LevelsAre ==
    ASSUME BatchAssumption, Known, NEW a \in Audios
    PROVE  /\ a \in manifest["global"] => a \in manifest["accepted"]
           /\ a \in manifest["sections"] => a \in manifest["global"]
           /\ a \in manifest["final"] => a \in manifest["sections"]
           /\ a \in manifest["publish"] => a \in manifest["final"]
           /\ a \in manifest["accepted"] => \A j \in 1..2 : ~FailedAt(a, StageOrder[j])
           /\ a \in manifest["global"] => \A j \in 1..5 : ~FailedAt(a, StageOrder[j])
           /\ a \in manifest["sections"] => \A j \in 1..6 : ~FailedAt(a, StageOrder[j])
           /\ a \in manifest["final"] => \A j \in 1..7 : ~FailedAt(a, StageOrder[j])
           /\ a \in manifest["publish"] => \A j \in 1..8 : ~FailedAt(a, StageOrder[j])
<1>0. pc \in FromMerge /\ pc \in FromPaths /\ pc \in FromAsr /\ pc \in FromSections
    BY PlacesFollow DEF Known, Afterwards
<1>1. /\ a \in manifest["global"] <=>
            a \in manifest["accepted"] /\ \A s \in Whole : results[s][a] = "ok"
      /\ a \in manifest["sections"] <=> a \in manifest["global"] /\ sections[a] = "ok"
      /\ a \in manifest["final"] <=> a \in manifest["sections"] /\ results["section_asr"][a] = "ok"
      /\ a \in manifest["publish"] <=>
            a \in manifest["final"] /\ a \notin Conflicting(manifest["final"])
    BY <1>0 DEF Known, WholeTrue, SectionsTrue, FinalTrue, PathsTrue
<1>2. a \in manifest["accepted"] =>
          ~FailedAt(a, StageOrder[1]) /\ ~FailedAt(a, StageOrder[2])
    BY GatesDivide, FailedAtIs
<1>3. a \in manifest["global"] =>
          /\ results["music_cpu"][a] = "ok" /\ results["structure_raw"][a] = "ok"
          /\ results["alm"][a] \in {"ok", "none"}
    BY <1>1, StageSets DEF Known, BatchTypeOK
<1>4. a \in manifest["global"] => /\ ~FailedAt(a, StageOrder[3]) /\ ~FailedAt(a, StageOrder[4])
                                  /\ ~FailedAt(a, StageOrder[5])
    BY <1>3, FailedAtIs
<1>5. a \in manifest["sections"] => ~FailedAt(a, StageOrder[6])
    BY <1>1, FailedAtIs
<1>6. a \in manifest["final"] => ~FailedAt(a, StageOrder[7])
    BY <1>1, FailedAtIs
<1>7. a \in manifest["publish"] => ~FailedAt(a, StageOrder[8])
    BY <1>1, FailedAtIs
<1> DEFINE FailedIn(k) == FailedAt(a, StageOrder[k])
<1> HIDE DEF FailedIn
<1>8. /\ a \in manifest["accepted"] => ~FailedIn(1) /\ ~FailedIn(2)
      /\ a \in manifest["global"] => ~FailedIn(3) /\ ~FailedIn(4) /\ ~FailedIn(5)
      /\ a \in manifest["sections"] => ~FailedIn(6)
      /\ a \in manifest["final"] => ~FailedIn(7)
      /\ a \in manifest["publish"] => ~FailedIn(8)
    BY <1>2, <1>4, <1>5, <1>6, <1>7 DEF FailedIn
<1>9. /\ a \in manifest["accepted"] => \A j \in 1..2 : ~FailedIn(j)
      /\ a \in manifest["global"] => \A j \in 1..5 : ~FailedIn(j)
      /\ a \in manifest["sections"] => \A j \in 1..6 : ~FailedIn(j)
      /\ a \in manifest["final"] => \A j \in 1..7 : ~FailedIn(j)
      /\ a \in manifest["publish"] => \A j \in 1..8 : ~FailedIn(j)
    BY <1>1, <1>8
<1> QED BY <1>1, <1>9 DEF FailedIn

\* The audios of the failure files are those that failed at a gate, and the accepted ones that
\* are not published.
LEMMA FailuresAre ==
    ASSUME BatchAssumption, Known, NEW a \in Audios
    PROVE  (\E f \in Failures : f.audio = a) <=>
              \/ a \in gate["failures"] \/ a \in discogs["failures"]
              \/ a \in manifest["accepted"] /\ a \notin manifest["publish"]
<1>0. pc \in FromMerge /\ pc \in FromPaths /\ pc \in FromAsr /\ pc \in FromSections
    BY PlacesFollow DEF Known, Afterwards
<1>1. /\ Drops("global", manifest["accepted"], manifest["global"])
      /\ Drops("sections", manifest["global"], manifest["sections"])
      /\ Drops("final", manifest["sections"], manifest["final"])
      /\ Drops("path", manifest["final"], manifest["publish"])
    BY <1>0 DEF Known, WholeTrue, SectionsTrue, FinalTrue, PathsTrue
<1>2. \A r \in RetryFiles : \A f \in retryAt[r] : f \in Failures
    BY DEF Failures
<1>3. ASSUME NEW f \in Failures, f.audio = a
      PROVE  \/ a \in gate["failures"] \/ a \in discogs["failures"]
             \/ a \in manifest["accepted"] /\ a \notin manifest["publish"]
    <2>1. CASE f \in {[audio |-> b, stage |-> "music_gate"] : b \in gate["failures"]}
        BY <1>3, <2>1
    <2>2. CASE f \in {[audio |-> b, stage |-> "discogs_mir"] : b \in discogs["failures"]}
        BY <1>3, <2>2
    <2>3. CASE f \in UNION {retryAt[r] : r \in RetryFiles}
        <3>1. PICK r \in RetryFiles : f \in retryAt[r]
            BY <2>3
        <3>2. \/ a \in manifest["accepted"] \ manifest["global"]
              \/ a \in manifest["global"] \ manifest["sections"]
              \/ a \in manifest["sections"] \ manifest["final"]
              \/ a \in manifest["final"] \ manifest["publish"]
            BY <1>1, <1>3, <3>1 DEF Drops, RetryFiles
        <3> QED BY <3>2, LevelsAre
    <2> QED BY <2>1, <2>2, <2>3 DEF Failures
<1>4. CASE a \in gate["failures"]
    <2> DEFINE f == [audio |-> a, stage |-> "music_gate"]
    <2>1. f \in Failures /\ f.audio = a
        BY <1>4 DEF Failures
    <2> QED BY <1>4, <2>1
<1>5. CASE a \in discogs["failures"]
    <2> DEFINE f == [audio |-> a, stage |-> "discogs_mir"]
    <2>1. f \in Failures /\ f.audio = a
        BY <1>5 DEF Failures
    <2> QED BY <1>5, <2>1
<1>6. CASE a \in manifest["accepted"] /\ a \notin manifest["publish"]
    <2>1. \E r \in RetryFiles : \E f \in retryAt[r] : f.audio = a
        BY <1>1, <1>6 DEF Drops, RetryFiles
    <2> QED BY <1>2, <1>6, <2>1
<1> QED BY <1>3, <1>4, <1>5, <1>6

\* Each failure names the first stage at which its audio failed.
LEMMA FailuresAreFirst ==
    ASSUME BatchAssumption, Known, NEW f \in Failures
    PROVE  f.audio \in Audios /\ FirstStage(f.audio, f.stage)
<1>0. pc \in FromMerge /\ pc \in FromPaths /\ pc \in FromAsr /\ pc \in FromSections
    BY PlacesFollow DEF Known, Afterwards
<1> DEFINE a == f.audio
           First(k) == /\ f.stage = StageOrder[k] /\ FailedAt(a, StageOrder[k])
                       /\ \A j \in 1..(k - 1) : ~FailedAt(a, StageOrder[j])
<1>1. a \in Audios
    BY FailuresTyped DEF Known, Failure
<1>2. (\E k \in 1..8 : First(k)) => FirstStage(a, f.stage)
    BY DEF FirstStage
<1>3. CASE f \in {[audio |-> b, stage |-> "music_gate"] : b \in gate["failures"]}
    <2>1. a \in gate["failures"] /\ f.stage = StageOrder[1]
        BY <1>3, StagePlaces
    <2>2. FailedAt(a, StageOrder[1])
        BY <2>1, FailedAtIs
    <2>3. \A j \in 1..(1 - 1) : FALSE
        OBVIOUS
    <2>4. First(1)
        BY <2>1, <2>2, <2>3
    <2> HIDE DEF First
    <2> QED BY <1>1, <1>2, <2>4
<1>4. CASE f \in {[audio |-> b, stage |-> "discogs_mir"] : b \in discogs["failures"]}
    <2>1. a \in discogs["failures"] /\ f.stage = StageOrder[2]
        BY <1>4, StagePlaces
    <2>2. FailedAt(a, StageOrder[2])
        BY <2>1, FailedAtIs
    <2>3. ~FailedAt(a, StageOrder[1])
        BY <1>1, <2>1, GatesDivide, FailedAtIs
    <2>4. \A j \in 1..(2 - 1) : j = 1
        OBVIOUS
    <2>5. First(2)
        BY <2>1, <2>2, <2>3, <2>4
    <2> HIDE DEF First
    <2> QED BY <1>1, <1>2, <2>5
<1>5. CASE f \in retryAt["global"]
    <2>1. a \in manifest["accepted"] /\ FirstWhole(a, f.stage)
        BY <1>0, <1>5 DEF Known, WholeTrue, Drops
    <2>2. ~FailedAt(a, StageOrder[1]) /\ ~FailedAt(a, StageOrder[2])
        <3>1. \A j \in 1..2 : ~FailedAt(a, StageOrder[j])
            BY <1>1, <2>1, LevelsAre
        <3> QED BY <3>1, 1 \in 1..2, 2 \in 1..2
    <2>3. CASE f.stage = "music_cpu"
        <3>1. f.stage = StageOrder[3] /\ FailedAt(a, StageOrder[3])
            BY <2>1, <2>3, FailedAtIs, StagePlaces DEF FirstWhole
        <3>2. \A j \in 1..(3 - 1) : j = 1 \/ j = 2
            OBVIOUS
        <3>3. First(3)
            BY <2>2, <3>1, <3>2
        <3> HIDE DEF First
        <3> QED BY <1>1, <1>2, <3>3
    <2>4. CASE f.stage = "structure_raw"
        <3>1. f.stage = StageOrder[4] /\ FailedAt(a, StageOrder[4]) /\ ~FailedAt(a, StageOrder[3])
            BY <2>1, <2>4, FailedAtIs, StagePlaces DEF FirstWhole
        <3>2. \A j \in 1..(4 - 1) : j = 1 \/ j = 2 \/ j = 3
            OBVIOUS
        <3>3. First(4)
            BY <2>2, <3>1, <3>2
        <3> HIDE DEF First
        <3> QED BY <1>1, <1>2, <3>3
    <2>5. CASE f.stage = "alm"
        <3>1. /\ f.stage = StageOrder[5] /\ FailedAt(a, StageOrder[5])
              /\ ~FailedAt(a, StageOrder[3]) /\ ~FailedAt(a, StageOrder[4])
            BY <2>1, <2>5, FailedAtIs, StagePlaces DEF FirstWhole
        <3>2. \A j \in 1..(5 - 1) : j = 1 \/ j = 2 \/ j = 3 \/ j = 4
            OBVIOUS
        <3>3. First(5)
            BY <2>2, <3>1, <3>2
        <3> HIDE DEF First
        <3> QED BY <1>1, <1>2, <3>3
    <2> QED BY <2>1, <2>3, <2>4, <2>5 DEF FirstWhole
<1>6. CASE f \in retryAt["sections"]
    <2>1. /\ a \in manifest["global"] /\ a \notin manifest["sections"]
          /\ f.stage = "structure_postprocess"
        BY <1>0, <1>6 DEF Known, SectionsTrue, Drops
    <2>2. sections[a] = "error"
        BY <1>0, <1>1, <2>1 DEF Known, SectionsTrue
    <2>3. f.stage = StageOrder[6] /\ FailedAt(a, StageOrder[6])
        BY <2>1, <2>2, FailedAtIs, StagePlaces
    <2>4. \A j \in 1..5 : ~FailedAt(a, StageOrder[j])
        BY <1>1, <2>1, LevelsAre
    <2>5. 6 - 1 = 5 /\ 6 \in 1..8
        OBVIOUS
    <2>6. First(6)
        BY <2>3, <2>4, <2>5
    <2> HIDE DEF First
    <2> QED BY <1>1, <1>2, <2>5, <2>6
<1>7. CASE f \in retryAt["final"]
    <2>1. a \in manifest["sections"] /\ a \notin manifest["final"] /\ f.stage = "section_asr"
        BY <1>0, <1>7 DEF Known, FinalTrue, Drops
    <2>2. a \in manifest["accepted"]
        BY <1>1, <2>1, LevelsAre
    <2>3. results["section_asr"][a] = "error"
        <3>1. results["section_asr"][a] # "none" /\ results["section_asr"][a] # "ok"
            BY <1>0, <1>1, <2>1, <2>2 DEF Known, FinalTrue
        <3> QED BY <1>1, <3>1, StageSets DEF Known, BatchTypeOK, Outcome
    <2>4. f.stage = StageOrder[7] /\ FailedAt(a, StageOrder[7])
        BY <2>1, <2>2, <2>3, FailedAtIs, StagePlaces
    <2>5. \A j \in 1..6 : ~FailedAt(a, StageOrder[j])
        BY <1>1, <2>1, LevelsAre
    <2>6. 7 - 1 = 6 /\ 7 \in 1..8
        OBVIOUS
    <2>7. First(7)
        BY <2>4, <2>5, <2>6
    <2> HIDE DEF First
    <2> QED BY <1>1, <1>2, <2>6, <2>7
<1>8. CASE f \in retryAt["path"]
    <2>1. a \in manifest["final"] /\ a \notin manifest["publish"] /\ f.stage = "annotation_path"
        BY <1>0, <1>8 DEF Known, PathsTrue, Drops
    <2>2. a \in Conflicting(manifest["final"])
        BY <1>0, <1>1, <2>1 DEF Known, PathsTrue
    <2>3. f.stage = StageOrder[8] /\ FailedAt(a, StageOrder[8])
        BY <2>1, <2>2, FailedAtIs, StagePlaces
    <2>4. \A j \in 1..7 : ~FailedAt(a, StageOrder[j])
        BY <1>1, <2>1, LevelsAre
    <2>5. 8 - 1 = 7 /\ 8 \in 1..8
        OBVIOUS
    <2>6. First(8)
        BY <2>3, <2>4, <2>5
    <2> HIDE DEF First
    <2> QED BY <1>1, <1>2, <2>5, <2>6
<1> QED BY <1>3, <1>4, <1>5, <1>6, <1>7, <1>8 DEF Failures, RetryFiles

\* What is published is what failed nowhere.
LEMMA PublishedIs ==
    ASSUME BatchAssumption, Known, NEW a \in Audios
    PROVE  a \in manifest["publish"] <=>
              /\ Decision[a] = "accepted" /\ Kind[a] # "review"
              /\ \A k \in 1..8 : ~FailedAt(a, StageOrder[k])
<1>0. pc \in FromMerge /\ pc \in FromPaths /\ pc \in FromAsr /\ pc \in FromSections
    BY PlacesFollow DEF Known, Afterwards
<1>1. ASSUME a \in manifest["publish"]
      PROVE  /\ Decision[a] = "accepted" /\ Kind[a] # "review"
             /\ \A k \in 1..8 : ~FailedAt(a, StageOrder[k])
    BY <1>1, GatesDivide, LevelsAre
<1>2. ASSUME Decision[a] = "accepted", Kind[a] # "review",
             \A k \in 1..8 : ~FailedAt(a, StageOrder[k])
      PROVE  a \in manifest["publish"]
    <2> DEFINE FailedIn(k) == FailedAt(a, StageOrder[k])
    <2>1. /\ ~FailedIn(1) /\ ~FailedIn(2) /\ ~FailedIn(3) /\ ~FailedIn(4) /\ ~FailedIn(5)
          /\ ~FailedIn(6) /\ ~FailedIn(7) /\ ~FailedIn(8)
        <3>1. \A k \in 1..8 : ~FailedIn(k)
            BY <1>2
        <3> HIDE DEF FailedIn
        <3> QED BY <3>1
    <2>2. a \in manifest["accepted"]
        BY <1>2, <2>1, FailedAtIs, GatesDivide
    <2>3. a \in manifest["global"]
        <3>1. \A s \in Whole : results[s][a] \in {"ok", "error"}
            BY <1>0, <2>2 DEF Known, WholeTrue
        <3>2. results["music_cpu"][a] # "error" /\ results["structure_raw"][a] # "error"
              /\ results["alm"][a] # "error"
            BY <2>1, <2>2, FailedAtIs
        <3>3. \A s \in Whole : results[s][a] = "ok"
            BY <3>1, <3>2, StageSets
        <3> QED BY <1>0, <2>2, <3>3 DEF Known, WholeTrue
    <2>4. a \in manifest["sections"]
        <3>1. sections[a] # "error"
            BY <2>1, <2>3, FailedAtIs
        <3> QED BY <1>0, <2>3, <3>1 DEF Known, SectionsTrue
    <2>5. a \in manifest["final"]
        <3>1. results["section_asr"][a] # "error"
            BY <2>1, <2>2, FailedAtIs
        <3>2. results["section_asr"][a] # "none"
            BY <1>0, <2>2, <2>4 DEF Known, FinalTrue
        <3>3. results["section_asr"][a] = "ok"
            BY <3>1, <3>2, StageSets DEF Known, BatchTypeOK, Outcome
        <3> QED BY <1>0, <2>4, <3>3 DEF Known, FinalTrue
    <2>6. a \notin Conflicting(manifest["final"])
        BY <2>1, FailedAtIs
    <2> QED BY <1>0, <2>5, <2>6 DEF Known, PathsTrue
<1> QED BY <1>1, <1>2

\* combine-retry collects every audio that failed, once, and each with its first stage.
LEMMA CollectedAre ==
    ASSUME BatchAssumption, Known, destination = manifest["publish"],
           final["review"] = gate["review"] \cup discogs["review"],
           final["rejected"] = gate["rejected"]
    PROVE  /\ \A f \in Collected : f.audio \in Audios /\ FirstStage(f.audio, f.stage)
           /\ \A a \in Audios : a \in {f.audio : f \in Collected} <=> \E f \in Failures : f.audio = a
<1>1. ASSUME NEW f \in Collected
      PROVE  f.audio \in Audios /\ FirstStage(f.audio, f.stage)
    <2>1. PICK g \in Failures : g.audio = f.audio /\ g.stage = f.stage
        BY CollectedIs DEF Known
    <2>2. g.audio \in Audios /\ FirstStage(g.audio, g.stage)
        BY FailuresAreFirst
    <2> QED BY <2>1, <2>2
<1>2. ASSUME NEW a \in Audios, a \in {f.audio : f \in Collected}
      PROVE  \E f \in Failures : f.audio = a
    <2>1. PICK f \in Collected : f.audio = a
        BY <1>2
    <2> QED BY <2>1, CollectedIs DEF Known
<1>3. ASSUME NEW a \in Audios, NEW g \in Failures, g.audio = a
      PROVE  a \in {f.audio : f \in Collected}
    <2>1. \/ a \in gate["failures"] \/ a \in discogs["failures"]
          \/ a \in manifest["accepted"] /\ a \notin manifest["publish"]
        BY <1>3, FailuresAre
    <2>2. a \notin destination \cup final["review"] \cup final["rejected"]
        BY <2>1, GatesDivide, LevelsAre
    <2>3. a \in {f.audio : f \in Failures} \ (destination \cup final["review"] \cup final["rejected"])
        BY <1>3, <2>2
    <2> DEFINE f == [audio |-> a,
                     stage |-> FirstFailing(StageOrder, {h.stage : h \in {k \in Failures : k.audio = a}})]
    <2>4. f \in Collected
        BY <2>3 DEF Collected
    <2>5. f.audio = a
        OBVIOUS
    <2> HIDE DEF f
    <2> QED BY <2>4, <2>5
<1> QED BY <1>1, <1>2, <1>3

\* What combine-retry collects has failed, and what has failed is collected.
LEMMA FailedAreCollected ==
    ASSUME BatchAssumption, Known, NEW a \in Audios
    PROVE  (\E f \in Failures : f.audio = a) <=> \E k \in 1..8 : FailedAt(a, StageOrder[k])
<1> DEFINE FailedIn(k) == FailedAt(a, StageOrder[k])
<1>1. ASSUME NEW f \in Failures, f.audio = a
      PROVE  \E k \in 1..8 : FailedIn(k)
    <2>1. FirstStage(f.audio, f.stage)
        BY FailuresAreFirst
    <2> QED BY <1>1, <2>1 DEF FirstStage
<1>2. ASSUME NEW k \in 1..8, FailedIn(k)
      PROVE  \E f \in Failures : f.audio = a
    <2>1. FailedIn(1) \/ FailedIn(2) => \E f \in Failures : f.audio = a
        BY FailedAtIs, FailuresAre
    <2>2. a \in manifest["publish"] => ~FailedIn(k)
        BY LevelsAre
    <2>3. CASE k \in 3..8
        <3>1. FailedIn(8) => a \in manifest["final"]
            BY FailedAtIs DEF Conflicting
        <3>2. \/ FailedIn(3) \/ FailedIn(4) \/ FailedIn(5) \/ FailedIn(6) \/ FailedIn(7) \/ FailedIn(8)
            <4>1. k = 3 \/ k = 4 \/ k = 5 \/ k = 6 \/ k = 7 \/ k = 8
                BY <2>3
            <4> HIDE DEF FailedIn
            <4> QED BY <1>2, <4>1
        <3>3. a \in manifest["accepted"]
            BY <3>1, <3>2, FailedAtIs, LevelsAre
        <3> QED BY <1>2, <2>2, <3>3, FailuresAre
    <2>4. CASE k \in 1..2
        <3>1. FailedIn(1) \/ FailedIn(2)
            <4>1. k = 1 \/ k = 2
                BY <2>4
            <4> HIDE DEF FailedIn
            <4> QED BY <1>2, <4>1
        <3> QED BY <2>1, <3>1
    <2> QED BY <2>3, <2>4
<1> QED BY <1>1, <1>2

\* Review and rejected are what the gates said of what did not fail.
LEMMA VerdictsAre ==
    ASSUME BatchAssumption, Known, NEW a \in Audios
    PROVE  /\ a \in gate["review"] \cup discogs["review"] <=>
                 /\ \A k \in 1..8 : ~FailedAt(a, StageOrder[k])
                 /\ Decision[a] = "review" \/ (Decision[a] = "accepted" /\ Kind[a] = "review")
           /\ a \in gate["rejected"] <=>
                 /\ \A k \in 1..8 : ~FailedAt(a, StageOrder[k])
                 /\ Decision[a] = "rejected"
<1>1. /\ "accepted" # "review" /\ "accepted" # "rejected" /\ "review" # "rejected"
      /\ a \in gate["review"] \cup discogs["review"] =>
            Decision[a] = "review" \/ (Decision[a] = "accepted" /\ Kind[a] = "review")
      /\ a \in gate["review"] \cup discogs["review"] \cup gate["rejected"] =>
            a \notin gate["failures"] /\ a \notin discogs["failures"] /\ a \notin manifest["accepted"]
    BY GatesDivide
<1>2. (\A k \in 1..8 : ~FailedAt(a, StageOrder[k])) <=>
          /\ a \notin gate["failures"] /\ a \notin discogs["failures"]
          /\ ~(a \in manifest["accepted"] /\ a \notin manifest["publish"])
    BY FailuresAre, FailedAreCollected
<1> QED BY <1>1, <1>2, GatesDivide

\* The four partitions divide the inventory.
LEMMA PartitionsExclusive ==
    ASSUME BatchAssumption, Known, NEW parts, DOMAIN parts = 1..4,
           parts[1] = manifest["publish"], parts[2] = gate["review"] \cup discogs["review"],
           parts[3] = gate["rejected"],
           \A a \in Audios : a \in parts[4] <=> \E f \in Failures : f.audio = a
    PROVE  Exclusive(parts)
<1> SUFFICES ASSUME NEW a \in Audios
             PROVE  Cardinality({k \in DOMAIN parts : a \in parts[k]}) = 1
    BY DEF Exclusive
<1>1. a \in parts[4] <=> \/ a \in gate["failures"] \/ a \in discogs["failures"]
                         \/ a \in manifest["accepted"] /\ a \notin manifest["publish"]
    BY FailuresAre
<1>2. /\ a \in manifest["publish"] => a \in manifest["accepted"]
      /\ Decision[a] = "accepted" => Decision[a] # "review" /\ Decision[a] # "rejected"
    BY LevelsAre
<1>3. \/ /\ a \in parts[1] /\ a \notin parts[2] /\ a \notin parts[3] /\ a \notin parts[4]
      \/ /\ a \notin parts[1] /\ a \in parts[2] /\ a \notin parts[3] /\ a \notin parts[4]
      \/ /\ a \notin parts[1] /\ a \notin parts[2] /\ a \in parts[3] /\ a \notin parts[4]
      \/ /\ a \notin parts[1] /\ a \notin parts[2] /\ a \notin parts[3] /\ a \in parts[4]
    BY <1>1, <1>2, GatesDivide
<1>4. \E k \in 1..4 : {j \in DOMAIN parts : a \in parts[j]} = {k}
    <2>1. CASE a \in parts[1] /\ a \notin parts[2] /\ a \notin parts[3] /\ a \notin parts[4]
        <3>1. {j \in DOMAIN parts : a \in parts[j]} = {1}
            BY <2>1
        <3> QED BY <3>1, 1 \in 1..4
    <2>2. CASE a \notin parts[1] /\ a \in parts[2] /\ a \notin parts[3] /\ a \notin parts[4]
        <3>1. {j \in DOMAIN parts : a \in parts[j]} = {2}
            BY <2>2
        <3> QED BY <3>1, 2 \in 1..4
    <2>3. CASE a \notin parts[1] /\ a \notin parts[2] /\ a \in parts[3] /\ a \notin parts[4]
        <3>1. {j \in DOMAIN parts : a \in parts[j]} = {3}
            BY <2>3
        <3> QED BY <3>1, 3 \in 1..4
    <2>4. CASE a \notin parts[1] /\ a \notin parts[2] /\ a \notin parts[3] /\ a \in parts[4]
        <3>1. {j \in DOMAIN parts : a \in parts[j]} = {4}
            BY <2>4
        <3> QED BY <3>1, 4 \in 1..4
    <2> QED BY <1>3, <2>1, <2>2, <2>3, <2>4
<1> QED BY <1>4, FS_Singleton

-----------------------------------------------------------------------------
(* No check ends a run. *)

LEMMA NothingRefused ==
    ASSUME BatchAssumption, BatchInv, BatchTypeOK', ~disturbed', [BatchNext]_batchVars
    PROVE  pc' # "refused"
<1> USE DEF BatchInv
<1>1. CASE \/ Start \/ Gate \/ GateWrite \/ Discogs \/ DiscogsWrite \/ Route \/ WaitFails
           \/ PublishBegins \/ PublishRaises \/ CopyFinal \/ Crash
    BY <1>1 DEF Start, Gate, GateWrite, Discogs, DiscogsWrite, Infer, WriteOne, Route, WaitFails,
                PublishBegins, PublishRaises, CopyFinal, Crash
<1>2. CASE PublishGoesOn \/ (\E s \in Whole : JobEnds(s) \/ JobFails(s))
           \/ Forget \/ UNCHANGED batchVars
    BY <1>2 DEF PublishGoesOn, JobEnds, JobFails, Forget, batchVars, files
<1>3. CASE OrphanEnds
    BY <1>3 DEF OrphanEnds
<1>4. CASE ActiveGlobal
    <2>1. /\ ~disturbed /\ pc = "whole_track" /\ \A s \in Whole : jobs[s].step = "done"
        BY <1>4 DEF ActiveGlobal, Active
    <2>2. \A s \in Whole : \A a \in Audios : results[s][a] # "none" <=> a \in manifest["accepted"]
        BY <2>1 DEF JobsInv
    <2>3. manifest["accepted"] \subseteq Audios
        BY DEF BatchTypeOK, Levels
    <2>4. \A s \in Whole : {a \in Audios : results[s][a] # "none"} = manifest["accepted"]
        BY <2>2, <2>3
    <2>5. ~Refuses(manifest["accepted"], WaitOrder, results)
        BY <2>4, WaitRange DEF Refuses
    <2> QED BY <1>4, <2>5, GlobalSplits DEF Splits
<1>5. CASE Postprocess
    <2>1. ~disturbed /\ pc = "sections" /\ pc \in FromSections
        BY <1>5 DEF Postprocess, FromSections
    <2>2. manifest["global"] \subseteq Audios
        BY DEF BatchTypeOK, Levels
    <2>3. \A s \in Whole : ~Lacks(s, manifest["global"])
        BY <2>1, <2>2 DEF FilesTrue, WholeTrue, Lacks
    <2> QED BY <1>5, <2>3, StageSets DEF Postprocess
<1>6. CASE ActiveSections
    <2> DEFINE outputs == [structure_postprocess |-> sections]
               stages == <<"structure_postprocess">>
    <2>1. ~disturbed /\ pc = "active_sections"
        BY <1>6 DEF ActiveSections, Active
    <2>2. \A a \in Audios : sections[a] # "none" <=> a \in manifest["global"]
        BY <2>1 DEF FilesTrue, SectionsTrue
    <2>3. manifest["global"] \subseteq Audios
        BY DEF BatchTypeOK, Levels
    <2>4. {a \in Audios : outputs["structure_postprocess"][a] # "none"} = manifest["global"]
        BY <2>2, <2>3
    <2>5. ~Refuses(manifest["global"], stages, outputs)
        BY <2>4, WaitStages DEF Refuses
    <2> QED BY <1>6, <2>5, SectionsSplit DEF Splits
<1>7. CASE SectionAsr
    <2>1. ~disturbed /\ pc = "section_asr" /\ pc \in FromAsr /\ pc \in FromSections
        BY <1>7 DEF SectionAsr, FromSections, FromActive, FromAsr
    <2>2. manifest["sections"] \subseteq Audios
        BY DEF BatchTypeOK, Levels
    <2>3. RunAlm => \A a \in manifest["sections"] : results["alm"][a] = "ok"
        BY <2>1, <2>2, StageSets DEF FilesTrue, WholeTrue, SectionsTrue
    <2>4. ~(RunAlm /\ Lacks("alm", manifest["sections"]))
        BY <2>3 DEF Lacks
    <2> QED BY <1>7, <2>4 DEF SectionAsr
<1>8. CASE ActiveFinal
    <2> DEFINE stages == <<"section_asr">>
    <2>1. ~disturbed /\ pc = "active_final"
        BY <1>8 DEF ActiveFinal, Active
    <2>2. \A a \in Audios : results["section_asr"][a] # "none" <=> a \in manifest["sections"]
        BY <2>1 DEF FilesTrue, FinalTrue
    <2>3. manifest["sections"] \subseteq Audios
        BY DEF BatchTypeOK, Levels
    <2>4. {a \in Audios : results["section_asr"][a] # "none"} = manifest["sections"]
        BY <2>2, <2>3
    <2>5. ~Refuses(manifest["sections"], stages, results)
        BY <2>4, WaitStages DEF Refuses
    <2> QED BY <1>8, <2>5, FinalSplits DEF Splits
<1>9. CASE PathConflicts
    BY <1>9 DEF PathConflicts
<1>10. CASE Merge
    <2>1. ~disturbed /\ pc = "merge" /\ pc \in FromMerge
        BY <1>10 DEF Merge, FromMerge
    <2>2. Known
        BY <2>1 DEF Known, FilesTrue
    <2>3. pc \in FromPaths /\ pc \in FromAsr /\ pc \in FromSections
        BY <2>1, PlacesFollow DEF Afterwards
    <2>4. manifest["publish"] \subseteq Audios
        BY DEF BatchTypeOK, Levels
    <2>5. ASSUME NEW a \in manifest["publish"] PROVE Complete(a)
        <3>1. a \in Audios /\ a \in manifest["final"] /\ a \in manifest["sections"] /\ a \in manifest["global"]
            BY <2>2, <2>4, LevelsAre
        <3>2. \A s \in Whole : results[s][a] = "ok"
            BY <2>2, <2>3, <3>1 DEF Known, WholeTrue
        <3>3. sections[a] = "ok"
            BY <2>2, <2>3, <3>1 DEF Known, SectionsTrue
        <3>4. results["section_asr"][a] = "ok"
            BY <2>2, <2>3, <3>1 DEF Known, FinalTrue
        <3> QED BY <3>2, <3>3, <3>4, StageSets DEF Complete
    <2> QED BY <1>10, <2>5 DEF Merge
<1>11. CASE CombineRetry \/ Validate
    <2>1. ~disturbed /\ pc \in FromCombine /\ pc \in FromFinish /\ pc \in FromMerge
        BY <1>11 DEF CombineRetry, Validate, FromMerge, FromPublish, FromFinish, FromCombine,
                     FromValidate
    <2>2. Known
        BY <2>1 DEF Known, FilesTrue
    <2>3. /\ destination = manifest["publish"]
          /\ final["review"] = gate["review"] \cup discogs["review"]
          /\ final["rejected"] = gate["rejected"]
        BY <2>1 DEF TreeInv, PartitionsInv
    <2>4. \A a \in Audios : a \in {f.audio : f \in Collected} <=> \E f \in Failures : f.audio = a
        BY <2>2, <2>3, CollectedAre
    <2>5. CASE CombineRetry
        <3> DEFINE parts == [Partitions EXCEPT ![4] = {f.audio : f \in Collected}]
        <3>1. /\ DOMAIN parts = 1..4 /\ parts[1] = destination /\ parts[2] = final["review"]
              /\ parts[3] = final["rejected"] /\ parts[4] = {f.audio : f \in Collected}
            BY DEF Partitions
        <3> HIDE DEF parts
        <3>2. Exclusive(parts)
            BY <2>2, <2>3, <2>4, <3>1, PartitionsExclusive
        <3> QED BY <2>5, <3>2 DEF CombineRetry, parts
    <2>6. CASE Validate
        <3>1. final["retry"] = Collected
            BY <2>1, <2>6 DEF Validate, FilesTrue, FromValidate
        <3>2. /\ DOMAIN Partitions = 1..4 /\ Partitions[1] = destination
              /\ Partitions[2] = final["review"] /\ Partitions[3] = final["rejected"]
              /\ Partitions[4] = {f.audio : f \in Collected}
            BY <3>1 DEF Partitions
        <3>3. Exclusive(Partitions)
            BY <2>2, <2>3, <2>4, <3>2, PartitionsExclusive
        <3> DEFINE base == discogs["song"] \cup discogs["instrumental"]
        <3>4. base = manifest["accepted"] /\ base \subseteq Audios
            <4>1. pc \in FromWhole
                BY <2>1, PlacesFollow DEF Afterwards
            <4> QED BY <4>1 DEF PartitionsInv, BatchTypeOK, Levels
        <3>5. manifest["publish"] \subseteq Audios
            BY DEF BatchTypeOK, Levels
        <3>6. \A a \in Audios : /\ a \in manifest["publish"] => a \in manifest["accepted"]
                                /\ a \in manifest["accepted"] /\ a \notin manifest["publish"] =>
                                      a \in Partitions[4]
            BY <2>2, <2>4, <3>2, LevelsAre, FailuresAre
        <3>7. base = destination \cup (base \cap Partitions[4])
            BY <2>3, <3>4, <3>5, <3>6
        <3> QED BY <2>6, <3>3, <3>7 DEF Validate
    <2> QED BY <1>11, <2>5, <2>6
<1> QED BY <1>1, <1>2, <1>3, <1>4, <1>5, <1>6, <1>7, <1>8, <1>9, <1>10, <1>11 DEF BatchNext, Script

\* What combine-retry has written stays what it collected.
LEMMA RetryKept ==
    ASSUME BatchTypeOK, FilesTrue, ~disturbed', [BatchNext]_batchVars, pc' \in FromValidate
    PROVE  final'["retry"] = Collected'
<1>1. CASE CombineRetry
    <2>1. final' = [final EXCEPT !["retry"] = Collected] /\ UNCHANGED <<destination, gate, discogs, retryAt>>
        BY <1>1 DEF CombineRetry, FromValidate, publishVars
    <2>2. /\ final'["retry"] = Collected
          /\ final'["review"] = final["review"] /\ final'["rejected"] = final["rejected"]
        <3>1. final \in [review : SUBSET Audios, rejected : SUBSET Audios, retry : SUBSET Failure]
            BY DEF BatchTypeOK
        <3> HIDE DEF Collected
        <3> QED BY <2>1, <3>1
    <2>3. Failures' = Failures
        BY <2>1 DEF Failures
    <2>4. Collected' = Collected
        BY <2>1, <2>2, <2>3 DEF Collected
    <2> QED BY <2>2, <2>4
<1>2. CASE Validate \/ Forget \/ UNCHANGED batchVars
    <2>1. UNCHANGED <<destination, gate, discogs, retryAt, final, disturbed>> /\ pc \in FromValidate
        BY <1>2 DEF Validate, FromValidate, publishVars, files, Forget, batchVars
    <2>2. Failures' = Failures
        BY <2>1 DEF Failures
    <2>3. Collected' = Collected
        BY <2>1, <2>2 DEF Collected
    <2> QED BY <2>1, <2>3 DEF FilesTrue
<1>3. CASE OrphanEnds
    BY <1>3 DEF OrphanEnds
<1>4. CASE \/ Start \/ Gate \/ GateWrite \/ Discogs \/ DiscogsWrite \/ WaitFails \/ Route
           \/ (\E s \in Whole : JobEnds(s) \/ JobFails(s)) \/ PublishRaises \/ Crash
    BY <1>4 DEF Start, Gate, GateWrite, Discogs, DiscogsWrite, Infer, WriteOne, WaitFails, Route,
                JobEnds, JobFails, PublishRaises, Crash, FromValidate
<1>5. CASE \/ ActiveGlobal \/ Postprocess \/ ActiveSections \/ SectionAsr \/ ActiveFinal
           \/ PathConflicts \/ Merge \/ PublishBegins \/ PublishGoesOn \/ CopyFinal
    BY <1>5 DEF ActiveGlobal, ActiveSections, ActiveFinal, Active, Postprocess, SectionAsr,
                PathConflicts, Merge, PublishBegins, PublishGoesOn, CopyFinal, FromValidate
<1> QED BY <1>1, <1>2, <1>3, <1>4, <1>5 DEF BatchNext, Script

-----------------------------------------------------------------------------
(* The invariant. *)

LEMMA BatchInitInv == BatchAssumption /\ BatchInit => BatchInv
<1> SUFFICES ASSUME BatchInit PROVE BatchInv
    OBVIOUS
<1>1. BatchTypeOK /\ PartitionsInv /\ TreeInv /\ JobsInv
    BY TypesAtFirst, PartitionsAtFirst, TreeAtFirst, JobsAtFirst
<1>2. pc = "stopped"
    BY DEF BatchInit
<1>3. FilesTrue
    BY <1>2 DEF FilesTrue, WholeTrue, SectionsTrue, FinalTrue, PathsTrue, FromSections, FromActive,
                FromAsr, FromFinal, FromPaths, FromMerge, FromPublish, FromFinish, FromCombine,
                FromValidate
<1> QED BY <1>1, <1>2, <1>3 DEF BatchInv

LEMMA BatchKeepsInv == BatchInv /\ [BatchNext]_batchVars => BatchInv'
<1> SUFFICES ASSUME BatchInv, [BatchNext]_batchVars PROVE BatchInv'
    OBVIOUS
<1>1. BatchTypeOK' /\ PartitionsInv' /\ TreeInv' /\ JobsInv'
    BY BatchAssumption, TypesKept, PartitionsKept, TreeKept, JobsKept DEF BatchInv
<1>2. ~disturbed' => WholeTrue' /\ SectionsTrue' /\ FinalTrue' /\ PathsTrue'
    BY FilesKept DEF BatchInv
<1>3. ~disturbed' => (pc' \in FromValidate => final'["retry"] = Collected')
    BY RetryKept DEF BatchInv
<1>4. FilesTrue'
    BY <1>2, <1>3 DEF FilesTrue
<1>5. ~disturbed' => pc' # "refused"
    BY <1>1, BatchAssumption, NothingRefused
<1>6. disturbed' \in BOOLEAN
    BY <1>1 DEF BatchTypeOK
<1>7. pc' = "refused" => disturbed'
    BY <1>5, <1>6
<1> QED BY <1>1, <1>4, <1>7 DEF BatchInv

LEMMA BatchInvariant == BatchSpec => []BatchInv
BY BatchAssumption, BatchInitInv, BatchKeepsInv, PTL DEF BatchSpec

\* The files of a directory, the jobs and the lists are well-typed, in whatever order runs end,
\* fail or die.
THEOREM BatchTypeCorrect == BatchSpec => []BatchTypeOK
<1>1. BatchInv => BatchTypeOK
    BY DEF BatchInv
<1> QED BY <1>1, BatchInvariant, PTL

\* No check between the programs of run_pipeline.sh ends a run, but for a program that outlived an
\* earlier run: outputs cover their base, what is merged is complete, the final partitions divide
\* the inventory.
THEOREM NoCheckFails == BatchSpec => []ChecksHold
<1>1. BatchInv => ChecksHold
    BY DEF BatchInv, ChecksHold
<1> QED BY <1>1, BatchInvariant, PTL

\* A run of run_pipeline.sh that ends well leaves each audio where the services' answers and the
\* failures of the run put it, and names the first stage that failed.
THEOREM RunsTellTheTruth == BatchSpec => []DoneIsTrue
<1>1. BatchInv => DoneIsTrue
    <2> SUFFICES ASSUME BatchInv, pc = "done", ~disturbed, NEW a \in Audios
                 PROVE  LET failed == FailedStages(a)
                        IN /\ failed = {} => Reasons(a) = {}
                           /\ failed # {} =>
                                 Reasons(a) = {StageOrder[CHOOSE k \in failed : \A j \in failed : k <= j]}
                           /\ a \in destination <=>
                                 failed = {} /\ Decision[a] = "accepted" /\ Kind[a] # "review"
                           /\ a \in final["review"] <=>
                                 /\ failed = {}
                                 /\ Decision[a] = "review"
                                       \/ (Decision[a] = "accepted" /\ Kind[a] = "review")
                           /\ a \in final["rejected"] <=> failed = {} /\ Decision[a] = "rejected"
        BY DEF DoneIsTrue
    <2> DEFINE FailedIn(k) == FailedAt(a, StageOrder[k])
               failed == {k \in DOMAIN StageOrder : FailedIn(k)}
               first == CHOOSE k \in failed : \A j \in failed : k <= j
    <2>1. /\ pc \in FromValidate /\ pc \in FromCombine /\ pc \in FromFinish /\ pc \in FromMerge
        BY DEF FromMerge, FromPublish, FromFinish, FromCombine, FromValidate
    <2>2. Known
        BY <2>1 DEF Known, BatchInv, FilesTrue
    <2>3. /\ destination = manifest["publish"]
          /\ final["review"] = gate["review"] \cup discogs["review"]
          /\ final["rejected"] = gate["rejected"] /\ final["retry"] = Collected
        BY <2>1 DEF BatchInv, TreeInv, PartitionsInv, FilesTrue
    <2>4. /\ \A f \in Collected : FirstStage(f.audio, f.stage)
          /\ a \in {f.audio : f \in Collected} <=> \E k \in 1..8 : FailedIn(k)
        BY <2>2, <2>3, BatchAssumption, CollectedAre, FailedAreCollected
    <2>5. /\ a \in destination <=> /\ Decision[a] = "accepted" /\ Kind[a] # "review"
                                   /\ \A k \in 1..8 : ~FailedIn(k)
          /\ a \in final["review"] <=>
                /\ \A k \in 1..8 : ~FailedIn(k)
                /\ Decision[a] = "review" \/ (Decision[a] = "accepted" /\ Kind[a] = "review")
          /\ a \in final["rejected"] <=> (\A k \in 1..8 : ~FailedIn(k)) /\ Decision[a] = "rejected"
        BY <2>2, <2>3, BatchAssumption, PublishedIs, VerdictsAre
    <2>6. ASSUME NEW f \in final["retry"], f.audio = a
          PROVE  failed # {} /\ f.stage = StageOrder[first]
        <3>1. PICK k \in 1..8 : /\ f.stage = StageOrder[k] /\ FailedIn(k)
                                /\ \A j \in 1..(k - 1) : ~FailedIn(j)
            BY <2>3, <2>4, <2>6 DEF FirstStage
        <3> HIDE DEF FailedIn
        <3>2. failed \subseteq 1..8 /\ k \in failed
            BY <3>1, StagePlaces
        <3>3. \A j \in failed : k <= j
            BY <3>1, <3>2
        <3> HIDE DEF failed
        <3>4. first \in failed /\ \A j \in failed : first <= j
            BY <3>2, <3>3
        <3>5. first = k
            <4> HIDE DEF first
            <4>1. first \in 1..8 /\ first <= k /\ k <= first
                BY <3>2, <3>3, <3>4
            <4> QED BY <4>1
        <3> QED BY <3>1, <3>2, <3>5
    <2> HIDE DEF first
    <2>7. failed = {} <=> \A k \in 1..8 : ~FailedIn(k)
        <3> HIDE DEF FailedIn
        <3> QED BY StagePlaces
    <2>8. failed # {} => \E f \in final["retry"] : f.audio = a
        BY <2>3, <2>4, <2>7
    <2> HIDE DEF failed, FailedIn
    <2>9. failed = {} => Reasons(a) = {}
        BY <2>6 DEF Reasons
    <2>10. failed # {} => Reasons(a) = {StageOrder[first]}
        BY <2>6, <2>8 DEF Reasons
    <2>11. failed = FailedStages(a)
        BY DEF failed, FailedIn, FailedStages
    <2> QED BY <2>5, <2>7, <2>9, <2>10, <2>11 DEF first
<1> QED BY <1>1, BatchInvariant, PTL

\* The script uses the publisher as the publisher allows, one tree after the other, whoever dies
\* wherever.
THEOREM ScriptPublishes == BatchSpec => PublishSpec
<1>1. BatchInit => PublishInit
    BY DEF BatchInit
<1>2. BatchInv /\ [BatchNext]_batchVars => [PublishNext]_publishVars
    BY BatchAssumption, StepPublishes DEF BatchInv
<1> QED BY <1>1, <1>2, BatchInvariant, PTL DEF BatchSpec, PublishSpec

\* So the tree of annotations in the directory of a batch run changes in one step, to the whole of
\* the new one, through all its runs.
THEOREM BatchTreeIsAtomic == BatchSpec => ImplementsAtomic
BY ScriptPublishes, PublicationIsAtomic
=============================================================================
