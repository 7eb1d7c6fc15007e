---------------------------- MODULE ServiceManager ----------------------------
(***************************************************************************)
(* scripts/model_service_manager.py: start, stop and restart of the resident *)
(* services by commands that come and go, over state files that name the     *)
(* process of each service.                                                  *)
(*                                                                         *)
(* A command may meet another one at any point, and be killed at any point.   *)
(* Services load, serve, end by themselves, or hang; a pid is used again once *)
(* its process is gone, by any program.  What is left out: a pid is not used  *)
(* again between the check of a process and the signal sent right after it    *)
(* (NoReuseInWindow), which nothing in the code prevents.                    *)
(***************************************************************************)
EXTENDS Naturals, Sequences

CONSTANTS Services,   \* a sequence: all_service_order
          Managers,   \* commands that may run at a time
          Pids,
          MaxBirths,  \* processes that are ever started (bound)
          Other,      \* a program that is none of the services
          None

ServiceNames == {Services[k] : k \in DOMAIN Services}
Process == [program : ServiceNames \cup {Other}, birth : 1..MaxBirths,
            run : {"loading", "serving", "terminating", "killed"}]
Identity == [pid : Pids, birth : 1..MaxBirths]
ManagerAssumption == /\ Services \in Seq(ServiceNames) /\ Services # <<>>
                     /\ Other \notin ServiceNames /\ MaxBirths \in Nat \ {0}
                     /\ None \notin ServiceNames \cup Pids \cup Process \cup Identity
ASSUME ManagerAssumption

VARIABLES proc,     \* the process of each pid: its program, start time and what it does
          births,   \* processes started so far; a process is named by pid and birth
          file,     \* the state file of each service
          cmd,      \* what each manager does
          overlap,  \* did two commands ever run at the same time? (history)
          killed    \* was a command ever killed? (history)

managerVars == <<proc, births, file, cmd, overlap, killed>>

Op == [kind : {"start", "stop"}, service : ServiceNames]
StartSteps == {"spawn", "record", "wait"}
StopSteps == {"term", "wait_term", "kill", "wait_kill"}
\* step "check" begins an operation; seen is the state file it read, or the new process.
Idle == [step |-> "idle", todo |-> <<>>, seen |-> None]

ManagerInit == /\ proc = [p \in Pids |-> None] /\ births = 0
               /\ file = [s \in ServiceNames |-> None] /\ cmd = [m \in Managers |-> Idle]
               /\ overlap = FALSE /\ killed = FALSE

-----------------------------------------------------------------------------
(* The processes. *)

\* _proc_start_ticks and _proc_cmdline.
Alive(id) == proc[id.pid] # None /\ proc[id.pid].birth = id.birth

\* (Faulty variant of Managed: any process with that pid.)
ManagedByPid(id, s) == id # None /\ proc[id.pid] # None
\* _managed_process: the pid, its start time and its script.
Managed(id, s) == id # None /\ Alive(id) /\ proc[id.pid].program = s

Serving(s) == {p \in Pids : proc[p] # None /\ proc[p].program = s /\ proc[p].run = "serving"}
\* A terminating server may still answer on the port.
Holding(s) == Serving(s) \cup {p \in Pids : proc[p] # None /\ proc[p].program = s
                                            /\ proc[p].run = "terminating"}

\* The pids some command is about to signal.
InWindow == {cmd[m].seen.pid : m \in {n \in Managers : cmd[n].step \in {"term", "kill"}}}
NoReuseInWindow(p) == p \notin InWindow

Born(p, program, run) ==
    /\ NoReuseInWindow(p)
    /\ proc[p] = None /\ births < MaxBirths
    /\ births' = births + 1
    /\ proc' = [proc EXCEPT ![p] = [program |-> program, birth |-> births + 1, run |-> run]]

Foreign(p) == /\ Born(p, Other, "serving")
              /\ UNCHANGED <<file, cmd, overlap, killed>>

\* The model is loaded; the port may be taken by then, which ends the process.
Loads(p) == /\ proc[p] # None /\ proc[p].run = "loading"
            /\ proc' = [proc EXCEPT ![p] = IF Holding(proc[p].program) = {}
                                           THEN [proc[p] EXCEPT !.run = "serving"] ELSE None]
            /\ UNCHANGED <<births, file, cmd, overlap, killed>>

\* A process ends by itself, or after a signal.
Ends(p) == /\ proc[p] # None
           /\ proc' = [proc EXCEPT ![p] = None]
           /\ UNCHANGED <<births, file, cmd, overlap, killed>>

-----------------------------------------------------------------------------
(* The commands.  An error ends the whole command. *)

At(m, step) == cmd[m].step = step
Service(m) == Head(cmd[m].todo).service
Goto(m, step, seen) ==
    cmd' = [cmd EXCEPT ![m] = [step |-> step, todo |-> cmd[m].todo, seen |-> seen]]
Finish(m) == cmd' = [cmd EXCEPT ![m] =
                IF Len(cmd[m].todo) = 1 THEN Idle
                ELSE [step |-> "check", todo |-> Tail(cmd[m].todo), seen |-> None]]
Raise(m) == cmd' = [cmd EXCEPT ![m] = Idle]

Each(kind, list) == [k \in DOMAIN list |-> [kind |-> kind, service |-> list[k]]]
Backwards(list) == [k \in DOMAIN list |-> list[Len(list) + 1 - k]]
Restarts(list) == [k \in 1..(2 * Len(list)) |->
                     [kind |-> IF k % 2 = 1 THEN "stop" ELSE "start",
                      service |-> list[(k + 1) \div 2]]]

\* main: one service or all of them, stopped in the reverse order.
Command(m) ==
    /\ At(m, "idle")
    /\ \E list \in {<<s>> : s \in ServiceNames} \cup {Services} :
       \E todo \in {Each("start", list), Each("stop", Backwards(list)), Restarts(list)} :
          cmd' = [cmd EXCEPT ![m] = [step |-> "check", todo |-> todo, seen |-> None]]
    /\ overlap' = (overlap \/ \E n \in Managers \ {m} : ~At(n, "idle"))
    /\ UNCHANGED <<proc, births, file, killed>>

\* start_one and stop_one read the state file and look at the process it names.  A stale
\* file goes; a service is not started while anybody answers on its port.
Check(m) ==
    /\ At(m, "check")
    /\ LET s == Service(m)
           start == Head(cmd[m].todo).kind = "start"
       IN IF Managed(file[s], s)
          THEN /\ IF start THEN Finish(m) ELSE Goto(m, "term", file[s])
               /\ UNCHANGED file
          ELSE /\ file' = [file EXCEPT ![s] = None]
               /\ IF ~start THEN Finish(m)
                  ELSE IF Holding(s) # {} THEN Raise(m) ELSE Goto(m, "spawn", None)
    /\ UNCHANGED <<proc, births, overlap, killed>>

\* Popen, or it raises: no interpreter, no script, no process to be had.
Spawn(m) ==
    /\ At(m, "spawn")
    /\ \/ \E p \in Pids : /\ Born(p, Service(m), "loading")
                          /\ Goto(m, "record", [pid |-> p, birth |-> births + 1])
       \/ Raise(m) /\ UNCHANGED <<proc, births>>
    /\ UNCHANGED <<file, overlap, killed>>

\* The state file is written, unless the process is gone already.  With --no-wait that is
\* all.
Record(m) ==
    /\ At(m, "record")
    /\ IF ~Alive(cmd[m].seen) THEN Raise(m) /\ UNCHANGED file
       ELSE /\ file' = [file EXCEPT ![Service(m)] = cmd[m].seen]
            /\ Goto(m, "wait", None) \/ Finish(m)
    /\ UNCHANGED <<proc, births, overlap, killed>>

\* Until the service is healthy, or the process of the file is gone.
Wait(m) ==
    /\ At(m, "wait")
    /\ \/ ~Managed(file[Service(m)], Service(m)) /\ Raise(m)
       \/ Managed(file[Service(m)], Service(m)) /\ Serving(Service(m)) # {} /\ Finish(m)
    /\ UNCHANGED <<proc, births, file, overlap, killed>>

WaitTimesOut(m) == /\ At(m, "wait") /\ Raise(m)
                   /\ UNCHANGED <<proc, births, file, overlap, killed>>

\* os.kill; ProcessLookupError when the process is gone.
Signal(m, here, run, next) ==
    /\ At(m, here)
    /\ IF proc[cmd[m].seen.pid] = None THEN Raise(m) /\ UNCHANGED proc
       ELSE /\ proc' = [proc EXCEPT ![cmd[m].seen.pid].run = run]
            /\ Goto(m, next, cmd[m].seen)
    /\ UNCHANGED <<births, file, overlap, killed>>

Term(m) == Signal(m, "term", "terminating", "wait_term")
Kill(m) == Signal(m, "kill", "killed", "wait_kill")

Gone(m) ==
    /\ cmd[m].step \in {"wait_term", "wait_kill"}
    /\ ~Managed(cmd[m].seen, Service(m))
    /\ file' = [file EXCEPT ![Service(m)] = None] /\ Finish(m)
    /\ UNCHANGED <<proc, births, overlap, killed>>

\* --stop-timeout, and the 5 s after SIGKILL.
TermTimesOut(m) == /\ At(m, "wait_term") /\ Managed(cmd[m].seen, Service(m))
                   /\ Goto(m, "kill", cmd[m].seen)
                   /\ UNCHANGED <<proc, births, file, overlap, killed>>
\* (Faulty variant of KillTimesOut: the file goes although the process does not.)
KillForgets(m) == /\ At(m, "wait_kill") /\ Managed(cmd[m].seen, Service(m))
                  /\ file' = [file EXCEPT ![Service(m)] = None] /\ Finish(m)
                  /\ UNCHANGED <<proc, births, overlap, killed>>
KillTimesOut(m) == /\ At(m, "wait_kill") /\ Managed(cmd[m].seen, Service(m)) /\ Raise(m)
                   /\ UNCHANGED <<proc, births, file, overlap, killed>>

\* The command dies; the services are sessions of their own and live on.
Dies(m) == /\ ~At(m, "idle") /\ Raise(m) /\ killed' = TRUE
           /\ UNCHANGED <<proc, births, file, overlap>>

-----------------------------------------------------------------------------
Step(m) == \/ Check(m) \/ Spawn(m) \/ Record(m) \/ Wait(m) \/ WaitTimesOut(m)
           \/ Term(m) \/ Kill(m) \/ Gone(m) \/ TermTimesOut(m) \/ KillTimesOut(m)

ManagerNext == \/ \E m \in Managers : Command(m) \/ Step(m) \/ Dies(m)
               \/ \E p \in Pids : Foreign(p) \/ Loads(p) \/ Ends(p)

ManagerSpec == ManagerInit /\ [][ManagerNext]_managerVars

-----------------------------------------------------------------------------
(* Properties. *)

\* No service runs that nobody can stop: commands that come one after the other, and live
\* to their end, leave every process of a service named by its state file, whatever the
\* processes and the timeouts do.  So there is at most one of each.
NoOrphan ==
    ~overlap /\ ~killed =>
        \A p \in Pids : proc[p] # None /\ proc[p].program \in ServiceNames =>
            LET id == [pid |-> p, birth |-> proc[p].birth]
            IN \/ file[proc[p].program] = id
               \/ \E m \in Managers : At(m, "record") /\ cmd[m].seen = id

\* A signal only ever goes to a process that runs the script of the service that is being
\* stopped, and is the one its state file named: never to a program that has got the pid of
\* a dead service, also when commands overlap or were killed.
SignalsOwn ==
    [][\A p \in Pids :
          proc[p] # None /\ proc'[p] # None /\ proc'[p].run \in {"terminating", "killed"}
          /\ proc'[p] # proc[p] =>
              \E m \in Managers : /\ cmd[m].step \in {"term", "kill"}
                                  /\ cmd[m].seen = [pid |-> p, birth |-> proc[p].birth]
                                  /\ proc[p].program = Service(m)]_managerVars

=============================================================================
