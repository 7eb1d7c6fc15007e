------------------------------ MODULE RoutingRun ------------------------------
(***************************************************************************)
(* The first two stages from the command line: the operator runs the Fast     *)
(* Gate until it ends, then the Discogs stage over the rows it accepted, and    *)
(* runs either again whenever it pleases.  The input of the second stage is    *)
(* the file the first one writes.                                            *)
(***************************************************************************)
EXTENDS GateRun

CONSTANTS Frames, Broken, VocalScore, SongThreshold, InstrumentalThreshold,
          Workers, Prefetched, FrameBatch, BufferedFrames, MaxOrtFailures, MaxCrashes,
          MaxFaults   \* bound: kills, edits and failures of a behaviour

VARIABLES job, unread, pending, decoded, buffered, writing, records, ortFailures, crashes

Discogs == INSTANCE DiscogsRun WITH accepted <- files["accepted"]

ASSUME RoutingAssumption == Discogs!DiscogsAssumption /\ MaxFaults \in Nat

discogsVars == <<job, unread, pending, decoded, buffered, writing, records, ortFailures, crashes>>
routingVars == <<gateRunVars, discogsVars>>

RoutingInit == RunInit /\ Discogs!JobInit

StartGate == /\ job # "running" /\ \E resume \in BOOLEAN : StartRun(resume)
             /\ UNCHANGED discogsVars
GateWorks == (RunStep \/ Kill) /\ UNCHANGED discogsVars
EditInput == /\ job # "running" /\ \E t \in Tracks : Edit(t)
             /\ UNCHANGED discogsVars

StartDiscogs == /\ running = "ended" /\ UNCHANGED gateRunVars
                /\ \E resume \in BOOLEAN : Discogs!StartJob(resume)
DiscogsWorks == UNCHANGED gateRunVars /\ (Discogs!JobStep \/ Discogs!Crash)

Faults == kills + edits + gpuFailures + crashes + ortFailures
RoutingNext == /\ StartGate \/ GateWorks \/ EditInput \/ StartDiscogs \/ DiscogsWorks
               /\ Faults' <= MaxFaults

RoutingSpec == RoutingInit /\ [][RoutingNext]_routingVars

\* The programs and their threads go on; nothing makes the operator start or edit anything.
FairRoutingSpec == /\ RoutingSpec
                   /\ WF_routingVars(RunStep /\ UNCHANGED discogsVars)
                   /\ WF_routingVars(UNCHANGED gateRunVars /\ Discogs!JobStep)
-----------------------------------------------------------------------------
\* The routes of a finished Discogs run are those of the tracks the gate accepts now, though either
\* stage may have been run, killed, edited under and resumed before (discogs_mir_infer.py:520-547).
RoutesAreCurrent == [][job' = "done" /\ job # "done" => Discogs!Routing']_routingVars

\* Every started run comes to its end, unless it is killed: the bounded decoders and the main
\* thread never wait for each other (fast_gate_core.py:38-63, discogs_mir_infer.py:178-227).
RunsReturn == /\ running = "running" ~> running # "running"
              /\ job = "running" ~> job # "running"
=============================================================================
