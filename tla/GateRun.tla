-------------------------------- MODULE GateRun --------------------------------
(***************************************************************************)
(* The command line of the Fast Gate, scripts/fast_music_gate.py: it streams  *)
(* the inventory through the gate in buffers and appends each track to one of  *)
(* four files.  A run may be killed between any two rows, its last row torn;    *)
(* a run with --resume keeps what is whole, retries failures and refuses an     *)
(* input that changed.                                                        *)
(***************************************************************************)
EXTENDS CascadeGate

CONSTANTS Inventory,    \* the rows of the input: a sequence of tracks
          BufferSize,   \* --track-buffer-size
          MaxKills, MaxEdits

\* scan_inputs refuses an input that names a track twice.
ASSUME GateRunAssumption == /\ Inventory \in Seq(Tracks) /\ IsInjective(Inventory)
                              /\ BufferSize \in Nat \ {0}

VARIABLES running,    \* "stopped", "running", "refused" or "ended"
          position,   \* rows of the inventory read
          buffer,     \* the tracks being processed
          revision,   \* per track, which revision of its inventory row the input holds
          files,      \* per output, its rows
          kills, edits

runVars == <<running, position, buffer, revision, files, kills, edits>>
gateRunVars == <<gateVars, runVars>>

Outputs == {"accepted", "review", "rejected", "failures"}
Terminal == Outputs \ {"failures"}
Row(t) == [track |-> t, revision |-> revision[t], whole |-> TRUE]

RunInit == /\ GateInit
           /\ running = "stopped" /\ position = 0 /\ buffer = <<>>
           /\ revision = [t \in Tracks |-> 1]
           /\ files = [f \in Outputs |-> <<>>]
           /\ kills = 0 /\ edits = 0

WholeRows == {r \in UNION {Range(files[f]) : f \in Outputs} : r.whole}

\* (Faulty variant of LoadResume: the failures of earlier runs stay.)
LoadKeepingFailures == [f \in Outputs |-> Only(files[f], WholeRows)]
\* load_resume: a torn tail goes, failures are cleared.
LoadResume == [f \in Outputs |-> IF f = "failures" THEN <<>>
                                 ELSE Only(files[f], WholeRows)]

Rows(loaded) == UNION {Range(loaded[f]) : f \in Terminal}
Done(loaded) == {r.track : r \in Rows(loaded)}

\* load_resume raises on a track with two terminal rows.
Duplicated(loaded) == \/ \E f \in Terminal : ~ IsInjective([i \in DOMAIN loaded[f] |-> loaded[f][i].track])
                      \/ \E f, g \in Terminal : f # g /\ \E r \in Range(loaded[f]), q \in Range(loaded[g]) :
                                                             r.track = q.track
\* (Faulty variant of Changed: fingerprints are not compared.)
ChangedIgnored(loaded) == FALSE
\* scan_inputs raises when the row of a finished track changed.
Changed(loaded) == \E r \in Rows(loaded) : r.revision # revision[r.track]

\* main: without --resume the files are truncated.
StartRun(resume) ==
    LET loaded == IF resume THEN LoadResume ELSE [f \in Outputs |-> <<>>] IN
    /\ running # "running"
    /\ files' = loaded
    /\ running' = IF Duplicated(loaded) \/ Changed(loaded) THEN "refused"
                  ELSE IF Range(Inventory) \subseteq Done(loaded) THEN "ended" ELSE "running"
    /\ position' = 0 /\ buffer' = <<>>
    /\ answer' = [t \in Tracks |-> NoAnswer]
    /\ UNCHANGED <<stage, members, isolated, todo, waiting, submitted, completed, pendingBatch,
                   windows, decodes, cache, scoreA, gpuFailures, revision, kills, edits>>

SavedTracks == UNION {{r.track : r \in Range(files[f])} : f \in Outputs}
Unsaved == Range(buffer) \ SavedTracks

\* The next rows of the inventory without a terminal row: where they are.
Unread == {i \in DOMAIN Inventory : i > position /\ Inventory[i] \notin SavedTracks}
NextRows == {at \in {InOrder(Unread)} : at # <<>>}

FillBuffer ==
    /\ running = "running" /\ Unsaved = {} /\ stage = "idle"
    /\ \E at \in NextRows :
          LET size == IF Len(at) < BufferSize THEN Len(at) ELSE BufferSize IN
          /\ buffer' = [i \in 1..size |-> Inventory[at[i]]]
          /\ position' = at[size]
          /\ ProcessBatch([i \in 1..size |-> Inventory[at[i]]])
    /\ UNCHANGED <<running, revision, files, kills, edits>>

FileOf(verdict) == CASE verdict = "invalid_asset" -> "rejected"
                     [] verdict = "error" -> "failures"
                     [] OTHER -> verdict

\* save: rows are appended in the order of the buffer, an invalid inventory row first.
Answered == {t \in Unsaved : answer[t] # NoAnswer}
NextToSave == Head(Only(buffer, Answered \cap Unlisted) \o Only(buffer, Answered))
Appended(row) == [files EXCEPT ![FileOf(answer[row.track])] = Append(@, row)]

Save == /\ running = "running" /\ Answered # {}
        /\ files' = Appended(Row(NextToSave))
        /\ UNCHANGED <<gateVars, running, position, buffer, revision, kills, edits>>

\* The gate works on while no answer waits to be saved.
Gate == /\ running = "running"
        /\ Answered = {}
        /\ GateStep
        /\ UNCHANGED runVars

EndRun == /\ running = "running" /\ stage = "idle" /\ todo = <<>> /\ Unsaved = {}
          /\ \A i \in DOMAIN Inventory : i > position => Inventory[i] \in SavedTracks
          /\ running' = "ended"
          /\ UNCHANGED <<gateVars, position, buffer, revision, files, kills, edits>>

\* The process is killed; the row it was writing is torn.
Kill == /\ running = "running" /\ kills < MaxKills /\ kills' = kills + 1
        /\ running' = "stopped"
        /\ \/ files' = files
           \/ /\ Answered # {}
              /\ files' = Appended([Row(NextToSave) EXCEPT !.whole = FALSE])
        /\ Stop /\ todo' = <<>> /\ position' = 0 /\ buffer' = <<>>
        /\ members' = <<>> /\ isolated' = FALSE /\ windows' = [t \in Tracks |-> {}]
        /\ decodes' = [t \in Tracks |-> <<>>] /\ cache' = NoPosterior
        /\ scoreA' = [t \in Tracks |-> 0] /\ answer' = [t \in Tracks |-> NoAnswer]
        /\ UNCHANGED <<gpuFailures, revision, edits>>

\* Somebody edits the inventory between two runs.
Edit(t) == /\ running # "running" /\ edits < MaxEdits /\ edits' = edits + 1
           /\ revision' = [revision EXCEPT ![t] = 3 - @]
           /\ UNCHANGED <<gateVars, running, position, buffer, files, kills>>

RunStep == FillBuffer \/ Save \/ Gate \/ EndRun
GateRunNext == \/ \E resume \in BOOLEAN : StartRun(resume)
               \/ RunStep \/ Kill
               \/ \E t \in Tracks : Edit(t)
-----------------------------------------------------------------------------
RowsOf(t) == UNION {{f} \X {i \in DOMAIN files[f] : files[f][i].track = t} : f \in Outputs}
Expected(t) == IF t \in Unlisted \cup Undecodable THEN "rejected" ELSE Reference(t)

\* A run that ends leaves one whole row for each track of the inventory, of the row's current
\* revision, in the file of the track's own verdict or among the failures: whatever earlier runs
\* left, tore or were refused (fast_music_gate.py:325-398, 735-777).
Complete == \A t \in Range(Inventory) :
    \E where \in RowsOf(t) :
       /\ RowsOf(t) = {where}
       /\ files[where[1]][where[2]] = Row(t)
       /\ where[1] \in {Expected(t), "failures"}
EndsComplete == [][running' = "ended" /\ running # "ended" => Complete']_gateRunVars
=============================================================================
