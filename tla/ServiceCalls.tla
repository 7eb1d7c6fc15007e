----------------------------- MODULE ServiceCalls -----------------------------
(***************************************************************************)
(* The callers of one resident service: the thread pool of                  *)
(* scripts/service_batch_infer.py, whose threads run _infer_one, and the     *)
(* retry loop of scripts/service_client.py under it, composed with the       *)
(* service of BatchService.                                                  *)
(*                                                                         *)
(* A thread is a connection of the service.  There are two retry loops, one   *)
(* in the other: _json_request repeats an attempt that met a retryable code   *)
(* or a lost connection, _infer_one any call that raised, with a pause.  The  *)
(* batch runner turns the first off, the streaming runner has no second.     *)
(***************************************************************************)
EXTENDS BatchService

CONSTANTS Inputs,         \* what the runner may be asked for: sets of requests
          ClientRetries,  \* retries of ServiceClient
          RunnerRetries,  \* --retries of service_batch_infer
          MaxRuns         \* runs of the batch runner over the same input (bound)

CallsAssumption == /\ Inputs \subseteq SUBSET Requests
                   /\ ClientRetries \in Nat /\ RunnerRetries \in Nat /\ MaxRuns \in Nat \ {0}
ASSUME CallsAssumption

VARIABLES input,    \* the requests of the runner's input file
          call,     \* what each thread is doing: a request, its attempt and its round
          todo,     \* requests of this run that no thread has taken
          values,   \* what this run has for each request
          written,  \* what the output file has
          alive,    \* does the runner's process live?
          runs      \* runs started (bound)

runner == <<input, call, todo, values, written, alive, runs>>
callVars == <<vars, runner>>

Call == [request : Requests, step : {"send", "wait"},
         attempt : 0..ClientRetries, round : 0..RunnerRetries]
\* The record of an answer, or _failure_record of a call that raised: no answer.
Outcome == [answer : Answer \cup {None}]

NoOutcome == [answer |-> None]
Succeeded(outcome) == outcome # NoOutcome /\ outcome.answer.ok

\* (Faulty variant of Reused: what the file has is neither asked again nor taken over.)
ReusedNothing(file) == [r \in Requests |-> NoOutcome]
\* _reusable: only a finished success is taken from the file.
Reused(file) == [r \in Requests |-> IF Succeeded(file[r]) THEN file[r] ELSE NoOutcome]
Pending(file) == {r \in input : ~Succeeded(file[r])}

CallInit == /\ Init
            /\ input \in Inputs /\ todo = input
            /\ call = [c \in Clients |-> None]
            /\ values = [r \in Requests |-> NoOutcome]
            /\ written = [r \in Requests |-> NoOutcome]
            /\ alive = TRUE /\ runs = 1

-----------------------------------------------------------------------------
(* A thread of the pool. *)

\* The pool gives an idle thread the next request.
Begin(c) == /\ alive /\ call[c] = None
            /\ \E r \in todo :
                  /\ todo' = todo \ {r}
                  /\ call' = [call EXCEPT ![c] =
                                [request |-> r, step |-> "send", attempt |-> 0, round |-> 0]]
            /\ UNCHANGED <<vars, input, values, written, alive, runs>>

\* opener.open: the request reaches the service.
Send(c) == /\ alive /\ call[c] # None /\ call[c].step = "send"
           /\ Submit(c, call[c].request)
           /\ call' = [call EXCEPT ![c] = [request |-> call[c].request, step |-> "wait",
                                           attempt |-> call[c].attempt, round |-> call[c].round]]
           /\ UNCHANGED <<input, todo, values, written, alive, runs>>

\* The thread is done with its request.
Return(c, answer) ==
    /\ call' = [call EXCEPT ![c] = None]
    /\ values' = [values EXCEPT ![call[c].request] = [answer |-> answer]]

Repeat(c, attempt, round) ==
    /\ call' = [call EXCEPT ![c] = [request |-> call[c].request, step |-> "send",
                                    attempt |-> attempt, round |-> round]]
    /\ UNCHANGED values

\* (Faulty variant of Raised: the count of the rounds starts over.)
RaisedForEver(c) == IF RunnerRetries > 0 THEN Repeat(c, 0, 0) ELSE Return(c, None)
\* The service may or may not know of the request of a connection that ends.
Hangup(c) == \/ GiveUp(c)
             \/ Open(c) /\ UNCHANGED vars

\* The call raised: the next round of _infer_one, or a failure record.
Raised(c) == IF call[c].round < RunnerRetries THEN Repeat(c, 0, call[c].round + 1)
             ELSE Return(c, None)

\* A retryable code or a lost connection: the next attempt of _json_request.
Retried(c) == IF call[c].attempt < ClientRetries
              THEN Repeat(c, call[c].attempt + 1, call[c].round)
              ELSE Raised(c)

Waits(c) == alive /\ call[c] # None /\ call[c].step = "wait"

\* (Faulty variant of Receive: the response of an earlier attempt is taken for the answer.)
ReceiveAny(c) == /\ alive /\ call[c] # None /\ reply[c] # None
                 /\ CASE reply[c].code = 200 -> Return(c, reply[c].answer)
                      [] reply[c].code \in {429, 503} -> Retried(c)
                      [] OTHER -> Raised(c)
                 /\ UNCHANGED <<vars, input, todo, written, alive, runs>>
\* An answer that reports an error raises ServiceInferenceError, which no loop repeats: it
\* is the outcome, like a good answer.
Receive(c) == /\ Waits(c) /\ Open(c) /\ reply[c] # None
              /\ CASE reply[c].code = 200 -> Return(c, reply[c].answer)
                   [] reply[c].code \in {429, 503} -> Retried(c)
                   [] OTHER -> Raised(c)
              /\ UNCHANGED <<vars, input, todo, written, alive, runs>>

\* The connection is lost or the timeout is over, before or after the answer was sent.
Lose(c) == /\ Waits(c)
           /\ Hangup(c)
           /\ Retried(c)
           /\ UNCHANGED <<input, todo, written, alive, runs>>

-----------------------------------------------------------------------------
(* The runner's process: _write_outputs at the end, resume at the start. *)

Idle == \A c \in Clients : call[c] = None

Write == /\ alive /\ todo = {} /\ Idle
         /\ written' = values /\ alive' = FALSE
         /\ UNCHANGED <<vars, input, call, todo, values, runs>>

Die == /\ alive
       /\ alive' = FALSE
       /\ UNCHANGED <<vars, input, call, todo, values, written, runs>>

\* The connections of a dead process close one after the other.
Close(c) == /\ ~alive /\ call[c] # None
            /\ Hangup(c)
            /\ call' = [call EXCEPT ![c] = None]
            /\ UNCHANGED <<input, todo, values, written, alive, runs>>

RunAgain == /\ ~alive /\ Idle /\ runs < MaxRuns
            /\ alive' = TRUE /\ runs' = runs + 1
            /\ values' = Reused(written) /\ todo' = Pending(written)
            /\ UNCHANGED <<vars, input, call, written>>

-----------------------------------------------------------------------------
Service == \/ Start \/ Loaded \/ LoadFails \/ Stop \/ StopUnnoticed \/ Stopping \/ Worker

Thread(c) == Begin(c) \/ Send(c) \/ Receive(c)

CallNext == \/ Service /\ UNCHANGED runner
            \/ \E c \in Clients : Thread(c) \/ Lose(c) \/ Close(c)
            \/ Write \/ Die \/ RunAgain

CallSpec == CallInit /\ [][CallNext]_callVars

\* The service's fairness, and threads that run.
FairCallSpec == /\ CallSpec
                /\ WF_callVars(Worker /\ UNCHANGED runner)
                /\ WF_callVars(Stopping /\ UNCHANGED runner)
                /\ \A c \in Clients : WF_callVars(Thread(c)) /\ WF_callVars(Close(c))
                /\ WF_callVars(Write)

-----------------------------------------------------------------------------
(* Properties. *)

\* What the runner keeps for a request, in memory or in its file, is the service's answer
\* to exactly that request, however many attempts, lost replies and runs it took.
OutcomesAreTrue ==
    \A r \in Requests : \A outcome \in {values[r], written[r]} :
        outcome # NoOutcome => outcome.answer.about = r.payload

\* A success that was written is in every later file: a rerun neither loses it nor asks
\* for it again.
SuccessIsKept ==
    [][\A r \in Requests : Succeeded(written[r]) => written'[r] = written[r]]_callVars

\* A runner's process ends: every call does, whatever the service answers or loses, and
\* also when it stops or never starts.
EveryRunnerEnds == alive ~> ~alive
=============================================================================
