------------------------------ MODULE Shutdown ------------------------------
(***************************************************************************)
(* How main ends (main.rs): on a signal the listener closes and the        *)
(* connections finish what they are doing; after a timeout main returns in *)
(* any case. The runtime then drops the tasks that are left, whose guards  *)
(* queue their transition, and the process ends without a look at the      *)
(* queue of the store's actor.                                             *)
(*                                                                         *)
(* To Responses a task that the runtime drops is one whose client leaves,  *)
(* and the end of the process is a crash at a time when no task is left.   *)
(***************************************************************************)
EXTENDS Responses

VARIABLES
    gateway,    \* "serving", "draining" after the signal, "stopping" once main is past its
                \* select!, "exited"
    drained,    \* history: did the server end before the timeout?
    cut         \* history: the requests whose tasks the runtime dropped

mainVars == <<gateway, drained, cut>>
shutdownVars == <<vars, mainVars>>

\* Clients may leave wherever a task awaits; main returns once.
ASSUME ShutdownAssumption == MayDisconnect = Places

-----------------------------------------------------------------------------
Active(r) == pc[r] \in InHandler \cup InStream

\* Mutated form: a response whose body is a stream counts as answered.
IdleButForStreams == \A r \in Requests : pc[r] \notin InHandler

\* axum::serve waits for every connection, a connection for its response with all of its body.
Idle == \A r \in Requests : ~Active(r)

\* A request that is on its way when the signal comes may still be received.
Accepts == gateway \in {"serving", "draining"}

\* What requests, clients and the store do, as long as there is a process.
Work ==
    /\ gateway # "exited"
    /\ \/ \E r \in Requests : \/ Accepts /\ Receive(r)
                              \/ TaskStep(r) \/ Emit(r) \/ UpstreamEventHandled(r)
                              \/ CloseStream(r) \/ Disconnect(r)
                              \/ Accepts /\ RequestDelete(r)
       \/ StoreStep
       \/ ActorEnds
    /\ UNCHANGED mainVars

\* SIGTERM or Ctrl-C.
Signal ==
    /\ gateway = "serving"
    /\ gateway' = "draining"
    /\ UNCHANGED <<vars, drained, cut>>

\* The server's future is done.
Drained ==
    /\ gateway = "draining"
    /\ Idle
    /\ gateway' = "stopping"
    /\ drained' = TRUE
    /\ UNCHANGED <<vars, cut>>

\* Mutated form: main waits for the server alone.
NoTimer == FALSE

\* tokio::time::timeout looks at the server first, then at its timer.
Timer == ~Idle

\* graceful_shutdown_timeout_secs are over.
TimeOut ==
    /\ gateway = "draining"
    /\ Timer
    /\ gateway' = "stopping"
    /\ UNCHANGED <<vars, drained, cut>>

\* Mutated form: the task is gone and its guard does not run.
AbortTask(r) ==
    /\ Active(r)
    /\ Taken(r)
    /\ Goto(r, "dropped")
    /\ UNCHANGED <<row, log, mailbox, actor, deleted,
                   mode, pending, sequence, snapshot, client, answer, crashes>>

\* main has returned: #[tokio::main] drops the runtime and with it the task.
DropTask(r) == Disconnect(r)

Cut(r) ==
    /\ gateway = "stopping"
    /\ DropTask(r)
    /\ cut' = cut \cup {r}
    /\ UNCHANGED <<gateway, drained>>

\* The process ends with its last task, whatever the actor has in its queue.
Exit ==
    /\ gateway = "stopping"
    /\ Idle
    /\ Crash
    /\ gateway' = "exited"
    /\ UNCHANGED <<drained, cut>>

-----------------------------------------------------------------------------
ShutdownInit ==
    /\ Init
    /\ gateway = "serving"
    /\ drained = FALSE
    /\ cut = {}

ShutdownNext ==
    \/ Work
    \/ Signal \/ Drained \/ TimeOut
    \/ \E r \in Requests : Cut(r)
    \/ Exit

ShutdownSpec == ShutdownInit /\ [][ShutdownNext]_shutdownVars

\* The timer runs out, the runtime drops what is left and the process ends; no request, upstream
\* or store has to do anything for it.
ShutdownFairness ==
    /\ WF_shutdownVars(Drained) /\ WF_shutdownVars(TimeOut) /\ WF_shutdownVars(Exit)
    /\ \A r \in Requests : WF_shutdownVars(Cut(r))

FairShutdownSpec == ShutdownSpec /\ ShutdownFairness

-----------------------------------------------------------------------------
\* The history variables say what they are for: what was cut is over, and nothing is before main
\* returns.
ShutdownTypeOK ==
    /\ gateway \in {"serving", "draining", "stopping", "exited"}
    /\ drained \in BOOLEAN
    /\ cut \subseteq Requests
    /\ drained \/ cut # {} => gateway \in {"stopping", "exited"}
    /\ \A r \in cut : pc[r] = "dropped"

\* The store refused something of this request, and its client was told.
WasRefused(r) ==
    \/ answer[r] = "error"
    \/ \E k \in DOMAIN client[r] : client[r][k].lost

\* A shutdown within the timeout costs nothing: no answer is cut, and when the process is gone no
\* record is left in progress but those whose client had left or whose writes the store refused.
OrderlyShutdown ==
    gateway = "exited" /\ drained =>
        /\ cut = {}
        /\ \A r \in Requests :
              row[r].status = "in_progress" => pc[r] = "dropped" \/ WasRefused(r)

\* A shutdown is nothing that Responses does not know: what holds of Responses holds throughout.
ImplementsResponses == Spec

\* After the signal the process ends, even if a stream or the store never does.
ShutdownEnds == gateway = "draining" ~> gateway = "exited"
=============================================================================
