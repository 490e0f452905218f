-------------------------- MODULE WritePipelineCalm --------------------------
(***************************************************************************)
(* WritePipeline once the disturbances are over: from some moment on, calm,*)
(* no process ends, no user or network changes and no connection breaks.   *)
(***************************************************************************)
EXTENDS WritePipeline

VARIABLE calm

CalmInit == Init /\ calm = FALSE

CalmDown == ~calm /\ calm' = TRUE /\ UNCHANGED vars

CalmNext ==
  \/ CalmDown
  \/ /\ ~client.aborted /\ UNCHANGED calm
     /\ Undisturbed \/ (~calm /\ Disturbance)

\* The worker queue has a task, or the server a message to answer.
ClientReady ==
  /\ ~client.aborted
  /\ \/ client.requests # {} \/ "backoff" \in client.timers
     \/ client.hello = "answered" \/ client.down # <<>> \/ client.status # None

ServerReady ==
  ~client.aborted /\ CallIsUp /\ (client.hello = "sent" \/ client.up # <<>>)

(***************************************************************************)
(* The worker queue runs its tasks, a token request is answered, a timer   *)
(* goes off and the server answers: weak fairness of ClientTask and of     *)
(* ServerStep, with ENABLED spelled out as ClientReady and ServerReady.    *)
(***************************************************************************)
FairSpec ==
  /\ CalmInit /\ [][CalmNext]_<<vars, calm>>
  /\ []<>(~ClientReady) \/ []<><<ClientTask>>_vars
  /\ []<>(~ServerReady) \/ []<><<ServerStep>>_vars

(***************************************************************************)
(* Once nothing disturbs the client any more, the writes of the user who   *)
(* is signed in are all answered, if the network is in use: no order of    *)
(* closes, token requests and timers leaves the stream stuck.              *)
(***************************************************************************)
QueueDrains ==
  calm ~> (client.networkEnabled => client.queues[client.user] = <<>>)
==============================================================================
