------------------------------ MODULE JobStreams ------------------------------
(***************************************************************************)
(* The SSE handlers over the job queue: StreamInvestmentPlan, StreamAnalysis *)
(* and StreamEvaluationChat of handlers/ai/handler.go and                  *)
(* StreamDecisionMemoProgress of handlers/discover/memo.go.  Each request  *)
(* subscribes to its job and forwards the events to one client.            *)
(*                                                                         *)
(* Plan, market and memo streams only watch a job.  A chat stream runs the *)
(* job itself: a goroutine calls the chat agent, and it and the request    *)
(* loop call Complete and Fail.  No handler looks at the type of the job   *)
(* it is asked for, so a chat stream may end a job that a worker runs.     *)
(* The progress the chat agent sends to the client, and the 100 places of  *)
(* its event channel, are not modelled.                                    *)
(***************************************************************************)
EXTENDS WorkerPool

CONSTANTS
    Streams,      \* stream requests; the channel of a request bears its name
    Kind,         \* which of the four handlers serves the request
    Asks          \* the jobId in the URL of the request

ASSUME StreamConstants ==
    /\ Streams = Channels
    /\ Asks \in [Streams -> Jobs]
    /\ Kind \in [Streams -> {"plan", "market", "memo", "chat"}]

VARIABLES
    stream,       \* of each request: the job, its progress, what the client was told
    agent         \* the chat agent's goroutine of each chat request

streamVars == <<stream, agent>>
allVars    == <<vars, streamVars>>

\* What a client is told last: nothing yet, the job is completed (and whether the
\* result came along), it failed, the stream timed out, or the stream just ended.
Told == {"nothing", "completed", "completed without result", "failed", "timed out", "silence"}

\* early: the job was still waiting or running when the request subscribed.
Unopened == [pc |-> "unopened", job |-> NoJob, told |-> "nothing", early |-> FALSE]

\* "working": the agent is streaming; "failing": it has sent an error event and
\* the goroutine is about to call Fail.
AgentState == {"none", "working", "complete", "failing", "failed"}

StreamTypeOK ==
    /\ stream \in [Streams -> [pc : {"unopened", "open", "over"}, job : Jobs \cup {NoJob},
                               told : Told, early : BOOLEAN]]
    /\ agent \in [Streams -> AgentState]

StreamInit ==
    /\ Init
    /\ stream = [s \in Streams |-> Unopened]
    /\ agent = [s \in Streams |-> "none"]

Open(s)  == stream[s].pc = "open"
JobOf(s) == stream[s].job

\* The jobs that no chat stream is opened for.
Quiet == Jobs \ {Asks[s] : s \in {r \in Streams : Kind[r] = "chat"}}

\* The handler returns; the subscription is left behind, as there is no Unsubscribe.
EndStream(s, told) == stream' = [stream EXCEPT ![s].pc = "over", ![s].told = told]

-------------------------------------------------------------------------------
(* Streams that watch *)

\* The chat handler looks the job up first; the others subscribe to any id.
OpenStream(s, j) ==
    /\ stream[s].pc = "unopened"
    /\ j = Asks[s] /\ j \in issued
    /\ Kind[s] = "chat" => status[j] # "absent"
    /\ Subscribe(j, s)
    /\ stream' = [stream EXCEPT ![s] =
                    [pc |-> "open", job |-> j, told |-> "nothing",
                     early |-> ~closed /\ status[j] \in {"pending", "processing"}]]
    /\ agent' = IF Kind[s] = "chat" THEN [agent EXCEPT ![s] = "working"] ELSE agent
    /\ UNCHANGED poolVars

\* Takes the next event out of the channel.
Pop(s) ==
    /\ Open(s)
    /\ chan[s].buf # <<>>
    /\ chan' = [chan EXCEPT ![s].buf = Tail(@)]
    /\ UNCHANGED <<jobVars, subscribers, closed, poolVars, agent>>

\* Plan and market streams end at the events "completed" and "failed".
EndsAt(s, e) == Kind[s] \in {"plan", "market"} /\ e.stage \in Final

\* Any other event is shown as progress.  A memo stream shows them all.
ShowProgress(s) ==
    /\ Pop(s)
    /\ ~EndsAt(s, Head(chan[s].buf))
    /\ UNCHANGED stream

ShowOutcome(s) ==
    /\ Pop(s)
    /\ LET e == Head(chan[s].buf)
       IN  /\ EndsAt(s, e)
           /\ EndStream(s, IF e.stage = "failed" THEN "failed"
                           ELSE IF e.data THEN "completed" ELSE "completed without result")

\* Mutant of SeeClosed: the status of the result is not looked at.
SeeClosedAnyResult(s) ==
    /\ Open(s) /\ Kind[s] # "chat"
    /\ chan[s].closed /\ chan[s].buf = <<>>
    /\ EndStream(s, IF results[JobOf(s)] # "none" THEN "completed" ELSE "silence")
    /\ UNCHANGED <<vars, agent>>

\* The channel is closed and drained: GetResult has the last word.  Plan and
\* market streams say nothing of a failure here, a memo stream calls everything
\* but a completed result an error.
SeeClosed(s) ==
    /\ Open(s) /\ Kind[s] # "chat"
    /\ chan[s].closed /\ chan[s].buf = <<>>
    /\ EndStream(s, CASE results[JobOf(s)] = "completed" -> "completed"
                      [] Kind[s] = "memo" -> "failed"
                      [] OTHER -> "silence")
    /\ UNCHANGED <<vars, agent>>

\* Only the plan stream has a timeout, of 8 to 15 minutes.
Timeout(s) ==
    /\ Open(s) /\ Kind[s] = "plan"
    /\ EndStream(s, "timed out")
    /\ UNCHANGED <<vars, agent>>

\* Mutant of Disconnect: a chat handler whose client leaves fails the job, for another try.
DisconnectFails(s) ==
    /\ Open(s)
    /\ IF Kind[s] = "chat" THEN Fail(JobOf(s)) \/ NotFound(JobOf(s)) ELSE UNCHANGED queueVars
    /\ EndStream(s, "silence")
    /\ UNCHANGED <<poolVars, agent>>

\* The client leaves.  The agent's goroutine goes on, and nobody tells the queue.
Disconnect(s) ==
    /\ Open(s)
    /\ EndStream(s, "silence")
    /\ UNCHANGED <<vars, agent>>

-------------------------------------------------------------------------------
(* The chat stream *)

\* chatAgent.Stream queues its last event: "complete", or "error" before it
\* returns an error.
AgentEnds(s) ==
    /\ agent[s] = "working"
    /\ \E end \in {"complete", "failing"} : agent' = [agent EXCEPT ![s] = end]
    /\ UNCHANGED <<vars, stream>>

\* The goroutine that called Stream reports its error, whoever is still listening.
AgentFails(s) ==
    /\ agent[s] = "failing"
    /\ Fail(JobOf(s)) \/ NotFound(JobOf(s))
    /\ agent' = [agent EXCEPT ![s] = "failed"]
    /\ UNCHANGED <<poolVars, stream>>

ChatComplete(s) ==
    /\ Open(s) /\ agent[s] = "complete"
    /\ Complete(JobOf(s)) \/ NotFound(JobOf(s))
    /\ EndStream(s, "completed")
    /\ UNCHANGED <<poolVars, agent>>

\* The request loop reads the error event, and fails the job a second time.
ChatError(s) ==
    /\ Open(s) /\ agent[s] \in {"failing", "failed"}
    /\ Fail(JobOf(s)) \/ NotFound(JobOf(s))
    /\ EndStream(s, "failed")
    /\ UNCHANGED <<poolVars, agent>>

-------------------------------------------------------------------------------
StreamStep(s) ==
    \/ \E j \in Jobs : OpenStream(s, j)
    \/ ShowProgress(s) \/ ShowOutcome(s) \/ SeeClosed(s)
    \/ Timeout(s) \/ Disconnect(s)
    \/ AgentEnds(s) \/ AgentFails(s) \/ ChatComplete(s) \/ ChatError(s)

StreamNext ==
    \/ (PoolStep \/ Client) /\ UNCHANGED streamVars
    \/ \E s \in Streams : StreamStep(s)

StreamSpec == StreamInit /\ [][StreamNext]_allVars

\* The select of a stream wakes up for every event and for the close, and timers
\* fire.  Nothing is assumed of the client's connection.
StreamFairness ==
    /\ Fairness
    /\ \A s \in Streams : /\ WF_allVars(ShowProgress(s) \/ ShowOutcome(s) \/ SeeClosed(s))
                          /\ WF_allVars(Timeout(s))

FairStreamSpec == StreamSpec /\ StreamFairness

-------------------------------------------------------------------------------
(* Properties *)

\* Nobody who subscribed while the job was waiting or running is left with an
\* open channel once the job is over or gone: every way out of Complete, Fail,
\* Cancel, Delete and Close closes the channels (queue.go), and a retry does not.
EarlyChannelClosed ==
    \A s \in Streams :
        stream[s].early /\ ~chan[s].closed => /\ ~closed
                                              /\ status[JobOf(s)] \in {"pending", "processing"}

\* The variables keep their types, and no early subscriber is left behind.
ChannelsSound == StreamTypeOK /\ EarlyChannelClosed

\* What the client is told is true: a stream says "completed" with a result only
\* of a job that has completed, and "failed" only of one that has failed, unless
\* the job was deleted or, for a memo, cancelled.  Events that overtake one another
\* or fall out of a full buffer do not change that; only a chat stream of the same job
\* may, for it ends a job that is over once more.
ToldTheTruth ==
    \A s \in Streams : JobOf(s) \in Quiet =>
        /\ Kind[s] # "chat" /\ stream[s].told = "completed"
              => status[JobOf(s)] \in {"completed", "absent"}
        /\ Kind[s] \in {"plan", "market"} /\ stream[s].told = "failed"
              => status[JobOf(s)] \in {"failed", "absent"}

\* The workers that run job j.
Holders(j) == {w \in Workers : Busy(w) /\ worker[w].job = j}

\* The places of j in the slice and in workers' hands.
Entries(j) == {i \in DOMAIN pending : pending[i] = j}
Places(j)  == Cardinality(Entries(j)) + Cardinality(Holders(j))

\* How often chat streams failed j: the goroutine of each may do so, and its loop.
Chats(j)     == {s \in Streams : Kind[s] = "chat" /\ JobOf(s) = j}
AgentFailed(j) == {s \in Chats(j) : agent[s] = "failed"}
LoopFailed(j)  == {s \in Chats(j) : stream[s].told = "failed"}
ChatFails(j)   == Cardinality(AgentFailed(j)) + Cardinality(LoopFailed(j))

\* A job has one place, in the slice or with a worker, and one more for each time a chat
\* stream fails it; nor is it started more often than the retries allow and chat streams
\* fail it.  Requests that reconnect, finish or just leave add neither, although no
\* handler asks who else runs the job, or whether it is over (StreamEvaluationChat).
ReconnectsAccounted ==
    \A j \in Jobs : /\ Places(j) <= 1 + ChatFails(j)
                    /\ attempts[j] <= MaxRetries + ChatFails(j)

\* Whatever the chat streams do to the jobs they are opened for, any other job is in the
\* slice at most once, and never while a worker holds it.
QuietOnce ==
    \A j \in Quiet :
        /\ Cardinality(Entries(j)) <= 1
        /\ j \in Held => \A i \in DOMAIN pending : pending[i] # j
        /\ \A v, w \in BusySet : worker[v].job = j /\ worker[w].job = j => v = w

\* A job that no chat stream is opened for keeps its final status until it is deleted,
\* although streams open, end and time out around it.
QuietFinalStays ==
    [][\A j \in Quiet : status[j] \in Final => status'[j] \in {status[j], "absent"}]_allVars

\* A market or memo stream has no timeout, yet when it was opened before its job was
\* over it comes to an end, whatever happens to the job and even if the server
\* shuts down (StreamAnalysis, StreamDecisionMemoProgress).  The job is one that a worker
\* runs.
EarlyStreamEnds ==
    \A s \in Streams : Asks[s] \in HandledJobs =>
        Open(s) /\ Kind[s] \in {"market", "memo"} /\ stream[s].early ~> stream[s].pc = "over"

\* Beside chat streams and the jobs they are opened for, the other jobs still live on the
\* abstract job board: they wait, are started in their order, and end as JobLifecycle says.
Board == INSTANCE JobLifecycle WITH
    Jobs <- Quiet,
    state <- [j \in Quiet |-> status[j]], runs <- [j \in Quiet |-> attempts[j]],
    running <- Held \cap Quiet,
    MaxRuns <- MaxRetries, Slots <- Cardinality(Workers)

RefinesBoard == Board!Spec

-------------------------------------------------------------------------------
(* The inductive invariant *)

\* The slice s lists j at one place at most.
Once(s, j) == \A i, k \in DOMAIN s : s[i] = j /\ s[k] = j => i = k

\* What is left of the pool's invariant for a job that no chat stream touches: it
\* waits where its status says it does, and one worker at most runs it.
JobSound(j) ==
    /\ Once(pending, j)
    /\ status[j] = "pending" <=> j \in Elems(pending)
    /\ \A v, w \in Holders(j) : v = w
    /\ Holders(j) # {} => j \in issued /\ status[j] \in {"processing", "cancelled", "absent"}
    /\ results[j] = IF status[j] \in Final THEN status[j] ELSE "none"
    /\ j \notin issued => status[j] = "absent"

\* A stream handler keeps to the job it was opened for, and only a chat handler has
\* an agent.
StreamJobs ==
    \A s \in Streams :
        /\ IF stream[s].pc = "unopened" THEN stream[s] = Unopened
           ELSE JobOf(s) = Asks[s] /\ JobOf(s) \in issued
        /\ agent[s] # "none" => Kind[s] = "chat" /\ stream[s].pc # "unopened"

SoundInv ==
    /\ TypeOK /\ StreamTypeOK
    /\ StreamJobs
    /\ \A j \in Quiet : JobSound(j)

\* What the board needs beyond that: the order of the slice, and the runs that a waiting
\* job has left.
BoardInv ==
    /\ Sorted(pending)
    /\ \A j \in Quiet :
          /\ status[j] = "pending" => attempts[j] < MaxRetries
          /\ j \notin issued => attempts[j] = 0

\* What is kept of every job: one that was not accepted has no place and no run, and the
\* places in the slice are runs to come, which count as those that were started.
PlacesOf(j) ==
    /\ Places(j) <= 1 + ChatFails(j)
    /\ attempts[j] + Cardinality(Entries(j)) <= MaxRetries + ChatFails(j)
    /\ j \notin issued => Places(j) = 0 /\ attempts[j] = 0

\* A request tells its outcome once.
PlacesInv ==
    /\ \A j \in Jobs : PlacesOf(j) /\ IsFiniteSet(Chats(j))
    /\ \A s \in Streams : Open(s) => stream[s].told = "nothing"

\* A request that came in time is registered for its job, which is not over, until
\* its channel is closed.
Attended(s, j) ==
    \/ chan[s].closed
    \/ s \in subscribers[j] /\ ~closed /\ status[j] \in {"pending", "processing"}

EarlyAttended == \A s \in Streams : stream[s].early => Attended(s, JobOf(s))

\* A channel is registered for the job of its request only, and holds nothing before.
OwnChannel ==
    \A s \in Streams :
        /\ stream[s].pc = "unopened" => chan[s].buf = <<>>
        /\ \A j \in Jobs : s \in subscribers[j] => stream[s].pc # "unopened" /\ JobOf(s) = j

\* May a job of this status have sent event e?  Progress proves nothing, nor does the
\* stage "completed" that a plan reports before Complete is called.
Bears(st, e) ==
    /\ e.stage = "completed" /\ e.data => st \in {"completed", "absent"}
    /\ e.stage = "failed" => st \in {"failed", "absent"}

\* Every event still in a channel is true of the job as it is now.
EventsTrue ==
    \A s \in Streams : stream[s].pc # "unopened" /\ JobOf(s) \in Quiet =>
        \A i \in DOMAIN chan[s].buf : Bears(status[JobOf(s)], chan[s].buf[i])

\* No handler reports the stage "failed".
FwdStages == \A j \in Jobs : \A i \in DOMAIN fwd[j] : fwd[j][i] # "failed"

TruthInv == OwnChannel /\ EventsTrue /\ FwdStages /\ ToldTheTruth

-------------------------------------------------------------------------------
(* Claims of the comments, which the code does not keep *)

\* handler.go, streamInvestmentPlanByID: "Send completion in www_v1 format
\* (unnamed event with status + plan)".  A client told COMPLETED gets the plan.
CompletedCarriesPlan ==
    \A s \in Streams : Kind[s] = "plan" => stream[s].told # "completed without result"

\* memo.go: "Job may already be complete", and then the result is sent.  A memo
\* stream of a completed job comes to an end.
LateMemoStreamEnds ==
    \A s \in Streams, j \in Jobs :
        Open(s) /\ Kind[s] = "memo" /\ JobOf(s) = j /\ status[j] = "completed"
            ~> stream[s].pc = "over" \/ status[j] = "absent"
===============================================================================
