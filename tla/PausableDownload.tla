-------------------------- MODULE PausableDownload --------------------------
(* One download of the asynchronous client whose consumer may pause it       *)
(* (AsyncEvent.h; AsyncHttpClient.cpp, writeCallback, processPausedRequest,  *)
(* waitForWorkOrResume and their callees).                                   *)
(*                                                                           *)
(* libcurl hands the body to writeCallback; a callback that answers PAUSE is *)
(* given the same bytes again when the transfer is continued. The consumer   *)
(* may take only some of them and call Pause or PauseFor; the rest is kept   *)
(* in a backlog that the worker drains from its paused queue. Other threads  *)
(* call Resume, Fail and Pause on the event; each call is several atomic     *)
(* stores, made one at a time.                                               *)
EXTENDS Integers, Sequences, FiniteSetsExt

CONSTANTS
  Length,       \* units of the body
  MaxBlock,     \* units libcurl hands over at once
  MaxPauses,    \* bound: pauses the consumer, a limiter or a thread asks for
  MaxFaults     \* bound: failures, of the consumer, the network or by Fail

ASSUME PausableAssumption ==
  /\ Length \in Nat /\ MaxBlock \in Nat \ {0}
  /\ MaxPauses \in Nat /\ MaxFaults \in Nat

VARIABLES
  \* AsyncEvent
  state,      \* state_
  due,        \* resume_at_ms_ is in the future
  failed,     \* failed_
  gen,        \* pause_generation_
  pauser,     \* history: the thread that stored Stopping last
  \* libcurl
  accepted,   \* units writeCallback answered for
  paused,     \* CURLPAUSE_RECV
  \* RequestContext
  skip,       \* needSkip
  backlog,    \* cached_buffer_queue_: the units from at, len of them
  qos,        \* qos_resume_at_ms is in the future
  queued,     \* in_paused_queue, and the request is in paused_queue_
  error,      \* callback_error
  result,     \* "none", or what the request is finished with
  \* the threads
  delivered,  \* units the consumer took
  pc,         \* where the worker is
  call,       \* the call of the consumer the worker is in
  timer,      \* the worker sleeps until a deadline: "off", "set", "fired"
  wake,       \* the worker's eventfd is not zero
  todo,       \* the stores a thread has yet to make to the event
  pauses, faults

event   == <<state, due, failed, gen, pauser>>
context == <<skip, backlog, qos, queued, error, result>>
bounds  == <<pauses, faults>>
vars    == <<event, accepted, paused, context, delivered, pc, call, timer, wake, todo, bounds>>

Threads == {"worker", "user"}

(* The stores of AsyncEvent's operations, in their order.                    *)
Pause    == <<"Stopping", "generation", "notify">>
PauseFor == <<"deadline", "Waiting", "generation", "notify">>
Resume   == <<"no deadline", "Resumed", "notify">>
Fail     == <<"failed", "no deadline", "Resumed", "notify">>
Stores   == {"Stopping", "Waiting", "Resumed", "deadline", "no deadline", "generation",
             "failed", "notify"}

NoBacklog == [at |-> 0, len |-> 0]
NoCall    == [at |-> 0, len |-> 0, skipped |-> 0, used |-> 0, gen |-> 0, live |-> FALSE,
              back |-> "perform"]

Init ==
  /\ state = "Triggered" /\ due = FALSE /\ failed = FALSE /\ gen = 0 /\ pauser = "none"
  /\ accepted = 0 /\ paused = FALSE
  /\ skip = 0 /\ backlog = NoBacklog /\ qos = FALSE
  /\ queued = FALSE /\ error = FALSE /\ result = "none"
  /\ delivered = 0
  /\ pc = "perform" /\ call = NoCall /\ timer = "off" /\ wake = FALSE
  /\ todo = [t \in Threads |-> <<>>]
  /\ pauses = 0 /\ faults = 0

Fault     == faults < MaxFaults /\ faults' = faults + 1
MorePause == pauses < MaxPauses /\ pauses' = pauses + 1

IsPaused == state \in {"Stopping", "Waiting"}

(* pausedDeadlineMs: "never" (Stopping), "later", or "now".                  *)
Deadline ==
  IF failed THEN "now"
  ELSE IF state = "Stopping" THEN "never"
  ELSE IF qos \/ (state = "Waiting" /\ due) THEN "later" ELSE "now"

(* One store of thread t.                                                    *)
Store(t) ==
  /\ todo[t] # <<>>
  /\ LET s == Head(todo[t]) IN
       /\ state' = IF s \in {"Stopping", "Waiting", "Resumed"} THEN s ELSE state
       /\ due' = IF s = "deadline" THEN TRUE ELSE IF s = "no deadline" THEN FALSE ELSE due
       /\ failed' = (failed \/ s = "failed")
       /\ gen' = IF s = "generation" THEN gen + 1 ELSE gen
       /\ wake' = (wake \/ s = "notify")
       /\ pauser' = IF s = "Stopping" THEN t ELSE pauser
  /\ todo' = [todo EXCEPT ![t] = Tail(@)]
  /\ UNCHANGED <<accepted, paused, context, delivered, pc, call, timer, bounds>>

(***************************************************************************)
(* The write callback                                                      *)
(***************************************************************************)
At(where) == pc = where /\ todo["worker"] = <<>>

(* finishRequest: a recorded error, then a failed event, make it a failure.  *)
Finish(ok) ==
  /\ result' = IF ok /\ ~ error /\ ~ failed THEN "ok" ELSE "error"
  /\ queued' = FALSE
  /\ pc' = "done"
  /\ UNCHANGED <<event, accepted, paused, skip, backlog, qos, error, delivered, call, timer,
                 wake, todo>>

\* Mutants, here and below, are plausible bugs: each breaks a property of a run.
MutantWriteCallbackSkipsAgain(back, n) ==
  /\ ~ failed /\ ~ error
  /\ IF n <= skip
     THEN accepted' = accepted + n /\ pc' = back /\ UNCHANGED call
     ELSE /\ call' = [at |-> accepted + skip, len |-> n - skip, skipped |-> skip, used |-> 0,
                      gen |-> gen, live |-> TRUE, back |-> back]
          /\ pc' = "consume"
          /\ UNCHANGED accepted
  /\ UNCHANGED <<skip, error>>
(* libcurl calls writeCallback with n units, from perform or from within     *)
(* curl_easy_pause; it looks for a failure, skips what it has had before and *)
(* calls the consumer with the rest.                                         *)
WriteCallback(back, n) ==
  \/ /\ failed \/ error
     /\ error' = TRUE
     /\ pc' = back
     /\ UNCHANGED <<accepted, skip, call>>
  \/ /\ ~ failed /\ ~ error /\ n <= skip
     /\ skip' = skip - n
     /\ accepted' = accepted + n
     /\ pc' = back
     /\ UNCHANGED <<error, call>>
  \/ /\ ~ failed /\ ~ error /\ n > skip
     /\ skip' = 0
     /\ call' = [at |-> accepted + skip, len |-> n - skip, skipped |-> skip, used |-> 0,
                 gen |-> gen, live |-> TRUE, back |-> back]
     /\ pc' = "consume"
     /\ UNCHANGED <<accepted, error>>

Blocks == 1 .. Min({MaxBlock, Length - accepted})

(* curl_multi_perform: the transfer goes on, unless it is paused.            *)
Perform ==
  /\ At("perform") /\ ~ paused /\ ~ error
  /\ \E n \in Blocks : WriteCallback("perform", n)
  /\ UNCHANGED <<event, paused, backlog, qos, queued, result, delivered, timer, wake, todo,
                 bounds>>

(* processCompletedRequests: the body is complete or a callback has answered *)
(* with an error; or the network fails.                                      *)
Complete ==
  /\ At("perform")
  /\ \/ ~ paused /\ accepted = Length /\ Finish(TRUE)
     \/ error /\ Finish(FALSE)
  /\ UNCHANGED bounds

NetworkFails == At("perform") /\ Fault /\ Finish(FALSE) /\ UNCHANGED pauses

(* consumeDownloadData: the consumer takes some of the units and may pause;  *)
(* it may also take none without a pause, throw or fail the event.           *)
Consume ==
  /\ At("consume")
  /\ \E k \in 0 .. call.len :
       /\ delivered' = delivered + k
       /\ call' = [call EXCEPT !.used = k]
       /\ \/ k > 0 /\ UNCHANGED <<todo, bounds>>
          \/ /\ MorePause
             /\ \E op \in {Pause, PauseFor} : todo' = [todo EXCEPT !["worker"] = op]
             /\ UNCHANGED faults
          \/ /\ Fault
             /\ \E op \in {<<>>, Fail} : todo' = [todo EXCEPT !["worker"] = op]
             /\ UNCHANGED pauses
  /\ pc' = IF call.live THEN "consumed" ELSE "drained"
  /\ UNCHANGED <<event, accepted, paused, context, timer, wake>>

(* The rest of writeCallbackImpl, up to finalizeDownloadCallback: a failure  *)
(* is final, and taking nothing without a pause is one.                      *)
Consumed ==
  /\ At("consumed")
  /\ LET idle == call.used = 0 /\ call.gen = gen /\ ~ IsPaused IN
       \/ /\ failed
          /\ error' = TRUE
          /\ pc' = call.back
          /\ UNCHANGED todo
       \/ /\ ~ failed /\ idle
          /\ todo' = [todo EXCEPT !["worker"] = Fail]
          /\ error' = TRUE
          /\ pc' = call.back
       \/ /\ ~ failed /\ ~ idle
          /\ pc' = "finalize"
          /\ UNCHANGED <<error, todo>>
  /\ UNCHANGED <<event, accepted, paused, skip, backlog, qos, queued, result, delivered, call,
                 timer, wake, bounds>>

MutantFinalize(counted) ==
  /\ At("finalize")
  /\ LET rest == call.len - call.used
         held == rest > 0 \/ IsPaused
     IN /\ backlog' = IF rest > 0 THEN [at |-> call.at + call.used, len |-> rest] ELSE backlog
        /\ queued' = (queued \/ held) /\ paused' = (paused \/ held)
        /\ skip' = IF held THEN skip + counted ELSE skip
        /\ accepted' = IF held THEN accepted ELSE accepted + call.skipped + call.used
  /\ pc' = call.back
  /\ UNCHANGED <<event, qos, error, result, delivered, call, timer, wake, todo, bounds>>
MutantFinalizeNoSkip == MutantFinalize(0)
(* finalizeDownloadCallback: what was not taken goes to the backlog; with a  *)
(* backlog, a pause or a limiter's delay the transfer is queued and paused,  *)
(* and what was taken is skipped when libcurl hands it over again.           *)
FinalizeCallback ==
  /\ At("finalize")
  /\ LET rest == call.len - call.used
         taken == call.skipped + call.used
     IN /\ backlog' = IF rest > 0 THEN [at |-> call.at + call.used, len |-> rest] ELSE backlog
        /\ \E limited \in BOOLEAN :
             /\ IF limited THEN call.used > 0 /\ MorePause ELSE UNCHANGED pauses
             /\ qos' = (qos \/ limited)
             /\ \/ /\ rest > 0 \/ limited \/ IsPaused
                   /\ queued' = TRUE
                   /\ paused' = TRUE
                   /\ skip' = skip + taken
                   /\ UNCHANGED accepted
                \/ /\ ~ (rest > 0 \/ limited \/ IsPaused)
                   /\ accepted' = accepted + taken
                   /\ UNCHANGED <<queued, paused, skip>>
  /\ pc' = call.back
  /\ UNCHANGED <<event, error, result, delivered, call, timer, wake, todo, faults>>

MutantSleepWithoutDeadline ==
  /\ At("perform") /\ paused /\ ~ error
  /\ pc' = "sleep"
  /\ UNCHANGED <<event, accepted, paused, context, delivered, call, timer, wake, todo, bounds>>
(***************************************************************************)
(* The paused queue                                                        *)
(***************************************************************************)
(* With nothing to perform the worker looks when it will have to wake, and   *)
(* waits for a notification or that time.                                    *)
LookAhead ==
  /\ At("perform") /\ paused /\ ~ error
  /\ IF Deadline = "now" THEN pc' = "dequeue" /\ UNCHANGED timer
     ELSE pc' = "sleep" /\ timer' = IF Deadline = "later" THEN "set" ELSE "off"
  /\ UNCHANGED <<event, accepted, paused, context, delivered, call, wake, todo, bounds>>

WakeUp ==
  /\ At("sleep") /\ (wake \/ timer = "fired")
  /\ wake' = FALSE /\ timer' = "off"
  /\ pc' = "dequeue"
  /\ UNCHANGED <<event, accepted, paused, context, delivered, call, todo, bounds>>

(* A deadline passes.                                                        *)
Expire ==
  /\ due \/ qos
  /\ due' = FALSE /\ qos' = FALSE
  /\ timer' = IF timer = "set" THEN "fired" ELSE timer
  /\ UNCHANGED <<state, failed, gen, pauser, accepted, paused, skip, backlog, queued, error, result,
                 delivered, pc, call, wake, todo, bounds>>

(* processPausedRequest takes the request out of the queue: a failed one to  *)
(* be finished, one that must wait to be put back.                           *)
Dequeue ==
  /\ At("dequeue")
  /\ queued' = FALSE
  /\ pc' = IF ~ queued THEN "perform"
           ELSE IF failed THEN "resume"
           ELSE IF Deadline # "now" THEN "requeue"
           ELSE IF backlog.len > 0 THEN "drain" ELSE "recheck"
  /\ UNCHANGED <<event, accepted, paused, skip, backlog, qos, error, result, delivered, call,
                 timer, wake, todo, bounds>>

Requeue ==
  /\ At("requeue")
  /\ queued' = TRUE
  /\ pc' = "perform"
  /\ UNCHANGED <<event, accepted, paused, skip, backlog, qos, error, result, delivered, call,
                 timer, wake, todo, bounds>>

(* The backlog is offered to the consumer, unless it must wait again.        *)
Drain ==
  /\ At("drain")
  /\ IF Deadline = "now" /\ ~ failed /\ ~ error
     THEN /\ call' = [at |-> backlog.at, len |-> backlog.len, skipped |-> 0, used |-> 0,
                      gen |-> gen, live |-> FALSE, back |-> "recheck"]
          /\ pc' = "consume"
     ELSE pc' = "recheck" /\ UNCHANGED call
  /\ UNCHANGED <<event, accepted, paused, context, delivered, timer, wake, todo, bounds>>

MutantDrainedNoSkip ==
  /\ At("drained")
  /\ backlog' = IF call.used = backlog.len THEN NoBacklog
                ELSE [at |-> backlog.at + call.used, len |-> backlog.len - call.used]
  /\ pc' = "recheck"
  /\ UNCHANGED <<event, accepted, paused, skip, error, qos, queued, result, delivered, call,
                 timer, wake, todo, bounds>>
(* What the consumer took of it will be skipped when libcurl replays it.     *)
Drained ==
  /\ At("drained")
  /\ LET idle == call.used = 0 /\ call.gen = gen /\ Deadline = "now" IN
       \/ /\ failed \/ idle
          /\ error' = TRUE
          /\ UNCHANGED <<backlog, skip>>
       \/ /\ ~ failed /\ ~ idle
          /\ backlog' = IF call.used = backlog.len THEN NoBacklog
                        ELSE [at |-> backlog.at + call.used, len |-> backlog.len - call.used]
          /\ skip' = skip + call.used
          /\ UNCHANGED error
  /\ pc' = "recheck"
  /\ UNCHANGED <<event, accepted, paused, qos, queued, result, delivered, call, timer, wake,
                 todo, bounds>>

MutantRecheckNothing ==
  /\ At("recheck")
  /\ pc' = IF failed \/ error \/ backlog.len = 0 THEN "resume" ELSE "requeue"
  /\ UNCHANGED <<event, accepted, paused, context, delivered, call, timer, wake, todo, bounds>>
(* The deadline is read once more: the consumer may have paused again.       *)
Recheck ==
  /\ At("recheck")
  /\ pc' = IF failed \/ error \/ (Deadline = "now" /\ backlog.len = 0)
           THEN "resume" ELSE "requeue"
  /\ UNCHANGED <<event, accepted, paused, context, delivered, call, timer, wake, todo, bounds>>

(* The request is finished, or its event resumed and the transfer continued. *)
ResumeRequest ==
  /\ At("resume")
  /\ \/ (failed \/ error) /\ Finish(FALSE)
     \/ /\ ~ failed /\ ~ error
        /\ todo' = IF IsPaused THEN [todo EXCEPT !["worker"] = Resume] ELSE todo
        /\ pc' = "continue"
        /\ UNCHANGED <<event, accepted, paused, context, delivered, call, timer, wake>>
  /\ UNCHANGED bounds

(* curl_easy_pause(CURLPAUSE_CONT), which may call writeCallback itself.     *)
Continue ==
  /\ At("continue")
  /\ paused' = FALSE
  /\ \/ pc' = "continued" /\ UNCHANGED <<accepted, skip, call, error>>
     \/ \E n \in Blocks : WriteCallback("continued", n)
  /\ UNCHANGED <<event, backlog, qos, queued, result, delivered, timer, wake, todo, bounds>>

(* An error of that call is looked for at once: DONE need not repeat it.     *)
Continued ==
  /\ At("continued")
  /\ \/ (failed \/ error) /\ Finish(FALSE)
     \/ /\ ~ failed /\ ~ error
        /\ pc' = "perform"
        /\ UNCHANGED <<event, accepted, paused, context, delivered, call, timer, wake, todo>>
  /\ UNCHANGED bounds

(***************************************************************************)
(* The other threads                                                       *)
(***************************************************************************)
Ready == todo["user"] = <<>> /\ pc # "done"

UserResumes ==
  /\ Ready /\ IsPaused
  /\ todo' = [todo EXCEPT !["user"] = Resume]
  /\ UNCHANGED <<event, accepted, paused, context, delivered, pc, call, timer, wake, bounds>>

UserFails ==
  /\ Ready /\ Fault
  /\ todo' = [todo EXCEPT !["user"] = Fail]
  /\ UNCHANGED <<event, accepted, paused, context, delivered, pc, call, timer, wake, pauses>>

UserPauses ==
  /\ Ready /\ MorePause
  /\ \E op \in {Pause, PauseFor} : todo' = [todo EXCEPT !["user"] = op]
  /\ UNCHANGED <<event, accepted, paused, context, delivered, pc, call, timer, wake, faults>>

-----------------------------------------------------------------------------
Callbacks == Perform \/ Consume \/ Consumed \/ FinalizeCallback
Queue     == LookAhead \/ WakeUp \/ Dequeue \/ Requeue \/ Drain \/ Drained \/ Recheck
             \/ ResumeRequest \/ Continue \/ Continued
Worker    == Store("worker") \/ Callbacks \/ Complete \/ NetworkFails \/ Queue
User      == Store("user") \/ UserResumes \/ UserFails \/ UserPauses

Next == Worker \/ User \/ Expire

Spec == Init /\ [][Next]_vars

(* The worker runs, time passes, a call to the event ends, and a Pause is    *)
(* answered by a Resume. The waits have a time limit of their own, which is  *)
(* left out: only a notification or a deadline ends one here.                *)
FairSpec ==
  /\ Spec
  /\ WF_vars(Store("worker") \/ Callbacks \/ Complete \/ Queue)
  /\ WF_vars(Expire) /\ WF_vars(Store("user")) /\ SF_vars(UserResumes)

-----------------------------------------------------------------------------
Positions == 0 .. Length

(* Every variable keeps its type; the backlog holds one block at most.       *)
TypeOK ==
  /\ state \in {"Triggered", "Stopping", "Waiting", "Resumed"}
  /\ due \in BOOLEAN /\ failed \in BOOLEAN /\ paused \in BOOLEAN /\ qos \in BOOLEAN
  /\ queued \in BOOLEAN /\ error \in BOOLEAN /\ wake \in BOOLEAN
  /\ gen \in Nat /\ accepted \in Positions /\ skip \in Positions /\ delivered \in Positions
  /\ backlog \in [at : Positions, len : Positions]
  /\ call \in [at : Positions, len : Positions, skipped : Positions, used : Positions,
              gen : Nat, live : BOOLEAN, back : {"perform", "continued", "recheck"}]
  /\ result \in {"none", "ok", "error"}
  /\ pc \in {"perform", "consume", "consumed", "finalize", "sleep", "dequeue", "requeue", "drain",
             "drained", "recheck", "resume", "continue", "continued", "done"}
  /\ timer \in {"off", "set", "fired"}
  /\ todo \in [Threads -> Seq(Stores)]
  /\ pauses \in 0 .. MaxPauses /\ faults \in 0 .. MaxFaults

(* Whatever is paused, replayed or drained, the consumer is offered the body *)
(* in order and every unit once: what it is offered starts where what it     *)
(* took ends.                                                                *)
OfferedInOrder == pc = "consume" => call.at = delivered

(* needSkip is what libcurl will hand over again of what the consumer took,  *)
(* and the backlog continues it.                                             *)
SkipIsWhatWasTaken ==
  ~ error =>
    /\ pc \notin {"consumed", "finalize", "drained"} /\ ~ (pc = "consume" /\ call.live) =>
         accepted + skip = delivered
    /\ backlog.len > 0 /\ pc # "drained" => paused /\ backlog.at = delivered

(* A download that succeeds gave the consumer the whole body.                *)
SuccessIsComplete == result = "ok" => delivered = Length /\ backlog.len = 0

(* A transfer libcurl holds back is in the paused queue, or the worker is at *)
(* it: nothing else would ever continue it.                                  *)
PausedIsQueued ==
  paused => queued \/ pc \in {"finalize", "requeue", "drain", "consume", "drained", "recheck",
                              "resume", "continue", "done"} \/ error

(* A Pause of the consumer lasts until another thread resumes or fails the   *)
(* event: "consuming the last cached byte does not authorize us to discard a *)
(* newly requested Pause/PauseFor" (processPausedRequest). It is not so for  *)
(* a Pause of another thread, which may come between Recheck and the Resume  *)
(* of ResumeRequest.                                                         *)
PauseIsKept ==
  [][state = "Stopping" /\ pauser = "worker" /\ state' = "Resumed" /\ ~ failed
       => todo["user"] # <<>> /\ todo'["user"] # todo["user"]]_vars

(* Every download ends, with whatever pauses: no signal is lost and no       *)
(* deadline slept through.                                                   *)
DownloadEnds == <>(pc = "done")
=============================================================================
