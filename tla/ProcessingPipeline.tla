------------------------- MODULE ProcessingPipeline -------------------------
(* The gate of a ProcessingPipline (executor/ProcessingPipline.h) and the    *)
(* pool that reuses the object (TosAsyncClient.cpp).                         *)
(*                                                                           *)
(* A call of asyncExecute, the completion of an attempt by the transport and *)
(* an error raised by a data callback may be on the stacks of different      *)
(* threads at one time. Each of them is a scope (CompletionScope): it enters *)
(* the gate, works, and leaves; the last one to leave after finish() was     *)
(* requested runs the finalizers, which recycle or delete the object. A      *)
(* retry is an asyncExecute nested in the completion of the attempt before.  *)
(* Every step of a scope is one critical section of the gate's mutex or one  *)
(* decision taken outside it.                                                *)
EXTENDS Naturals, FiniteSets

CONSTANTS
  Generations,    \* uses of the pooled object (bound)
  MaxAttempts     \* max_retry_count + 1 of enableRetry

ASSUME PipelineAssumption ==
  /\ Generations \in Nat \ {0}
  /\ MaxAttempts \in Nat \ {0}

Gens     == 1 .. Generations
Attempts == 1 .. MaxAttempts

(* exec: asyncExecute; done: the completion lambda given to the sender;      *)
(* again: a second call of that lambda, by a transport that repeats itself;  *)
(* data: callbackError called by a data callback of the attempt.             *)
Kinds  == {"exec", "done", "again", "data"}
Scopes == Gens \X Attempts \X Kinds

Inside == {"entered", "attempt", "sending", "response", "retrying",
           "answer", "check", "finish", "leaving"}
Places == Inside \cup {"out", "called", "cleanup", "left"}

VARIABLES
  gen,        \* the use of the object in progress, or the last one
  object,     \* "used", "cached" in the pool, or "deleted"
  called,     \* uses with callback_called
  pending,    \* uses with finish_pending
  finished,   \* uses with finish_called
  active,     \* active_calls of each use
  pc,         \* where each scope is
  flight,     \* attempts the transport holds
  callbacks,  \* calls of on_request_done_, for each use
  cleanups    \* runs of the finalizers, for each use

gate == <<called, pending, finished, active>>
vars == <<gen, object, gate, pc, flight, callbacks, cleanups>>

Init ==
  /\ gen = 0 /\ object = "cached"
  /\ called = {} /\ pending = {} /\ finished = {}
  /\ active = [g \in Gens |-> 0]
  /\ pc = [s \in Scopes |-> "out"]
  /\ flight = {}
  /\ callbacks = [g \in Gens |-> 0]
  /\ cleanups = [g \in Gens |-> 0]

Go(s, place) == pc' = [pc EXCEPT ![s] = place]

-----------------------------------------------------------------------------
(* acquirePipelineInstance: a new gate, then the caller's asyncExecute.      *)
Acquire ==
  /\ object = "cached"
  /\ gen < Generations
  /\ gen' = gen + 1
  /\ object' = "used"
  /\ Go(<<gen + 1, 1, "exec">>, "called")
  /\ UNCHANGED <<gate, flight, callbacks, cleanups>>

(* CompletionState::enter                                                    *)
Enter(s) ==
  /\ pc[s] = "called"
  /\ \/ /\ s[1] \in finished
        /\ Go(s, "left")
        /\ UNCHANGED active
     \/ /\ s[1] \notin finished
        /\ active' = [active EXCEPT ![s[1]] = @ + 1]
        /\ Go(s, "entered")
  /\ UNCHANGED <<gen, object, called, pending, finished, flight, callbacks, cleanups>>

(* CompletionState::callbackCalled, asked first by every scope.              *)
Test(s) ==
  /\ pc[s] = "entered"
  /\ \/ /\ s[1] \in called
        /\ Go(s, IF s[3] \in {"done", "again"} THEN "check" ELSE "leaving")
     \/ /\ s[1] \notin called
        /\ Go(s, CASE s[3] = "exec" -> "attempt"
                   [] s[3] = "data" -> "answer"
                   [] OTHER -> "response")
  /\ UNCHANGED <<gen, object, gate, flight, callbacks, cleanups>>

(* executeAttempt hands the request to the sender, which keeps it; or        *)
(* nothing is sent: the input is refused, no request or sender, an exception.*)
Attempt(s) ==
  /\ pc[s] = "attempt"
  /\ \/ /\ Go(s, "sending")
        /\ flight' = flight \cup {<<s[1], s[2]>>}
     \/ /\ Go(s, "answer")
        /\ UNCHANGED flight
  /\ UNCHANGED <<gen, object, gate, callbacks, cleanups>>

(* The sender returns; or it throws, having completed the attempt inline and *)
(* not for a retry.                                                          *)
SenderEnds(s) ==
  /\ pc[s] = "sending"
  /\ \/ Go(s, "leaving")
     \/ /\ pc[<<s[1], s[2], "done">>] = "left"
        /\ s[1] \in called
        /\ Go(s, "answer")
  /\ UNCHANGED <<gen, object, gate, flight, callbacks, cleanups>>

(* handleResponse: an outcome, of the response or of an exception; or the    *)
(* retry decorator schedules another attempt.                                *)
Response(s) ==
  /\ pc[s] = "response"
  /\ \/ Go(s, "answer")
     \/ /\ s[3] = "done" /\ s[2] < MaxAttempts
        /\ pc' = [pc EXCEPT ![s] = "retrying",
                            ![<<s[1], s[2] + 1, "exec">>] = "called"]
  /\ UNCHANGED <<gen, object, gate, flight, callbacks, cleanups>>

(* The nested asyncExecute has returned.                                     *)
Retried(s) ==
  /\ pc[s] = "retrying"
  /\ pc[<<s[1], s[2] + 1, "exec">>] = "left"
  /\ Go(s, "check")
  /\ UNCHANGED <<gen, object, gate, flight, callbacks, cleanups>>

\* Mutants, here and below, are plausible bugs: each breaks a property of a run.
MutantAnswerUnclaimed(s) ==
  /\ pc[s] = "answer"
  /\ called' = called \cup {s[1]}
  /\ callbacks' = [callbacks EXCEPT ![s[1]] = @ + 1]
  /\ Go(s, IF s[3] = "exec" THEN "finish" ELSE "leaving")
  /\ UNCHANGED <<gen, object, pending, finished, active, flight, cleanups>>
MutantDataErrorFinishes(s) ==
  /\ pc[s] = "answer"
  /\ s[1] \notin called \cup finished
  /\ called' = called \cup {s[1]}
  /\ callbacks' = [callbacks EXCEPT ![s[1]] = @ + 1]
  /\ Go(s, "finish")
  /\ UNCHANGED <<gen, object, pending, finished, active, flight, cleanups>>
(* deliverOutcome: claimCallback, then the caller's function, whose          *)
(* exceptions are swallowed.                                                 *)
Answer(s) ==
  /\ pc[s] = "answer"
  /\ \/ /\ s[1] \in called \cup finished
        /\ UNCHANGED <<called, callbacks>>
     \/ /\ s[1] \notin called \cup finished
        /\ called' = called \cup {s[1]}
        /\ callbacks' = [callbacks EXCEPT ![s[1]] = @ + 1]
  /\ Go(s, CASE s[3] = "exec" -> "finish"
             [] s[3] = "data" -> "leaving"
             [] OTHER -> "check")
  /\ UNCHANGED <<gen, object, pending, finished, active, flight, cleanups>>

(* finish(): after a failed attempt at once, after a completion only if the  *)
(* callback was called.                                                      *)
Finish(s) ==
  /\ pc[s] \in {"finish", "check"}
  /\ pending' = IF pc[s] = "finish" \/ s[1] \in called
                THEN pending \cup {s[1]} ELSE pending
  /\ Go(s, "leaving")
  /\ UNCHANGED <<gen, object, called, finished, active, flight, callbacks, cleanups>>

MutantLeaveTwice(s) ==
  /\ pc[s] = "leaving"
  /\ active' = [active EXCEPT ![s[1]] = @ - 2]
  /\ Go(s, "left")
  /\ UNCHANGED <<gen, object, called, pending, finished, flight, callbacks, cleanups>>
MutantLeaveClaimsEarly(s) ==
  /\ pc[s] = "leaving"
  /\ active' = [active EXCEPT ![s[1]] = @ - 1]
  /\ IF s[1] \in pending \ finished
     THEN finished' = finished \cup {s[1]} /\ Go(s, "cleanup")
     ELSE UNCHANGED finished /\ Go(s, "left")
  /\ UNCHANGED <<gen, object, called, pending, flight, callbacks, cleanups>>
(* CompletionState::leave                                                    *)
Leave(s) ==
  /\ pc[s] = "leaving"
  /\ active' = [active EXCEPT ![s[1]] = @ - 1]
  /\ \/ /\ active[s[1]] = 1 /\ s[1] \in pending \ finished
        /\ finished' = finished \cup {s[1]}
        /\ Go(s, "cleanup")
     \/ /\ ~ (active[s[1]] = 1 /\ s[1] \in pending \ finished)
        /\ UNCHANGED finished
        /\ Go(s, "left")
  /\ UNCHANGED <<gen, object, called, pending, flight, callbacks, cleanups>>

(* runFinish, outside the gate: the finalizers return the object to the      *)
(* pool; it is deleted if the pool is full or does not take its type.        *)
Cleanup(s) ==
  /\ pc[s] = "cleanup"
  /\ cleanups' = [cleanups EXCEPT ![s[1]] = @ + 1]
  /\ object' \in {"cached", "deleted"}
  /\ Go(s, "left")
  /\ UNCHANGED <<gen, gate, flight, callbacks>>

Step(s) ==
  \/ Enter(s) \/ Test(s) \/ Attempt(s) \/ SenderEnds(s) \/ Response(s)
  \/ Retried(s) \/ Answer(s) \/ Finish(s) \/ Leave(s) \/ Cleanup(s)

-----------------------------------------------------------------------------
(* The transport. The data callbacks of an attempt and its completion are    *)
(* calls of one thread.                                                      *)
Complete(g, n) ==
  /\ <<g, n>> \in flight
  /\ pc[<<g, n, "data">>] \in {"out", "left"}
  /\ flight' = flight \ {<<g, n>>}
  /\ Go(<<g, n, "done">>, "called")
  /\ UNCHANGED <<gen, object, gate, callbacks, cleanups>>

DataError(g, n) ==
  /\ <<g, n>> \in flight
  /\ pc[<<g, n, "data">>] = "out"
  /\ Go(<<g, n, "data">>, "called")
  /\ UNCHANGED <<gen, object, gate, flight, callbacks, cleanups>>

(* A completion called twice, one after the other, also for a use that ended.*)
Repeat(g, n) ==
  /\ pc[<<g, n, "done">>] = "left"
  /\ pc[<<g, n, "again">>] = "out"
  /\ n < MaxAttempts => pc[<<g, n + 1, "exec">>] = "out"
  /\ Go(<<g, n, "again">>, "called")
  /\ UNCHANGED <<gen, object, gate, flight, callbacks, cleanups>>

Next ==
  \/ Acquire
  \/ \E s \in Scopes : Step(s)
  \/ \E g \in Gens, n \in Attempts : Complete(g, n) \/ DataError(g, n) \/ Repeat(g, n)

Spec == Init /\ [][Next]_vars

(* Every function called in a scope returns, and the transport retires every *)
(* request it holds (AsyncEngine!AcceptedIsRetired).                         *)
FairSpec ==
  /\ Spec
  /\ \A s \in Scopes : WF_vars(Step(s))
  /\ \A g \in Gens, n \in Attempts : WF_vars(Complete(g, n))

-----------------------------------------------------------------------------
(* Every variable keeps its type.                                            *)
TypeOK ==
  /\ gen \in 0 .. Generations
  /\ object \in {"used", "cached", "deleted"}
  /\ called \in SUBSET Gens /\ pending \in SUBSET Gens /\ finished \in SUBSET Gens
  /\ active \in [Gens -> Nat]
  /\ pc \in [Scopes -> Places]
  /\ flight \in SUBSET (Gens \X Attempts)
  /\ callbacks \in [Gens -> Nat]
  /\ cleanups \in [Gens -> Nat]

(* Once a scope has claimed the final cleanup nobody is inside the gate of   *)
(* that use, so nobody works on an object that is recycled or deleted        *)
(* (ProcessingPipline.h:225: "No new scope can enter after leave claims      *)
(* final cleanup").                                                          *)
NobodyInsideAtCleanup ==
  \A s \in Scopes : s[1] \in finished => pc[s] \notin Inside

(* The finalizers run after the transport has let go of every attempt, whose *)
(* data callbacks hold a plain pointer to the object                         *)
(* (src/test/AsyncPipelineOnceTest.cc:143,                                   *)
(* EarlyDataErrorWaitsForTransportCompletionToFinish); only an attempt that  *)
(* is a retry, and whose own data callback raised an error, can be left with *)
(* the transport, when the completion before it takes that error for its own. *)
CleanupWaitsUnlessRetryErred ==
  \A g \in finished, n \in Attempts :
    <<g, n>> \in flight => n > 1 /\ pc[<<g, n, "data">>] \notin {"out", "called"}

(* Each use of the object is a call answered once, then cleaned up once, in  *)
(* that order, and before the next use; and it is, if threads run and the    *)
(* transport retires what it holds.                                          *)
Phase(g) ==
  CASE callbacks[g] = 0 /\ cleanups[g] = 0 -> IF g <= gen THEN "open" ELSE "idle"
    [] callbacks[g] = 1 /\ cleanups[g] = 0 -> "answered"
    [] callbacks[g] = 1 /\ cleanups[g] = 1 -> "closed"
    [] OTHER -> "broken"

Call == INSTANCE OneShotCall WITH phase <- [g \in Gens |-> Phase(g)]

ImplementsOneShotCall == Call!Spec
=============================================================================
