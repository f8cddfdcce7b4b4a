----------------------- MODULE PausableDownloadProofs -----------------------
(* What PausableDownload promises, for every length, block, pause and fault. *)
EXTENDS PausableDownload, TLAPS

(* Where the consumer and libcurl are in the body.                           *)
LiveCall  == pc \in {"consume", "consumed", "finalize"} /\ call.live
DrainCall == pc \in {"consume", "drained"} /\ ~ call.live

(* The consumer is offered a block of libcurl, past what it has had of it.   *)
LiveInv ==
  LiveCall =>
    /\ skip = 0 /\ backlog.len = 0 /\ ~ paused
    /\ call.at = accepted + call.skipped
    /\ call.at + call.len <= Length
    /\ call.used <= call.len
    /\ delivered = call.at + call.used
    /\ pc = "consume" => call.used = 0

(* The consumer is offered the backlog.                                      *)
DrainInv ==
  DrainCall =>
    /\ call.at = backlog.at /\ call.len = backlog.len
    /\ call.used <= call.len
    /\ accepted + skip = call.at
    /\ delivered = call.at + call.used
    /\ pc = "consume" => call.used = 0

(* Otherwise libcurl and the consumer differ by what will be skipped, and the*)
(* backlog begins where the consumer stands.                                 *)
RestInv ==
  ~ error /\ ~ LiveCall /\ ~ DrainCall =>
    /\ accepted + skip = delivered
    /\ backlog.len > 0 => backlog.at = delivered

(* There is a backlog only while the transfer is paused.                     *)
BacklogInv ==
  /\ backlog.len > 0 => paused
  /\ backlog.at + backlog.len <= Length

(* An error leads to the end only.                                           *)
ErrorInv ==
  error => pc \in {"perform", "continued", "recheck", "resume", "done"}

(* What each place of the worker implies.                                    *)
PlaceInv ==
  /\ pc \in {"consumed", "finalize"} => call.live
  /\ pc = "drained" => ~ call.live
  /\ pc \in {"consume", "consumed", "finalize"} /\ call.live => call.back \in {"perform", "continued"}
  /\ pc = "resume" /\ ~ failed /\ ~ error => backlog.len = 0
  /\ pc = "continue" => backlog.len = 0
  /\ pc = "drain" => backlog.len > 0

CountInv == LiveInv /\ DrainInv /\ RestInv /\ BacklogInv /\ ErrorInv /\ PlaceInv
            /\ accepted + skip <= Length

Core == TypeOK /\ CountInv

(* A block libcurl hands over is not empty and lies within the body.         *)
LEMMA BlockFits ==
  ASSUME TypeOK, NEW n \in Blocks
  PROVE  n \in Nat /\ n > 0 /\ accepted + n <= Length
<1>1. Length - accepted \in Int /\ MaxBlock \in Int
  BY PausableAssumption DEF TypeOK, Positions
<1>2. \E x \in {MaxBlock, Length - accepted} : \A y \in {MaxBlock, Length - accepted} : x <= y
  BY <1>1
<1>3. Min({MaxBlock, Length - accepted}) <= Length - accepted
      /\ Min({MaxBlock, Length - accepted}) \in Int
  BY <1>1, <1>2 DEF Min
<1> QED BY <1>3, PausableAssumption DEF Blocks, TypeOK, Positions

(* writeCallback: what it skips it had counted, and what it offers starts    *)
(* where the consumer is.                                                    *)
LEMMA WriteStep ==
  ASSUME Core, NEW back \in {"perform", "continued"}, NEW n \in Blocks, WriteCallback(back, n),
         ~ error, pc \in {"perform", "continue"}, backlog.len = 0, ~ paused',
         UNCHANGED <<backlog, delivered>>
  PROVE  CountInv'
<1> USE DEF CountInv, LiveInv, DrainInv, RestInv, BacklogInv, ErrorInv, PlaceInv, LiveCall, DrainCall
<1>0. /\ accepted \in Int /\ skip \in Int /\ delivered \in Int /\ Length \in Int /\ backlog.at \in Int
      /\ backlog.len \in Int
      /\ n \in Nat /\ n > 0 /\ accepted + n <= Length
  BY BlockFits, PausableAssumption DEF Core, TypeOK, Positions
<1>1. CountInv /\ accepted + skip = delivered /\ backlog.at <= Length
  BY <1>0 DEF Core
<1>2. CASE failed \/ error
  <2>1. error' = TRUE /\ pc' = back /\ UNCHANGED <<accepted, skip, call>>
    BY <1>2 DEF WriteCallback
  <2> QED BY <1>0, <1>1, <2>1
<1>3. CASE ~ failed /\ ~ error /\ n <= skip
  <2>1. skip' = skip - n /\ accepted' = accepted + n /\ pc' = back /\ UNCHANGED <<error, call>>
    BY <1>3, <1>0 DEF WriteCallback
  <2> QED BY <1>0, <1>1, <2>1
<1>4. CASE ~ failed /\ ~ error /\ n > skip
  <2>1. /\ skip' = 0 /\ pc' = "consume" /\ UNCHANGED <<accepted, error>>
        /\ call' = [at |-> accepted + skip, len |-> n - skip, skipped |-> skip, used |-> 0,
                 gen |-> gen, live |-> TRUE, back |-> back]
    BY <1>4, <1>0 DEF WriteCallback
  <2>2. /\ call'.at = accepted + skip /\ call'.len = n - skip /\ call'.skipped = skip
        /\ call'.used = 0 /\ call'.live /\ call'.back = back
    BY <2>1
  <2> QED BY <1>0, <1>1, <2>1, <2>2, <1>4
<1> QED BY <1>2, <1>3, <1>4, <1>0

(* The numbers of a state that satisfies Core, ready for arithmetic.         *)
LEMMA Numbers ==
  ASSUME Core
  PROVE  /\ accepted \in Nat /\ skip \in Nat /\ delivered \in Nat /\ Length \in Nat
         /\ backlog.at \in Nat /\ backlog.len \in Nat
         /\ call.at \in Nat /\ call.len \in Nat /\ call.skipped \in Nat /\ call.used \in Nat
         /\ delivered <= Length /\ call.back \in {"perform", "continued", "recheck"}
         /\ backlog = [at |-> backlog.at, len |-> backlog.len]
BY PausableAssumption DEF Core, TypeOK, Positions

(* A step outside the callbacks that moves no units keeps the count.         *)
LEMMA SameCounts ==
  ASSUME CountInv, UNCHANGED <<accepted, skip, delivered, backlog, call, error>>, ~ paused => ~ paused',
         paused => paused', failed => failed', ~ LiveCall, ~ DrainCall, ~ LiveCall', ~ DrainCall',
         error => pc' \in {"perform", "continued", "recheck", "resume", "done"},
         pc' \notin {"consumed", "finalize", "drained", "consume"},
         pc' = "continue" => backlog.len = 0, pc' = "drain" => backlog.len > 0,
         pc' = "resume" => failed \/ error \/ backlog.len = 0
  PROVE  CountInv'
BY DEF CountInv, LiveInv, DrainInv, RestInv, BacklogInv, ErrorInv, PlaceInv, LiveCall, DrainCall

(* libcurl going on keeps the count.                                         *)
LEMMA PerformStep ==
  ASSUME Core, Perform
  PROVE  CountInv'
<1>1. PICK n \in Blocks : WriteCallback("perform", n)
  BY DEF Perform
<1>2. ~ error /\ pc = "perform" /\ ~ paused /\ UNCHANGED <<backlog, delivered, paused>>
  BY DEF Perform, At
<1>3. backlog.len = 0
  BY <1>2, Numbers DEF Core, CountInv, BacklogInv
<1> QED BY <1>1, <1>2, <1>3, WriteStep

(* So does continuing a paused transfer, with or without a callback.         *)
LEMMA ContinueStep ==
  ASSUME Core, Continue
  PROVE  CountInv'
<1>1. pc = "continue" /\ ~ paused' /\ UNCHANGED <<backlog, delivered, failed>>
  BY DEF Continue, At, event
<1>2. ~ error /\ backlog.len = 0
  BY <1>1 DEF Core, CountInv, PlaceInv, ErrorInv
<1>3. CASE \E n \in Blocks : WriteCallback("continued", n)
  BY <1>1, <1>2, <1>3, WriteStep
<1>4. CASE pc' = "continued" /\ UNCHANGED <<accepted, skip, call, error>>
  BY <1>1, <1>2, <1>4, Numbers DEF Core, CountInv, LiveInv, DrainInv, RestInv, BacklogInv, ErrorInv,
     PlaceInv, LiveCall, DrainCall
<1> QED BY <1>3, <1>4 DEF Continue

(* The consumer takes a prefix of what it is offered.                        *)
LEMMA ConsumeStep ==
  ASSUME Core, Consume
  PROVE  CountInv'
<1> USE DEF CountInv, LiveInv, DrainInv, RestInv, BacklogInv, ErrorInv, PlaceInv, LiveCall, DrainCall
<1>1. PICK k \in 0 .. call.len : delivered' = delivered + k /\ call' = [call EXCEPT !.used = k]
  BY DEF Consume
<1>2. /\ pc = "consume" /\ pc' = IF call.live THEN "consumed" ELSE "drained"
      /\ UNCHANGED <<accepted, skip, backlog, paused, error, failed>>
  BY DEF Consume, At, event, context
<1>3. /\ call'.at = call.at /\ call'.len = call.len /\ call'.used = k /\ call'.live = call.live
      /\ call'.skipped = call.skipped /\ call'.back = call.back
  BY <1>1 DEF Core, TypeOK
<1>4. CountInv /\ k \in Int /\ 0 <= k /\ k <= call.len
  BY Numbers DEF Core
<1>5. CASE call.live
  BY <1>1, <1>2, <1>3, <1>4, <1>5, Numbers
<1>6. CASE ~ call.live
  BY <1>1, <1>2, <1>3, <1>4, <1>6, Numbers
<1> QED BY <1>5, <1>6

(* The judgement on a callback moves no unit.                                *)
LEMMA ConsumedStep ==
  ASSUME Core, Consumed
  PROVE  CountInv'
<1> USE DEF CountInv, LiveInv, DrainInv, RestInv, BacklogInv, ErrorInv, PlaceInv, LiveCall, DrainCall
<1>1. /\ pc = "consumed"
      /\ \/ error' = TRUE /\ pc' = call.back
         \/ pc' = "finalize" /\ UNCHANGED error
      /\ UNCHANGED <<accepted, skip, backlog, paused, failed, call, delivered>>
  <2>1. pc = "consumed" /\ UNCHANGED <<accepted, skip, backlog, paused, failed, call, delivered>>
    BY DEF Consumed, At, event
  <2>2. \/ error' = TRUE /\ pc' = call.back
        \/ pc' = "finalize" /\ UNCHANGED error
    BY DEF Consumed
  <2> QED BY <2>1, <2>2
<1>2. CountInv
  BY DEF Core
<1> QED BY <1>1, <1>2, Numbers

(* finalizeDownloadCallback: what was taken is either answered for or        *)
(* skipped later, and the rest becomes the backlog.                          *)
LEMMA FinalizeStep ==
  ASSUME Core, FinalizeCallback
  PROVE  CountInv'
<1> USE DEF CountInv, LiveInv, DrainInv, RestInv, BacklogInv, ErrorInv, PlaceInv, LiveCall, DrainCall
<1> DEFINE rest == call.len - call.used
           taken == call.skipped + call.used
<1>1. /\ pc = "finalize" /\ pc' = call.back /\ UNCHANGED <<error, failed, call, delivered>>
      /\ backlog' = IF rest > 0 THEN [at |-> call.at + call.used, len |-> rest] ELSE backlog
  BY DEF FinalizeCallback, At, event
<1>2. \/ paused' = TRUE /\ skip' = skip + taken /\ UNCHANGED accepted
      \/ ~ (rest > 0) /\ accepted' = accepted + taken /\ UNCHANGED <<paused, skip>>
  BY DEF FinalizeCallback
<1>3. CountInv
  BY DEF Core
<1>4. ~ error /\ call.live /\ LiveCall
  BY <1>1, <1>3
<1>5. rest > 0 => backlog'.at = call.at + call.used /\ backlog'.len = rest
  BY <1>1
<1>6. ~ (rest > 0) => backlog' = backlog
  BY <1>1
<1>7. call.back \in {"perform", "continued"}
  BY <1>1, <1>3
<1> QED BY <1>1, <1>2, <1>3, <1>4, <1>5, <1>6, <1>7, Numbers

(* What is taken from the backlog is skipped later too.                      *)
LEMMA DrainedStep ==
  ASSUME Core, Drained
  PROVE  CountInv'
<1> USE DEF CountInv, LiveInv, DrainInv, RestInv, BacklogInv, ErrorInv, PlaceInv, LiveCall, DrainCall
<1>1. /\ pc = "drained" /\ pc' = "recheck" /\ UNCHANGED <<accepted, paused, failed, call, delivered>>
  BY DEF Drained, At, event
<1>2. CountInv
  BY DEF Core
<1>3. CASE error' = TRUE /\ UNCHANGED <<backlog, skip>>
  BY <1>1, <1>2, <1>3, Numbers
<1>4. CASE /\ backlog' = IF call.used = backlog.len THEN NoBacklog
                        ELSE [at |-> backlog.at + call.used, len |-> backlog.len - call.used]
           /\ skip' = skip + call.used
           /\ UNCHANGED error
  <2>1. CASE call.used = backlog.len
    BY <1>1, <1>2, <1>4, <2>1, Numbers DEF NoBacklog
  <2>2. CASE call.used # backlog.len
    <3>1. backlog'.at = backlog.at + call.used /\ backlog'.len = backlog.len - call.used
      BY <1>4, <2>2
    <3> QED BY <1>1, <1>2, <1>4, <2>2, <3>1, Numbers
  <2> QED BY <2>1, <2>2
<1> QED BY <1>3, <1>4 DEF Drained

(* Draining offers the whole backlog, which continues what was taken.        *)
LEMMA DrainStep ==
  ASSUME Core, Drain
  PROVE  CountInv'
<1>1. pc = "drain" /\ UNCHANGED <<accepted, skip, backlog, paused, failed, error, delivered>>
  BY DEF Drain, At, event, context
<1>2. CountInv
  BY DEF Core
<1>3. CASE pc' = "consume" /\ ~ error
           /\ call' = [at |-> backlog.at, len |-> backlog.len, skipped |-> 0, used |-> 0,
                      gen |-> gen, live |-> FALSE, back |-> "recheck"]
  <2>1. /\ call'.at = backlog.at /\ call'.len = backlog.len /\ call'.used = 0 /\ ~ call'.live
        /\ call'.back = "recheck"
    BY <1>3
  <2> QED
  BY <1>1, <1>2, <1>3, <2>1, Numbers
     DEF CountInv, LiveInv, DrainInv, RestInv, BacklogInv, ErrorInv, PlaceInv, LiveCall, DrainCall
<1>4. CASE pc' = "recheck" /\ UNCHANGED call
  BY <1>1, <1>2, <1>4, SameCounts DEF LiveCall, DrainCall
<1> QED BY <1>3, <1>4 DEF Drain

(* A store to the event moves no unit.                                       *)
LEMMA StoreStep ==
  ASSUME Core, NEW t \in Threads, Store(t)
  PROVE  CountInv'
<1>1. UNCHANGED <<accepted, paused, skip, backlog, error, delivered, pc, call>>
  BY DEF Store, context
<1>2. failed => failed'
  BY DEF Store
<1> QED BY <1>1, <1>2 DEF Core, CountInv, LiveInv, DrainInv, RestInv, BacklogInv, ErrorInv, PlaceInv,
    LiveCall, DrainCall

(* Nor does the paused queue, or the end of the request.                     *)
LEMMA QueueStep ==
  ASSUME Core, LookAhead \/ WakeUp \/ Dequeue \/ Requeue \/ Recheck \/ ResumeRequest \/ Continued
               \/ Complete \/ NetworkFails
  PROVE  CountInv'
<1> USE DEF LiveCall, DrainCall
<1>0. CountInv /\ ErrorInv /\ PlaceInv /\ (backlog.len = 0 \/ backlog.len > 0)
  BY Numbers DEF Core, CountInv
<1>1. CASE LookAhead
  BY <1>0, <1>1, SameCounts DEF LookAhead, At, event, context
<1>2. CASE WakeUp
  BY <1>0, <1>2, SameCounts DEF WakeUp, At, event, context, ErrorInv
<1>3. CASE Dequeue
  BY <1>0, <1>3, SameCounts DEF Dequeue, At, event, ErrorInv
<1>4. CASE Requeue
  BY <1>0, <1>4, SameCounts DEF Requeue, At, event, ErrorInv
<1>5. CASE Recheck
  BY <1>0, <1>5, SameCounts DEF Recheck, At, event, context
<1>6. CASE ResumeRequest
  BY <1>0, <1>6, SameCounts DEF ResumeRequest, At, event, context, Finish, PlaceInv
<1>7. CASE Continued
  BY <1>0, <1>7, SameCounts DEF Continued, At, event, context, Finish, ErrorInv
<1>8. CASE Complete
  BY <1>0, <1>8, SameCounts DEF Complete, At, event, Finish, ErrorInv
<1>9. CASE NetworkFails
  BY <1>0, <1>9, SameCounts DEF NetworkFails, At, event, Finish, ErrorInv
<1> QED BY <1>1, <1>2, <1>3, <1>4, <1>5, <1>6, <1>7, <1>8, <1>9

(* Nor do the other threads or the clock.                                    *)
LEMMA OtherStep ==
  ASSUME Core, UserResumes \/ UserFails \/ UserPauses \/ Expire \/ UNCHANGED vars
  PROVE  CountInv'
<1>1. UNCHANGED <<failed, accepted, paused, skip, backlog, error, delivered, pc, call>>
  BY DEF UserResumes, UserFails, UserPauses, Expire, vars, event, context
<1> QED BY <1>1 DEF Core, CountInv, LiveInv, DrainInv, RestInv, BacklogInv, ErrorInv, PlaceInv,
    LiveCall, DrainCall

(* Every step keeps the count.                                               *)
LEMMA CountStep ==
  ASSUME Core, [Next]_vars
  PROVE  CountInv'
BY PerformStep, ContinueStep, ConsumeStep, ConsumedStep, FinalizeStep, DrainedStep, DrainStep, StoreStep,
   QueueStep, OtherStep DEF Next, Worker, User, Callbacks, Queue, Threads

-----------------------------------------------------------------------------
FlagType ==
  /\ due \in BOOLEAN /\ failed \in BOOLEAN /\ paused \in BOOLEAN /\ qos \in BOOLEAN
  /\ queued \in BOOLEAN /\ error \in BOOLEAN /\ wake \in BOOLEAN

PlaceType ==
  /\ state \in {"Triggered", "Stopping", "Waiting", "Resumed"}
  /\ gen \in Nat
  /\ result \in {"none", "ok", "error"}
  /\ pc \in {"perform", "consume", "consumed", "finalize", "sleep", "dequeue", "requeue", "drain",
             "drained", "recheck", "resume", "continue", "continued", "done"}
  /\ timer \in {"off", "set", "fired"}
  /\ pauses \in 0 .. MaxPauses /\ faults \in 0 .. MaxFaults

CallType ==
  call \in [at : Positions, len : Positions, skipped : Positions, used : Positions,
            gen : Nat, live : BOOLEAN, back : {"perform", "continued", "recheck"}]

NumberType ==
  /\ accepted \in Positions /\ skip \in Positions /\ delivered \in Positions
  /\ backlog \in [at : Positions, len : Positions]

(* TypeOK, in parts that are proved one by one.                              *)
LEMMA TypeParts ==
  TypeOK <=> FlagType /\ PlaceType /\ CallType /\ NumberType /\ todo \in [Threads -> Seq(Stores)]
BY DEF TypeOK, FlagType, PlaceType, CallType, NumberType

(* The calls to the event are lists of its stores.                           *)
LEMMA StoreLists ==
  {<<>>, Pause, PauseFor, Resume, Fail} \subseteq Seq(Stores)
BY DEF Pause, PauseFor, Resume, Fail, Stores

(* What the threads have yet to store is always such a list, or its rest.    *)
LEMMA TodoStep ==
  ASSUME Core, [Next]_vars
  PROVE  todo' \in [Threads -> Seq(Stores)]
<1>0. todo \in [Threads -> Seq(Stores)] /\ "worker" \in Threads /\ "user" \in Threads
  BY DEF Core, TypeOK, Threads
<1>1. CASE \E t \in Threads : Store(t)
  <2>1. PICK t \in Threads : todo[t] # <<>> /\ todo' = [todo EXCEPT ![t] = Tail(@)]
    BY <1>1 DEF Store
  <2>2. Tail(todo[t]) \in Seq(Stores)
    BY <1>0, <2>1
  <2> QED BY <1>0, <2>1, <2>2
<1>2. CASE \/ UNCHANGED todo
           \/ \E t \in Threads, op \in {<<>>, Pause, PauseFor, Resume, Fail} :
                todo' = [todo EXCEPT ![t] = op]
  BY <1>0, <1>2, StoreLists
<1>3. \/ \E t \in Threads : Store(t)
      \/ UNCHANGED todo
      \/ \E t \in Threads, op \in {<<>>, Pause, PauseFor, Resume, Fail} :
                todo' = [todo EXCEPT ![t] = op]
  BY <1>0 DEF Next, vars, Worker, User, Callbacks, Queue, Perform, Complete, NetworkFails, Consume,
     Consumed, FinalizeCallback, LookAhead, WakeUp, Expire, Dequeue, Requeue, Drain, Drained, Recheck,
     ResumeRequest, Continue, Continued, Finish, UserResumes, UserFails, UserPauses
<1> QED BY <1>1, <1>2, <1>3

(* The flags stay Boolean.                                                   *)
LEMMA FlagStep ==
  ASSUME Core, [Next]_vars
  PROVE  FlagType'
<1> USE DEF FlagType, At, event, context, bounds
<1>0. FlagType
  BY TypeParts DEF Core
<1>1. ASSUME NEW t \in Threads, Store(t) PROVE FlagType'
  BY <1>0, <1>1 DEF Store
<1>2. ASSUME NEW back \in {"perform", "continued"}, NEW n, WriteCallback(back, n)
      PROVE  error' \in BOOLEAN
  BY <1>0, <1>2 DEF WriteCallback
<1>3. CASE Perform
  BY <1>0, <1>2, <1>3 DEF Perform
<1>4. CASE Consume
  BY <1>0, <1>4, PausableAssumption DEF Consume, MorePause, Fault
<1>5. CASE Consumed
  BY <1>0, <1>5, Numbers DEF Consumed
<1>6. CASE FinalizeCallback
  BY <1>0, <1>6, Numbers, PausableAssumption DEF FinalizeCallback, MorePause
<1>7. CASE Complete \/ NetworkFails
  BY <1>0, <1>7, PausableAssumption DEF Complete, NetworkFails, Finish, Fault
<1>13. CASE ResumeRequest \/ Continued
  BY <1>0, <1>13, PausableAssumption DEF ResumeRequest, Continued, Finish
<1>8. CASE LookAhead \/ WakeUp \/ Dequeue
  BY <1>0, <1>8 DEF LookAhead, WakeUp, Dequeue
<1>14. CASE Requeue \/ Drain \/ Drained \/ Recheck
  BY <1>0, <1>14 DEF Requeue, Drain, Drained, Recheck
<1>9. CASE Continue
  BY <1>0, <1>2, <1>9 DEF Continue
<1>10. CASE Expire \/ UNCHANGED vars
  BY <1>0, <1>10 DEF Expire, vars
<1>11. CASE UserResumes \/ UserFails \/ UserPauses
  BY <1>0, <1>11, PausableAssumption DEF UserResumes, UserFails, UserPauses, MorePause, Fault
<1> QED BY <1>1, <1>3, <1>4, <1>5, <1>6, <1>7, <1>8, <1>9, <1>10, <1>11, <1>13, <1>14
        DEF Next, Worker, User, Callbacks, Queue, Threads

(* The places, the event and the bounds keep their types.                    *)
LEMMA PlaceStep ==
  ASSUME Core, [Next]_vars
  PROVE  PlaceType'
<1> USE DEF PlaceType, At, event, context, bounds
<1>0. PlaceType
  BY TypeParts DEF Core
<1>1. ASSUME NEW t \in Threads, Store(t) PROVE PlaceType'
  <2>1. /\ UNCHANGED <<result, pc, timer, pauses, faults>>
        /\ \/ state' = state
           \/ state' \in {"Stopping", "Waiting", "Resumed"}
        /\ gen' = gen + 1 \/ gen' = gen
    BY <1>1 DEF Store
  <2> QED BY <1>0, <2>1
<1>2. ASSUME NEW back \in {"perform", "continued"}, NEW n, WriteCallback(back, n)
      PROVE  pc' \in {"perform", "continued", "consume"}
  BY <1>0, <1>2 DEF WriteCallback
<1>3. CASE Perform
  BY <1>0, <1>2, <1>3 DEF Perform
<1>4. CASE Consume
  BY <1>0, <1>4, PausableAssumption DEF Consume, MorePause, Fault
<1>5. CASE Consumed
  BY <1>0, <1>5, Numbers DEF Consumed
<1>6. CASE FinalizeCallback
  <2>1. UNCHANGED <<state, gen, result, timer, faults>> /\ pc' = call.back
        /\ (pauses' = pauses \/ (pauses < MaxPauses /\ pauses' = pauses + 1))
    BY <1>6 DEF FinalizeCallback, MorePause
  <2> QED BY <1>0, <2>1, Numbers, PausableAssumption
<1>7. CASE Complete \/ NetworkFails
  BY <1>0, <1>7, PausableAssumption DEF Complete, NetworkFails, Finish, Fault
<1>13. CASE ResumeRequest \/ Continued
  BY <1>0, <1>13, PausableAssumption DEF ResumeRequest, Continued, Finish
<1>8. CASE LookAhead \/ WakeUp \/ Dequeue
  BY <1>0, <1>8 DEF LookAhead, WakeUp, Dequeue
<1>14. CASE Requeue \/ Drain \/ Drained \/ Recheck
  BY <1>0, <1>14 DEF Requeue, Drain, Drained, Recheck
<1>9. CASE Continue
  BY <1>0, <1>2, <1>9 DEF Continue
<1>10. CASE Expire \/ UNCHANGED vars
  BY <1>0, <1>10 DEF Expire, vars
<1>11. CASE UserResumes \/ UserFails \/ UserPauses
  BY <1>0, <1>11, PausableAssumption DEF UserResumes, UserFails, UserPauses, MorePause, Fault
<1> QED BY <1>1, <1>3, <1>4, <1>5, <1>6, <1>7, <1>8, <1>9, <1>10, <1>11, <1>13, <1>14
        DEF Next, Worker, User, Callbacks, Queue, Threads

(* The call of the consumer keeps its type.                                  *)
LEMMA CallStep ==
  ASSUME Core, [Next]_vars
  PROVE  CallType'
<1> USE DEF CallType, Positions
<1>0. /\ CallType /\ PlaceType /\ accepted + skip <= Length
      /\ backlog.at <= Length /\ backlog.len <= Length
  BY TypeParts DEF Core, CountInv, NumberType
<1>1. CASE UNCHANGED call
  BY <1>0, <1>1
<1>2. ASSUME NEW back \in {"perform", "continued"}, NEW n \in Blocks, WriteCallback(back, n)
      PROVE  CallType'
  <2>1. n \in Nat /\ n <= Length
    BY BlockFits, Numbers DEF Core
  <2>2. CASE UNCHANGED call
    BY <1>1, <2>2
  <2>3. CASE n > skip /\ call' = [at |-> accepted + skip, len |-> n - skip, skipped |-> skip,
                               used |-> 0, gen |-> gen, live |-> TRUE, back |-> back]
    <3>1. accepted + skip \in Positions /\ n - skip \in Positions /\ skip \in Positions
          /\ 0 \in Positions /\ gen \in Nat
      BY <1>0, <2>1, <2>3, Numbers DEF PlaceType
    <3> QED BY <2>3, <3>1
  <2> QED BY <1>2, <2>2, <2>3 DEF WriteCallback
<1>3. CASE Drain
  <2>1. 0 \in Positions /\ backlog.at \in Positions /\ backlog.len \in Positions /\ gen \in Nat
    BY <1>0, Numbers DEF PlaceType
  <2>2. CASE call' = [at |-> backlog.at, len |-> backlog.len, skipped |-> 0, used |-> 0,
                      gen |-> gen, live |-> FALSE, back |-> "recheck"]
    BY <2>1, <2>2
  <2> QED BY <1>1, <1>3, <2>2 DEF Drain
<1>4. CASE Consume
  <2>1. PICK k \in 0 .. call.len : call' = [call EXCEPT !.used = k]
    BY <1>4 DEF Consume
  <2>2. k \in Positions
    BY <1>0, Numbers
  <2> QED BY <1>0, <2>1, <2>2
<1>5. CASE Perform \/ Continue
  BY <1>1, <1>2, <1>5 DEF Perform, Continue
<1>6. \/ UNCHANGED call \/ Drain \/ Consume \/ Perform \/ Continue
  BY DEF Next, vars, Worker, User, Callbacks, Queue, Store, Complete, NetworkFails,
     Consumed, FinalizeCallback, LookAhead, WakeUp, Expire, Dequeue, Requeue, Drained, Recheck,
     ResumeRequest, Continued, Finish, UserResumes, UserFails, UserPauses
<1> QED BY <1>1, <1>3, <1>4, <1>5, <1>6

(* The positions stay within the body.                                       *)
LEMMA NumberStep ==
  ASSUME Core, [Next]_vars
  PROVE  NumberType'
<1> USE DEF NumberType, Positions
<1>0. NumberType /\ CountInv /\ CountInv'
  BY TypeParts, CountStep DEF Core
<1>1. CASE UNCHANGED <<accepted, skip, delivered, backlog>>
  BY <1>0, <1>1
<1>2. ASSUME NEW back \in {"perform", "continued"}, NEW n \in Blocks, WriteCallback(back, n),
             UNCHANGED <<delivered, backlog>>
      PROVE  NumberType'
  <2>1. n \in Nat /\ accepted + n <= Length
    BY BlockFits DEF Core
  <2>2. \/ UNCHANGED <<accepted, skip>>
        \/ n <= skip /\ skip' = skip - n /\ accepted' = accepted + n
        \/ skip' = 0 /\ UNCHANGED accepted
    BY <1>2 DEF WriteCallback
  <2> QED BY <1>0, <1>2, <2>1, <2>2, Numbers
<1>3. CASE Perform
  BY <1>2, <1>3 DEF Perform
<1>4. CASE Continue
  BY <1>1, <1>2, <1>4 DEF Continue, event
<1>5. CASE Consume
  <2>1. PICK k \in 0 .. call.len : delivered' = delivered + k
    BY <1>5 DEF Consume
  <2>2. pc = "consume" /\ UNCHANGED <<accepted, skip, backlog>>
    BY <1>5 DEF Consume, At, context
  <2>3. delivered + k <= Length
    BY <1>0, <2>2, Numbers
       DEF CountInv, LiveInv, DrainInv, BacklogInv, LiveCall, DrainCall
  <2> QED BY <1>0, <2>1, <2>2, <2>3, Numbers
<1>6. CASE FinalizeCallback
  <2>1. pc = "finalize" /\ call.live
    BY <1>0, <1>6 DEF FinalizeCallback, At, CountInv, PlaceInv
  <2>2. /\ skip = 0 /\ call.at = accepted + call.skipped /\ call.at + call.len <= Length
        /\ call.used <= call.len
    BY <1>0, <2>1 DEF CountInv, LiveInv, LiveCall
  <2>3. /\ UNCHANGED delivered
        /\ \/ skip' = skip + (call.skipped + call.used) /\ UNCHANGED accepted
           \/ accepted' = accepted + (call.skipped + call.used) /\ UNCHANGED skip
    BY <1>6 DEF FinalizeCallback
  <2>4. \/ UNCHANGED backlog
        \/ call.len - call.used > 0
           /\ backlog' = [at |-> call.at + call.used, len |-> call.len - call.used]
    BY <1>6 DEF FinalizeCallback
  <2>5. backlog' \in [at : Positions, len : Positions]
    BY <1>0, <2>2, <2>4, Numbers
  <2> QED BY <1>0, <2>2, <2>3, <2>5, Numbers
<1>7. CASE Drained
  <2>1. pc = "drained" /\ ~ call.live
    BY <1>0, <1>7 DEF Drained, At, CountInv, PlaceInv
  <2>2. /\ accepted + skip = call.at /\ call.at + call.len <= Length /\ call.used <= call.len
        /\ call.at = backlog.at /\ call.len = backlog.len
    BY <1>0, <2>1 DEF CountInv, DrainInv, BacklogInv, DrainCall
  <2>3. /\ UNCHANGED <<accepted, delivered>>
        /\ skip' = skip + call.used \/ UNCHANGED skip
        /\ \/ UNCHANGED backlog \/ backlog' = [at |-> 0, len |-> 0]
           \/ backlog' = [at |-> backlog.at + call.used, len |-> backlog.len - call.used]
    BY <1>7 DEF Drained, NoBacklog
  <2>4. backlog' \in [at : Positions, len : Positions]
    BY <1>0, <2>2, <2>3, Numbers
  <2> QED BY <1>0, <2>2, <2>3, <2>4, Numbers
<1>8. \/ UNCHANGED <<accepted, skip, delivered, backlog>>
      \/ Consume \/ Perform \/ Continue \/ FinalizeCallback \/ Drained
  BY DEF Next, vars, event, context, Worker, User, Callbacks, Queue, Store, Complete, NetworkFails,
     Consumed, LookAhead, WakeUp, Expire, Dequeue, Requeue, Drain, Recheck,
     ResumeRequest, Continued, Finish, UserResumes, UserFails, UserPauses
<1> QED BY <1>1, <1>3, <1>4, <1>5, <1>6, <1>7, <1>8

(* The inductive invariant: the types and the account of the units between   *)
(* libcurl, needSkip, the backlog and the consumer.                          *)
THEOREM CoreInvariant == Spec => []Core
<1>1. Init => Core
  <2> SUFFICES ASSUME Init PROVE Core
    OBVIOUS
  <2>1. FlagType
    BY DEF Init, FlagType
  <2>5. PlaceType
    BY PausableAssumption DEF Init, PlaceType
  <2>2. CallType /\ NumberType
    BY PausableAssumption DEF Init, CallType, NumberType, Positions, NoCall, NoBacklog
  <2>3. todo \in [Threads -> Seq(Stores)]
    BY StoreLists DEF Init
  <2>4. CountInv
    BY PausableAssumption DEF Init, CountInv, LiveInv, DrainInv, RestInv, BacklogInv, ErrorInv, PlaceInv,
       LiveCall, DrainCall, NoCall, NoBacklog
  <2> QED BY <2>1, <2>2, <2>3, <2>4, <2>5, TypeParts DEF Core
<1>2. Core /\ [Next]_vars => Core'
  <2> SUFFICES ASSUME Core, [Next]_vars PROVE Core'
    OBVIOUS
  <2>1. FlagType' /\ PlaceType' /\ CallType' /\ NumberType' /\ CountInv'
    BY FlagStep, PlaceStep, CallStep, NumberStep, CountStep
  <2>2. todo' \in [Threads -> Seq(Stores)]
    BY TodoStep
  <2>3. TypeOK'
    BY <2>1, <2>2 DEF TypeOK, FlagType, PlaceType, CallType, NumberType
  <2> QED BY <2>1, <2>3 DEF Core
<1> QED BY <1>1, <1>2, PTL DEF Spec

-----------------------------------------------------------------------------
(* The request has a result only when the worker is done with it.            *)
DoneInv == result # "none" => pc = "done"

SuccessInv == DoneInv /\ SuccessIsComplete

(* Only processCompletedRequests finishes a request with success, and only   *)
(* a transfer that is neither paused nor in error and is complete.           *)
LEMMA OnlyCompleteSucceeds ==
  ASSUME Core, [Next]_vars
  PROVE  \/ UNCHANGED result
         \/ pc' = "done" /\ result' = "error"
         \/ pc' = "done" /\ result' = "ok" /\ ~ paused /\ ~ error /\ accepted = Length /\ pc = "perform"
            /\ UNCHANGED <<delivered, backlog>>
  BY Zenon DEF Next, vars, event, context, Worker, User, Callbacks, Queue, Store, Perform, Complete,
     NetworkFails, Consume, Consumed, FinalizeCallback, LookAhead, WakeUp, Expire, Dequeue, Requeue,
     Drain, Drained, Recheck, ResumeRequest, Continue, Continued, Finish, UserResumes, UserFails,
     UserPauses, At

(* After the end nothing is delivered.                                       *)
LEMMA DoneIsQuiet ==
  ASSUME Core, [Next]_vars, pc = "done"
  PROVE  UNCHANGED <<pc, delivered, backlog, result>>
  BY DEF Next, vars, event, context, Worker, User, Callbacks, Queue, Store, Perform, Complete,
     NetworkFails, Consume, Consumed, FinalizeCallback, LookAhead, WakeUp, Expire, Dequeue, Requeue,
     Drain, Drained, Recheck, ResumeRequest, Continue, Continued, UserResumes, UserFails, UserPauses, At

(* The consumer is offered the body in order and every unit once, for every  *)
(* length, block size and number of pauses (writeCallbackImpl,               *)
(* processPausedRequest).                                                    *)
THEOREM Offered == Spec => []OfferedInOrder
<1>1. Core => OfferedInOrder
  BY Numbers DEF Core, CountInv, LiveInv, DrainInv, LiveCall, DrainCall, OfferedInOrder
<1> QED BY <1>1, CoreInvariant, PTL

(* needSkip and the backlog account for all that the consumer took and       *)
(* libcurl will replay (finalizeDownloadCallback).                           *)
THEOREM Skipped == Spec => []SkipIsWhatWasTaken
<1>1. Core => SkipIsWhatWasTaken
  BY Numbers DEF Core, CountInv, LiveInv, DrainInv, RestInv, BacklogInv, PlaceInv, LiveCall, DrainCall,
     SkipIsWhatWasTaken
<1> QED BY <1>1, CoreInvariant, PTL

(* A request that finishes with success delivered the whole body.            *)
THEOREM Success == Spec => []SuccessIsComplete
<1>1. Init => SuccessInv
  BY DEF Init, SuccessInv, DoneInv, SuccessIsComplete
<1>2. Core /\ SuccessInv /\ [Next]_vars => SuccessInv'
  <2> SUFFICES ASSUME Core, SuccessInv, [Next]_vars PROVE SuccessInv'
    OBVIOUS
  <2>1. CASE UNCHANGED result
    BY <2>1, DoneIsQuiet DEF SuccessInv, DoneInv, SuccessIsComplete
  <2>2. CASE pc' = "done" /\ result' = "error"
    BY <2>2 DEF SuccessInv, DoneInv, SuccessIsComplete
  <2>3. CASE pc' = "done" /\ result' = "ok" /\ ~ paused /\ ~ error /\ accepted = Length
             /\ pc = "perform" /\ UNCHANGED <<delivered, backlog>>
    BY <2>3, Numbers DEF Core, CountInv, RestInv, BacklogInv, LiveCall, DrainCall, SuccessInv, DoneInv,
       SuccessIsComplete
  <2> QED BY <2>1, <2>2, <2>3, OnlyCompleteSucceeds
<1> QED BY <1>1, <1>2, CoreInvariant, PTL DEF Spec, SuccessInv

(* Every variable keeps its type.                                            *)
THEOREM TypeInvariant == Spec => []TypeOK
<1>1. Core => TypeOK
  BY DEF Core
<1> QED BY <1>1, CoreInvariant, PTL

-----------------------------------------------------------------------------
(* No step leaves a paused transfer outside the paused queue.                *)
LEMMA PausedStep ==
  ASSUME Core, PausedIsQueued, [Next]_vars
  PROVE  PausedIsQueued'
<1> USE DEF PausedIsQueued, At, event, context
<1>0. LiveInv /\ ErrorInv /\ PlaceInv
  BY DEF Core, CountInv
<1>1. ASSUME NEW t \in Threads, Store(t) PROVE PausedIsQueued'
  BY <1>1 DEF Store
<1>2. CASE Perform \/ Continue
  BY <1>2 DEF Perform, Continue
<1>3. CASE Consume
  BY <1>0, <1>3 DEF Consume, LiveInv, LiveCall
<1>4. CASE Consumed
  BY <1>0, <1>4 DEF Consumed, LiveInv, PlaceInv, LiveCall
<1>5. CASE FinalizeCallback
  BY <1>0, <1>5 DEF FinalizeCallback, LiveInv, PlaceInv, LiveCall
<1>6. CASE Complete \/ NetworkFails \/ ResumeRequest \/ Continued
  BY <1>6 DEF Complete, NetworkFails, ResumeRequest, Continued, Finish
<1>7. CASE LookAhead \/ WakeUp \/ Dequeue
  BY <1>7 DEF LookAhead, WakeUp, Dequeue
<1>8. CASE Requeue \/ Drain \/ Drained \/ Recheck
  BY <1>8 DEF Requeue, Drain, Drained, Recheck
<1>9. CASE Expire \/ UserResumes \/ UserFails \/ UserPauses \/ UNCHANGED vars
  BY <1>9 DEF Expire, UserResumes, UserFails, UserPauses, vars
<1> QED BY <1>1, <1>2, <1>3, <1>4, <1>5, <1>6, <1>7, <1>8, <1>9
        DEF Next, Worker, User, Callbacks, Queue, Threads

(* A transfer libcurl holds back is always where the worker finds it.        *)
THEOREM Queued == Spec => []PausedIsQueued
<1>1. Init => PausedIsQueued
  BY DEF Init, PausedIsQueued
<1>2. Core /\ PausedIsQueued /\ [Next]_vars => PausedIsQueued'
  BY PausedStep
<1> QED BY <1>1, <1>2, CoreInvariant, PTL DEF Spec

-----------------------------------------------------------------------------
(* What the worker may still store: a Resumed only where the pause it ends   *)
(* is not one of its own.                                                    *)
ResumesWell ==
  \A i \in 1 .. Len(todo["worker"]) :
    /\ todo["worker"][i] = "Resumed" =>
         failed \/ pc = "continue" \/ \E j \in 1 .. i - 1 : todo["worker"][j] = "failed"
    /\ todo["worker"][i] = "Stopping" => pc \in {"consumed", "drained"}

(* From the second look at the deadline on, a Stopping is of another thread. *)
OwnPauseSeen ==
  pc \in {"resume", "continue"} /\ ~ failed /\ ~ error /\ state = "Stopping" => pauser = "user"

PauseInv == ResumesWell /\ OwnPauseSeen

(* What the calls to the event store, and in which order.                    *)
LEMMA Lists ==
  /\ Len(Pause) = 3 /\ Len(PauseFor) = 4 /\ Len(Resume) = 3 /\ Len(Fail) = 4
  /\ \A i \in 1 .. 3 : Pause[i] # "Resumed" /\ Resume[i] # "Stopping"
  /\ \A i \in 1 .. 4 : PauseFor[i] # "Resumed"
  /\ \A i \in 1 .. 4 : Fail[i] # "Stopping" /\ (Fail[i] = "Resumed" => i > 1)
  /\ Fail[1] = "failed"
<1>1. Len(Pause) = 3 /\ Len(PauseFor) = 4 /\ Len(Resume) = 3 /\ Len(Fail) = 4
  BY DEF Pause, PauseFor, Resume, Fail
<1>2. \A i \in 1 .. 3 : i = 1 \/ i = 2 \/ i = 3
  OBVIOUS
<1>3. \A i \in 1 .. 4 : i = 1 \/ i = 2 \/ i = 3 \/ i = 4
  OBVIOUS
<1>4. /\ Pause[1] # "Resumed" /\ Pause[2] # "Resumed" /\ Pause[3] # "Resumed"
      /\ Resume[1] # "Stopping" /\ Resume[2] # "Stopping" /\ Resume[3] # "Stopping"
  BY DEF Pause, Resume
<1>5. /\ PauseFor[1] # "Resumed" /\ PauseFor[2] # "Resumed" /\ PauseFor[3] # "Resumed"
      /\ PauseFor[4] # "Resumed"
  BY DEF PauseFor
<1>6. /\ Fail[1] = "failed" /\ Fail[2] # "Stopping" /\ Fail[3] # "Stopping" /\ Fail[4] # "Stopping"
  BY DEF Fail
<1> QED BY <1>1, <1>2, <1>3, <1>4, <1>5, <1>6

(* What a step of the worker other than a store begins to store, and when    *)
(* it goes on to resume the transfer.                                        *)
LEMMA WorkerStepLists ==
  ASSUME Core, Worker, ~ Store("worker")
  PROVE  /\ todo["worker"] = <<>>
         /\ UNCHANGED <<state, pauser, failed>>
         /\ \/ todo'["worker"] = <<>>
            \/ pc' \in {"consumed", "drained"} /\ todo'["worker"] \in {Pause, PauseFor, Fail}
            \/ todo'["worker"] = Fail
            \/ pc' = "continue" /\ todo'["worker"] = Resume
         /\ pc' \in {"resume", "continue"} =>
              \/ failed \/ error
              \/ pc = "resume"
              \/ Deadline = "now"
         /\ error => error'
<1>0. todo \in [Threads -> Seq(Stores)] /\ "worker" \in Threads
  BY DEF Core, TypeOK, Threads
<1> USE <1>0 DEF At, event, context
<1>1. CASE Perform \/ Continue
  BY <1>1 DEF Perform, Continue, WriteCallback
<1>2. CASE Consume
  <2>1. pc' \in {"consumed", "drained"} /\ UNCHANGED <<state, pauser, failed, error>>
        /\ todo["worker"] = <<>>
    BY <1>2 DEF Consume
  <2>2. \/ UNCHANGED todo
        \/ \E op \in {<<>>, Pause, PauseFor, Fail} : todo' = [todo EXCEPT !["worker"] = op]
    BY <1>2 DEF Consume
  <2> QED BY <2>1, <2>2
<1>3. CASE Consumed
  <2>1. /\ UNCHANGED <<state, pauser, failed>> /\ todo["worker"] = <<>>
        /\ error => error'
        /\ pc' \in {call.back, "finalize"}
        /\ UNCHANGED todo \/ todo' = [todo EXCEPT !["worker"] = Fail]
    BY <1>3 DEF Consumed
  <2> QED BY <2>1, Numbers
<1>4. CASE FinalizeCallback
  BY <1>4, Numbers DEF FinalizeCallback
<1>5. CASE Complete \/ NetworkFails \/ Continued
  BY <1>5 DEF Complete, NetworkFails, Continued, Finish
<1>6. CASE ResumeRequest
  BY <1>6 DEF ResumeRequest, Finish
<1>7. CASE LookAhead \/ WakeUp \/ Dequeue
  BY <1>7 DEF LookAhead, WakeUp, Dequeue
<1>8. CASE Requeue \/ Drain \/ Drained \/ Recheck
  BY <1>8 DEF Requeue, Drain, Drained, Recheck
<1> QED BY <1>1, <1>2, <1>3, <1>4, <1>5, <1>6, <1>7, <1>8 DEF Worker, Callbacks, Queue

(* Every step keeps the two facts about pauses.                              *)
LEMMA PauseStep ==
  ASSUME Core, PauseInv, [Next]_vars
  PROVE  PauseInv'
<1>0. todo \in [Threads -> Seq(Stores)] /\ "worker" \in Threads /\ "user" \in Threads
      /\ todo["worker"] \in Seq(Stores)
  BY DEF Core, TypeOK, Threads
<1>1. CASE Store("worker")
  <2>1. /\ todo["worker"] # <<>> /\ todo' = [todo EXCEPT !["worker"] = Tail(@)]
        /\ UNCHANGED <<pc, error>>
        /\ failed' = (failed \/ Head(todo["worker"]) = "failed")
        /\ Head(todo["worker"]) # "Stopping" => state' # "Stopping" \/ UNCHANGED <<state, pauser>>
    BY <1>1 DEF Store, context
  <2>2. /\ todo'["worker"] = Tail(todo["worker"])
        /\ Head(todo["worker"]) = todo["worker"][1] /\ Len(todo["worker"]) \in Nat
        /\ Len(todo["worker"]) >= 1
    BY <1>0, <2>1
  <2>3. /\ Len(Tail(todo["worker"])) = Len(todo["worker"]) - 1
        /\ \A i \in 1 .. Len(todo["worker"]) - 1 : Tail(todo["worker"])[i] = todo["worker"][i + 1]
    BY <1>0, <2>1
  <2>4. ResumesWell'
    <3> SUFFICES ASSUME NEW i \in 1 .. Len(todo'["worker"])
                 PROVE  /\ todo'["worker"][i] = "Resumed" =>
                            failed' \/ pc' = "continue"
                              \/ \E j \in 1 .. i - 1 : todo'["worker"][j] = "failed"
                        /\ todo'["worker"][i] = "Stopping" => pc' \in {"consumed", "drained"}
      BY DEF ResumesWell
    <3>0. /\ i \in 1 .. Len(todo["worker"]) - 1 /\ todo'["worker"][i] = todo["worker"][i + 1]
          /\ \A k \in 1 .. i - 1 : todo'["worker"][k] = todo["worker"][k + 1]
      BY <2>2, <2>3
    <3>1. i + 1 \in 1 .. Len(todo["worker"])
      BY <2>2, <3>0
    <3>2. todo["worker"][i + 1] = "Stopping" => pc \in {"consumed", "drained"}
      BY <3>1 DEF PauseInv, ResumesWell
    <3>3. ASSUME todo["worker"][i + 1] = "Resumed", NEW j \in 1 .. (i + 1) - 1,
                 todo["worker"][j] = "failed"
          PROVE  failed' \/ \E k \in 1 .. i - 1 : todo["worker"][k + 1] = "failed"
      <4>1. CASE j = 1
        BY <2>1, <2>2, <3>3, <4>1
      <4>2. CASE j # 1
        <5>1. j - 1 \in 1 .. i - 1 /\ (j - 1) + 1 = j
          BY <2>2, <3>0, <4>2
        <5> QED BY <3>3, <5>1
      <4> QED BY <4>1, <4>2
    <3>4. todo["worker"][i + 1] = "Resumed" =>
            failed \/ pc = "continue" \/ \E j \in 1 .. (i + 1) - 1 : todo["worker"][j] = "failed"
      BY <3>1 DEF PauseInv, ResumesWell
    <3>5. CASE todo["worker"][i + 1] = "Resumed"
      BY <2>1, <3>0, <3>2, <3>3, <3>4, <3>5
    <3>6. CASE todo["worker"][i + 1] # "Resumed"
      BY <2>1, <3>0, <3>2, <3>6
    <3> QED BY <3>5, <3>6
  <2>5. OwnPauseSeen'
    <3>1. todo["worker"][1] = "Stopping" => pc \in {"consumed", "drained"}
      BY <2>2 DEF PauseInv, ResumesWell
    <3> QED BY <2>1, <2>2, <3>1 DEF PauseInv, OwnPauseSeen
  <2> QED BY <2>4, <2>5 DEF PauseInv
<1>2. CASE Store("user")
  <2>1. /\ todo' = [todo EXCEPT !["user"] = Tail(@)] /\ UNCHANGED <<pc, error>>
        /\ failed => failed'
        /\ \/ state' # "Stopping" \/ UNCHANGED <<state, pauser>> \/ pauser' = "user"
    BY <1>2 DEF Store, context
  <2>2. todo'["worker"] = todo["worker"]
    BY <1>0, <2>1
  <2> QED BY <2>1, <2>2 DEF PauseInv, ResumesWell, OwnPauseSeen
<1>3. CASE Worker /\ ~ Store("worker")
  <2>1. ResumesWell'
    <3>1. CASE todo'["worker"] = <<>>
      BY <3>1 DEF ResumesWell
    <3>2. CASE todo'["worker"] = Fail
      BY <3>2, Lists DEF ResumesWell
    <3>3. CASE pc' \in {"consumed", "drained"} /\ todo'["worker"] \in {Pause, PauseFor}
      BY <3>3, Lists DEF ResumesWell
    <3>4. CASE pc' = "continue" /\ todo'["worker"] = Resume
      BY <3>4, Lists DEF ResumesWell
    <3> QED BY <1>3, <3>1, <3>2, <3>3, <3>4, WorkerStepLists
  <2>2. Deadline = "now" => failed \/ state # "Stopping"
    BY DEF Deadline
  <2>3. ErrorInv
    BY DEF Core, CountInv
  <2>4. OwnPauseSeen'
    BY <1>3, <2>2, <2>3, WorkerStepLists DEF PauseInv, OwnPauseSeen
  <2> QED BY <2>1, <2>4 DEF PauseInv
<1>4. CASE UserResumes \/ UserFails \/ UserPauses \/ Expire \/ UNCHANGED vars
  <2>1. UNCHANGED <<pc, error, failed, state, pauser>>
        /\ (UNCHANGED todo \/ \E op \in {Pause, PauseFor, Resume, Fail} :
                                 todo' = [todo EXCEPT !["user"] = op])
    BY <1>4 DEF UserResumes, UserFails, UserPauses, Expire, vars, event, context
  <2>2. todo'["worker"] = todo["worker"]
    BY <1>0, <2>1
  <2> QED BY <2>1, <2>2 DEF PauseInv, ResumesWell, OwnPauseSeen
<1> QED BY <1>1, <1>2, <1>3, <1>4 DEF Next, User

(* A Pause of the consumer is never discarded by the worker                  *)
(* (processPausedRequest, the second look at the deadline).                  *)
THEOREM PauseKept == Spec => PauseIsKept
<1>1. Init => PauseInv
  BY DEF Init, PauseInv, ResumesWell, OwnPauseSeen, Threads
<1>2. Core /\ PauseInv /\ [Next]_vars => PauseInv'
  BY PauseStep
<1>3. Core /\ PauseInv /\ [Next]_vars =>
        [state = "Stopping" /\ pauser = "worker" /\ state' = "Resumed" /\ ~ failed
           => todo["user"] # <<>> /\ todo'["user"] # todo["user"]]_vars
  <2> SUFFICES ASSUME Core, PauseInv, Next, state = "Stopping", pauser = "worker",
                      state' = "Resumed", ~ failed
               PROVE  todo["user"] # <<>> /\ todo'["user"] # todo["user"]
    BY DEF vars, event
  <2>0. todo \in [Threads -> Seq(Stores)] /\ "worker" \in Threads /\ "user" \in Threads
        /\ ErrorInv /\ todo["worker"] \in Seq(Stores) /\ todo["user"] \in Seq(Stores)
    BY DEF Core, TypeOK, Threads, CountInv
  <2>1. CASE Store("worker")
    <3>1. todo["worker"] # <<>> /\ Head(todo["worker"]) = "Resumed"
      BY <2>1 DEF Store
    <3>2. todo["worker"][1] = "Resumed" /\ Len(todo["worker"]) >= 1 /\ Len(todo["worker"]) \in Nat
      BY <2>0, <3>1
    <3>3. 1 \in 1 .. Len(todo["worker"]) /\ ~ \E j \in 1 .. 1 - 1 : TRUE
      BY <3>2
    <3>4. pc = "continue"
      BY <3>2, <3>3 DEF PauseInv, ResumesWell
    <3> QED BY <2>0, <3>4 DEF PauseInv, OwnPauseSeen, ErrorInv
  <2>2. CASE Store("user")
    <3>1. todo["user"] # <<>> /\ todo' = [todo EXCEPT !["user"] = Tail(@)]
      BY <2>2 DEF Store
    <3>2. todo'["user"] = Tail(todo["user"]) /\ Len(Tail(todo["user"])) = Len(todo["user"]) - 1
          /\ Len(todo["user"]) \in Nat
      BY <2>0, <3>1
    <3>3. todo'["user"] = todo["user"] => Len(Tail(todo["user"])) = Len(todo["user"])
      BY <3>2
    <3>4. Len(todo["user"]) - 1 # Len(todo["user"])
      BY <3>2
    <3> QED BY <3>1, <3>2, <3>3, <3>4
  <2>3. CASE Worker /\ ~ Store("worker")
    BY <2>3, WorkerStepLists
  <2>4. CASE UserResumes \/ UserFails \/ UserPauses \/ Expire
    BY <2>4 DEF UserResumes, UserFails, UserPauses, Expire, event
  <2> QED BY <2>1, <2>2, <2>3, <2>4 DEF Next, User
<1> QED BY <1>1, <1>2, <1>3, CoreInvariant, PTL DEF Spec, PauseIsKept
=============================================================================
