---------------------------- MODULE AsyncEngine ----------------------------
(***************************************************************************)
(* AsyncEngineCore: the shared asynchronous transport.  Submit hands a     *)
(* request to one reactor thread (Worker); the worker serves its requests  *)
(* on curl multis, one per transport profile (Group, "shard"), and every   *)
(* connection a shard may open is paid for with a credit of the engine.    *)
(* A worker that finds no credit sleeps, so whoever returns a credit must  *)
(* wake it.                                                                *)
(*                                                                         *)
(* A step of the model is the code between two accesses to what threads    *)
(* share: the admission and inbox mutexes, the atomics of State, an        *)
(* eventfd.  A change and the wake-up that tells of it are one step: the   *)
(* thread that is woken later finds the same change.  curl's sockets and   *)
(* timers are one event, "the transfer of r is over" (ready); the clock is *)
(* what has passed of every deadline, ready_at and idle time.              *)
(***************************************************************************)
EXTENDS Integers, Sequences, FiniteSets

CONSTANTS
  Workers, Requests, Sessions,
  NumProfiles,     \* transport profiles, numbered by id
  SessionOf,       \* the client session of a request
  ProfileOf,       \* the profile of a session
  WorkersOf,       \* the workers a request may get: by the hash of its origin, and load
  MaxConnections,  \* options.max_connections
  MaxRequests,     \* options.max_requests; the limits per client and on bytes are like it
  Delayed,         \* requests with a setNotSendUtilMs in the future
  Timed,           \* requests with a deadline
  MayClose,        \* what is closed, sessions or the engine
  Engine,          \* the engine, as something that is closed
  IdleTimes,       \* may a group be idle for idle_profile_timeout_ms
  MaxFaults        \* bound: failed allocations, transfers that cannot start, reactor errors

NoOne == "none"

ASSUME ConstantsAssumption ==
  /\ NumProfiles \in Nat \ {0}
  /\ SessionOf \in [Requests -> Sessions]
  /\ ProfileOf \in [Sessions -> 1..NumProfiles]
  /\ WorkersOf \in [Requests -> (SUBSET Workers) \ {{}}]
  /\ MaxConnections \in Nat \ {0} /\ MaxRequests \in Nat \ {0}
  /\ Delayed \subseteq Requests /\ Timed \subseteq Requests
  /\ Engine \notin Sessions /\ NoOne \notin Requests
  /\ MayClose \subseteq Sessions \cup {Engine}
  /\ IdleTimes \in BOOLEAN /\ MaxFaults \in Nat

Profiles == 1..NumProfiles
Targets  == Sessions \cup {Engine}
Profile(r) == ProfileOf[SessionOf[r]]

\* admitted: counted, not yet in an inbox; running: active, in a multi; answered:
\* the result is out, the context still exists.
Lives == {"new", "refused", "admitted", "queued", "running", "answered", "released"}

\* What a worker does next.  finish, drive, first and flush end requests one by
\* one, each through answered.
Stages == {"inbox", "evict", "scan", "finish", "pending", "credit", "full", "start", "first",
           "parked", "drive", "answered", "seal", "flush", "stopped"}

VARIABLES
  life, owner,          \* every request: where it is, and its worker
  early, late, ready,   \* requests: before ready_at, past the deadline, transfer over
  lock, notifying,      \* who holds the admission mutex; pushed, Notify() still due
  inbox, pending, kept, \* queues of a worker; kept: pending, seen by this pass
  shard,                \* credits of a group, 0 when the worker has no such group
  draining, failed, aged, \* groups of a worker marked so; aged: idle past its time
  credits,              \* State::credits
  wake,                 \* workers whose eventfd is readable
  waitingCredit, passCredit, waitingCapacity, passCapacity, \* the workers with the flag
  stage, back,          \* what a worker does; where it returns to after ending a request
  victims, todo,        \* requests about to be ended, groups left to scan
  armed,                \* the ready_at times epoll_wait was given
  closing, closer,      \* closing flags; the threads in CloseSession and Close
  faults

requestVars == <<life, owner, ready>>
timeVars    == <<early, late>>
submitVars  == <<lock, notifying>>
queueVars   == <<inbox, pending, kept>>
markVars    == <<draining, failed, aged>>
groupVars   == <<shard, credits, markVars>>
passVars    == <<passCredit, passCapacity>>
waitVars    == <<waitingCredit, waitingCapacity>>
loopVars    == <<back, victims, todo, armed>>
closeVars   == <<closing, closer>>
outside      == <<timeVars, submitVars, closeVars>>
flagVars     == <<waitVars, passVars>>
resourceVars == <<groupVars, wake, flagVars>>
vars == <<requestVars, outside, queueVars, resourceVars, stage, loopVars, faults>>

-----------------------------------------------------------------------------
Elements(s) == {s[i] : i \in DOMAIN s}
Least(S)    == CHOOSE p \in S : \A q \in S : p <= q

Outstanding == {r \in Requests : life[r] \in {"admitted", "queued", "running", "answered"}}
Active      == {r \in Requests : life[r] = "running"}
Running(w)  == {r \in Active : owner[r] = w}
ActiveSet(w, p) == {r \in Running(w) : Profile(r) = p}
Groups(w)   == {p \in Profiles : shard[w][p] > 0}
Idle(w)     == {p \in Groups(w) : ActiveSet(w, p) = {}}

Pressure == waitingCredit # {}
Full     == credits >= MaxConnections

\* Mutants, here and below, are plausible bugs: each breaks a property of a run.
MutantClosedEngineOnly(r) == Engine \in closing

Closed(r) == Engine \in closing \/ SessionOf[r] \in closing

Fault == faults < MaxFaults /\ faults' = faults + 1
NoFault == UNCHANGED faults
Go(w, s) == stage' = [stage EXCEPT ![w] = s]

Init ==
  /\ life = [r \in Requests |-> "new"]
  /\ owner = [r \in Requests |-> NoOne]
  /\ early = Delayed /\ late = {} /\ ready = {}
  /\ lock = NoOne /\ notifying = {}
  /\ inbox = [w \in Workers |-> <<>>]
  /\ pending = [w \in Workers |-> <<>>]
  /\ kept = [w \in Workers |-> <<>>]
  /\ shard = [w \in Workers |-> [p \in Profiles |-> 0]]
  /\ draining = [w \in Workers |-> {}]
  /\ failed = [w \in Workers |-> {}]
  /\ aged = [w \in Workers |-> {}]
  /\ credits = 0 /\ wake = {}
  /\ waitingCredit = {} /\ passCredit = {} /\ waitingCapacity = {} /\ passCapacity = {}
  /\ stage = [w \in Workers |-> "inbox"]
  /\ back = [w \in Workers |-> "inbox"]
  /\ victims = [w \in Workers |-> {}]
  /\ todo = [w \in Workers |-> {}]
  /\ armed = [w \in Workers |-> {}]
  /\ closing = {} /\ closer = [x \in Targets |-> "open"]
  /\ faults = 0

-----------------------------------------------------------------------------
(* Submit, and the threads that close a session or the engine              *)

MutantWakeLost(W) == UNCHANGED wake

Wake(W) == wake' = wake \cup W

\* on_retired_ once it has counted the request out: under pressure everybody,
\* else whoever published that it found no capacity.
Publish == Wake(IF Pressure THEN Workers ELSE waitingCapacity)

\* The admission decision, and the worker it is handed to.
Admit(r) ==
  /\ life[r] = "new" /\ lock = NoOne
  /\ \/ /\ Closed(r) \/ Cardinality(Outstanding) >= MaxRequests
        /\ life' = [life EXCEPT ![r] = "refused"]
        /\ UNCHANGED <<owner, lock>>
     \/ /\ ~Closed(r) /\ Cardinality(Outstanding) < MaxRequests
        /\ life' = [life EXCEPT ![r] = "admitted"]
        /\ \E w \in WorkersOf[r] : owner' = [owner EXCEPT ![r] = w]
        /\ lock' = r
  /\ UNCHANGED <<timeVars, ready, notifying, queueVars, resourceVars, stage, loopVars,
                 closeVars, faults>>

Push(r) ==
  /\ lock = r /\ lock' = NoOne
  /\ life' = [life EXCEPT ![r] = "queued"]
  /\ inbox' = [inbox EXCEPT ![owner[r]] = Append(@, r)]
  /\ notifying' = notifying \cup {r}
  /\ UNCHANGED <<owner, timeVars, ready, pending, kept, resourceVars, stage, loopVars,
                 closeVars, faults>>

\* push_back throws: the reservation is rolled back by on_retired_.
PushFails(r) ==
  /\ lock = r /\ lock' = NoOne /\ Fault
  /\ life' = [life EXCEPT ![r] = "refused"]
  /\ Publish
  /\ UNCHANGED <<owner, timeVars, ready, notifying, queueVars, groupVars, flagVars, stage,
                 loopVars, closeVars>>

Notify(r) ==
  /\ r \in notifying /\ notifying' = notifying \ {r}
  /\ Wake({owner[r]})
  /\ UNCHANGED <<requestVars, timeVars, lock, queueVars, groupVars, flagVars, stage,
                 loopVars, closeVars, faults>>

MutantSetClosingUnlocked(x) == closing' = closing \cup {x}

\* Under the admission mutex: a Submit that did not see the flag is over.
SetClosing(x) == lock = NoOne /\ closing' = closing \cup {x}

\* CloseSession and BeginClose.
BeginClose(x) ==
  /\ x \in MayClose /\ closer[x] = "open" /\ SetClosing(x)
  /\ closer' = [closer EXCEPT ![x] = "begun"]
  /\ UNCHANGED <<requestVars, timeVars, submitVars, queueVars, resourceVars, stage, loopVars,
                 faults>>

CloseWakes(x) ==
  /\ closer[x] = "begun" /\ closer' = [closer EXCEPT ![x] = "waiting"]
  /\ Wake(Workers)
  /\ UNCHANGED <<requestVars, timeVars, submitVars, queueVars, groupVars, flagVars, stage,
                 loopVars, closing, faults>>

\* The requests of the session are counted out, or every worker is joined.
Drained(x) == IF x = Engine THEN \A w \in Workers : stage[w] = "stopped"
              ELSE \A r \in Outstanding : SessionOf[r] # x

CloseReturns(x) ==
  /\ closer[x] = "waiting" /\ Drained(x)
  /\ closer' = [closer EXCEPT ![x] = "closed"]
  /\ UNCHANGED <<requestVars, timeVars, submitVars, queueVars, resourceVars, stage, loopVars,
                 closing, faults>>

-----------------------------------------------------------------------------
(* The outside: transfers end, time passes                                 *)

outsideUnchanged ==
  UNCHANGED <<life, owner, submitVars, queueVars, shard, credits, draining, failed, wake,
              flagVars, stage, loopVars, closeVars, faults>>

TransferEnds(r) ==
  /\ life[r] = "running" /\ r \notin ready
  /\ ready' = ready \cup {r}
  /\ UNCHANGED <<timeVars, aged>> /\ outsideUnchanged

DeadlinePasses(r) ==
  /\ r \in (Timed \cap Outstanding) \ late
  /\ late' = late \cup {r}
  /\ UNCHANGED <<early, ready, aged>> /\ outsideUnchanged

ReadyAtPasses(r) ==
  /\ r \in early /\ life[r] # "new" /\ early' = early \ {r}
  /\ UNCHANGED <<late, ready, aged>> /\ outsideUnchanged

GroupAges(w, p) ==
  /\ IdleTimes /\ p \in Idle(w) \ aged[w]
  /\ aged' = [aged EXCEPT ![w] = @ \cup {p}]
  /\ UNCHANGED <<timeVars, ready>> /\ outsideUnchanged

-----------------------------------------------------------------------------
(* Ending a request, removing a group                                      *)

\* finishRequest and failSetup: out of the multi, then on_result_, which counts
\* it out of the active ones, and the caller's callback.
Answer(w, r) ==
  /\ life' = [life EXCEPT ![r] = "answered"]
  /\ ready' = ready \ {r}
  /\ stage' = [stage EXCEPT ![w] = "answered"]
  /\ back' = [back EXCEPT ![w] = stage[w]]

\* ~RequestContext: on_retired_.
Retire(w) ==
  /\ stage[w] = "answered" /\ Go(w, back[w])
  /\ life' = [r \in Requests |-> IF life[r] = "answered" /\ owner[r] = w THEN "released"
                                 ELSE life[r]]
  /\ Publish
  /\ UNCHANGED <<owner, outside, ready, queueVars, groupVars, flagVars, loopVars, faults>>

ForgetGroup(w, p) ==
  /\ shard' = [shard EXCEPT ![w][p] = 0]
  /\ draining' = [draining EXCEPT ![w] = @ \ {p}]
  /\ failed' = [failed EXCEPT ![w] = @ \ {p}]
  /\ aged' = [aged EXCEPT ![w] = @ \ {p}]

MutantReturnOneMore(w, p) ==
  credits' = credits - shard[w][p] - 1 /\ ForgetGroup(w, p) /\ Wake(Workers)
MutantReturnOne(w, p) ==
  credits' = credits - 1 /\ ForgetGroup(w, p) /\ Wake(Workers)
MutantReturnSilently(w, p) ==
  credits' = credits - shard[w][p] /\ ForgetGroup(w, p) /\ UNCHANGED wake

\* Every credit of the group goes back, and others may want it.
RemoveGroup(w, p) ==
  /\ credits' = credits - shard[w][p] /\ ForgetGroup(w, p)
  /\ Wake(IF Outstanding # {} THEN Workers ELSE {})

-----------------------------------------------------------------------------
(* A pass of Worker::Run: the inbox, ServiceGroups, ServicePending, epoll   *)

\* The groups left to scan; after the last, ServicePending begins.
ScanRest(w, rest) ==
  /\ todo' = [todo EXCEPT ![w] = rest]
  /\ IF rest # {} THEN Go(w, "scan") /\ UNCHANGED passVars
     ELSE /\ Go(w, "pending")
          /\ passCredit' = passCredit \ {w} /\ passCapacity' = passCapacity \ {w}

\* Taking the inbox and reading Pressure().
TakeInbox(w) ==
  /\ stage[w] = "inbox"
  /\ pending' = [pending EXCEPT ![w] = @ \o inbox[w]]
  /\ inbox' = [inbox EXCEPT ![w] = <<>>]
  /\ IF Pressure THEN Go(w, "evict") /\ UNCHANGED <<todo, passVars>> ELSE ScanRest(w, Groups(w))
  /\ UNCHANGED <<requestVars, outside, kept, groupVars, wake, waitVars, back, victims, armed,
                 faults>>

\* Under pressure idle groups go first, while no credit is free.
EvictIdle(w) ==
  /\ stage[w] = "evict" /\ Full /\ Idle(w) # {}
  /\ RemoveGroup(w, Least(Idle(w)))
  /\ UNCHANGED <<requestVars, outside, queueVars, flagVars, stage, loopVars, faults>>

Evicted(w) ==
  /\ stage[w] = "evict" /\ (~Full \/ Idle(w) = {})
  /\ ScanRest(w, Groups(w))
  /\ UNCHANGED <<requestVars, outside, queueVars, groupVars, wake, waitVars, back, victims,
                 armed, faults>>

\* A group that must drain is marked; requests that must end are found.
ScanGroup(w) ==
  /\ stage[w] = "scan" /\ Go(w, "finish")
  /\ LET p == Least(todo[w])
     IN  /\ draining' = [draining EXCEPT ![w] = IF Pressure /\ Full THEN @ \cup {p} ELSE @]
         /\ victims' = [victims EXCEPT ![w] =
              {r \in ActiveSet(w, p) : p \in failed[w] \/ Closed(r) \/ r \in late}]
  /\ UNCHANGED <<requestVars, outside, queueVars, shard, credits, failed, aged, wake,
                 flagVars, back, todo, armed, faults>>

\* The requests of ServiceGroups, of Drive, and of the end of Run.
FinishRequest(w) ==
  /\ stage[w] \in {"finish", "first", "drive", "flush"}
  /\ stage[w] = "flush" => inbox[w] \o pending[w] = <<>>
  /\ \E r \in victims[w] :
       /\ Answer(w, r)
       /\ victims' = [victims EXCEPT ![w] = @ \ {r}]
  /\ UNCHANGED <<owner, outside, queueVars, resourceVars, todo, armed, faults>>

\* An idle group goes when the engine closes, it was asked to drain, its multi
\* failed or it has been idle for long.
GroupScanned(w) ==
  /\ stage[w] = "finish" /\ victims[w] = {}
  /\ LET p == Least(todo[w])
     IN  /\ ScanRest(w, todo[w] \ {p})
         /\ IF p \in Idle(w) /\ (Engine \in closing \/ p \in draining[w] \cup failed[w] \cup aged[w])
            THEN RemoveGroup(w, p) ELSE UNCHANGED <<groupVars, wake>>
  /\ UNCHANGED <<requestVars, outside, queueVars, waitVars, back, victims, armed, faults>>

MutantTakeNoErase(w) == UNCHANGED <<pending, kept>>

\* The request the pass has come to stays in the queue, or leaves it.
Keep(w) ==
  /\ kept' = [kept EXCEPT ![w] = Append(@, Head(pending[w]))]
  /\ pending' = [pending EXCEPT ![w] = Tail(@)]
Take(w) ==
  /\ pending' = [pending EXCEPT ![w] = Tail(@)]
  /\ UNCHANGED kept

MutantReclaimSilently(w) ==
  /\ passCredit' = passCredit \cup {w}
  /\ waitingCredit' = waitingCredit \cup {w}
  /\ UNCHANGED wake

\* Registers the worker, and wakes the owners of idle groups, unless it is
\* registered already.
RequestReclaim(w) ==
  /\ passCredit' = passCredit \cup {w}
  /\ waitingCredit' = waitingCredit \cup {w}
  /\ Wake(IF w \in waitingCredit THEN {} ELSE Workers)

\* Closed while it waited, or past its deadline.
Drop(w) ==
  /\ stage[w] = "pending" /\ pending[w] # <<>>
  /\ LET r == Head(pending[w]) IN (Closed(r) \/ r \in late) /\ Answer(w, r)
  /\ Take(w)
  /\ UNCHANGED <<owner, outside, inbox, resourceVars, victims, todo, armed, faults>>

Served(w) ==
  /\ stage[w] = "pending" /\ pending[w] # <<>>
  /\ LET r == Head(pending[w]) IN ~Closed(r) /\ r \notin late

NotYet(w) ==
  /\ Served(w) /\ Head(pending[w]) \in early
  /\ Keep(w)
  /\ UNCHANGED <<requestVars, outside, inbox, resourceVars, stage, loopVars, faults>>

\* Its group was asked to drain, and still has to.
WaitForDrain(w) ==
  /\ Served(w)
  /\ LET r == Head(pending[w]) IN r \notin early /\ Profile(r) \in draining[w] /\ Full
  /\ RequestReclaim(w) /\ Keep(w)
  /\ UNCHANGED <<requestVars, outside, inbox, groupVars, waitingCapacity, passCapacity,
                 stage, loopVars, faults>>

PublishWaiting(w) == waitingCapacity' = waitingCapacity \cup {w}

\* A connection of its group is free, or a credit is needed: Credit() publishes
\* waiting_capacity before it looks.
Serve(w) ==
  /\ Served(w)
  /\ LET r == Head(pending[w])
         p == Profile(r)
     IN  /\ r \notin early /\ ~(p \in draining[w] /\ Full)
         /\ draining' = [draining EXCEPT ![w] = @ \ {p}]
         /\ IF Cardinality(ActiveSet(w, p)) < shard[w][p]
            THEN Go(w, "start") /\ UNCHANGED waitingCapacity
            ELSE Go(w, "credit") /\ PublishWaiting(w)
  /\ UNCHANGED <<requestVars, outside, queueVars, shard, credits, failed, aged, wake,
                 waitingCredit, passVars, loopVars, faults>>

\* Credit() takes one, for a new group or one connection more.
TakeCredit(w) ==
  /\ stage[w] = "credit" /\ ~Full /\ Go(w, "start")
  /\ credits' = credits + 1
  /\ shard' = [shard EXCEPT ![w][Profile(Head(pending[w]))] = @ + 1]
  /\ UNCHANGED <<requestVars, outside, queueVars, markVars, wake, flagVars, loopVars, faults>>

NoCredit(w) ==
  /\ stage[w] = "credit" /\ Full /\ Go(w, "full")
  /\ passCapacity' = passCapacity \cup {w}
  /\ UNCHANGED <<requestVars, outside, queueVars, groupVars, wake, waitVars, passCredit,
                 loopVars, faults>>

\* Owners are asked to give up idle groups, unless every credit is in use.
AskForCredit(w) ==
  /\ stage[w] = "full" /\ Go(w, "pending") /\ Keep(w)
  /\ IF shard[w][Profile(Head(pending[w]))] = 0 \/ Cardinality(Active) < credits
     THEN RequestReclaim(w)
     ELSE UNCHANGED <<passCredit, waitingCredit, wake>>
  /\ UNCHANGED <<requestVars, outside, inbox, groupVars, waitingCapacity, passCapacity,
                 loopVars, faults>>

\* GetGroup (its credit is given back), the easy handle or the multi fails; or
\* the client was closed meanwhile.
Reject(w) ==
  /\ \/ stage[w] = "credit" /\ ~Full /\ shard[w][Profile(Head(pending[w]))] = 0 /\ Fault
     \/ stage[w] = "start" /\ Fault
     \/ stage[w] = "start" /\ Closed(Head(pending[w])) /\ NoFault
  /\ LET r == Head(pending[w])
     IN  /\ life' = [life EXCEPT ![r] = "answered"]
         /\ stage' = [stage EXCEPT ![w] = "answered"]
         /\ back' = [back EXCEPT ![w] = "pending"]
  /\ Take(w)
  /\ UNCHANGED <<owner, outside, ready, inbox, resourceVars, victims, todo, armed>>

\* It becomes active, the multi owns it and is driven at once: it, and others of
\* the group, may be over already.
Start(w) ==
  /\ stage[w] = "start" /\ ~Closed(Head(pending[w])) /\ Go(w, "first")
  /\ LET r == Head(pending[w])
         p == Profile(r)
         over == ready \cap ActiveSet(w, p)
     IN  /\ life' = [life EXCEPT ![r] = "running"]
         /\ \/ victims' = [victims EXCEPT ![w] = over] /\ UNCHANGED ready
            \/ victims' = [victims EXCEPT ![w] = over \cup {r}] /\ ready' = ready \cup {r}
         /\ aged' = [aged EXCEPT ![w] = @ \ {p}]
  /\ Take(w)
  /\ UNCHANGED <<owner, outside, inbox, shard, credits, draining, failed, wake, flagVars,
                 back, todo, armed, faults>>

Driven(w) ==
  /\ stage[w] \in {"first", "drive"} /\ victims[w] = {}
  /\ Go(w, IF stage[w] = "first" THEN "pending" ELSE "inbox")
  /\ UNCHANGED <<requestVars, outside, queueVars, resourceVars, loopVars, faults>>

\* A socket callback fails and notifies, or curl_multi_socket_action does, in
\* the drive that follows a start or in the one just before the inbox.
GroupFails(w, p) ==
  /\ stage[w] \in {"first", "inbox"} /\ Fault /\ p \in Groups(w) \ failed[w]
  /\ failed' = [failed EXCEPT ![w] = @ \cup {p}]
  /\ \/ Wake({w})
     \/ UNCHANGED wake
  /\ UNCHANGED <<requestVars, outside, queueVars, shard, credits, draining, aged, flagVars,
                 stage, loopVars>>

MutantStayRegistered(w) == UNCHANGED waitVars

\* The registrations this pass did not renew are dropped.
Reregister(w) ==
  /\ waitingCredit' = IF w \in passCredit THEN waitingCredit ELSE waitingCredit \ {w}
  /\ waitingCapacity' = IF w \in passCapacity THEN waitingCapacity \cup {w}
                        ELSE waitingCapacity \ {w}

\* On the way to epoll_wait WaitTimeout looks at the clock again.
EndPass(w) ==
  /\ stage[w] = "pending" /\ pending[w] = <<>>
  /\ pending' = [pending EXCEPT ![w] = kept[w]]
  /\ kept' = [kept EXCEPT ![w] = <<>>]
  /\ Reregister(w)
  /\ IF Engine \in closing /\ kept[w] = <<>> THEN Go(w, "seal") /\ UNCHANGED armed
     ELSE Go(w, "parked") /\ armed' = [armed EXCEPT ![w] = Elements(kept[w]) \cap early]
  /\ UNCHANGED <<requestVars, outside, inbox, groupVars, wake, passVars, back, victims, todo,
                 faults>>

\* What ends epoll_wait: the eventfd, a socket or curl timer, a deadline, an
\* idle group's time, a ready_at it was given.
Due(w) ==
  \/ w \in wake
  \/ ready \cap Running(w) # {}
  \/ late \cap (Elements(pending[w]) \cup Running(w)) # {}
  \/ aged[w] \cap Idle(w) # {}
  \/ armed[w] \ early # {}

Awake(w) ==
  /\ stage[w] = "parked" /\ Due(w)
  /\ Go(w, IF ready \cap Running(w) = {} THEN "inbox" ELSE "drive")
  /\ wake' = wake \ {w}
  /\ victims' = [victims EXCEPT ![w] = ready \cap Running(w)]
  /\ armed' = [armed EXCEPT ![w] = {}]
  /\ UNCHANGED <<requestVars, outside, queueVars, groupVars, flagVars, back, todo, faults>>

-----------------------------------------------------------------------------
(* The end of Run                                                          *)

\* epoll_wait fails, or an allocation: the whole engine closes.
ReactorFails(w) ==
  /\ stage[w] \in {"inbox", "parked"} /\ Fault /\ Go(w, "seal")
  /\ closing' = closing \cup {Engine}
  /\ Wake(Workers)
  /\ UNCHANGED <<requestVars, timeVars, submitVars, queueVars, groupVars, flagVars, loopVars,
                 closer>>

\* Nothing enters the inbox from here on.
Seal(w) ==
  /\ stage[w] = "seal" /\ SetClosing(Engine) /\ Go(w, "flush")
  /\ victims' = [victims EXCEPT ![w] = Running(w)]
  /\ UNCHANGED <<requestVars, timeVars, submitVars, queueVars, resourceVars, back, todo,
                 armed, closer, faults>>

\* Those in the inbox, then those pending; FinishRequest ends the running ones.
FlushQueue(w) ==
  /\ stage[w] = "flush" /\ inbox[w] \o pending[w] # <<>>
  /\ Answer(w, Head(inbox[w] \o pending[w]))
  /\ IF inbox[w] # <<>>
     THEN inbox' = [inbox EXCEPT ![w] = Tail(@)] /\ UNCHANGED <<pending, kept>>
     ELSE Take(w) /\ UNCHANGED inbox
  /\ UNCHANGED <<owner, outside, resourceVars, victims, todo, armed, faults>>

FlushGroup(w) ==
  /\ stage[w] = "flush" /\ inbox[w] \o pending[w] = <<>> /\ victims[w] = {} /\ Groups(w) # {}
  /\ RemoveGroup(w, Least(Groups(w)))
  /\ UNCHANGED <<requestVars, outside, queueVars, flagVars, stage, loopVars, faults>>

Stop(w) ==
  /\ stage[w] = "flush" /\ inbox[w] \o pending[w] = <<>> /\ victims[w] = {} /\ Groups(w) = {}
  /\ Go(w, "stopped")
  /\ waitingCredit' = waitingCredit \ {w} /\ waitingCapacity' = waitingCapacity \ {w}
  /\ UNCHANGED <<requestVars, outside, queueVars, groupVars, wake, passVars, loopVars, faults>>

-----------------------------------------------------------------------------
WorkerStep(w) ==
  \/ TakeInbox(w) \/ EvictIdle(w) \/ Evicted(w) \/ ScanGroup(w) \/ GroupScanned(w)
  \/ Drop(w) \/ NotYet(w) \/ WaitForDrain(w) \/ Serve(w) \/ TakeCredit(w) \/ NoCredit(w)
  \/ AskForCredit(w) \/ Reject(w) \/ Start(w) \/ EndPass(w)
  \/ Awake(w) \/ Driven(w) \/ FinishRequest(w) \/ Retire(w)
  \/ Seal(w) \/ FlushQueue(w) \/ FlushGroup(w) \/ Stop(w)

Submission(r) == Push(r) \/ Notify(r)

Closing(x) == CloseWakes(x) \/ CloseReturns(x)

Next ==
  \/ \E w \in Workers : WorkerStep(w) \/ ReactorFails(w)
  \/ \E w \in Workers, p \in Profiles : GroupFails(w, p) \/ GroupAges(w, p)
  \/ \E r \in Requests :
       \/ Admit(r) \/ PushFails(r) \/ Submission(r)
       \/ TransferEnds(r) \/ DeadlinePasses(r) \/ ReadyAtPasses(r)
  \/ \E x \in Targets : BeginClose(x) \/ Closing(x)

Spec == Init /\ [][Next]_vars

\* Threads run, transfers end, and the clock reaches every ready_at; that a
\* deadline or the idle time of a group ever passes is not needed.  What is not a
\* worker's step is done once for each request and closer, so that fairness to
\* all of it together is fairness to each.
Fairness ==
  /\ \A w \in Workers : WF_vars(WorkerStep(w))
  /\ WF_vars(\/ \E r \in Requests : Submission(r) \/ TransferEnds(r) \/ ReadyAtPasses(r)
             \/ \E x \in Targets : Closing(x))

FairSpec == Spec /\ Fairness

-----------------------------------------------------------------------------
(* Properties                                                              *)

QueueOf(w) == inbox[w] \o pending[w] \o kept[w]

\* Types.
TypeOK ==
  /\ life \in [Requests -> Lives] /\ owner \in [Requests -> Workers \cup {NoOne}]
  /\ early \subseteq Requests /\ late \subseteq Requests /\ ready \subseteq Requests
  /\ lock \in Requests \cup {NoOne} /\ notifying \subseteq Requests
  /\ inbox \in [Workers -> Seq(Requests)]
  /\ pending \in [Workers -> Seq(Requests)]
  /\ kept \in [Workers -> Seq(Requests)]
  /\ shard \in [Workers -> [Profiles -> Nat]] /\ credits \in Nat
  /\ draining \in [Workers -> SUBSET Profiles]
  /\ failed \in [Workers -> SUBSET Profiles]
  /\ aged \in [Workers -> SUBSET Profiles]
  /\ wake \subseteq Workers
  /\ waitingCredit \subseteq Workers /\ passCredit \subseteq Workers
  /\ waitingCapacity \subseteq Workers /\ passCapacity \subseteq Workers
  /\ stage \in [Workers -> Stages] /\ back \in [Workers -> Stages]
  /\ victims \in [Workers -> SUBSET Requests] /\ todo \in [Workers -> SUBSET Profiles]
  /\ armed \in [Workers -> SUBSET Requests]
  /\ closing \subseteq Targets
  /\ closer \in [Targets -> {"open", "begun", "waiting", "closed"}]
  /\ faults \in 0..MaxFaults

\* One credit for every connection a shard may open, over all workers.
Held == {h \in Workers \X Profiles \X (1..MaxConnections) : h[3] <= shard[h[1]][h[2]]}

\* The engine's counter of credits is the sum of what its shards hold and never
\* exceeds max_connections; a shard never runs more requests than it holds
\* credits, so a multi with a running request is never removed under it.
CreditsPayForConnections ==
  /\ credits = Cardinality(Held) /\ credits <= MaxConnections
  /\ \A w \in Workers, p \in Profiles : Cardinality(ActiveSet(w, p)) <= shard[w][p]

\* Nothing is about to happen but transfers ending, time passing and new calls.
Asleep ==
  /\ \A w \in Workers : stage[w] = "stopped" \/ (stage[w] = "parked" /\ ~Due(w))
  /\ lock = NoOne /\ notifying = {} /\ \A x \in Targets : closer[x] # "begun"

\* No wake-up is lost, whatever closes or fails meanwhile: when all workers sleep,
\* a request that still waits was not closed and waits for a credit, all of which
\* are taken, while a transfer runs whose end will wake its worker ("Publish before
\* checking capacity", AsyncEngine.cpp:257).  Not so one that was given a ready_at,
\* which the clock read twice can leave untimed (AsyncEngine.cpp:481).
NoLostWakeup ==
  Asleep => \A w \in Workers :
    /\ inbox[w] = <<>>
    /\ \A r \in Elements(pending[w]) : r \in Delayed \/ (Full /\ Active # {} /\ ~Closed(r))

\* A registration for reclaim is its owner's: a worker at rest has one only
\* while a request of its own waits, so no idle connection is given up, and no
\* busy group drained, for a request that is gone.
PressureIsOwned ==
  \A w \in waitingCredit :
    /\ stage[w] # "stopped"
    /\ stage[w] = "parked" => pending[w] # <<>>

\* An accepted request is in one queue of its worker once, or in none because
\* the worker runs it or is ending it: it is neither lost nor answered twice.
EveryRequestHasOneHome ==
  \A r \in Requests : \A w \in Workers :
    Cardinality({i \in DOMAIN QueueOf(w) : QueueOf(w)[i] = r}) =
      IF life[r] = "queued" /\ owner[r] = w THEN 1 ELSE 0

\* A worker that stopped, because the engine closed or because it failed,
\* leaves no request it was handed and no connection behind.
StoppedWorkerOwnsNothing ==
  \A w \in Workers : stage[w] = "stopped" =>
    /\ \A r \in Outstanding : owner[r] # w
    /\ Groups(w) = {}

\* When CloseSession or Close has returned, what was closed has no request left,
\* and will accept none: not even one whose Submit raced the close.
ClosedIsQuiet ==
  \A x \in Targets : closer[x] = "closed" =>
    \A r \in Outstanding : x # Engine /\ SessionOf[r] # x

\* Every accepted request is answered and retired, without a deadline and
\* without an idle group reaching its time.
AcceptedIsRetired == \A r \in Requests : life[r] = "queued" ~> life[r] = "released"

\* CloseSession and Close return.
CloseEnds == \A x \in Targets : closer[x] = "begun" ~> closer[x] = "closed"

\* Idle connections serve demand: when all sleep and a request waits for a
\* credit, no group without a request keeps one.
IdleGroupsServeDemand ==
  Asleep /\ (\E w \in Workers : \E r \in Elements(pending[w]) : r \notin early)
    => \A w \in Workers : Idle(w) = {}

\* A request whose ready_at has passed does not sleep beside a free credit.
DelayIsTimed ==
  Asleep /\ ~Full => \A w \in Workers : Elements(pending[w]) \subseteq early
=============================================================================
