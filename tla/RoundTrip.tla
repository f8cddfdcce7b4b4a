------------------------------ MODULE RoundTrip ------------------------------
(* A synchronous call of the client: TosClientImpl::roundTrip repeats        *)
(* HttpClient::doRequest while checkShouldRetry allows it, rewinding the     *)
(* streams of the request in between. The callers share the handles of       *)
(* CurlContainer and the address of the host that worked last. The kinds of  *)
(* calls are those the retry rules tell apart: "put" (uploadPart of a file   *)
(* from Offset), "complete" (completeMultipartUpload with its parts),        *)
(* "append" (appendObject) and "get" (getObjectToFile).                      *)
EXTENDS Integers, Sequences, FiniteSets

CONSTANTS
  Callers,         \* threads that make one call each
  Kinds,           \* the kinds of calls they make
  Offset, Size,    \* a body is Size units; that of a put begins at Offset of its file
  LengthOf,        \* the units of each version of the object that a get reads
  MaxConnections,  \* CurlContainer::maxPoolSize_
  MaxRetry,        \* Config::maxRetryCount_
  MaxFaults        \* how much goes wrong in a behaviour

ASSUME RoundTripAssumption ==
  /\ IsFiniteSet(Callers)
  /\ Kinds \subseteq {"put", "complete", "append", "get"}
  /\ Offset \in Nat /\ Size \in Nat /\ MaxFaults \in Nat /\ MaxRetry \in Nat
  /\ MaxConnections \in Nat
  /\ LengthOf \in Seq(Nat \ {0}) /\ LengthOf # <<>>

VARIABLES
  kind,        \* what each caller asks for
  call,        \* where each call is, see Calls
  answer,      \* what the caller was told: "none", "ok" or "error"
  effects,     \* the bodies the service applied for each caller
  file,        \* the file of a get: cells <<version, index>>
  free,        \* handles in handleContainer_
  poolSize,    \* CurlContainer::poolSize_
  lastGood,    \* lastGoodAddresses_ of the host: "none", "good" or "cooling"
  version,     \* the version of the object a get is served now
  faults

vars == <<kind, call, answer, effects, file, free, poolSize, lastGood, version, faults>>

Versions == 1 .. Len(LengthOf)
Pcs == {"start", "acquire", "grow", "take", "resolve", "transfer", "performed", "release", "decide", "done"}
Results == {"none", "ok", "busy", "refused", "broken", "failed"}

(* result is "ok" (an expected status), "busy" (429 or 5xx), "refused"       *)
(* (another status), "broken" (a curl error that may be retried) or "failed" *)
(* (any other curl error). pos is the position of the request's stream,      *)
(* wire the units that crossed the network in this attempt.                  *)
Calls == [pc : Pcs, retry : 0 .. MaxRetry, pos : Nat, wire : Seq(Nat), result : Results,
          fallback : BOOLEAN, serving : {0} \cup Versions]

Body == [i \in 1 .. Size |-> i]

Begin(c) == IF kind[c] = "put" THEN Offset ELSE 0

(* The stream of a request body: the file of a put has units before Offset.  *)
Content(c) == [i \in 1 .. Begin(c) |-> 0] \o Body

TypeOK ==
  /\ kind \in [Callers -> Kinds]
  /\ call \in [Callers -> Calls]
  /\ answer \in [Callers -> {"none", "ok", "error"}]
  /\ effects \in [Callers -> Seq(Seq(Nat))]
  /\ file \in [Callers -> Seq(Versions \X Nat)]
  /\ free \in Nat /\ poolSize \in 0 .. MaxConnections
  /\ lastGood \in {"none", "good", "cooling"}
  /\ version \in Versions
  /\ faults \in 0 .. MaxFaults

Init ==
  /\ kind \in [Callers -> Kinds]
  /\ call = [c \in Callers |-> [pc |-> "start", retry |-> 0, pos |-> 0, wire |-> <<>>,
                                result |-> "none", fallback |-> FALSE, serving |-> 0]]
  /\ answer = [c \in Callers |-> "none"]
  /\ effects = [c \in Callers |-> <<>>]
  /\ file = [c \in Callers |-> <<>>]
  /\ free = 0 /\ poolSize = 0 /\ lastGood = "none" /\ version = 1 /\ faults = 0

pool == <<free, poolSize>>
data == <<effects, file>>

Fault == faults < MaxFaults /\ faults' = faults + 1

At(c, pc) == call[c].pc = pc

GoTo(c, pc) == call' = [call EXCEPT ![c].pc = pc]

Finish(c, what) ==
  /\ GoTo(c, "done")
  /\ answer' = [answer EXCEPT ![c] = what]

EndsWith(c, result) == call' = [call EXCEPT ![c].pc = "performed", ![c].result = result]

(* The call is checked: a bad name, an ip or S3 endpoint, a file that cannot *)
(* be opened end it before anything is sent. getObjectToFile truncates.      *)
Start(c) ==
  /\ At(c, "start")
  /\ \/ /\ call' = [call EXCEPT ![c].pc = "acquire", ![c].pos = Begin(c)]
        /\ UNCHANGED <<answer, faults>>
     \/ Fault /\ Finish(c, "error")
  /\ UNCHANGED <<kind, data, pool, lastGood, version>>

(* CurlContainer::Acquire looks first whether a handle is free ...           *)
HasResources(c) ==
  /\ At(c, "acquire")
  /\ GoTo(c, IF free > 0 THEN "take" ELSE "grow")
  /\ UNCHANGED <<kind, answer, data, pool, lastGood, version, faults>>

Least(a, b) == IF a < b THEN a ELSE b
Most(a, b) == IF a < b THEN b ELSE a

\* Mutant: growPool without the limit
AmountToAddUnbounded == 2 * Most(poolSize, 1)

(* What growPool sets out to add, under containerLock_.                      *)
AmountToAdd == Least(2 * Most(poolSize, 1), MaxConnections - poolSize)

(* ... and grows the pool if none was, though another caller may have given  *)
(* one back or grown the pool since. curl_easy_init may fail part way.       *)
GrowPool(c) ==
  /\ At(c, "grow")
  /\ \E added \in 0 .. AmountToAdd :
       /\ IF added = AmountToAdd THEN UNCHANGED faults ELSE Fault
       /\ free' = free + added
       /\ poolSize' = poolSize + added
  /\ GoTo(c, "take")
  /\ UNCHANGED <<kind, answer, data, lastGood, version>>

(* ResourceManager_::Acquire waits until there is one, without growing.      *)
Acquire(c) ==
  /\ At(c, "take") /\ free > 0
  /\ free' = free - 1
  /\ call' = [call EXCEPT ![c].pc = "resolve", ![c].wire = <<>>, ![c].result = "none",
                          ![c].fallback = FALSE, ![c].serving = 0]
  /\ UNCHANGED <<kind, answer, data, poolSize, lastGood, version, faults>>

(* curl_easy_perform resolves the host. When it cannot, doRequest performs   *)
(* again with the address that worked last, if there is one and it is not    *)
(* cooling down. Otherwise, or when a proxy or the time spent rules that out *)
(* or the handle cannot be set up, the error is one that is not retried.     *)
Resolve(c) ==
  /\ At(c, "resolve")
  /\ \/ GoTo(c, "transfer") /\ UNCHANGED faults
     \/ /\ Fault
        /\ \/ EndsWith(c, "failed")
           \/ lastGood = "good" /\ call' = [call EXCEPT ![c].pc = "transfer", ![c].fallback = TRUE]
  /\ UNCHANGED <<kind, answer, data, pool, lastGood, version>>

(* sendBody reads the next unit. A stream that has fewer than the announced  *)
(* ones aborts the transfer, as a stream or a handler that throws does.      *)
SendBody(c) ==
  /\ At(c, "transfer") /\ kind[c] # "get" /\ Len(call[c].wire) < Size
  /\ IF call[c].pos < Len(Content(c))
       THEN \/ /\ call' = [call EXCEPT ![c].wire = Append(@, Content(c)[call[c].pos + 1]), ![c].pos = @ + 1]
               /\ UNCHANGED faults
            \/ Fault /\ EndsWith(c, "failed")
       ELSE EndsWith(c, "failed") /\ UNCHANGED faults
  /\ UNCHANGED <<kind, answer, data, pool, lastGood, version>>

(* The connection is refused, breaks or times out before the service has the *)
(* whole request, or for another reason curl gives up.                       *)
NetworkFails(c) ==
  /\ At(c, "transfer") /\ call[c].serving = 0
  /\ Fault
  /\ \E result \in {"broken", "failed"} : EndsWith(c, result)
  /\ UNCHANGED <<kind, answer, data, pool, lastGood, version>>

(* The service has the whole body: it applies it and says so, or it answers  *)
(* something else, or the answer is lost, whether it applied it or not.      *)
Serve(c) ==
  /\ At(c, "transfer") /\ kind[c] # "get" /\ Len(call[c].wire) = Size
  /\ \/ /\ EndsWith(c, "ok") /\ UNCHANGED faults
        /\ effects' = [effects EXCEPT ![c] = Append(@, call[c].wire)]
     \/ /\ Fault
        /\ \E result \in {"busy", "refused", "broken", "failed"} : EndsWith(c, result)
        /\ effects' \in {effects, [effects EXCEPT ![c] = Append(@, call[c].wire)]}
  /\ UNCHANGED <<kind, answer, file, pool, lastGood, version>>

(* The service begins to answer a get with the object as it is now, or       *)
(* refuses: the body of an error goes to a stream of its own.                *)
ServeGet(c) ==
  /\ At(c, "transfer") /\ kind[c] = "get" /\ call[c].serving = 0
  /\ \/ call' = [call EXCEPT ![c].serving = version] /\ UNCHANGED faults
     \/ Fault /\ \E result \in {"busy", "refused"} : EndsWith(c, result)
  /\ UNCHANGED <<kind, answer, data, pool, lastGood, version>>

(* The cells of a file after a write of one cell at pos.                     *)
Written(cells, pos, cell) == [i \in 1 .. Most(Len(cells), pos + 1) |-> IF i = pos + 1 THEN cell ELSE cells[i]]

(* recvBody writes the next unit at the put position of the stream. The      *)
(* connection may break, and a disk that is full is curl's error 23: both    *)
(* may be retried. The last unit ends the transfer.                          *)
RecvBody(c) ==
  /\ At(c, "transfer") /\ kind[c] = "get" /\ call[c].serving # 0
  /\ LET next == Len(call[c].wire) + 1  IN
     \/ /\ next <= LengthOf[call[c].serving]
        /\ file' = [file EXCEPT ![c] = Written(@, call[c].pos, <<call[c].serving, next>>)]
        /\ call' = [call EXCEPT ![c].wire = Append(@, next), ![c].pos = @ + 1]
        /\ UNCHANGED faults
     \/ /\ next <= LengthOf[call[c].serving]
        /\ Fault /\ EndsWith(c, "broken") /\ UNCHANGED file
     \/ /\ next > LengthOf[call[c].serving]
        /\ EndsWith(c, "ok") /\ UNCHANGED <<file, faults>>
  /\ UNCHANGED <<kind, answer, effects, pool, lastGood, version>>

CurlOk(c) == call[c].result \in {"ok", "busy", "refused"}

(* What the transfer says of the host's address: one that answered is        *)
(* remembered, one that was tried in place of a resolution and did not cools *)
(* down.                                                                     *)
Performed(c) ==
  /\ At(c, "performed")
  /\ lastGood' = CASE CurlOk(c) -> "good"
                   [] ~ CurlOk(c) /\ call[c].fallback /\ lastGood = "good" -> "cooling"
                   [] OTHER -> lastGood
  /\ GoTo(c, "release")
  /\ UNCHANGED <<kind, answer, data, pool, version, faults>>

\* Mutant: the handle of an aborted transfer is not given back
ReleaseUnlessFailed(c) ==
  /\ At(c, "release")
  /\ free' = IF call[c].result = "failed" THEN free ELSE free + 1
  /\ GoTo(c, "decide")
  /\ UNCHANGED <<kind, answer, data, poolSize, lastGood, version, faults>>

Release(c) ==
  /\ At(c, "release")
  /\ free' = free + 1
  /\ GoTo(c, "decide")
  /\ UNCHANGED <<kind, answer, data, poolSize, lastGood, version, faults>>

(* Methods that findInCanRetryMethods knows, and every GET.                  *)
MayRetry(c) == kind[c] \in {"put", "complete", "get"}

\* Mutant: the stream of a get is only cleared, not moved back
RewoundWithoutSeekp(c) == IF kind[c] = "put" THEN Offset ELSE call[c].pos

\* Mutant: the file of a part is read again from its beginning
RewoundToBeginning(c) == IF kind[c] \in {"get", "put"} THEN 0 ELSE call[c].pos

(* Where checkShouldRetry leaves the stream: that of a get at its beginning, *)
(* not truncated, that of a put at the offset it had; the one that holds the *)
(* parts of a complete is left where the last attempt stopped.               *)
Rewound(c) ==
  CASE kind[c] = "get" -> 0
    [] kind[c] = "put" -> Offset
    [] OTHER           -> call[c].pos

(* roundTrip looks at the response: it is the answer, or the request is      *)
(* repeated, or the error is the answer. A checksum that differs makes an    *)
(* error of a success, a stream that cannot seek makes the error final.      *)
Decide(c) ==
  /\ At(c, "decide")
  /\ LET retries == call[c].result \in {"busy", "broken"} /\ MayRetry(c) /\ call[c].retry < MaxRetry  IN
     \/ call[c].result = "ok" /\ Finish(c, "ok") /\ UNCHANGED faults
     \/ call[c].result = "ok" /\ kind[c] # "complete" /\ Fault /\ Finish(c, "error")
     \/ /\ retries
        /\ call' = [call EXCEPT ![c].pc = "acquire", ![c].retry = @ + 1, ![c].pos = Rewound(c)]
        /\ UNCHANGED <<answer, faults>>
     \/ retries /\ kind[c] # "complete" /\ Fault /\ Finish(c, "error")
     \/ call[c].result # "ok" /\ ~ retries /\ Finish(c, "error") /\ UNCHANGED faults
  /\ UNCHANGED <<kind, data, pool, lastGood, version>>

(* kLastGoodFailureCooldown is over.                                         *)
ClockCools ==
  /\ lastGood = "cooling"
  /\ lastGood' = "good"
  /\ UNCHANGED <<kind, call, answer, data, pool, version, faults>>

(* Somebody replaces the object.                                             *)
ObjectChanges ==
  /\ version < Len(LengthOf)
  /\ version' = version + 1
  /\ UNCHANGED <<kind, call, answer, data, pool, lastGood, faults>>

Step(c) ==
  \/ Start(c) \/ HasResources(c) \/ GrowPool(c) \/ Acquire(c) \/ Resolve(c)
  \/ SendBody(c) \/ NetworkFails(c) \/ Serve(c) \/ ServeGet(c) \/ RecvBody(c)
  \/ Performed(c) \/ Release(c) \/ Decide(c)

Next == ClockCools \/ ObjectChanges \/ \E c \in Callers : Step(c)

(* Every caller is a thread of its own: curl ends every transfer, by its     *)
(* timeouts if nothing else does.                                            *)
Spec == Init /\ [][Next]_vars /\ \A c \in Callers : WF_vars(Step(c))

----------------------------------------------------------------------------

Holds(c) == call[c].pc \in {"resolve", "transfer", "performed", "release"}

(* Every handle the pool has ever made is free or held by one caller, and    *)
(* none is lost by the paths of doRequest that give up (an early return, an  *)
(* abort, a fallback): handles lost would make later calls wait for ever.    *)
PoolAddsUp == free + Cardinality({c \in Callers : Holds(c)}) = poolSize

(* A file that a get filled starts with one whole version of the object, as  *)
(* it was when the last attempt was answered, whatever earlier attempts left *)
(* in it: what is left of them is only beyond its end, of an older version.  *)
FileStartsWithOneVersion ==
  \A c \in Callers : kind[c] = "get" /\ answer[c] = "ok" =>
    LET v == call[c].serving  IN
    /\ Len(file[c]) >= LengthOf[v]
    /\ \A i \in 1 .. Len(file[c]) :
         IF i <= LengthOf[v] THEN file[c][i] = <<v, i>> ELSE file[c][i][1] < v

RC == INSTANCE RemoteCall WITH unable <- poolSize = 0

(* The callers see what RemoteCall promises: a retried body is sent from     *)
(* where it begins or not applied at all, an append is never repeated, and   *)
(* every call is answered if a handle can be had at all.                     *)
ImplementsRemoteCall == RC!Spec
=============================================================================
