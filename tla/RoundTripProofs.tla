--------------------------- MODULE RoundTripProofs ---------------------------
(* What RoundTrip promises, for every number of callers, handles, retries    *)
(* and faults, and every sequence of versions of the object.                 *)
EXTENDS RoundTrip, FiniteSetTheorems, SequenceTheorems, TLAPS

(* f has the n units of a body after its first b places.                     *)
HoldsBody(f, b, n) == \A i \in Nat : b < i /\ i <= b + n => f[i] = i - b

(* w are the last units before place p of a stream whose body begins at b.   *)
LastUnits(w, b, p) ==
  Len(w) <= p - b /\ \A i \in 1 .. Len(w) : w[i] = p - b - Len(w) + i

(* The cells of a file whose first pos are of version v, none of a later     *)
(* version than last, and each where its version has it.                     *)
Cells(cells, pos, v, last) ==
  \A i \in 1 .. Len(cells) :
    /\ cells[i][2] = i /\ cells[i][1] <= last /\ i <= LengthOf[cells[i][1]]
    /\ v # 0 => cells[i][1] <= v
    /\ i <= pos => cells[i][1] = v

(* The stream of a body stands where what was sent of it ends.               *)
SentInv(c) ==
  kind[c] # "get" =>
    /\ call[c].pc \notin {"start", "done"} => Begin(c) <= call[c].pos /\ call[c].pos <= Begin(c) + Size
    /\ call[c].pc = "resolve" => call[c].wire = <<>>
    /\ call[c].pc = "transfer" => LastUnits(call[c].wire, Begin(c), call[c].pos)

(* The attempt of a call has been answered, or has failed.                   *)
After(c) == call[c].pc \in {"performed", "release", "decide", "done"}

(* Every attempt has one effect at most, and success had one.                *)
CountInv(c) ==
  /\ kind[c] = "get" => effects[c] = <<>>
  /\ Len(effects[c]) <= call[c].retry + (IF After(c) THEN 1 ELSE 0)
  /\ \A i \in 1 .. Len(effects[c]) : effects[c][i] = Body
  /\ kind[c] = "append" => call[c].retry = 0
  /\ kind[c] # "get" /\ After(c) /\ call[c].result = "ok" => effects[c] # <<>>

(* The stream of a file stands where what was received in this attempt ends; *)
(* a cell is the one its version has there.                                  *)
ReceivedInv(c) ==
  kind[c] = "get" =>
    /\ call[c].pos <= Len(file[c])
    /\ call[c].serving <= version
    /\ call[c].serving = 0 => call[c].pos = 0
    /\ call[c].pc \in {"start", "acquire", "grow", "take", "resolve"} => call[c].pos = 0
    /\ call[c].pc = "resolve" => call[c].wire = <<>> /\ call[c].serving = 0
    /\ call[c].pc = "transfer" => call[c].pos = Len(call[c].wire)
    /\ Cells(file[c], call[c].pos, call[c].serving, version)
    /\ After(c) /\ call[c].result = "ok" => call[c].serving # 0 /\ call[c].pos = LengthOf[call[c].serving]

AnswerInv(c) ==
  /\ answer[c] = "none" <=> call[c].pc # "done"
  /\ answer[c] = "ok" => call[c].result = "ok"
  /\ call[c].pc = "start" => call[c].result = "none"

CallInv(c) == SentInv(c) /\ CountInv(c) /\ ReceivedInv(c) /\ AnswerInv(c)

Core == TypeOK /\ \A c \in Callers : CallInv(c)

(* A step of one call leaves the calls of the others and keeps their type.   *)
LEMMA UpdateType ==
  ASSUME call \in [Callers -> Calls], NEW c \in Callers, NEW r \in Calls,
         call' = [call EXCEPT ![c] = r]
  PROVE  call' \in [Callers -> Calls]
OBVIOUS

LEMMA GoToType ==
  ASSUME call \in [Callers -> Calls], NEW c \in Callers, NEW p \in Pcs, GoTo(c, p)
  PROVE  call' \in [Callers -> Calls] 
<1>1. [call[c] EXCEPT !.pc = p] \in Calls
  BY DEF Calls
<1>2. call' = [call EXCEPT ![c] = [call[c] EXCEPT !.pc = p]]
  BY DEF GoTo
<1> QED BY <1>1, <1>2, UpdateType

LEMMA EndsWithType ==
  ASSUME call \in [Callers -> Calls], NEW c \in Callers, NEW result \in Results, EndsWith(c, result)
  PROVE  call' \in [Callers -> Calls] 
<1>1. [call[c] EXCEPT !.pc = "performed", !.result = result] \in Calls
  BY DEF Calls, Pcs
<1>2. call' = [call EXCEPT ![c] = [call[c] EXCEPT !.pc = "performed", !.result = result]]
  BY DEF EndsWith
<1> QED BY <1>1, <1>2, UpdateType

LEMMA FinishType ==
  ASSUME TypeOK, NEW c \in Callers, NEW what \in {"ok", "error"}, Finish(c, what)
  PROVE  call' \in [Callers -> Calls] /\ answer' \in [Callers -> {"none", "ok", "error"}]
<1>1. call \in [Callers -> Calls] /\ answer \in [Callers -> {"none", "ok", "error"}] /\ "done" \in Pcs
  BY DEF TypeOK, Pcs
<1>2. GoTo(c, "done") /\ answer' = [answer EXCEPT ![c] = what]
  BY DEF Finish
<1> QED BY <1>1, <1>2, GoToType

LEMMA FaultType ==
  ASSUME TypeOK, Fault \/ UNCHANGED faults
  PROVE  faults' \in 0 .. MaxFaults
BY RoundTripAssumption DEF TypeOK, Fault

LEMMA StartType == ASSUME TypeOK, NEW c \in Callers, Start(c) PROVE TypeOK'
<1>1. call' \in [Callers -> Calls] /\ answer' \in [Callers -> {"none", "ok", "error"}]
  <2>1. CASE call' = [call EXCEPT ![c].pc = "acquire", ![c].pos = Begin(c)] /\ answer' = answer
    <3>1. [call[c] EXCEPT !.pc = "acquire", !.pos = Begin(c)] \in Calls
      BY RoundTripAssumption DEF Calls, Pcs, Begin, TypeOK
    <3> QED BY <2>1, <3>1, UpdateType DEF TypeOK
  <2>2. CASE Finish(c, "error")
    BY <2>2, FinishType
  <2> QED BY <2>1, <2>2 DEF Start
<1>2. faults' \in 0 .. MaxFaults
  BY FaultType DEF Start
<1> QED BY <1>1, <1>2 DEF Start, TypeOK, data, pool

LEMMA GrowPoolType == ASSUME TypeOK, NEW c \in Callers, GrowPool(c) PROVE TypeOK'
<1>1. call' \in [Callers -> Calls]
  BY GoToType DEF GrowPool, TypeOK, Pcs
<1>2. faults' \in 0 .. MaxFaults
  BY FaultType DEF GrowPool
<1>3. PICK added \in 0 .. AmountToAdd : free' = free + added /\ poolSize' = poolSize + added
  BY DEF GrowPool
<1>4. AmountToAdd \in Int /\ AmountToAdd <= MaxConnections - poolSize
  BY RoundTripAssumption DEF AmountToAdd, Least, Most, TypeOK
<1>5. free' \in Nat /\ poolSize' \in 0 .. MaxConnections
  BY RoundTripAssumption, <1>3, <1>4 DEF TypeOK
<1> QED BY <1>1, <1>2, <1>5 DEF GrowPool, TypeOK, data

LEMMA AcquireType == ASSUME TypeOK, NEW c \in Callers, Acquire(c) PROVE TypeOK'
<1>1. call' \in [Callers -> Calls]
  <2>1. [call[c] EXCEPT !.pc = "resolve", !.wire = <<>>, !.result = "none", !.fallback = FALSE, !.serving = 0]
        \in Calls
    <3>1. call[c] \in Calls
      BY DEF TypeOK
    <3>2. "resolve" \in Pcs /\ "none" \in Results /\ <<>> \in Seq(Nat) /\ FALSE \in BOOLEAN
      BY DEF Pcs, Results
    <3> QED BY <3>1, <3>2 DEF Calls
  <2> QED BY <2>1, UpdateType DEF Acquire, TypeOK
<1> QED BY <1>1 DEF Acquire, TypeOK, data

LEMMA ResolveType == ASSUME TypeOK, NEW c \in Callers, Resolve(c) PROVE TypeOK'
<1>1. call' \in [Callers -> Calls]
  <2>1. CASE GoTo(c, "transfer")
    BY <2>1, GoToType DEF TypeOK, Pcs
  <2>2. CASE EndsWith(c, "failed")
    BY <2>2, EndsWithType DEF TypeOK, Results
  <2>3. CASE call' = [call EXCEPT ![c].pc = "transfer", ![c].fallback = TRUE]
    <3>1. [call[c] EXCEPT !.pc = "transfer", !.fallback = TRUE] \in Calls
      BY DEF Calls, Pcs, TypeOK
    <3> QED BY <2>3, <3>1, UpdateType DEF TypeOK
  <2> QED BY <2>1, <2>2, <2>3 DEF Resolve
<1>2. faults' \in 0 .. MaxFaults
  BY FaultType DEF Resolve
<1> QED BY <1>1, <1>2 DEF Resolve, TypeOK, data, pool

LEMMA SendBodyType == ASSUME TypeOK, NEW c \in Callers, SendBody(c) PROVE TypeOK'
<1>1. call' \in [Callers -> Calls]
  <2>1. CASE EndsWith(c, "failed")
    BY <2>1, EndsWithType DEF TypeOK, Results
  <2>2. CASE /\ call[c].pos < Len(Content(c))
             /\ call' = [call EXCEPT ![c].wire = Append(@, Content(c)[call[c].pos + 1]), ![c].pos = @ + 1]
    <3>1. Content(c) \in Seq(Nat) /\ call[c] \in Calls
      BY RoundTripAssumption DEF Content, Begin, Body, TypeOK
    <3>2. Content(c)[call[c].pos + 1] \in Nat
      BY <2>2, <3>1 DEF Calls
    <3>3. Append(call[c].wire, Content(c)[call[c].pos + 1]) \in Seq(Nat) /\ call[c].pos + 1 \in Nat
      BY <3>1, <3>2 DEF Calls
    <3>4. [call[c] EXCEPT !.wire = Append(call[c].wire, Content(c)[call[c].pos + 1]), !.pos = call[c].pos + 1]
          \in Calls
      BY <3>1, <3>3 DEF Calls
    <3>5. call' = [call EXCEPT ![c] = [call[c] EXCEPT !.wire = Append(call[c].wire, Content(c)[call[c].pos + 1]),
                                                      !.pos = call[c].pos + 1]]
      BY <2>2
    <3> QED BY <3>4, <3>5, UpdateType DEF TypeOK
  <2> QED BY <2>1, <2>2 DEF SendBody
<1>2. faults' \in 0 .. MaxFaults
  BY FaultType DEF SendBody
<1> QED BY <1>1, <1>2 DEF SendBody, TypeOK, data, pool

LEMMA NetworkFailsType == ASSUME TypeOK, NEW c \in Callers, NetworkFails(c) PROVE TypeOK'
<1>1. call' \in [Callers -> Calls]
  BY EndsWithType DEF NetworkFails, TypeOK, Results
<1>2. faults' \in 0 .. MaxFaults
  BY FaultType DEF NetworkFails
<1> QED BY <1>1, <1>2 DEF NetworkFails, TypeOK, data, pool

LEMMA ServeType == ASSUME TypeOK, NEW c \in Callers, Serve(c) PROVE TypeOK'
<1>1. call' \in [Callers -> Calls]
  BY EndsWithType DEF Serve, TypeOK, Results
<1>2. faults' \in 0 .. MaxFaults
  BY FaultType DEF Serve
<1>3. Append(effects[c], call[c].wire) \in Seq(Seq(Nat))
  BY DEF TypeOK, Calls
<1>4. effects' \in {effects, [effects EXCEPT ![c] = Append(@, call[c].wire)]}
  BY DEF Serve
<1>5. effects' \in [Callers -> Seq(Seq(Nat))]
  BY <1>3, <1>4 DEF TypeOK
<1> QED BY <1>1, <1>2, <1>5 DEF Serve, TypeOK, pool

LEMMA ServeGetType == ASSUME TypeOK, NEW c \in Callers, ServeGet(c) PROVE TypeOK'
<1>1. call' \in [Callers -> Calls]
  <2>1. CASE call' = [call EXCEPT ![c].serving = version]
    <3>1. [call[c] EXCEPT !.serving = version] \in Calls
      BY DEF Calls, TypeOK
    <3> QED BY <2>1, <3>1, UpdateType DEF TypeOK
  <2>2. CASE \E result \in {"busy", "refused"} : EndsWith(c, result)
    BY <2>2, EndsWithType DEF TypeOK, Results
  <2> QED BY <2>1, <2>2 DEF ServeGet
<1>2. faults' \in 0 .. MaxFaults
  BY FaultType DEF ServeGet
<1> QED BY <1>1, <1>2 DEF ServeGet, TypeOK, data, pool

(* What a write leaves in a file.                                            *)
LEMMA WrittenType ==
  ASSUME NEW S, NEW cells \in Seq(S), NEW pos \in Nat, NEW cell \in S, pos <= Len(cells)
  PROVE  /\ Written(cells, pos, cell) \in Seq(S)
         /\ Len(Written(cells, pos, cell)) = Most(Len(cells), pos + 1)
         /\ \A i \in 1 .. Most(Len(cells), pos + 1) :
              Written(cells, pos, cell)[i] = IF i = pos + 1 THEN cell ELSE cells[i]
<1>1. Most(Len(cells), pos + 1) \in Nat
  BY DEF Most
<1>2. \A i \in 1 .. Most(Len(cells), pos + 1) : (IF i = pos + 1 THEN cell ELSE cells[i]) \in S
  <2>1. SUFFICES ASSUME NEW i \in 1 .. Most(Len(cells), pos + 1), i # pos + 1 PROVE cells[i] \in S
    OBVIOUS
  <2>2. i \in 1 .. Len(cells)
    BY <2>1 DEF Most
  <2> QED BY <2>2
<1> QED BY <1>1, <1>2 DEF Written

LEMMA RecvBodyType == ASSUME Core, NEW c \in Callers, RecvBody(c) PROVE TypeOK'
<1>0. TypeOK /\ call[c] \in Calls
  BY DEF Core, TypeOK
<1>1. call[c] \in Calls /\ call[c].serving \in Versions /\ TypeOK
  BY <1>0 DEF Calls, RecvBody
<1> DEFINE next == Len(call[c].wire) + 1
<1>2. next \in Nat
  BY <1>1 DEF Calls
<1>3. CASE /\ file' = [file EXCEPT ![c] = Written(@, call[c].pos, <<call[c].serving, next>>)]
           /\ call' = [call EXCEPT ![c].wire = Append(@, next), ![c].pos = @ + 1]
  <2>1. Append(call[c].wire, next) \in Seq(Nat) /\ call[c].pos + 1 \in Nat /\ call[c].pos \in Nat
    BY <1>1, <1>2 DEF Calls
  <2>2. [call[c] EXCEPT !.wire = Append(call[c].wire, next), !.pos = call[c].pos + 1] \in Calls
    BY <1>1, <2>1 DEF Calls
  <2>3. call' = [call EXCEPT ![c] = [call[c] EXCEPT !.wire = Append(call[c].wire, next), !.pos = call[c].pos + 1]]
    BY <1>3
  <2>4. call' \in [Callers -> Calls]
    BY <2>2, <2>3, UpdateType DEF Core, TypeOK
  <2>5. <<call[c].serving, next>> \in Versions \X Nat /\ file[c] \in Seq(Versions \X Nat)
    BY <1>1, <1>2 DEF TypeOK
  <2>6. call[c].pos <= Len(file[c])
    BY DEF Core, CallInv, ReceivedInv, RecvBody
  <2>7. Written(file[c], call[c].pos, <<call[c].serving, next>>) \in Seq(Versions \X Nat)
    BY <2>1, <2>5, <2>6, WrittenType
  <2>8. file' \in [Callers -> Seq(Versions \X Nat)]
    BY <1>3, <2>7 DEF Core, TypeOK
  <2>9. faults' \in 0 .. MaxFaults
    BY <1>1, FaultType DEF RecvBody
  <2> QED BY <2>4, <2>8, <2>9 DEF RecvBody, Core, TypeOK, pool
<1>4. CASE file' = file /\ \E result \in {"broken", "ok"} : EndsWith(c, result)
  <2>1. call' \in [Callers -> Calls]
    BY <1>4, EndsWithType DEF Core, TypeOK, Results
  <2>2. faults' \in 0 .. MaxFaults
    BY <1>1, FaultType DEF RecvBody
  <2> QED BY <1>4, <2>1, <2>2 DEF RecvBody, Core, TypeOK, pool
<1> QED BY <1>3, <1>4 DEF RecvBody

LEMMA DecideType == ASSUME TypeOK, NEW c \in Callers, Decide(c) PROVE TypeOK'
<1>1. call' \in [Callers -> Calls] /\ answer' \in [Callers -> {"none", "ok", "error"}]
  <2>1. CASE \E what \in {"ok", "error"} : Finish(c, what)
    BY <2>1, FinishType
  <2>2. CASE /\ call[c].retry < MaxRetry /\ answer' = answer
             /\ call' = [call EXCEPT ![c].pc = "acquire", ![c].retry = @ + 1, ![c].pos = Rewound(c)]
    <3>1. call[c] \in Calls /\ Rewound(c) \in Nat
      BY RoundTripAssumption DEF TypeOK, Calls, Rewound
    <3>2. call[c].retry + 1 \in 0 .. MaxRetry /\ "acquire" \in Pcs
      BY <2>2, <3>1, RoundTripAssumption DEF Calls, Pcs
    <3>3. [call[c] EXCEPT !.pc = "acquire", !.retry = call[c].retry + 1, !.pos = Rewound(c)] \in Calls
      BY <3>1, <3>2 DEF Calls
    <3>4. call' = [call EXCEPT ![c] = [call[c] EXCEPT !.pc = "acquire", !.retry = call[c].retry + 1,
                                                      !.pos = Rewound(c)]]
      BY <2>2
    <3> QED BY <2>2, <3>3, <3>4, UpdateType DEF TypeOK
  <2> QED BY <2>1, <2>2 DEF Decide
<1>2. faults' \in 0 .. MaxFaults
  BY FaultType DEF Decide
<1> QED BY <1>1, <1>2 DEF Decide, TypeOK, data, pool

LEMMA TypeStep == Core /\ [Next]_vars => TypeOK'
<1> SUFFICES ASSUME Core, [Next]_vars PROVE TypeOK'
  OBVIOUS
<1>0. TypeOK
  BY DEF Core
<1>1. CASE UNCHANGED vars
  BY <1>0, <1>1 DEF vars, TypeOK
<1>2. CASE ClockCools
  BY <1>0, <1>2 DEF ClockCools, TypeOK, data, pool
<1>3. CASE ObjectChanges
  BY <1>0, <1>3 DEF ObjectChanges, Versions, TypeOK, data, pool
<1>4. ASSUME NEW c \in Callers, Step(c) PROVE TypeOK'
  <2>1. CASE HasResources(c)
    <3>1. call' \in [Callers -> Calls]
      BY <1>0, <2>1, GoToType DEF HasResources, TypeOK, Pcs
    <3> QED BY <1>0, <2>1, <3>1 DEF HasResources, TypeOK, data, pool
  <2>2. CASE Performed(c)
    <3>1. call' \in [Callers -> Calls]
      BY <1>0, <2>2, GoToType DEF Performed, TypeOK, Pcs
    <3> QED BY <1>0, <2>2, <3>1 DEF Performed, TypeOK, data, pool
  <2>3. CASE Release(c)
    <3>1. call' \in [Callers -> Calls]
      BY <1>0, <2>3, GoToType DEF Release, TypeOK, Pcs
    <3> QED BY <1>0, <2>3, <3>1 DEF Release, TypeOK, data
  <2> QED
    BY <1>0, <1>4, <2>1, <2>2, <2>3, StartType, GrowPoolType, AcquireType, ResolveType, SendBodyType,
       NetworkFailsType, ServeType, ServeGetType, RecvBodyType, DecideType DEF Step
<1> QED BY <1>1, <1>2, <1>3, <1>4 DEF Next

----------------------------------------------------------------------------

(* The calls of the other callers, and one that a step does not touch.       *)
LEMMA OthersKeep ==
  ASSUME Core, NEW d \in Callers, UNCHANGED kind, call'[d] = call[d], answer'[d] = answer[d],
         effects'[d] = effects[d], file'[d] = file[d], version' \in Nat, version <= version'
  PROVE  CallInv(d)'
<1>1. CallInv(d) /\ TypeOK
  BY DEF Core
<1>2. SentInv(d)'
  BY <1>1 DEF CallInv, SentInv, Begin
<1>3. CountInv(d)'
  BY <1>1 DEF CallInv, CountInv, After
<1>4. AnswerInv(d)'
  BY <1>1 DEF CallInv, AnswerInv
<1>5. ReceivedInv(d)'
  <2>1. SUFFICES ASSUME kind[d] = "get" PROVE ReceivedInv(d)'
    BY DEF ReceivedInv
  <2>2. ReceivedInv(d)
    BY <1>1 DEF CallInv
  <2>3. version \in Nat /\ call[d].serving \in Nat /\ \A i \in 1 .. Len(file[d]) : file[d][i][1] \in Nat
    <3>1. file[d] \in Seq(Versions \X Nat) /\ call[d] \in Calls /\ version \in Versions
      BY <1>1 DEF TypeOK
    <3>2. \A i \in 1 .. Len(file[d]) : file[d][i] \in Versions \X Nat
      BY <3>1
    <3>3. Versions \subseteq Nat
      BY DEF Versions
    <3>4. \A x \in Versions \X Nat : x[1] \in Nat
      BY <3>3
    <3>5. call[d].serving \in {0} \cup Versions
      BY <3>1 DEF Calls
    <3>6. version \in Nat /\ call[d].serving \in Nat
      <4>1. version \in Nat
        BY <3>1 DEF Versions
      <4>2. call[d].serving \in Nat
        BY <3>5 DEF Versions
      <4> QED BY <4>1, <4>2
    <3>7. \A i \in 1 .. Len(file[d]) : file[d][i][1] \in Nat
      BY <3>2, <3>4
    <3> QED BY <3>6, <3>7
  <2> QED BY <2>1, <2>2, <2>3 DEF ReceivedInv, After, Cells
<1> QED BY <1>2, <1>3, <1>4, <1>5 DEF CallInv

LEMMA AllOthersKeep ==
  ASSUME Core, NEW c \in Callers, UNCHANGED <<kind, version>>,
         \A d \in Callers \ {c} : call'[d] = call[d] /\ answer'[d] = answer[d]
                                  /\ effects'[d] = effects[d] /\ file'[d] = file[d]
  PROVE  \A d \in Callers \ {c} : CallInv(d)'
<1>1. version \in Nat /\ version' \in Nat /\ version <= version'
  BY DEF Core, TypeOK, Versions
<1>2. SUFFICES ASSUME NEW d \in Callers \ {c} PROVE CallInv(d)'
  OBVIOUS
<1> QED BY <1>1, <1>2, OthersKeep

(* What the moves of a call change, field by field.                          *)
LEMMA GoToFields ==
  ASSUME TypeOK, NEW c \in Callers, NEW p, GoTo(c, p)
  PROVE  /\ call'[c].pc = p
         /\ call'[c].retry = call[c].retry /\ call'[c].pos = call[c].pos /\ call'[c].wire = call[c].wire
         /\ call'[c].result = call[c].result /\ call'[c].serving = call[c].serving
         /\ \A d \in Callers \ {c} : call'[d] = call[d]
BY DEF TypeOK, Calls, GoTo

LEMMA EndsWithFields ==
  ASSUME TypeOK, NEW c \in Callers, NEW result, EndsWith(c, result)
  PROVE  /\ call'[c].pc = "performed" /\ call'[c].result = result
         /\ call'[c].retry = call[c].retry /\ call'[c].pos = call[c].pos /\ call'[c].wire = call[c].wire
         /\ call'[c].serving = call[c].serving
         /\ \A d \in Callers \ {c} : call'[d] = call[d]
BY DEF TypeOK, Calls, EndsWith

(* The fields of a call and what they range over.                            *)
LEMMA Fields ==
  ASSUME Core, NEW c \in Callers
  PROVE  /\ call[c].retry \in 0 .. MaxRetry /\ call[c].pos \in Nat /\ call[c].wire \in Seq(Nat)
         /\ call[c].serving \in {0} \cup Versions /\ call[c].pc \in Pcs /\ call[c].result \in Results
         /\ Len(call[c].wire) \in Nat /\ Len(effects[c]) \in Nat /\ MaxRetry \in Nat /\ Begin(c) \in Nat /\ version \in Versions /\ version \in Nat
         /\ kind[c] \in Kinds /\ effects[c] \in Seq(Seq(Nat)) /\ file[c] \in Seq(Versions \X Nat)
         /\ SentInv(c) /\ CountInv(c) /\ ReceivedInv(c) /\ AnswerInv(c)
<1>1. TypeOK /\ CallInv(c)
  BY DEF Core
<1>2. call[c] \in Calls /\ version \in Versions /\ version \in Nat
  BY <1>1 DEF TypeOK, Versions
<1>3. kind[c] \in Kinds /\ effects[c] \in Seq(Seq(Nat)) /\ file[c] \in Seq(Versions \X Nat)
  BY <1>1 DEF TypeOK
<1>4. Begin(c) \in Nat
  BY RoundTripAssumption DEF Begin
<1> QED BY <1>1, <1>2, <1>3, <1>4, RoundTripAssumption DEF Calls, CallInv

(* A move that only advances a call on its way to the transfer.              *)
LEMMA QuietMove ==
  ASSUME Core, NEW c \in Callers, NEW p, GoTo(c, p),
         UNCHANGED <<kind, effects, file, answer, version>>,
         \/ call[c].pc \in {"acquire", "grow"} /\ p \in {"grow", "take"}
         \/ call[c].pc = "resolve" /\ p = "transfer"
         \/ call[c].pc \in {"performed", "release"} /\ p \in {"release", "decide"}
  PROVE  CallInv(c)'
<1>1. TypeOK
  BY DEF Core
<1>2. SentInv(c)'
  <2>1. Begin(c)' = Begin(c)
    BY DEF Begin
  <2>2. CASE call[c].pc = "resolve" /\ p = "transfer"
    <3>1. kind[c] # "get" => LastUnits(<<>>, Begin(c), call[c].pos)
      BY <2>2, Fields DEF SentInv, LastUnits
    <3> QED BY <1>1, <2>1, <2>2, <3>1, GoToFields, Fields DEF SentInv
  <2>3. CASE ~ (call[c].pc = "resolve" /\ p = "transfer")
    BY <1>1, <2>1, <2>3, GoToFields, Fields DEF SentInv
  <2> QED BY <2>2, <2>3
<1>3. CountInv(c)'
  BY <1>1, GoToFields, Fields DEF CountInv, After
<1>4. AnswerInv(c)'
  BY <1>1, GoToFields, Fields DEF AnswerInv
<1>5. ReceivedInv(c)'
  <2>1. SUFFICES ASSUME kind[c] = "get" PROVE ReceivedInv(c)'
    BY DEF ReceivedInv
  <2>2. /\ call'[c].pc = p /\ call'[c].pos = call[c].pos /\ call'[c].wire = call[c].wire
        /\ call'[c].result = call[c].result /\ call'[c].serving = call[c].serving
    BY <1>1, GoToFields
  <2>3. ReceivedInv(c)
    BY Fields
  <2>4. call[c].pc = "resolve" => call[c].pos = Len(call[c].wire)
    BY <2>1, <2>3 DEF ReceivedInv
  <2> QED BY <2>1, <2>2, <2>3, <2>4 DEF ReceivedInv, After
<1> QED BY <1>2, <1>3, <1>4, <1>5 DEF CallInv

(* An attempt that ends without an effect and without success.               *)
LEMMA FailedMove ==
  ASSUME Core, NEW c \in Callers, NEW result \in Results \ {"ok"}, EndsWith(c, result),
         call[c].pc \in {"resolve", "transfer"}, UNCHANGED <<kind, effects, file, answer, version>>
  PROVE  CallInv(c)'
<1>1. TypeOK
  BY DEF Core
<1>2. SentInv(c)'
  BY <1>1, EndsWithFields, Fields DEF SentInv, Begin
<1>3. CountInv(c)'
  <2>1. /\ call'[c].result # "ok" /\ After(c)' /\ call'[c].retry = call[c].retry
        /\ UNCHANGED <<kind, effects>>
    BY <1>1, EndsWithFields DEF After
  <2>2. Len(effects[c]) <= call[c].retry + 1
    <3>1. CountInv(c) /\ ~ After(c) /\ call[c].retry \in Nat /\ Len(effects[c]) \in Nat
      BY Fields DEF After
    <3> QED BY <3>1 DEF CountInv
  <2> QED BY <2>1, <2>2, Fields DEF CountInv
<1>4. AnswerInv(c)'
  BY <1>1, EndsWithFields, Fields DEF AnswerInv
<1>5. ReceivedInv(c)'
  BY <1>1, EndsWithFields, Fields DEF ReceivedInv, After
<1> QED BY <1>2, <1>3, <1>4, <1>5 DEF CallInv

(* A call that is answered.                                                  *)
LEMMA FinishMove ==
  ASSUME Core, NEW c \in Callers, NEW what \in {"ok", "error"}, Finish(c, what),
         call[c].pc \in {"start", "decide"}, what = "ok" => call[c].result = "ok",
         UNCHANGED <<kind, effects, file, version>>
  PROVE  CallInv(c)'
<1>1. TypeOK /\ GoTo(c, "done") /\ answer'[c] = what
  BY DEF Core, Finish, TypeOK
<1>2. SentInv(c)'
  BY <1>1, GoToFields, Fields DEF SentInv, Begin
<1>0. call[c].result = "ok" => call[c].pc = "decide"
  BY Fields DEF AnswerInv
<1>3. CountInv(c)'
  <2>1. CASE call[c].pc = "decide"
    BY <1>1, <2>1, GoToFields, Fields DEF CountInv, After
  <2>2. CASE call[c].pc = "start"
    <3>1. /\ call'[c].result # "ok" /\ After(c)' /\ call'[c].retry = call[c].retry /\ ~ After(c)
      BY <1>0, <1>1, <2>2, GoToFields DEF After
    <3>2. CountInv(c) /\ call[c].retry \in Nat /\ Len(effects[c]) \in Nat
      BY Fields
    <3> QED BY <3>1, <3>2 DEF CountInv
  <2> QED BY <2>1, <2>2
<1>4. AnswerInv(c)'
  BY <1>1, GoToFields, Fields DEF AnswerInv
<1>5. ReceivedInv(c)'
  BY <1>0, <1>1, GoToFields, Fields DEF ReceivedInv, After
<1> QED BY <1>2, <1>3, <1>4, <1>5 DEF CallInv

LEMMA StartStep ==
  ASSUME Core, NEW c \in Callers, Start(c)
  PROVE  CallInv(c)' /\ \A d \in Callers \ {c} : CallInv(d)'
<1>1. TypeOK /\ call[c].pc = "start" /\ UNCHANGED <<kind, effects, file, version>>
  BY DEF Core, Start, At, data
<1>2. CASE call' = [call EXCEPT ![c].pc = "acquire", ![c].pos = Begin(c)] /\ answer' = answer
  <2>1. /\ call'[c].pc = "acquire" /\ call'[c].pos = Begin(c) /\ call'[c].retry = call[c].retry
        /\ call'[c].serving = call[c].serving /\ call'[c].result = call[c].result
        /\ \A d \in Callers \ {c} : call'[d] = call[d]
    BY <1>1, <1>2 DEF TypeOK, Calls
  <2>2. Begin(c)' = Begin(c) /\ Begin(c) \in Nat /\ Size \in Nat /\ (kind[c] = "get" => Begin(c) = 0)
    BY <1>1, RoundTripAssumption DEF Begin
  <2>3. SentInv(c)'
    BY <1>1, <2>1, <2>2 DEF SentInv
  <2>4. CountInv(c)'
    BY <1>1, <2>1, Fields DEF CountInv, After
  <2>5. AnswerInv(c)'
    BY <1>1, <1>2, <2>1, Fields DEF AnswerInv
  <2>6. ReceivedInv(c)'
    <3>1. ReceivedInv(c) /\ call[c].result = "none"
      BY <1>1, Fields DEF AnswerInv
    <3> QED BY <1>1, <2>1, <2>2, <3>1 DEF ReceivedInv, After
  <2>7. CallInv(c)'
    BY <2>3, <2>4, <2>5, <2>6 DEF CallInv
  <2> QED BY <1>1, <1>2, <2>1, <2>7, AllOthersKeep
<1>3. CASE Finish(c, "error")
  <2>1. GoTo(c, "done") /\ answer' = [answer EXCEPT ![c] = "error"]
    BY <1>3 DEF Finish
  <2>2. \A d \in Callers \ {c} : call'[d] = call[d] /\ answer'[d] = answer[d]
    BY <1>1, <2>1, GoToFields DEF TypeOK
  <2> QED BY <1>1, <1>3, <2>2, FinishMove, AllOthersKeep
<1> QED BY <1>2, <1>3 DEF Start

LEMMA AcquireStep ==
  ASSUME Core, NEW c \in Callers, Acquire(c)
  PROVE  CallInv(c)' /\ \A d \in Callers \ {c} : CallInv(d)'
<1>1. TypeOK /\ call[c].pc = "take" /\ UNCHANGED <<kind, answer, effects, file, version>>
  BY DEF Core, Acquire, At, data
<1>2. /\ call'[c].pc = "resolve" /\ call'[c].pos = call[c].pos /\ call'[c].retry = call[c].retry
      /\ call'[c].serving = 0 /\ call'[c].result = "none" /\ call'[c].wire = <<>>
      /\ \A d \in Callers \ {c} : call'[d] = call[d]
  BY <1>1 DEF Acquire, TypeOK, Calls
<1>3. SentInv(c)'
  BY <1>1, <1>2, Fields DEF SentInv, Begin
<1>4. CountInv(c)'
  BY <1>1, <1>2, Fields DEF CountInv, After
<1>5. AnswerInv(c)'
  BY <1>1, <1>2, Fields DEF AnswerInv
<1>6. ReceivedInv(c)'
  <2>1. SUFFICES ASSUME kind[c] = "get" PROVE ReceivedInv(c)'
    BY <1>1 DEF ReceivedInv
  <2>2. ReceivedInv(c) /\ version \in Nat
    BY Fields
  <2>3. Cells(file[c], call[c].pos, 0, version)
    BY <1>1, <2>1, <2>2 DEF ReceivedInv, Cells
  <2> QED BY <1>1, <1>2, <2>1, <2>2, <2>3 DEF ReceivedInv, After
<1> QED BY <1>1, <1>2, <1>3, <1>4, <1>5, <1>6, AllOthersKeep DEF CallInv

(* The stream of a body from where it begins.                                *)
LEMMA ContentUnits ==
  ASSUME Core, NEW c \in Callers
  PROVE  Len(Content(c)) = Begin(c) + Size /\ HoldsBody(Content(c), Begin(c), Size)
<1>1. Begin(c) \in Nat /\ Size \in Nat
  BY Fields, RoundTripAssumption
<1> DEFINE zeros == [i \in 1 .. Begin(c) |-> 0]
<1>2. zeros \in Seq(Nat) /\ Len(zeros) = Begin(c) /\ Body \in Seq(Nat) /\ Len(Body) = Size
  BY <1>1 DEF Body
<1>3. Content(c) = zeros \o Body
  BY DEF Content
<1>4. \A i \in 1 .. Size : Body[i] = i
  BY DEF Body
<1> HIDE DEF zeros
<1>5. /\ Len(zeros \o Body) = Begin(c) + Size
      /\ \A i \in 1 .. Begin(c) + Size : (zeros \o Body)[i] = IF i <= Begin(c) THEN zeros[i] ELSE Body[i - Begin(c)]
  <2>1. /\ Len(zeros \o Body) = Len(zeros) + Len(Body)
        /\ \A i \in 1 .. Len(zeros) + Len(Body) :
             (zeros \o Body)[i] = IF i <= Len(zeros) THEN zeros[i] ELSE Body[i - Len(zeros)]
    BY <1>2, ConcatProperties
  <2> QED BY <1>2, <2>1
<1>6. ASSUME NEW i \in Nat, Begin(c) < i, i <= Begin(c) + Size PROVE Content(c)[i] = i - Begin(c)
  <2>1. i \in 1 .. Begin(c) + Size /\ ~ i <= Begin(c) /\ i - Begin(c) \in 1 .. Size
    BY <1>1, <1>6
  <2> QED BY <1>3, <1>4, <1>5, <2>1
<1> QED BY <1>3, <1>5, <1>6 DEF HoldsBody

(* Numbers, for what the solver does not see through the records.            *)
LEMMA NextUnit ==
  ASSUME NEW f, NEW b \in Nat, NEW n \in Nat, NEW p \in Nat, b <= p, p < b + n,
         HoldsBody(f, b, n)
  PROVE  f[p + 1] = p + 1 - b /\ p + 1 - b \in Nat
<1>1. p + 1 \in Nat /\ b < p + 1 /\ p + 1 <= b + n
  OBVIOUS
<1>2. f[p + 1] = p + 1 - b
  BY <1>1 DEF HoldsBody
<1>3. p + 1 - b \in Nat
  BY <1>1
<1> QED BY <1>2, <1>3

LEMMA NextWire ==
  ASSUME NEW b \in Nat, NEW p \in Nat, NEW w \in Seq(Nat), NEW unit \in Nat, unit = p + 1 - b,
         LastUnits(w, b, p)
  PROVE  LastUnits(Append(w, unit), b, p + 1)
<1> DEFINE l == Len(w)
<1>1. /\ Len(Append(w, unit)) = l + 1 /\ l \in Nat
      /\ \A i \in 1 .. l : Append(w, unit)[i] = w[i]
      /\ Append(w, unit)[l + 1] = unit
  BY AppendProperties
<1>2. l <= p - b /\ \A i \in 1 .. l : w[i] = p - b - l + i
  BY DEF LastUnits
<1> HIDE DEF l
<1>3. ASSUME NEW i \in 1 .. l + 1 PROVE Append(w, unit)[i] = p + 1 - b - (l + 1) + i
  <2>1. CASE i = l + 1
    BY <1>1, <2>1
  <2>2. CASE i # l + 1
    <3>1. i \in 1 .. l
      BY <1>1, <2>2
    <3>2. Append(w, unit)[i] = p - b - l + i
      BY <1>1, <1>2, <3>1
    <3> QED BY <1>1, <3>1, <3>2
  <2> QED BY <2>1, <2>2
<1>4. l + 1 <= p + 1 - b
  BY <1>1, <1>2
<1> DEFINE a == Append(w, unit)
<1>5. Len(a) = l + 1 /\ \A i \in 1 .. l + 1 : a[i] = p + 1 - b - (l + 1) + i
  BY <1>1, <1>3
<1> HIDE DEF a
<1>6. LastUnits(a, b, p + 1)
  BY <1>4, <1>5 DEF LastUnits
<1> QED BY <1>6 DEF a

LEMMA SendBodyStep ==
  ASSUME Core, NEW c \in Callers, SendBody(c)
  PROVE  CallInv(c)' /\ \A d \in Callers \ {c} : CallInv(d)'
<1>1. TypeOK /\ call[c].pc = "transfer" /\ kind[c] # "get"
      /\ UNCHANGED <<kind, answer, effects, file, version>>
  BY DEF Core, SendBody, At, data
<1>2. CASE EndsWith(c, "failed")
  <2>1. \A d \in Callers \ {c} : call'[d] = call[d]
    BY <1>1, <1>2, EndsWithFields
  <2> QED BY <1>1, <1>2, <2>1, FailedMove, AllOthersKeep DEF Results
<1>3. CASE /\ call[c].pos < Len(Content(c))
           /\ call' = [call EXCEPT ![c].wire = Append(@, Content(c)[call[c].pos + 1]), ![c].pos = @ + 1]
  <2> DEFINE unit == Content(c)[call[c].pos + 1]
  <2>1. /\ call'[c].pc = "transfer" /\ call'[c].pos = call[c].pos + 1 /\ call'[c].retry = call[c].retry
        /\ call'[c].serving = call[c].serving /\ call'[c].result = call[c].result
        /\ call'[c].wire = Append(call[c].wire, unit)
        /\ \A d \in Callers \ {c} : call'[d] = call[d]
    BY <1>1, <1>3 DEF TypeOK, Calls
  <2>2. /\ Begin(c)' = Begin(c) /\ Begin(c) \in Nat /\ Size \in Nat /\ call[c].pos \in Nat
        /\ call[c].wire \in Seq(Nat) /\ Len(call[c].wire) \in Nat
    BY <1>1, Fields, RoundTripAssumption DEF Begin
  <2>3. Begin(c) <= call[c].pos /\ call[c].pos < Begin(c) + Size
    BY <1>1, <1>3, <2>2, ContentUnits, Fields DEF SentInv
  <2>4. unit = call[c].pos + 1 - Begin(c) /\ unit \in Nat
    BY <2>2, <2>3, ContentUnits, NextUnit
  <2>5. LastUnits(call[c].wire, Begin(c), call[c].pos)
    BY <1>1, Fields DEF SentInv
  <2> HIDE DEF unit
  <2>6. LastUnits(Append(call[c].wire, unit), Begin(c), call[c].pos + 1)
    BY <2>2, <2>4, <2>5, NextWire
  <2>7. SentInv(c)'
    <3>1. Begin(c) <= call[c].pos + 1 /\ call[c].pos + 1 <= Begin(c) + Size
      BY <2>2, <2>3
    <3>2. LastUnits(call'[c].wire, Begin(c)', call'[c].pos)
      BY <2>1, <2>2, <2>6
    <3> QED BY <2>1, <2>2, <3>1, <3>2 DEF SentInv
  <2>8. CountInv(c)'
    BY <1>1, <2>1, Fields DEF CountInv, After
  <2>9. AnswerInv(c)' /\ ReceivedInv(c)'
    BY <1>1, <2>1, Fields DEF AnswerInv, ReceivedInv
  <2> QED BY <1>1, <2>1, <2>7, <2>8, <2>9, AllOthersKeep DEF CallInv
<1> QED BY <1>2, <1>3 DEF SendBody

(* A whole body on the wire is the body of the request.                      *)
LEMMA WholeBody ==
  ASSUME NEW b \in Nat, NEW p \in Nat, NEW w \in Seq(Nat), LastUnits(w, b, p), Len(w) = Size,
         p <= b + Size
  PROVE  w = Body
<1>1. Size \in Nat /\ p - b = Size
  BY RoundTripAssumption DEF LastUnits
<1>2. \A i \in 1 .. Size : w[i] = i
  BY <1>1 DEF LastUnits
<1>3. w = [i \in 1 .. Len(w) |-> w[i]]
  OBVIOUS
<1> QED BY <1>1, <1>2, <1>3 DEF Body

(* What the service may do with a whole request.                             *)
LEMMA ServedBody ==
  ASSUME Core, NEW c \in Callers, Serve(c)
  PROVE  /\ call[c].wire = Body
         /\ effects' \in {effects, [effects EXCEPT ![c] = Append(@, Body)]}
         /\ \E result \in Results :
              /\ EndsWith(c, result)
              /\ result = "ok" => effects' = [effects EXCEPT ![c] = Append(@, Body)]
<1>1. call[c].pc = "transfer" /\ kind[c] # "get" /\ Len(call[c].wire) = Size
  BY DEF Serve, At
<1>2. /\ call[c].pos <= Begin(c) + Size /\ LastUnits(call[c].wire, Begin(c), call[c].pos)
      /\ Begin(c) \in Nat /\ call[c].pos \in Nat /\ call[c].wire \in Seq(Nat)
  BY <1>1, Fields DEF SentInv
<1>3. call[c].wire = Body
  BY <1>1, <1>2, WholeBody
<1> QED BY <1>3 DEF Serve, Results

LEMMA ServeStep ==
  ASSUME Core, NEW c \in Callers, Serve(c)
  PROVE  CallInv(c)' /\ \A d \in Callers \ {c} : CallInv(d)'
<1>1. TypeOK /\ call[c].pc = "transfer" /\ kind[c] # "get" /\ UNCHANGED <<kind, answer, file, version>>
  BY DEF Core, Serve, At
<1>2. PICK result \in Results :
        EndsWith(c, result) /\ (result = "ok" => effects' = [effects EXCEPT ![c] = Append(@, Body)])
  BY ServedBody
<1>3. effects' \in {effects, [effects EXCEPT ![c] = Append(@, Body)]}
  BY ServedBody
<1>4. \A d \in Callers \ {c} : call'[d] = call[d] /\ effects'[d] = effects[d]
  BY <1>1, <1>2, <1>3, EndsWithFields DEF TypeOK
<1>5. /\ call'[c].pc = "performed" /\ call'[c].result = result
      /\ call'[c].retry = call[c].retry /\ call'[c].pos = call[c].pos
      /\ call'[c].serving = call[c].serving
  BY <1>1, <1>2, EndsWithFields
<1>6. SentInv(c)'
  <2>1. Begin(c)' = Begin(c)
    BY <1>1 DEF Begin
  <2> QED BY <1>1, <1>5, <2>1, Fields DEF SentInv
<1>7. CountInv(c)'
  <2>1. /\ effects'[c] \in {effects[c], Append(effects[c], Body)}
        /\ result = "ok" => effects'[c] = Append(effects[c], Body)
    BY <1>1, <1>2, <1>3 DEF TypeOK
  <2>2. Body \in Seq(Nat) /\ effects[c] \in Seq(Seq(Nat))
    BY <1>1, RoundTripAssumption DEF Body, TypeOK
  <2>3. /\ Len(Append(effects[c], Body)) = Len(effects[c]) + 1 /\ Append(effects[c], Body) # <<>>
        /\ \A i \in 1 .. Len(effects[c]) : Append(effects[c], Body)[i] = effects[c][i]
        /\ Append(effects[c], Body)[Len(effects[c]) + 1] = Body
    BY <2>2, AppendProperties
  <2>4. CountInv(c) /\ ~ After(c) /\ After(c)' /\ call[c].retry \in Nat /\ Len(effects[c]) \in Nat
    BY <1>1, <1>5, Fields DEF After
  <2>5. Len(effects[c]) <= call[c].retry /\ \A i \in 1 .. Len(effects[c]) : effects[c][i] = Body
    BY <2>4 DEF CountInv
  <2>6. CASE effects'[c] = effects[c]
    <3>1. result # "ok" \/ effects[c] # <<>>
      BY <2>1, <2>3, <2>6
    <3> QED BY <1>1, <1>5, <2>4, <2>5, <2>6, <3>1 DEF CountInv
  <2>7. CASE effects'[c] = Append(effects[c], Body)
    <3>1. \A i \in 1 .. Len(effects'[c]) : effects'[c][i] = Body
      BY <2>3, <2>4, <2>5, <2>7
    <3>2. Len(effects'[c]) <= call'[c].retry + 1 /\ effects'[c] # <<>>
      BY <1>5, <2>3, <2>4, <2>5, <2>7
    <3> QED BY <1>1, <1>5, <2>4, <3>1, <3>2 DEF CountInv
  <2> QED BY <2>1, <2>6, <2>7
<1>8. AnswerInv(c)' /\ ReceivedInv(c)'
  BY <1>1, <1>5, Fields DEF AnswerInv, ReceivedInv
<1>9. CallInv(c)'
  BY <1>6, <1>7, <1>8 DEF CallInv
<1> QED BY <1>1, <1>4, <1>9, AllOthersKeep

LEMMA ServeGetStep ==
  ASSUME Core, NEW c \in Callers, ServeGet(c)
  PROVE  CallInv(c)' /\ \A d \in Callers \ {c} : CallInv(d)'
<1>1. TypeOK /\ call[c].pc = "transfer" /\ kind[c] = "get" /\ call[c].serving = 0
      /\ UNCHANGED <<kind, answer, effects, file, version>>
  BY DEF Core, ServeGet, At, data
<1>2. CASE \E result \in {"busy", "refused"} : EndsWith(c, result)
  <2>1. \A d \in Callers \ {c} : call'[d] = call[d]
    BY <1>1, <1>2, EndsWithFields
  <2> QED BY <1>1, <1>2, <2>1, FailedMove, AllOthersKeep DEF Results
<1>3. CASE call' = [call EXCEPT ![c].serving = version]
  <2>1. /\ call'[c].pc = "transfer" /\ call'[c].pos = call[c].pos /\ call'[c].retry = call[c].retry
        /\ call'[c].serving = version /\ call'[c].result = call[c].result /\ call'[c].wire = call[c].wire
        /\ \A d \in Callers \ {c} : call'[d] = call[d]
    BY <1>1, <1>3 DEF TypeOK, Calls
  <2>2. SentInv(c)' /\ CountInv(c)' /\ AnswerInv(c)'
    BY <1>1, <2>1, Fields DEF SentInv, CountInv, AnswerInv, After
  <2>3. ReceivedInv(c)'
    <3>1. ReceivedInv(c) /\ version \in Nat
      BY Fields
    <3>2. Cells(file[c], call[c].pos, version, version)
      BY <1>1, <3>1, Fields DEF ReceivedInv, Cells
    <3> QED BY <1>1, <2>1, <3>1, <3>2 DEF ReceivedInv, After
  <2>4. CallInv(c)'
    BY <2>2, <2>3 DEF CallInv
  <2> QED BY <1>1, <2>1, <2>4, AllOthersKeep
<1> QED BY <1>2, <1>3 DEF ServeGet

(* A file after the next unit of the version that is being received.         *)
LEMMA CellsWritten ==
  ASSUME NEW cells \in Seq(Versions \X Nat), NEW pos \in Nat, NEW v \in Versions, NEW last \in Nat,
         pos <= Len(cells), v <= last, pos + 1 <= LengthOf[v], Cells(cells, pos, v, last)
  PROVE  /\ Cells(Written(cells, pos, <<v, pos + 1>>), pos + 1, v, last)
         /\ pos + 1 <= Len(Written(cells, pos, <<v, pos + 1>>))
<1> DEFINE cell == <<v, pos + 1>>
           new == Written(cells, pos, cell)
<1>1. cell \in Versions \X Nat /\ v \in Nat /\ v # 0
  BY DEF Versions
<1>3. cell[1] = v /\ cell[2] = pos + 1
  OBVIOUS
<1> HIDE DEF cell
<1>2. /\ Len(new) = Most(Len(cells), pos + 1)
      /\ \A i \in 1 .. Most(Len(cells), pos + 1) : new[i] = IF i = pos + 1 THEN cell ELSE cells[i]
  <2> DEFINE S == Versions \X Nat
  <2>1. cells \in Seq(S) /\ cell \in S
    BY <1>1
  <2> HIDE DEF S
  <2> QED BY <2>1, WrittenType
<1> HIDE DEF new
<1>4. Len(new) \in Nat /\ pos + 1 <= Len(new) /\ \A i \in 1 .. Len(new) : i # pos + 1 => i \in 1 .. Len(cells)
  BY <1>2 DEF Most
<1>5. ASSUME NEW i \in 1 .. Len(new)
      PROVE  /\ new[i][2] = i /\ new[i][1] <= last /\ i <= LengthOf[new[i][1]] /\ new[i][1] <= v
             /\ i <= pos + 1 => new[i][1] = v
  <2>1. CASE i = pos + 1
    <3>1. new[i] = cell
      BY <1>2, <1>5, <2>1
    <3> QED BY <1>1, <1>3, <2>1, <3>1
  <2>2. CASE i # pos + 1
    <3>1. new[i] = cells[i] /\ i \in 1 .. Len(cells)
      BY <1>2, <1>4, <1>5, <2>2
    <3>2. i <= pos + 1 => i <= pos
      BY <2>2
    <3> QED BY <1>1, <3>1, <3>2 DEF Cells
  <2> QED BY <2>1, <2>2
<1> QED BY <1>4, <1>5 DEF Cells, cell, new

LEMMA RecvBodyStep ==
  ASSUME Core, NEW c \in Callers, RecvBody(c)
  PROVE  CallInv(c)' /\ \A d \in Callers \ {c} : CallInv(d)'
<1>1. TypeOK /\ call[c].pc = "transfer" /\ kind[c] = "get" /\ call[c].serving # 0
      /\ UNCHANGED <<kind, answer, effects, version>>
  BY DEF Core, RecvBody, At
<1> DEFINE next == Len(call[c].wire) + 1
           v == call[c].serving
<1>2. /\ ReceivedInv(c) /\ call[c].pos = Len(call[c].wire) /\ call[c].pos \in Nat /\ version \in Nat
      /\ call[c].pos <= Len(file[c]) /\ v <= version /\ Cells(file[c], call[c].pos, v, version)
  BY <1>1, Fields DEF ReceivedInv
<1>3. v \in Versions /\ LengthOf[v] \in Nat
  <2>1. v \in Versions
    BY <1>1, Fields
  <2> QED BY <2>1, RoundTripAssumption DEF Versions
<1>4. CASE /\ next <= LengthOf[v]
           /\ file' = [file EXCEPT ![c] = Written(@, call[c].pos, <<v, next>>)]
           /\ call' = [call EXCEPT ![c].wire = Append(@, next), ![c].pos = @ + 1]
  <2>1. /\ call'[c].pc = "transfer" /\ call'[c].pos = call[c].pos + 1 /\ call'[c].retry = call[c].retry
        /\ call'[c].serving = v /\ call'[c].result = call[c].result
        /\ call'[c].wire = Append(call[c].wire, next)
        /\ \A d \in Callers \ {c} : call'[d] = call[d]
    BY <1>1, <1>4 DEF TypeOK, Calls
  <2>2. /\ file'[c] = Written(file[c], call[c].pos, <<v, call[c].pos + 1>>)
        /\ \A d \in Callers \ {c} : file'[d] = file[d]
    BY <1>1, <1>2, <1>4 DEF TypeOK
  <2>3. Len(Append(call[c].wire, next)) = call[c].pos + 1
    <3>1. call[c].wire \in Seq(Nat) /\ next \in Nat
      BY <1>1, Fields
    <3> QED BY <1>2, <3>1, AppendProperties
  <2>4. Cells(file'[c], call[c].pos + 1, v, version) /\ call[c].pos + 1 <= Len(file'[c])
    <3>1. file[c] \in Seq(Versions \X Nat) /\ call[c].pos + 1 <= LengthOf[v]
      BY <1>2, <1>4, Fields
    <3> QED BY <1>2, <1>3, <2>2, <3>1, CellsWritten
  <2>5. ReceivedInv(c)'
    BY <1>1, <1>2, <2>1, <2>3, <2>4 DEF ReceivedInv, After
  <2>6. SentInv(c)' /\ CountInv(c)' /\ AnswerInv(c)'
    BY <1>1, <2>1, Fields DEF SentInv, CountInv, AnswerInv, After
  <2>7. CallInv(c)'
    BY <2>5, <2>6 DEF CallInv
  <2> QED BY <1>1, <2>1, <2>2, <2>7, AllOthersKeep
<1>5. CASE file' = file /\ EndsWith(c, "broken")
  <2>1. \A d \in Callers \ {c} : call'[d] = call[d]
    BY <1>1, <1>5, EndsWithFields
  <2> QED BY <1>1, <1>5, <2>1, FailedMove, AllOthersKeep DEF Results
<1>6. CASE file' = file /\ next > LengthOf[v] /\ EndsWith(c, "ok")
  <2>1. /\ call'[c].pc = "performed" /\ call'[c].result = "ok"
        /\ call'[c].retry = call[c].retry /\ call'[c].pos = call[c].pos
        /\ call'[c].serving = v /\ \A d \in Callers \ {c} : call'[d] = call[d]
    BY <1>1, <1>6, EndsWithFields
  <2>2. call[c].pos = LengthOf[v]
    <3>1. call[c].pos >= LengthOf[v]
      BY <1>2, <1>3, <1>6
    <3>2. call[c].pos <= LengthOf[v]
      <4>1. CASE call[c].pos = 0
        BY <1>3, <4>1
      <4>2. CASE call[c].pos # 0
        <5>1. call[c].pos \in 1 .. Len(file[c])
          BY <1>2, <4>2, Fields
        <5>2. call[c].pos <= LengthOf[file[c][call[c].pos][1]] /\ file[c][call[c].pos][1] = v
          BY <1>2, <5>1 DEF Cells
        <5> QED BY <5>2
      <4> QED BY <4>1, <4>2
    <3> QED BY <1>2, <1>3, <3>1, <3>2
  <2>3. ReceivedInv(c)'
    BY <1>1, <1>2, <1>6, <2>1, <2>2 DEF ReceivedInv, After
  <2>4. SentInv(c)' /\ CountInv(c)' /\ AnswerInv(c)'
    BY <1>1, <2>1, Fields DEF SentInv, CountInv, AnswerInv, After
  <2>5. CallInv(c)'
    BY <2>3, <2>4 DEF CallInv
  <2> QED BY <1>1, <1>6, <2>1, <2>5, AllOthersKeep
<1> QED BY <1>4, <1>5, <1>6 DEF RecvBody

LEMMA DecideStep ==
  ASSUME Core, NEW c \in Callers, Decide(c)
  PROVE  CallInv(c)' /\ \A d \in Callers \ {c} : CallInv(d)'
<1>1. TypeOK /\ call[c].pc = "decide" /\ UNCHANGED <<kind, effects, file, version>>
  BY DEF Core, Decide, At, data
<1>2. CASE \E what \in {"ok", "error"} : Finish(c, what) /\ (what = "ok" => call[c].result = "ok")
  <2>1. PICK what \in {"ok", "error"} : Finish(c, what) /\ (what = "ok" => call[c].result = "ok")
    BY <1>2
  <2>2. GoTo(c, "done") /\ answer' = [answer EXCEPT ![c] = what]
    BY <2>1 DEF Finish
  <2>3. \A d \in Callers \ {c} : call'[d] = call[d] /\ answer'[d] = answer[d]
    BY <1>1, <2>2, GoToFields DEF TypeOK
  <2> QED BY <1>1, <2>1, <2>3, FinishMove, AllOthersKeep
<1>3. CASE /\ call[c].result \in {"busy", "broken"} /\ MayRetry(c) /\ answer' = answer
           /\ call' = [call EXCEPT ![c].pc = "acquire", ![c].retry = @ + 1, ![c].pos = Rewound(c)]
  <2>1. /\ call'[c].pc = "acquire" /\ call'[c].pos = Rewound(c) /\ call'[c].retry = call[c].retry + 1
        /\ call'[c].serving = call[c].serving /\ call'[c].result = call[c].result
        /\ \A d \in Callers \ {c} : call'[d] = call[d]
    BY <1>1, <1>3 DEF TypeOK, Calls
  <2>2. kind[c] # "append"
    BY <1>3 DEF MayRetry
  <2>3. SentInv(c)'
    <3>1. Begin(c)' = Begin(c) /\ Begin(c) \in Nat /\ Size \in Nat
      BY <1>1, Fields, RoundTripAssumption DEF Begin
    <3>2. kind[c] # "get" => Begin(c) <= Rewound(c) /\ Rewound(c) <= Begin(c) + Size
      <4>1. CASE kind[c] = "put"
        BY <3>1, <4>1 DEF Rewound, Begin
      <4>2. CASE kind[c] # "put" /\ kind[c] # "get"
        BY <1>1, <4>2, Fields DEF Rewound, SentInv
      <4> QED BY <4>1, <4>2
    <3> QED BY <1>1, <2>1, <3>1, <3>2 DEF SentInv
  <2>4. CountInv(c)'
    BY <1>1, <1>3, <2>1, <2>2, Fields DEF CountInv, After
  <2>5. AnswerInv(c)'
    BY <1>1, <1>3, <2>1, Fields DEF AnswerInv
  <2>6. ReceivedInv(c)'
    <3>1. SUFFICES ASSUME kind[c] = "get" PROVE ReceivedInv(c)'
      BY <1>1 DEF ReceivedInv
    <3>2. Rewound(c) = 0 /\ ReceivedInv(c) /\ Len(file[c]) \in Nat
      BY <3>1, Fields DEF Rewound
    <3>3. Cells(file[c], 0, call[c].serving, version)
      BY <3>1, <3>2 DEF ReceivedInv, Cells
    <3> QED BY <1>1, <1>3, <2>1, <3>1, <3>2, <3>3 DEF ReceivedInv, After
  <2>7. CallInv(c)'
    BY <2>3, <2>4, <2>5, <2>6 DEF CallInv
  <2> QED BY <1>1, <1>3, <2>1, <2>7, AllOthersKeep
<1> QED BY <1>2, <1>3 DEF Decide

LEMMA TypeInit == Init => TypeOK
<1> SUFFICES ASSUME Init PROVE TypeOK
  OBVIOUS
<1>1. Len(LengthOf) \in Nat /\ Len(LengthOf) # 0
  BY RoundTripAssumption
<1>2. 1 \in Versions
  BY <1>1 DEF Versions
<1>3. [pc |-> "start", retry |-> 0, pos |-> 0, wire |-> <<>>, result |-> "none", fallback |-> FALSE,
       serving |-> 0] \in Calls
  BY RoundTripAssumption DEF Calls, Pcs, Results
<1>4. call \in [Callers -> Calls]
  BY <1>3 DEF Init
<1> QED BY <1>2, <1>4, RoundTripAssumption DEF Init, TypeOK

LEMMA CoreInit == Init => Core
<1> SUFFICES ASSUME Init PROVE Core
  OBVIOUS
<1>1. TypeOK
  BY TypeInit
<1>2. ASSUME NEW c \in Callers PROVE CallInv(c)
  <2>1. /\ call[c].pc = "start" /\ call[c].retry = 0 /\ call[c].pos = 0 /\ call[c].serving = 0
        /\ call[c].result = "none" /\ answer[c] = "none" /\ effects[c] = <<>> /\ file[c] = <<>>
        /\ version = 1
    BY DEF Init
  <2> QED BY <2>1 DEF CallInv, SentInv, CountInv, ReceivedInv, AnswerInv, After, Cells
<1> QED BY <1>1, <1>2 DEF Core

LEMMA CoreStep == Core /\ [Next]_vars => Core'
<1> SUFFICES ASSUME Core, [Next]_vars PROVE Core'
  OBVIOUS
<1>0. TypeOK' /\ TypeOK
  BY TypeStep DEF Core
<1>1. SUFFICES \A d \in Callers : CallInv(d)'
  BY <1>0 DEF Core
<1>2. CASE UNCHANGED <<kind, call, answer, effects, file>> /\ version' \in Nat /\ version <= version'
  BY <1>2, OthersKeep
<1>3. ASSUME NEW c \in Callers, Step(c) PROVE \A d \in Callers : CallInv(d)'
  <2>1. SUFFICES CallInv(c)' /\ \A d \in Callers \ {c} : CallInv(d)'
    OBVIOUS
  <2>2. ASSUME NEW p, GoTo(c, p), UNCHANGED <<kind, effects, file, answer, version>>
        PROVE  \A d \in Callers \ {c} : CallInv(d)'
    <3>1. \A d \in Callers \ {c} : call'[d] = call[d]
      BY <1>0, <2>2, GoToFields
    <3> QED BY <2>2, <3>1, AllOthersKeep
  <2>3. CASE HasResources(c)
    BY <2>2, <2>3, QuietMove DEF HasResources, At, data
  <2>4. CASE GrowPool(c)
    BY <2>2, <2>4, QuietMove DEF GrowPool, At, data
  <2>5. CASE Resolve(c)
    <3>1. CASE GoTo(c, "transfer")
      BY <2>2, <2>5, <3>1, QuietMove DEF Resolve, At, data
    <3>2. CASE EndsWith(c, "failed")
      <4>1. \A d \in Callers \ {c} : call'[d] = call[d]
        BY <1>0, <3>2, EndsWithFields
      <4> QED BY <2>5, <3>2, <4>1, FailedMove, AllOthersKeep DEF Resolve, At, data, Results
    <3>3. CASE call' = [call EXCEPT ![c].pc = "transfer", ![c].fallback = TRUE]
      <4>1. /\ call'[c].pc = "transfer" /\ call'[c].pos = call[c].pos /\ call'[c].retry = call[c].retry
            /\ call'[c].serving = call[c].serving /\ call'[c].result = call[c].result
            /\ call'[c].wire = call[c].wire /\ \A d \in Callers \ {c} : call'[d] = call[d]
        BY <1>0, <3>3 DEF TypeOK, Calls
      <4>2. call[c].pc = "resolve" /\ UNCHANGED <<kind, answer, effects, file, version>>
        BY <2>5 DEF Resolve, At, data
      <4>3. SentInv(c)'
        <5>1. Begin(c)' = Begin(c)
          BY <4>2 DEF Begin
        <5>2. kind[c] # "get" => LastUnits(<<>>, Begin(c), call[c].pos)
          BY <4>2, Fields DEF SentInv, LastUnits
        <5> QED BY <4>1, <4>2, <5>1, <5>2, Fields DEF SentInv
      <4>4. CountInv(c)' /\ AnswerInv(c)'
        BY <4>1, <4>2, Fields DEF CountInv, AnswerInv, After
      <4>5. ReceivedInv(c)'
        <5>1. kind[c] = "get" => call[c].pos = Len(call[c].wire)
          BY <4>2, Fields DEF ReceivedInv
        <5> QED BY <4>1, <4>2, <5>1, Fields DEF ReceivedInv, After
      <4>6. CallInv(c)'
        BY <4>3, <4>4, <4>5 DEF CallInv
      <4> QED BY <4>1, <4>2, <4>6, AllOthersKeep
    <3> QED BY <2>5, <3>1, <3>2, <3>3 DEF Resolve
  <2>6. CASE NetworkFails(c)
    <3>1. PICK result \in {"broken", "failed"} : EndsWith(c, result)
      BY <2>6 DEF NetworkFails
    <3>2. \A d \in Callers \ {c} : call'[d] = call[d]
      BY <1>0, <3>1, EndsWithFields
    <3> QED BY <2>6, <3>1, <3>2, FailedMove, AllOthersKeep DEF NetworkFails, At, data, Results
  <2>7. CASE Performed(c)
    BY <2>2, <2>7, QuietMove DEF Performed, At, data
  <2>8. CASE Release(c)
    BY <2>2, <2>8, QuietMove DEF Release, At, data
  <2> QED
    BY <1>3, <2>3, <2>4, <2>5, <2>6, <2>7, <2>8, StartStep, AcquireStep, SendBodyStep, ServeStep,
       ServeGetStep, RecvBodyStep, DecideStep DEF Step
<1>4. version \in Nat
  BY <1>0 DEF TypeOK, Versions
<1>5. CASE UNCHANGED vars
  BY <1>2, <1>4, <1>5 DEF vars
<1>6. CASE ClockCools
  BY <1>2, <1>4, <1>6 DEF ClockCools, data
<1>7. CASE ObjectChanges
  BY <1>2, <1>4, <1>7 DEF ObjectChanges, data
<1> QED BY <1>3, <1>5, <1>6, <1>7 DEF Next

LEMMA CoreInvariant == Spec => []Core
BY CoreInit, CoreStep, PTL DEF Spec

(* Every reachable state is of its type: the pool never has more handles     *)
(* than its limit, no call is repeated more than maxRetryCount_ times.       *)
THEOREM TypeCorrect == Spec => []TypeOK
BY CoreInvariant, PTL DEF Core

(* A file that getObjectToFile filled starts with one whole version of the   *)
(* object, whatever the attempts before the last left in it.                 *)
THEOREM FilesStartWithOneVersion == Spec => []FileStartsWithOneVersion
<1>1. Core => FileStartsWithOneVersion
  <2>1. SUFFICES ASSUME Core, NEW c \in Callers, kind[c] = "get", answer[c] = "ok"
                 PROVE  /\ Len(file[c]) >= LengthOf[call[c].serving]
                        /\ \A i \in 1 .. Len(file[c]) :
                             IF i <= LengthOf[call[c].serving]
                               THEN file[c][i] = <<call[c].serving, i>> ELSE file[c][i][1] < call[c].serving
    BY DEF FileStartsWithOneVersion
  <2> DEFINE v == call[c].serving
  <2>2. call[c].pc = "done" /\ call[c].result = "ok"
    BY <2>1, Fields DEF AnswerInv
  <2>3. /\ v # 0 /\ call[c].pos = LengthOf[v] /\ call[c].pos <= Len(file[c])
        /\ Cells(file[c], call[c].pos, v, version)
    BY <2>1, <2>2, Fields DEF ReceivedInv, After
  <2>4. v \in Nat /\ call[c].pos \in Nat /\ Len(file[c]) \in Nat
        /\ \A i \in 1 .. Len(file[c]) : file[c][i] \in Versions \X Nat
    <3>1. /\ v \in {0} \cup Versions /\ call[c].pos \in Nat
          /\ file[c] \in Seq(Versions \X Nat)
      BY <2>1, Fields
    <3>2. v \in Nat
      BY <3>1 DEF Versions
    <3>3. Len(file[c]) \in Nat /\ \A i \in 1 .. Len(file[c]) : file[c][i] \in Versions \X Nat
      BY <3>1
    <3> QED BY <3>1, <3>2, <3>3
  <2>5. ASSUME NEW i \in 1 .. Len(file[c]), i <= LengthOf[v] PROVE file[c][i] = <<v, i>>
    <3>1. file[c][i][1] = v /\ file[c][i][2] = i
      BY <2>3, <2>5 DEF Cells
    <3>2. file[c][i] \in Versions \X Nat
      BY <2>4, <2>5
    <3> QED BY <3>1, <3>2
  <2>6. ASSUME NEW i \in 1 .. Len(file[c]), ~ i <= LengthOf[v] PROVE file[c][i][1] < v
    <3>1. file[c][i][1] <= v /\ i <= LengthOf[file[c][i][1]]
      BY <2>3, <2>6 DEF Cells
    <3>2. file[c][i][1] # v
      BY <2>6, <3>1
    <3>3. file[c][i][1] \in Nat
      <4>1. file[c][i] \in Versions \X Nat
        BY <2>4, <2>6
      <4> QED BY <4>1 DEF Versions
    <3> QED BY <2>4, <3>1, <3>2, <3>3
  <2> QED BY <2>3, <2>4, <2>5, <2>6
<1> QED BY <1>1, CoreInvariant, PTL

----------------------------------------------------------------------------

Holders == {c \in Callers : Holds(c)}

LEMMA HoldersFinite == Holders \subseteq Callers /\ IsFiniteSet(Holders) /\ Cardinality(Holders) \in Nat
<1>1. Holders \subseteq Callers
  BY DEF Holders
<1>2. IsFiniteSet(Holders)
  BY <1>1, FS_Subset, RoundTripAssumption
<1> QED BY <1>1, <1>2, FS_CardinalityType

(* A step of a call that keeps or does not have a handle.                    *)
LEMMA SameHolders ==
  ASSUME Core, PoolAddsUp, NEW c \in Callers, \A d \in Callers \ {c} : call'[d] = call[d],
         Holds(c)' <=> Holds(c), UNCHANGED <<free, poolSize>>
  PROVE  PoolAddsUp'
<1>1. Holders' = Holders
  BY DEF Holders, Holds
<1> QED BY <1>1 DEF PoolAddsUp, Holders

LEMMA PoolStep == Core /\ PoolAddsUp /\ [Next]_vars => PoolAddsUp'
<1> SUFFICES ASSUME Core, PoolAddsUp, [Next]_vars PROVE PoolAddsUp'
  OBVIOUS
<1>0. TypeOK /\ free \in Nat /\ poolSize \in Nat /\ free + Cardinality(Holders) = poolSize
  BY DEF Core, TypeOK, PoolAddsUp, Holders
<1>1. CASE UNCHANGED <<call, free, poolSize>>
  <2>1. Holders' = Holders
    BY <1>1 DEF Holders, Holds
  <2> QED BY <1>0, <1>1, <2>1 DEF PoolAddsUp, Holders
<1>2. ASSUME NEW c \in Callers, Step(c) PROVE PoolAddsUp'
  <2>1. ASSUME NEW p, GoTo(c, p), UNCHANGED pool, Holds(c) <=> p \in {"resolve", "transfer", "performed", "release"}
        PROVE  PoolAddsUp'
    BY <1>0, <2>1, GoToFields, SameHolders DEF Holds, pool
  <2>2. ASSUME NEW result, EndsWith(c, result), UNCHANGED pool, Holds(c)
        PROVE  PoolAddsUp'
    BY <1>0, <2>2, EndsWithFields, SameHolders DEF Holds, pool
  <2>3. ASSUME NEW what, Finish(c, what), UNCHANGED pool, ~ Holds(c) PROVE PoolAddsUp'
    BY <2>1, <2>3 DEF Finish
  <2>4. ASSUME call'[c].pc = call[c].pc, \A d \in Callers \ {c} : call'[d] = call[d], UNCHANGED pool
        PROVE  PoolAddsUp'
    BY <2>4, SameHolders DEF Holds, pool
  <2>5. CASE Start(c)
    <3>1. CASE call' = [call EXCEPT ![c].pc = "acquire", ![c].pos = Begin(c)]
      <4>1. call'[c].pc = "acquire" /\ \A d \in Callers \ {c} : call'[d] = call[d]
        BY <1>0, <3>1 DEF TypeOK, Calls
      <4> QED BY <2>5, <4>1, SameHolders DEF Start, At, Holds, pool
    <3> QED BY <2>3, <2>5, <3>1 DEF Start, At, Holds
  <2>6. CASE HasResources(c)
    BY <2>1, <2>6 DEF HasResources, At, Holds
  <2>7. CASE GrowPool(c)
    <3>1. PICK added \in 0 .. AmountToAdd : free' = free + added /\ poolSize' = poolSize + added
      BY <2>7 DEF GrowPool
    <3>2. added \in Int
      OBVIOUS
    <3>3. call[c].pc = "grow" /\ call'[c].pc = "take" /\ \A d \in Callers \ {c} : call'[d] = call[d]
      BY <1>0, <2>7, GoToFields DEF GrowPool, At
    <3>4. Holders' = Holders
      BY <3>3 DEF Holders, Holds
    <3>5. Cardinality(Holders) \in Nat
      BY HoldersFinite
    <3>6. free + added + Cardinality(Holders) = poolSize + added
      BY <1>0, <3>2, <3>5
    <3>7. free' + Cardinality(Holders)' = poolSize'
      BY <3>1, <3>4, <3>6
    <3> QED BY <3>7 DEF PoolAddsUp, Holders
  <2>8. CASE Acquire(c)
    <3>1. /\ call[c].pc = "take" /\ call'[c].pc = "resolve" /\ free' = free - 1 /\ poolSize' = poolSize
          /\ \A d \in Callers \ {c} : call'[d] = call[d]
      BY <1>0, <2>8 DEF Acquire, At, TypeOK, Calls
    <3>2. Holders' = Holders \cup {c} /\ c \notin Holders
      BY <3>1 DEF Holders, Holds
    <3>3. Cardinality(Holders') = Cardinality(Holders) + 1
      BY <3>2, HoldersFinite, FS_AddElement
    <3> QED BY <1>0, <3>1, <3>3, HoldersFinite DEF PoolAddsUp, Holders
  <2>9. CASE Resolve(c)
    <3>1. CASE call' = [call EXCEPT ![c].pc = "transfer", ![c].fallback = TRUE]
      <4>1. call'[c].pc = "transfer" /\ \A d \in Callers \ {c} : call'[d] = call[d]
        BY <1>0, <3>1 DEF TypeOK, Calls
      <4> QED BY <2>9, <4>1, SameHolders DEF Resolve, At, Holds, pool
    <3> QED BY <2>1, <2>2, <2>9, <3>1 DEF Resolve, At, Holds
  <2>10. CASE SendBody(c)
    <3>1. CASE call' = [call EXCEPT ![c].wire = Append(@, Content(c)[call[c].pos + 1]), ![c].pos = @ + 1]
      <4>1. call'[c].pc = call[c].pc /\ \A d \in Callers \ {c} : call'[d] = call[d]
        BY <1>0, <3>1 DEF TypeOK, Calls
      <4> QED BY <2>4, <2>10, <4>1 DEF SendBody
    <3> QED BY <2>2, <2>10, <3>1 DEF SendBody, At, Holds
  <2>11. CASE NetworkFails(c)
    BY <2>2, <2>11 DEF NetworkFails, At, Holds
  <2>12. CASE Serve(c)
    BY <2>2, <2>12 DEF Serve, At, Holds
  <2>13. CASE ServeGet(c)
    <3>1. CASE call' = [call EXCEPT ![c].serving = version]
      <4>1. call'[c].pc = call[c].pc /\ \A d \in Callers \ {c} : call'[d] = call[d]
        BY <1>0, <3>1 DEF TypeOK, Calls
      <4> QED BY <2>4, <2>13, <4>1 DEF ServeGet
    <3> QED BY <2>2, <2>13, <3>1 DEF ServeGet, At, Holds
  <2>14. CASE RecvBody(c)
    <3>1. CASE call' = [call EXCEPT ![c].wire = Append(@, Len(call[c].wire) + 1), ![c].pos = @ + 1]
      <4>1. call'[c].pc = call[c].pc /\ \A d \in Callers \ {c} : call'[d] = call[d]
        BY <1>0, <3>1 DEF TypeOK, Calls
      <4> QED BY <2>4, <2>14, <4>1 DEF RecvBody
    <3> QED BY <2>2, <2>14, <3>1 DEF RecvBody, At, Holds
  <2>15. CASE Performed(c)
    BY <2>1, <2>15 DEF Performed, At, Holds
  <2>16. CASE Release(c)
    <3>1. /\ call[c].pc = "release" /\ call'[c].pc = "decide" /\ free' = free + 1 /\ poolSize' = poolSize
          /\ \A d \in Callers \ {c} : call'[d] = call[d]
      BY <1>0, <2>16, GoToFields DEF Release, At
    <3>2. Holders' = Holders \ {c} /\ c \in Holders
      BY <3>1 DEF Holders, Holds
    <3>3. Cardinality(Holders') = Cardinality(Holders) - 1
      BY <3>2, HoldersFinite, FS_RemoveElement
    <3> QED BY <1>0, <3>1, <3>3, HoldersFinite DEF PoolAddsUp, Holders
  <2>17. CASE Decide(c)
    <3>1. CASE call' = [call EXCEPT ![c].pc = "acquire", ![c].retry = @ + 1, ![c].pos = Rewound(c)]
      <4>1. call'[c].pc = "acquire" /\ \A d \in Callers \ {c} : call'[d] = call[d]
        BY <1>0, <3>1 DEF TypeOK, Calls
      <4> QED BY <2>17, <4>1, SameHolders DEF Decide, At, Holds, pool
    <3> QED BY <2>3, <2>17, <3>1 DEF Decide, At, Holds
  <2> QED
    BY <1>2, <2>5, <2>6, <2>7, <2>8, <2>9, <2>10, <2>11, <2>12, <2>13, <2>14, <2>15, <2>16, <2>17 DEF Step
<1> QED BY <1>1, <1>2 DEF Next, vars, ClockCools, ObjectChanges, pool

(* No handle of the pool is lost and none is used twice.                     *)
THEOREM PoolAlwaysAddsUp == Spec => []PoolAddsUp
<1>1. Init => PoolAddsUp
  <2>1. SUFFICES ASSUME Init PROVE PoolAddsUp
    OBVIOUS
  <2>2. {c \in Callers : Holds(c)} = {}
    BY <2>1 DEF Init, Holds
  <2>3. free = 0 /\ poolSize = 0 /\ Cardinality({}) = 0
    BY <2>1, FS_EmptySet DEF Init
  <2> QED BY <2>2, <2>3 DEF PoolAddsUp
<1> QED BY <1>1, PoolStep, CoreInvariant, PTL DEF Spec

----------------------------------------------------------------------------

LEMMA RefinesInit == Init => RC!Init
BY RoundTripAssumption DEF Init, RC!Init

(* A step of the client is one the callers may see, or none of their concern.*)
LEMMA RefinesStep == Core /\ [Next]_vars => [RC!Next]_(RC!vars)
<1> SUFFICES ASSUME Core, [Next]_vars PROVE [RC!Next]_(RC!vars)
  OBVIOUS
<1> USE DEF RC!vars
<1>0. TypeOK
  BY DEF Core
<1>1. CASE UNCHANGED <<kind, effects, answer, poolSize>>
  BY <1>1
<1>2. ASSUME NEW c \in Callers, Step(c) PROVE [RC!Next]_(RC!vars)
  <2>1. ASSUME NEW what \in {"ok", "error"}, Finish(c, what), call[c].pc \in {"start", "decide"},
               what = "ok" => call[c].pc = "decide" /\ call[c].result = "ok", UNCHANGED <<kind, effects, poolSize>>
        PROVE  [RC!Next]_(RC!vars)
    <3>1. answer[c] = "none" /\ answer' = [answer EXCEPT ![c] = what]
      BY <2>1, Fields DEF AnswerInv, Finish
    <3>2. CASE what = "error"
      BY <2>1, <3>1, <3>2 DEF RC!AnswerError, RC!Next
    <3>3. CASE what = "ok"
      <4>1. kind[c] = "get" \/ effects[c] # <<>>
        BY <2>1, <3>3, Fields DEF CountInv, After
      <4> QED BY <2>1, <3>1, <3>3, <4>1 DEF RC!AnswerOk, RC!Next
    <3> QED BY <3>2, <3>3
  <2>2. CASE Start(c)
    BY <1>1, <2>1, <2>2 DEF Start, At, data, pool
  <2>3. CASE GrowPool(c)
    <3>1. UNCHANGED <<kind, effects, answer>>
      BY <2>3 DEF GrowPool, data
    <3>2. CASE (poolSize = 0)' <=> poolSize = 0
      BY <3>1, <3>2
    <3>3. CASE ~ ((poolSize = 0)' <=> poolSize = 0)
      BY <3>1, <3>3 DEF RC!HandlesCome, RC!Next
    <3> QED BY <3>2, <3>3
  <2>4. CASE Serve(c)
    <3>1. effects' \in {effects, [effects EXCEPT ![c] = Append(@, Body)]} /\ UNCHANGED <<kind, answer, poolSize>>
      BY <2>4, ServedBody DEF Serve, pool
    <3>2. /\ answer[c] = "none" /\ kind[c] # "get"
          /\ Len(effects[c]) <= (IF kind[c] = "append" THEN 0 ELSE MaxRetry)
      BY <2>4, Fields DEF Serve, At, AnswerInv, CountInv, After
    <3>3. RC!Apply(c) \/ UNCHANGED effects
      BY <3>1, <3>2 DEF RC!Apply
    <3> QED BY <3>1, <3>3 DEF RC!Next
  <2>5. CASE Decide(c)
    BY <1>1, <2>1, <2>5 DEF Decide, At, data, pool
  <2> QED
    BY <1>1, <1>2, <2>2, <2>3, <2>4, <2>5 DEF Step, HasResources, Acquire, Resolve, SendBody, NetworkFails,
       ServeGet, RecvBody, Performed, Release, data, pool
<1> QED BY <1>1, <1>2 DEF Next, vars, ClockCools, ObjectChanges, data, pool

(* What the callers see is allowed by RemoteCall: the body that is applied is*)
(* the body of the request, as often as the request may be repeated and once *)
(* for an append, and success is answered for an effect.                     *)
THEOREM CallsRefineRemoteCall == Spec => RC!Safety
<1>1. Spec => []Core /\ [][Next]_vars /\ Init
  BY CoreInvariant, PTL DEF Spec
<1> QED BY <1>1, RefinesInit, RefinesStep, PTL DEF RC!Safety
=============================================================================
