------------------------- MODULE DownloadFileProofs -------------------------
(***************************************************************************)
(* Proofs about DownloadFile, for every size of the object and the parts,  *)
(* and every number of workers, calls, versions and faults.                *)
(***************************************************************************)
EXTENDS DownloadFile, TLAPS

USE ConstantsAssumption DEF ConstantsAssumption, Versions, Parts, Torn, PartErrors, Results,
    Fault, NoFault, Raise, Record, Mislay, IsCancel, NotCancel

-----------------------------------------------------------------------------
(* Parts, ranges and checkpoints                                           *)

\* A file has no more parts than units.
LEMMA NumPartsBound ==
  ASSUME NEW s \in Nat \ {0}
  PROVE  NumParts(s) \in Nat /\ NumParts(s) <= ObjectSize
<1> DEFINE n == ObjectSize + s - 1
           q == n \div s
<1>1. n \in Nat /\ q \in Nat /\ s * q <= n
  OBVIOUS
<1>2. ASSUME q >= ObjectSize + 1 PROVE FALSE
  <2>1. s * q >= s * (ObjectSize + 1)
    BY <1>1, <1>2
  <2>2. s * (ObjectSize + 1) = s * ObjectSize + s
    OBVIOUS
  <2>3. s * ObjectSize >= ObjectSize
    OBVIOUS
  <2> QED
    BY <1>1, <2>1, <2>2, <2>3
<1> QED
  BY <1>1, <1>2 DEF NumParts

LEMMA CheckpointFields ==
  ASSUME NEW c \in Checkpoints
  PROVE  c.ver \in Versions /\ c.size \in PartSizes \cup {0} /\ c.part \in [Parts -> Torn..MaxVersion]
BY DEF Checkpoints

\* Changing the parts of a checkpoint changes nothing else.
LEMMA CheckpointUpdate ==
  ASSUME NEW c \in Checkpoints, NEW f \in [Parts -> Torn..MaxVersion]
  PROVE  LET d == [c EXCEPT !.part = f]
         IN  d \in Checkpoints /\ d.ver = c.ver /\ d.size = c.size /\ d.part = f
BY DEF Checkpoints

LEMMA NoCheckpointType ==
  /\ NoCheckpoint \in Checkpoints /\ NoCheckpoint.ver = 0
  /\ \A p \in Parts : NoCheckpoint.part[p] = 0
BY DEF Checkpoints, NoCheckpoint, NoData

\* What a dump writes: of every part, the record in memory, none, or half of one.
LEMMA DumpFields ==
  ASSUME ckpt \in Checkpoints, NEW w \in Workers, Dump(w)
  PROVE  \/ UNCHANGED ckptFile
         \/ Enabled /\ ckptFile' = NoCheckpoint
         \/ /\ Enabled /\ ckptFile' \in Checkpoints
            /\ ckptFile'.ver = ckpt.ver /\ ckptFile'.size = ckpt.size
            /\ \A p \in Parts : ckptFile'.part[p] \in {0, Torn, ckpt.part[p]}
<1>1. CASE \E missed \in SUBSET (PartsOf("dump") \ {wpart[w]}), torn \in SUBSET PartsOf("setting") :
             ckptFile' = [ckpt EXCEPT !.part = [p \in Parts |-> IF p \in missed THEN 0
                                                       ELSE IF p \in torn THEN Torn ELSE @[p]]]
  <2>1. PICK missed \in SUBSET (PartsOf("dump") \ {wpart[w]}), torn \in SUBSET PartsOf("setting") :
             ckptFile' = [ckpt EXCEPT !.part = [p \in Parts |-> IF p \in missed THEN 0
                                                       ELSE IF p \in torn THEN Torn ELSE @[p]]]
    BY <1>1
  <2> DEFINE f == [p \in Parts |-> IF p \in missed THEN 0
                                   ELSE IF p \in torn THEN Torn ELSE ckpt.part[p]]
  <2>2. f \in [Parts -> Torn..MaxVersion]
    BY CheckpointFields
  <2>3. ckptFile' = [ckpt EXCEPT !.part = f]
    BY <2>1
  <2>4. ckptFile' \in Checkpoints /\ ckptFile'.part = f
        /\ ckptFile'.ver = ckpt.ver /\ ckptFile'.size = ckpt.size
    BY <2>2, <2>3, CheckpointUpdate
  <2>5. CASE Enabled
    BY <2>4, <2>5
  <2>6. CASE ~Enabled
    BY <2>6 DEF Dump
  <2> QED
    BY <2>5, <2>6
<1> QED
  BY <1>1 DEF Dump

-----------------------------------------------------------------------------
(* Types, and who works on what                                            *)

Placing == {"get", "received", "setting"}
Holding == Placing \cup {"dump"}

\* Workers run between their start and the join only.
Quiet == pc \notin {"spawn", "join"} => \A w \in Workers : wpc[w] \in {"off", "done"}

\* A call works with the checkpoint of the version HEAD saw, which is cut to parts.
Current ==
  /\ pc # "idle" => ver \in 1..object
  /\ pc \notin {"idle", "truncate", "forget"} => ckpt.ver = ver /\ ckpt.size \in PartSizes
  /\ ckptFile.ver <= object
  /\ ckptFile.ver # 0 => ckptFile.size \in PartSizes

\* What a worker holds left the queue, and data received has a version.
Hands ==
  \A w \in Workers :
    /\ wpc[w] \in Holding => wpart[w] \in Parts /\ wpart[w] < front
    /\ wpc[w] \in Holding \ {"get"} => wver[w] \in 1..MaxVersion

\* Two workers never hold the same part, and no part is held once it is done.
Alone ==
  \A w \in Workers : wpc[w] \in Placing =>
    /\ ckpt.part[wpart[w]] = 0
    /\ \A v \in Workers : v # w /\ wpc[v] \in Holding => wpart[v] # wpart[w]

Flow == TypeOK /\ Quiet /\ Current /\ Hands /\ Alone

-----------------------------------------------------------------------------
LEMMA FlowInit == Init => Flow
BY NoCheckpointType
DEF Init, Flow, TypeOK, DiskTypeOK, CallTypeOK, WorkerTypeOK, Quiet, Current, Hands, Alone,
    Placing, Holding

\* A call that returns leaves its variables as a call finds them.
LEMMA ReturnFlow ==
  ASSUME Flow, NEW r \in Results, Return(r)
  PROVE  CallTypeOK' /\ WorkerTypeOK' /\ Quiet' /\ Hands' /\ Alone' /\ pc' = "idle"
         /\ UNCHANGED object
<1>1. CallTypeOK'
  BY NoCheckpointType DEF Flow, TypeOK, CallTypeOK, Return, FreshThreads
<1>2. WorkerTypeOK'
  BY DEF Return, FreshThreads, WorkerTypeOK
<1> QED
  BY <1>1, <1>2 DEF Return, FreshThreads, Quiet, Hands, Alone, Placing, Holding

LEMMA DeleteType ==
  ASSUME DiskTypeOK, DeleteCheckpointFile
  PROVE  /\ ckptFile' \in {ckptFile, NoCheckpoint} /\ ckptFile' \in Checkpoints
         /\ faults' \in 0..MaxFaults
         /\ mislaid' \subseteq {"size", "off", "kept", "write"} /\ mislaid \subseteq mislaid'
<1>1. /\ ckptFile \in Checkpoints /\ faults \in 0..MaxFaults
      /\ mislaid \subseteq {"size", "off", "kept", "write"}
  BY DEF DiskTypeOK
<1>2. \/ ckptFile' = NoCheckpoint /\ UNCHANGED <<mislaid, faults>>
      \/ UNCHANGED ckptFile /\ faults' \in 0..MaxFaults /\ mislaid' = mislaid \cup {"kept"}
      \/ UNCHANGED <<ckptFile, mislaid, faults>>
  BY <1>1 DEF DeleteCheckpointFile
<1> QED
  BY <1>1, <1>2, NoCheckpointType

\* A worker's step that takes no part and records none.
LEMMA WorkerMoves ==
  ASSUME Flow, NEW w \in Workers, pc \in {"spawn", "join"},
         NEW s \in {"off", "loop", "get", "received", "retryable", "fatal", "setting", "dump", "done"},
         wpc' = [wpc EXCEPT ![w] = s], UNCHANGED <<pc, ckpt, front, wpart>>,
         \/ UNCHANGED wver
         \/ wver' = [wver EXCEPT ![w] = object],
         s \in Placing => wpc[w] \in Placing,
         s \in Holding => wpc[w] \in Holding,
         s \in Holding \ {"get"} => wver'[w] # wver[w] \/ wpc[w] \in Holding \ {"get"}
                                   \/ wver'[w] = object
  PROVE  WorkerTypeOK' /\ Quiet' /\ Hands' /\ Alone'
<1>0. WorkerTypeOK /\ Hands /\ Alone /\ object \in 1..MaxVersion
  BY DEF Flow, TypeOK, DiskTypeOK
<1>1. WorkerTypeOK'
  BY <1>0 DEF WorkerTypeOK
<1>2. Quiet'
  BY DEF Quiet
<1>3. Hands'
  BY <1>0 DEF WorkerTypeOK, Hands, Holding, Placing
<1>4. Alone'
  BY <1>0 DEF WorkerTypeOK, Alone, Holding, Placing
<1> QED
  BY <1>1, <1>2, <1>3, <1>4

\* A worker that holds a part, or looks for one, runs between start and join.
LEMMA WorkersRun ==
  ASSUME Flow, NEW w \in Workers, wpc[w] \notin {"off", "done"}
  PROVE  pc \in {"spawn", "join"} /\ ckpt.size \in PartSizes /\ ckpt.ver = ver /\ ver \in 1..object
BY DEF Flow, Quiet, Current

LEMMA CurrentKept ==
  ASSUME Current, UNCHANGED <<object, pc, ver>>,
         ckpt'.ver = ckpt.ver /\ ckpt'.size = ckpt.size,
         ckptFile'.ver = ckptFile.ver /\ ckptFile'.size = ckptFile.size
  PROVE  Current'
BY DEF Current

\* The place of a unit of part p, with parts of t units where it was cut to s.
LEMMA PlaceIsNat ==
  ASSUME NEW p \in Nat \ {0}, NEW s \in Nat \ {0}, NEW t \in Nat \ {0}, NEW u \in Nat,
         u \div s = p - 1
  PROVE  (p - 1) * t + u - (p - 1) * s \in Nat
<1> DEFINE q == p - 1
           a == q * t
           b == q * s
<1>1. q \in Nat /\ a \in Nat /\ b \in Nat
  OBVIOUS
<1>2. s * (u \div s) <= u
  OBVIOUS
<1>3. b <= u
  BY <1>1, <1>2
<1> HIDE DEF a, b
<1>4. a + u - b \in Nat
  BY <1>1, <1>3
<1> QED
  BY <1>4 DEF a, b

LEMMA PlacedCells ==
  ASSUME NEW p \in Parts, NEW v \in 1..MaxVersion, NEW units \in SUBSET RangeOf(p, ckpt.size),
         ckpt.size \in PartSizes, input.size \in PartSizes
  PROVE  Placed(p, units, v) \subseteq Cells
<1>1. ASSUME NEW u \in units
      PROVE  /\ (p - 1) * input.size + u - (p - 1) * ckpt.size \in Nat
             /\ u \in Units
  <2>1. u \in Nat /\ u \div ckpt.size = p - 1 /\ u \in Units
    BY DEF RangeOf, Units
  <2>2. p \in Nat \ {0}
    OBVIOUS
  <2>3. ckpt.size \in Nat \ {0} /\ input.size \in Nat \ {0}
    BY PartSizes \subseteq Nat \ {0}
  <2> QED
    BY <2>1, <2>2, <2>3, PlaceIsNat
<1> QED
  BY <1>1 DEF Placed, Cells

\* Worker's steps that leave the call, and what it knows, alone.
LEMMA CallKept ==
  ASSUME CallTypeOK,
         UNCHANGED <<pc, input, ver, ckpt, front, result, runs, fails>>,
         flags' \subseteq {"abort", "failed"}, firstError' \in PartErrors \cup {"none"},
         cancel' \in {"no", "pause", "calling", "abort"}
  PROVE  CallTypeOK'
BY DEF CallTypeOK

LEMMA DiskKept ==
  ASSUME DiskTypeOK, UNCHANGED <<object, temp, tempExists, file, mislaid>>,
         ckptFile' \in Checkpoints, faults' \in 0..MaxFaults
  PROVE  DiskTypeOK'
BY DEF DiskTypeOK

\* Raising a flag and recording an error keep to what there is.
LEMMA ErrorKept ==
  ASSUME flags \subseteq {"abort", "failed"}, firstError \in PartErrors \cup {"none"}
  PROVE  /\ \A f \in {"abort", "failed"} : Raise(f) => flags' \subseteq {"abort", "failed"}
         /\ \A e \in PartErrors : Record(e) => firstError' \in PartErrors \cup {"none"}
OBVIOUS

LEMMA FlowWorker ==
  ASSUME Flow, NEW w \in Workers, Worker(w)
  PROVE  Flow'
<1> USE DEF diskVars, flagVars, workerVars, countVars, callVars
<1>0. /\ DiskTypeOK /\ CallTypeOK /\ WorkerTypeOK /\ TypeOK
      /\ Quiet /\ Current /\ Hands /\ Alone
  BY DEF Flow, TypeOK
<1>a. /\ ckpt \in Checkpoints /\ ckptFile \in Checkpoints /\ faults \in 0..MaxFaults
      /\ flags \subseteq {"abort", "failed"} /\ firstError \in PartErrors \cup {"none"}
      /\ cancel \in {"no", "pause", "calling", "abort"} /\ front \in Nat
      /\ object \in 1..MaxVersion
  BY <1>0 DEF DiskTypeOK, CallTypeOK
<1>b. wpc[w] \notin {"off", "done"}
  BY DEF Worker, TakePart, GetPart, StopAfterGet, WritePart, OpenFails, SetPart, Dump,
         PartAborted, PartFailed, Accepts
<1>c. pc \in {"spawn", "join"} /\ ckpt.size \in PartSizes /\ ckpt.ver = ver /\ ver \in 1..object
  BY <1>b, WorkersRun
<1>1. CASE TakePart(w)
  <2>1. /\ UNCHANGED <<object, diskVars, pc, input, ver, ckpt, flagVars, wver, result, countVars,
                       mislaid, faults>>
        /\ cancel' \in {"no", "pause", "calling", "abort"}
    BY <1>1, <1>a DEF TakePart
  <2>2. CASE wpc' = [wpc EXCEPT ![w] = "done"] /\ UNCHANGED <<front, wpart>>
    BY <1>0, <1>a, <1>c, <2>1, <2>2, WorkerMoves, CallKept, DiskKept, CurrentKept
    DEF Flow, TypeOK, Placing, Holding
  <2>3. CASE /\ front \in Queued /\ front' = front + 1
             /\ IF ckpt.part[front] # 0
                THEN UNCHANGED <<wpc, wpart>>
                ELSE wpc' = [wpc EXCEPT ![w] = "get"] /\ wpart' = [wpart EXCEPT ![w] = front]
    <3>1. front \in Parts
      <4>1. ckpt.size \in Nat \ {0}
        BY <1>c, PartSizes \subseteq Nat \ {0}
      <4>2. NumParts(ckpt.size) \in Nat /\ NumParts(ckpt.size) <= ObjectSize
        BY <4>1, NumPartsBound
      <4> QED
        BY <2>3, <4>2 DEF Queued
    <3>2. CallTypeOK'
      BY <1>0, <2>1, <2>3, <3>1 DEF CallTypeOK
    <3>3. DiskTypeOK' /\ Current' /\ Quiet'
      BY <1>0, <1>a, <1>c, <2>1, DiskKept, CurrentKept DEF Quiet
    <3>4. WorkerTypeOK'
      BY <1>0, <2>1, <2>3, <3>1 DEF WorkerTypeOK
    <3>5. Hands'
      BY <1>0, <1>a, <1>1, <2>1, <2>3, <3>1 DEF WorkerTypeOK, Hands, Placing, Holding, TakePart
    <3>6. Alone'
      BY <1>0, <1>a, <1>1, <2>1, <2>3, <3>1 DEF WorkerTypeOK, Alone, Hands, Placing, Holding
    <3> QED
      BY <3>2, <3>3, <3>4, <3>5, <3>6 DEF Flow, TypeOK
  <2> QED
    BY <1>1, <2>2, <2>3 DEF TakePart
<1>2. CASE GetPart(w)
  <2>1. PICK s \in {"received", "retryable", "fatal", "done"} :
          /\ wpc' = [wpc EXCEPT ![w] = s]
          /\ IF s = "received" THEN wver' = [wver EXCEPT ![w] = object] ELSE UNCHANGED wver
    BY <1>2 DEF GetPart
  <2>2. /\ UNCHANGED <<object, diskVars, pc, input, ver, ckpt, front, cancel, wpart, result,
                       countVars, mislaid>>
        /\ faults' \in 0..MaxFaults /\ wpc[w] = "get"
    BY <1>2, <1>a DEF GetPart
  <2>e. /\ flags' \subseteq {"abort", "failed"} /\ firstError' \in PartErrors \cup {"none"}
    BY <1>2, <1>a, ErrorKept DEF GetPart
  <2>3. s = "received" => wver'[w] = object
    BY <1>0, <2>1 DEF WorkerTypeOK
  <2>4. WorkerTypeOK' /\ Quiet' /\ Hands' /\ Alone'
    BY <1>c, <2>1, <2>2, <2>3, WorkerMoves DEF Placing, Holding
  <2> QED
    BY <1>0, <1>a, <2>2, <2>e, <2>4, CallKept, DiskKept, CurrentKept DEF Flow, TypeOK
<1>3. CASE StopAfterGet(w)
  BY <1>0, <1>a, <1>c, <1>3, WorkerMoves, CallKept, DiskKept, CurrentKept
  DEF Flow, TypeOK, Placing, Holding, StopAfterGet
<1>4. CASE WritePart(w)
  <2>1. PICK s \in {"setting", "done"} : wpc' = [wpc EXCEPT ![w] = s]
    BY <1>4 DEF WritePart
  <2>2. /\ UNCHANGED <<object, ckptFile, tempExists, file, pc, input, ver, ckpt, front, wpart, wver,
                       result, countVars>>
        /\ faults' \in 0..MaxFaults /\ wpc[w] = "received"
        /\ cancel' \in {"no", "pause", "calling", "abort"}
    BY <1>4, <1>a DEF WritePart, Accepts
  <2>e. /\ flags' \subseteq {"abort", "failed"} /\ firstError' \in PartErrors \cup {"none"}
    BY <1>4, <1>a, ErrorKept DEF WritePart
  <2>3. WorkerTypeOK' /\ Quiet' /\ Hands' /\ Alone'
    BY <1>c, <2>1, <2>2, WorkerMoves DEF Placing, Holding
  <2>4. wpart[w] \in Parts /\ wver[w] \in 1..MaxVersion /\ input.size \in PartSizes
    BY <1>0, <2>2 DEF Hands, CallTypeOK, Placing, Holding
  <2>5. PICK units \in SUBSET RangeOf(wpart[w], ckpt.size) :
          temp' = Overwrite(Placed(wpart[w], units, wver[w]))
    BY <1>4 DEF WritePart
  <2>6. temp' \subseteq Cells
    BY <1>0, <1>c, <2>4, <2>5, PlacedCells DEF Overwrite, DiskTypeOK
  <2>7. mislaid' \subseteq {"size", "off", "kept", "write"}
    BY <1>0, <1>4 DEF WritePart, DiskTypeOK
  <2>8. DiskTypeOK'
    BY <1>0, <2>2, <2>6, <2>7 DEF DiskTypeOK
  <2> QED
    BY <1>0, <1>a, <2>2, <2>e, <2>3, <2>8, CallKept, CurrentKept DEF Flow, TypeOK
<1>5. CASE OpenFails(w)
  <2>1. PICK s \in {"loop", "done"} : wpc' = [wpc EXCEPT ![w] = s]
    BY <1>5 DEF OpenFails
  <2>2. /\ UNCHANGED <<object, diskVars, pc, input, ver, ckpt, front, wpart, wver, result,
                       countVars, mislaid>>
        /\ faults' \in 0..MaxFaults
        /\ cancel' \in {"no", "pause", "calling", "abort"}
    BY <1>5, <1>a DEF OpenFails, Accepts
  <2>e. /\ flags' \subseteq {"abort", "failed"} /\ firstError' \in PartErrors \cup {"none"}
    BY <1>5, <1>a, ErrorKept DEF OpenFails
  <2>3. WorkerTypeOK' /\ Quiet' /\ Hands' /\ Alone'
    BY <1>c, <2>1, <2>2, WorkerMoves DEF Placing, Holding
  <2> QED
    BY <1>0, <1>a, <2>2, <2>e, <2>3, CallKept, DiskKept, CurrentKept DEF Flow, TypeOK
<1>6. CASE SetPart(w)
  <2> DEFINE f == [ckpt.part EXCEPT ![wpart[w]] = wver[w]]
  <2>1. /\ UNCHANGED <<object, diskVars, pc, input, ver, front, flagVars, cancel, wpart, wver,
                       result, countVars, mislaid, faults>>
        /\ wpc[w] = "setting" /\ wpc' = [wpc EXCEPT ![w] = "dump"]
    BY <1>6 DEF SetPart
  <2>2. wpart[w] \in Parts /\ wpart[w] < front /\ wver[w] \in 1..MaxVersion
    BY <1>0, <2>1 DEF Hands, Placing, Holding
  <2>3. ckpt.part \in [Parts -> Torn..MaxVersion] /\ f \in [Parts -> Torn..MaxVersion]
    BY <1>a, <2>2, CheckpointFields
  <2>4. ckpt' = [ckpt EXCEPT !.part = f]
    BY <1>6 DEF SetPart
  <2>5. /\ ckpt' \in Checkpoints /\ ckpt'.part = f
        /\ ckpt'.ver = ckpt.ver /\ ckpt'.size = ckpt.size
    BY <1>a, <2>3, <2>4, CheckpointUpdate
  <2>6. CallTypeOK' /\ DiskTypeOK' /\ Current' /\ Quiet'
    BY <1>0, <1>a, <1>c, <2>1, <2>5, DiskKept, CurrentKept DEF CallTypeOK, Quiet
  <2>7. WorkerTypeOK'
    BY <1>0, <2>1 DEF WorkerTypeOK
  <2>8. Hands'
    BY <1>0, <2>1, <2>2 DEF WorkerTypeOK, Hands, Placing, Holding
  <2>9. Alone'
    <3> SUFFICES ASSUME NEW x \in Workers, wpc'[x] \in Placing
                 PROVE  /\ ckpt'.part[wpart[x]] = 0
                        /\ \A v \in Workers : v # x /\ wpc'[v] \in Holding => wpart[v] # wpart[x]
      BY <2>1 DEF Alone
    <3>1. x # w /\ wpc[x] \in Placing
      BY <1>0, <2>1 DEF WorkerTypeOK, Placing
    <3>2. wpart[x] # wpart[w] /\ ckpt.part[wpart[x]] = 0
      BY <1>0, <2>1, <3>1 DEF Alone, Placing, Holding
    <3>3. wpart[x] \in Parts
      BY <1>0, <3>1 DEF Hands, Holding
    <3>4. ckpt'.part[wpart[x]] = 0
      BY <2>3, <2>5, <3>2, <3>3
    <3>5. \A v \in Workers : v # x /\ wpc'[v] \in Holding => wpart[v] # wpart[x]
      BY <1>0, <2>1, <3>1, <3>2 DEF WorkerTypeOK, Alone, Placing, Holding
    <3> QED
      BY <3>4, <3>5
  <2> QED
    BY <2>6, <2>7, <2>8, <2>9 DEF Flow, TypeOK
<1>7. CASE Dump(w)
  <2>1. /\ UNCHANGED <<object, temp, tempExists, file, pc, input, ver, ckpt, front, flagVars, cancel,
                       wpart, wver, result, countVars, mislaid>>
        /\ faults' \in 0..MaxFaults /\ wpc' = [wpc EXCEPT ![w] = "loop"]
    BY <1>7, <1>a DEF Dump
  <2>2. WorkerTypeOK' /\ Quiet' /\ Hands' /\ Alone'
    BY <1>c, <2>1, WorkerMoves DEF Placing, Holding
  <2>3. ckptFile' \in Checkpoints /\ Current'
    BY <1>0, <1>a, <1>c, <1>7, <2>1, DumpFields, NoCheckpointType DEF Current
  <2> QED
    BY <1>0, <1>a, <2>1, <2>2, <2>3, CallKept, DiskKept DEF Flow, TypeOK
<1>8. CASE PartAborted(w)
  <2>1. /\ UNCHANGED <<object, diskVars, pc, input, ver, ckpt, front, wpart, wver, result,
                       countVars, mislaid, faults>>
        /\ wpc' = [wpc EXCEPT ![w] = "done"]
        /\ cancel' \in {"no", "pause", "calling", "abort"}
        /\ flags' \subseteq {"abort", "failed"} /\ firstError' \in PartErrors \cup {"none"}
    BY <1>8, <1>a DEF PartAborted
  <2>2. WorkerTypeOK' /\ Quiet' /\ Hands' /\ Alone'
    BY <1>c, <2>1, WorkerMoves DEF Placing, Holding
  <2> QED
    BY <1>0, <1>a, <2>1, <2>2, CallKept, DiskKept, CurrentKept DEF Flow, TypeOK
<1>9. CASE PartFailed(w)
  <2>1. PICK s \in {"loop", "done"} : wpc' = [wpc EXCEPT ![w] = s]
    BY <1>9 DEF PartFailed
  <2>2. /\ UNCHANGED <<object, diskVars, pc, input, ver, ckpt, front, wpart, wver, result,
                       countVars, mislaid>>
        /\ faults' \in 0..MaxFaults
        /\ cancel' \in {"no", "pause", "calling", "abort"}
    BY <1>9, <1>a DEF PartFailed
  <2>e. /\ flags' \subseteq {"abort", "failed"} /\ firstError' \in PartErrors \cup {"none"}
    BY <1>9, <1>a, ErrorKept DEF PartFailed
  <2>3. WorkerTypeOK' /\ Quiet' /\ Hands' /\ Alone'
    BY <1>c, <2>1, <2>2, WorkerMoves DEF Placing, Holding
  <2> QED
    BY <1>0, <1>a, <2>2, <2>e, <2>3, CallKept, DiskKept, CurrentKept DEF Flow, TypeOK
<1> QED
  BY <1>1, <1>2, <1>3, <1>4, <1>5, <1>6, <1>7, <1>8, <1>9 DEF Worker

\* The workers are all at rest: nobody holds anything.
LEMMA AtRest ==
  ASSUME WorkerTypeOK', \A w \in Workers : wpc'[w] \in {"off", "done"}
  PROVE  Quiet' /\ Hands' /\ Alone'
BY DEF Quiet, Hands, Alone, Placing, Holding

\* Steps of the caller between two states without workers, or of the outside.
LEMMA WorkersKept ==
  ASSUME Flow, UNCHANGED <<workerVars, ckpt, front>>,
         \/ pc' \in {"spawn", "join"}
         \/ pc \notin {"spawn", "join"}
         \/ \A w \in Workers : wpc[w] \in {"off", "done"}
  PROVE  WorkerTypeOK' /\ Quiet' /\ Hands' /\ Alone'
<1>1. UNCHANGED <<wpc, wpart, wver>>
  BY DEF workerVars
<1> QED
  BY <1>1 DEF Flow, TypeOK, WorkerTypeOK, Quiet, Hands, Alone

LEMMA FlowStart == Flow /\ StartDownload => Flow'
<1> USE DEF diskVars, flagVars, workerVars, countVars, callVars
<1> SUFFICES ASSUME Flow, StartDownload PROVE Flow'
  OBVIOUS
<1>0. DiskTypeOK /\ CallTypeOK /\ WorkerTypeOK /\ Current
  BY DEF Flow, TypeOK
<1>1. WorkerTypeOK'
  BY DEF StartDownload, FreshThreads, WorkerTypeOK
<1>2. \A w \in Workers : wpc'[w] \in {"off", "done"}
  BY DEF StartDownload, FreshThreads
<1>3. Quiet' /\ Hands' /\ Alone'
  BY <1>1, <1>2, AtRest
<1>4. DiskTypeOK'
  <2>1. mislaid' \subseteq {"size", "off", "kept", "write"}
    BY <1>0 DEF StartDownload, DiskTypeOK
  <2> QED
    BY <1>0, <2>1 DEF StartDownload, DiskTypeOK
<1>5. /\ ckpt' \in Checkpoints /\ ver' = object /\ object' = object /\ ckptFile' = ckptFile
      /\ \/ pc' = "spawn" /\ ckpt' = ckptFile /\ ckptFile.ver = object
         \/ pc' = "truncate"
  BY <1>0, NoCheckpointType DEF StartDownload, DiskTypeOK, IsValid
<1>6. CallTypeOK'
  BY <1>0, <1>5 DEF StartDownload, DiskTypeOK, CallTypeOK, FreshThreads
<1>7. Current'
  <2>1. object \in 1..MaxVersion /\ ckptFile.ver \in Nat /\ ckptFile.ver <= object
    BY <1>0, CheckpointFields DEF DiskTypeOK, Current
  <2>2. ckptFile.ver # 0 => ckptFile.size \in PartSizes
    BY <1>0 DEF Current
  <2> QED
    BY <1>5, <2>1, <2>2 DEF Current
<1> QED
  BY <1>1, <1>3, <1>4, <1>6, <1>7 DEF Flow, TypeOK

LEMMA FlowReturn ==
  ASSUME Flow, NEW r \in Results, Return(r), DiskTypeOK',
         ckptFile' \in {ckptFile, NoCheckpoint}
  PROVE  Flow'
<1>1. CallTypeOK' /\ WorkerTypeOK' /\ Quiet' /\ Hands' /\ Alone' /\ pc' = "idle"
      /\ UNCHANGED object
  BY ReturnFlow
<1>2. object \in Nat /\ Current
  BY DEF Flow, TypeOK, DiskTypeOK
<1>3. Current'
  BY <1>1, <1>2, NoCheckpointType DEF Current
<1> QED
  BY <1>1, <1>3 DEF Flow, TypeOK

LEMMA FlowCaller == Flow /\ Caller => Flow'
<1> USE DEF diskVars, flagVars, workerVars, countVars, callVars
<1> SUFFICES ASSUME Flow, Caller PROVE Flow'
  OBVIOUS
<1>0. /\ DiskTypeOK /\ CallTypeOK /\ WorkerTypeOK
      /\ Quiet /\ Current /\ Hands /\ Alone
  BY DEF Flow, TypeOK
<1>a. /\ ckpt \in Checkpoints /\ ckptFile \in Checkpoints /\ faults \in 0..MaxFaults
      /\ flags \subseteq {"abort", "failed"} /\ firstError \in PartErrors \cup {"none"}
      /\ cancel \in {"no", "pause", "calling", "abort"} /\ front \in Nat
      /\ object \in 1..MaxVersion /\ result \in Results /\ input.size \in PartSizes
      /\ ver \in Versions
  BY <1>0 DEF DiskTypeOK, CallTypeOK
<1>1. CASE TruncateTemp
  <2>1. DiskTypeOK'
    BY <1>0, <1>1 DEF TruncateTemp, DiskTypeOK
  <2>2. CallTypeOK' /\ Current'
    BY <1>0, <1>1 DEF TruncateTemp, CallTypeOK, Current
  <2> QED
    BY <1>1, <2>1, <2>2, WorkersKept DEF TruncateTemp, Flow, TypeOK
<1>2. CASE ForgetCheckpoint
  <2>1. ckptFile' \in {ckptFile, NoCheckpoint} /\ DiskTypeOK'
    BY <1>0, <1>2, DeleteType DEF ForgetCheckpoint, DiskTypeOK
  <2>2. ckpt' \in Checkpoints /\ ckpt'.ver = ver /\ ckpt'.size = input.size
    BY <1>a, <1>2 DEF ForgetCheckpoint, Checkpoints, NoData
  <2>3. CallTypeOK'
    BY <1>0, <1>2, <2>2 DEF ForgetCheckpoint, CallTypeOK
  <2>4. Current'
    BY <1>0, <1>a, <1>2, <2>1, <2>2, NoCheckpointType DEF ForgetCheckpoint, Current
  <2>5. WorkerTypeOK' /\ \A w \in Workers : wpc'[w] \in {"off", "done"}
    BY <1>0, <1>2 DEF ForgetCheckpoint, WorkerTypeOK, Quiet
  <2> QED
    BY <2>1, <2>3, <2>4, <2>5, AtRest DEF Flow, TypeOK
<1>3. CASE LaunchFails
  <2>1. /\ UNCHANGED <<object, diskVars, input, ver, ckpt, front, cancel, workerVars, result,
                       countVars, mislaid>>
        /\ pc = "spawn" /\ pc' = "join" /\ faults' \in 0..MaxFaults
    BY <1>a, <1>3 DEF LaunchFails
  <2>2. flags' \subseteq {"abort", "failed"} /\ firstError' \in PartErrors \cup {"none"}
    BY <1>a, <1>3, ErrorKept DEF LaunchFails
  <2>3. CallTypeOK' /\ DiskTypeOK' /\ Current'
    BY <1>0, <2>1, <2>2 DEF CallTypeOK, DiskTypeOK, Current
  <2> QED
    BY <2>1, <2>3, WorkersKept DEF Flow, TypeOK
<1>4. CASE LaunchDone
  <2>1. CallTypeOK' /\ DiskTypeOK' /\ Current'
    BY <1>0, <1>4 DEF LaunchDone, CallTypeOK, DiskTypeOK, Current
  <2> QED
    BY <1>4, <2>1, WorkersKept DEF LaunchDone, Flow, TypeOK
<1>5. CASE Join
  <2>1. DiskTypeOK' \/ ~UNCHANGED object
    BY <1>0, <1>5 DEF Join, DiskTypeOK
  <2>2. CASE \E r \in Results : Return(r)
    BY <1>5, <2>1, <2>2, FlowReturn DEF Join, Return
  <2>3. CASE \E next \in {"discard", "finish"}, r \in Results : Settle(next, r)
    <3>1. cancel' \in {"no", "pause", "calling", "abort"}
      BY <1>a, <1>5, <2>3 DEF Join, Settle, Return
    <3>2. CallTypeOK' /\ DiskTypeOK' /\ Current'
      BY <1>0, <1>5, <2>1, <2>3, <3>1 DEF Join, Settle, CallTypeOK, DiskTypeOK, Current
    <3> QED
      BY <1>5, <2>3, <3>2, WorkersKept DEF Join, Settle, Flow, TypeOK
  <2> QED
    BY <1>a, <1>5, <2>2, <2>3 DEF Join
<1>6. CASE DiscardCheckpoint
  <2>1. ckptFile' \in {ckptFile, NoCheckpoint} /\ DiskTypeOK'
    BY <1>0, <1>6, DeleteType DEF DiscardCheckpoint, DiskTypeOK
  <2>2. CallTypeOK' /\ Current'
    BY <1>0, <1>a, <1>6, <2>1, NoCheckpointType DEF DiscardCheckpoint, CallTypeOK, Current
  <2> QED
    BY <1>6, <2>1, <2>2, WorkersKept DEF DiscardCheckpoint, Flow, TypeOK
<1>7. CASE RemoveTemp
  <2>1. DiskTypeOK'
    BY <1>0, <1>7 DEF RemoveTemp, DiskTypeOK, Return
  <2> QED
    BY <1>a, <1>7, <2>1, FlowReturn DEF RemoveTemp
<1>8. CASE RenameTemp
  <2>1. DiskTypeOK'
    BY <1>0, <1>8 DEF RenameTemp, DiskTypeOK, Return
  <2>2. \E r \in Results : Return(r)
    BY <1>8 DEF RenameTemp
  <2> QED
    BY <1>8, <2>1, <2>2, FlowReturn DEF RenameTemp
<1>9. ASSUME NEW w \in Workers, Launch(w) PROVE Flow'
  <2>1. /\ UNCHANGED <<object, diskVars, pc, input, ver, ckpt, front, flagVars, cancel, wpart, wver,
                       result, countVars, mislaid, faults>>
        /\ wpc' = [wpc EXCEPT ![w] = "loop"] /\ pc = "spawn"
    BY <1>9 DEF Launch
  <2> QED
    BY <1>0, <1>a, <2>1, WorkerMoves, CallKept, DiskKept, CurrentKept
    DEF Flow, TypeOK, Placing, Holding
<1> QED
  BY <1>1, <1>2, <1>3, <1>4, <1>5, <1>6, <1>7, <1>8, <1>9 DEF Caller

LEMMA FlowStep == Flow /\ [Next]_vars => Flow'
<1> USE DEF diskVars, flagVars, workerVars, countVars, callVars
<1> SUFFICES ASSUME Flow, [Next]_vars PROVE Flow'
  OBVIOUS
<1>0. /\ DiskTypeOK /\ CallTypeOK /\ WorkerTypeOK
      /\ Quiet /\ Current /\ Hands /\ Alone
  BY DEF Flow, TypeOK
<1>1. CASE StartFails
  <2>1. CallTypeOK' /\ DiskTypeOK' /\ Current'
    BY <1>0, <1>1 DEF StartFails, CallTypeOK, DiskTypeOK, Current
  <2> QED
    BY <1>1, <2>1, WorkersKept DEF StartFails, Flow, TypeOK
<1>2. CASE Cancel
  <2>1. CallTypeOK' /\ DiskTypeOK' /\ Current'
    BY <1>0, <1>2 DEF Cancel, CallTypeOK, DiskTypeOK, Current
  <2> QED
    BY <1>0, <1>2, <2>1, WorkersKept DEF Cancel, Flow, TypeOK, Quiet
<1>3. CASE Crash
  <2>1. DiskTypeOK'
    BY <1>0, <1>3, NoCheckpointType DEF Crash, DiskTypeOK, Return
  <2> QED
    BY <1>3, <2>1, FlowReturn DEF Crash
<1>4. CASE ObjectChanges
  <2>1. CallTypeOK' /\ DiskTypeOK'
    BY <1>0, <1>4 DEF ObjectChanges, CallTypeOK, DiskTypeOK
  <2>2. object \in Nat /\ ver \in Nat /\ ckptFile.ver \in Nat
    BY <1>0, CheckpointFields DEF DiskTypeOK, CallTypeOK
  <2>3. Current'
    BY <1>0, <1>4, <2>2 DEF ObjectChanges, Current
  <2> QED
    BY <1>0, <1>4, <2>1, <2>3, WorkersKept DEF ObjectChanges, Flow, TypeOK, Quiet
<1>5. CASE UNCHANGED vars
  BY <1>0, <1>5
  DEF vars, Flow, TypeOK, CallTypeOK, DiskTypeOK, WorkerTypeOK, Quiet, Current, Hands, Alone
<1> QED
  BY <1>1, <1>2, <1>3, <1>4, <1>5, FlowStart, FlowCaller, FlowWorker DEF Next

THEOREM FlowAlways == Spec => []Flow
<1>1. Init => Flow
  BY FlowInit
<1>2. Flow /\ [Next]_vars => Flow'
  BY FlowStep
<1> QED
  BY <1>1, <1>2, PTL DEF Spec

\* Every variable of downloadFile keeps its type: parts stay in the file and
\* units in their cells, also when the part size changes between two calls.
THEOREM TypeCorrect == Spec => []TypeOK
<1>1. Flow => TypeOK
  BY DEF Flow
<1> QED
  BY <1>1, FlowAlways, PTL

-----------------------------------------------------------------------------
(* What is on disk                                                         *)

HasPart(p, size, v) == \A u \in RangeOf(p, size) : <<u, u, v>> \in temp

\* Every part the checkpoint c calls completed is in the temporary file.
Trusts(c) == \A p \in Parts : c.part[p] > 0 => HasPart(p, c.size, c.part[p])

\* The call puts parts where they were cut.
SameCut == pc \notin {"idle", "truncate", "forget"} => input.size = ckpt.size

\* No checkpoint to trust: the call takes none, rejected it or removed it.
Distrusted ==
  /\ pc # "idle" /\ ~Enabled => ckptFile = NoCheckpoint
  /\ pc \in {"truncate", "forget"} => ckptFile.ver < ver
  /\ pc \in {"remove", "rename"} => ckptFile = NoCheckpoint

\* While parts are placed, the file of the checkpoint lags behind the memory,
\* whose parts are on disk; so is the one a worker is about to record.
Lags ==
  pc \in {"spawn", "join"} =>
    /\ Trusts(ckpt)
    /\ ckptFile.ver # 0 => /\ ckptFile.size = ckpt.size
                           /\ \A p \in Parts : ckptFile.part[p] \in {0, Torn, ckpt.part[p]}

Written ==
  \A w \in Workers :
    /\ wpc[w] = "setting" => HasPart(wpart[w], ckpt.size, wver[w])
    /\ wpc[w] \in {"setting", "dump"} => tempExists = "yes"

OnDisk == ckptFile.ver = object => tempExists = "yes" /\ Trusts(ckptFile)

Disk == mislaid = {} => SameCut /\ Distrusted /\ Lags /\ Written /\ OnDisk

Inv == Flow /\ Disk

LEMMA SizesAreNumbers == \A s \in PartSizes : s \in Int
BY PartSizes \subseteq Nat \ {0}

\* A part is put where it was cut when the sizes are the same.
LEMMA PlacedWhereCut ==
  ASSUME NEW p \in Parts, NEW v, ckpt.size \in PartSizes, input.size = ckpt.size
  PROVE  Placed(p, RangeOf(p, ckpt.size), v) = {<<u, u, v>> : u \in RangeOf(p, ckpt.size)}
<1>1. ASSUME NEW u \in RangeOf(p, ckpt.size)
      PROVE  (p - 1) * input.size + u - (p - 1) * ckpt.size = u
  <2> DEFINE a == (p - 1) * ckpt.size
  <2>1. a \in Int /\ u \in Int
    <3>1. ckpt.size \in Int
      BY SizesAreNumbers
    <3>2. p - 1 \in Int
      BY DEF Parts
    <3> QED
      BY <3>1, <3>2 DEF RangeOf, Units
  <2> HIDE DEF a
  <2>2. a + u - a = u
    BY <2>1
  <2> QED
    BY <2>2 DEF a
<1> QED
  BY <1>1 DEF Placed

\* Writing a part in its place puts it on disk, and touches no other part.
LEMMA WriteKeepsOthers ==
  ASSUME NEW p \in Parts, NEW v \in 1..MaxVersion, ckpt.size \in PartSizes,
         input.size = ckpt.size,
         temp' = Overwrite(Placed(p, RangeOf(p, ckpt.size), v)), UNCHANGED ckpt
  PROVE  /\ HasPart(p, ckpt.size, v)'
         /\ \A q \in Parts, x \in Versions :
              q # p /\ HasPart(q, ckpt.size, x) => HasPart(q, ckpt.size, x)'
<1> DEFINE cells == {<<u, u, v>> : u \in RangeOf(p, ckpt.size)}
<1>1. Placed(p, RangeOf(p, ckpt.size), v) = cells
  BY PlacedWhereCut
<1>2. temp' = {c \in temp : \A d \in cells : c[1] # d[1]} \cup cells
  BY <1>1 DEF Overwrite
<1>3. HasPart(p, ckpt.size, v)'
  BY <1>2 DEF HasPart
<1>4. ASSUME NEW q \in Parts, NEW x \in Versions, q # p, HasPart(q, ckpt.size, x)
      PROVE  HasPart(q, ckpt.size, x)'
  <2> SUFFICES ASSUME NEW u \in RangeOf(q, ckpt.size)
               PROVE  <<u, u, x>> \in temp'
    BY DEF HasPart
  <2>1. <<u, u, x>> \in temp
    BY <1>4 DEF HasPart
  <2>2. u \notin RangeOf(p, ckpt.size)
    BY <1>4 DEF RangeOf, Units
  <2>3. \A d \in cells : d[1] # u
    BY <2>2
  <2> QED
    BY <1>2, <2>1, <2>3
<1> QED
  BY <1>3, <1>4

\* A step that leaves the files, the memory and the workers' parts alone.
LEMMA DiskFrame ==
  ASSUME Disk, UNCHANGED <<temp, tempExists, ckptFile, input, ver, wpart, wver, ckpt>>,
         mislaid' = {} => mislaid = {},
         object' = object \/ ckptFile.ver # object',
         \A w \in Workers : wpc'[w] \in {"setting", "dump"} => wpc'[w] = wpc[w],
         pc' \in {"spawn", "join"} => pc \in {"spawn", "join"},
         pc' \in {"truncate", "forget", "remove", "rename"} => pc' = pc,
         pc' # "idle" => pc \notin {"idle"},
         pc' \notin {"idle", "truncate", "forget"} => pc \notin {"idle", "truncate", "forget"}
  PROVE  Disk'
BY DEF Disk, SameCut, Distrusted, Lags, Written, OnDisk, Trusts, HasPart, Enabled

\* A call that returns without having touched the temporary file, or with no
\* checkpoint left.
LEMMA DiskReturn ==
  ASSUME Flow, Disk, NEW r \in Results, Return(r),
         mislaid' = {} => mislaid = {},
         ckptFile' \in {ckptFile, NoCheckpoint},
         UNCHANGED <<temp, tempExists>> \/ (mislaid = {} => ckptFile = NoCheckpoint)
  PROVE  Disk'
<1>1. object \in 1..MaxVersion
  BY DEF Flow, TypeOK, DiskTypeOK
<1>2. pc' = "idle" /\ object' = object /\ \A w \in Workers : wpc'[w] = "off"
  BY DEF Return, FreshThreads
<1>3. SameCut' /\ Distrusted' /\ Lags' /\ Written'
  BY <1>2 DEF SameCut, Distrusted, Lags, Written
<1>4. ASSUME mislaid' = {} PROVE OnDisk'
  <2>1. CASE ckptFile' = NoCheckpoint
    BY <1>1, <1>2, <2>1, NoCheckpointType DEF OnDisk
  <2>2. CASE ckptFile' = ckptFile /\ UNCHANGED <<temp, tempExists>>
    BY <1>2, <1>4, <2>2 DEF Disk, OnDisk, Trusts, HasPart
  <2> QED
    BY <1>4, <2>1, <2>2
<1> QED
  BY <1>3, <1>4 DEF Disk

-----------------------------------------------------------------------------
LEMMA DiskWorker ==
  ASSUME Inv, NEW w \in Workers, Worker(w)
  PROVE  Disk'
<1> USE DEF diskVars, flagVars, workerVars, countVars, callVars
<1>0. /\ Flow /\ DiskTypeOK /\ CallTypeOK /\ WorkerTypeOK /\ Quiet /\ Current /\ Hands /\ Alone
      /\ Disk
  BY DEF Inv, Flow, TypeOK
<1>a. ckpt \in Checkpoints /\ ckptFile \in Checkpoints /\ object \in 1..MaxVersion
  BY <1>0 DEF DiskTypeOK, CallTypeOK
<1>b. wpc[w] \notin {"off", "done"}
  BY DEF Worker, TakePart, GetPart, StopAfterGet, WritePart, OpenFails, SetPart, Dump,
         PartAborted, PartFailed, Accepts
<1>c. pc \in {"spawn", "join"} /\ ckpt.size \in PartSizes /\ ckpt.ver = ver /\ ver \in 1..object
  BY <1>0, <1>b, WorkersRun
<1>1. CASE TakePart(w)
  <2>1. CASE UNCHANGED wpart
    <3>1. \A x \in Workers : wpc'[x] \in {"setting", "dump"} => wpc'[x] = wpc[x]
      BY <1>0, <1>1 DEF TakePart, WorkerTypeOK
    <3> QED
      BY <1>0, <1>c, <1>1, <2>1, <3>1, DiskFrame DEF TakePart
  <2>2. CASE wpc' = [wpc EXCEPT ![w] = "get"] /\ wpart' = [wpart EXCEPT ![w] = front]
    <3>1. \A x \in Workers : wpc'[x] \in {"setting", "dump"} =>
                              wpc'[x] = wpc[x] /\ wpart'[x] = wpart[x]
      BY <1>0, <2>2 DEF WorkerTypeOK
    <3>2. UNCHANGED <<temp, tempExists, ckptFile, input, ver, wver, ckpt, pc, object, mislaid>>
      BY <1>1 DEF TakePart
    <3> QED
      BY <1>0, <3>1, <3>2
      DEF Disk, SameCut, Distrusted, Lags, Written, OnDisk, Trusts, HasPart, Enabled
  <2> QED
    BY <1>1, <2>1, <2>2 DEF TakePart
<1>2. CASE GetPart(w)
  <2>1. \A x \in Workers : wpc'[x] \in {"setting", "dump"} => wpc'[x] = wpc[x] /\ wver'[x] = wver[x]
    BY <1>0, <1>2 DEF GetPart, WorkerTypeOK
  <2>2. UNCHANGED <<temp, tempExists, ckptFile, input, ver, wpart, ckpt, pc, object, mislaid>>
    BY <1>2 DEF GetPart
  <2> QED
    BY <1>0, <2>1, <2>2
    DEF Disk, SameCut, Distrusted, Lags, Written, OnDisk, Trusts, HasPart, Enabled
<1>3. CASE StopAfterGet(w) \/ OpenFails(w) \/ PartAborted(w) \/ PartFailed(w)
  <2>1. \A x \in Workers : wpc'[x] \in {"setting", "dump"} => wpc'[x] = wpc[x]
    BY <1>0, <1>3 DEF StopAfterGet, OpenFails, PartAborted, PartFailed, WorkerTypeOK
  <2>2. UNCHANGED <<temp, tempExists, ckptFile, input, ver, wpart, wver, ckpt, pc, object, mislaid>>
    BY <1>3 DEF StopAfterGet, OpenFails, PartAborted, PartFailed
  <2> QED
    BY <1>0, <1>c, <2>1, <2>2, DiskFrame
<1>4. CASE WritePart(w)
  <2> SUFFICES ASSUME mislaid' = {}
               PROVE  SameCut' /\ Distrusted' /\ Lags' /\ Written' /\ OnDisk'
    BY DEF Disk
  <2>1. mislaid = {} /\ temp' = Overwrite(Placed(wpart[w], RangeOf(wpart[w], ckpt.size), wver[w]))
    BY <1>4 DEF WritePart
  <2>2. SameCut /\ Distrusted /\ Lags /\ Written /\ OnDisk
    BY <1>0, <2>1 DEF Disk
  <2>3. /\ UNCHANGED <<object, ckptFile, tempExists, pc, input, ver, ckpt, wpart, wver>>
        /\ wpc[w] = "received" /\ tempExists = "yes"
        /\ \A x \in Workers : x # w => wpc'[x] = wpc[x]
    BY <1>0, <1>4 DEF WritePart, Accepts, WorkerTypeOK
  <2>4. wpart[w] \in Parts /\ wver[w] \in 1..MaxVersion /\ ckpt.part[wpart[w]] = 0
    BY <1>0, <2>3 DEF Hands, Alone, Placing, Holding
  <2>5. input.size = ckpt.size
    BY <1>c, <2>2 DEF SameCut
  <2>6. /\ HasPart(wpart[w], ckpt.size, wver[w])'
        /\ \A q \in Parts, x \in Versions :
             q # wpart[w] /\ HasPart(q, ckpt.size, x) => HasPart(q, ckpt.size, x)'
    <3> DEFINE p == wpart[w]
               v == wver[w]
    <3>1. p' = p /\ v' = v
      BY <2>3
    <3>2. /\ \A u \in RangeOf(p, ckpt.size) : <<u, u, v>> \in temp'
          /\ \A q \in Parts, x \in Versions :
               q # p /\ HasPart(q, ckpt.size, x) => HasPart(q, ckpt.size, x)'
      <4> HIDE DEF p, v
      <4>1. p \in Parts /\ v \in 1..MaxVersion /\ UNCHANGED <<ckpt, p, v>>
        BY <2>3, <2>4, <3>1 DEF p, v
      <4>2. temp' = Overwrite(Placed(p, RangeOf(p, ckpt.size), v))
        BY <2>1 DEF p, v
      <4> QED
        BY <1>c, <2>5, <4>1, <4>2, WriteKeepsOthers DEF HasPart
    <3> QED
      BY <2>3, <3>1, <3>2 DEF HasPart
  <2>7. SameCut' /\ Distrusted'
    BY <2>2, <2>3 DEF SameCut, Distrusted, Enabled
  <2>8. Trusts(ckpt) /\ Trusts(ckpt)'
    <3>1. Trusts(ckpt)
      BY <1>c, <2>2 DEF Lags
    <3>2. \A q \in Parts : ckpt.part[q] > 0 => q # wpart[w] /\ ckpt.part[q] \in Versions
      BY <1>a, <2>4, CheckpointFields
    <3> QED
      BY <2>3, <2>6, <3>1, <3>2 DEF Trusts
  <2>9. Lags'
    BY <1>c, <2>2, <2>3, <2>8 DEF Lags
  <2>10. Written'
    <3> SUFFICES ASSUME NEW x \in Workers, wpc'[x] \in {"setting", "dump"}
                 PROVE  /\ wpc'[x] = "setting" => HasPart(wpart[x], ckpt.size, wver[x])'
                        /\ tempExists' = "yes"
      BY DEF Written
    <3>1. CASE x = w
      BY <2>3, <2>6, <3>1
    <3>2. CASE x # w
      <4>1. wpc[x] = wpc'[x]
        BY <2>3, <3>2
      <4>2. wpart[x] # wpart[w] /\ wpart[x] \in Parts /\ wver[x] \in Versions
        BY <1>0, <2>3, <3>2, <4>1 DEF Alone, Hands, Placing, Holding
      <4>3. wpc[x] = "setting" => HasPart(wpart[x], ckpt.size, wver[x])
        BY <2>2 DEF Written
      <4>4. wpc[x] = "setting" => HasPart(wpart[x], ckpt.size, wver[x])'
        BY <2>6, <4>2, <4>3, <2>3 DEF HasPart
      <4> QED
        BY <2>3, <4>1, <4>4
    <3> QED
      BY <3>1, <3>2
  <2>11. OnDisk'
    <3> SUFFICES ASSUME ckptFile.ver = object PROVE Trusts(ckptFile)'
      BY <2>3 DEF OnDisk
    <3>1. /\ ckptFile.size = ckpt.size
          /\ \A p \in Parts : ckptFile.part[p] \in {0, Torn, ckpt.part[p]}
      BY <1>a, <1>c, <2>2 DEF Lags
    <3> QED
      BY <2>3, <2>8, <3>1 DEF Trusts
  <2> QED
    BY <2>7, <2>9, <2>10, <2>11
<1>5. CASE SetPart(w)
  <2> SUFFICES ASSUME mislaid = {}
               PROVE  SameCut' /\ Distrusted' /\ Lags' /\ Written' /\ OnDisk'
    BY <1>5 DEF Disk, SetPart
  <2>1. SameCut /\ Distrusted /\ Lags /\ Written /\ OnDisk
    BY <1>0 DEF Disk
  <2>2. /\ UNCHANGED <<object, ckptFile, temp, tempExists, pc, input, ver, wpart, wver>>
        /\ wpc[w] = "setting"
        /\ \A x \in Workers : wpc'[x] = IF x = w THEN "dump" ELSE wpc[x]
    BY <1>0, <1>5 DEF SetPart, WorkerTypeOK
  <2>3. wpart[w] \in Parts /\ wver[w] \in 1..MaxVersion /\ ckpt.part[wpart[w]] = 0
    BY <1>0, <2>2 DEF Hands, Alone, Placing, Holding
  <2>4. /\ ckpt'.ver = ckpt.ver /\ ckpt'.size = ckpt.size
        /\ \A p \in Parts : ckpt'.part[p] = IF p = wpart[w] THEN wver[w] ELSE ckpt.part[p]
    <3> DEFINE f == [ckpt.part EXCEPT ![wpart[w]] = wver[w]]
    <3>1. ckpt.part \in [Parts -> Torn..MaxVersion] /\ f \in [Parts -> Torn..MaxVersion]
      BY <1>a, <2>3, CheckpointFields
    <3>2. ckpt' = [ckpt EXCEPT !.part = f]
      BY <1>5 DEF SetPart
    <3>3. ckpt'.part = f /\ ckpt'.ver = ckpt.ver /\ ckpt'.size = ckpt.size
      BY <1>a, <3>1, <3>2, CheckpointUpdate
    <3> QED
      BY <3>1, <3>3
  <2>5. SameCut' /\ Distrusted' /\ OnDisk'
    BY <2>1, <2>2, <2>4 DEF SameCut, Distrusted, OnDisk, Trusts, HasPart, Enabled
  <2>6. Trusts(ckpt)'
    BY <1>c, <2>1, <2>2, <2>4 DEF Lags, Trusts, HasPart, Written
  <2>7. Lags'
    BY <1>c, <2>1, <2>2, <2>3, <2>4, <2>6 DEF Lags
  <2>8. Written'
    BY <2>1, <2>2, <2>4 DEF Written, HasPart
  <2> QED
    BY <2>5, <2>7, <2>8
<1>6. CASE Dump(w)
  <2> SUFFICES ASSUME mislaid = {}
               PROVE  SameCut' /\ Distrusted' /\ Lags' /\ Written' /\ OnDisk'
    BY <1>6 DEF Disk, Dump
  <2>1. SameCut /\ Distrusted /\ Lags /\ Written /\ OnDisk
    BY <1>0 DEF Disk
  <2>2. /\ UNCHANGED <<object, temp, tempExists, pc, input, ver, wpart, wver, ckpt>>
        /\ wpc[w] = "dump" /\ tempExists = "yes"
        /\ \A x \in Workers : wpc'[x] \in {"setting", "dump"} => wpc'[x] = wpc[x]
    BY <1>0, <1>6, <2>1 DEF Dump, WorkerTypeOK, Written
  <2>3. SameCut' /\ Written'
    BY <2>1, <2>2 DEF SameCut, Written, HasPart
  <2>4. \/ UNCHANGED ckptFile
        \/ Enabled /\ ckptFile' = NoCheckpoint
        \/ /\ Enabled /\ ckptFile' \in Checkpoints
           /\ ckptFile'.ver = ckpt.ver /\ ckptFile'.size = ckpt.size
           /\ \A p \in Parts : ckptFile'.part[p] \in {0, Torn, ckpt.part[p]}
    BY <1>a, <1>6, DumpFields
  <2>5. Trusts(ckpt)
    BY <1>c, <2>1 DEF Lags
  <2>6. Distrusted'
    BY <1>c, <2>1, <2>2, <2>4 DEF Distrusted, Enabled
  <2>7. Lags'
    BY <1>c, <2>1, <2>2, <2>4, <2>5, NoCheckpointType DEF Lags, Trusts, HasPart
  <2>8. OnDisk'
    BY <1>a, <2>1, <2>2, <2>4, <2>5, NoCheckpointType DEF OnDisk, Trusts, HasPart
  <2> QED
    BY <2>3, <2>6, <2>7, <2>8
<1> QED
  BY <1>1, <1>2, <1>3, <1>4, <1>5, <1>6 DEF Worker

\* A checkpoint that is removed is gone, unless that failed.
LEMMA DeleteForgets ==
  ASSUME Disk, DeleteCheckpointFile, mislaid' = {}, pc # "idle"
  PROVE  mislaid = {} /\ ckptFile' = NoCheckpoint
BY DEF DeleteCheckpointFile, Disk, Distrusted

LEMMA DiskStart == Inv /\ StartDownload => Disk'
<1> USE DEF diskVars, flagVars, workerVars, countVars, callVars
<1> SUFFICES ASSUME Inv, StartDownload, mislaid' = {}
             PROVE  SameCut' /\ Distrusted' /\ Lags' /\ Written' /\ OnDisk'
  BY DEF Disk
<1>0. Flow /\ DiskTypeOK /\ Current /\ Disk
  BY DEF Inv, Flow, TypeOK
<1>1. mislaid = {}
  BY DEF StartDownload
<1>2. OnDisk
  BY <1>0, <1>1 DEF Disk
<1>3. /\ UNCHANGED <<object, ckptFile, temp, tempExists>> /\ ver' = object
      /\ \A w \in Workers : wpc'[w] = "off"
  BY DEF StartDownload, FreshThreads
<1>4. object \in 1..MaxVersion /\ ckptFile \in Checkpoints
      /\ ckptFile.ver \in Nat /\ ckptFile.ver <= object
  BY <1>0, CheckpointFields DEF DiskTypeOK, Current
<1>5. Written' /\ OnDisk'
  BY <1>2, <1>3 DEF Written, OnDisk, Trusts, HasPart
<1>6. CASE input'.enable = "on" /\ IsValid(ckptFile, object)
  <2>1. ckpt' = ckptFile /\ pc' = "spawn" /\ input'.size = ckptFile.size /\ ckptFile.ver = object
    BY <1>6 DEF StartDownload, IsValid
  <2>2. SameCut' /\ Distrusted'
    BY <1>3, <1>6, <2>1 DEF SameCut, Distrusted, Enabled
  <2>3. Lags'
    BY <1>2, <1>3, <2>1 DEF Lags, OnDisk, Trusts, HasPart
  <2> QED
    BY <1>5, <2>2, <2>3
<1>7. CASE ~(input'.enable = "on" /\ IsValid(ckptFile, object))
  <2>1. pc' = "truncate" /\ (input'.enable = "off" => ckptFile = NoCheckpoint)
    BY <1>7 DEF StartDownload
  <2>2. input'.enable \in {"on", "off"}
    BY DEF StartDownload
  <2>3. ckptFile.ver < object
    BY <1>4, <1>7, <2>1, <2>2, NoCheckpointType DEF IsValid
  <2>4. SameCut' /\ Lags'
    BY <2>1 DEF SameCut, Lags
  <2>5. Distrusted'
    BY <1>3, <2>1, <2>2, <2>3 DEF Distrusted, Enabled
  <2> QED
    BY <1>5, <2>4, <2>5
<1> QED
  BY <1>6, <1>7

LEMMA DiskCaller == Inv /\ Caller => Disk'
<1> USE DEF diskVars, flagVars, workerVars, countVars, callVars
<1> SUFFICES ASSUME Inv, Caller PROVE Disk'
  OBVIOUS
<1>0. Flow /\ DiskTypeOK /\ CallTypeOK /\ WorkerTypeOK /\ Quiet /\ Current /\ Disk
  BY DEF Inv, Flow, TypeOK
<1>a. /\ ckptFile \in Checkpoints /\ object \in 1..MaxVersion /\ result \in Results
      /\ firstError \in PartErrors \cup {"none"}
  BY <1>0 DEF DiskTypeOK, CallTypeOK
<1>1. CASE TruncateTemp
  <2> SUFFICES ASSUME mislaid = {}
               PROVE  SameCut' /\ Distrusted' /\ Lags' /\ Written' /\ OnDisk'
    BY <1>1 DEF Disk, TruncateTemp
  <2>1. /\ UNCHANGED <<object, ckptFile, input, ver, workerVars>>
        /\ pc = "truncate" /\ pc' = "forget"
    BY <1>1 DEF TruncateTemp
  <2>2. Distrusted
    BY <1>0 DEF Disk
  <2>3. ckptFile.ver < ver /\ ver <= object /\ ckptFile.ver \in Nat
    BY <1>0, <1>a, <2>1, <2>2, CheckpointFields DEF Distrusted, Current
  <2>4. OnDisk'
    BY <1>a, <2>1, <2>3, <1>0 DEF OnDisk, Current
  <2>5. Written'
    BY <1>0, <2>1 DEF Written, Quiet
  <2> QED
    BY <2>1, <2>2, <2>4, <2>5 DEF SameCut, Distrusted, Lags, Enabled
<1>2. CASE ForgetCheckpoint
  <2> SUFFICES ASSUME mislaid' = {}
               PROVE  SameCut' /\ Distrusted' /\ Lags' /\ Written' /\ OnDisk'
    BY DEF Disk
  <2>1. /\ UNCHANGED <<object, temp, tempExists, input, ver, workerVars>>
        /\ pc = "forget" /\ pc' = "spawn"
        /\ ckpt' = [ver |-> ver, size |-> input.size, part |-> NoData]
    BY <1>2 DEF ForgetCheckpoint
  <2>2. ckptFile' = NoCheckpoint
    BY <1>0, <1>2, <2>1, DeleteForgets DEF ForgetCheckpoint
  <2>3. SameCut' /\ Distrusted'
    BY <2>1, <2>2 DEF SameCut, Distrusted
  <2>4. \A p \in Parts : ckpt'.part[p] = 0
    BY <2>1 DEF NoData
  <2>5. Lags'
    BY <2>2, <2>4, NoCheckpointType DEF Lags, Trusts
  <2>6. Written'
    BY <1>0, <2>1 DEF Written, Quiet
  <2>7. OnDisk'
    BY <1>a, <2>1, <2>2, NoCheckpointType DEF OnDisk
  <2> QED
    BY <2>3, <2>5, <2>6, <2>7
<1>3. CASE LaunchFails
  BY <1>0, <1>3, DiskFrame DEF LaunchFails
<1>4. CASE LaunchDone
  BY <1>0, <1>4, DiskFrame DEF LaunchDone
<1>5. CASE Join
  <2>1. UNCHANGED <<ckptFile, temp, tempExists, mislaid>> /\ pc = "join"
    BY <1>5 DEF Join
  <2>2. CASE \E r \in Results : Return(r)
    BY <1>0, <2>1, <2>2, DiskReturn
  <2>3. CASE \E next \in {"discard", "finish"}, r \in Results : Settle(next, r)
    <3>1. UNCHANGED <<object, input, ver, ckpt, workerVars>> /\ pc' \in {"discard", "finish"}
      BY <2>3 DEF Settle
    <3> QED
      BY <1>0, <2>1, <3>1, DiskFrame
  <2> QED
    BY <1>a, <1>5, <2>2, <2>3 DEF Join
<1>6. CASE DiscardCheckpoint
  <2> SUFFICES ASSUME mislaid' = {}
               PROVE  SameCut' /\ Distrusted' /\ Lags' /\ Written' /\ OnDisk'
    BY DEF Disk
  <2>1. /\ UNCHANGED <<object, temp, tempExists, input, ver, ckpt, workerVars>>
        /\ pc \in {"discard", "finish"} /\ pc' \in {"remove", "rename"}
    BY <1>6 DEF DiscardCheckpoint
  <2>2. mislaid = {} /\ ckptFile' = NoCheckpoint
    BY <1>0, <1>6, <2>1, DeleteForgets DEF DiscardCheckpoint
  <2>3. SameCut' /\ Distrusted' /\ Lags'
    BY <1>0, <2>1, <2>2 DEF Disk, SameCut, Distrusted, Lags
  <2>4. Written'
    BY <1>0, <2>1 DEF Written, Quiet
  <2>5. OnDisk'
    BY <1>a, <2>1, <2>2, NoCheckpointType DEF OnDisk
  <2> QED
    BY <2>3, <2>4, <2>5
<1>7. CASE RemoveTemp
  <2>1. mislaid = {} => ckptFile = NoCheckpoint
    BY <1>0, <1>7 DEF RemoveTemp, Disk, Distrusted
  <2> QED
    BY <1>0, <1>a, <1>7, <2>1, DiskReturn DEF RemoveTemp
<1>8. CASE RenameTemp
  <2>1. mislaid = {} => ckptFile = NoCheckpoint
    BY <1>0, <1>8 DEF RenameTemp, Disk, Distrusted
  <2>2. UNCHANGED <<ckptFile, mislaid>> /\ \E r \in Results : Return(r)
    BY <1>8 DEF RenameTemp
  <2> QED
    BY <1>0, <2>1, <2>2, DiskReturn
<1>9. ASSUME NEW w \in Workers, Launch(w) PROVE Disk'
  <2>1. \A x \in Workers : wpc'[x] \in {"setting", "dump"} => wpc'[x] = wpc[x]
    BY <1>0, <1>9 DEF Launch, WorkerTypeOK
  <2> QED
    BY <1>0, <1>9, <2>1, DiskFrame DEF Launch
<1> QED
  BY <1>1, <1>2, <1>3, <1>4, <1>5, <1>6, <1>7, <1>8, <1>9 DEF Caller

LEMMA DiskStep == Inv /\ [Next]_vars => Disk'
<1> USE DEF diskVars, flagVars, workerVars, countVars, callVars
<1> SUFFICES ASSUME Inv, [Next]_vars PROVE Disk'
  OBVIOUS
<1>0. Flow /\ DiskTypeOK /\ Current /\ Disk
  BY DEF Inv, Flow, TypeOK
<1>1. CASE StartFails
  BY <1>0, <1>1, DiskFrame DEF StartFails
<1>2. CASE Cancel
  BY <1>0, <1>2, DiskFrame DEF Cancel
<1>3. CASE Crash
  BY <1>0, <1>3, DiskReturn DEF Crash
<1>4. CASE ObjectChanges
  <2>1. ckptFile.ver \in Nat /\ ckptFile.ver <= object /\ object \in Nat
    BY <1>0, CheckpointFields DEF DiskTypeOK, Current
  <2>2. ckptFile.ver # object'
    BY <1>4, <2>1 DEF ObjectChanges
  <2> QED
    BY <1>0, <1>4, <2>2, DiskFrame DEF ObjectChanges
<1>5. CASE UNCHANGED vars
  BY <1>0, <1>5, DiskFrame DEF vars
<1> QED
  BY <1>1, <1>2, <1>3, <1>4, <1>5, DiskStart, DiskCaller, DiskWorker DEF Next

\* In every state the types are right and, unless something went behind the
\* checkpoint's back, the temporary file has what the checkpoint calls completed.
THEOREM Invariance == Spec => []Inv
<1>1. Init => Inv
  <2>1. ASSUME Init PROVE Disk
    BY <2>1, NoCheckpointType
    DEF Init, Disk, SameCut, Distrusted, Lags, Written, OnDisk
  <2> QED
    BY <2>1, FlowInit DEF Inv
<1>2. Inv /\ [Next]_vars => Inv'
  BY FlowStep, DiskStep DEF Inv
<1> QED
  BY <1>1, <1>2, PTL DEF Spec

\* At every instant a crash may come, a checkpoint the next call would resume from
\* vouches only for bytes that are in the temporary file, at their place.
THEOREM ResumeIsSafe == Spec => []CheckpointIsOnDisk
<1>1. Inv => CheckpointIsOnDisk
  BY DEF Inv, Disk, OnDisk, Trusts, HasPart, CheckpointIsOnDisk, IsValid, Vouched
<1> QED
  BY <1>1, Invariance, PTL

-----------------------------------------------------------------------------
(* The file that is handed over                                            *)

\* The temporary file has at each place at most one unit, and it belongs there.
InPlace ==
  /\ \A c \in temp : c[1] = c[2]
  /\ \A c, d \in temp : c[1] = d[1] => c = d

\* A call that is about to rename has all parts on disk, of the version it saw.
Finished ==
  pc \in {"finish", "rename"} => (mislaid = {} => Trusts(ckpt)) /\ CrcMatches

Layout == (mislaid = {} => InPlace) /\ Finished

\* Each unit of the file is in one of the parts that are queued.
LEMMA PartsCover ==
  ASSUME NEW s \in Nat \ {0}, NEW u \in Units
  PROVE  u \div s + 1 \in 1..NumParts(s)
<1> DEFINE n == ObjectSize + s - 1
           N == n \div s
           q == u \div s
<1>1. n \in Nat /\ N \in Nat /\ q \in Nat /\ u \in Nat /\ u <= ObjectSize - 1
  BY DEF Units
<1>2. s * q <= u /\ n < s * (N + 1)
  BY <1>1
<1>3. s * (q + 1) = s * q + s
  BY <1>1
<1>4. s * (q + 1) <= n
  BY <1>1, <1>2, <1>3
<1>5. ASSUME q >= N PROVE FALSE
  <2>1. s * (q + 1) >= s * (N + 1)
    BY <1>1, <1>5
  <2>2. s * (q + 1) \in Int /\ s * (N + 1) \in Int
    BY <1>1
  <2> QED
    BY <1>1, <1>2, <1>4, <2>1, <2>2
<1>6. q + 1 \in 1..N
  BY <1>1, <1>5
<1> QED
  BY <1>6 DEF NumParts

\* A write at its place replaces what was there and nothing else.
LEMMA OverwriteInPlace ==
  ASSUME InPlace, NEW p \in Parts, NEW v \in 1..MaxVersion, ckpt.size \in PartSizes,
         input.size = ckpt.size, temp' = Overwrite(Placed(p, RangeOf(p, ckpt.size), v))
  PROVE  InPlace'
<1> DEFINE cells == {<<u, u, v>> : u \in RangeOf(p, ckpt.size)}
<1>1. temp' = {c \in temp : \A d \in cells : c[1] # d[1]} \cup cells
  BY PlacedWhereCut DEF Overwrite
<1> QED
  BY <1>1 DEF InPlace

\* A step that does not write to the temporary file, and leaves a call that is
\* about to rename as it is.
LEMMA LayoutFrame ==
  ASSUME Layout, mislaid' = {} => mislaid = {}, UNCHANGED temp \/ temp' = {},
         pc' \in {"finish", "rename"}
           => pc \in {"finish", "rename"} /\ UNCHANGED <<ckpt, ver, temp>>
  PROVE  Layout'
<1>1. ASSUME mislaid' = {} PROVE InPlace'
  BY <1>1 DEF Layout, InPlace
<1>2. ASSUME pc' \in {"finish", "rename"} PROVE (mislaid' = {} => Trusts(ckpt)') /\ CrcMatches'
  BY <1>2 DEF Layout, Finished, Trusts, HasPart, CrcMatches, Queued
<1> QED
  BY <1>1, <1>2 DEF Layout, Finished

LEMMA LayoutWorker ==
  ASSUME Inv, Layout, NEW w \in Workers, Worker(w)
  PROVE  Layout'
<1> USE DEF diskVars, flagVars, workerVars, countVars, callVars
<1>0. Flow /\ CallTypeOK /\ Hands /\ Disk
  BY DEF Inv, Flow, TypeOK
<1>1. wpc[w] \notin {"off", "done"}
  BY DEF Worker, TakePart, GetPart, StopAfterGet, WritePart, OpenFails, SetPart, Dump,
         PartAborted, PartFailed, Accepts
<1>2. pc \in {"spawn", "join"} /\ ckpt.size \in PartSizes
  BY <1>0, <1>1, WorkersRun
<1>3. CASE WritePart(w)
  <2>1. pc' = pc
    BY <1>3 DEF WritePart
  <2>2. ASSUME mislaid' = {} PROVE InPlace'
    <3>1. mislaid = {} /\ temp' = Overwrite(Placed(wpart[w], RangeOf(wpart[w], ckpt.size), wver[w]))
      BY <1>3, <2>2 DEF WritePart
    <3>2. wpart[w] \in Parts /\ wver[w] \in 1..MaxVersion
      BY <1>0, <1>3 DEF WritePart, Accepts, Hands, Placing, Holding
    <3>3. input.size = ckpt.size /\ InPlace
      BY <1>0, <1>2, <3>1 DEF Disk, SameCut, Layout
    <3> QED
      BY <1>2, <3>1, <3>2, <3>3, OverwriteInPlace
  <2> QED
    BY <1>2, <2>1, <2>2 DEF Layout, Finished
<1>4. CASE ~WritePart(w)
  <2>1. UNCHANGED <<temp, pc, mislaid>>
    BY <1>4 DEF Worker, TakePart, GetPart, StopAfterGet, OpenFails, SetPart, Dump, PartAborted,
        PartFailed
  <2> QED
    BY <1>2, <2>1, LayoutFrame
<1> QED
  BY <1>3, <1>4

LEMMA LayoutCaller == Inv /\ Layout /\ Caller => Layout'
<1> USE DEF diskVars, flagVars, workerVars, countVars, callVars
<1> SUFFICES ASSUME Inv, Layout, Caller PROVE Layout'
  OBVIOUS
<1>0. Disk
  BY DEF Inv
<1>1. CASE TruncateTemp
  BY <1>1, LayoutFrame DEF TruncateTemp
<1>2. CASE ForgetCheckpoint
  <2>1. mislaid' = {} => mislaid = {}
    BY <1>2 DEF ForgetCheckpoint, DeleteCheckpointFile
  <2> QED
    BY <1>2, <2>1, LayoutFrame DEF ForgetCheckpoint
<1>3. CASE LaunchFails \/ LaunchDone \/ \E w \in Workers : Launch(w)
  BY <1>3, LayoutFrame DEF LaunchFails, LaunchDone, Launch
<1>4. CASE Join
  <2>1. UNCHANGED <<temp, mislaid>> /\ pc = "join"
    BY <1>4 DEF Join
  <2>2. CASE pc' # "finish"
    <3>1. pc' \in {"idle", "discard"}
      BY <1>4, <2>2 DEF Join, Settle, Return
    <3> QED
      BY <2>1, <3>1, LayoutFrame
  <2>3. CASE pc' = "finish"
    <3>1. UNCHANGED <<ckpt, ver>> /\ CrcMatches
      BY <1>4, <2>3 DEF Join, Settle, Return
    <3>2. mislaid = {} => Trusts(ckpt)
      BY <1>0, <2>1 DEF Disk, Lags
    <3>3. CrcMatches' /\ (mislaid' = {} => Trusts(ckpt)')
      BY <2>1, <3>1, <3>2 DEF CrcMatches, Queued, Trusts, HasPart
    <3> QED
      BY <2>1, <3>3 DEF Layout, Finished, InPlace
  <2> QED
    BY <2>2, <2>3
<1>5. CASE DiscardCheckpoint
  <2>1. mislaid' = {} => mislaid = {}
    BY <1>5 DEF DiscardCheckpoint, DeleteCheckpointFile
  <2>2. /\ UNCHANGED <<temp, ckpt, ver>>
        /\ pc' \in {"finish", "rename"} => pc \in {"finish", "rename"}
    BY <1>5 DEF DiscardCheckpoint
  <2> QED
    BY <2>1, <2>2, LayoutFrame
<1>6. CASE RemoveTemp
  BY <1>6, LayoutFrame DEF RemoveTemp, Return
<1>7. CASE RenameTemp
  BY <1>7, LayoutFrame DEF RenameTemp, Return
<1> QED
  BY <1>1, <1>2, <1>3, <1>4, <1>5, <1>6, <1>7 DEF Caller

LEMMA LayoutStep == Inv /\ Layout /\ [Next]_vars => Layout'
<1> USE DEF diskVars, flagVars, workerVars, countVars, callVars
<1> SUFFICES ASSUME Inv, Layout, [Next]_vars PROVE Layout'
  OBVIOUS
<1>1. CASE StartDownload
  <2>1. mislaid' = {} => mislaid = {}
    BY <1>1 DEF StartDownload
  <2>2. UNCHANGED temp /\ pc' \notin {"finish", "rename"}
    BY <1>1 DEF StartDownload
  <2> QED
    BY <2>1, <2>2, LayoutFrame
<1>2. CASE StartFails
  BY <1>2, LayoutFrame DEF StartFails
<1>3. CASE Cancel
  BY <1>3, LayoutFrame DEF Cancel
<1>4. CASE Crash
  BY <1>4, LayoutFrame DEF Crash, Return
<1>5. CASE ObjectChanges
  BY <1>5, LayoutFrame DEF ObjectChanges
<1>6. CASE UNCHANGED vars
  BY <1>6, LayoutFrame DEF vars
<1> QED
  BY <1>1, <1>2, <1>3, <1>4, <1>5, <1>6, LayoutCaller, LayoutWorker DEF Next

\* When the parts all have the version the call saw, what is renamed is the
\* object in that version, and nothing else.
LEMMA RenamesWhole ==
  ASSUME Inv, Layout, pc = "rename", mislaid = {}, ver \in WithCrc
  PROVE  temp = Whole(ver)
<1>1. Flow /\ Trusts(ckpt) /\ CrcMatches /\ InPlace /\ temp \subseteq Cells
  BY DEF Inv, Flow, TypeOK, DiskTypeOK, Layout, Finished
<1>2. ckpt.size \in Nat \ {0} /\ ver \in 1..MaxVersion
  <2>1. ckpt.size \in PartSizes
    BY <1>1 DEF Flow, Current
  <2> QED
    BY <2>1, PartSizes \subseteq Nat \ {0}, WithCrc \subseteq 1..MaxVersion
<1>3. ASSUME NEW u \in Units PROVE <<u, u, ver>> \in temp
  <2> DEFINE p == u \div ckpt.size + 1
  <2>1. p \in Queued
    BY <1>2, PartsCover DEF Queued
  <2>2. p \in Parts
    <3>1. NumParts(ckpt.size) \in Nat /\ NumParts(ckpt.size) <= ObjectSize
      BY <1>2, NumPartsBound
    <3> QED
      BY <2>1, <3>1 DEF Queued
  <2>3. u \in RangeOf(p, ckpt.size)
    <3>1. u \div ckpt.size \in Int
      BY <1>2 DEF Units
    <3> QED
      BY <3>1 DEF RangeOf
  <2>4. ckpt.part[p] = ver
    BY <1>1, <2>1 DEF CrcMatches
  <2>5. HasPart(p, ckpt.size, ver)
    BY <1>1, <1>2, <2>2, <2>4 DEF Trusts
  <2> QED
    BY <2>3, <2>5 DEF HasPart
<1>4. ASSUME NEW c \in temp PROVE c \in Whole(ver)
  <2>1. c[1] \in Units
    BY <1>1 DEF InPlace, Cells
  <2>2. <<c[1], c[1], ver>> \in temp
    BY <1>3, <2>1
  <2>3. <<c[1], c[1], ver>>[1] = c[1]
    OBVIOUS
  <2>4. c = <<c[1], c[1], ver>>
    BY <1>1, <2>2, <2>3 DEF InPlace
  <2> QED
    BY <2>1, <2>4 DEF Whole
<1> QED
  BY <1>3, <1>4 DEF Whole

\* A file that replaces the one asked for is the whole object in the version HEAD
\* saw, if that had a CRC64 to compare and nothing went behind the checkpoint's
\* back: no range is missing, from another version or in another place.
THEOREM FileIsObjectAlways == Spec => FileIsObjectUnlessMislaid
<1> DEFINE IsObject == file' # file /\ ver \in WithCrc /\ mislaid = {} => file' = Whole(ver)
<1>1. Init => Layout
  BY DEF Init, Layout, InPlace, Finished
<1>2. Inv /\ Layout /\ [Next]_vars => Layout'
  BY LayoutStep
<1>3. Inv /\ Layout /\ [Next]_vars => [IsObject]_vars
  <2> SUFFICES ASSUME Inv, Layout, [Next]_vars, file' # file, ver \in WithCrc, mislaid = {}
               PROVE  file' = Whole(ver)
    OBVIOUS
  <2> USE DEF diskVars, flagVars, workerVars, countVars, callVars
  <2>1. CASE RenameTemp
    BY <2>1, RenamesWhole DEF RenameTemp
  <2>2. CASE Caller /\ ~RenameTemp
    BY <2>2 DEF Caller, TruncateTemp, ForgetCheckpoint, LaunchFails, LaunchDone, Join,
        DiscardCheckpoint, RemoveTemp, Launch
  <2>3. CASE \E w \in Workers : Worker(w)
    BY <2>3 DEF Worker, TakePart, GetPart, StopAfterGet, WritePart, OpenFails, SetPart, Dump,
        PartAborted, PartFailed
  <2>4. CASE StartDownload \/ StartFails \/ Cancel \/ Crash \/ ObjectChanges \/ UNCHANGED vars
    BY <2>4 DEF StartDownload, StartFails, Cancel, Crash, ObjectChanges, vars
  <2> QED
    BY <2>1, <2>2, <2>3, <2>4 DEF Next
<1> QED
  BY <1>1, <1>2, <1>3, Invariance, PTL DEF Spec, FileIsObjectUnlessMislaid

-----------------------------------------------------------------------------
(* What failures cost                                                      *)

\* The parts completed in c are of version v or a later one, or torn.
Since(c, v) == \A p \in Parts : c.part[p] \in {0, Torn} \/ c.part[p] \in v..object

\* Nothing received, completed or recorded is older than what the call saw.
Ages ==
  /\ pc \notin {"idle", "truncate", "forget"} => Since(ckpt, ver)
  /\ ckptFile.ver # 0 => Since(ckptFile, ckptFile.ver)
  /\ \A w \in Workers : wpc[w] \in {"received", "setting", "dump"} => wver[w] \in ver..object

Unhindered == flags = {} /\ cancel = "no"

\* A worker has part p, or an error for it that was not raised yet.
Sought(p) ==
  \E w \in Workers : wpc[w] \in Placing \cup {"retryable", "fatal"} /\ wpart[w] = p

\* Workers that nothing stopped leave no part behind: each that left the queue is
\* completed or sought, and a worker ends when the queue is empty.
Taken ==
  pc \in {"spawn", "join"} /\ Unhindered =>
    /\ \A p \in Queued : p < front => ckpt.part[p] # 0 \/ Sought(p)
    /\ \A w \in Workers : wpc[w] = "done" => front \notin Queued
    /\ pc = "join" => \A w \in Workers : wpc[w] # "off"

\* A call begins without an order to cancel it, and its workers with the first part.
Fresh ==
  /\ pc = "idle" => cancel = "no"
  /\ pc \in {"truncate", "forget"} => front = 1 /\ \A w \in Workers : wpc[w] = "off"

Spoiled(c) == \E p \in Parts : c.part[p] = Torn

\* Something happened to this call that can make it fail.
Hit ==
  \/ ~Unhindered \/ object # ver
  \/ \E w \in Workers : wpc[w] \in {"retryable", "fatal"}
  \/ pc # "truncate" /\ tempExists = "no"

\* The failures to come if nothing more goes wrong: of the call that was hit and of
\* the next, which may find a checkpoint with a torn record and clears it.
Debt ==
  IF pc = "idle" THEN (IF ckptFile.ver = object /\ Spoiled(ckptFile) THEN 1 ELSE 0)
  ELSE IF pc \in {"discard", "remove"} THEN 1
  ELSE IF Hit THEN 2
  ELSE IF pc \in {"spawn", "join"} /\ Spoiled(ckpt) THEN 1 ELSE 0

Paid == mislaid = {} => fails + Debt <= 2 * (faults + object - 1)

Bill == Ages /\ Taken /\ Fresh /\ Paid

LEMMA AgesFrame ==
  ASSUME Flow, Ages, UNCHANGED <<ckpt, ver, wver>>, object' \in {object, object + 1},
         ckptFile' \in {ckptFile, NoCheckpoint},
         pc' \notin {"idle", "truncate", "forget"} => pc \notin {"idle", "truncate", "forget"},
         \A w \in Workers : wpc'[w] \in {"received", "setting", "dump"}
                            => wpc[w] \in {"received", "setting", "dump"}
  PROVE  Ages'
<1>1. object \in Int /\ ver \in Int /\ ckptFile.ver \in Int
  BY CheckpointFields DEF Flow, TypeOK, DiskTypeOK, CallTypeOK
<1>2. \A i \in Int : i..object \subseteq i..object'
  BY <1>1
<1>3. pc' \notin {"idle", "truncate", "forget"} => Since(ckpt, ver)'
  BY <1>1, <1>2 DEF Ages, Since
<1>4. ckptFile'.ver # 0 => Since(ckptFile, ckptFile.ver)'
  BY <1>1, <1>2, NoCheckpointType DEF Ages, Since
<1>5. \A w \in Workers : wpc'[w] \in {"received", "setting", "dump"} => wver'[w] \in ver'..object'
  BY <1>1, <1>2 DEF Ages
<1> QED
  BY <1>3, <1>4, <1>5 DEF Ages

LEMMA AgesWorker ==
  ASSUME Flow, Ages, NEW w \in Workers, Worker(w)
  PROVE  Ages'
<1> USE DEF diskVars, flagVars, workerVars, countVars, callVars
<1>0. /\ WorkerTypeOK /\ Hands /\ ckpt \in Checkpoints /\ ckptFile \in Checkpoints
      /\ object \in 1..MaxVersion
  BY DEF Flow, TypeOK, DiskTypeOK, CallTypeOK
<1>b. wpc[w] \notin {"off", "done"}
  BY DEF Worker, TakePart, GetPart, StopAfterGet, WritePart, OpenFails, SetPart, Dump,
         PartAborted, PartFailed, Accepts
<1>c. pc \in {"spawn", "join"} /\ ckpt.ver = ver /\ ver \in 1..object
  BY <1>b, WorkersRun
<1>1. CASE \/ TakePart(w) \/ StopAfterGet(w) \/ WritePart(w) \/ OpenFails(w)
           \/ PartAborted(w) \/ PartFailed(w)
  <2>1. UNCHANGED <<ckpt, ver, wver, object, ckptFile, pc>>
    BY <1>1 DEF TakePart, StopAfterGet, WritePart, OpenFails, PartAborted, PartFailed
  <2>2. \A x \in Workers : wpc'[x] \in {"received", "setting", "dump"}
                           => wpc[x] \in {"received", "setting", "dump"}
    BY <1>0, <1>1
    DEF TakePart, StopAfterGet, WritePart, OpenFails, PartAborted, PartFailed, WorkerTypeOK,
        Accepts
  <2> QED
    BY <2>1, <2>2, AgesFrame
<1>2. CASE GetPart(w)
  <2>1. UNCHANGED <<ckpt, ver, object, ckptFile, pc>>
    BY <1>2 DEF GetPart
  <2>2. \A x \in Workers : wpc'[x] \in {"received", "setting", "dump"}
          => \/ wver'[x] = object
             \/ wpc[x] \in {"received", "setting", "dump"} /\ wver'[x] = wver[x]
    BY <1>0, <1>2 DEF GetPart, WorkerTypeOK
  <2>3. object \in ver..object
    BY <1>0, <1>c
  <2> QED
    BY <2>1, <2>2, <2>3 DEF Ages, Since
<1>3. CASE SetPart(w)
  <2> DEFINE f == [ckpt.part EXCEPT ![wpart[w]] = wver[w]]
  <2>1. /\ UNCHANGED <<object, ckptFile, pc, ver, wver>> /\ wpc[w] = "setting"
        /\ \A x \in Workers : wpc'[x] = IF x = w THEN "dump" ELSE wpc[x]
    BY <1>0, <1>3 DEF SetPart, WorkerTypeOK
  <2>2. wpart[w] \in Parts /\ wver[w] \in 1..MaxVersion
    BY <1>0, <2>1 DEF Hands, Placing, Holding
  <2>3. ckpt.part \in [Parts -> Torn..MaxVersion] /\ f \in [Parts -> Torn..MaxVersion]
    BY <1>0, <2>2, CheckpointFields
  <2>4. ckpt' = [ckpt EXCEPT !.part = f]
    BY <1>3 DEF SetPart
  <2>5. ckpt'.part = f
    BY <1>0, <2>3, <2>4, CheckpointUpdate
  <2>6. wver[w] \in ver..object /\ Since(ckpt, ver)
    BY <1>c, <2>1 DEF Ages
  <2>7. Since(ckpt, ver)'
    BY <2>1, <2>2, <2>3, <2>5, <2>6 DEF Since
  <2> QED
    BY <2>1, <2>6, <2>7 DEF Ages, Since
<1>4. CASE Dump(w)
  <2>1. UNCHANGED <<object, pc, ver, wver, ckpt>>
    BY <1>4 DEF Dump
  <2>2. \A x \in Workers : wpc'[x] \in {"received", "setting", "dump"}
                           => wpc[x] \in {"received", "setting", "dump"}
    BY <1>0, <1>4 DEF Dump, WorkerTypeOK
  <2>3. CASE ckptFile' \in {ckptFile, NoCheckpoint}
    BY <2>1, <2>2, <2>3, AgesFrame
  <2>4. CASE /\ ckptFile'.ver = ckpt.ver
             /\ \A p \in Parts : ckptFile'.part[p] \in {0, Torn, ckpt.part[p]}
    <3>1. Since(ckpt, ver)
      BY <1>c DEF Ages
    <3>2. Since(ckptFile, ckptFile.ver)'
      BY <1>c, <2>1, <2>4, <3>1 DEF Since
    <3> QED
      BY <1>c, <2>1, <2>2, <3>1, <3>2 DEF Ages, Since
  <2> QED
    BY <1>0, <1>4, <2>3, <2>4, DumpFields
<1> QED
  BY <1>1, <1>2, <1>3, <1>4 DEF Worker

LEMMA AgesStep == Flow /\ Ages /\ [Next]_vars => Ages'
<1> USE DEF diskVars, flagVars, workerVars, countVars, callVars
<1> SUFFICES ASSUME Flow, Ages, [Next]_vars PROVE Ages'
  OBVIOUS
<1>0. /\ DiskTypeOK /\ WorkerTypeOK /\ object \in 1..MaxVersion /\ Quiet
  BY DEF Flow, TypeOK, DiskTypeOK
<1>1. ASSUME NEW r \in Results, Return(r), ckptFile' \in {ckptFile, NoCheckpoint} PROVE Ages'
  <2>1. /\ pc' = "idle" /\ UNCHANGED object
        /\ \A w \in Workers : wpc'[w] = "off"
    BY <1>1 DEF Return, FreshThreads
  <2> QED
    BY <1>1, <2>1, NoCheckpointType DEF Ages, Since
<1>2. CASE StartDownload
  <2>1. /\ UNCHANGED <<object, ckptFile>> /\ ver' = object
        /\ \A w \in Workers : wpc'[w] = "off"
        /\ \/ pc' = "spawn" /\ ckpt' = ckptFile /\ ckptFile.ver = object
           \/ pc' = "truncate"
    BY <1>2 DEF StartDownload, FreshThreads, IsValid
  <2> QED
    BY <1>0, <2>1 DEF Ages, Since
<1>3. CASE StartFails \/ TruncateTemp \/ LaunchFails \/ LaunchDone \/ Cancel \/ UNCHANGED vars
  BY <1>3, AgesFrame DEF StartFails, TruncateTemp, LaunchFails, LaunchDone, Cancel, vars
<1>4. CASE ForgetCheckpoint
  <2>1. /\ ckptFile' \in {ckptFile, NoCheckpoint} /\ UNCHANGED <<object, ver, wpc, wver>>
        /\ pc = "forget" /\ ckpt' = [ver |-> ver, size |-> input.size, part |-> NoData]
    BY <1>0, <1>4, DeleteType DEF ForgetCheckpoint
  <2>2. Since(ckpt, ver)'
    BY <2>1 DEF Since, NoData
  <2>3. \A w \in Workers : wpc'[w] \in {"off", "done"}
    BY <1>0, <2>1 DEF Quiet
  <2> QED
    BY <2>1, <2>2, <2>3, NoCheckpointType DEF Ages, Since
<1>5. CASE Join
  <2>1. UNCHANGED ckptFile /\ pc = "join"
    BY <1>5 DEF Join
  <2>2. CASE \E r \in Results : Return(r)
    BY <1>1, <2>1, <2>2
  <2>3. CASE \E next \in {"discard", "finish"}, r \in Results : Settle(next, r)
    BY <2>1, <2>3, AgesFrame DEF Settle
  <2> QED
    BY <1>5, <2>2, <2>3 DEF Join, Flow, TypeOK, CallTypeOK
<1>6. CASE DiscardCheckpoint
  <2>1. ckptFile' \in {ckptFile, NoCheckpoint}
    BY <1>0, <1>6, DeleteType DEF DiscardCheckpoint
  <2> QED
    BY <1>6, <2>1, AgesFrame DEF DiscardCheckpoint
<1>7. CASE RemoveTemp \/ RenameTemp \/ Crash
  <2>1. result \in Results
    BY DEF Flow, TypeOK, CallTypeOK
  <2> QED
    BY <1>1, <1>7, <2>1 DEF RemoveTemp, RenameTemp, Crash
<1>8. CASE ObjectChanges
  BY <1>8, AgesFrame DEF ObjectChanges
<1>9. ASSUME NEW w \in Workers, Launch(w) PROVE Ages'
  <2>1. \A x \in Workers : wpc'[x] # wpc[x] => wpc'[x] = "loop"
    BY <1>0, <1>9 DEF Launch, WorkerTypeOK
  <2> QED
    BY <1>9, <2>1, AgesFrame DEF Launch
<1> QED
  BY <1>2, <1>3, <1>4, <1>5, <1>6, <1>7, <1>8, <1>9, AgesWorker DEF Next, Caller

\* Workers that go on with the parts they have.
LEMMA TakenFrame ==
  ASSUME Taken, UNCHANGED <<ckpt, front, wpart>>,
         pc' \in {"spawn", "join"} /\ Unhindered'
           => pc \in {"spawn", "join"} /\ Unhindered /\ (pc' = "join" => pc = "join"),
         \A w \in Workers :
           /\ wpc'[w] \in {"off", "done"} => wpc'[w] = wpc[w]
           /\ wpc[w] \in Placing \cup {"retryable", "fatal"}
              => wpc'[w] \in Placing \cup {"retryable", "fatal"}
  PROVE  Taken'
<1> SUFFICES ASSUME pc' \in {"spawn", "join"}, Unhindered'
             PROVE  /\ \A p \in Queued' : p < front => ckpt.part[p] # 0 \/ Sought(p)'
                    /\ \A w \in Workers : wpc'[w] = "done" => front \notin Queued'
                    /\ pc' = "join" => \A w \in Workers : wpc'[w] # "off"
  BY DEF Taken
<1>1. Queued' = Queued
  BY DEF Queued
<1>2. \A p \in Queued : Sought(p) => Sought(p)'
  BY DEF Sought
<1> QED
  BY <1>1, <1>2 DEF Taken

\* A step that raises a flag or follows an order to cancel owes nothing.
LEMMA TakenHindered ==
  ASSUME \/ "abort" \in flags' \/ "failed" \in flags'
         \/ cancel' # "no"
  PROVE  Taken'
BY DEF Taken, Unhindered

LEMMA TakenWorker ==
  ASSUME Flow, Taken, NEW w \in Workers, Worker(w)
  PROVE  Taken'
<1> USE DEF diskVars, flagVars, workerVars, countVars, callVars
<1>0. /\ WorkerTypeOK /\ Hands /\ ckpt \in Checkpoints /\ front \in Nat
      /\ cancel \in {"no", "pause", "calling", "abort"}
  BY DEF Flow, TypeOK, DiskTypeOK, CallTypeOK
<1>b. wpc[w] \notin {"off", "done"}
  BY DEF Worker, TakePart, GetPart, StopAfterGet, WritePart, OpenFails, SetPart, Dump,
         PartAborted, PartFailed, Accepts
<1>c. pc \in {"spawn", "join"} /\ ckpt.size \in Nat \ {0}
  BY <1>b, WorkersRun, PartSizes \subseteq Nat \ {0}
<1>1. CASE TakePart(w)
  <2>1. UNCHANGED <<ckpt, pc, flags>> /\ wpc[w] = "loop"
    BY <1>1 DEF TakePart
  <2>2. CASE cancel' # "no"
    BY <2>2, TakenHindered
  <2>3. CASE isAbort
    BY <2>1, <2>3, TakenHindered DEF isAbort
  <2>4. CASE front \notin Queued /\ cancel' = "no" /\ ~isAbort
    <3>1. UNCHANGED <<front, wpart, cancel>> /\ wpc' = [wpc EXCEPT ![w] = "done"]
      BY <1>1, <2>4 DEF TakePart
    <3>2. Queued' = Queued
      BY <2>1 DEF Queued
    <3>3. \A p \in Queued : Sought(p) => Sought(p)'
      BY <1>0, <2>1, <3>1 DEF Sought, WorkerTypeOK, Placing
    <3> QED
      BY <1>0, <2>1, <2>4, <3>1, <3>2, <3>3 DEF Taken, Unhindered, WorkerTypeOK
  <2>5. CASE front \in Queued /\ cancel' = "no" /\ ~isAbort
    <3>1. /\ UNCHANGED cancel /\ front' = front + 1
          /\ IF ckpt.part[front] # 0
             THEN UNCHANGED <<wpc, wpart>>
             ELSE wpc' = [wpc EXCEPT ![w] = "get"] /\ wpart' = [wpart EXCEPT ![w] = front]
      BY <1>1, <2>5 DEF TakePart
    <3> SUFFICES ASSUME Unhindered
                 PROVE  /\ \A p \in Queued : p < front + 1 => ckpt.part[p] # 0 \/ Sought(p)'
                        /\ \A x \in Workers : wpc'[x] # "done"
                        /\ pc = "join" => \A x \in Workers : wpc'[x] # "off"
      BY <2>1, <3>1 DEF Taken, Unhindered, Queued
    <3>2. /\ \A p \in Queued : p < front => ckpt.part[p] # 0 \/ Sought(p)
          /\ \A x \in Workers : wpc[x] # "done"
          /\ pc = "join" => \A x \in Workers : wpc[x] # "off"
      BY <1>c, <2>5 DEF Taken
    <3>3. \A p \in Queued : Sought(p) => Sought(p)'
      BY <1>0, <2>1, <3>1 DEF Sought, WorkerTypeOK, Placing
    <3>4. PICK f \in Nat : f = front
      BY <1>0
    <3>5. ckpt.part[f] # 0 \/ Sought(f)'
      <4>1. CASE ckpt.part[f] = 0
        <5>1. wpc'[w] = "get" /\ wpart'[w] = f
          BY <1>0, <3>1, <3>4, <4>1 DEF WorkerTypeOK
        <5> QED
          BY <5>1 DEF Sought, Placing
      <4> QED
        BY <4>1
    <3>6. \A p \in Queued : p < front + 1 => p < front \/ p = f
      BY <1>0, <1>c, <3>4, NumPartsBound DEF Queued
    <3>7. \A x \in Workers : wpc'[x] # "done"
      BY <1>0, <3>1, <3>2 DEF WorkerTypeOK
    <3>8. pc = "join" => \A x \in Workers : wpc'[x] # "off"
      BY <1>0, <3>1, <3>2 DEF WorkerTypeOK
    <3> QED
      BY <3>2, <3>3, <3>5, <3>6, <3>7, <3>8
  <2> QED
    BY <2>2, <2>3, <2>4, <2>5
<1>2. CASE GetPart(w)
  <2>1. UNCHANGED <<ckpt, front, wpart, pc, cancel>> /\ wpc[w] = "get"
    BY <1>2 DEF GetPart
  <2>2. CASE UNCHANGED flags /\ "abort" \notin flags'
    <3>1. PICK s \in {"received", "retryable", "fatal"} : wpc' = [wpc EXCEPT ![w] = s]
      BY <1>2, <2>2 DEF GetPart
    <3>2. \A x \in Workers :
            /\ wpc'[x] \in {"off", "done"} => wpc'[x] = wpc[x]
            /\ wpc[x] \in Placing \cup {"retryable", "fatal"}
               => wpc'[x] \in Placing \cup {"retryable", "fatal"}
      BY <1>0, <3>1 DEF WorkerTypeOK, Placing
    <3> QED
      BY <2>1, <2>2, <3>2, TakenFrame DEF Unhindered
  <2>3. CASE "abort" \in flags'
    BY <2>3, TakenHindered
  <2> QED
    BY <1>2, <2>2, <2>3 DEF GetPart
<1>3. CASE StopAfterGet(w)
  BY <1>3, TakenHindered DEF StopAfterGet
<1>4. CASE WritePart(w)
  <2>1. UNCHANGED <<ckpt, front, wpart, pc>> /\ wpc[w] = "received" /\ NotCancel
    BY <1>4 DEF WritePart, Accepts
  <2>2. CASE wpc' = [wpc EXCEPT ![w] = "setting"] /\ UNCHANGED flags
    <3>1. \A x \in Workers :
            /\ wpc'[x] \in {"off", "done"} => wpc'[x] = wpc[x]
            /\ wpc[x] \in Placing \cup {"retryable", "fatal"}
               => wpc'[x] \in Placing \cup {"retryable", "fatal"}
      BY <1>0, <2>2 DEF WorkerTypeOK, Placing
    <3> QED
      BY <2>1, <2>2, <3>1, TakenFrame DEF Unhindered
  <2>3. CASE "abort" \in flags'
    BY <2>3, TakenHindered
  <2> QED
    BY <1>4, <2>2, <2>3 DEF WritePart
<1>5. CASE OpenFails(w) \/ PartAborted(w) \/ PartFailed(w)
  <2>1. "abort" \in flags' \/ "failed" \in flags'
    BY <1>5 DEF OpenFails, PartAborted, PartFailed
  <2> QED
    BY <2>1, TakenHindered
<1>6. CASE SetPart(w)
  <2> DEFINE f == [ckpt.part EXCEPT ![wpart[w]] = wver[w]]
  <2>1. /\ UNCHANGED <<front, wpart, pc, cancel, flags>> /\ wpc[w] = "setting"
        /\ \A x \in Workers : wpc'[x] = IF x = w THEN "dump" ELSE wpc[x]
    BY <1>0, <1>6 DEF SetPart, WorkerTypeOK
  <2>2. wpart[w] \in Parts /\ wver[w] \in 1..MaxVersion
    BY <1>0, <2>1 DEF Hands, Placing, Holding
  <2>3. ckpt.part \in [Parts -> Torn..MaxVersion] /\ f \in [Parts -> Torn..MaxVersion]
    BY <1>0, <2>2, CheckpointFields
  <2>4. ckpt' = [ckpt EXCEPT !.part = f]
    BY <1>6 DEF SetPart
  <2>5. ckpt'.part = f /\ ckpt'.size = ckpt.size
    BY <1>0, <2>3, <2>4, CheckpointUpdate
  <2>6. Queued' = Queued
    BY <2>5 DEF Queued
  <2>7. Queued \subseteq Parts
    BY <1>c, NumPartsBound DEF Queued
  <2>8. \A p \in Queued : ckpt.part[p] # 0 => ckpt'.part[p] # 0
    BY <2>2, <2>3, <2>5, <2>7
  <2>9. \A p \in Queued : Sought(p) => ckpt'.part[p] # 0 \/ Sought(p)'
    <3> SUFFICES ASSUME NEW p \in Queued, NEW x \in Workers,
                        wpc[x] \in Placing \cup {"retryable", "fatal"}, wpart[x] = p
                 PROVE  ckpt'.part[p] # 0 \/ Sought(p)'
      BY DEF Sought
    <3>1. CASE x = w
      BY <2>2, <2>3, <2>5, <3>1
    <3>2. CASE x # w
      BY <2>1, <3>2 DEF Sought
    <3> QED
      BY <3>1, <3>2
  <2> QED
    BY <2>1, <2>6, <2>8, <2>9 DEF Taken, Unhindered
<1>7. CASE Dump(w)
  <2>1. UNCHANGED <<ckpt, front, wpart, pc, cancel, flags>> /\ wpc[w] = "dump"
        /\ wpc' = [wpc EXCEPT ![w] = "loop"]
    BY <1>7 DEF Dump
  <2>2. \A x \in Workers :
          /\ wpc'[x] \in {"off", "done"} => wpc'[x] = wpc[x]
          /\ wpc[x] \in Placing \cup {"retryable", "fatal"}
             => wpc'[x] \in Placing \cup {"retryable", "fatal"}
    BY <1>0, <2>1 DEF WorkerTypeOK, Placing
  <2> QED
    BY <2>1, <2>2, TakenFrame DEF Unhindered
<1> QED
  BY <1>1, <1>2, <1>3, <1>4, <1>5, <1>6, <1>7 DEF Worker

LEMMA TakenStep == Flow /\ Fresh /\ Taken /\ [Next]_vars => Taken'
<1> USE DEF diskVars, flagVars, workerVars, countVars, callVars
<1> SUFFICES ASSUME Flow, Fresh, Taken, [Next]_vars PROVE Taken'
  OBVIOUS
<1>0. WorkerTypeOK /\ Quiet /\ cancel \in {"no", "pause", "calling", "abort"}
  BY DEF Flow, TypeOK, CallTypeOK
<1>1. ASSUME pc' \notin {"spawn", "join"} PROVE Taken'
  BY <1>1 DEF Taken
<1>2. CASE StartDownload
  <2>1. front' = 1 /\ pc' \in {"spawn", "truncate"} /\ \A w \in Workers : wpc'[w] = "off"
    BY <1>2 DEF StartDownload, FreshThreads
  <2> QED
    BY <2>1 DEF Taken, Queued
<1>3. CASE StartFails \/ Cancel \/ ObjectChanges \/ UNCHANGED vars
  <2>1. /\ UNCHANGED <<ckpt, front, wpart, wpc, pc, flags>>
        /\ cancel' = cancel \/ cancel' # "no"
    BY <1>3 DEF StartFails, Cancel, ObjectChanges, vars
  <2>2. CASE cancel' # "no"
    BY <2>2, TakenHindered
  <2>3. CASE cancel' = cancel
    BY <2>1, <2>3, TakenFrame DEF Unhindered
  <2> QED
    BY <2>1, <2>2, <2>3
<1>4. CASE TruncateTemp \/ Join \/ DiscardCheckpoint \/ RemoveTemp \/ RenameTemp \/ Crash
  <2>1. pc' \notin {"spawn", "join"}
    BY <1>4
    DEF TruncateTemp, Join, Settle, DiscardCheckpoint, RemoveTemp, RenameTemp, Crash, Return
  <2> QED
    BY <1>1, <2>1
<1>5. CASE ForgetCheckpoint
  <2>1. pc' = "spawn" /\ front' = 1 /\ \A w \in Workers : wpc'[w] = "off"
    BY <1>5 DEF ForgetCheckpoint, Fresh
  <2> QED
    BY <2>1 DEF Taken, Queued
<1>6. CASE LaunchFails
  BY <1>6, TakenHindered DEF LaunchFails
<1>7. CASE LaunchDone
  BY <1>7 DEF LaunchDone, Taken, Unhindered, Queued, Sought
<1>8. ASSUME NEW w \in Workers, Launch(w) PROVE Taken'
  <2>1. /\ UNCHANGED <<ckpt, front, wpart, pc, flags, cancel>> /\ wpc[w] = "off"
        /\ wpc' = [wpc EXCEPT ![w] = "loop"]
    BY <1>8 DEF Launch
  <2>2. \A x \in Workers :
          /\ wpc'[x] \in {"off", "done"} => wpc'[x] = wpc[x]
          /\ wpc[x] \in Placing \cup {"retryable", "fatal"}
             => wpc'[x] \in Placing \cup {"retryable", "fatal"}
    BY <1>0, <2>1 DEF WorkerTypeOK, Placing
  <2> QED
    BY <2>1, <2>2, TakenFrame DEF Unhindered
<1> QED
  BY <1>2, <1>3, <1>4, <1>5, <1>6, <1>7, <1>8, TakenWorker DEF Next, Caller

LEMMA FreshStep == Flow /\ Fresh /\ [Next]_vars => Fresh'
<1> USE DEF diskVars, flagVars, workerVars, countVars, callVars
<1> SUFFICES ASSUME Flow, Fresh, [Next]_vars PROVE Fresh'
  OBVIOUS
<1>1. CASE StartDownload
  BY <1>1 DEF StartDownload, FreshThreads, Fresh
<1>2. CASE StartFails \/ Cancel \/ ObjectChanges \/ UNCHANGED vars
  BY <1>2 DEF StartFails, Cancel, ObjectChanges, vars, Fresh
<1>3. ASSUME NEW r, Return(r) PROVE Fresh'
  BY <1>3 DEF Return, Fresh
<1>4. CASE TruncateTemp
  BY <1>4 DEF TruncateTemp, Fresh
<1>5. CASE ForgetCheckpoint \/ LaunchFails \/ LaunchDone \/ DiscardCheckpoint
  BY <1>5 DEF ForgetCheckpoint, LaunchFails, LaunchDone, DiscardCheckpoint, Fresh
<1>6. CASE Join \/ RemoveTemp \/ RenameTemp \/ Crash
  BY <1>3, <1>6 DEF Join, Settle, RemoveTemp, RenameTemp, Crash, Fresh
<1>7. ASSUME NEW w \in Workers, Launch(w) PROVE Fresh'
  BY <1>7 DEF Launch, Fresh
<1>8. ASSUME NEW w \in Workers, Worker(w) PROVE Fresh'
  <2>1. UNCHANGED pc
    BY <1>8 DEF Worker, TakePart, GetPart, StopAfterGet, WritePart, OpenFails, SetPart, Dump,
        PartAborted, PartFailed
  <2>2. wpc[w] \notin {"off", "done"}
    BY <1>8 DEF Worker, TakePart, GetPart, StopAfterGet, WritePart, OpenFails, SetPart, Dump,
        PartAborted, PartFailed, Accepts
  <2>3. pc \in {"spawn", "join"}
    BY <2>2, WorkersRun
  <2> QED
    BY <2>1, <2>3 DEF Fresh
<1> QED
  BY <1>1, <1>2, <1>4, <1>5, <1>6, <1>7, <1>8 DEF Next, Caller

LEMMA DebtRange ==
  /\ Debt \in 0..2 /\ (pc = "idle" => Debt <= 1)
  /\ Debt' \in 0..2 /\ (pc' = "idle" => Debt' <= 1)
BY DEF Debt

\* Each fault, and each change of the object, pays for the call and the next one.
LEMMA FaultPays ==
  ASSUME Flow, Flow', Paid, mislaid' = {} => mislaid = {},
         \/ faults' = faults + 1 /\ object' = object
         \/ faults' = faults /\ object' = object + 1,
         \/ fails' \in {0, fails}
         \/ fails' = fails + 1 /\ pc' = "idle"
  PROVE  Paid'
<1>1. /\ faults \in Nat /\ object \in Nat \ {0} /\ fails \in Nat
  BY DEF Flow, TypeOK, DiskTypeOK, CallTypeOK
<1> DEFINE d == Debt
           e == Debt'
<1>2. d \in 0..2 /\ e \in 0..2 /\ (pc' = "idle" => e <= 1)
  BY DebtRange
<1>3. SUFFICES ASSUME mislaid' = {} PROVE fails' + e <= 2 * (faults' + object' - 1)
  BY DEF Paid
<1>4. fails + d <= 2 * (faults + object - 1)
  BY <1>3 DEF Paid
<1> HIDE DEF d, e
<1> QED
  BY <1>1, <1>2, <1>4

\* A step that nothing went wrong in, and that owes no more than was owed.
LEMMA DebtShrinks ==
  ASSUME Flow, Paid, mislaid' = {} => mislaid = {}, UNCHANGED <<faults, object>>,
         \/ fails' \in {0, fails} /\ (mislaid' = {} => Debt' <= Debt)
         \/ fails' \in {0, fails + 1} /\ (mislaid' = {} => Debt' + 1 <= Debt)
         \/ fails' = 0 /\ (mislaid' = {} => Debt' = 0)
  PROVE  Paid'
<1>1. /\ faults \in Nat /\ object \in Nat \ {0} /\ fails \in Nat
  BY DEF Flow, TypeOK, DiskTypeOK, CallTypeOK
<1> DEFINE d == Debt
           e == Debt'
<1>2. d \in 0..2 /\ e \in 0..2
  BY DebtRange
<1>3. SUFFICES ASSUME mislaid' = {} PROVE fails' + e <= 2 * (faults' + object' - 1)
  BY DEF Paid
<1>4. fails + d <= 2 * (faults + object - 1)
  BY <1>3 DEF Paid
<1>5. \/ fails' \in {0, fails} /\ e <= d
      \/ fails' \in {0, fails + 1} /\ e + 1 <= d
      \/ fails' = 0 /\ e = 0
  BY <1>3
<1> HIDE DEF d, e
<1> QED
  BY <1>1, <1>2, <1>4, <1>5

\* If nothing hit a call, only a torn record can keep its CRC64 from matching.
LEMMA MismatchIsTorn ==
  ASSUME Flow, Ages, Taken, pc = "join", \A w \in Workers : wpc[w] \in {"off", "done"},
         ~Hit, ~CrcMatches
  PROVE  Spoiled(ckpt)
<1>0. /\ front \in Nat \ {0} /\ object \in Int /\ ckpt \in Checkpoints
      /\ ckpt.size \in Nat \ {0}
  <2>1. ckpt.size \in PartSizes
    BY DEF Flow, Current
  <2>2. ckpt.size \in Nat \ {0}
    BY <2>1, PartSizes \subseteq Nat \ {0}
  <2> QED
    BY <2>2 DEF Flow, TypeOK, DiskTypeOK, CallTypeOK
<1>1. Unhindered /\ object = ver
  BY DEF Hit
<1>2. PICK p \in Queued : ckpt.part[p] # ver
  BY DEF CrcMatches
<1>3. p \in Parts /\ NumParts(ckpt.size) \in Nat
  BY <1>0, <1>2, NumPartsBound DEF Queued
<1>4. PICK w \in Workers : TRUE
  OBVIOUS
<1>5. wpc[w] = "done"
  BY <1>1 DEF Taken
<1>6. front \notin Queued
  BY <1>1, <1>5 DEF Taken
<1>7. p < front
  BY <1>0, <1>2, <1>3, <1>6 DEF Queued
<1>8. ~Sought(p)
  BY DEF Sought, Placing
<1>9. ckpt.part[p] # 0
  BY <1>1, <1>2, <1>7, <1>8 DEF Taken
<1>10. ckpt.part[p] \in {0, Torn} \/ ckpt.part[p] \in ver..ver
  BY <1>1, <1>3 DEF Ages, Since
<1>11. ver..ver = {ver}
  BY <1>0, <1>1
<1> QED
  BY <1>2, <1>3, <1>9, <1>10, <1>11 DEF Spoiled

\* The worker's own steps, as long as no fault hits them.
LEMMA PaidWorker ==
  ASSUME Flow, Flow', Paid, NEW w \in Workers, Worker(w)
  PROVE  Paid'
<1> USE DEF diskVars, flagVars, workerVars, countVars, callVars
<1>0. /\ WorkerTypeOK /\ Hands /\ ckpt \in Checkpoints /\ faults \in Nat
      /\ tempExists \in {"yes", "no"} /\ cancel \in {"no", "pause", "calling", "abort"}
  BY DEF Flow, TypeOK, DiskTypeOK, CallTypeOK
<1>b. wpc[w] \notin {"off", "done"}
  BY DEF Worker, TakePart, GetPart, StopAfterGet, WritePart, OpenFails, SetPart, Dump,
         PartAborted, PartFailed, Accepts
<1>c. pc \in {"spawn", "join"}
  BY <1>b, WorkersRun
<1>1. /\ UNCHANGED <<object, pc, ver, tempExists, fails>> /\ mislaid \subseteq mislaid'
      /\ faults' \in {faults, faults + 1}
  BY <1>0 DEF Worker, TakePart, GetPart, StopAfterGet, WritePart, OpenFails, SetPart, Dump,
      PartAborted, PartFailed
<1>2. CASE faults' = faults + 1
  BY <1>1, <1>2, FaultPays
<1>3. CASE faults' = faults
  <2>1. Hit' => Hit
    <3>1. CASE OpenFails(w)
      BY <1>0, <1>3, <1>c, <3>1 DEF OpenFails, Hit
    <3>2. CASE PartAborted(w) \/ PartFailed(w)
      BY <3>2 DEF PartAborted, PartFailed, Hit
    <3>3. CASE TakePart(w) \/ SetPart(w) \/ Dump(w) \/ StopAfterGet(w)
      <4>1. /\ UNCHANGED flags /\ (cancel' # "no" => cancel # "no")
            /\ \A x \in Workers : wpc'[x] \in {"retryable", "fatal"} => wpc'[x] = wpc[x]
        BY <1>0, <3>3 DEF TakePart, SetPart, Dump, StopAfterGet, WorkerTypeOK
      <4> QED
        BY <1>1, <4>1 DEF Hit, Unhindered
    <3>4. CASE GetPart(w) \/ WritePart(w)
      <4>1. /\ UNCHANGED flags /\ (cancel' # "no" => cancel # "no")
            /\ \A x \in Workers : wpc'[x] \in {"retryable", "fatal"} => wpc'[x] = wpc[x]
        BY <1>0, <1>3, <3>4 DEF GetPart, WritePart, Accepts, WorkerTypeOK
      <4> QED
        BY <1>1, <4>1 DEF Hit, Unhindered
    <3> QED
      BY <3>1, <3>2, <3>3, <3>4 DEF Worker
  <2>2. Spoiled(ckpt') => Spoiled(ckpt)
    <3>1. CASE SetPart(w)
      <4> DEFINE f == [ckpt.part EXCEPT ![wpart[w]] = wver[w]]
      <4>1. wpart[w] \in Parts /\ wver[w] \in 1..MaxVersion
        BY <1>0, <3>1 DEF SetPart, Hands, Placing, Holding
      <4>2. ckpt.part \in [Parts -> Torn..MaxVersion] /\ f \in [Parts -> Torn..MaxVersion]
        BY <1>0, <4>1, CheckpointFields
      <4>3. ckpt' = [ckpt EXCEPT !.part = f]
        BY <3>1 DEF SetPart
      <4>4. ckpt'.part = f
        BY <1>0, <4>2, <4>3, CheckpointUpdate
      <4> QED
        BY <4>1, <4>2, <4>4 DEF Spoiled
    <3>2. CASE ~SetPart(w)
      BY <3>2 DEF Worker, TakePart, GetPart, StopAfterGet, WritePart, OpenFails, Dump,
          PartAborted, PartFailed
    <3> QED
      BY <3>1, <3>2
  <2>3. Debt' <= Debt
    BY <1>1, <1>c, <2>1, <2>2 DEF Debt, Spoiled
  <2> QED
    BY <1>1, <1>3, <2>3, DebtShrinks
<1> QED
  BY <1>1, <1>2, <1>3

\* Between calls, without a checkpoint, nothing is owed.
LEMMA NoDebt ==
  ASSUME Flow', pc' = "idle", ckptFile' = NoCheckpoint
  PROVE  Debt' = 0
<1>1. object' # 0 /\ ckptFile'.ver = 0
  BY NoCheckpointType DEF Flow, TypeOK, DiskTypeOK
<1> QED
  BY <1>1 DEF Debt

\* A call that starts owes what the checkpoint it loads does.
LEMMA PaidStart == Inv /\ Fresh /\ Paid /\ StartDownload => Paid'
<1> USE DEF diskVars, flagVars, workerVars, countVars, callVars
<1> SUFFICES ASSUME Inv, Fresh, Paid, StartDownload PROVE Paid'
  OBVIOUS
<1>0. Flow /\ Disk
  BY DEF Inv
<1>1. /\ UNCHANGED <<object, ckptFile, temp, tempExists, cancel, fails, faults>> /\ pc = "idle"
      /\ ver' = object /\ flags' = {} /\ \A w \in Workers : wpc'[w] = "off"
      /\ \/ pc' = "spawn" /\ ckpt' = ckptFile /\ ckptFile.ver = object
         \/ pc' = "truncate"
      /\ mislaid' = {} => mislaid = {}
  BY DEF StartDownload, FreshThreads, IsValid
<1>2. ASSUME mislaid' = {} PROVE Debt' <= Debt
  <2>1. Unhindered'
    BY <1>1 DEF Fresh, Unhindered
  <2>2. CASE pc' = "truncate"
    BY <1>1, <2>1, <2>2, DebtRange DEF Debt, Hit
  <2>3. CASE pc' = "spawn"
    <3>1. ckpt' = ckptFile /\ ckptFile.ver = object
      BY <1>1, <2>3
    <3>2. tempExists = "yes"
      BY <1>0, <1>1, <1>2, <3>1 DEF Disk, OnDisk
    <3>3. ~Hit'
      BY <1>1, <2>1, <3>2 DEF Hit
    <3> QED
      BY <1>1, <2>3, <3>1, <3>3 DEF Debt, Spoiled
  <2> QED
    BY <1>1, <2>2, <2>3
<1> QED
  BY <1>0, <1>1, <1>2, DebtShrinks

LEMMA PaidCaller == Inv /\ Flow' /\ Bill /\ Caller => Paid'
<1> USE DEF diskVars, flagVars, workerVars, countVars, callVars
<1> SUFFICES ASSUME Inv, Flow', Bill, Caller PROVE Paid'
  OBVIOUS
<1>0. /\ Flow /\ Disk /\ Ages /\ Taken /\ Fresh /\ Paid /\ DiskTypeOK /\ WorkerTypeOK /\ Quiet
      /\ tempExists \in {"yes", "no"} /\ cancel \in {"no", "pause", "calling", "abort"}
      /\ faults \in Nat /\ fails \in Nat
  BY DEF Inv, Bill, Flow, TypeOK, DiskTypeOK, CallTypeOK
<1>1. CASE TruncateTemp
  <2>1. /\ UNCHANGED <<object, ver, fails, flags, cancel, wpc, mislaid>>
        /\ pc = "truncate" /\ pc' = "forget"
    BY <1>1 DEF TruncateTemp
  <2>2. CASE faults' = faults /\ tempExists' = "yes"
    <3>1. Debt' <= Debt
      BY <2>1, <2>2 DEF Debt, Hit, Unhindered
    <3> QED
      BY <1>0, <2>1, <2>2, <3>1, DebtShrinks
  <2>3. CASE faults' = faults + 1
    BY <1>0, <2>1, <2>3, FaultPays
  <2> QED
    BY <1>1, <2>2, <2>3 DEF TruncateTemp
<1>2. CASE ForgetCheckpoint
  <2>1. /\ UNCHANGED <<object, ver, fails, flags, cancel, wpc, tempExists>>
        /\ pc = "forget" /\ pc' = "spawn" /\ \A p \in Parts : ckpt'.part[p] = 0
    BY <1>2 DEF ForgetCheckpoint, NoData
  <2>2. CASE UNCHANGED <<mislaid, faults>>
    <3>1. Debt' <= Debt
      BY <2>1 DEF Debt, Hit, Unhindered, Spoiled
    <3> QED
      BY <1>0, <2>1, <2>2, <3>1, DebtShrinks
  <2>3. CASE "kept" \in mislaid'
    BY <2>3 DEF Paid
  <2> QED
    BY <1>2, <2>2, <2>3 DEF ForgetCheckpoint, DeleteCheckpointFile
<1>3. CASE LaunchFails
  BY <1>0, <1>3, FaultPays DEF LaunchFails
<1>4. CASE LaunchDone
  <2>1. Debt' <= Debt
    BY <1>4 DEF LaunchDone, Debt, Hit, Unhindered, Spoiled
  <2> QED
    BY <1>0, <1>4, <2>1, DebtShrinks DEF LaunchDone
<1>5. CASE Join
  <2>1. /\ UNCHANGED <<object, mislaid, faults, ckptFile, tempExists>> /\ pc = "join"
        /\ \A w \in Workers : wpc[w] \in {"off", "done"}
    BY <1>5 DEF Join, Settle, Return
  <2>2. CASE \E r \in Results : Return(r)
    <3>1. pc' = "idle" /\ fails' \in {0, fails + 1}
      BY <2>2 DEF Return
    <3>2. Hit
      BY <1>0, <1>5, <2>1, <3>1 DEF Join, Settle, Hit, Unhindered, isSuccess
    <3>3. Debt = 2 /\ Debt' \in {0, 1}
      BY <2>1, <3>1, <3>2 DEF Debt
    <3>4. Debt' + 1 <= Debt
      <4> DEFINE d == Debt
                 e == Debt'
      <4>1. d = 2 /\ e \in {0, 1}
        BY <3>3
      <4> HIDE DEF d, e
      <4>2. e + 1 <= d
        BY <4>1
      <4> QED
        BY <4>2 DEF d, e
    <3> QED
      BY <1>0, <2>1, <3>1, <3>4, DebtShrinks
  <2>3. CASE \E next \in {"discard", "finish"}, r \in Results : Settle(next, r)
    <3>1. UNCHANGED <<ver, ckpt, flags, wpc, fails>> /\ pc' \in {"discard", "finish"}
      BY <2>3 DEF Settle, flagVars
    <3>2. CASE pc' = "discard"
      <4>1. Hit \/ ~CrcMatches
        BY <1>0, <1>5, <3>2 DEF Join, Settle, Return, isAbort, Hit, Unhindered
      <4>2. Debt >= 1 /\ Debt' = 1
        BY <1>0, <2>1, <3>2, <4>1, MismatchIsTorn DEF Debt
      <4> QED
        BY <1>0, <2>1, <3>1, <4>2, DebtShrinks
    <3>3. CASE pc' = "finish"
      <4>1. NotCancel
        BY <1>5, <3>3 DEF Join, Settle, Return
      <4>2. Hit' => Hit
        BY <2>1, <3>1, <3>3, <4>1 DEF Hit, Unhindered
      <4>3. Debt' <= Debt
        BY <2>1, <3>3, <4>2 DEF Debt
      <4> QED
        BY <1>0, <2>1, <3>1, <4>3, DebtShrinks
    <3> QED
      BY <3>1, <3>2, <3>3
  <2>4. firstError \in Results /\ "canceled" \in Results
    BY <1>0 DEF Flow, TypeOK, CallTypeOK
  <2> QED
    BY <1>5, <2>2, <2>3, <2>4 DEF Join
<1>6. CASE DiscardCheckpoint
  <2>1. /\ UNCHANGED <<object, ver, fails, flags, cancel, wpc, tempExists>>
        /\ \/ pc = "discard" /\ pc' = "remove"
           \/ pc = "finish" /\ pc' = "rename"
    BY <1>6 DEF DiscardCheckpoint
  <2>2. CASE UNCHANGED <<mislaid, faults>>
    <3>1. Debt' <= Debt
      BY <2>1 DEF Debt, Hit, Unhindered
    <3> QED
      BY <1>0, <2>1, <2>2, <3>1, DebtShrinks
  <2>3. CASE "kept" \in mislaid'
    BY <2>3 DEF Paid
  <2> QED
    BY <1>6, <2>2, <2>3 DEF DiscardCheckpoint, DeleteCheckpointFile
<1>7. CASE RemoveTemp
  <2>1. /\ UNCHANGED <<object, ckptFile, mislaid>> /\ pc = "remove" /\ pc' = "idle"
        /\ fails' \in {0, fails + 1}
    BY <1>7 DEF RemoveTemp, Return
  <2>2. CASE faults' = faults + 1
    BY <1>0, <2>1, <2>2, FaultPays
  <2>3. CASE faults' = faults
    <3>1. mislaid' = {} => Debt' + 1 <= Debt
      <4>1. mislaid = {} => ckptFile = NoCheckpoint
        BY <1>0, <2>1 DEF Disk, Distrusted
      <4>2. mislaid' = {} => Debt' = 0
        BY <2>1, <4>1, NoDebt
      <4> QED
        BY <2>1, <4>2 DEF Debt
    <3> QED
      BY <1>0, <2>1, <2>3, <3>1, DebtShrinks
  <2> QED
    BY <1>7, <2>2, <2>3 DEF RemoveTemp
<1>8. CASE RenameTemp
  <2>1. /\ UNCHANGED <<object, ckptFile, mislaid>> /\ pc = "rename" /\ pc' = "idle"
        /\ fails' \in {0, fails + 1}
    BY <1>8 DEF RenameTemp, Return
  <2>2. mislaid' = {} => Debt' = 0
    <3>1. mislaid = {} => ckptFile = NoCheckpoint
      BY <1>0, <2>1 DEF Disk, Distrusted
    <3> QED
      BY <2>1, <3>1, NoDebt
  <2>3. CASE faults' = faults + 1
    BY <1>0, <2>1, <2>3, FaultPays
  <2>4. CASE faults' = faults /\ fails' = 0
    BY <1>0, <2>1, <2>2, <2>4, DebtShrinks
  <2>5. CASE faults' = faults /\ tempExists = "no"
    <3>1. Debt = 2
      BY <2>1, <2>5 DEF Debt, Hit
    <3> QED
      BY <1>0, <2>1, <2>2, <2>5, <3>1, DebtShrinks
  <2> QED
    BY <1>8, <2>3, <2>4, <2>5 DEF RenameTemp, Return
<1>9. ASSUME NEW w \in Workers, Launch(w) PROVE Paid'
  <2>1. /\ UNCHANGED <<object, ver, fails, flags, cancel, tempExists, ckpt, pc, mislaid, faults>>
        /\ pc = "spawn"
    BY <1>9 DEF Launch
  <2>2. \A x \in Workers : wpc'[x] \in {"retryable", "fatal"} => wpc'[x] = wpc[x]
    BY <1>0, <1>9 DEF Launch, WorkerTypeOK
  <2>3. Debt' <= Debt
    BY <2>1, <2>2 DEF Debt, Hit, Unhindered, Spoiled
  <2> QED
    BY <1>0, <2>1, <2>3, DebtShrinks
<1> QED
  BY <1>1, <1>2, <1>3, <1>4, <1>5, <1>6, <1>7, <1>8, <1>9 DEF Caller

LEMMA BillStep == Inv /\ Inv' /\ Bill /\ [Next]_vars => Bill'
<1> USE DEF diskVars, flagVars, workerVars, countVars, callVars
<1> SUFFICES ASSUME Inv, Inv', Bill, [Next]_vars PROVE Bill'
  OBVIOUS
<1>0. Flow /\ Flow' /\ Ages /\ Taken /\ Fresh /\ Paid
  BY DEF Inv, Bill
<1>1. Ages' /\ Taken' /\ Fresh'
  BY <1>0, AgesStep, TakenStep, FreshStep
<1> SUFFICES Paid'
  BY <1>1 DEF Bill
<1>2. CASE StartFails
  BY <1>0, <1>2, FaultPays DEF StartFails
<1>3. CASE Cancel
  <2>1. UNCHANGED <<object, ver, fails, flags, wpc, tempExists, ckpt, ckptFile, pc, mislaid>>
    BY <1>3 DEF Cancel
  <2>2. CASE faults' = faults + 1
    BY <1>0, <2>1, <2>2, FaultPays
  <2>3. CASE faults' = faults /\ cancel = "calling"
    <3>1. Debt' <= Debt
      BY <1>3, <2>1, <2>3 DEF Cancel, Debt, Hit, Unhindered, Spoiled
    <3> QED
      BY <1>0, <2>1, <2>3, <3>1, DebtShrinks
  <2> QED
    BY <1>3, <2>2, <2>3 DEF Cancel
<1>4. CASE Crash
  BY <1>0, <1>4, FaultPays DEF Crash, Return
<1>5. CASE ObjectChanges
  <2>1. UNCHANGED <<fails, faults, mislaid>> /\ object' = object + 1
    BY <1>5 DEF ObjectChanges
  <2> QED
    BY <1>0, <2>1, FaultPays
<1>6. CASE UNCHANGED vars
  <2>1. Debt' = Debt
    BY <1>6 DEF vars, Debt, Hit, Unhindered, Spoiled
  <2> QED
    BY <1>0, <1>6, <2>1 DEF vars, Paid
<1>7. CASE StartDownload
  BY <1>0, <1>7, PaidStart
<1>8. CASE Caller
  BY <1>0, <1>8, PaidCaller
<1>9. CASE \E w \in Workers : Worker(w)
  BY <1>0, <1>9, PaidWorker
<1> QED
  BY <1>2, <1>3, <1>4, <1>5, <1>6, <1>7, <1>8, <1>9 DEF Next

\* Downloads never wedge: unless something went behind the checkpoint's back, each
\* fault and each change of the object costs at most two failures in a row, of the
\* call it hits and of one more, which clears the checkpoint that came of it.
THEOREM FailuresPaidAlways == Spec => []FailuresPaid
<1>1. Init => Bill
  <2> SUFFICES ASSUME Init PROVE Bill
    OBVIOUS
  <2>1. Ages /\ Taken /\ Fresh
    BY NoCheckpointType DEF Init, Ages, Taken, Fresh, Since
  <2>2. Debt = 0
    BY NoCheckpointType DEF Init, Debt
  <2> QED
    BY <2>1, <2>2 DEF Init, Bill, Paid
<1>2. Inv /\ Inv' /\ Bill /\ [Next]_vars => Bill'
  BY BillStep
<1>3. Inv /\ Bill => FailuresPaid
  <2> SUFFICES ASSUME Inv, Bill, mislaid = {} PROVE fails <= 2 * (faults + object - 1)
    BY DEF FailuresPaid
  <2>1. fails \in Nat /\ faults \in Nat /\ object \in Nat
    BY DEF Inv, Flow, TypeOK, DiskTypeOK, CallTypeOK
  <2> DEFINE d == Debt
  <2>2. d \in 0..2 /\ fails + d <= 2 * (faults + object - 1)
    BY DebtRange DEF Bill, Paid
  <2> HIDE DEF d
  <2> QED
    BY <2>1, <2>2
<1> QED
  BY <1>1, <1>2, <1>3, Invariance, PTL DEF Spec
=============================================================================
