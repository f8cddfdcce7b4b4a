------------------------ MODULE UploadCompleteProofs ------------------------
(***************************************************************************)
(* What a call of uploadFile leaves and answers, on the invariant of       *)
(* UploadFileProofs: no part is lost between the queue, the workers and    *)
(* the checkpoint; the error returned is the first one a worker met; the   *)
(* checkpoint a call leaves can be resumed, where no dump saw half of an   *)
(* assignment; and then every failed call was paid for by a fault.         *)
(***************************************************************************)
EXTENDS UploadFileProofs

USE ConstantsAssumption DEF ConstantsAssumption, Parts, UploadIds, Versions, NoData,
    Torn, PartRecords, PartErrors, Results, Holding, Fault, NoFault, Record, Raise,
    IsCancel, NotCancel

\* Something told the workers to stop before the queue was empty.
Stopped == flags # {} \/ cancel # "no"

InHand(p) == \E w \in Workers : wpc[w] \in {"upload", "answered", "setting"} /\ wpart[w] = p

\* A part that left the queue is recorded, in a worker's hands, or given up.
Claimed ==
  pc \in {"spawn", "join"} =>
    \A p \in Parts : p < front => ckpt.part[p] # 0 \/ Stopped \/ InHand(p)

\* A worker ends when the queue is empty, or because something stopped it.
DoneWhy ==
  pc \in {"spawn", "join"} =>
    \A w \in Workers : wpc[w] = "done" => Stopped \/ front > NumParts

Launched == pc = "join" => Stopped \/ \A w \in Workers : wpc[w] # "off"

\* Until the upload is created nothing was taken and nobody works.
FreshCall == pc = "create" => front = 1 /\ \A w \in Workers : wpc[w] = "off"

ProgressInv == FreshCall /\ Claimed /\ DoneWhy /\ Launched /\ CompleteNeedsEveryPartUnlessAborted

\* What holds before the workers start.
LEMMA BeforeWorkers ==
  ASSUME \/ pc' \notin {"create", "spawn", "join", "complete"}
         \/ /\ pc' \in {"create", "spawn"}
            /\ front' = 1 /\ \A w \in Workers : wpc'[w] = "off"
  PROVE  ProgressInv'
BY DEF FreshCall, ProgressInv, Claimed, DoneWhy, Launched, CompleteNeedsEveryPartUnlessAborted

\* A worker's steps that neither take a part nor let go of one.
LEMMA KeepsPart ==
  ASSUME Inv, ProgressInv, NEW w \in Workers, UNCHANGED <<pc, ckpt, front, wpart>>,
         \A v \in Workers : v # w => wpc'[v] = wpc[v],
         wpc[w] # "off" => wpc'[w] # "off",
         Stopped => Stopped', pc \in {"spawn", "join"},
         wpc'[w] = "done" => Stopped' \/ front > NumParts,
         \/ wpc[w] \notin {"upload", "answered", "setting"}
         \/ wpc'[w] \in {"upload", "answered", "setting"}
         \/ Stopped'
         \/ ckpt.part[wpart[w]] # 0
  PROVE  ProgressInv'
<1>1. Claimed'
  <2> SUFFICES ASSUME NEW p \in Parts, p < front, ~Stopped'
               PROVE  ckpt.part[p] # 0 \/ InHand(p)'
    BY DEF Claimed
  <2>1. ckpt.part[p] # 0 \/ InHand(p)
    BY DEF ProgressInv, Claimed
  <2> QED
    BY <2>1 DEF InHand
<1>2. DoneWhy' /\ Launched'
  BY DEF ProgressInv, DoneWhy, Launched
<1> QED
  BY <1>1, <1>2 DEF ProgressInv, FreshCall, CompleteNeedsEveryPartUnlessAborted

LEMMA ProgressStep == Inv /\ ProgressInv /\ [Next]_vars => ProgressInv'
<1> SUFFICES ASSUME Inv, ProgressInv, [Next]_vars PROVE ProgressInv'
  OBVIOUS
<1> USE DEF fileVars, serverVars, flagVars, workerVars, countVars, callVars, vars
<1>0. CallTypeOK /\ WorkerTypeOK
  BY DEF Inv, TypeOK
<1>1. CASE StartUpload
  BY <1>1, BeforeWorkers DEF StartUpload, FreshThreads
<1>2. CASE CreateMultipartUpload
  <2>1. \/ pc' = "idle"
        \/ pc' = "spawn" /\ UNCHANGED <<front, wpc>> /\ pc = "create"
    BY <1>2 DEF CreateMultipartUpload, Return
  <2>2. pc = "create" => front = 1 /\ \A w \in Workers : wpc[w] = "off"
    BY DEF ProgressInv, FreshCall
  <2> QED
    BY <2>1, <2>2, BeforeWorkers
<1>3. CASE Join
  <2>1. CASE pc' # "complete"
    BY <1>3, <2>1, BeforeWorkers DEF Join, Return
  <2>2. CASE pc' = "complete"
    <3>1. /\ pc = "join" /\ Quiescent /\ flags = {} /\ UNCHANGED ckpt
          /\ cancel = "no" \/ cancel' = "abort"
      BY <1>0, <1>3, <2>2 DEF Join, Return, CallTypeOK, isAbort, isSuccess
    <3>2. CASE cancel = "no"
      <4>1. ~Stopped
        BY <3>1, <3>2 DEF Stopped
      <4>2. \A w \in Workers : wpc[w] = "done"
        BY <3>1, <4>1 DEF ProgressInv, Launched, Quiescent
      <4>3. front > NumParts
        BY <3>1, <4>1, <4>2 DEF ProgressInv, DoneWhy
      <4>4. \A p \in Parts : ckpt.part[p] # 0
        BY <1>0, <3>1, <4>1, <4>2, <4>3 DEF ProgressInv, Claimed, InHand, CallTypeOK
      <4> QED
        BY <2>2, <3>1, <4>4 DEF ProgressInv, FreshCall, Claimed, DoneWhy, Launched,
           CompleteNeedsEveryPartUnlessAborted
    <3>3. CASE cancel' = "abort"
      BY <2>2, <3>3 DEF ProgressInv, FreshCall, Claimed, DoneWhy, Launched,
         CompleteNeedsEveryPartUnlessAborted
    <3> QED
      BY <3>1, <3>2, <3>3
  <2> QED
    BY <2>1, <2>2
<1>4. CASE AbortMultipartUpload \/ AbortDelete \/ CompleteMultipartUpload \/ NoSuchUpload \/ Finish
           \/ Crash
  BY <1>4, BeforeWorkers DEF AbortMultipartUpload, AbortDelete, CompleteMultipartUpload,
     NoSuchUpload, Finish, Crash, Return
<1>5. CASE LaunchFails
  BY <1>0, <1>5
  DEF LaunchFails, ProgressInv, FreshCall, Claimed, DoneWhy, Launched, Stopped, InHand,
      CompleteNeedsEveryPartUnlessAborted
<1>6. CASE LaunchDone
  BY <1>6 DEF LaunchDone, ProgressInv, FreshCall, Claimed, DoneWhy, Launched, Stopped, InHand,
     CompleteNeedsEveryPartUnlessAborted
<1>7. CASE Cancel
  BY <1>7 DEF Cancel, ProgressInv, FreshCall, Claimed, DoneWhy, Launched, Stopped, InHand,
     CompleteNeedsEveryPartUnlessAborted
<1>8. CASE FileChanges \/ CheckpointDamaged \/ UploadExpires \/ UNCHANGED vars
  BY <1>8
  DEF FileChanges, CheckpointDamaged, UploadExpires, ProgressInv, FreshCall, Claimed, DoneWhy,
      Launched, Stopped, InHand, CompleteNeedsEveryPartUnlessAborted
<1>9. ASSUME NEW w \in Workers, Launch(w) PROVE ProgressInv'
  <2>1. wpc[w] = "off" /\ wpc' = [wpc EXCEPT ![w] = "loop"] /\ pc = "spawn"
        /\ UNCHANGED <<pc, ckpt, front, wpart, flags, cancel>>
    BY <1>9 DEF Launch
  <2> QED
    BY <1>0, <2>1, KeepsPart DEF WorkerTypeOK, Stopped
<1>10. ASSUME NEW w \in Workers, Worker(w) PROVE ProgressInv'
  <2>1. UNCHANGED pc /\ pc \in {"spawn", "join"} /\ wpc[w] \notin {"off", "done"}
    BY <1>10 DEF Inv, WorkersQuietAfterJoin, Worker, TakePart, UploadPart, UploadPartThrows,
       StopAfterUpload, BeginSetPart, SetPart, PartSucceeded, PartAborted, PartFailed
  <2>2. CASE TakePart(w)
    <3>1. /\ UNCHANGED <<pc, ckpt, flags, wres>> /\ front \in 1..(NumParts + 1)
          /\ Stopped <=> Stopped'
          /\ \A v \in Workers : v # w => wpc'[v] = wpc[v] /\ wpart'[v] = wpart[v]
      BY <1>0, <2>2 DEF TakePart, Stopped, CallTypeOK, WorkerTypeOK
    <3>2. CASE wpc' = [wpc EXCEPT ![w] = "done"] /\ UNCHANGED <<front, wpart>>
      <4>1. Stopped' \/ front > NumParts
        BY <2>2, <3>1, <3>2 DEF TakePart, Stopped, isAbort, WorkerTypeOK
      <4> QED
        BY <1>0, <2>1, <2>2, <3>1, <3>2, <4>1, KeepsPart DEF TakePart, WorkerTypeOK
    <3>3. CASE /\ front' = front + 1 /\ front <= NumParts
               /\ \/ ckpt.part[front] # 0 /\ UNCHANGED <<wpc, wpart>>
                  \/ /\ wpc' = [wpc EXCEPT ![w] = "upload"]
                     /\ wpart' = [wpart EXCEPT ![w] = front]
      <4>1. wpc[w] = "loop"
        BY <2>2 DEF TakePart
      <4>2. \A p \in Parts : p = front => ckpt.part[p] # 0 \/ InHand(p)'
        <5>1. wpc[w] = "loop" /\ wpc \in [Workers -> {"off", "loop", "done"} \cup Holding]
              /\ wpart \in [Workers -> 0..NumParts]
          BY <1>0, <4>1 DEF WorkerTypeOK
        <5>2. ckpt.part[front] # 0 \/ (wpc'[w] = "upload" /\ wpart'[w] = front)
          BY <3>3, <5>1
        <5> QED
          BY <5>2 DEF InHand
      <4>3. \A p \in Parts : InHand(p) => InHand(p)'
        BY <1>0, <3>1, <3>3, <4>1 DEF InHand, WorkerTypeOK
      <4>4. Claimed'
        <5> SUFFICES ASSUME NEW p \in Parts, p < front + 1, ~Stopped
                     PROVE  ckpt.part[p] # 0 \/ InHand(p)'
          BY <3>1, <3>3 DEF Claimed
        <5>1. CASE p < front
          BY <2>1, <4>3, <5>1 DEF ProgressInv, Claimed
        <5>2. CASE p = front
          BY <3>1, <3>3, <4>2, <5>2
        <5> QED
          BY <3>1, <5>1, <5>2
      <4>5. DoneWhy' /\ Launched'
        BY <1>0, <2>1, <3>1, <3>3, <4>1 DEF ProgressInv, DoneWhy, Launched, WorkerTypeOK
      <4> QED
        BY <2>1, <4>4, <4>5 DEF ProgressInv, FreshCall, CompleteNeedsEveryPartUnlessAborted
    <3> QED
      BY <2>2, <3>2, <3>3 DEF TakePart
  <2>3. CASE SetPart(w)
    <3>1. /\ UNCHANGED <<pc, front, wpart, flags, cancel>>
          /\ wpc' = [wpc EXCEPT ![w] = "notify"] /\ wpart[w] \in Parts /\ fileVer \in 1..MaxVersion
      BY <1>0, <2>3 DEF SetPart, WorkerTypeOK, Inv, TypeOK, StoreTypeOK
    <3>2. \A p \in Parts : ckpt'.part[p] = IF p = wpart[w] THEN fileVer ELSE ckpt.part[p]
      <4>1. ckpt \in Checkpoints
        BY <1>0 DEF CallTypeOK
      <4>2. [ckpt.part EXCEPT ![wpart[w]] = fileVer] \in [Parts -> PartRecords]
        BY <3>1, <4>1, CheckpointFields
      <4>3. ckpt' = [ckpt EXCEPT !.part = [ckpt.part EXCEPT ![wpart[w]] = fileVer]]
        BY <2>3 DEF SetPart
      <4> QED
        BY <3>1, <4>1, <4>2, <4>3, CheckpointUpdate, CheckpointFields
    <3>3. \A p \in Parts : InHand(p) => InHand(p)' \/ p = wpart[w]
      BY <1>0, <3>1 DEF InHand, WorkerTypeOK
    <3>4. Claimed'
      BY <2>1, <3>1, <3>2, <3>3 DEF ProgressInv, Claimed, Stopped
    <3>5. DoneWhy' /\ Launched'
      BY <1>0, <2>1, <3>1 DEF ProgressInv, DoneWhy, Launched, Stopped, WorkerTypeOK
    <3> QED
      BY <2>1, <3>4, <3>5 DEF ProgressInv, FreshCall, CompleteNeedsEveryPartUnlessAborted
  <2>4. CASE UploadPart(w) \/ BeginSetPart(w)
    <3>1. /\ UNCHANGED <<pc, ckpt, front, wpart>> /\ (Stopped => Stopped')
          /\ \E s \in {"answered", "setting"} : wpc' = [wpc EXCEPT ![w] = s]
      BY <2>4 DEF UploadPart, BeginSetPart, Stopped
    <3> QED
      BY <1>0, <2>1, <3>1, KeepsPart DEF WorkerTypeOK
  <2>5. CASE PartSucceeded(w)
    <3>1. /\ UNCHANGED <<pc, ckpt, front, wpart>> /\ wpc[w] = "notify" /\ (Stopped => Stopped')
          /\ \/ wpc' = [wpc EXCEPT ![w] = "loop"]
             \/ wpc' = [wpc EXCEPT ![w] = "done"] /\ Stopped'
      BY <2>5 DEF PartSucceeded, Stopped
    <3>2. \A v \in Workers : v # w => wpc'[v] = wpc[v]
      BY <1>0, <3>1 DEF WorkerTypeOK
    <3>3. wpc'[w] \in {"loop", "done"} /\ (wpc'[w] = "done" => Stopped')
      BY <1>0, <3>1 DEF WorkerTypeOK
    <3> QED
      BY <2>1, <3>1, <3>2, <3>3, KeepsPart
  <2>6. CASE UploadPartThrows(w) \/ StopAfterUpload(w) \/ PartAborted(w) \/ PartFailed(w)
    <3>1. /\ UNCHANGED <<pc, ckpt, front, wpart>> /\ Stopped'
          /\ \E s \in {"loop", "done"} : wpc' = [wpc EXCEPT ![w] = s]
      BY <2>6 DEF UploadPartThrows, StopAfterUpload, PartAborted, PartFailed, Stopped
    <3>2. \A v \in Workers : v # w => wpc'[v] = wpc[v]
      BY <1>0, <3>1 DEF WorkerTypeOK
    <3>3. wpc'[w] \in {"loop", "done"}
      BY <1>0, <3>1 DEF WorkerTypeOK
    <3> QED
      BY <2>1, <3>1, <3>2, <3>3, KeepsPart
  <2> QED
    BY <1>10, <2>2, <2>3, <2>4, <2>5, <2>6 DEF Worker
<1> QED
  BY <1>1, <1>2, <1>3, <1>4, <1>5, <1>6, <1>7, <1>8, <1>9, <1>10 DEF Next, Caller, Environment

\* Unless Cancel(true) was missed by isCancel, CompleteMultipartUpload is only sent
\* when every part was uploaded and recorded, however the workers shared the queue.
THEOREM NoPartIsLost == Spec => []CompleteNeedsEveryPartUnlessAborted
<1>1. Init => ProgressInv
  BY DEF Init, ProgressInv, FreshCall, Claimed, DoneWhy, Launched,
     CompleteNeedsEveryPartUnlessAborted
<1>2. ProgressInv => CompleteNeedsEveryPartUnlessAborted
  BY DEF ProgressInv
<1> QED
  BY <1>1, <1>2, Invariance, ProgressStep, PTL DEF Spec

-----------------------------------------------------------------------------
(* What a call answers                                                     *)

\* When flags are raised and orders to cancel given, along a call.
Clean ==
  /\ pc = "idle" => cancel = "no"
  /\ pc \in {"create", "complete", "nosuch", "completed"} => flags = {}
  /\ pc \in {"abort", "abortDelete"} => isAbort \/ cancel # "no"
  /\ firstError # "none" => flags # {}

LEMMA CleanStep == Inv /\ Clean /\ [Next]_vars => Clean'
<1> SUFFICES ASSUME Inv, Clean, [Next]_vars PROVE Clean'
  OBVIOUS
<1> USE DEF Clean, isAbort, fileVars, serverVars, flagVars, workerVars, countVars, callVars, vars
<1>1. CASE StartUpload
  BY <1>1 DEF StartUpload, FreshThreads
<1>2. ASSUME NEW r, Return(r) PROVE Clean'
  BY <1>2 DEF Return, FreshThreads
<1>3. CASE CreateMultipartUpload
  BY <1>2, <1>3 DEF CreateMultipartUpload
<1>4. CASE Join
  BY <1>2, <1>4 DEF Join, isSuccess, Inv, TypeOK, CallTypeOK
<1>5. CASE AbortMultipartUpload
  BY <1>5 DEF AbortMultipartUpload
<1>6. CASE CompleteMultipartUpload
  BY <1>2, <1>6 DEF CompleteMultipartUpload
<1>7. CASE AbortDelete \/ NoSuchUpload \/ Finish \/ Crash
  BY <1>2, <1>7 DEF AbortDelete, NoSuchUpload, Finish, Crash
<1>8. CASE LaunchFails \/ LaunchDone
  BY <1>8 DEF LaunchFails, LaunchDone
<1>9. CASE Cancel \/ FileChanges \/ CheckpointDamaged \/ UploadExpires \/ UNCHANGED vars
  BY <1>9 DEF Cancel, FileChanges, CheckpointDamaged, UploadExpires
<1>10. ASSUME NEW w \in Workers, Worker(w) \/ Launch(w) PROVE Clean'
  <2>1. pc \in {"spawn", "join"} /\ pc' = pc
    BY <1>10 DEF Inv, WorkersQuietAfterJoin, Quiescent, Worker, Launch, TakePart, UploadPart,
        UploadPartThrows, StopAfterUpload, BeginSetPart, SetPart, PartSucceeded, PartAborted,
        PartFailed
  <2>2. \/ UNCHANGED flagVars
        \/ "failed" \in flags' \/ "abort" \in flags'
    BY <1>10 DEF Worker, Launch, TakePart, UploadPart, UploadPartThrows, StopAfterUpload,
        BeginSetPart, SetPart, PartSucceeded, PartAborted, PartFailed
  <2> QED
    BY <2>1, <2>2
<1> QED
  BY <1>1, <1>3, <1>4, <1>5, <1>6, <1>7, <1>8, <1>9, <1>10 DEF Next, Caller, Environment

LEMMA CleanInit == Init => Clean
BY DEF Init, Clean

\* A worker never replaces the error another recorded before it.
LEMMA FirstErrorStays ==
  ASSUME firstError # "none", NEW w \in Workers, Worker(w) \/ Launch(w)
  PROVE  firstError' = firstError /\ pc' = pc
<1> USE DEF fileVars, serverVars, flagVars, workerVars, countVars, callVars
<1> QED
  BY DEF Worker, Launch, TakePart, UploadPart, UploadPartThrows, StopAfterUpload, BeginSetPart,
     SetPart, PartSucceeded, PartAborted, PartFailed

\* The error a call returns is the first one a worker met, whichever worker that was
\* and whatever the others met after it, unless the call was cancelled or died.
THEOREM FirstErrorIsReturned == Spec => FirstErrorReturned
<1> DEFINE Kept == pc # "idle" /\ firstError # "none" =>
                     IF pc' = "idle" THEN result' \in {firstError, "crashed"} \/ cancel # "no"
                                     ELSE firstError' = firstError
<1>1. Inv /\ Clean /\ [Next]_vars => [Kept]_vars
  <2> SUFFICES ASSUME Inv, Clean, [Next]_vars, pc # "idle", firstError # "none", ~UNCHANGED vars
               PROVE  IF pc' = "idle" THEN result' \in {firstError, "crashed"} \/ cancel # "no"
                                      ELSE firstError' = firstError
    OBVIOUS
  <2> USE DEF fileVars, serverVars, flagVars, workerVars, countVars, callVars
  <2>0. flags # {} /\ pc \notin {"create", "complete", "nosuch", "completed"}
    BY DEF Clean
  <2>1. CASE LaunchFails \/ LaunchDone
    BY <2>1 DEF LaunchFails, LaunchDone
  <2>2. CASE Join
    BY <2>0, <2>2 DEF Join, Return
  <2>3. CASE AbortMultipartUpload
    BY <2>3 DEF AbortMultipartUpload
  <2>4. CASE AbortDelete
    BY <2>4 DEF AbortDelete, Return, Clean
  <2>5. CASE Cancel \/ UploadExpires
    BY <2>5 DEF Cancel, UploadExpires
  <2>6. CASE Crash
    BY <2>6 DEF Crash, Return
  <2>7. ASSUME NEW w \in Workers, Worker(w) \/ Launch(w)
        PROVE  firstError' = firstError /\ pc' = pc
    BY <2>7, FirstErrorStays
  <2>8. CASE \/ StartUpload \/ CreateMultipartUpload \/ CompleteMultipartUpload \/ NoSuchUpload
             \/ Finish \/ FileChanges \/ CheckpointDamaged
    BY <2>0, <2>8 DEF StartUpload, CreateMultipartUpload, CompleteMultipartUpload, NoSuchUpload,
        Finish, FileChanges, CheckpointDamaged
  <2> QED
    BY <2>1, <2>2, <2>3, <2>4, <2>5, <2>6, <2>7, <2>8 DEF Next, Caller, Environment
<1> QED
  BY <1>1, CleanInit, CleanStep, Invariance, PTL DEF Spec, FirstErrorReturned

-----------------------------------------------------------------------------
(* What a checkpoint can be resumed from                                   *)

Untorn(c) == \A p \in Parts : c.part[p] # Torn

\* If a dump never reads half an assignment, no record is torn, in memory or on disk.
NoTorn == Untorn(ckpt) /\ Untorn(ckptFile)

LEMMA NoTornStep == ~TornReads /\ Inv /\ NoTorn /\ [Next]_vars => NoTorn'
<1> SUFFICES ASSUME ~TornReads, Inv, NoTorn, [Next]_vars PROVE NoTorn'
  OBVIOUS
<1> USE DEF fileVars, serverVars, flagVars, workerVars, countVars, callVars, vars
<1>0. TypeOK /\ StoreTypeOK /\ CallTypeOK /\ WorkerTypeOK
  BY DEF Inv, TypeOK
<1>a. \A p \in Parts : NoCheckpoint.part[p] = 0
  BY DEF NoCheckpoint
<1>1. ASSUME ckpt' \in {ckpt, ckptFile, NoCheckpoint}, ckptFile' \in {ckptFile, NoCheckpoint}
      PROVE  NoTorn'
  BY <1>1, <1>a DEF NoTorn, Untorn
<1>2. CASE CreateMultipartUpload
  <2>1. CASE Return("init")
    BY <1>1, <1>2, <2>1 DEF CreateMultipartUpload, Return
  <2>2. CASE ~Return("init")
    BY <1>2, <2>2 DEF CreateMultipartUpload, NoTorn, Untorn
  <2> QED
    BY <2>1, <2>2
<1>3. CASE StartUpload \/ Join \/ AbortDelete \/ CompleteMultipartUpload \/ NoSuchUpload \/ Finish
           \/ Crash
  BY <1>1, <1>3 DEF StartUpload, Join, AbortDelete, CompleteMultipartUpload, NoSuchUpload, Finish,
      Crash, Return, DeleteCheckpointFile
<1>4. CASE LaunchFails \/ LaunchDone \/ AbortMultipartUpload \/ Cancel \/ FileChanges
           \/ CheckpointDamaged \/ UploadExpires \/ UNCHANGED vars
  BY <1>1, <1>4 DEF LaunchFails, LaunchDone, AbortMultipartUpload, Cancel, FileChanges,
      CheckpointDamaged, UploadExpires
<1>5. ASSUME NEW w \in Workers, SetPart(w) PROVE NoTorn'
  <2> DEFINE f == [ckpt.part EXCEPT ![wpart[w]] = fileVer]
  <2>1. wpart[w] \in Parts /\ fileVer \in 1..MaxVersion
    BY <1>0, <1>5 DEF SetPart, WorkerTypeOK, StoreTypeOK
  <2>2. ckpt \in Checkpoints /\ ckpt.part \in [Parts -> PartRecords] /\ f \in [Parts -> PartRecords]
    BY <1>0, <2>1, CheckpointFields DEF CallTypeOK
  <2>3. ckpt' = [ckpt EXCEPT !.part = f] /\ ckptFile' = ckptFile
    BY <1>5 DEF SetPart
  <2>4. ckpt'.part = f
    BY <2>2, <2>3, CheckpointUpdate
  <2> QED
    BY <2>1, <2>2, <2>3, <2>4 DEF NoTorn, Untorn
<1>6. ASSUME NEW w \in Workers, PartSucceeded(w) PROVE NoTorn'
  <2>1. ckpt' = ckpt
    BY <1>6 DEF PartSucceeded
  <2>2. CASE Dump(w)
    <3>1. PICK missed \in SUBSET (PartsOf("notify") \ {wpart[w]}) :
            ckptFile' = [ckpt EXCEPT !.part = [p \in Parts |-> IF p \in missed THEN 0 ELSE @[p]]]
      BY <2>2 DEF Dump
    <3> DEFINE f == [p \in Parts |-> IF p \in missed THEN 0 ELSE ckpt.part[p]]
    <3>2. ckpt \in Checkpoints /\ f \in [Parts -> PartRecords]
      BY <1>0, CheckpointFields DEF CallTypeOK
    <3>3. ckptFile' = [ckpt EXCEPT !.part = f]
      BY <3>1
    <3>4. ckptFile'.part = f
      BY <3>2, <3>3, CheckpointUpdate
    <3> QED
      BY <2>1, <3>4 DEF NoTorn, Untorn
  <2>3. CASE UNCHANGED ckptFile
    BY <1>1, <2>1, <2>3
  <2> QED
    BY <1>6, <2>2, <2>3 DEF PartSucceeded
<1>7. ASSUME NEW w \in Workers, Worker(w) \/ Launch(w), ~SetPart(w), ~PartSucceeded(w)
      PROVE  UNCHANGED <<ckpt, ckptFile>>
  BY <1>7 DEF Worker, Launch, TakePart, UploadPart, UploadPartThrows, StopAfterUpload,
      BeginSetPart, PartAborted, PartFailed
<1> QED
  BY <1>1, <1>2, <1>3, <1>4, <1>5, <1>6, <1>7 DEF Next, Caller, Environment, Worker

LEMMA NoTornInit == Init => NoTorn
BY DEF Init, NoTorn, Untorn, NoCheckpoint

\* Whatever the calls, crashes and resumptions, a part the checkpoint file calls
\* completed has its ETag, if no dump ever saw half of an assignment.
THEOREM ResumableAlways ==
  ASSUME ~TornReads
  PROVE  Spec => []CheckpointResumable
<1>1. NoTorn => CheckpointResumable
  BY DEF NoTorn, Untorn, CheckpointResumable
<1>2. Inv /\ NoTorn /\ [Next]_vars => NoTorn'
  BY NoTornStep
<1> QED
  BY <1>1, <1>2, NoTornInit, Invariance, PTL DEF Spec

-----------------------------------------------------------------------------
(* What failures cost                                                      *)

\* What was assembled is what the call recorded.
Settled == pc = "completed" => ckpt.part = object

\* No checkpoint is of a version of the file to come.
NotAhead == ckptFile.ver <= fileVer

\* The checkpoint names an upload that takes no more parts.
Dead(c) == c.id # 0 /\ upload[c.id] # "open"

\* Something happened to this call that can make it fail and leave its checkpoint.
Hit ==
  \/ "failed" \in flags \/ cancel # "no"
  \/ \E w \in Workers : wpc[w] = "answered" /\ wres[w] = "retryable"

\* The call is bound to fail, and to clear the checkpoint.
Lost ==
  \/ isAbort \/ Dead(ckpt)
  \/ \E w \in Workers : wpc[w] = "answered" /\ wres[w] = "fatal"

\* The failures to come if nothing more goes wrong.
Debt ==
  IF pc = "idle"
  THEN (IF EnableCheckpoint /\ IsValid(ckptFile, fileVer) /\ Dead(ckptFile) THEN 1 ELSE 0)
  ELSE IF pc \in {"abort", "abortDelete", "nosuch"} THEN 1
  ELSE IF pc = "completed" THEN 0
  ELSE IF Hit THEN 2
  ELSE IF Lost THEN 1 ELSE 0

Paid == fails + Debt <= 2 * faults

LEMMA SettledStep == Inv /\ Settled /\ [Next]_vars => Settled'
<1> SUFFICES ASSUME Inv, Settled, [Next]_vars, pc' = "completed" PROVE ckpt'.part = object'
  BY DEF Settled
<1> USE DEF fileVars, serverVars, flagVars, workerVars, countVars, callVars, vars
<1>1. CASE CompleteMultipartUpload
  <2>1. Assembles /\ object' = stored[ckpt.id] /\ ckpt' = ckpt /\ Running
    BY <1>1 DEF CompleteMultipartUpload, Return, Running
  <2>2. ckpt \in Checkpoints /\ ckpt.id \in UploadIds /\ stored \in [UploadIds -> [Parts -> Versions]]
    BY <2>1 DEF Inv, TypeOK, StoreTypeOK, CallTypeOK, Running
  <2>3. ckpt.part \in [Parts -> PartRecords] /\ stored[ckpt.id] \in [Parts -> Versions]
    BY <2>2, CheckpointFields
  <2>4. \A p \in Parts : ckpt.part[p] = stored[ckpt.id][p]
    BY <2>1 DEF Assembles
  <2>5. ckpt.part = stored[ckpt.id]
    BY <2>3, <2>4
  <2> QED
    BY <2>1, <2>5
<1>2. CASE UNCHANGED <<pc, object, ckpt>>
  BY <1>2 DEF Settled
<1>3. CASE StartUpload \/ CreateMultipartUpload \/ Join \/ AbortDelete \/ NoSuchUpload \/ Finish
           \/ Crash \/ LaunchDone \/ LaunchFails \/ AbortMultipartUpload
  BY <1>3 DEF StartUpload, CreateMultipartUpload, Join, AbortDelete, NoSuchUpload, Finish, Crash,
     LaunchDone, LaunchFails, AbortMultipartUpload, Return
<1>4. CASE Cancel \/ FileChanges \/ CheckpointDamaged \/ UploadExpires \/ UNCHANGED vars
  BY <1>2, <1>4 DEF Cancel, FileChanges, CheckpointDamaged, UploadExpires
<1>5. ASSUME NEW w \in Workers, Worker(w) \/ Launch(w) PROVE FALSE
  <2>1. pc \in {"spawn", "join"} /\ pc' = pc
    BY <1>5 DEF Inv, WorkersQuietAfterJoin, Quiescent, Worker, Launch, TakePart, UploadPart,
        UploadPartThrows, StopAfterUpload, BeginSetPart, SetPart, PartSucceeded, PartAborted,
        PartFailed
  <2> QED
    BY <2>1
<1> QED
  BY <1>1, <1>2, <1>3, <1>4, <1>5 DEF Next, Caller, Environment

LEMMA NotAheadStep == Inv /\ NotAhead /\ [Next]_vars => NotAhead'
<1> SUFFICES ASSUME Inv, NotAhead, [Next]_vars PROVE NotAhead'
  OBVIOUS
<1> USE DEF fileVars, serverVars, flagVars, workerVars, countVars, callVars, vars
<1>0. TypeOK /\ StoreTypeOK /\ OneUpload
  BY DEF Inv, TypeOK, DataInv
<1>a. fileVer \in Nat \ {0} /\ ckptFile.ver \in Nat
  BY <1>0, CheckpointFields DEF StoreTypeOK
<1>1. ASSUME fileVer' \in {fileVer, fileVer + 1}, ckptFile' \in {ckptFile, NoCheckpoint}
      PROVE  NotAhead'
  BY <1>1, <1>a, NoCheckpointType DEF NotAhead
<1>2. CASE StartUpload \/ CreateMultipartUpload \/ Join \/ AbortDelete \/ CompleteMultipartUpload
           \/ NoSuchUpload \/ Finish \/ Crash
  BY <1>1, <1>2
  DEF StartUpload, CreateMultipartUpload, Join, AbortDelete, CompleteMultipartUpload,
      NoSuchUpload, Finish, Crash, Return, DeleteCheckpointFile
<1>3. CASE LaunchFails \/ LaunchDone \/ AbortMultipartUpload \/ Cancel \/ FileChanges
           \/ CheckpointDamaged \/ UploadExpires \/ UNCHANGED vars
  BY <1>1, <1>3 DEF LaunchFails, LaunchDone, AbortMultipartUpload, Cancel, FileChanges,
      CheckpointDamaged, UploadExpires
<1>4. ASSUME NEW w \in Workers, PartSucceeded(w) PROVE NotAhead'
  <2>1. UNCHANGED fileVer /\ Running
    BY <1>4 DEF PartSucceeded, Inv, WorkersQuietAfterJoin, Quiescent, Running
  <2>2. Dump(w) => ckptFile'.ver = fileVer
    BY <1>0, <2>1, DumpFields DEF OneUpload
  <2> QED
    BY <1>1, <1>4, <1>a, <2>1, <2>2 DEF PartSucceeded, NotAhead
<1>5. ASSUME NEW w \in Workers, Worker(w) \/ Launch(w), ~PartSucceeded(w)
      PROVE  UNCHANGED <<fileVer, ckptFile>>
  BY <1>5 DEF Worker, Launch, TakePart, UploadPart, UploadPartThrows, StopAfterUpload,
      BeginSetPart, SetPart, PartAborted, PartFailed
<1> QED
  BY <1>1, <1>2, <1>3, <1>4, <1>5 DEF Next, Caller, Environment, Worker

LEMMA DebtRange ==
  /\ Debt \in 0..2 /\ (pc = "idle" => Debt <= 1)
  /\ Debt' \in 0..2 /\ (pc' = "idle" => Debt' <= 1)
BY DEF Debt

\* Each fault pays for the call it hits and the next one.
LEMMA FaultPays ==
  ASSUME TypeOK, Paid, faults' = faults + 1,
         \/ fails' \in {0, fails}
         \/ fails' = fails + 1 /\ pc' = "idle"
  PROVE  Paid'
<1>1. faults \in Nat /\ fails \in Nat
  BY DEF TypeOK, StoreTypeOK, CallTypeOK
<1> DEFINE d == Debt
           e == Debt'
<1>2. d \in 0..2 /\ e \in 0..2 /\ (pc' = "idle" => e <= 1)
  BY DebtRange
<1>3. fails + d <= 2 * faults
  BY DEF Paid
<1>4. SUFFICES fails' + e <= 2 * faults'
  BY DEF Paid
<1> HIDE DEF d, e
<1> QED
  BY <1>1, <1>2, <1>3

\* A step that nothing went wrong in, and that owes no more than was owed.
LEMMA DebtShrinks ==
  ASSUME TypeOK, Paid, UNCHANGED faults,
         \/ fails' \in {0, fails} /\ Debt' <= Debt
         \/ fails' \in {0, fails + 1} /\ Debt' + 1 <= Debt
         \/ fails' = 0 /\ Debt' = 0
  PROVE  Paid'
<1>1. faults \in Nat /\ fails \in Nat
  BY DEF TypeOK, StoreTypeOK, CallTypeOK
<1> DEFINE d == Debt
           e == Debt'
<1>2. d \in 0..2 /\ e \in 0..2
  BY DebtRange
<1>3. fails + d <= 2 * faults
  BY DEF Paid
<1>4. SUFFICES fails' + e <= 2 * faults'
  BY DEF Paid
<1>5. \/ fails' \in {0, fails} /\ e <= d
      \/ fails' \in {0, fails + 1} /\ e + 1 <= d
      \/ fails' = 0 /\ e = 0
  OBVIOUS
<1> HIDE DEF d, e
<1> QED
  BY <1>1, <1>2, <1>3, <1>5

LEMMA PaidWorker ==
  ASSUME Inv, Paid, NEW w \in Workers, Worker(w) \/ Launch(w)
  PROVE  Paid'
<1> USE DEF fileVars, serverVars, flagVars, workerVars, countVars, callVars
<1>0. /\ TypeOK /\ StoreTypeOK /\ CallTypeOK /\ WorkerTypeOK /\ faults \in Nat
      /\ pc \in {"spawn", "join"} /\ pc' = pc
  BY DEF Inv, TypeOK, StoreTypeOK, WorkersQuietAfterJoin, Quiescent, Worker, Launch, TakePart,
      UploadPart, UploadPartThrows, StopAfterUpload, BeginSetPart, SetPart, PartSucceeded,
      PartAborted, PartFailed
<1>1. fails' = fails /\ upload' = upload /\ faults' \in {faults, faults + 1}
  BY <1>0 DEF Worker, Launch, TakePart, UploadPart, UploadPartThrows, StopAfterUpload,
      BeginSetPart, SetPart, PartSucceeded, PartAborted, PartFailed
<1>2. CASE faults' = faults + 1
  BY <1>0, <1>1, <1>2, FaultPays
<1>3. CASE faults' = faults
  <2>1. ckpt'.id = ckpt.id
    <3>1. CASE SetPart(w)
      <4> DEFINE f == [ckpt.part EXCEPT ![wpart[w]] = fileVer]
      <4>1. wpart[w] \in Parts /\ fileVer \in 1..MaxVersion
        BY <1>0, <3>1 DEF SetPart, WorkerTypeOK, StoreTypeOK
      <4>2. ckpt \in Checkpoints /\ f \in [Parts -> PartRecords]
        BY <1>0, <4>1, CheckpointFields DEF CallTypeOK
      <4>3. ckpt' = [ckpt EXCEPT !.part = f]
        BY <3>1 DEF SetPart
      <4> QED
        BY <4>2, <4>3, CheckpointUpdate
    <3>2. CASE ~SetPart(w)
      BY <3>2 DEF Worker, Launch, TakePart, UploadPart, UploadPartThrows, StopAfterUpload,
          BeginSetPart, PartSucceeded, PartAborted, PartFailed
    <3> QED
      BY <3>1, <3>2
  <2>2. Dead(ckpt)' <=> Dead(ckpt)
    BY <1>1, <2>1 DEF Dead
  <2>3. CASE PartAborted(w)
    <3>1. Lost
      BY <2>3 DEF PartAborted, Lost
    <3>2. Hit' => Hit
      <4>1. flags' = flags \cup {"abort"} /\ wres' = wres /\ (cancel' # "no" => cancel # "no")
        BY <1>0, <1>3, <2>3 DEF PartAborted
      <4>2. \A v \in Workers : wpc'[v] = "answered" => wpc[v] = "answered"
        BY <1>0, <2>3 DEF PartAborted, WorkerTypeOK
      <4> QED
        BY <4>1, <4>2 DEF Hit
    <3>3. Debt' <= Debt
      BY <1>0, <3>1, <3>2 DEF Debt
    <3> QED
      BY <1>0, <1>1, <1>3, <3>3, DebtShrinks
  <2>4. CASE PartFailed(w)
    <3>1. Hit
      BY <2>4 DEF PartFailed, Hit
    <3>2. Debt' <= Debt
      BY <1>0, <3>1 DEF Debt
    <3> QED
      BY <1>0, <1>1, <1>3, <3>2, DebtShrinks
  <2>5. CASE UploadPart(w)
    <3>1. UNCHANGED <<flags, cancel>>
      BY <2>5 DEF UploadPart
    <3>2. \A v \in Workers \ {w} : wpc'[v] = wpc[v] /\ wres'[v] = wres[v]
      BY <1>0, <2>5 DEF UploadPart, WorkerTypeOK
    <3>3. wres'[w] # "retryable"
      BY <1>0, <1>3, <2>5 DEF UploadPart, WorkerTypeOK
    <3>4. wres'[w] = "fatal" => Dead(ckpt)
      <4>1. ckpt.id # 0
        BY <1>0 DEF CallTypeOK
      <4> QED
        BY <1>0, <1>3, <2>5, <4>1 DEF UploadPart, WorkerTypeOK, Dead
    <3>5. Hit' => Hit
      BY <3>1, <3>2, <3>3 DEF Hit
    <3>6. Lost' => Lost
      BY <2>2, <3>1, <3>2, <3>4 DEF Lost, isAbort
    <3>7. Debt' <= Debt
      BY <1>0, <3>5, <3>6 DEF Debt
    <3> QED
      BY <1>0, <1>1, <1>3, <3>7, DebtShrinks
  <2>6. CASE ~(PartAborted(w) \/ PartFailed(w) \/ UploadPart(w))
    <3>1. UNCHANGED <<flags, wres>> /\ (cancel' # "no" => cancel # "no")
      BY <1>0, <1>3, <2>6 DEF Worker, Launch, TakePart, UploadPartThrows, StopAfterUpload,
          BeginSetPart, SetPart, PartSucceeded
    <3>2. \A v \in Workers : wpc'[v] = "answered" => wpc[v] = "answered"
      BY <1>0, <2>6 DEF Worker, Launch, TakePart, UploadPartThrows, StopAfterUpload,
          BeginSetPart, SetPart, PartSucceeded, WorkerTypeOK
    <3>3. (Hit' => Hit) /\ (Lost' => Lost)
      BY <2>2, <3>1, <3>2 DEF Hit, Lost, isAbort
    <3>4. Debt' <= Debt
      BY <1>0, <3>3 DEF Debt
    <3> QED
      BY <1>0, <1>1, <1>3, <3>4, DebtShrinks
  <2> QED
    BY <2>3, <2>4, <2>5, <2>6
<1> QED
  BY <1>1, <1>2, <1>3

LEMMA NoDebt ==
  ASSUME pc' = "idle", ckptFile' = NoCheckpoint
  PROVE  Debt' = 0
BY NoCheckpointType DEF Debt, IsValid

\* What is recorded without a tear is what the server holds: an upload that is open
\* and has every part is assembled.
LEMMA WholeAssembles ==
  ASSUME Inv, NoTorn, pc = "complete", \A p \in Parts : ckpt.part[p] # 0,
         upload[ckpt.id] = "open"
  PROVE  Assembles
<1>1. ckpt.id \in UploadIds /\ ckpt.ver = fileVer /\ fileVer \in 1..MaxVersion
  BY DEF Inv, TypeOK, StoreTypeOK, CallTypeOK, DataInv, OneUpload, Running
<1>2. \A p \in Parts : stored[ckpt.id][p] = ckpt.ver /\ ckpt.part[p] = ckpt.ver
  BY <1>1 DEF Inv, DataInv, Vouched, NoTorn, Untorn
<1> QED
  BY <1>1, <1>2 DEF Assembles

\* Everything a failure is charged to, when dumps do not tear records and
\* NoSuchUpload removes the checkpoint.
Ledger == Inv /\ ProgressInv /\ Clean /\ NoTorn /\ Settled /\ NotAhead /\ Paid

LEMMA PaidCaller ==
  ASSUME CleanupOnNoSuchUpload, Ledger, Caller
  PROVE  Paid'
<1> USE DEF fileVars, serverVars, flagVars, workerVars, countVars, callVars
<1>0. /\ Inv /\ TypeOK /\ CallTypeOK /\ WorkerTypeOK /\ Clean /\ Paid /\ faults \in Nat /\ fails \in Nat
      /\ WorkersQuietAfterJoin
  BY DEF Ledger, Inv, TypeOK, StoreTypeOK, CallTypeOK
<1>1. CASE CreateMultipartUpload
  <2>1. CASE Return("init")
    <3>1. faults' = faults + 1 \/ UNCHANGED <<pc>>
      BY <1>1, <2>1 DEF CreateMultipartUpload, Return
    <3> QED
      BY <1>0, <1>1, <2>1, <3>1, FaultPays DEF CreateMultipartUpload, Return
  <2>2. CASE ~Return("init")
    <3>1. /\ ckpt'.id = runs /\ upload' = [upload EXCEPT ![runs] = "open"]
          /\ pc = "create" /\ pc' = "spawn"
          /\ UNCHANGED <<flags, cancel, wpc, wres, fails, faults>>
      BY <1>1, <2>2 DEF CreateMultipartUpload
    <3>2. runs \in UploadIds /\ upload'[runs] = "open"
      BY <1>0, <3>1 DEF CallTypeOK, TypeOK, StoreTypeOK
    <3>3. Hit' => Hit
      BY <3>1 DEF Hit
    <3>4. ~Lost'
      <4>1. ~Dead(ckpt)'
        BY <3>1, <3>2 DEF Dead
      <4>2. \A v \in Workers : wpc'[v] # "answered"
        BY <1>0, <3>1 DEF WorkersQuietAfterJoin, Quiescent
      <4> QED
        BY <1>0, <3>1, <4>1, <4>2 DEF Lost, isAbort, Clean
    <3>5. Debt' <= Debt
      BY <3>1, <3>3, <3>4 DEF Debt
    <3> QED
      BY <1>0, <3>1, <3>5, DebtShrinks
  <2> QED
    BY <2>1, <2>2
<1>2. CASE LaunchFails
  BY <1>0, <1>2, FaultPays DEF LaunchFails
<1>3. CASE LaunchDone
  <2>1. Debt' <= Debt
    BY <1>3 DEF LaunchDone, Debt, Hit, Lost, isAbort, Dead
  <2> QED
    BY <1>0, <1>3, <2>1, DebtShrinks DEF LaunchDone
<1>4. CASE Join
  <2>1. pc = "join" /\ UNCHANGED <<upload, ckptFile, faults>>
    BY <1>4 DEF Join
  <2>2. CASE pc' = "abort"
    <3>1. (Hit \/ Lost) /\ fails' = fails
      BY <1>4, <2>2 DEF Join, Return, Hit, Lost
    <3>2. Debt >= 1 /\ Debt' = 1
      BY <2>1, <2>2, <3>1 DEF Debt
    <3> QED
      BY <1>0, <2>1, <3>1, <3>2, DebtShrinks
  <2>3. CASE pc' = "idle"
    <3>1. Hit /\ fails' \in {0, fails + 1}
      BY <1>4, <2>1, <2>3 DEF Join, Return, Hit, isSuccess
    <3>2. Debt = 2 /\ Debt' \in {0, 1}
      BY <2>1, <2>3, <3>1 DEF Debt
    <3>3. Debt' + 1 <= Debt
      <4> DEFINE d == Debt
                 e == Debt'
      <4>1. d = 2 /\ e \in {0, 1}
        BY <3>2
      <4> HIDE DEF d, e
      <4>2. e + 1 <= d
        BY <4>1
      <4> QED
        BY <4>2 DEF d, e
    <3> QED
      BY <1>0, <2>1, <3>1, <3>3, DebtShrinks
  <2>4. CASE pc' = "complete"
    <3>1. UNCHANGED <<flags, ckpt, wpc, wres, fails>> /\ (cancel' # "no" => cancel # "no")
      BY <1>4, <2>4 DEF Join, Return
    <3>2. (Hit' => Hit) /\ (Lost' => Lost)
      BY <2>1, <3>1 DEF Hit, Lost, isAbort, Dead
    <3>3. Debt' <= Debt
      BY <2>1, <2>4, <3>2 DEF Debt
    <3> QED
      BY <1>0, <2>1, <3>1, <3>3, DebtShrinks
  <2> QED
    BY <1>4, <2>2, <2>3, <2>4 DEF Join, Return
<1>5. CASE AbortMultipartUpload
  <2>1. faults' \in {faults, faults + 1} /\ fails' = fails /\ pc = "abort" /\ pc' = "abortDelete"
    BY <1>5 DEF AbortMultipartUpload
  <2>2. Debt' <= Debt
    BY <2>1 DEF Debt
  <2> QED
    BY <1>0, <2>1, <2>2, FaultPays, DebtShrinks
<1>6. CASE AbortDelete
  <2>1. pc = "abortDelete" /\ pc' = "idle" /\ fails' \in {0, fails + 1}
    BY <1>6 DEF AbortDelete, Return
  <2>2. CASE faults' = faults + 1
    BY <1>0, <2>1, <2>2, FaultPays
  <2>3. CASE ckptFile' = NoCheckpoint /\ faults' = faults
    <3>1. Debt' = 0 /\ Debt = 1
      BY <2>1, <2>3, NoDebt DEF Debt
    <3> QED
      BY <1>0, <2>1, <2>3, <3>1, DebtShrinks
  <2> QED
    BY <1>6, <2>2, <2>3 DEF AbortDelete, DeleteCheckpointFile
<1>7. CASE CompleteMultipartUpload
  <2>1. pc = "complete"
    BY <1>7 DEF CompleteMultipartUpload
  <2>2. CASE faults' = faults + 1
    <3>1. \/ fails' \in {0, fails}
          \/ fails' = fails + 1 /\ pc' = "idle"
      BY <1>7 DEF CompleteMultipartUpload, Return
    <3> QED
      BY <1>0, <2>2, <3>1, FaultPays
  <2>3. CASE faults' = faults
    <3>1. CASE pc' = "completed"
      <4>1. fails' = fails /\ Debt' = 0 /\ Debt >= 0
        BY <1>7, <3>1, DebtRange DEF CompleteMultipartUpload, Return, Debt
      <4> QED
        BY <1>0, <2>3, <4>1, DebtShrinks
    <3>2. CASE pc' = "nosuch"
      <4>1. fails' = fails /\ upload[ckpt.id] # "open"
        BY <1>0, <1>7, <2>3, <3>2 DEF CompleteMultipartUpload, Return
      <4>2. Lost
        BY <1>0, <2>1, <4>1 DEF Lost, Dead, CallTypeOK
      <4>3. Debt >= 1 /\ Debt' = 1
        BY <2>1, <3>2, <4>2 DEF Debt
      <4> QED
        BY <1>0, <2>3, <4>1, <4>3, DebtShrinks
    <3>3. CASE pc' = "idle"
      <4>1. upload[ckpt.id] = "open" /\ ~Assembles /\ fails' \in {0, fails + 1}
        BY <1>0, <1>7, <2>3, <3>3 DEF CompleteMultipartUpload, Return
      <4>2. Hit
        <5> SUFFICES ASSUME cancel = "no" PROVE FALSE
          BY DEF Hit
        <5>1. \A p \in Parts : ckpt.part[p] # 0
          BY <2>1 DEF Ledger, ProgressInv, CompleteNeedsEveryPartUnlessAborted
        <5> QED
          BY <2>1, <4>1, <5>1, WholeAssembles DEF Ledger
      <4>3. Debt = 2 /\ Debt' \in {0, 1}
        BY <2>1, <3>3, <4>2 DEF Debt
      <4>4. Debt' + 1 <= Debt
        <5> DEFINE d == Debt
                   e == Debt'
        <5>1. d = 2 /\ e \in {0, 1}
          BY <4>3
        <5> HIDE DEF d, e
        <5>2. e + 1 <= d
          BY <5>1
        <5> QED
          BY <5>2 DEF d, e
      <4> QED
        BY <1>0, <2>3, <4>1, <4>4, DebtShrinks
    <3> QED
      BY <1>7, <3>1, <3>2, <3>3 DEF CompleteMultipartUpload, Return
  <2> QED
    BY <1>7, <2>2, <2>3 DEF CompleteMultipartUpload
<1>8. CASE NoSuchUpload
  <2>1. pc = "nosuch" /\ pc' = "idle" /\ fails' \in {0, fails + 1}
    BY <1>8 DEF NoSuchUpload, Return
  <2>2. CASE faults' = faults + 1
    BY <1>0, <2>1, <2>2, FaultPays
  <2>3. CASE faults' = faults
    <3>1. Debt' = 0
      <4>1. CASE EnableCheckpoint
        <5>1. ckptFile' = NoCheckpoint
          BY <1>0, <1>8, <2>3, <4>1 DEF NoSuchUpload, DeleteCheckpointFile
        <5> QED
          BY <2>1, <5>1, NoDebt
      <4>2. CASE ~EnableCheckpoint
        BY <2>1, <4>2 DEF Debt
      <4> QED
        BY <4>1, <4>2
    <3>2. Debt = 1
      BY <2>1 DEF Debt
    <3> QED
      BY <1>0, <2>1, <2>3, <3>1, <3>2, DebtShrinks
  <2> QED
    BY <1>8, <2>2, <2>3 DEF NoSuchUpload, DeleteCheckpointFile
<1>9. CASE Finish
  <2>1. pc = "completed" /\ pc' = "idle" /\ fails' \in {0, fails + 1}
    BY <1>9 DEF Finish, Return
  <2>2. CASE faults' = faults + 1
    BY <1>0, <2>1, <2>2, FaultPays
  <2>3. CASE faults' = faults
    <3>1. ckpt.part = object
      BY <2>1 DEF Ledger, Settled
    <3>2. ckptFile' = NoCheckpoint /\ fails' = 0
      BY <1>0, <1>9, <2>3, <3>1 DEF Finish, DeleteCheckpointFile, Return
    <3>3. Debt' = 0
      BY <2>1, <3>2, NoDebt
    <3> QED
      BY <1>0, <2>3, <3>2, <3>3, DebtShrinks
  <2> QED
    BY <1>9, <2>2, <2>3 DEF Finish, DeleteCheckpointFile
<1>10. ASSUME NEW w \in Workers, Launch(w) PROVE Paid'
  BY <1>0, <1>10, PaidWorker
<1> QED
  BY <1>1, <1>2, <1>3, <1>4, <1>5, <1>6, <1>7, <1>8, <1>9, <1>10 DEF Caller

LEMMA PaidStart ==
  ASSUME Ledger, StartUpload
  PROVE  Paid'
<1> USE DEF fileVars, serverVars, flagVars, workerVars, countVars, callVars
<1>0. /\ TypeOK /\ Clean /\ Paid /\ faults \in Nat /\ fails \in Nat
  BY DEF Ledger, Inv, TypeOK, StoreTypeOK, CallTypeOK
<1>1. /\ pc = "idle" /\ UNCHANGED <<fileVer, upload, cancel, fails>> /\ flags' = {}
      /\ \A w \in Workers : wpc'[w] = "off"
      /\ \/ /\ EnableCheckpoint /\ IsValid(ckptFile, fileVer)
            /\ ckpt' = ckptFile /\ pc' = "spawn" /\ faults' = faults
         \/ /\ ckpt' = NoCheckpoint /\ pc' = "create" /\ faults' \in {faults, faults + 1}
  BY <1>0 DEF StartUpload, FreshThreads, DeleteCheckpointFile
<1>2. CASE faults' = faults + 1
  BY <1>0, <1>1, <1>2, FaultPays
<1>3. CASE faults' = faults
  <2>1. ~Hit'
    BY <1>0, <1>1 DEF Hit, Clean
  <2>2. Lost' => Dead(ckpt)'
    BY <1>1 DEF Lost, isAbort
  <2>3. CASE pc' = "spawn"
    <3>1. Debt' <= Debt
      BY <1>1, <2>1, <2>2, <2>3 DEF Debt, Dead
    <3> QED
      BY <1>0, <1>1, <1>3, <3>1, DebtShrinks
  <2>4. CASE pc' = "create"
    <3>1. ~Lost'
      BY <1>1, <2>2, <2>4, NoCheckpointType DEF Dead
    <3>2. Debt' <= Debt
      BY <1>1, <2>1, <2>4, <3>1 DEF Debt
    <3> QED
      BY <1>0, <1>1, <1>3, <3>2, DebtShrinks
  <2> QED
    BY <1>1, <2>3, <2>4
<1> QED
  BY <1>0, <1>1, <1>2, <1>3

LEMMA PaidStep ==
  ASSUME CleanupOnNoSuchUpload, Ledger, [Next]_vars
  PROVE  Paid'
<1> USE DEF fileVars, serverVars, flagVars, workerVars, countVars, callVars
<1>0. TypeOK /\ Paid /\ Inv
  BY DEF Ledger, Inv
<1>1. CASE Cancel
  <2>1. UNCHANGED <<fileVer, ckptFile, upload, pc, ckpt, flags, wpc, wres, fails>>
    BY <1>1 DEF Cancel
  <2>2. CASE faults' = faults + 1
    BY <1>0, <2>1, <2>2, FaultPays
  <2>3. CASE faults' = faults /\ cancel = "calling"
    <3>1. (Hit' => Hit) /\ (Lost' => Lost)
      BY <2>1, <2>3 DEF Hit, Lost, isAbort, Dead
    <3>2. Debt' <= Debt
      BY <1>1, <2>1, <3>1 DEF Cancel, Debt
    <3> QED
      BY <1>0, <2>1, <2>3, <3>2, DebtShrinks
  <2> QED
    BY <1>1, <2>2, <2>3 DEF Cancel
<1>2. CASE Crash
  BY <1>0, <1>2, FaultPays DEF Crash, Return
<1>3. CASE CheckpointDamaged \/ UploadExpires
  BY <1>0, <1>3, FaultPays DEF CheckpointDamaged, UploadExpires
<1>4. CASE FileChanges
  <2>1. pc = "idle" /\ pc' = "idle" /\ fileVer' = fileVer + 1 /\ UNCHANGED <<ckptFile, fails, faults>>
    BY <1>4 DEF FileChanges
  <2>2. ~IsValid(ckptFile, fileVer)'
    <3>1. fileVer \in Int /\ ckptFile.ver \in Int /\ ckptFile.ver <= fileVer
      BY CheckpointFields DEF Ledger, Inv, TypeOK, StoreTypeOK, NotAhead
    <3> QED
      BY <2>1, <3>1 DEF IsValid
  <2>3. Debt' = 0 /\ Debt >= 0
    BY <2>1, <2>2, DebtRange DEF Debt
  <2> QED
    BY <1>0, <2>1, <2>3, DebtShrinks
<1>5. CASE UNCHANGED vars
  <2>1. Debt' = Debt
    BY <1>5 DEF vars, Debt, Hit, Lost, isAbort, Dead, IsValid
  <2> QED
    BY <1>0, <1>5, <2>1 DEF vars, Paid
<1>6. ASSUME NEW w \in Workers, Worker(w) PROVE Paid'
  BY <1>0, <1>6, PaidWorker
<1> QED
  BY <1>1, <1>2, <1>3, <1>4, <1>5, <1>6, PaidStart, PaidCaller DEF Next, Environment

\* Resuming never wedges: whatever fails or dies, and whatever expires on the server,
\* each fault costs at most two failures in a row, of the call it hits and of one
\* more that clears the checkpoint, if dumps see no half assignment and the caller
\* lets NoSuchUpload clean up.
THEOREM FailuresPaidAlways ==
  ASSUME ~TornReads, CleanupOnNoSuchUpload
  PROVE  Spec => []FailuresPaidByFaults
<1>1. Init => Ledger
  <2> SUFFICES ASSUME Init
               PROVE  Inv /\ ProgressInv /\ Clean /\ NoTorn /\ Settled /\ NotAhead /\ Paid
    BY DEF Ledger
  <2>1. Inv
    BY InitInv
  <2>2. ProgressInv
    BY DEF Init, ProgressInv, FreshCall, Claimed, DoneWhy, Launched,
       CompleteNeedsEveryPartUnlessAborted
  <2>3. Debt = 0
    BY NoCheckpointType DEF Init, Debt, IsValid
  <2>4. Paid /\ Settled /\ NotAhead
    BY <2>3, NoCheckpointType DEF Init, Paid, Settled, NotAhead
  <2> QED
    BY <2>1, <2>2, <2>4, CleanInit, NoTornInit
<1>2. Ledger /\ [Next]_vars => Ledger'
  <2> SUFFICES ASSUME Ledger, [Next]_vars PROVE Ledger'
    OBVIOUS
  <2>1. Inv'
    BY InvStep DEF Ledger
  <2>2. ProgressInv' /\ Clean' /\ NoTorn' /\ Settled' /\ NotAhead'
    BY ProgressStep, CleanStep, NoTornStep, SettledStep, NotAheadStep DEF Ledger
  <2>3. Paid'
    BY PaidStep
  <2> QED
    BY <2>1, <2>2, <2>3 DEF Ledger
<1>3. Ledger => FailuresPaidByFaults
  <2> SUFFICES ASSUME Ledger PROVE fails <= 2 * faults
    BY DEF FailuresPaidByFaults
  <2>1. fails \in Nat /\ faults \in Nat
    BY DEF Ledger, Inv, TypeOK, StoreTypeOK, CallTypeOK
  <2> DEFINE d == Debt
  <2>2. d \in 0..2 /\ fails + d <= 2 * faults
    BY DebtRange DEF Ledger, Paid
  <2> HIDE DEF d
  <2> QED
    BY <2>1, <2>2
<1> QED
  BY <1>1, <1>2, <1>3, PTL DEF Spec
=============================================================================
