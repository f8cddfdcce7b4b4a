-------------------------- MODULE UploadFileProofs --------------------------
(***************************************************************************)
(* Proofs about UploadFile, for every number of parts, workers, calls and  *)
(* faults.                                                                 *)
(***************************************************************************)
EXTENDS UploadFile, TLAPS

USE ConstantsAssumption DEF ConstantsAssumption, Parts, UploadIds, Versions, NoData,
    Torn, PartRecords, PartErrors, Results, Holding, Fault, NoFault, Record, Raise,
    IsCancel, NotCancel

-----------------------------------------------------------------------------
(* Checkpoints                                                             *)

LEMMA CheckpointFields ==
  ASSUME NEW c \in Checkpoints
  PROVE  c.id \in 0..MaxRuns /\ c.ver \in Versions /\ c.part \in [Parts -> PartRecords]
BY DEF Checkpoints

\* Changing the parts of a checkpoint changes nothing else.
LEMMA CheckpointUpdate ==
  ASSUME NEW c \in Checkpoints, NEW f \in [Parts -> PartRecords]
  PROVE  LET d == [c EXCEPT !.part = f]
         IN  d \in Checkpoints /\ d.id = c.id /\ d.ver = c.ver /\ d.part = f
BY DEF Checkpoints

LEMMA NoCheckpointType ==
  NoCheckpoint \in Checkpoints /\ NoCheckpoint.id = 0 /\ NoCheckpoint.ver = 0
BY DEF Checkpoints, NoCheckpoint

\* What a dump writes: of every part, the record in memory, none, or half of one.
LEMMA DumpFields ==
  ASSUME TypeOK, NEW w \in Workers, Dump(w)
  PROVE  /\ ckptFile' \in Checkpoints /\ ckptFile'.id = ckpt.id /\ ckptFile'.ver = ckpt.ver
         /\ \A p \in Parts : \/ ckptFile'.part[p] \in {0, ckpt.part[p]}
                             \/ ckptFile'.part[p] = Torn /\ p \in PartsOf("setting")
<1>1. PICK missed \in SUBSET (PartsOf("notify") \ {wpart[w]}),
           torn \in SUBSET (IF TornReads THEN PartsOf("setting") ELSE {}) :
         ckptFile' = [ckpt EXCEPT !.part = [p \in Parts |-> IF p \in missed THEN 0
                                                    ELSE IF p \in torn THEN Torn ELSE @[p]]]
  BY DEF Dump
<1> DEFINE f == [p \in Parts |-> IF p \in missed THEN 0
                                 ELSE IF p \in torn THEN Torn ELSE ckpt.part[p]]
<1>2. ckpt \in Checkpoints
  BY DEF TypeOK, CallTypeOK
<1>3. f \in [Parts -> PartRecords]
  BY <1>2, CheckpointFields
<1>4. ckptFile' = [ckpt EXCEPT !.part = f]
  BY <1>1
<1>5. /\ ckptFile' \in Checkpoints /\ ckptFile'.part = f
      /\ ckptFile'.id = ckpt.id /\ ckptFile'.ver = ckpt.ver
  BY <1>2, <1>3, <1>4, CheckpointUpdate
<1>6. torn \subseteq PartsOf("setting")
  OBVIOUS
<1> QED
  BY <1>5, <1>6

-----------------------------------------------------------------------------
(* Type correctness                                                        *)

\* A call that returns leaves its variables as a call finds them.
LEMMA ReturnType ==
  ASSUME TypeOK, NEW r \in Results, Return(r)
  PROVE  CallTypeOK' /\ WorkerTypeOK' /\ UNCHANGED fileVer
<1>1. CallTypeOK'
  BY NoCheckpointType DEF TypeOK, CallTypeOK, Return, FreshThreads
<1>2. WorkerTypeOK'
  BY DEF Return, FreshThreads, WorkerTypeOK
<1> QED
  BY <1>1, <1>2 DEF Return

\* A worker's step to a state in which it holds no part, or the one it held.
LEMMA WorkerStepType ==
  ASSUME WorkerTypeOK, NEW w \in Workers, NEW s \in {"off", "loop", "done"} \cup Holding,
         wpc' = [wpc EXCEPT ![w] = s], UNCHANGED wpart,
         s \in Holding => wpc[w] \in Holding,
         \/ UNCHANGED wres
         \/ \E e \in {"ok", "retryable", "fatal"} : wres' = [wres EXCEPT ![w] = e]
  PROVE  WorkerTypeOK'
BY DEF WorkerTypeOK

LEMMA DeleteType ==
  ASSUME StoreTypeOK, DeleteCheckpointFile
  PROVE  ckptFile' \in Checkpoints /\ faults' \in 0..MaxFaults
BY NoCheckpointType DEF StoreTypeOK, DeleteCheckpointFile

\* Steps of the environment do not touch the call.
LEMMA CallUnchangedType ==
  ASSUME TypeOK, UNCHANGED <<pc, callVars>>
  PROVE  CallTypeOK' /\ WorkerTypeOK'
<1>1. UNCHANGED <<pc, ver, ckpt, front, flags, firstError, cancel, wpc, wpart, wres, result, runs, fails>>
  BY DEF callVars, flagVars, workerVars, countVars
<1>2. CallTypeOK'
  BY <1>1 DEF TypeOK, CallTypeOK
<1>3. WorkerTypeOK'
  BY <1>1 DEF TypeOK, WorkerTypeOK
<1> QED
  BY <1>2, <1>3

LEMMA InitType == Init => TypeOK
BY NoCheckpointType DEF Init, TypeOK, StoreTypeOK, CallTypeOK, WorkerTypeOK

LEMMA TypeStep == TypeOK /\ [Next]_vars => TypeOK'
<1> USE DEF fileVars, serverVars, flagVars, workerVars, countVars, callVars, vars
<1>2. ASSUME TypeOK, [Next]_vars PROVE TypeOK'
  <2>0. StoreTypeOK /\ CallTypeOK /\ WorkerTypeOK
    BY <1>2 DEF TypeOK
  <2> SUFFICES StoreTypeOK' /\ CallTypeOK' /\ WorkerTypeOK'
    BY DEF TypeOK
  <2>1. CASE StartUpload
    <3>1. StoreTypeOK'
      BY <2>0, <2>1, DeleteType DEF StartUpload, StoreTypeOK
    <3>2. WorkerTypeOK'
      BY <2>1 DEF StartUpload, FreshThreads, WorkerTypeOK
    <3>3. ckpt' \in Checkpoints /\ pc' \in {"create", "spawn"}
      BY <2>0, <2>1, NoCheckpointType DEF StartUpload, StoreTypeOK
    <3>4. pc' = "spawn" => ckpt'.id \in UploadIds
      BY <2>0, <2>1, CheckpointFields DEF StartUpload, StoreTypeOK, IsValid
    <3>5. CallTypeOK'
      BY <2>0, <2>1, <3>3, <3>4 DEF StartUpload, StoreTypeOK, CallTypeOK, FreshThreads
    <3> QED
      BY <3>1, <3>2, <3>5
  <2>2. CASE CreateMultipartUpload
    <3>1. CASE Return("init")
      <4>1. CallTypeOK' /\ WorkerTypeOK' /\ UNCHANGED fileVer
        BY <1>2, <3>1, ReturnType
      <4>2. upload' \in [UploadIds -> {"none", "open", "completed", "aborted"}]
        BY <2>0, <2>2 DEF CreateMultipartUpload, StoreTypeOK
      <4>3. UNCHANGED <<ckptFile, stored, object>> /\ faults' \in 0..MaxFaults
        BY <2>0, <2>2 DEF CreateMultipartUpload, StoreTypeOK
      <4> QED
        BY <2>0, <4>1, <4>2, <4>3 DEF StoreTypeOK
    <3>2. CASE ~Return("init")
      <4>1. ckpt' \in Checkpoints /\ ckpt'.id = runs /\ pc' = "spawn"
        BY <2>0, <2>2, <3>2 DEF CreateMultipartUpload, CallTypeOK, Checkpoints
      <4>2. StoreTypeOK'
        BY <2>0, <2>2, <3>2 DEF CreateMultipartUpload, StoreTypeOK
      <4>3. CallTypeOK'
        BY <2>0, <2>2, <3>2, <4>1 DEF CreateMultipartUpload, CallTypeOK
      <4>4. WorkerTypeOK'
        BY <2>0, <2>2, <3>2 DEF CreateMultipartUpload, WorkerTypeOK
      <4> QED
        BY <4>2, <4>3, <4>4
    <3> QED
      BY <3>1, <3>2
  <2>3. CASE LaunchFails
    BY <2>0, <2>3, NoCheckpointType
    DEF LaunchFails, StoreTypeOK, CallTypeOK, WorkerTypeOK, FreshThreads, DeleteCheckpointFile
  <2>4. CASE LaunchDone
    BY <2>0, <2>4, NoCheckpointType
    DEF LaunchDone, StoreTypeOK, CallTypeOK, WorkerTypeOK, FreshThreads, DeleteCheckpointFile
  <2>5. CASE Join
    <3>1. CASE \E r \in Results : Return(r)
      <4>1. CallTypeOK' /\ WorkerTypeOK' /\ UNCHANGED fileVer
        BY <1>2, <3>1, ReturnType
      <4> QED
        BY <2>0, <2>5, <4>1 DEF Join, StoreTypeOK
    <3>2. CASE /\ pc' \in {"abort", "complete"}
               /\ UNCHANGED <<fileVer, ver, ckpt, front, flagVars, workerVars, result, countVars>>
      <4>1. cancel' \in {"no", "pause", "calling", "abort"} /\ UNCHANGED <<ckptFile, serverVars, faults>>
        BY <2>0, <2>5, <3>2 DEF Join, Return, CallTypeOK
      <4> QED
        BY <2>0, <2>5, <3>2, <4>1 DEF Join, StoreTypeOK, CallTypeOK, WorkerTypeOK
    <3> QED
      BY <2>0, <2>5, <3>1, <3>2 DEF Join, CallTypeOK
  <2>6. CASE AbortMultipartUpload
    <3>1. upload' \in [UploadIds -> {"none", "open", "completed", "aborted"}]
      <4>1. CASE UNCHANGED upload
        BY <2>0, <4>1 DEF StoreTypeOK
      <4>2. CASE \E s \in {"none", "open", "completed", "aborted"} :
                   upload' = [upload EXCEPT ![ckpt.id] = s]
        BY <2>0, <4>2 DEF StoreTypeOK
      <4>3. CASE ckpt.id \notin UploadIds
        BY <2>0, <2>6, <4>3 DEF AbortMultipartUpload, StoreTypeOK
      <4> QED
        BY <2>0, <2>6, <4>1, <4>2, <4>3 DEF AbortMultipartUpload, StoreTypeOK
    <3>2. UNCHANGED <<fileVars, stored, object, callVars>> /\ pc' = "abortDelete"
          /\ faults' \in 0..MaxFaults
      BY <2>0, <2>6 DEF AbortMultipartUpload, StoreTypeOK
    <3> QED
      BY <2>0, <2>6, <3>1, <3>2
      DEF AbortMultipartUpload, StoreTypeOK, CallTypeOK, WorkerTypeOK
  <2>7. CASE AbortDelete
    <3>1. PICK r \in Results : Return(r)
      BY <2>0, <2>7 DEF AbortDelete, CallTypeOK
    <3>2. CallTypeOK' /\ WorkerTypeOK' /\ UNCHANGED fileVer
      BY <1>2, <3>1, ReturnType
    <3> QED
      BY <2>0, <2>7, <3>2, DeleteType DEF AbortDelete, StoreTypeOK
  <2>8. CASE CompleteMultipartUpload
    <3>1. StoreTypeOK'
      <4>1. object' \in [Parts -> Versions]
        <5>1. CASE UNCHANGED object
          BY <2>0, <5>1 DEF StoreTypeOK
        <5>2. CASE Assembles /\ object' = stored[ckpt.id]
          BY <2>0, <2>8, <5>2 DEF CompleteMultipartUpload, StoreTypeOK, CallTypeOK, Checkpoints
        <5> QED
          BY <2>8, <5>1, <5>2 DEF CompleteMultipartUpload
      <4>2. upload' \in [UploadIds -> {"none", "open", "completed", "aborted"}]
        BY <2>0, <2>8 DEF CompleteMultipartUpload, StoreTypeOK
      <4>3. UNCHANGED <<fileVer, ckptFile, stored>> /\ faults' \in 0..MaxFaults
        BY <2>0, <2>8 DEF CompleteMultipartUpload, StoreTypeOK, Return
      <4> QED
        BY <2>0, <4>1, <4>2, <4>3 DEF StoreTypeOK
    <3>2. CASE Return("complete")
      BY <1>2, <3>1, <3>2, ReturnType
    <3>3. CASE UNCHANGED callVars /\ pc' \in {"completed", "nosuch"}
      BY <2>0, <2>8, <3>1, <3>3 DEF CompleteMultipartUpload, CallTypeOK, WorkerTypeOK
    <3> QED
      BY <2>8, <3>2, <3>3 DEF CompleteMultipartUpload
  <2>9. CASE NoSuchUpload
    <3>1. PICK r \in Results : Return(r)
      BY <2>0, <2>9 DEF NoSuchUpload, CallTypeOK
    <3>2. CallTypeOK' /\ WorkerTypeOK' /\ UNCHANGED fileVer
      BY <1>2, <3>1, ReturnType
    <3>3. ckptFile' \in Checkpoints /\ faults' \in 0..MaxFaults
      <4>1. CASE DeleteCheckpointFile
        BY <2>0, <4>1, DeleteType
      <4>2. CASE UNCHANGED ckptFile /\ (Fault \/ UNCHANGED faults)
        BY <2>0, <4>2 DEF StoreTypeOK
      <4> QED
        BY <2>9, <4>1, <4>2 DEF NoSuchUpload
    <3>4. UNCHANGED serverVars
      BY <2>9 DEF NoSuchUpload
    <3> QED
      BY <2>0, <3>2, <3>3, <3>4 DEF StoreTypeOK
  <2>10. CASE Finish
    <3>1. PICK r \in Results : Return(r)
      BY <2>0, <2>10 DEF Finish, CallTypeOK
    <3>2. CallTypeOK' /\ WorkerTypeOK' /\ UNCHANGED fileVer
      BY <1>2, <3>1, ReturnType
    <3>3. ckptFile' \in Checkpoints /\ faults' \in 0..MaxFaults
      <4>1. CASE DeleteCheckpointFile
        BY <2>0, <4>1, DeleteType
      <4>2. CASE UNCHANGED ckptFile /\ Fault
        BY <2>0, <4>2 DEF StoreTypeOK
      <4> QED
        BY <2>10, <4>1, <4>2 DEF Finish
    <3>4. UNCHANGED serverVars
      BY <2>10 DEF Finish
    <3> QED
      BY <2>0, <3>2, <3>3, <3>4 DEF StoreTypeOK
  <2>11. CASE Cancel
    BY <2>0, <2>11, NoCheckpointType
    DEF Cancel, StoreTypeOK, CallTypeOK, WorkerTypeOK, FreshThreads, DeleteCheckpointFile
  <2>12. CASE Crash
    <3>1. PICK r \in Results : Return(r)
      BY <2>0, <2>12 DEF Crash, CallTypeOK
    <3>2. CallTypeOK' /\ WorkerTypeOK' /\ UNCHANGED fileVer
      BY <1>2, <3>1, ReturnType
    <3> QED
      BY <2>0, <2>12, <3>2, DeleteType DEF Crash, StoreTypeOK
  <2>13. CASE FileChanges
    <3>1. StoreTypeOK'
      BY <2>0, <2>13 DEF FileChanges, StoreTypeOK
    <3> QED
      BY <1>2, <2>13, <3>1, CallUnchangedType DEF FileChanges
  <2>14. CASE CheckpointDamaged
    <3>1. StoreTypeOK'
      BY <2>0, <2>14, NoCheckpointType DEF CheckpointDamaged, StoreTypeOK
    <3> QED
      BY <1>2, <2>14, <3>1, CallUnchangedType DEF CheckpointDamaged
  <2>15. CASE UploadExpires
    <3>1. upload' \in [UploadIds -> {"none", "open", "completed", "aborted"}]
      BY <2>0, <2>15 DEF UploadExpires, StoreTypeOK
    <3>2. UNCHANGED <<fileVars, stored, object, pc, callVars>> /\ faults' \in 0..MaxFaults
      BY <2>0, <2>15 DEF UploadExpires, StoreTypeOK
    <3>3. StoreTypeOK'
      BY <2>0, <3>1, <3>2 DEF StoreTypeOK
    <3> QED
      BY <1>2, <3>2, <3>3, CallUnchangedType
  <2>16. ASSUME NEW w \in Workers, Launch(w) PROVE StoreTypeOK' /\ CallTypeOK' /\ WorkerTypeOK'
    <3>1. StoreTypeOK'
      BY <2>0, <2>16 DEF Launch, StoreTypeOK
    <3>2. CallTypeOK'
      BY <2>0, <2>16 DEF Launch, CallTypeOK
    <3>3. WorkerTypeOK'
      BY <2>0, <2>16, WorkerStepType DEF Launch
    <3> QED
      BY <3>1, <3>2, <3>3
  <2>17. ASSUME NEW w \in Workers, TakePart(w) PROVE StoreTypeOK' /\ CallTypeOK' /\ WorkerTypeOK'
    <3>1. StoreTypeOK'
      BY <2>0, <2>17 DEF TakePart, StoreTypeOK
    <3>2. CallTypeOK'
      BY <2>0, <2>17 DEF TakePart, CallTypeOK
    <3>3. WorkerTypeOK'
      <4>1. CASE UNCHANGED <<wpc, wpart, wres>>
        BY <2>0, <4>1 DEF WorkerTypeOK
      <4>3. CASE wpc' = [wpc EXCEPT ![w] = "done"] /\ UNCHANGED <<wpart, wres>>
        BY <2>0, <4>3, WorkerStepType
      <4>2. CASE /\ front \in Parts /\ UNCHANGED wres
                 /\ wpc' = [wpc EXCEPT ![w] = "upload"] /\ wpart' = [wpart EXCEPT ![w] = front]
        BY <2>0, <4>2 DEF WorkerTypeOK
      <4> QED
        BY <2>0, <2>17, <4>1, <4>2, <4>3 DEF TakePart, CallTypeOK
    <3> QED
      BY <3>1, <3>2, <3>3
  <2>18. ASSUME NEW w \in Workers, UploadPart(w) PROVE StoreTypeOK' /\ CallTypeOK' /\ WorkerTypeOK'
    <3>1. StoreTypeOK'
      <4>1. stored' \in [UploadIds -> [Parts -> Versions]]
        <5>1. CASE UNCHANGED stored
          BY <2>0, <5>1 DEF StoreTypeOK
        <5>2. CASE stored' = [stored EXCEPT ![ckpt.id][wpart[w]] = fileVer]
          <6> DEFINE row == [stored[ckpt.id] EXCEPT ![wpart[w]] = fileVer]
          <6>1. CASE ckpt.id \in UploadIds
            <7>1. row \in [Parts -> Versions]
              <8>1. stored[ckpt.id] \in [Parts -> Versions] /\ fileVer \in Versions
                BY <2>0, <6>1 DEF StoreTypeOK
              <8> QED
                BY <8>1
            <7>2. stored' = [stored EXCEPT ![ckpt.id] = row]
              BY <5>2
            <7> QED
              BY <2>0, <7>1, <7>2 DEF StoreTypeOK
          <6>2. CASE ckpt.id \notin UploadIds
            BY <2>0, <5>2, <6>2 DEF StoreTypeOK
          <6> QED
            BY <6>1, <6>2
        <5> QED
          BY <2>18, <5>1, <5>2 DEF UploadPart
      <4> QED
        <5>1. UNCHANGED <<fileVars, upload, object>> /\ faults' \in 0..MaxFaults
          BY <2>0, <2>18 DEF UploadPart, StoreTypeOK
        <5> QED
          BY <2>0, <4>1, <5>1 DEF StoreTypeOK
    <3>2. CallTypeOK'
      BY <2>0, <2>18 DEF UploadPart, CallTypeOK
    <3>3. WorkerTypeOK'
      BY <2>0, <2>18, WorkerStepType DEF UploadPart
    <3> QED
      BY <3>1, <3>2, <3>3
  <2>19. ASSUME NEW w \in Workers, UploadPartThrows(w) PROVE StoreTypeOK' /\ CallTypeOK' /\ WorkerTypeOK'
    <3>1. StoreTypeOK'
      BY <2>0, <2>19 DEF UploadPartThrows, StoreTypeOK
    <3>2. CallTypeOK'
      BY <2>0, <2>19 DEF UploadPartThrows, CallTypeOK
    <3>3. WorkerTypeOK'
      BY <2>0, <2>19, WorkerStepType DEF UploadPartThrows
    <3> QED
      BY <3>1, <3>2, <3>3
  <2>20. ASSUME NEW w \in Workers, StopAfterUpload(w) PROVE StoreTypeOK' /\ CallTypeOK' /\ WorkerTypeOK'
    <3>1. StoreTypeOK'
      BY <2>0, <2>20 DEF StopAfterUpload, StoreTypeOK
    <3>2. CallTypeOK'
      BY <2>0, <2>20 DEF StopAfterUpload, CallTypeOK
    <3>3. WorkerTypeOK'
      BY <2>0, <2>20, WorkerStepType DEF StopAfterUpload
    <3> QED
      BY <3>1, <3>2, <3>3
  <2>21. ASSUME NEW w \in Workers, BeginSetPart(w) PROVE StoreTypeOK' /\ CallTypeOK' /\ WorkerTypeOK'
    <3>1. StoreTypeOK'
      BY <2>0, <2>21 DEF BeginSetPart, StoreTypeOK
    <3>2. CallTypeOK'
      BY <2>0, <2>21 DEF BeginSetPart, CallTypeOK
    <3>3. WorkerTypeOK'
      BY <2>0, <2>21, WorkerStepType DEF BeginSetPart
    <3> QED
      BY <3>1, <3>2, <3>3
  <2>22. ASSUME NEW w \in Workers, SetPart(w) PROVE StoreTypeOK' /\ CallTypeOK' /\ WorkerTypeOK'
    <3>1. StoreTypeOK'
      BY <2>0, <2>22 DEF SetPart, StoreTypeOK
    <3>2. CallTypeOK'
      <4>1. ckpt \in Checkpoints /\ wpart[w] \in Parts /\ fileVer \in PartRecords
        BY <2>0, <2>22 DEF SetPart, StoreTypeOK, CallTypeOK, WorkerTypeOK
      <4>2. [ckpt.part EXCEPT ![wpart[w]] = fileVer] \in [Parts -> PartRecords]
        BY <4>1, CheckpointFields
      <4>3. ckpt' = [ckpt EXCEPT !.part = [ckpt.part EXCEPT ![wpart[w]] = fileVer]]
        BY <2>22 DEF SetPart
      <4>4. ckpt' \in Checkpoints
        BY <4>1, <4>2, <4>3, CheckpointUpdate
      <4> QED
        BY <2>0, <2>22, <4>4 DEF SetPart, CallTypeOK
    <3>3. WorkerTypeOK'
      BY <2>0, <2>22, WorkerStepType DEF SetPart
    <3> QED
      BY <3>1, <3>2, <3>3
  <2>23. ASSUME NEW w \in Workers, PartSucceeded(w) PROVE StoreTypeOK' /\ CallTypeOK' /\ WorkerTypeOK'
    <3>1. StoreTypeOK'
      <4>1. ckptFile' \in Checkpoints
        <5>1. CASE Dump(w)
          BY <1>2, <5>1, DumpFields
        <5>2. CASE UNCHANGED ckptFile
          BY <2>0, <5>2 DEF StoreTypeOK
        <5> QED
          BY <2>23, <5>1, <5>2 DEF PartSucceeded
      <4>2. UNCHANGED <<fileVer, serverVars>> /\ (Fault \/ NoFault)
        BY <2>23 DEF PartSucceeded
      <4>3. faults' \in 0..MaxFaults
        BY <2>0, <4>2 DEF StoreTypeOK
      <4>4. UNCHANGED <<fileVer, upload, stored, object>>
        BY <4>2
      <4> QED
        BY <2>0, <4>1, <4>3, <4>4 DEF StoreTypeOK
    <3>2. CallTypeOK'
      <4>1. UNCHANGED <<pc, ver, ckpt, front, cancel, result, countVars>>
        BY <2>23 DEF PartSucceeded
      <4>2. flags' \subseteq {"abort", "failed"} /\ firstError' \in PartErrors \cup {"none"}
        BY <2>0, <2>23 DEF PartSucceeded, CallTypeOK
      <4>3. UNCHANGED <<runs, fails>>
        BY <4>1
      <4> QED
        BY <2>0, <4>1, <4>2, <4>3 DEF CallTypeOK
    <3>3. WorkerTypeOK'
      BY <2>0, <2>23, WorkerStepType DEF PartSucceeded
    <3> QED
      BY <3>1, <3>2, <3>3
  <2>24. ASSUME NEW w \in Workers, PartAborted(w) PROVE StoreTypeOK' /\ CallTypeOK' /\ WorkerTypeOK'
    <3>1. StoreTypeOK'
      <4>1. UNCHANGED <<fileVer, ckptFile, upload, stored, object>> /\ (Fault \/ NoFault)
        BY <2>24 DEF PartAborted
      <4>2. faults' \in 0..MaxFaults
        BY <2>0, <4>1 DEF StoreTypeOK
      <4> QED
        BY <2>0, <4>1, <4>2 DEF StoreTypeOK
    <3>2. CallTypeOK'
      BY <2>0, <2>24 DEF PartAborted, CallTypeOK
    <3>3. WorkerTypeOK'
      BY <2>0, <2>24, WorkerStepType DEF PartAborted
    <3> QED
      BY <3>1, <3>2, <3>3
  <2>25. ASSUME NEW w \in Workers, PartFailed(w) PROVE StoreTypeOK' /\ CallTypeOK' /\ WorkerTypeOK'
    <3>1. StoreTypeOK'
      <4>1. UNCHANGED <<fileVars, serverVars>> /\ faults' \in 0..MaxFaults
        BY <2>0, <2>25 DEF PartFailed, StoreTypeOK
      <4> QED
        BY <2>0, <4>1 DEF StoreTypeOK
    <3>2. CallTypeOK'
      BY <2>0, <2>25 DEF PartFailed, CallTypeOK
    <3>3. WorkerTypeOK'
      BY <2>0, <2>25, WorkerStepType DEF PartFailed
    <3> QED
      BY <3>1, <3>2, <3>3
  <2>26. CASE UNCHANGED vars
    <3>1. StoreTypeOK'
      BY <2>0, <2>26 DEF StoreTypeOK
    <3> QED
      BY <1>2, <2>26, <3>1, CallUnchangedType
  <2> QED
    BY <1>2, <2>1, <2>2, <2>3, <2>4, <2>5, <2>6, <2>7, <2>8, <2>9, <2>10, <2>11, <2>12, <2>13,
       <2>14, <2>15, <2>16, <2>17, <2>18, <2>19, <2>20, <2>21, <2>22, <2>23, <2>24, <2>25, <2>26
    DEF Next, Caller, Environment, Worker
<1> QED
  BY <1>2

\* Every variable keeps its type, and a worker that holds a part holds one of
\* the file's.
THEOREM TypeCorrect == Spec => []TypeOK
BY InitType, TypeStep, PTL DEF Spec

-----------------------------------------------------------------------------
(* What the server, the checkpoint file and the memory of a call agree on. *)
(*                                                                         *)
(* CheckpointSound alone is not inductive: a dump writes the memory, the   *)
(* memory is filled from answers, and an upload is reused by later calls,  *)
(* so each of these must already agree with what the server holds.         *)

\* Every part an upload holds is of the version its checkpoint stands for.
OneVersion(c) == c.id # 0 => \A p \in Parts : stored[c.id][p] \in {0, c.ver}

\* Every part a checkpoint calls completed is on the server.
Vouched(c) ==
  c.id # 0 => \A p \in Parts : c.part[p] # 0 =>
                /\ stored[c.id][p] = c.ver
                /\ c.part[p] \in {Torn, c.ver}

Running == pc \notin {"idle", "create"}

\* The uploads of calls to come hold nothing, and no checkpoint names them.
Fresh ==
  /\ \A u \in UploadIds : u > runs \/ (u = runs /\ pc = "create") => stored[u] = NoData
  /\ ckptFile.id <= runs
  /\ pc = "create" => ckptFile.id < runs

\* A call works for the file as it is, and with one upload.
OneUpload ==
  /\ pc # "idle" => ver = fileVer
  /\ Running => /\ ckpt.id \in 1..runs /\ ckpt.ver = fileVer
                /\ ckptFile.id = ckpt.id => ckptFile.ver = fileVer
  /\ ~Running => ckpt = NoCheckpoint

DataInv ==
  /\ Fresh /\ OneUpload
  /\ OneVersion(ckpt) /\ OneVersion(ckptFile)
  /\ Vouched(ckpt) /\ Vouched(ckptFile)

\* An answer a worker is about to record is for a part the server holds.
Answered ==
  \A w \in Workers :
    \/ wpc[w] = "answered" /\ wres[w] = "ok"
    \/ wpc[w] = "setting"
    => stored[ckpt.id][wpart[w]] = fileVer

\* A flag is only raised with an error recorded.
Recorded == flags # {} => firstError # "none"

Published == pc = "completed" => object = [p \in Parts |-> fileVer]

Inv == TypeOK /\ DataInv /\ WorkersQuietAfterJoin /\ Answered /\ Recorded /\ Published

\* Steps that leave the files, the server's parts and the memory alone.
LEMMA DataFrame ==
  ASSUME DataInv, UNCHANGED <<fileVer, ckptFile, stored, ver, ckpt, runs>>,
         Running, Running'
  PROVE  DataInv'
BY DEF DataInv, Fresh, OneUpload, OneVersion, Vouched, Running

\* A call returns: the checkpoint file stays as it is or goes.
LEMMA DataReturn ==
  ASSUME TypeOK, DataInv, NEW r, Return(r), UNCHANGED stored, pc # "idle",
         ckptFile' = ckptFile \/ ckptFile' = NoCheckpoint
  PROVE  DataInv'
<1>1. UNCHANGED <<fileVer, ver, runs>> /\ pc' = "idle" /\ ckpt' = NoCheckpoint
  BY DEF Return
<1>2. Fresh'
  BY <1>1, NoCheckpointType DEF DataInv, Fresh, TypeOK, CallTypeOK
<1>3. OneUpload'
  BY <1>1 DEF OneUpload, Running
<1>4. OneVersion(ckpt)' /\ Vouched(ckpt)'
  BY <1>1, NoCheckpointType DEF OneVersion, Vouched
<1>5. OneVersion(ckptFile)' /\ Vouched(ckptFile)'
  BY NoCheckpointType DEF DataInv, OneVersion, Vouched
<1> QED
  BY <1>2, <1>3, <1>4, <1>5 DEF DataInv

LEMMA DataStep == Inv /\ [Next]_vars => DataInv'
<1> SUFFICES ASSUME Inv, [Next]_vars PROVE DataInv'
  OBVIOUS
<1> USE DEF fileVars, serverVars, flagVars, workerVars, countVars, callVars, vars
<1>0. TypeOK /\ StoreTypeOK /\ CallTypeOK /\ WorkerTypeOK /\ DataInv
  BY DEF Inv, TypeOK
<1>1. CASE StartUpload
  <2>1. ckptFile' = ckptFile \/ ckptFile' = NoCheckpoint
    BY <1>1 DEF StartUpload, DeleteCheckpointFile
  <2>2. pc = "idle" /\ UNCHANGED <<fileVer, stored>> /\ runs' = runs + 1 /\ ver' = fileVer
    BY <1>1 DEF StartUpload
  <2>3. \/ pc' = "create" /\ ckpt' = NoCheckpoint
        \/ /\ pc' = "spawn" /\ ckpt' = ckptFile /\ UNCHANGED ckptFile
           /\ ckptFile.id # 0 /\ ckptFile.ver = fileVer
    BY <1>1 DEF StartUpload, IsValid
  <2>4. ckptFile.id \in 0..runs /\ runs \in Nat
    BY <1>0, CheckpointFields DEF DataInv, Fresh, StoreTypeOK, CallTypeOK
  <2>5. Fresh'
    BY <1>0, <2>1, <2>2, <2>3, <2>4, NoCheckpointType DEF DataInv, Fresh
  <2>6. OneUpload'
    BY <1>0, <2>2, <2>3, <2>4 DEF OneUpload, Running
  <2>7. OneVersion(ckpt)' /\ Vouched(ckpt)'
    BY <1>0, <2>2, <2>3, NoCheckpointType DEF DataInv, OneVersion, Vouched
  <2>8. OneVersion(ckptFile)' /\ Vouched(ckptFile)'
    BY <1>0, <2>1, <2>2, NoCheckpointType DEF DataInv, OneVersion, Vouched
  <2> QED
    BY <2>5, <2>6, <2>7, <2>8 DEF DataInv
<1>2. CASE CreateMultipartUpload
  <2>1. CASE Return("init")
    BY <1>0, <1>2, <2>1, DataReturn DEF CreateMultipartUpload
  <2>2. CASE ~Return("init")
    <3>1. /\ pc = "create" /\ pc' = "spawn"
          /\ ckpt' = [id |-> runs, ver |-> ver, part |-> NoData]
          /\ UNCHANGED <<fileVer, ckptFile, stored, ver, runs>>
      BY <1>2, <2>2 DEF CreateMultipartUpload
    <3>2. /\ ckpt'.id = runs /\ ckpt'.ver = fileVer /\ runs \in UploadIds
          /\ ckptFile.id < runs /\ stored[runs] = NoData
          /\ \A q \in Parts : ckpt'.part[q] = 0
      BY <1>0, <3>1 DEF DataInv, Fresh, OneUpload, CallTypeOK
    <3>3. Fresh'
      BY <1>0, <3>1 DEF DataInv, Fresh
    <3>4. OneUpload'
      BY <1>0, <3>1, <3>2, CheckpointFields DEF DataInv, OneUpload, Running, StoreTypeOK
    <3>5. OneVersion(ckpt)' /\ Vouched(ckpt)'
      BY <3>1, <3>2 DEF OneVersion, Vouched
    <3>6. OneVersion(ckptFile)' /\ Vouched(ckptFile)'
      BY <1>0, <3>1 DEF DataInv, OneVersion, Vouched
    <3> QED
      BY <3>3, <3>4, <3>5, <3>6 DEF DataInv
  <2> QED
    BY <2>1, <2>2
<1>3. CASE Join \/ CompleteMultipartUpload
  <2>1. CASE \E r \in Results : Return(r)
    BY <1>0, <1>3, <2>1, DataReturn DEF Join, CompleteMultipartUpload
  <2>2. CASE pc' # "idle"
    BY <1>0, <1>3, <2>2, DataFrame DEF Join, CompleteMultipartUpload, Return, Running
  <2> QED
    BY <1>0, <1>3, <2>1, <2>2 DEF Join, CompleteMultipartUpload, Return, CallTypeOK
<1>4. CASE AbortDelete \/ NoSuchUpload \/ Finish \/ Crash
  <2>1. ckptFile' = ckptFile \/ ckptFile' = NoCheckpoint
    BY <1>4 DEF AbortDelete, NoSuchUpload, Finish, Crash, DeleteCheckpointFile
  <2>2. PICK r : Return(r)
    BY <1>4 DEF AbortDelete, NoSuchUpload, Finish, Crash
  <2>3. UNCHANGED stored /\ pc # "idle"
    BY <1>4 DEF AbortDelete, NoSuchUpload, Finish, Crash
  <2> QED
    BY <1>0, <2>1, <2>2, <2>3, DataReturn
<1>5. CASE LaunchFails \/ LaunchDone \/ AbortMultipartUpload
  BY <1>0, <1>5, DataFrame DEF LaunchFails, LaunchDone, AbortMultipartUpload, Running
<1>6. CASE Cancel \/ UploadExpires \/ UNCHANGED vars
  BY <1>0, <1>6 DEF Cancel, UploadExpires, DataInv, Fresh, OneUpload, OneVersion, Vouched, Running
<1>7. CASE FileChanges
  <2>1. pc = "idle" /\ UNCHANGED <<ckptFile, stored, pc, ver, ckpt, runs>>
    BY <1>7 DEF FileChanges
  <2> QED
    BY <1>0, <2>1 DEF DataInv, Fresh, OneUpload, OneVersion, Vouched, Running
<1>8. CASE CheckpointDamaged
  <2>1. /\ pc = "idle" /\ ckptFile' = NoCheckpoint
        /\ UNCHANGED <<fileVer, stored, pc, ver, ckpt, runs>>
    BY <1>8 DEF CheckpointDamaged
  <2> QED
    BY <1>0, <2>1, NoCheckpointType
    DEF DataInv, Fresh, OneUpload, OneVersion, Vouched, Running, CallTypeOK
<1>9. ASSUME NEW w \in Workers, Launch(w) PROVE DataInv'
  BY <1>0, <1>9, DataFrame DEF Launch, Running
<1>10. ASSUME NEW w \in Workers, Worker(w) PROVE DataInv'
  <2>1. Running /\ Running' /\ UNCHANGED <<fileVer, pc, ver, runs>>
    BY <1>10 DEF Inv, Running, WorkersQuietAfterJoin, Quiescent, Worker, TakePart, UploadPart,
       UploadPartThrows, StopAfterUpload, BeginSetPart, SetPart, PartSucceeded, PartAborted,
       PartFailed
  <2>2. CASE UploadPart(w)
    <3>1. UNCHANGED <<ckptFile, ckpt>> /\ wpart[w] \in Parts /\ ckpt.id \in UploadIds
      BY <1>0, <2>1, <2>2 DEF UploadPart, CallTypeOK, WorkerTypeOK, Running
    <3>2. CASE UNCHANGED stored
      BY <1>0, <2>1, <3>1, <3>2, DataFrame
    <3>3. CASE stored' = [stored EXCEPT ![ckpt.id][wpart[w]] = fileVer]
      <4>1. /\ stored'[ckpt.id] = [stored[ckpt.id] EXCEPT ![wpart[w]] = fileVer]
            /\ \A u \in UploadIds : u # ckpt.id => stored'[u] = stored[u]
        BY <1>0, <3>1, <3>3 DEF StoreTypeOK
      <4>2. \A p \in Parts : stored'[ckpt.id][p] = IF p = wpart[w] THEN fileVer ELSE stored[ckpt.id][p]
        BY <1>0, <3>1, <4>1 DEF StoreTypeOK
      <4>3. ckpt.id \in 1..runs /\ ckpt.ver = fileVer /\ (ckptFile.id = ckpt.id => ckptFile.ver = fileVer)
        BY <1>0, <2>1 DEF DataInv, OneUpload
      <4>4. Fresh'
        BY <1>0, <2>1, <3>1, <4>1, <4>3 DEF DataInv, Fresh, Running, CallTypeOK
      <4>5. OneUpload'
        BY <1>0, <2>1, <3>1 DEF DataInv, OneUpload, Running
      <4>6. OneVersion(ckpt)' /\ Vouched(ckpt)'
        BY <1>0, <3>1, <4>2, <4>3 DEF DataInv, OneVersion, Vouched
      <4>7. ckptFile.id \in 0..MaxRuns
        BY <1>0, CheckpointFields DEF StoreTypeOK
      <4>8. OneVersion(ckptFile)' /\ Vouched(ckptFile)'
        <5>1. CASE ckptFile.id = ckpt.id
          BY <1>0, <3>1, <4>2, <4>3, <5>1 DEF DataInv, OneVersion, Vouched
        <5>2. CASE ckptFile.id # ckpt.id
          BY <1>0, <3>1, <4>1, <4>7, <5>2 DEF DataInv, OneVersion, Vouched
        <5> QED
          BY <5>1, <5>2
      <4> QED
        BY <4>4, <4>5, <4>6, <4>8 DEF DataInv
    <3> QED
      BY <2>2, <3>2, <3>3 DEF UploadPart
  <2>3. CASE SetPart(w)
    <3>1. /\ ckpt \in Checkpoints /\ wpart[w] \in Parts /\ fileVer \in PartRecords
          /\ UNCHANGED <<ckptFile, stored>>
      BY <1>0, <2>3 DEF SetPart, StoreTypeOK, CallTypeOK, WorkerTypeOK
    <3>2. [ckpt.part EXCEPT ![wpart[w]] = fileVer] \in [Parts -> PartRecords]
      BY <3>1, CheckpointFields
    <3>3. ckpt' = [ckpt EXCEPT !.part = [ckpt.part EXCEPT ![wpart[w]] = fileVer]]
      BY <2>3 DEF SetPart
    <3>4. /\ ckpt'.id = ckpt.id /\ ckpt'.ver = ckpt.ver
          /\ ckpt'.part = [ckpt.part EXCEPT ![wpart[w]] = fileVer]
      BY <3>1, <3>2, <3>3, CheckpointUpdate
    <3>5. \A p \in Parts : ckpt'.part[p] = IF p = wpart[w] THEN fileVer ELSE ckpt.part[p]
      BY <3>1, <3>4, CheckpointFields
    <3>6. stored[ckpt.id][wpart[w]] = fileVer
      BY <2>3 DEF Inv, Answered, SetPart
    <3>7. Fresh'
      BY <1>0, <2>1, <3>1 DEF DataInv, Fresh
    <3>8. OneUpload' /\ ckpt.ver = fileVer
      BY <1>0, <2>1, <3>1, <3>4 DEF DataInv, OneUpload
    <3>9. OneVersion(ckpt)' /\ Vouched(ckpt)'
      BY <1>0, <3>1, <3>4, <3>5, <3>6, <3>8 DEF DataInv, OneVersion, Vouched
    <3>10. OneVersion(ckptFile)' /\ Vouched(ckptFile)'
      BY <1>0, <3>1 DEF DataInv, OneVersion, Vouched
    <3> QED
      BY <3>7, <3>8, <3>9, <3>10 DEF DataInv
  <2>4. CASE PartSucceeded(w)
    <3>1. UNCHANGED <<stored, ckpt>>
      BY <2>4 DEF PartSucceeded
    <3>2. CASE UNCHANGED ckptFile
      BY <1>0, <2>1, <3>1, <3>2, DataFrame
    <3>3. CASE Dump(w)
      <4>1. /\ ckptFile'.id = ckpt.id /\ ckptFile'.ver = ckpt.ver
            /\ \A p \in Parts : \/ ckptFile'.part[p] \in {0, ckpt.part[p]}
                                \/ ckptFile'.part[p] = Torn /\ p \in PartsOf("setting")
        BY <1>0, <3>3, DumpFields
      <4>2. \A p \in PartsOf("setting") : stored[ckpt.id][p] = fileVer
        BY DEF Inv, Answered, PartsOf
      <4>3. ckpt.id \in 1..runs /\ ckpt.ver = fileVer
        BY <1>0, <2>1 DEF DataInv, OneUpload
      <4>4. Fresh'
        BY <1>0, <2>1, <3>1, <4>1, <4>3 DEF DataInv, Fresh, Running, CallTypeOK
      <4>5. OneUpload'
        BY <1>0, <2>1, <3>1, <4>1, <4>3 DEF DataInv, OneUpload
      <4>6. OneVersion(ckpt)' /\ Vouched(ckpt)'
        BY <1>0, <3>1 DEF DataInv, OneVersion, Vouched
      <4>7. OneVersion(ckptFile)' /\ Vouched(ckptFile)'
        BY <1>0, <3>1, <4>1, <4>2, <4>3 DEF DataInv, OneVersion, Vouched
      <4> QED
        BY <4>4, <4>5, <4>6, <4>7 DEF DataInv
    <3> QED
      BY <2>4, <3>2, <3>3 DEF PartSucceeded
  <2>5. CASE UNCHANGED <<ckptFile, stored, ckpt>>
    BY <1>0, <2>1, <2>5, DataFrame
  <2> QED
    BY <1>10, <2>2, <2>3, <2>4, <2>5
    DEF Worker, TakePart, UploadPartThrows, StopAfterUpload, BeginSetPart, PartAborted, PartFailed
<1> QED
  BY <1>1, <1>2, <1>3, <1>4, <1>5, <1>6, <1>7, <1>8, <1>9, <1>10 DEF Next, Caller, Environment

LEMMA QuietStep == Inv /\ [Next]_vars => WorkersQuietAfterJoin'
<1> SUFFICES ASSUME Inv, [Next]_vars PROVE WorkersQuietAfterJoin'
  OBVIOUS
<1> USE DEF WorkersQuietAfterJoin, Quiescent, fileVars, serverVars, flagVars, workerVars,
        countVars, callVars, vars
<1>0. WorkersQuietAfterJoin
  BY DEF Inv
<1>1. CASE StartUpload
  BY <1>1 DEF StartUpload, FreshThreads
<1>2. CASE CreateMultipartUpload \/ AbortMultipartUpload \/ CompleteMultipartUpload
  BY <1>0, <1>2 DEF CreateMultipartUpload, AbortMultipartUpload, CompleteMultipartUpload, Return,
     FreshThreads
<1>3. CASE Join
  BY <1>3 DEF Join, Return, FreshThreads
<1>4. CASE AbortDelete \/ NoSuchUpload \/ Finish \/ Crash
  BY <1>4 DEF AbortDelete, NoSuchUpload, Finish, Crash, Return, FreshThreads
<1>5. CASE LaunchFails \/ LaunchDone
  BY <1>5 DEF LaunchFails, LaunchDone
<1>6. CASE Cancel \/ FileChanges \/ CheckpointDamaged \/ UploadExpires \/ UNCHANGED vars
  BY <1>0, <1>6 DEF Cancel, FileChanges, CheckpointDamaged, UploadExpires
<1>7. ASSUME NEW w \in Workers, Launch(w) PROVE WorkersQuietAfterJoin'
  BY <1>7 DEF Launch
<1>8. ASSUME NEW w \in Workers, Worker(w) PROVE WorkersQuietAfterJoin'
  BY <1>0, <1>8 DEF Worker, TakePart, UploadPart, UploadPartThrows, StopAfterUpload, BeginSetPart,
     SetPart, PartSucceeded, PartAborted, PartFailed
<1> QED
  BY <1>1, <1>2, <1>3, <1>4, <1>5, <1>6, <1>7, <1>8 DEF Next, Caller, Environment

LEMMA AnsweredStep == Inv /\ [Next]_vars => Answered'
<1> SUFFICES ASSUME Inv, [Next]_vars PROVE Answered'
  OBVIOUS
<1> USE DEF fileVars, serverVars, flagVars, workerVars, countVars, callVars, vars
<1>0. Answered /\ StoreTypeOK /\ CallTypeOK /\ WorkerTypeOK
  BY DEF Inv, TypeOK
<1>1. CASE \A w \in Workers : wpc'[w] = "off"
  BY <1>1 DEF Answered
<1>2. CASE UNCHANGED <<wpc, wpart, wres, stored, ckpt, fileVer>>
  BY <1>0, <1>2 DEF Answered
<1>3. CASE FileChanges
  BY <1>3 DEF FileChanges, Inv, WorkersQuietAfterJoin, Quiescent, Answered
<1>4. CASE CreateMultipartUpload
  <2>1. CASE Return("init")
    BY <1>1, <2>1 DEF Return, FreshThreads
  <2>2. CASE ~Return("init")
    BY <1>4, <2>2 DEF CreateMultipartUpload, Inv, WorkersQuietAfterJoin, Quiescent, Answered
  <2> QED
    BY <2>1, <2>2
<1>5. ASSUME NEW w \in Workers, Worker(w) \/ Launch(w) PROVE Answered'
  <2>1. CASE UploadPart(w)
    <3>1. /\ Running /\ UNCHANGED <<fileVer, ckpt, wpart>> /\ wpart[w] \in Parts
          /\ wpc' = [wpc EXCEPT ![w] = "answered"]
      BY <1>0, <2>1 DEF UploadPart, Inv, Running, WorkersQuietAfterJoin, Quiescent, WorkerTypeOK
    <3>2. ckpt.id \in UploadIds
      BY <1>0, <3>1 DEF Running, CallTypeOK
    <3>3. CASE stored' = [stored EXCEPT ![ckpt.id][wpart[w]] = fileVer]
      <4>1. \A p \in Parts : stored'[ckpt.id][p] = IF p = wpart[w] THEN fileVer
                                                                  ELSE stored[ckpt.id][p]
        BY <1>0, <3>1, <3>2, <3>3 DEF StoreTypeOK
      <4>2. \A v \in Workers : v # w => wpc'[v] = wpc[v] /\ wres'[v] = wres[v]
        BY <1>0, <2>1 DEF UploadPart, WorkerTypeOK
      <4>3. \A v \in Workers : wpc[v] \in {"answered", "setting"} => wpart[v] \in Parts
        BY <1>0 DEF WorkerTypeOK
      <4>4. \A v \in Workers :
              /\ v # w
              /\ \/ wpc'[v] = "answered" /\ wres'[v] = "ok"
                 \/ wpc'[v] = "setting"
              => stored'[ckpt.id][wpart[v]] = fileVer
        BY <1>0, <4>1, <4>2, <4>3 DEF Answered
      <4> QED
        BY <3>1, <4>1, <4>4 DEF Answered
    <3>4. CASE \E e \in {"retryable", "fatal"} : wres' = [wres EXCEPT ![w] = e] /\ UNCHANGED stored
      BY <1>0, <3>1, <3>4 DEF Answered, WorkerTypeOK
    <3> QED
      BY <2>1, <3>3, <3>4 DEF UploadPart
  <2>2. CASE SetPart(w)
    <3>1. ckpt'.id = ckpt.id
      BY <1>0, <2>2, CheckpointFields DEF SetPart, CallTypeOK
    <3> QED
      BY <1>0, <2>2, <3>1 DEF SetPart, Answered, WorkerTypeOK
  <2>3. CASE TakePart(w)
    <3>1. UNCHANGED <<stored, ckpt, fileVer, wres>>
      BY <2>3 DEF TakePart
    <3>2. \A v \in Workers \ {w} : wpc'[v] = wpc[v] /\ wpart'[v] = wpart[v]
      BY <1>0, <2>3 DEF TakePart, WorkerTypeOK
    <3>3. wpc'[w] \in {"done", "upload", "loop"}
      BY <1>0, <2>3 DEF TakePart, WorkerTypeOK
    <3> QED
      BY <1>0, <3>1, <3>2, <3>3 DEF Answered
  <2>4. CASE BeginSetPart(w)
    BY <1>0, <2>4 DEF BeginSetPart, Answered, WorkerTypeOK
  <2>5. CASE /\ UNCHANGED <<stored, ckpt, fileVer, wres, wpart>>
             /\ \E s \in {"loop", "done"} : wpc' = [wpc EXCEPT ![w] = s]
    BY <1>0, <2>5 DEF Answered, WorkerTypeOK
  <2> QED
    BY <1>5, <2>1, <2>2, <2>3, <2>4, <2>5
    DEF Worker, Launch, UploadPartThrows, StopAfterUpload, PartSucceeded, PartAborted, PartFailed
<1>6. CASE StartUpload \/ Join \/ AbortDelete \/ CompleteMultipartUpload \/ NoSuchUpload \/ Finish \/ Crash
  BY <1>1, <1>2, <1>6 DEF StartUpload, Join, AbortDelete, CompleteMultipartUpload, NoSuchUpload,
     Finish, Crash, Return, FreshThreads
<1>7. CASE LaunchFails \/ LaunchDone \/ AbortMultipartUpload \/ Cancel \/ CheckpointDamaged
           \/ UploadExpires \/ UNCHANGED vars
  BY <1>2, <1>7 DEF LaunchFails, LaunchDone, AbortMultipartUpload, Cancel, CheckpointDamaged,
     UploadExpires
<1> QED
  BY <1>3, <1>4, <1>5, <1>6, <1>7 DEF Next, Caller, Environment

LEMMA RecordedStep == Inv /\ [Next]_vars => Recorded'
<1> SUFFICES ASSUME Inv, [Next]_vars PROVE Recorded'
  OBVIOUS
<1> USE DEF Recorded, fileVars, serverVars, flagVars, workerVars, countVars, callVars, vars
<1>0. Recorded
  BY DEF Inv
<1>1. CASE flags' = {} \/ UNCHANGED <<flags, firstError>>
  BY <1>0, <1>1
<1>2. CASE \E e \in PartErrors : Record(e)
  BY <1>2
<1>3. CASE StartUpload \/ CreateMultipartUpload \/ Join \/ AbortDelete \/ CompleteMultipartUpload
           \/ NoSuchUpload \/ Finish \/ Crash
  BY <1>1, <1>3
  DEF StartUpload, CreateMultipartUpload, Join, AbortDelete, CompleteMultipartUpload,
      NoSuchUpload, Finish, Crash, Return, FreshThreads
<1>4. CASE LaunchDone \/ AbortMultipartUpload \/ Cancel \/ CheckpointDamaged
           \/ UploadExpires \/ FileChanges \/ UNCHANGED vars
  BY <1>1, <1>4 DEF LaunchDone, AbortMultipartUpload, Cancel, CheckpointDamaged, UploadExpires,
     FileChanges
<1>5. CASE LaunchFails
  BY <1>2, <1>5 DEF LaunchFails
<1>6. ASSUME NEW w \in Workers, Worker(w) \/ Launch(w) PROVE Recorded'
  BY <1>1, <1>2, <1>6 DEF Worker, Launch, TakePart, UploadPart, UploadPartThrows, StopAfterUpload,
     BeginSetPart, SetPart, PartSucceeded, PartAborted, PartFailed
<1> QED
  BY <1>3, <1>4, <1>5, <1>6 DEF Next, Caller, Environment

\* What CompleteMultipartUpload assembles is the file of the call.
LEMMA AssembledWhole ==
  ASSUME Inv, Running, Assembles
  PROVE  stored[ckpt.id] = [p \in Parts |-> fileVer]
<1>1. ckpt.id \in UploadIds /\ stored \in [UploadIds -> [Parts -> Versions]]
  BY DEF Inv, TypeOK, StoreTypeOK, CallTypeOK, Running
<1>2. ckpt.ver = fileVer
  BY DEF Inv, DataInv, OneUpload
<1>3. \A p \in Parts : stored[ckpt.id][p] = fileVer
  BY <1>1, <1>2 DEF Inv, DataInv, OneVersion, Assembles
<1> QED
  BY <1>1, <1>3

LEMMA PublishedStep == Inv /\ [Next]_vars => Published'
<1> SUFFICES ASSUME Inv, [Next]_vars, pc' = "completed"
             PROVE  object' = [p \in Parts |-> fileVer']
  BY DEF Published
<1> USE DEF fileVars, serverVars, flagVars, workerVars, countVars, callVars, vars
<1>1. CASE CompleteMultipartUpload
  <2>1. Assembles /\ object' = stored[ckpt.id] /\ UNCHANGED fileVer /\ Running
    BY <1>1 DEF CompleteMultipartUpload, Return, Running
  <2> QED
    BY <2>1, AssembledWhole
<1>2. CASE UNCHANGED <<pc, object, fileVer>>
  BY <1>2 DEF Inv, Published
<1>3. CASE StartUpload \/ CreateMultipartUpload \/ Join \/ AbortDelete \/ NoSuchUpload \/ Finish
           \/ Crash \/ LaunchDone \/ LaunchFails \/ AbortMultipartUpload \/ FileChanges
  BY <1>3 DEF StartUpload, CreateMultipartUpload, Join, AbortDelete, NoSuchUpload, Finish, Crash,
     LaunchDone, LaunchFails, AbortMultipartUpload, FileChanges, Return
<1>4. CASE Cancel \/ CheckpointDamaged \/ UploadExpires \/ UNCHANGED vars
  BY <1>2, <1>4 DEF Cancel, CheckpointDamaged, UploadExpires
<1>5. ASSUME NEW w \in Workers, Worker(w) \/ Launch(w) PROVE UNCHANGED <<pc, object, fileVer>>
  BY <1>5 DEF Worker, Launch, TakePart, UploadPart, UploadPartThrows, StopAfterUpload,
     BeginSetPart, SetPart, PartSucceeded, PartAborted, PartFailed
<1> QED
  BY <1>1, <1>2, <1>3, <1>4, <1>5 DEF Next, Caller, Environment

LEMMA InitInv == Init => Inv
<1> SUFFICES ASSUME Init
             PROVE  DataInv /\ WorkersQuietAfterJoin /\ Answered /\ Recorded /\ Published
  BY InitType DEF Inv
<1>1. DataInv
  BY NoCheckpointType DEF Init, DataInv, Fresh, OneUpload, OneVersion, Vouched, Running
<1>2. WorkersQuietAfterJoin /\ Answered
  BY DEF Init, WorkersQuietAfterJoin, Quiescent, Answered
<1>3. Recorded /\ Published
  BY DEF Init, Recorded, Published
<1> QED
  BY <1>1, <1>2, <1>3

LEMMA InvStep == Inv /\ [Next]_vars => Inv'
BY TypeStep, DataStep, QuietStep, AnsweredStep, RecordedStep, PublishedStep DEF Inv

\* What the server holds, the checkpoint file, the memory of the call and the answers
\* its workers have not recorded yet agree in every state.
THEOREM Invariance == Spec => []Inv
BY InitInv, InvStep, PTL DEF Spec

\* At every instant, whatever the workers and the faults, the checkpoint file only
\* vouches for parts the server holds: a crash never leaves a false record.
THEOREM CheckpointIsSound == Spec => []CheckpointSound
<1>1. Inv => CheckpointSound
  BY DEF Inv, DataInv, Vouched, CheckpointSound
<1> QED
  BY <1>1, Invariance, PTL

\* No worker outlives the locals it was given by reference.
THEOREM WorkersAreQuiet == Spec => []WorkersQuietAfterJoin
<1>1. Inv => WorkersQuietAfterJoin
  BY DEF Inv
<1> QED
  BY <1>1, Invariance, PTL

\* uploadFile keeps the safety part of its promise: the object only changes to
\* the whole file of the call, and "success" is only answered when it is that.
THEOREM KeepsPromise == Spec => Promise!Safety
<1> USE DEF fileVars, serverVars, flagVars, workerVars, countVars, callVars, vars
<1>1. Init => Promise!Init
  BY DEF Init, Promise!Init, Promise!Whole
<1>2. Inv /\ [Next]_vars => [Promise!Next]_(Promise!vars)
  <2> SUFFICES ASSUME Inv, [Next]_vars
               PROVE  Promise!Next \/ UNCHANGED Promise!vars
    OBVIOUS
  <2> USE DEF Promise!vars, Promise!Whole
  <2>1. CASE UNCHANGED <<fileVer, object, result>> /\ (pc = "idle" <=> pc' = "idle")
    BY <2>1
  <2>2. ASSUME NEW r \in Results \ {"none", "success"}, Return(r), pc # "idle",
               object' = object \/ object' = [p \in Parts |-> fileVer]
        PROVE  Promise!Next
    BY <2>2 DEF Return, Promise!Next, Promise!Return, Promise!Fail
  <2>3. CASE StartUpload
    BY <2>3 DEF StartUpload, Promise!Next, Promise!Call
  <2>4. CASE FileChanges
    BY <2>4 DEF FileChanges, Promise!Next, Promise!Change
  <2>5. CASE CreateMultipartUpload
    BY <2>1, <2>2, <2>5 DEF CreateMultipartUpload
  <2>6. CASE Join
    <3>1. ~isSuccess => firstError \in PartErrors
      BY DEF Inv, Recorded, TypeOK, CallTypeOK, isSuccess
    <3> QED
      BY <2>1, <2>2, <2>6, <3>1 DEF Join
  <2>7. CASE AbortDelete
    <3>1. isAbort => firstError \in PartErrors
      BY DEF Inv, Recorded, TypeOK, CallTypeOK, isAbort
    <3> QED
      BY <2>2, <2>7, <3>1 DEF AbortDelete
  <2>8. CASE CompleteMultipartUpload
    <3>1. object' = object \/ object' = [p \in Parts |-> fileVer]
      BY <2>8, AssembledWhole DEF CompleteMultipartUpload, Running
    <3>2. CASE Return("complete")
      BY <2>2, <2>8, <3>1, <3>2 DEF CompleteMultipartUpload
    <3>3. CASE UNCHANGED <<fileVer, callVars>> /\ pc # "idle" /\ pc' # "idle"
      BY <3>1, <3>3 DEF Promise!Next, Promise!Publish
    <3> QED
      BY <2>8, <3>2, <3>3 DEF CompleteMultipartUpload
  <2>9. CASE NoSuchUpload \/ Crash
    BY <2>2, <2>9 DEF NoSuchUpload, Crash
  <2>10. CASE Finish
    <3>1. object = [p \in Parts |-> fileVer] /\ UNCHANGED object /\ pc # "idle"
      BY <2>10 DEF Finish, Inv, Published
    <3>2. CASE Return("success")
      BY <3>1, <3>2 DEF Return, Promise!Next, Promise!Return, Promise!Succeed
    <3>3. CASE Return("threw") \/ Return("crc")
      BY <2>2, <3>1, <3>3
    <3> QED
      BY <2>10, <3>2, <3>3 DEF Finish
  <2>11. CASE LaunchDone \/ LaunchFails \/ AbortMultipartUpload \/ Cancel \/ CheckpointDamaged
              \/ UploadExpires \/ UNCHANGED vars
    BY <2>1, <2>11 DEF LaunchDone, LaunchFails, AbortMultipartUpload, Cancel, CheckpointDamaged,
       UploadExpires
  <2>12. ASSUME NEW w \in Workers, Worker(w) \/ Launch(w)
         PROVE  UNCHANGED <<fileVer, object, result, pc>>
    BY <2>12 DEF Worker, Launch, TakePart, UploadPart, UploadPartThrows, StopAfterUpload,
       BeginSetPart, SetPart, PartSucceeded, PartAborted, PartFailed
  <2> QED
    BY <2>1, <2>3, <2>4, <2>5, <2>6, <2>7, <2>8, <2>9, <2>10, <2>11, <2>12
    DEF Next, Caller, Environment
<1> QED
  BY <1>1, <1>2, Invariance, PTL DEF Spec, Promise!Safety
=============================================================================
