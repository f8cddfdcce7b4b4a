----------------------------- MODULE UploadFile -----------------------------
(***************************************************************************)
(* TosClientImpl::uploadFile(UploadFileV2Input): a file is cut into parts, *)
(* worker threads upload them under one multipart upload, a checkpoint     *)
(* file records the finished parts, and the upload is completed, aborted   *)
(* or left to a later call that resumes from the checkpoint.               *)
(*                                                                         *)
(* One source file, one object key and one checkpoint path.  The data of a *)
(* part, and the ETag and CRC64 that stand for it, are the version of the  *)
(* file it was read from.                                                  *)
(***************************************************************************)
EXTENDS Integers, FiniteSets

CONSTANTS
  NumParts,               \* parts the file is cut into
  Workers,                \* the threads of one call (input.getTaskNum())
  EnableCheckpoint,       \* input.isEnableCheckpoint()
  CleanupOnNoSuchUpload,  \* input.isEnableCheckpointCleanupOnNoSuchUpload()
  TornReads,              \* may dump() see an assignment of another thread half done
  MaxVersion,             \* bound: versions the source file goes through
  MaxRuns,                \* bound: calls of uploadFile
  MaxFaults               \* bound: failures, cancellations and crashes

ASSUME ConstantsAssumption ==
  /\ NumParts \in Nat \ {0}
  /\ Workers # {}
  /\ EnableCheckpoint \in BOOLEAN
  /\ CleanupOnNoSuchUpload \in BOOLEAN
  /\ TornReads \in BOOLEAN
  /\ MaxVersion \in Nat \ {0}
  /\ MaxRuns \in Nat
  /\ MaxFaults \in Nat

Parts     == 1..NumParts
UploadIds == 1..MaxRuns         \* a call creates at most one multipart upload
Versions  == 0..MaxVersion      \* 0: no data

NoData == [p \in Parts |-> 0]

\* UploadFilePartInfoV2: 0 when not completed, Torn when completed without an
\* ETag, else the version the ETag stands for.
Torn        == -1
PartRecords == Torn..MaxVersion

\* UploadFileCheckpointV2: the upload, the file it is of, and the parts.
Checkpoints == [id: 0..MaxRuns, ver: Versions, part: [Parts -> PartRecords]]

\* A missing checkpoint file, and one load() cannot parse and removes.
NoCheckpoint == [id |-> 0, ver |-> 0, part |-> NoData]

PartErrors == {"retryable", "fatal", "local"}
Holding    == {"upload", "answered", "setting", "notify"}   \* a worker has a part
Results    == PartErrors \cup
              {"none", "success", "crc", "canceled", "threw", "init", "complete", "nosuch",
               "crashed"}

VARIABLES
  fileVer,     \* the source file: its content, size and modification time
  ckptFile,    \* the checkpoint file
  upload,      \* server: state of every multipart upload
  stored,      \* server: the data of the parts of every upload
  object,      \* server: the data of the object
  pc,          \* the thread that called uploadFile; "idle" between calls
  ver,         \* getUploadFileInfoV2 of the current or last call
  ckpt,        \* the checkpoint shared by the workers
  front,       \* first element left in toUpload
  flags, firstError, \* isAbort and !isSuccess once raised; partErrors
  cancel,      \* the caller's MyCancelHook; "calling": isCall_ set, isAbort_ not yet
  wpc, wpart, wres,
  result,      \* what the last call returned
  runs, fails, faults   \* calls, consecutive calls without success, faults so far

fileVars   == <<fileVer, ckptFile>>
serverVars == <<upload, stored, object>>
flagVars   == <<flags, firstError>>
workerVars == <<wpc, wpart, wres>>
countVars  == <<runs, fails>>
callVars   == <<ver, ckpt, front, flagVars, cancel, workerVars, result, countVars>>
vars == <<fileVars, serverVars, pc, callVars, faults>>

-----------------------------------------------------------------------------
isAbort   == "abort" \in flags
isSuccess == "failed" \notin flags

Fault   == faults < MaxFaults /\ faults' = faults + 1
NoFault == UNCHANGED faults

\* Mutants, here and below, are plausible bugs: each breaks a property of a run.
MutantRaiseNothing(f) == UNCHANGED flags

Raise(f) == flags' = flags \cup {f}

MutantRecordLast(e) == firstError' = e

\* TransferErrorRecorder::record keeps the first error.
Record(e) == firstError' = IF firstError = "none" THEN e ELSE firstError

\* isCancel() reads the two flags twice: a Cancel(true) that sets the second one
\* between the two reads is not seen, though it was seen before.
IsCancel  == cancel # "no" /\ UNCHANGED cancel
NotCancel == \/ cancel = "no" /\ UNCHANGED cancel
             \/ cancel = "calling" /\ cancel' = "abort"

\* deleteCheckpointFile: nothing to do without a path, and remove() may fail.
DeleteCheckpointFile ==
  \/ ckptFile' = NoCheckpoint /\ NoFault
  \/ EnableCheckpoint /\ Fault /\ UNCHANGED ckptFile

\* The local state of a call, as uploadPartConcurrent declares it.
FreshThreads ==
  /\ front' = 1 /\ flags' = {} /\ firstError' = "none"
  /\ wpc' = [w \in Workers |-> "off"]
  /\ wpart' = [w \in Workers |-> 0]
  /\ wres' = [w \in Workers |-> "none"]

Return(r) ==
  /\ pc' = "idle" /\ result' = r
  /\ fails' = IF r = "success" THEN 0 ELSE fails + 1
  /\ ckpt' = NoCheckpoint /\ cancel' = "no"
  /\ FreshThreads
  /\ UNCHANGED <<fileVer, ver, runs>>

Init ==
  /\ fileVer = 1 /\ ckptFile = NoCheckpoint
  /\ upload = [u \in UploadIds |-> "none"]
  /\ stored = [u \in UploadIds |-> NoData]
  /\ object = NoData
  /\ pc = "idle" /\ ver = 0 /\ ckpt = NoCheckpoint /\ front = 1
  /\ flags = {} /\ firstError = "none" /\ cancel = "no"
  /\ wpc = [w \in Workers |-> "off"]
  /\ wpart = [w \in Workers |-> 0]
  /\ wres = [w \in Workers |-> "none"]
  /\ result = "none" /\ runs = 0 /\ fails = 0 /\ faults = 0

-----------------------------------------------------------------------------
(* uploadFile up to the start of the workers                               *)

MutantIsValidWithoutUploadId(c, v) == c.id = 0 \/ c.ver = v
MutantIsValidAnyFile(c, v) == c.id # 0

\* UploadFileCheckpointV2::isValid for the file as stat() sees it now.
IsValid(c, v) == c.id # 0 /\ c.ver = v

\* validateInput, getUploadFileInfoV2, and getCheckpoint up to the request.
StartUpload ==
  /\ pc = "idle" /\ runs < MaxRuns
  /\ runs' = runs + 1 /\ ver' = fileVer /\ result' = "none"
  /\ FreshThreads
  /\ \/ /\ EnableCheckpoint /\ IsValid(ckptFile, fileVer)
        /\ ckpt' = ckptFile /\ pc' = "spawn"
        /\ UNCHANGED <<ckptFile, faults>>
     \/ /\ ~(EnableCheckpoint /\ IsValid(ckptFile, fileVer))
        /\ ckpt' = NoCheckpoint /\ pc' = "create"
        /\ DeleteCheckpointFile
  /\ UNCHANGED <<fileVer, serverVars, cancel, fails>>

\* initCheckpoint: the checkpoint is made in memory, the upload on the server.
CreateMultipartUpload ==
  /\ pc = "create"
  /\ \/ /\ ckpt' = [id |-> runs, ver |-> ver, part |-> NoData]
        /\ upload' = [upload EXCEPT ![runs] = "open"]
        /\ pc' = "spawn"
        /\ UNCHANGED <<fileVars, ver, front, flagVars, cancel, workerVars, result,
                       countVars, faults>>
     \/ /\ Fault
        /\ upload' \in {upload, [upload EXCEPT ![runs] = "open"]}
        /\ Return("init")
        /\ UNCHANGED ckptFile
  /\ UNCHANGED <<stored, object>>

\* TransferThreadPool::start; the workers already started run meanwhile.
Launch(w) ==
  /\ pc = "spawn" /\ wpc[w] = "off"
  /\ wpc' = [wpc EXCEPT ![w] = "loop"]
  /\ UNCHANGED <<fileVars, serverVars, pc, ver, ckpt, front, flagVars, cancel, wpart, wres,
                 result, countVars, faults>>

\* std::thread throws: the error is recorded and no further worker starts.
LaunchFails ==
  /\ pc = "spawn" /\ Fault
  /\ \E w \in Workers : wpc[w] = "off"
  /\ Raise("failed") /\ Record("local")
  /\ pc' = "join"
  /\ UNCHANGED <<fileVars, serverVars, ver, ckpt, front, cancel, workerVars,
                 result, countVars>>

LaunchDone ==
  /\ pc = "spawn" /\ \A w \in Workers : wpc[w] # "off"
  /\ pc' = "join"
  /\ UNCHANGED <<fileVars, serverVars, callVars, faults>>

-----------------------------------------------------------------------------
(* The worker threads                                                      *)

\* Top of the loop: stop, or take the next part; a finished one is skipped.
TakePart(w) ==
  /\ wpc[w] = "loop"
  /\ \/ /\ IsCancel \/ (NotCancel /\ (isAbort \/ front > NumParts))
        /\ wpc' = [wpc EXCEPT ![w] = "done"]
        /\ UNCHANGED <<front, wpart>>
     \/ /\ NotCancel /\ ~isAbort /\ front <= NumParts
        /\ front' = front + 1
        /\ IF ckpt.part[front] # 0
           THEN UNCHANGED <<wpc, wpart>>
           ELSE wpc' = [wpc EXCEPT ![w] = "upload"] /\ wpart' = [wpart EXCEPT ![w] = front]
  /\ UNCHANGED <<fileVars, serverVars, pc, ver, ckpt, flagVars, wres, result, countVars, faults>>

\* uploadPartFromFile with its retries: the answer, and what the server keeps.
\* An upload that is not open answers 404; a lost answer is an error here.
UploadPart(w) ==
  /\ wpc[w] = "upload"
  /\ wpc' = [wpc EXCEPT ![w] = "answered"]
  /\ \/ /\ upload[ckpt.id] = "open"
        /\ stored' = [stored EXCEPT ![ckpt.id][wpart[w]] = fileVer]
        /\ \/ NoFault /\ wres' = [wres EXCEPT ![w] = "ok"]
           \/ Fault /\ wres' = [wres EXCEPT ![w] = "retryable"]
     \/ /\ upload[ckpt.id] = "open" /\ Fault
        /\ \E e \in {"retryable", "fatal"} : wres' = [wres EXCEPT ![w] = e]
        /\ UNCHANGED stored
     \/ /\ upload[ckpt.id] # "open"
        /\ wres' = [wres EXCEPT ![w] = "fatal"]
        /\ NoFault /\ UNCHANGED stored
  /\ UNCHANGED <<fileVars, upload, object, pc, ver, ckpt, front, flagVars, cancel, wpart,
                 result, countVars>>

\* The request throws: TransferThreadPool catches, records, and the worker ends.
UploadPartThrows(w) ==
  /\ wpc[w] = "upload" /\ Fault
  /\ wpc' = [wpc EXCEPT ![w] = "done"]
  /\ Raise("failed") /\ Record("local")
  /\ UNCHANGED <<fileVars, serverVars, pc, ver, ckpt, front, cancel, wpart, wres,
                 result, countVars>>

\* The check after the request: a part that made it is forgotten.
StopAfterUpload(w) ==
  /\ wpc[w] = "answered" /\ IsCancel
  /\ wpc' = [wpc EXCEPT ![w] = "done"]
  /\ UNCHANGED <<fileVars, serverVars, pc, ver, ckpt, front, flagVars, wpart, wres,
                 result, countVars, faults>>

\* The part is recorded whatever the server answered.
MutantBeginSetPartAnyAnswer(w) ==
  /\ wpc[w] = "answered" /\ NotCancel
  /\ wpc' = [wpc EXCEPT ![w] = "setting"]
  /\ UNCHANGED <<fileVars, serverVars, pc, ver, ckpt, front, flagVars, wpart, wres,
                 result, countVars, faults>>

\* setUploadFilePartInfoByIdx begins: it takes no lock.
BeginSetPart(w) ==
  /\ wpc[w] = "answered" /\ wres[w] = "ok" /\ NotCancel
  /\ wpc' = [wpc EXCEPT ![w] = "setting"]
  /\ UNCHANGED <<fileVars, serverVars, pc, ver, ckpt, front, flagVars, wpart, wres,
                 result, countVars, faults>>

\* The flag is set, the ETag is forgotten.
MutantSetPartNoETag(w) ==
  /\ wpc[w] = "setting"
  /\ wpc' = [wpc EXCEPT ![w] = "notify"]
  /\ ckpt' = [ckpt EXCEPT !.part[wpart[w]] = Torn]
  /\ UNCHANGED <<fileVars, serverVars, pc, ver, front, flagVars, cancel, wpart, wres,
                 result, countVars, faults>>

SetPart(w) ==
  /\ wpc[w] = "setting"
  /\ wpc' = [wpc EXCEPT ![w] = "notify"]
  /\ ckpt' = [ckpt EXCEPT !.part[wpart[w]] = fileVer]
  /\ UNCHANGED <<fileVars, serverVars, pc, ver, front, flagVars, cancel, wpart, wres,
                 result, countVars, faults>>

PartsOf(state) == {wpart[v] : v \in {u \in Workers : wpc[u] = state}}

\* dump(), under the lock the setter does not take.  isCompleted_ is assigned and
\* read last, so a torn record is completed and has no ETag; a record set since
\* the dump began may be missed.
Dump(w) ==
  \E missed \in SUBSET (PartsOf("notify") \ {wpart[w]}),
     torn \in SUBSET (IF TornReads THEN PartsOf("setting") ELSE {}) :
    ckptFile' = [ckpt EXCEPT !.part = [p \in Parts |-> IF p \in missed THEN 0
                                                       ELSE IF p \in torn THEN Torn ELSE @[p]]]

\* uploadEventUploadPartSucceed and dump, under the lock; the callback may throw.
PartSucceeded(w) ==
  /\ wpc[w] = "notify"
  /\ \/ /\ wpc' = [wpc EXCEPT ![w] = "loop"]
        /\ \/ EnableCheckpoint /\ Dump(w) /\ NoFault
           \/ ~EnableCheckpoint /\ UNCHANGED <<ckptFile, faults>>
           \/ EnableCheckpoint /\ Fault /\ UNCHANGED ckptFile
        /\ UNCHANGED flagVars
     \/ /\ Fault
        /\ wpc' = [wpc EXCEPT ![w] = "done"]
        /\ Raise("failed") /\ Record("local")
        /\ UNCHANGED ckptFile
  /\ UNCHANGED <<fileVer, serverVars, pc, ver, ckpt, front, cancel, wpart, wres,
                 result, countVars>>

\* 403, 404 and 405 abort the whole call, whatever the callback does.
PartAborted(w) ==
  /\ wpc[w] = "answered" /\ wres[w] = "fatal" /\ NotCancel
  /\ Record("fatal")
  /\ wpc' = [wpc EXCEPT ![w] = "done"]
  /\ \/ NoFault /\ flags' = flags \cup {"abort"}
     \/ Fault /\ flags' = flags \cup {"abort", "failed"}
  /\ UNCHANGED <<fileVars, serverVars, pc, ver, ckpt, front, wpart, wres, result, countVars>>

PartFailed(w) ==
  /\ wpc[w] = "answered" /\ wres[w] = "retryable" /\ NotCancel
  /\ Record("retryable") /\ Raise("failed")
  /\ \/ NoFault /\ wpc' = [wpc EXCEPT ![w] = "loop"]
     \/ Fault /\ wpc' = [wpc EXCEPT ![w] = "done"]
  /\ UNCHANGED <<fileVars, serverVars, pc, ver, ckpt, front, wpart, wres, result, countVars>>

-----------------------------------------------------------------------------
(* uploadPartConcurrent after threadPool.join()                            *)

MutantQuiescentSome == \E w \in Workers : wpc[w] \in {"off", "done"}

Quiescent == \A w \in Workers : wpc[w] \in {"off", "done"}

Join ==
  /\ pc = "join" /\ Quiescent
  /\ \/ /\ isAbort \/ cancel = "abort"
        /\ pc' = "abort"
        /\ UNCHANGED <<fileVer, callVars>>
     \/ ~isAbort /\ cancel \in {"pause", "calling"} /\ Return("canceled")
     \/ ~isAbort /\ cancel \in {"no", "calling"} /\ ~isSuccess /\ Return(firstError)
     \/ /\ ~isAbort /\ isSuccess /\ NotCancel
        /\ pc' = "complete"
        /\ UNCHANGED <<fileVer, ver, ckpt, front, flagVars, workerVars, result, countVars>>
  /\ UNCHANGED <<ckptFile, serverVars, faults>>

\* abortMultipartUpload: a failure is only logged.
AbortMultipartUpload ==
  /\ pc = "abort"
  /\ \/ /\ \/ NoFault \/ Fault
        /\ upload' = [upload EXCEPT ![ckpt.id] = IF @ = "open" THEN "aborted" ELSE @]
     \/ Fault /\ UNCHANGED upload
  /\ pc' = "abortDelete"
  /\ UNCHANGED <<fileVars, stored, object, callVars>>

MutantAbortKeepsCheckpoint ==
  /\ pc = "abortDelete"
  /\ Return(IF isAbort THEN firstError ELSE "canceled")
  /\ UNCHANGED <<ckptFile, serverVars, faults>>

AbortDelete ==
  /\ pc = "abortDelete"
  /\ DeleteCheckpointFile
  /\ Return(IF isAbort THEN firstError ELSE "canceled")
  /\ UNCHANGED serverVars

\* The server assembles an open upload whose parts carry the ETags it knows.
Assembles == upload[ckpt.id] = "open"
             /\ \A p \in Parts : stored[ckpt.id][p] # 0 /\ ckpt.part[p] = stored[ckpt.id][p]

\* completeMultipartUpload; a retry after a lost answer meets NoSuchUpload.
CompleteMultipartUpload ==
  /\ pc = "complete"
  /\ \/ /\ Assembles
        /\ object' = stored[ckpt.id]
        /\ upload' = [upload EXCEPT ![ckpt.id] = "completed"]
        /\ \/ /\ NoFault /\ pc' = "completed"
              /\ UNCHANGED <<fileVer, callVars>>
           \/ /\ Fault /\ pc' = "nosuch"
              /\ UNCHANGED <<fileVer, callVars>>
           \/ Fault /\ Return("complete")
     \/ /\ upload[ckpt.id] # "open" /\ NoFault
        /\ pc' = "nosuch"
        /\ UNCHANGED <<object, upload, fileVer, callVars>>
     \/ /\ upload[ckpt.id] = "open" /\ ~Assembles /\ NoFault
        /\ Return("complete")
        /\ UNCHANGED <<object, upload>>
     \/ Fault /\ Return("complete") /\ UNCHANGED <<object, upload>>
  /\ UNCHANGED <<ckptFile, stored>>

\* NoSuchUpload: the failure callback may throw; cleanup is opt-in.
NoSuchUpload ==
  /\ pc = "nosuch"
  /\ \/ Fault /\ Return("threw") /\ UNCHANGED ckptFile
     \/ /\ IF EnableCheckpoint /\ CleanupOnNoSuchUpload
           THEN DeleteCheckpointFile
           ELSE UNCHANGED <<ckptFile, faults>>
        /\ Return("nosuch")
  /\ UNCHANGED serverVars

\* Success callback (it may throw out of uploadFile), cleanup, CRC64 check.
Finish ==
  /\ pc = "completed"
  /\ \/ Fault /\ Return("threw") /\ UNCHANGED ckptFile
     \/ /\ DeleteCheckpointFile
        /\ Return(IF ckpt.part = object THEN "success" ELSE "crc")
  /\ UNCHANGED serverVars

-----------------------------------------------------------------------------
(* The environment                                                         *)

\* MyCancelHook::Cancel: only the first call counts, and it sets isCall_ first.
Cancel ==
  /\ pc # "idle"
  /\ \/ cancel = "no" /\ Fault /\ cancel' \in {"pause", "calling"}
     \/ cancel = "calling" /\ NoFault /\ cancel' = "abort"
  /\ UNCHANGED <<fileVars, serverVars, pc, ver, ckpt, front, flagVars, workerVars,
                 result, countVars>>

\* The process dies: what is left is the files and the server.
Crash ==
  /\ pc # "idle" /\ Fault
  /\ Return("crashed")
  /\ UNCHANGED <<ckptFile, serverVars>>

\* Between calls the source file changes, or the checkpoint file is damaged.
FileChanges ==
  /\ pc = "idle" /\ fileVer < MaxVersion
  /\ fileVer' = fileVer + 1
  /\ UNCHANGED <<ckptFile, serverVars, pc, callVars, faults>>

CheckpointDamaged ==
  /\ pc = "idle" /\ ckptFile # NoCheckpoint /\ Fault
  /\ ckptFile' = NoCheckpoint
  /\ UNCHANGED <<fileVer, serverVars, pc, callVars>>

\* The server drops an upload that was never completed.
UploadExpires ==
  /\ Fault
  /\ \E u \in UploadIds : upload[u] = "open" /\ upload' = [upload EXCEPT ![u] = "aborted"]
  /\ UNCHANGED <<fileVars, stored, object, pc, callVars>>

Worker(w) ==
  \/ TakePart(w) \/ UploadPart(w) \/ UploadPartThrows(w) \/ StopAfterUpload(w)
  \/ BeginSetPart(w) \/ SetPart(w) \/ PartSucceeded(w) \/ PartAborted(w) \/ PartFailed(w)

Caller ==
  \/ CreateMultipartUpload \/ LaunchFails \/ LaunchDone \/ Join
  \/ AbortMultipartUpload \/ AbortDelete \/ CompleteMultipartUpload \/ NoSuchUpload \/ Finish
  \/ \E w \in Workers : Launch(w)

Environment == Cancel \/ Crash \/ FileChanges \/ CheckpointDamaged \/ UploadExpires

Next == StartUpload \/ Caller \/ Environment \/ \E w \in Workers : Worker(w)

\* Threads are scheduled; nothing obliges anyone to start a call or to fail.
Fairness == WF_vars(Caller) /\ \A w \in Workers : WF_vars(Worker(w))

Spec == Init /\ [][Next]_vars /\ Fairness

-----------------------------------------------------------------------------
StoreTypeOK ==
  /\ fileVer \in 1..MaxVersion /\ ckptFile \in Checkpoints
  /\ upload \in [UploadIds -> {"none", "open", "completed", "aborted"}]
  /\ stored \in [UploadIds -> [Parts -> Versions]]
  /\ object \in [Parts -> Versions]
  /\ faults \in 0..MaxFaults

CallTypeOK ==
  /\ pc \in {"idle", "create", "spawn", "join", "abort", "abortDelete", "complete",
             "nosuch", "completed"}
  /\ ver \in Versions /\ ckpt \in Checkpoints /\ front \in 1..(NumParts + 1)
  /\ flags \subseteq {"abort", "failed"}
  /\ firstError \in PartErrors \cup {"none"} /\ cancel \in {"no", "pause", "calling", "abort"}
  /\ result \in Results
  /\ pc # "idle" => runs \in UploadIds
  /\ pc \notin {"idle", "create"} => ckpt.id \in UploadIds
  /\ runs \in 0..MaxRuns /\ fails \in Nat

WorkerTypeOK ==
  /\ wpc \in [Workers -> {"off", "loop", "done"} \cup Holding]
  /\ wpart \in [Workers -> 0..NumParts]
  /\ wres \in [Workers -> {"none", "ok", "retryable", "fatal"}]
  /\ \A w \in Workers : wpc[w] \in Holding => wpart[w] \in Parts

\* Every variable keeps its type, and a worker that holds a part holds one of
\* the file's.
TypeOK == StoreTypeOK /\ CallTypeOK /\ WorkerTypeOK

-----------------------------------------------------------------------------
(* What the threads owe each other                                         *)

\* A checkpoint never vouches for a part the server does not hold in the version
\* of the file the checkpoint stands for, nor for another ETag than the part's
\* own: at any instant a crash may leave it to the next call.
CheckpointSound ==
  ckptFile.id # 0 =>
    \A p \in Parts : ckptFile.part[p] # 0 =>
      /\ stored[ckptFile.id][p] = ckptFile.ver
      /\ ckptFile.part[p] \in {Torn, ckptFile.ver}

\* A part the checkpoint calls completed has the ETag CompleteMultipartUpload
\* needs: whoever resumes from it will not upload the part again.
CheckpointResumable == \A p \in Parts : ckptFile.part[p] # Torn

\* CompleteMultipartUpload is only sent when every part was uploaded, whichever
\* worker took it and however the others ended.
CompleteNeedsEveryPart == pc = "complete" => \A p \in Parts : ckpt.part[p] # 0

\* The same of the calls nobody cancelled with Cancel(true).
CompleteNeedsEveryPartUnlessAborted ==
  pc = "complete" /\ cancel # "abort" => \A p \in Parts : ckpt.part[p] # 0

\* No worker is left running on the locals of uploadPartConcurrent once it goes
\* on to abort, complete or return.
WorkersQuietAfterJoin ==
  pc \notin {"spawn", "join"} => \A w \in Workers : wpc[w] \in {"off", "done"}

\* The first error of a part is kept, and returned unless the call was cancelled.
FirstErrorReturned ==
  [][pc # "idle" /\ firstError # "none" =>
       IF pc' = "idle" THEN result' \in {firstError, "crashed"} \/ cancel # "no"
                       ELSE firstError' = firstError]_vars

\* Resuming never wedges: each fault costs at most the call it hits and one more
\* that finds a stale checkpoint and clears it.
FailuresPaidByFaults == fails <= 2 * faults

\* uploadFile implements its promise; a run of TLC checks it with the fairness.
Promise == INSTANCE AtomicUpload WITH
  file   <- fileVer,
  busy   <- pc # "idle",
  answer <- IF result \in {"none", "success"} THEN result ELSE "failure"

ImplementsAtomicUpload == Promise!Spec
=============================================================================
