---------------------------- MODULE DownloadFile ----------------------------
(***************************************************************************)
(* TosClientImpl::downloadFile: an object is cut into ranges, worker       *)
(* threads write them at their places in a temporary file, a checkpoint    *)
(* file records the finished parts and the CRC64 of what was received, and *)
(* when all parts are there the temporary file is renamed to the file.     *)
(*                                                                         *)
(* One object, one file, one checkpoint path; bytes are counted in units.  *)
(* A version of the object is its bytes, ETag, CRC64 and modification time. *)
(***************************************************************************)
EXTENDS Integers, FiniteSets

CONSTANTS
  ObjectSize,   \* units of the object
  PartSizes,    \* values of input.getPartSize()
  Enables,      \* values of input.isEnableCheckpoint(): "on", "off"
  Workers,      \* the threads of one call (input.getTaskNum())
  WritesFail,   \* may a write to the temporary file fail
  WithCrc,      \* versions whose HEAD answer carries a CRC64: old objects have none
  MaxVersion,   \* bound: versions the object goes through
  MaxRuns,      \* bound: calls of downloadFile
  MaxFaults     \* bound: failures, cancellations and crashes

ASSUME ConstantsAssumption ==
  /\ ObjectSize \in Nat \ {0}
  /\ PartSizes \subseteq Nat \ {0} /\ PartSizes # {}
  /\ Enables \subseteq {"on", "off"} /\ Enables # {}
  /\ Workers # {} /\ WritesFail \in BOOLEAN
  /\ MaxVersion \in Nat \ {0} /\ WithCrc \subseteq 1..MaxVersion
  /\ MaxRuns \in Nat /\ MaxFaults \in Nat

Units    == 0..(ObjectSize - 1)
Versions == 0..MaxVersion   \* 0: none
Parts    == 1..ObjectSize   \* at most one part for each unit

\* Mutants, here and below, are plausible bugs: each breaks a property of a run.
MutantRangeUntrimmed(p, size) == ((p - 1) * size)..(p * size - 1)

\* getDownloadFilePartsInfo: the last part is what is left.
NumParts(size) == (ObjectSize + size - 1) \div size
RangeOf(p, size) == {u \in Units : u \div size = p - 1}

\* A file is the units written to it: where, which unit, of which version.
Cells    == Nat \X Units \X (1..MaxVersion)
Whole(v) == {<<u, u, v>> : u \in Units}

\* DownloadFilePartInfo: 0 when not completed, Torn when completed without a
\* CRC64, else the version the CRC64 is of.
Torn   == -1
NoData == [p \in Parts |-> 0]

\* DownloadFileCheckpoint: the version HEAD saw, the size the parts were cut to.
Checkpoints == [ver: Versions, size: PartSizes \cup {0}, part: [Parts -> Torn..MaxVersion]]

\* A missing checkpoint file, and one that load() cannot parse and removes.
NoCheckpoint == [ver |-> 0, size |-> 0, part |-> NoData]

PartErrors == {"retryable", "fatal", "local"}
Results    == PartErrors \cup
              {"none", "success", "head", "crc", "rename", "canceled", "crashed"}

VARIABLES
  object,      \* the object: its version
  ckptFile,    \* the checkpoint file
  temp,        \* the temporary file: {} also when there is none
  tempExists,
  file,        \* the file asked for
  pc,          \* the thread that called downloadFile; "idle" between calls
  input,       \* part size and checkpoint switch of the call
  ver,         \* headObject: the version the call saw
  ckpt,        \* the checkpoint shared by the workers
  front,       \* first element left in toDownload
  flags, firstError, \* isAbort and !isSuccess once raised; partErrors
  cancel,      \* the caller's MyCancelHook; "calling": isCall_ set, isAbort_ not yet
  wpc, wpart, wver,  \* workers: what they do, their part, the version received
  result,      \* what the call returns, as soon as that is settled
  mislaid,     \* history: how the temporary file came to differ from the checkpoint
  runs, fails, faults   \* calls, consecutive calls without success, faults so far

diskVars   == <<ckptFile, temp, tempExists, file>>
flagVars   == <<flags, firstError>>
workerVars == <<wpc, wpart, wver>>
countVars  == <<runs, fails>>
callVars   == <<input, ver, ckpt, front, flagVars, cancel, workerVars, result, countVars>>
vars == <<object, diskVars, pc, callVars, mislaid, faults>>

-----------------------------------------------------------------------------
isAbort   == "abort" \in flags
isSuccess == "failed" \notin flags
Enabled   == input.enable = "on"

Fault   == faults < MaxFaults /\ faults' = faults + 1
NoFault == UNCHANGED faults

Raise(f)  == flags' = flags \cup {f}
Record(e) == firstError' = IF firstError = "none" THEN e ELSE firstError

Mislay(how) == mislaid' = mislaid \cup {how}

\* isCancel() reads the two flags twice, as in UploadFile.
IsCancel  == cancel # "no" /\ UNCHANGED cancel
NotCancel == \/ cancel = "no" /\ UNCHANGED cancel
             \/ cancel = "calling" /\ cancel' = "abort"

\* deleteCheckpointFile: without checkpoint there is no path; remove() may fail.
DeleteCheckpointFile ==
  \/ Enabled /\ ckptFile' = NoCheckpoint /\ UNCHANGED <<mislaid, faults>>
  \/ Enabled /\ ckptFile # NoCheckpoint /\ Fault /\ Mislay("kept") /\ UNCHANGED ckptFile
  \/ ~Enabled /\ UNCHANGED <<ckptFile, mislaid, faults>>

\* The local state of a call, as downloadPartConcurrent declares it.
FreshThreads ==
  /\ front' = 1 /\ flags' = {} /\ firstError' = "none"
  /\ wpc' = [w \in Workers |-> "off"]
  /\ wpart' = [w \in Workers |-> 0]
  /\ wver' = [w \in Workers |-> 0]

Return(r) ==
  /\ pc' = "idle" /\ result' = r
  /\ fails' = IF r = "success" THEN 0 ELSE fails + 1
  /\ ckpt' = NoCheckpoint /\ cancel' = "no"
  /\ FreshThreads
  /\ UNCHANGED <<object, input, ver, runs>>

Init ==
  /\ object = 1 /\ ckptFile = NoCheckpoint /\ temp = {} /\ tempExists = "no" /\ file = {}
  /\ pc = "idle" /\ input \in [size: PartSizes, enable: Enables]
  /\ ver = 0 /\ ckpt = NoCheckpoint /\ front = 1
  /\ flags = {} /\ firstError = "none" /\ cancel = "no"
  /\ wpc = [w \in Workers |-> "off"]
  /\ wpart = [w \in Workers |-> 0]
  /\ wver = [w \in Workers |-> 0]
  /\ result = "none" /\ mislaid = {} /\ runs = 0 /\ fails = 0 /\ faults = 0

-----------------------------------------------------------------------------
(* downloadFile up to the start of the workers                             *)

\* DownloadFileCheckpoint::isValid for what headObject answered: the size of the
\* parts is not compared.
IsValid(c, v) == c.ver = v

\* validateInput, headObject, getDownloadFileFileInfo, and the checkpoint loaded.
StartDownload ==
  /\ pc = "idle" /\ runs < MaxRuns
  /\ runs' = runs + 1 /\ ver' = object /\ result' = "none"
  /\ input' \in [size: PartSizes, enable: Enables]
  /\ FreshThreads
  /\ IF input'.enable = "on" /\ IsValid(ckptFile, object)
     THEN /\ ckpt' = ckptFile /\ pc' = "spawn"
          /\ mislaid' = IF input'.size # ckptFile.size THEN mislaid \cup {"size"} ELSE mislaid
     ELSE /\ ckpt' = NoCheckpoint /\ pc' = "truncate"
          /\ mislaid' = IF input'.enable = "off" /\ ckptFile # NoCheckpoint
                        THEN mislaid \cup {"off"} ELSE mislaid
  /\ UNCHANGED <<object, diskVars, cancel, fails, faults>>

\* HEAD fails, or a directory cannot be made: nothing was looked at yet.
StartFails ==
  /\ pc = "idle" /\ runs < MaxRuns /\ Fault
  /\ runs' = runs + 1 /\ fails' = fails + 1 /\ result' = "head"
  /\ UNCHANGED <<object, diskVars, pc, input, ver, ckpt, front, flagVars, cancel, workerVars,
                 mislaid>>

\* getCheckpoint: an old temporary file is emptied; a failure is only notified.
TruncateTemp ==
  /\ pc = "truncate" /\ pc' = "forget"
  /\ \/ temp' = {} /\ tempExists' = "yes" /\ NoFault
     \/ Fault /\ UNCHANGED <<temp, tempExists>>
  /\ UNCHANGED <<object, ckptFile, file, callVars, mislaid>>

\* The old checkpoint goes, and initCheckpoint makes a new one in memory.
ForgetCheckpoint ==
  /\ pc = "forget" /\ pc' = "spawn"
  /\ DeleteCheckpointFile
  /\ ckpt' = [ver |-> ver, size |-> input.size, part |-> NoData]
  /\ UNCHANGED <<object, temp, tempExists, file, input, ver, front, flagVars, cancel,
                 workerVars, result, countVars>>

\* A worker is started; those already started run meanwhile.
Launch(w) ==
  /\ pc = "spawn" /\ wpc[w] = "off"
  /\ wpc' = [wpc EXCEPT ![w] = "loop"]
  /\ UNCHANGED <<object, diskVars, pc, input, ver, ckpt, front, flagVars, cancel, wpart, wver,
                 result, countVars, mislaid, faults>>

\* std::thread throws: the call is aborted, the workers already started are joined.
LaunchFails ==
  /\ pc = "spawn" /\ Fault
  /\ \E w \in Workers : wpc[w] = "off"
  /\ Raise("abort") /\ Record("local")
  /\ pc' = "join"
  /\ UNCHANGED <<object, diskVars, input, ver, ckpt, front, cancel, workerVars, result,
                 countVars, mislaid>>

LaunchDone ==
  /\ pc = "spawn" /\ \A w \in Workers : wpc[w] # "off"
  /\ pc' = "join"
  /\ UNCHANGED <<object, diskVars, callVars, mislaid, faults>>

-----------------------------------------------------------------------------
(* The worker threads                                                      *)

Queued == 1..NumParts(ckpt.size)

\* Top of the loop: stop, or take the next part; a finished one is skipped.
TakePart(w) ==
  /\ wpc[w] = "loop"
  /\ \/ /\ IsCancel \/ (NotCancel /\ (isAbort \/ front \notin Queued))
        /\ wpc' = [wpc EXCEPT ![w] = "done"]
        /\ UNCHANGED <<front, wpart>>
     \/ /\ NotCancel /\ ~isAbort /\ front \in Queued
        /\ front' = front + 1
        /\ IF ckpt.part[front] # 0
           THEN UNCHANGED <<wpc, wpart>>
           ELSE wpc' = [wpc EXCEPT ![w] = "get"] /\ wpart' = [wpart EXCEPT ![w] = front]
  /\ UNCHANGED <<object, diskVars, pc, input, ver, ckpt, flagVars, wver, result, countVars,
                 mislaid, faults>>

\* getObject of the range, with its retries: of the object as it is now.  An
\* error, an answer without content, or an exception end in the catch alike.
GetPart(w) ==
  /\ wpc[w] = "get"
  /\ \/ /\ NoFault /\ UNCHANGED flagVars
        /\ wpc' = [wpc EXCEPT ![w] = "received"] /\ wver' = [wver EXCEPT ![w] = object]
     \/ /\ Fault /\ UNCHANGED wver
        /\ \E e \in {"retryable", "fatal"} : wpc' = [wpc EXCEPT ![w] = e]
        /\ UNCHANGED flagVars
     \/ /\ Fault /\ UNCHANGED wver
        /\ wpc' = [wpc EXCEPT ![w] = "done"]
        /\ Raise("abort") /\ Record("local")
  /\ UNCHANGED <<object, diskVars, pc, input, ver, ckpt, front, cancel, wpart, result,
                 countVars, mislaid>>

\* The check after the request: what came is dropped.
StopAfterGet(w) ==
  /\ wpc[w] \in {"received", "retryable", "fatal"} /\ IsCancel
  /\ wpc' = [wpc EXCEPT ![w] = "done"]
  /\ UNCHANGED <<object, diskVars, pc, input, ver, ckpt, front, flagVars, wpart, wver, result,
                 countVars, mislaid, faults>>

Accepts(w) == wpc[w] = "received" /\ NotCancel

\* The units of part p, put where the part size of this call puts part p.
Placed(p, units, v) ==
  LET start == (p - 1) * ckpt.size
  IN  {<<(p - 1) * input.size + u - start, u, v>> : u \in units}

Overwrite(cells) == {c \in temp : \A d \in cells : c[1] # d[1]} \cup cells

\* The write, under the lock.  What fails at close(), when the buffer is written,
\* is not seen.  A callback that throws goes on to the catch.
WritePart(w) ==
  /\ Accepts(w) /\ tempExists = "yes"
  /\ LET range == RangeOf(wpart[w], ckpt.size)
     IN  \/ /\ temp' = Overwrite(Placed(wpart[w], range, wver[w]))
            /\ \/ /\ NoFault /\ UNCHANGED flagVars
                  /\ wpc' = [wpc EXCEPT ![w] = "setting"]
               \/ /\ Fault /\ Raise("abort") /\ Record("local")
                  /\ wpc' = [wpc EXCEPT ![w] = "done"]
            /\ UNCHANGED mislaid
         \/ /\ WritesFail /\ Fault /\ Mislay("write")
            /\ \E n \in 0..(Cardinality(range) - 1) :
                 temp' = Overwrite(Placed(wpart[w], {u \in range : u < (wpart[w] - 1) * ckpt.size + n}, wver[w]))
            /\ \/ /\ Raise("abort") /\ Record("local")
                  /\ \E next \in {"setting", "done"} : wpc' = [wpc EXCEPT ![w] = next]
               \/ UNCHANGED flagVars /\ wpc' = [wpc EXCEPT ![w] = "setting"]
  /\ UNCHANGED <<object, ckptFile, tempExists, file, pc, input, ver, ckpt, front, wpart, wver,
                 result, countVars>>

OpenFails(w) ==
  /\ Accepts(w)
  /\ Record("local")
  /\ \/ /\ (tempExists = "no" /\ NoFault) \/ Fault
        /\ Raise("failed") /\ wpc' = [wpc EXCEPT ![w] = "loop"]
     \/ Fault /\ Raise("abort") /\ wpc' = [wpc EXCEPT ![w] = "done"]
  /\ UNCHANGED <<object, diskVars, pc, input, ver, ckpt, front, wpart, wver, result,
                 countVars, mislaid>>

\* setDownloadFilePartInfoByIdx, which takes no lock, also after a failed write.
SetPart(w) ==
  /\ wpc[w] = "setting"
  /\ wpc' = [wpc EXCEPT ![w] = "dump"]
  /\ ckpt' = [ckpt EXCEPT !.part[wpart[w]] = wver[w]]
  /\ UNCHANGED <<object, diskVars, pc, input, ver, front, flagVars, cancel, wpart, wver,
                 result, countVars, mislaid, faults>>

PartsOf(state) == {wpart[v] : v \in {u \in Workers : wpc[u] = state}}

\* dump(), under the lock the setter does not take: as in UploadFile a record may
\* be read torn or missed.  It overwrites the file; a failed write is not seen.
Dump(w) ==
  /\ wpc[w] = "dump"
  /\ wpc' = [wpc EXCEPT ![w] = "loop"]
  /\ \/ /\ Enabled /\ NoFault
        /\ \E missed \in SUBSET (PartsOf("dump") \ {wpart[w]}), torn \in SUBSET PartsOf("setting") :
             ckptFile' = [ckpt EXCEPT !.part = [p \in Parts |-> IF p \in missed THEN 0
                                                       ELSE IF p \in torn THEN Torn ELSE @[p]]]
     \/ Enabled /\ Fault /\ ckptFile' = NoCheckpoint
     \/ ~Enabled /\ NoFault /\ UNCHANGED ckptFile
  /\ UNCHANGED <<object, temp, tempExists, file, pc, input, ver, ckpt, front, flagVars, cancel,
                 wpart, wver, result, countVars, mislaid>>

\* 403, 404 and 405 abort the whole call, and so does a callback that throws.
PartAborted(w) ==
  /\ wpc[w] = "fatal" /\ NotCancel
  /\ Record("fatal")
  /\ wpc' = [wpc EXCEPT ![w] = "done"]
  /\ Raise("abort") /\ NoFault
  /\ UNCHANGED <<object, diskVars, pc, input, ver, ckpt, front, wpart, wver, result,
                 countVars, mislaid>>

PartFailed(w) ==
  /\ wpc[w] = "retryable" /\ NotCancel
  /\ Record("retryable")
  /\ \/ NoFault /\ Raise("failed") /\ wpc' = [wpc EXCEPT ![w] = "loop"]
     \/ Fault /\ Raise("abort") /\ wpc' = [wpc EXCEPT ![w] = "done"]
  /\ UNCHANGED <<object, diskVars, pc, input, ver, ckpt, front, wpart, wver, result,
                 countVars, mislaid>>

-----------------------------------------------------------------------------
(* downloadPartConcurrent after the workers are joined                     *)

MutantCrcFirstPartOnly == ver \in WithCrc => ckpt.part[1] = ver

\* The CRC64 of the parts as they were received, if HEAD gave one to compare.
CrcMatches == ver \in WithCrc => \A p \in Queued : ckpt.part[p] = ver

Settle(next, r) ==
  /\ pc' = next /\ result' = r
  /\ UNCHANGED <<object, input, ver, ckpt, front, flagVars, workerVars, countVars>>

Join ==
  /\ pc = "join" /\ \A w \in Workers : wpc[w] \in {"off", "done"}
  /\ \/ isAbort /\ Settle("discard", firstError) /\ UNCHANGED cancel
     \/ ~isAbort /\ cancel = "abort" /\ Settle("discard", "canceled") /\ UNCHANGED cancel
     \/ ~isAbort /\ cancel \in {"pause", "calling"} /\ Return("canceled")
     \/ ~isAbort /\ ~isSuccess /\ cancel \in {"no", "calling"} /\ Return(firstError)
     \/ ~isAbort /\ isSuccess /\ NotCancel
        /\ IF CrcMatches THEN Settle("finish", "none") ELSE Settle("discard", "crc")
  /\ UNCHANGED <<diskVars, mislaid, faults>>

MutantDiscardTempFirst ==
  /\ pc \in {"discard", "finish"}
  /\ pc' = IF pc = "discard" THEN "remove" ELSE "rename"
  /\ temp' = {} /\ tempExists' = "no"
  /\ UNCHANGED <<object, ckptFile, file, callVars, mislaid, faults>>

MutantDiscardKeepsCheckpoint ==
  /\ pc \in {"discard", "finish"}
  /\ pc' = IF pc = "discard" THEN "remove" ELSE "rename"
  /\ UNCHANGED <<object, diskVars, callVars, mislaid, faults>>

\* The checkpoint goes before the temporary file, whether that is removed or
\* renamed.
DiscardCheckpoint ==
  /\ pc \in {"discard", "finish"}
  /\ pc' = IF pc = "discard" THEN "remove" ELSE "rename"
  /\ DeleteCheckpointFile
  /\ UNCHANGED <<object, temp, tempExists, file, callVars>>

RemoveTemp ==
  /\ pc = "remove"
  /\ \/ temp' = {} /\ tempExists' = "no" /\ NoFault
     \/ Fault /\ UNCHANGED <<temp, tempExists>>
  /\ Return(result)
  /\ UNCHANGED <<ckptFile, file, mislaid>>

\* rename(), and the callback that may throw out of downloadFile.
RenameTemp ==
  /\ pc = "rename"
  /\ \/ /\ tempExists = "yes" /\ file' = temp /\ temp' = {} /\ tempExists' = "no"
        /\ \/ NoFault /\ Return("success")
           \/ Fault /\ Return("rename")
     \/ /\ \/ tempExists = "no" /\ NoFault
           \/ tempExists = "yes" /\ Fault
        /\ Return("rename")
        /\ UNCHANGED <<temp, tempExists, file>>
  /\ UNCHANGED <<ckptFile, mislaid>>

-----------------------------------------------------------------------------
(* The environment                                                         *)

\* MyCancelHook::Cancel: only the first call counts, and it sets isCall_ first.
Cancel ==
  /\ pc # "idle"
  /\ \/ cancel = "no" /\ Fault /\ cancel' \in {"pause", "calling"}
     \/ cancel = "calling" /\ NoFault /\ cancel' = "abort"
  /\ UNCHANGED <<object, diskVars, pc, input, ver, ckpt, front, flagVars, workerVars,
                 result, countVars, mislaid>>

\* The process dies: the files are left, one that was being dumped is cut short.
Crash ==
  /\ pc # "idle" /\ Fault
  /\ Return("crashed")
  /\ \/ UNCHANGED ckptFile
     \/ Enabled /\ PartsOf("dump") # {} /\ ckptFile' = NoCheckpoint
  /\ UNCHANGED <<temp, tempExists, file, mislaid>>

\* The object is overwritten, between calls or under one.
ObjectChanges ==
  /\ object < MaxVersion /\ object' = object + 1
  /\ UNCHANGED <<diskVars, pc, callVars, mislaid, faults>>

Worker(w) ==
  \/ TakePart(w) \/ GetPart(w) \/ StopAfterGet(w) \/ WritePart(w) \/ OpenFails(w)
  \/ SetPart(w) \/ Dump(w) \/ PartAborted(w) \/ PartFailed(w)

Caller ==
  \/ TruncateTemp \/ ForgetCheckpoint \/ LaunchFails \/ LaunchDone \/ Join
  \/ DiscardCheckpoint \/ RemoveTemp \/ RenameTemp
  \/ \E w \in Workers : Launch(w)

Next ==
  \/ StartDownload \/ StartFails \/ Caller \/ Cancel \/ Crash \/ ObjectChanges
  \/ \E w \in Workers : Worker(w)

Spec == Init /\ [][Next]_vars

-----------------------------------------------------------------------------
(* Properties                                                              *)

DiskTypeOK ==
  /\ object \in 1..MaxVersion /\ ckptFile \in Checkpoints
  /\ temp \subseteq Cells /\ file \subseteq Cells /\ tempExists \in {"yes", "no"}
  /\ mislaid \subseteq {"size", "off", "kept", "write"} /\ faults \in 0..MaxFaults

CallTypeOK ==
  /\ pc \in {"idle", "truncate", "forget", "spawn", "join", "discard", "remove", "finish", "rename"}
  /\ input \in [size: PartSizes, enable: Enables]
  /\ ver \in Versions /\ ckpt \in Checkpoints /\ front \in 1..(ObjectSize + 1)
  /\ flags \subseteq {"abort", "failed"} /\ firstError \in PartErrors \cup {"none"}
  /\ cancel \in {"no", "pause", "calling", "abort"}
  /\ result \in Results /\ runs \in 0..MaxRuns /\ fails \in Nat

WorkerTypeOK ==
  /\ wpc \in [Workers -> {"off", "loop", "get", "received", "retryable", "fatal", "setting",
                          "dump", "done"}]
  /\ wpart \in [Workers -> 0..ObjectSize] /\ wver \in [Workers -> Versions]

\* Every variable keeps its type: parts stay in the file, units in their cells.
TypeOK == DiskTypeOK /\ CallTypeOK /\ WorkerTypeOK

\* The bytes a checkpoint vouches for, of a version that may differ from the one
\* it stands for if the object changed meanwhile.
Vouched(c) ==
  UNION {{<<u, u, c.part[p]>> : u \in RangeOf(p, c.size)} : p \in {q \in Parts : c.part[q] > 0}}

\* At any instant a crash may leave it, what a checkpoint that the next call would
\* resume from calls completed is in the temporary file, at its place: it will not
\* be fetched again, and the CRC64 compared is of the bytes received, not the file.
CheckpointIsOnDisk ==
  mislaid = {} /\ IsValid(ckptFile, object) => tempExists = "yes" /\ Vouched(ckptFile) \subseteq temp

\* The file only becomes the whole object, in the version HEAD saw, and success
\* is only answered when it did; as far as a CRC64 can tell.
FileIsObject ==
  result = "success" /\ ver \in WithCrc => file = Whole(ver)

\* The same when the temporary file was never written or emptied behind the
\* checkpoint's back.
FileIsObjectUnlessMislaid ==
  [][file' # file /\ ver \in WithCrc /\ mislaid = {} => file' = Whole(ver)]_vars

\* Downloads never wedge: each fault, and each change of the object, costs at most
\* the call it hits and one more that finds a stale checkpoint and clears it.
FailuresPaid == mislaid = {} => fails <= 2 * (faults + object - 1)
=============================================================================
