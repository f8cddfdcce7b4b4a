------------------------------ MODULE FileSink ------------------------------
(* A download into a file through an io_uring (tos_async/FileTransfer.cpp,   *)
(* IoUringFileRangeSink and IoUringExecutor; TosAsyncClient.cpp,             *)
(* getObjectToFile).                                                         *)
(*                                                                           *)
(* Four kinds of threads meet in the sink. The transport's worker calls      *)
(* Write with the bytes of the body and FinishAsync when the request has     *)
(* ended. The completion thread of the executor reaps what the kernel wrote. *)
(* A detached thread finalizes, where the completion thread must not. The    *)
(* user may cancel. The sink pauses the transfer through its AsyncEvent when *)
(* io_depth writes are in flight and resumes it when one is done.            *)
(* A step is one critical section of the sink's mutex, one call of the       *)
(* executor or one signal to the event, made outside the mutex.              *)
EXTENDS Naturals, FiniteSets, Sequences, FiniteSetsExt

CONSTANTS
  Length,       \* units of the body
  ChunkSize,    \* units of one local write
  IoDepth,      \* writes in flight, at most
  MaxFaults     \* bound: failures of the network, the disk, hooks, submissions

ASSUME SinkAssumption ==
  /\ Length \in Nat /\ MaxFaults \in Nat
  /\ ChunkSize \in Nat \ {0} /\ IoDepth \in Nat \ {0}

VARIABLES
  \* the sink, under mu_
  accepted,     \* accepted_bytes_
  active,       \* units in active_write_
  inflight,     \* inflight_writes_, pieces [at, len] of the body
  abandoned,    \* history: pieces that FailWrite took out of inflight
  completed,    \* completed_bytes_
  waiting,      \* waiting_event_ is set
  known,        \* active_event_ is set
  failed,       \* the status of result_ is not ok
  canceled,     \* canceled_
  finished,     \* "no", or final_network_status_: "ok", "error"
  callback,     \* finish_callback_ is set
  answers,      \* results given to finish_callback_, in order: [ok, by]
  \* the executor
  kernel,       \* requests in the ring whose completion was not reaped
  live,         \* those of them in the executor's inflight_ table
  file,         \* units on the disk
  \* the event of the request and the threads
  event,        \* "clear", "paused", "failed", or "gone" with its request
  transport,    \* [pc, pieces, finalize] of the transport's worker
  completer,    \* [pc, piece, ok, signal, next, finalize], completion thread
  finalizers,   \* detached threads about to call Finalize
  user,         \* [pc, signal, finalize] of the thread that cancels
  faults

sink    == <<accepted, active, inflight, completed, waiting, known, failed,
             canceled, finished, callback, answers, abandoned>>
ring    == <<kernel, live, file>>
threads == <<transport, completer, finalizers, user>>
vars    == <<sink, ring, event, threads, faults>>

Piece(at, len) == [at |-> at, len |-> len]
NoPiece   == Piece(0, 0)
Cells(p)  == p.at .. p.at + p.len - 1
AllOf(ps) == UNION {Cells(p) : p \in ps}
Idle      == [pc |-> "idle", piece |-> NoPiece, ok |-> TRUE, signal |-> "none",
              next |-> NoPiece, finalize |-> FALSE]

Init ==
  /\ accepted = 0 /\ active = 0 /\ completed = 0
  /\ inflight = {} /\ abandoned = {}
  /\ waiting = FALSE /\ known = FALSE /\ failed = FALSE /\ canceled = FALSE
  /\ finished = "no" /\ callback = FALSE /\ answers = <<>>
  /\ kernel = {} /\ live = {} /\ file = {}
  /\ event = "clear"
  /\ transport = [pc |-> "open", pieces |-> {}, finalize |-> FALSE]
  /\ completer = Idle
  /\ finalizers = 0
  /\ user = [pc |-> "ready", signal |-> FALSE, finalize |-> FALSE]
  /\ faults = 0

Fault == faults < MaxFaults /\ faults' = faults + 1

(* AsyncEvent: a failure is sticky, a resume ends a pause. The event is part *)
(* of the transport's request and freed with it; the sink keeps the pointer, *)
(* and what a signal does then is lost here.                                 *)
Signal(what) ==
  event' = CASE event = "gone" -> "gone"
             [] event # "gone" /\ what = "fail" -> "failed"
             [] event = "paused" /\ what = "resume" -> "clear"
             [] OTHER -> event

(* SubmitBatch. Every request has an entry in the ring and in the executor's *)
(* table. When io_uring_submit fails, the table forgets those that were not  *)
(* submitted; their entries stay in the ring and go with the next batch.     *)
SubmitBatch(pieces) ==
  /\ kernel' = kernel \cup pieces
  /\ live' = live \cup pieces
  /\ UNCHANGED file

(* The submission does not happen: a hook vetoes it or the executor refuses  *)
(* it, or it ends half way.                                                  *)
SubmitFails(pieces) ==
  \/ UNCHANGED ring
  \/ /\ kernel' = kernel \cup pieces
     /\ \E sent \in {{}} \cup {{p \in pieces : p.at <= q.at} : q \in pieces} :
          sent # pieces /\ live' = live \cup sent
     /\ UNCHANGED file

(* FailWrite, up to the Finalize that follows it.                            *)
FailWrite(ev) ==
  /\ abandoned' = abandoned \cup inflight
  /\ inflight' = {} /\ active' = 0
  /\ failed' = TRUE
  /\ IF ev THEN Signal("fail") ELSE UNCHANGED event
  /\ UNCHANGED <<accepted, completed, waiting, known, canceled, finished, callback, answers>>

Quiet == finished # "no" /\ active = 0 /\ inflight = {}

(* Finalize on the thread by: nothing if there is work left; else the result *)
(* is final, the file is cut to the bytes that were written (which may fail) *)
(* and the finish callback, if nobody took it, gets the result.              *)
Finalize(by) ==
  \/ ~ Quiet /\ UNCHANGED <<sink, file, faults>>
  \/ /\ Quiet
     /\ \/ /\ finished = "ok" /\ ~ failed
           /\ \/ /\ file' = {c \in file : c < completed}
                 /\ UNCHANGED <<failed, faults>>
              \/ Fault /\ failed' = TRUE /\ UNCHANGED file
        \/ /\ finished = "error" \/ failed
           /\ failed' = TRUE
           /\ UNCHANGED <<file, faults>>
     /\ answers' = IF callback THEN Append(answers, [ok |-> ~ failed', by |-> by])
                               ELSE answers
     /\ callback' = FALSE
     /\ UNCHANGED <<accepted, active, inflight, abandoned, completed, waiting,
                    known, canceled, finished>>

(***************************************************************************)
(* The transport's worker                                                  *)
(***************************************************************************)
\* Mutants, here and below, are plausible bugs: each breaks a property of a run.
MutantSlotsOffByOne == IoDepth + 1 - Cardinality(inflight)
Slots == IoDepth - Cardinality(inflight)

(* Write, given n units: refused; paused, io_depth pieces being in flight;   *)
(* or taken in, whole pieces going to the ring while it has a slot, the rest *)
(* kept in active_write_, and the transfer paused if not all fits.           *)
RefuseBytes ==
  /\ canceled \/ failed
  /\ Signal("fail")
  /\ UNCHANGED <<accepted, active, inflight, waiting, transport>>

PauseBytes ==
  /\ ~ canceled /\ ~ failed /\ Slots = 0
  /\ waiting' = TRUE
  /\ event' = "paused"
  /\ UNCHANGED <<accepted, active, inflight, transport>>

TakeBytes(n) ==
  /\ ~ canceled /\ ~ failed /\ Slots > 0
  /\ LET took == Min({n, (Slots + 1) * ChunkSize - active})
         whole == Min({Slots, (active + took) \div ChunkSize})
         pieces == {Piece(accepted - active + i * ChunkSize, ChunkSize) : i \in 0 .. whole - 1}
     IN /\ accepted' = accepted + took
        /\ active' = active + took - whole * ChunkSize
        /\ inflight' = inflight \cup pieces
        /\ waiting' = (waiting \/ took < n)
        /\ event' = IF took < n THEN "paused" ELSE event
        /\ transport' = IF pieces = {} THEN transport
                        ELSE [transport EXCEPT !.pc = "submit", !.pieces = pieces]

Write ==
  /\ transport.pc = "open" /\ event = "clear"
  /\ known' = TRUE
  /\ \E n \in 1 .. Length - accepted : RefuseBytes \/ PauseBytes \/ TakeBytes(n)
  /\ UNCHANGED <<abandoned, completed, failed, canceled, finished, callback, answers,
                 ring, completer, finalizers, user, faults>>

(* SubmitPreparedWrites of Write (with the event) and SubmitPreparedWrite of *)
(* FinishAsync (without it).                                                 *)
TransportSubmit ==
  /\ transport.pc \in {"submit", "last"}
  /\ LET next == [transport EXCEPT !.pieces = {},
                    !.pc = IF transport.pc = "submit" THEN "open" ELSE "finalize"]
         vetoed == [next EXCEPT !.pc = IF transport.pc = "submit" THEN "undo" ELSE "undo last"]
     IN \/ /\ SubmitBatch(transport.pieces)
           /\ transport' = next
           /\ UNCHANGED <<sink, event, faults>>
        \/ /\ Fault
           /\ SubmitFails(transport.pieces)
           /\ FailWrite(transport.pc = "submit")
           /\ transport' = vetoed
  /\ UNCHANGED <<completer, finalizers, user>>

(* The Finalize at the end of FailWrite.                                     *)
TransportUndo ==
  /\ transport.pc \in {"undo", "undo last"}
  /\ Finalize("transport")
  /\ transport' = [transport EXCEPT !.pc = IF transport.pc = "undo" THEN "open" ELSE "finalize"]
  /\ UNCHANGED <<kernel, live, event, completer, finalizers, user>>

(* The request ends, and FinishAsync is called from its completion: the body *)
(* is complete, or the event failed, or the network did. An event may still  *)
(* be paused when the network fails.                                         *)
Finish(status) ==
  /\ transport.pc = "open"
  /\ finished' = status
  /\ callback' = TRUE
  /\ LET take == status = "ok" /\ active > 0 /\ Slots > 0
         tail == IF take THEN {Piece(accepted - active, active)} ELSE {}
     IN /\ active' = IF take \/ status = "error" THEN 0 ELSE active
        /\ inflight' = inflight \cup tail
        /\ transport' = [pc |-> IF take THEN "last" ELSE "finalize", pieces |-> tail,
                         finalize |-> active' = 0 /\ inflight' = {}]
  /\ UNCHANGED <<accepted, abandoned, completed, waiting, known, failed, canceled, answers,
                 ring, event, completer, finalizers, user>>

FinishAsync ==
  /\ \/ accepted = Length /\ event = "clear" /\ Finish("ok")
     \/ event = "failed" /\ Finish("error")
  /\ UNCHANGED faults

NetworkFails == event # "failed" /\ Fault /\ Finish("error")

(* The Finalize of FinishAsync, if it is due.                                *)
TransportFinalize ==
  /\ transport.pc = "finalize"
  /\ IF transport.finalize THEN Finalize("transport") ELSE UNCHANGED <<sink, file, faults>>
  /\ transport' = [transport EXCEPT !.pc = "retire", !.finalize = FALSE]
  /\ UNCHANGED <<kernel, live, event, completer, finalizers, user>>

(* The request is retired with its event.                                    *)
Retire ==
  /\ transport.pc = "retire"
  /\ event' = "gone"
  /\ transport' = [transport EXCEPT !.pc = "ended"]
  /\ UNCHANGED <<sink, ring, completer, finalizers, user, faults>>

(***************************************************************************)
(* The completion thread: CompletionLoop, then CompleteWrite               *)
(***************************************************************************)
(* A completion is reaped; its request is looked up in the table, where one  *)
(* of a failed submission is not found.                                      *)
Reap ==
  /\ completer.pc = "idle"
  /\ \E p \in kernel, ok \in BOOLEAN :
       /\ kernel' = kernel \ {p}
       /\ live' = live \ {p}
       /\ file' = IF ok THEN file \cup Cells(p) ELSE file
       /\ IF ok THEN UNCHANGED faults ELSE Fault
       /\ completer' = IF p \in live THEN [Idle EXCEPT !.pc = "look", !.piece = p, !.ok = ok]
                                     ELSE Idle
  /\ UNCHANGED <<sink, event, transport, finalizers, user>>

(* The first critical section. A piece nobody waits for is dropped; after a  *)
(* cancel the last one of a finished transfer sees to the final result;      *)
(* otherwise the hooks after the write are called, which may fail.           *)
Look ==
  /\ completer.pc = "look"
  /\ LET p == completer.piece IN
       \/ /\ p \notin inflight \/ canceled
          /\ inflight' = inflight \ {p}
          /\ finalizers' = IF p \in inflight /\ finished # "no" /\ inflight' = {}
                           THEN finalizers + 1 ELSE finalizers
          /\ completer' = Idle
          /\ UNCHANGED faults
       \/ /\ p \in inflight /\ ~ canceled
          /\ \/ completer' = [completer EXCEPT !.pc = "account"] /\ UNCHANGED faults
             \/ completer.ok /\ Fault /\ completer' = [completer EXCEPT !.pc = "account", !.ok = FALSE]
          /\ UNCHANGED <<inflight, finalizers>>
  /\ UNCHANGED <<accepted, active, abandoned, completed, waiting, known, failed, canceled,
                 finished, callback, answers, ring, event, transport, user>>

MutantWrittenKeepsActive ==
  /\ completer.ok
  /\ completed' = completed + completer.piece.len
  /\ LET take == active > 0 /\ (finished # "no" \/ active >= ChunkSize)
         tail == IF take THEN Piece(accepted - active, active) ELSE NoPiece
         left == inflight \ {completer.piece}
     IN /\ inflight' = IF take THEN left \cup {tail} ELSE left
        /\ completer' = [completer EXCEPT !.pc = "signal", !.next = tail,
                           !.signal = IF waiting THEN "resume" ELSE "none",
                           !.finalize = finished # "no" /\ inflight' = {}]
  /\ UNCHANGED <<active, failed>>
(* The second critical section: the piece is accounted for, and the slot it  *)
(* leaves goes to active_write_ if that is full, or the last.                *)
Written ==
  /\ completer.ok
  /\ completed' = completed + completer.piece.len
  /\ LET take == active > 0 /\ (finished # "no" \/ active >= ChunkSize)
         tail == IF take THEN Piece(accepted - active, active) ELSE NoPiece
         left == inflight \ {completer.piece}
     IN /\ active' = IF take THEN 0 ELSE active
        /\ inflight' = IF take THEN left \cup {tail} ELSE left
        /\ completer' = [completer EXCEPT !.pc = "signal", !.next = tail,
                           !.signal = IF waiting THEN "resume" ELSE "none",
                           !.finalize = finished # "no" /\ active' = 0 /\ inflight' = {}]
  /\ UNCHANGED failed

MutantNotWrittenForgets ==
  /\ ~ completer.ok
  /\ inflight' = inflight \ {completer.piece}
  /\ completer' = [completer EXCEPT !.pc = "signal",
                     !.finalize = finished # "no" /\ active = 0 /\ inflight' = {}]
  /\ UNCHANGED <<active, completed, failed>>
NotWritten ==
  /\ ~ completer.ok
  /\ failed' = TRUE
  /\ inflight' = inflight \ {completer.piece}
  /\ completer' = [completer EXCEPT !.pc = "signal",
                     !.signal = IF waiting \/ known THEN "fail" ELSE "none",
                     !.finalize = finished # "no" /\ active = 0 /\ inflight' = {}]
  /\ UNCHANGED <<active, completed>>

Account ==
  /\ completer.pc = "account"
  /\ \/ /\ completer.piece \notin inflight
        /\ completer' = Idle
        /\ UNCHANGED <<active, inflight, completed, waiting, failed>>
     \/ /\ completer.piece \in inflight
        /\ Written \/ NotWritten
        /\ waiting' = FALSE
  /\ UNCHANGED <<accepted, abandoned, known, canceled, finished, callback, answers,
                 ring, event, transport, finalizers, user, faults>>

MutantSignalNothing == completer.pc = "signal" /\ completer' = [completer EXCEPT !.pc = "next"]
                      /\ UNCHANGED <<sink, ring, event, transport, finalizers, user, faults>>
(* Outside the lock: the event is told.                                      *)
SignalEvent ==
  /\ completer.pc = "signal"
  /\ Signal(completer.signal)
  /\ completer' = [completer EXCEPT !.pc = "next"]
  /\ UNCHANGED <<sink, ring, transport, finalizers, user, faults>>

MutantNobodyFinalizes ==
  /\ completer.pc = "next" /\ completer.next = NoPiece
  /\ completer' = Idle
  /\ UNCHANGED <<sink, ring, event, faults, finalizers, transport, user>>
(* Then the piece taken from active_write_ is submitted, or a thread of its  *)
(* own is started to finalize.                                               *)
SubmitNext ==
  /\ completer.pc = "next"
  /\ \/ /\ completer.next = NoPiece
        /\ completer' = Idle
        /\ finalizers' = IF completer.finalize THEN finalizers + 1 ELSE finalizers
        /\ UNCHANGED <<sink, ring, event, faults>>
     \/ /\ completer.next # NoPiece
        /\ \/ /\ SubmitBatch({completer.next})
              /\ completer' = Idle
              /\ UNCHANGED <<sink, event, faults>>
           \/ /\ Fault
              /\ SubmitFails({completer.next})
              /\ FailWrite(completer.signal # "none")
              /\ completer' = [completer EXCEPT !.pc = "undo"]
        /\ UNCHANGED finalizers
  /\ UNCHANGED <<transport, user>>

CompleterUndo ==
  /\ completer.pc = "undo"
  /\ Finalize("completion thread")
  /\ completer' = Idle
  /\ UNCHANGED <<kernel, live, event, transport, finalizers, user>>

(* The detached thread of FinalizeAfterCompletion.                           *)
DetachedFinalize ==
  /\ finalizers > 0
  /\ finalizers' = finalizers - 1
  /\ Finalize("detached thread")
  /\ UNCHANGED <<kernel, live, event, transport, completer, user>>

MutantCancelClears ==
  /\ user.pc = "ready"
  /\ canceled' = TRUE /\ failed' = TRUE
  /\ waiting' = FALSE
  /\ active' = 0 /\ inflight' = {}
  /\ user' = [pc |-> "signal", signal |-> waiting \/ known, finalize |-> finished # "no"]
  /\ UNCHANGED <<accepted, abandoned, completed, known, finished, callback, answers,
                 ring, event, transport, completer, finalizers, faults>>
(***************************************************************************)
(* The user, through FileTransferControl                                   *)
(***************************************************************************)
Cancel ==
  /\ user.pc = "ready"
  /\ canceled' = TRUE /\ failed' = TRUE
  /\ waiting' = FALSE
  /\ active' = 0
  /\ user' = [pc |-> "signal", signal |-> waiting \/ known,
              finalize |-> finished # "no" /\ inflight = {}]
  /\ UNCHANGED <<accepted, inflight, abandoned, completed, known, finished, callback, answers,
                 ring, event, transport, completer, finalizers, faults>>

CancelSignal ==
  /\ user.pc = "signal"
  /\ IF user.signal THEN Signal("fail") ELSE UNCHANGED event
  /\ user' = [user EXCEPT !.pc = "finalize"]
  /\ UNCHANGED <<sink, ring, transport, completer, finalizers, faults>>

CancelFinalize ==
  /\ user.pc = "finalize"
  /\ IF user.finalize THEN Finalize("user") ELSE UNCHANGED <<sink, file, faults>>
  /\ user' = [user EXCEPT !.pc = "over"]
  /\ UNCHANGED <<kernel, live, event, transport, completer, finalizers>>

-----------------------------------------------------------------------------
Transport == Write \/ TransportSubmit \/ TransportUndo \/ FinishAsync \/ TransportFinalize \/ Retire
Completer == Reap \/ Look \/ Account \/ SignalEvent \/ SubmitNext \/ CompleterUndo
User      == Cancel \/ CancelSignal \/ CancelFinalize

Next == Transport \/ NetworkFails \/ Completer \/ DetachedFinalize \/ User

Spec == Init /\ [][Next]_vars

(* Every thread goes on; the kernel completes what it was given; the body    *)
(* goes on arriving. Nobody has to cancel, and the network need not fail.    *)
FairSpec ==
  /\ Spec
  /\ WF_vars(Transport) /\ WF_vars(Completer) /\ WF_vars(DetachedFinalize)
  /\ WF_vars(CancelSignal \/ CancelFinalize)
-----------------------------------------------------------------------------
Body   == 0 .. Length - 1
Pieces == {p \in [at : 0 .. Length, len : 0 .. ChunkSize] : p.at + p.len <= Length}

(* Every variable keeps its type, and a slot is never taken twice: at most   *)
(* io_depth pieces are in flight (Write, FinishAsync and CompleteWrite all   *)
(* take a slot, on two threads).                                             *)
TypeOK ==
  /\ accepted \in 0 .. Length /\ active \in 0 .. ChunkSize /\ completed \in 0 .. Length
  /\ inflight \subseteq Pieces /\ Cardinality(inflight) <= IoDepth
  /\ kernel \subseteq Pieces /\ live \subseteq kernel /\ file \subseteq Body
  /\ {waiting, known, failed, canceled, callback} \subseteq BOOLEAN
  /\ finished \in {"no", "ok", "error"}
  /\ event \in {"clear", "paused", "failed", "gone"}
  /\ transport.pc \in {"open", "submit", "undo", "last", "undo last", "finalize", "retire", "ended"}
  /\ completer.pc \in {"idle", "look", "account", "signal", "next", "undo"}
  /\ user.pc \in {"ready", "signal", "finalize", "over"}
  /\ finalizers \in Nat /\ faults \in 0 .. MaxFaults

(* Until something fails, every byte the sink took in is in one place: it was *)
(* written, it is in one piece in flight, or it is in active_write_, which   *)
(* holds the last bytes. Nothing is lost or written twice when Write,        *)
(* FinishAsync and CompleteWrite hand active_write_ on.                      *)
EveryByteHasOnePlace ==
  ~ failed /\ finished # "error" =>
    LET held == accepted - active .. accepted - 1
        flying == AllOf(inflight)
    IN /\ held \cap flying = {}
       /\ \A p, q \in inflight : p # q => Cells(p) \cap Cells(q) = {}
       /\ completed = accepted - active - Cardinality(flying)
       /\ (0 .. accepted - 1) \ (held \cup flying) \subseteq file

(* The finish callback of getObjectToFile is called once, and it gets a      *)
(* success only when the whole body is in the file and no write is left in   *)
(* the ring to change it.                                                    *)
SuccessIsTheWholeFile ==
  /\ Len(answers) <= 1
  /\ \A i \in 1 .. Len(answers) : answers[i].ok => file = Body /\ kernel = {}

(* The result is given when the ring holds no more request of the sink,      *)
(* except those FailWrite gave up: their completions still call the sink.    *)
DrainedWhenAnswered == answers # <<>> => live \subseteq abandoned

(* "do not run it on the io_uring completion thread" (the finish callback,   *)
(* FinalizeAfterCompletion).                                                 *)
NotOnTheCompletionThread == \A i \in 1 .. Len(answers) : answers[i].by # "completion thread"

(* A transfer the sink has paused is resumed or failed: a request is not     *)
(* left in the paused queue for a signal that will never come (AsyncEvent,   *)
(* markFailed).                                                              *)
PauseEnds == event = "paused" ~> event # "paused"

(* The same, except for the transfer CompleteWrite forgets: a piece of       *)
(* active_write_ could not be submitted, FailWrite had no event to fail, and *)
(* nothing is in flight whose completion would look at waiting_event_.       *)
Forgotten == failed /\ waiting /\ inflight = {}
PauseEndsUnlessForgotten == event = "paused" ~> (event # "paused" \/ Forgotten)

(* A transfer that was finished gets its result, unless all the writes in    *)
(* flight failed while a last piece waited for a slot.                       *)
Stranded == failed /\ active > 0 /\ inflight = {}
FinishIsAnswered == finished # "no" ~> (answers # <<>> \/ Stranded)
=============================================================================
