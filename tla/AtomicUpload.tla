---------------------------- MODULE AtomicUpload ----------------------------
(***************************************************************************)
(* What uploadFile promises its caller, whatever the threads, the server   *)
(* and the checkpoint file do: the object only ever changes to the whole   *)
(* content of the source file of the call in progress, "success" is only   *)
(* answered when the object is that content, and every call returns.       *)
(***************************************************************************)
EXTENDS Naturals

CONSTANT Parts    \* the parts a content is made of

VARIABLES
  file,      \* version of the source file
  object,    \* what the object holds: the version each part comes from
  busy,      \* a call of uploadFile is in progress
  answer     \* what the last call returned: "none", "success" or "failure"

vars == <<file, object, busy, answer>>

Whole(v) == [p \in Parts |-> v]

Init ==
  /\ file = 1 /\ object = Whole(0)
  /\ busy = FALSE /\ answer = "none"

Change ==
  /\ ~busy /\ file' = file + 1
  /\ UNCHANGED <<object, busy, answer>>

Call ==
  /\ ~busy /\ busy' = TRUE /\ answer' = "none"
  /\ UNCHANGED <<file, object>>

\* The server makes the parts the object; the call may already have failed.
Publish ==
  /\ busy /\ object' = Whole(file)
  /\ UNCHANGED <<file, busy, answer>>

Succeed ==
  /\ busy /\ object = Whole(file)
  /\ busy' = FALSE /\ answer' = "success"
  /\ UNCHANGED <<file, object>>

\* A call can fail after the object changed: the answer was lost.
Fail ==
  /\ busy /\ busy' = FALSE /\ answer' = "failure"
  /\ object' \in {object, Whole(file)}
  /\ UNCHANGED file

Return == Succeed \/ Fail

Next == Change \/ Call \/ Publish \/ Return

Safety == Init /\ [][Next]_vars
Spec   == Safety /\ WF_vars(Return)
=============================================================================
