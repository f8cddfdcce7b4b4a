----------------------------- MODULE RemoteCall -----------------------------
(* What a synchronous call of the SDK promises, whatever its retries: the    *)
(* service applies the whole body of the request or nothing, an operation    *)
(* that must not be repeated takes effect once at most, success is only      *)
(* answered for what took effect, and the call is answered.                  *)
EXTENDS Naturals, Sequences

CONSTANTS
  Callers,
  Body,        \* the body of a request
  MaxRetry     \* Config::maxRetryCount_

VARIABLES
  kind,        \* what each caller asks for: "put", "complete", "append" or "get"
  effects,     \* the bodies the service applied for each caller, in order
  answer,      \* "none", "ok" or "error"
  unable       \* the client has no handle to send anything with

vars == <<kind, effects, answer, unable>>

Init ==
  /\ kind \in [Callers -> {"put", "complete", "append", "get"}]
  /\ effects = [c \in Callers |-> <<>>]
  /\ answer = [c \in Callers |-> "none"]
  /\ unable \in BOOLEAN

Apply(c) ==
  /\ answer[c] = "none" /\ kind[c] # "get"
  /\ Len(effects[c]) <= (IF kind[c] = "append" THEN 0 ELSE MaxRetry)
  /\ effects' = [effects EXCEPT ![c] = Append(@, Body)]
  /\ UNCHANGED <<kind, answer, unable>>

AnswerOk(c) ==
  /\ answer[c] = "none"
  /\ kind[c] = "get" \/ effects[c] # <<>>
  /\ answer' = [answer EXCEPT ![c] = "ok"]
  /\ UNCHANGED <<kind, effects, unable>>

AnswerError(c) ==
  /\ answer[c] = "none"
  /\ answer' = [answer EXCEPT ![c] = "error"]
  /\ UNCHANGED <<kind, effects, unable>>

HandlesCome == unable' = ~ unable /\ UNCHANGED <<kind, effects, answer>>

Next == HandlesCome \/ \E c \in Callers : Apply(c) \/ AnswerOk(c) \/ AnswerError(c)

Safety == Init /\ [][Next]_vars

Answered == []<>~ unable => \A c \in Callers : <>(answer[c] # "none")

Spec == Safety /\ Answered
=============================================================================
