---------------------- MODULE ProcessingPipelineProofs ----------------------
(***************************************************************************)
(* Proofs about ProcessingPipeline, for any number of uses and attempts.   *)
(***************************************************************************)
EXTENDS ProcessingPipeline, Integers, FiniteSetTheorems, TLAPS

Exec(g, n)  == <<g, n, "exec">>
Done(g, n)  == <<g, n, "done">>
Again(g, n) == <<g, n, "again">>
Data(g, n)  == <<g, n, "data">>

Unsent    == {"out", "called", "entered", "attempt"}
Undecided == {"out", "called", "entered", "response"}

-----------------------------------------------------------------------------
(* The chain of attempts: which scopes may be where.                         *)

\* A scope of each kind is only where its code can be.
PlacesOfKinds ==
  \A s \in Scopes :
    /\ pc[s] \in {"attempt", "sending", "finish"} => s[3] = "exec"
    /\ pc[s] = "retrying" => s[3] = "done" /\ s[2] < MaxAttempts
    /\ pc[s] = "response" => s[3] \in {"done", "again"}
    /\ pc[s] = "check" => s[3] \in {"done", "again"}
    /\ pc[s] # "out" => s[1] <= gen

\* An attempt is sent before it is completed, and completed before a retry.
ChainAt(g, n) ==
  /\ pc[Exec(g, n)] \in Unsent => /\ <<g, n>> \notin flight
                                  /\ pc[Done(g, n)] = "out" /\ pc[Data(g, n)] = "out"
  /\ <<g, n>> \in flight => pc[Done(g, n)] = "out"
  /\ pc[Exec(g, n)] \in {"answer", "finish"} => <<g, n>> \notin flight
  /\ n + 1 \in Attempts /\ pc[Done(g, n)] \in Undecided => pc[Exec(g, n + 1)] = "out"
  /\ n > 1 /\ pc[Exec(g, n)] # "out" => pc[Done(g, 1)] # "out"
  /\ pc[Again(g, n)] # "out" => pc[Done(g, n)] = "left"
  /\ pc[Data(g, n)] \in {"called", "entered", "answer"} => <<g, n>> \in flight

Chain == \A g \in Gens, n \in Attempts : ChainAt(g, n)

\* TypeOK but for active, of which only GateInv knows that it is not negative.
TypeBut ==
  /\ gen \in 0 .. Generations
  /\ object \in {"used", "cached", "deleted"}
  /\ called \in SUBSET Gens /\ pending \in SUBSET Gens /\ finished \in SUBSET Gens
  /\ active \in [Gens -> Int]
  /\ pc \in [Scopes -> Places]
  /\ flight \in SUBSET (Gens \X Attempts)
  /\ callbacks \in [Gens -> Nat]
  /\ cleanups \in [Gens -> Nat]

ChainInv == TypeBut /\ PlacesOfKinds /\ Chain

-----------------------------------------------------------------------------
(* The gate: who is counted, who is called.                                  *)

InsideOf(g) == {s \in Scopes : s[1] = g /\ pc[s] \in Inside}

Counted == \A g \in Gens : active[g] = Cardinality(InsideOf(g))

\* Cleanup is claimed after a finish, which follows the callback.
GateOrder ==
  /\ finished \subseteq pending
  /\ pending \subseteq called
  /\ \A s \in Scopes : pc[s] = "finish" => s[1] \in called
  /\ \A g \in called : g <= gen

CallbacksCounted == \A g \in Gens : callbacks[g] = IF g \in called THEN 1 ELSE 0

CleanupsCounted ==
  /\ \A g \in Gens : cleanups[g] \in {0, 1} /\ (cleanups[g] = 1 => g \in finished)
  /\ \A s \in Scopes : pc[s] = "cleanup" => s[1] \in finished /\ cleanups[s[1]] = 0
  /\ \A s, t \in Scopes : pc[s] = "cleanup" /\ pc[t] = "cleanup" /\ s[1] = t[1] => s = t

\* Every earlier use is over; the last one too if the object is not in use.
UsesInTurn ==
  /\ \A g \in Gens : g < gen => cleanups[g] = 1
  /\ object # "used" /\ gen > 0 => cleanups[gen] = 1
  /\ object = "used" => gen > 0 /\ cleanups[gen] = 0

GateInv ==
  /\ ChainInv /\ Counted /\ NobodyInsideAtCleanup /\ GateOrder
  /\ CallbacksCounted /\ CleanupsCounted /\ UsesInTurn

-----------------------------------------------------------------------------

-----------------------------------------------------------------------------
(* Scopes                                                                    *)

\* A scope is its use, its attempt and its kind; scopes of two kinds differ.
LEMMA ScopeFacts ==
  /\ \A s \in Scopes : /\ s[1] \in Gens /\ s[2] \in Attempts /\ s[3] \in Kinds
                       /\ s = <<s[1], s[2], s[3]>>
  /\ \A g \in Gens, n \in Attempts :
       /\ Exec(g, n) \in Scopes /\ Done(g, n) \in Scopes
       /\ Again(g, n) \in Scopes /\ Data(g, n) \in Scopes
       /\ Exec(g, n)[1] = g /\ Exec(g, n)[2] = n /\ Exec(g, n)[3] = "exec"
       /\ Done(g, n)[1] = g /\ Done(g, n)[2] = n /\ Done(g, n)[3] = "done"
       /\ Again(g, n)[1] = g /\ Again(g, n)[2] = n /\ Again(g, n)[3] = "again"
       /\ Data(g, n)[1] = g /\ Data(g, n)[2] = n /\ Data(g, n)[3] = "data"
  /\ \A g \in Gens, n \in Attempts, h \in Gens, m \in Attempts :
       /\ Exec(g, n) = Exec(h, m) => g = h /\ n = m
       /\ Done(g, n) = Done(h, m) => g = h /\ n = m
       /\ Again(g, n) = Again(h, m) => g = h /\ n = m
       /\ Data(g, n) = Data(h, m) => g = h /\ n = m
       /\ Exec(g, n) # Done(h, m) /\ Exec(g, n) # Again(h, m) /\ Exec(g, n) # Data(h, m)
       /\ Done(g, n) # Again(h, m) /\ Done(g, n) # Data(h, m) /\ Again(g, n) # Data(h, m)
BY DEF Scopes, Kinds, Exec, Done, Again, Data

\* Go moves one scope.
LEMMA GoMoves ==
  ASSUME TypeBut, NEW s \in Scopes, NEW p \in Places, Go(s, p)
  PROVE  /\ pc' \in [Scopes -> Places] /\ pc'[s] = p
         /\ \A t \in Scopes : t # s => pc'[t] = pc[t]
BY DEF TypeBut, Go

\* The same, scope by scope.
LEMMA GoOne ==
  ASSUME TypeBut, NEW s \in Scopes, NEW p \in Places, Go(s, p), NEW t \in Scopes
  PROVE  pc'[t] = IF t = s THEN p ELSE pc[t]
BY DEF TypeBut, Go

\* The retrying completion and the asyncExecute nested in it.
LEMMA RetryMoves ==
  ASSUME TypeBut, NEW s \in Scopes, s[3] = "done", s[2] < MaxAttempts,
         pc' = [pc EXCEPT ![s] = "retrying", ![<<s[1], s[2] + 1, "exec">>] = "called"]
  PROVE  /\ s[1] \in Gens /\ s[2] \in Attempts /\ s[2] + 1 \in Attempts
         /\ s = Done(s[1], s[2])
         /\ Exec(s[1], s[2] + 1) \in Scopes /\ s # Exec(s[1], s[2] + 1)
         /\ pc'[s] = "retrying" /\ pc'[Exec(s[1], s[2] + 1)] = "called"
         /\ \A t \in Scopes : t # s /\ t # Exec(s[1], s[2] + 1) => pc'[t] = pc[t]
<1>0. s[1] \in Gens /\ s[2] \in 1 .. MaxAttempts
  BY ScopeFacts DEF Attempts
<1>1. s[1] \in Gens /\ s[2] \in Attempts /\ s[2] + 1 \in Attempts
  BY <1>0, PipelineAssumption DEF Attempts, PipelineAssumption
<1>2. s = Done(s[1], s[2])
  BY ScopeFacts DEF Done
<1>3. Exec(s[1], s[2] + 1) \in Scopes /\ Exec(s[1], s[2] + 1)[3] = "exec"
  BY <1>1, ScopeFacts DEF Exec
<1>4. s # Exec(s[1], s[2] + 1)
  BY <1>3
<1> QED
  BY <1>1, <1>2, <1>3, <1>4 DEF TypeBut, Exec

-----------------------------------------------------------------------------
(* ChainInv                                                                  *)

\* At first no scope has begun.
LEMMA ChainInit == Init => ChainInv
<1> SUFFICES ASSUME Init PROVE ChainInv
  OBVIOUS
<1>1. TypeBut
  BY PipelineAssumption DEF PipelineAssumption, Init, TypeBut, Places, Inside
<1>2. PlacesOfKinds
  BY DEF Init, PlacesOfKinds
<1>3. Chain
  BY ScopeFacts DEF Init, Chain, ChainAt, Unsent, Undecided, Attempts
<1> QED
  BY <1>1, <1>2, <1>3 DEF ChainInv

\* Every step keeps the types.
LEMMA TypeStep == TypeBut /\ PlacesOfKinds /\ [Next]_vars => TypeBut'
<1> SUFFICES ASSUME TypeBut, PlacesOfKinds, [Next]_vars PROVE TypeBut'
  OBVIOUS
<1>1. ASSUME Acquire PROVE TypeBut'
  <2>1. gen + 1 \in 1 .. Generations /\ gen' \in 0 .. Generations /\ 1 \in Attempts
    BY <1>1, PipelineAssumption DEF Acquire, Attempts, TypeBut, PipelineAssumption
  <2>2. <<gen + 1, 1, "exec">> \in Scopes
    BY <2>1 DEF Scopes, Kinds, Gens
  <2>3. pc' \in [Scopes -> Places]
    BY <1>1, <2>2 DEF Acquire, Go, TypeBut, Places
  <2> QED
    BY <1>1, <2>1, <2>3 DEF Acquire, TypeBut, gate
<1>2. ASSUME NEW s \in Scopes, Step(s) PROVE TypeBut'
  <2>0. s[1] \in Gens /\ s[2] \in Attempts
    BY ScopeFacts
  <2>1. CASE Enter(s)
    <3>1. active' \in [Gens -> Int]
      BY <2>0, <2>1 DEF Enter, TypeBut
    <3>2. pc' \in [Scopes -> Places]
      BY <2>1 DEF Enter, Go, TypeBut, Places, Inside
    <3> QED
      BY <2>1, <3>1, <3>2 DEF Enter, TypeBut
  <2>2. CASE Test(s)
    BY <2>2 DEF Test, Go, TypeBut, Places, Inside, gate
  <2>3. CASE Attempt(s)
    <3>1. pc' \in [Scopes -> Places]
      BY <2>3 DEF Attempt, Go, TypeBut, Places, Inside
    <3> QED
      BY <2>0, <2>3, <3>1 DEF Attempt, TypeBut, gate
  <2>4. CASE SenderEnds(s)
    BY <2>4 DEF SenderEnds, Go, TypeBut, Places, Inside, gate
  <2>5. CASE Response(s)
    BY <2>5 DEF Response, Go, TypeBut, Places, Inside, gate
  <2>6. CASE Retried(s)
    BY <2>6 DEF Retried, Go, TypeBut, Places, Inside, gate
  <2>7. CASE Answer(s)
    <3>1. pc' \in [Scopes -> Places]
      BY <2>7 DEF Answer, Go, TypeBut, Places, Inside
    <3>2. called' \in SUBSET Gens
      BY <2>0, <2>7 DEF Answer, TypeBut
    <3>3. callbacks' \in [Gens -> Nat]
      BY <2>0, <2>7 DEF Answer, TypeBut
    <3> QED
      BY <2>7, <3>1, <3>2, <3>3 DEF Answer, TypeBut
  <2>8. CASE Finish(s)
    BY <2>0, <2>8 DEF Finish, Go, TypeBut, Places, Inside
  <2>9. CASE Leave(s)
    <3>1. active' \in [Gens -> Int]
      BY <2>0, <2>9 DEF Leave, TypeBut
    <3>2. finished' \in SUBSET Gens
      BY <2>0, <2>9 DEF Leave, TypeBut
    <3>3. pc' \in [Scopes -> Places]
      BY <2>9 DEF Leave, Go, TypeBut, Places, Inside
    <3> QED
      BY <2>9, <3>1, <3>2, <3>3 DEF Leave, TypeBut
  <2>10. CASE Cleanup(s)
    <3>1. pc' \in [Scopes -> Places]
      BY <2>10 DEF Cleanup, Go, TypeBut, Places, Inside
    <3>2. cleanups' \in [Gens -> Nat]
      BY <2>0, <2>10 DEF Cleanup, TypeBut
    <3> QED
      BY <2>10, <3>1, <3>2 DEF Cleanup, TypeBut, gate
  <2> QED
    BY <1>2, <2>1, <2>2, <2>3, <2>4, <2>5, <2>6, <2>7, <2>8, <2>9, <2>10 DEF Step
<1>3. ASSUME NEW g \in Gens, NEW n \in Attempts, Complete(g, n) PROVE TypeBut'
  BY <1>3 DEF Complete, Go, TypeBut, Places, Inside, gate
<1>4. ASSUME NEW g \in Gens, NEW n \in Attempts, DataError(g, n) PROVE TypeBut'
  BY <1>4 DEF DataError, Go, TypeBut, Places, Inside, gate
<1>5. ASSUME NEW g \in Gens, NEW n \in Attempts, Repeat(g, n) PROVE TypeBut'
  BY <1>5 DEF Repeat, Go, TypeBut, Places, Inside, gate
<1>6. CASE UNCHANGED vars
  BY <1>6 DEF vars, gate, TypeBut
<1> QED
  BY <1>1, <1>2, <1>3, <1>4, <1>5, <1>6 DEF Next

\* Every step leaves a scope where its code can be.
LEMMA PlacesStep == ChainInv /\ [Next]_vars => PlacesOfKinds'
<1> SUFFICES ASSUME TypeBut, PlacesOfKinds, Chain, [Next]_vars PROVE PlacesOfKinds'
  BY DEF ChainInv
<1> USE DEF PlacesOfKinds
<1>1. ASSUME Acquire PROVE PlacesOfKinds'
  <2>1. gen \in Int /\ gen' = gen + 1 /\ Exec(gen + 1, 1) \in Scopes /\ Exec(gen + 1, 1)[1] = gen + 1
    BY <1>1, PipelineAssumption DEF Acquire, TypeBut, Exec, Scopes, Kinds, Gens, Attempts, PipelineAssumption
  <2>2. Go(Exec(gen + 1, 1), "called")
    BY <1>1 DEF Acquire, Exec
  <2>3. \A s \in Scopes : s[1] \in Int
    BY ScopeFacts DEF Gens
  <2> QED
    BY <2>1, <2>2, <2>3, GoMoves DEF Places, Inside
<1>2. ASSUME NEW s \in Scopes, Step(s) PROVE PlacesOfKinds'
  <2>0. s[1] \in Gens /\ s[2] \in Attempts /\ s[3] \in Kinds
    BY ScopeFacts
  <2>1. gen' = gen
    BY <1>2 DEF Step, Enter, Test, Attempt, SenderEnds, Response, Retried, Answer, Finish, Leave, Cleanup
  <2>2. ASSUME NEW p \in Places, Go(s, p),
               pc[s] # "out",
               p \in {"attempt", "sending", "finish"} => s[3] = "exec",
               p = "retrying" => s[3] = "done" /\ s[2] < MaxAttempts,
               p \in {"response", "check"} => s[3] \in {"done", "again"}
        PROVE  PlacesOfKinds'
    BY <2>1, <2>2, GoMoves
  <2> USE DEF Places, Inside
  <2>3. CASE Enter(s)
    BY <2>2, <2>3 DEF Enter
  <2>4. CASE Test(s)
    BY <2>0, <2>2, <2>4 DEF Test, Kinds
  <2>5. CASE Attempt(s)
    BY <2>2, <2>5 DEF Attempt
  <2>6. CASE SenderEnds(s)
    BY <2>2, <2>6 DEF SenderEnds
  <2>7. CASE Response(s)
    <3>1. CASE Go(s, "answer")
      BY <2>2, <2>7, <3>1 DEF Response
    <3>2. CASE /\ pc' = [pc EXCEPT ![s] = "retrying", ![<<s[1], s[2] + 1, "exec">>] = "called"]
               /\ s[3] = "done" /\ s[2] < MaxAttempts
      <4>1. Exec(s[1], s[2] + 1)[1] = s[1] /\ pc[s] # "out"
        BY <2>7 DEF Exec, Response
      <4>2. /\ pc'[s] = "retrying" /\ pc'[Exec(s[1], s[2] + 1)] = "called"
            /\ \A t \in Scopes : t # s /\ t # Exec(s[1], s[2] + 1) => pc'[t] = pc[t]
        BY <3>2, RetryMoves
      <4> QED
        BY <2>1, <3>2, <4>1, <4>2
    <3> QED
      BY <2>7, <3>1, <3>2 DEF Response
  <2>8. CASE Retried(s)
    BY <2>2, <2>8 DEF Retried
  <2>9. CASE Answer(s)
    BY <2>0, <2>2, <2>9 DEF Answer, Kinds
  <2>10. CASE Finish(s)
    BY <2>2, <2>10 DEF Finish
  <2>11. CASE Leave(s)
    BY <2>2, <2>11 DEF Leave
  <2>12. CASE Cleanup(s)
    BY <2>2, <2>12 DEF Cleanup
  <2> QED
    BY <1>2, <2>3, <2>4, <2>5, <2>6, <2>7, <2>8, <2>9, <2>10, <2>11, <2>12 DEF Step
<1>3. ASSUME NEW s \in Scopes, NEW p \in Places, Go(s, p), gen' = gen, s[1] <= gen, p \in {"called"}
      PROVE  PlacesOfKinds'
  BY <1>3, GoMoves DEF Places, Inside
<1>4. ASSUME NEW g \in Gens, NEW n \in Attempts, Complete(g, n) \/ DataError(g, n) \/ Repeat(g, n)
      PROVE  PlacesOfKinds'
  <2>1. g <= gen
    <3>1. pc[Exec(g, n)] # "out" \/ pc[Done(g, n)] # "out"
      BY <1>4 DEF Complete, DataError, Repeat, Chain, ChainAt, Unsent, Done
    <3> QED
      BY <3>1, ScopeFacts DEF Exec, Done
  <2>2. gen' = gen
    BY <1>4 DEF Complete, DataError, Repeat
  <2>3. /\ Done(g, n)[1] = g /\ Data(g, n)[1] = g /\ Again(g, n)[1] = g
        /\ Go(Done(g, n), "called") \/ Go(Data(g, n), "called") \/ Go(Again(g, n), "called")
    BY <1>4 DEF Complete, DataError, Repeat, Done, Data, Again
  <2> QED
    BY <1>3, <2>1, <2>2, <2>3, ScopeFacts DEF Places
<1>5. CASE UNCHANGED vars
  BY <1>5 DEF vars
<1> QED
  BY <1>1, <1>2, <1>4, <1>5 DEF Next

\* Every step keeps the order of the attempts: sent, completed, retried.
LEMMA ChainStep == ChainInv /\ [Next]_vars => Chain'
<1> SUFFICES ASSUME ChainInv, [Next]_vars,
                    NEW g \in Gens, NEW n \in Attempts
             PROVE  ChainAt(g, n)'
  BY DEF ChainInv, Chain
<1>1. /\ TypeBut /\ PlacesOfKinds /\ ChainAt(g, n)
      /\ ChainAt(g, 1) /\ (n + 1 \in Attempts => ChainAt(g, n + 1))
  BY PipelineAssumption DEF ChainInv, Chain, Attempts, PipelineAssumption
<1>0. 1 \in Attempts
  BY PipelineAssumption DEF Attempts, PipelineAssumption
<1>2. /\ Exec(g, n) \in Scopes /\ Exec(g, n)[3] = "exec"
      /\ Done(g, n) \in Scopes /\ Done(g, n)[3] = "done"
      /\ Again(g, n) \in Scopes /\ Again(g, n)[3] = "again"
      /\ Data(g, n) \in Scopes /\ Data(g, n)[3] = "data"
      /\ Done(g, 1) \in Scopes /\ Done(g, 1)[3] = "done"
      /\ n + 1 \in Attempts => Exec(g, n + 1) \in Scopes /\ Exec(g, n + 1)[3] = "exec"
  BY <1>0, ScopeFacts
\* A step of one scope that leaves flight alone, seen from the scopes of g and n.
<1>3. ASSUME NEW s \in Scopes, NEW p \in Places, Go(s, p)
      PROVE  /\ pc'[Exec(g, n)] = IF Exec(g, n) = s THEN p ELSE pc[Exec(g, n)]
             /\ pc'[Done(g, n)] = IF Done(g, n) = s THEN p ELSE pc[Done(g, n)]
             /\ pc'[Again(g, n)] = IF Again(g, n) = s THEN p ELSE pc[Again(g, n)]
             /\ pc'[Data(g, n)] = IF Data(g, n) = s THEN p ELSE pc[Data(g, n)]
             /\ pc'[Done(g, 1)] = IF Done(g, 1) = s THEN p ELSE pc[Done(g, 1)]
             /\ n + 1 \in Attempts =>
                  pc'[Exec(g, n + 1)] = IF Exec(g, n + 1) = s THEN p ELSE pc[Exec(g, n + 1)]
  BY <1>1, <1>2, <1>3, GoOne
<1> USE DEF ChainAt, Unsent, Undecided
<1>4. ASSUME NEW s \in Scopes, Step(s) PROVE ChainAt(g, n)'
  <2>0. s[3] \in Kinds
    BY ScopeFacts
  <2>1. CASE Enter(s)
    <3>1. PICK p \in Places : Go(s, p)
      BY <2>1 DEF Enter, Places, Inside
    <3> QED
      BY <1>1, <1>2, <2>0, <2>1, <3>1, <1>3 DEF Enter, Go, PlacesOfKinds, Kinds
  <2>2. CASE Test(s)
    <3>1. PICK p \in Places : Go(s, p)
      BY <2>2 DEF Test, Places, Inside
    <3> QED
      BY <1>1, <1>2, <2>0, <2>2, <3>1, <1>3 DEF Test, Go, PlacesOfKinds, Kinds
  <2>3. CASE SenderEnds(s)
    <3>1. PICK p \in Places : Go(s, p)
      BY <2>3 DEF SenderEnds, Places, Inside
    <3>2. s = Exec(g, n) => <<s[1], s[2], "done">> = Done(g, n)
      <4>1. s = Exec(g, n) => s[1] = g /\ s[2] = n
        BY ScopeFacts
      <4> QED
        BY <4>1 DEF Done
    <3> QED
      BY <1>1, <1>2, <2>0, <2>3, <3>1, <3>2, <1>3 DEF SenderEnds, Go, PlacesOfKinds, Kinds
  <2>4. CASE Retried(s)
    <3>1. PICK p \in Places : Go(s, p)
      BY <2>4 DEF Retried, Places, Inside
    <3> QED
      BY <1>1, <1>2, <2>0, <2>4, <3>1, <1>3 DEF Retried, Go, PlacesOfKinds, Kinds
  <2>5. CASE Answer(s)
    <3>1. PICK p \in Places : Go(s, p)
      BY <2>5 DEF Answer, Places, Inside
    <3> QED
      BY <1>1, <1>2, <2>0, <2>5, <3>1, <1>3 DEF Answer, Go, PlacesOfKinds, Kinds
  <2>6. CASE Finish(s)
    <3>1. PICK p \in Places : Go(s, p)
      BY <2>6 DEF Finish, Places, Inside
    <3> QED
      BY <1>1, <1>2, <2>0, <2>6, <3>1, <1>3 DEF Finish, Go, PlacesOfKinds, Kinds
  <2>7. CASE Leave(s)
    <3>1. PICK p \in Places : Go(s, p)
      BY <2>7 DEF Leave, Places, Inside
    <3> QED
      BY <1>1, <1>2, <2>0, <2>7, <3>1, <1>3 DEF Leave, Go, PlacesOfKinds, Kinds
  <2>8. CASE Cleanup(s)
    <3>1. PICK p \in Places : Go(s, p)
      BY <2>8 DEF Cleanup, Places, Inside
    <3> QED
      BY <1>1, <1>2, <2>0, <2>8, <3>1, <1>3 DEF Cleanup, Go, PlacesOfKinds, Kinds
  <2>9. CASE Attempt(s)
    <3>1. PICK p \in Places : Go(s, p)
      BY <2>9 DEF Attempt, Places, Inside
    <3>2. s[3] = "exec" /\ s = Exec(s[1], s[2]) /\ s[1] \in Gens /\ s[2] \in Attempts
      BY <1>1, <2>9, ScopeFacts DEF Attempt, PlacesOfKinds, Exec
    <3>3. flight' \subseteq flight \cup {<<s[1], s[2]>>}
      BY <2>9 DEF Attempt
    <3>4. <<g, n>> = <<s[1], s[2]>> => s = Exec(g, n)
      BY <3>2
    <3>5. p \in {"sending", "answer"}
      BY <2>9, <3>1, GoOne, <1>1 DEF Attempt, Places, Inside
    <3>6. p = "answer" => flight' = flight
      BY <2>9, <3>1, GoOne, <1>1 DEF Attempt, Places, Inside
    <3>7. flight \subseteq flight'
      BY <2>9 DEF Attempt
    <3> QED
      BY <1>1, <1>2, <1>3, <2>9, <3>1, <3>2, <3>3, <3>4, <3>5, <3>6, <3>7 DEF Attempt
  <2>10. CASE Response(s)
    <3>1. CASE Go(s, "answer")
      BY <1>1, <1>2, <1>3, <2>0, <2>10, <3>1 DEF Response, PlacesOfKinds, Kinds, Places, Inside
    <3>2. CASE /\ pc' = [pc EXCEPT ![s] = "retrying", ![<<s[1], s[2] + 1, "exec">>] = "called"]
               /\ s[3] = "done" /\ s[2] < MaxAttempts
      <4> DEFINE e == Exec(s[1], s[2] + 1)
      <4>1. /\ s = Done(s[1], s[2]) /\ s[1] \in Gens /\ s[2] \in Attempts /\ s[2] + 1 \in Attempts
            /\ e \in Scopes /\ pc'[s] = "retrying" /\ pc'[e] = "called"
            /\ \A t \in Scopes : t # s /\ t # e => pc'[t] = pc[t]
        <5>1. TypeBut /\ s[3] = "done" /\ s[2] < MaxAttempts
          BY <1>1, <3>2
        <5> QED
          BY <3>2, <5>1, RetryMoves
      <4>2. pc[s] = "response" /\ flight' = flight
        BY <2>10 DEF Response
      <4>3. e[3] = "exec" /\ ChainAt(s[1], s[2])
        BY <4>1, ScopeFacts DEF ChainInv, Chain
      <4>4. pc[e] = "out" /\ pc[Exec(s[1], s[2])] \notin Unsent
        BY <4>1, <4>2, <4>3
      <4>5. e = Exec(g, n) => s[1] = g /\ s[2] + 1 = n /\ n > 1
        <5>1. e = Exec(g, n) => s[1] = g /\ s[2] + 1 = n
          BY <4>1, ScopeFacts
        <5>2. s[2] \in Nat /\ s[2] > 0
          BY <4>1 DEF Attempts
        <5> QED
          BY <5>1, <5>2
      <4>6. n + 1 \in Attempts /\ e = Exec(g, n + 1) => s = Done(g, n)
        <5>1. n + 1 \in Attempts /\ e = Exec(g, n + 1) => s[1] = g /\ s[2] + 1 = n + 1
          BY <4>1, ScopeFacts
        <5>2. s[2] \in Int /\ n \in Int
          BY <4>1 DEF Attempts
        <5> QED
          BY <4>1, <5>1, <5>2
      <4>7. ASSUME e = Exec(g, n) PROVE pc'[Done(g, 1)] # "out"
        <5>1. CASE s[2] = 1
          BY <4>1, <4>5, <4>7, <5>1
        <5>2. CASE s[2] > 1
          <6>1. pc[Done(g, 1)] # "out"
            BY <4>3, <4>4, <4>5, <4>7, <5>2, <4>2
          <6> QED
            BY <1>2, <4>1, <4>3, <6>1
        <5> QED
          BY <4>1, <5>1, <5>2 DEF Attempts
      <4>8. s = Done(g, n) => n + 1 \notin Attempts \/ e = Exec(g, n + 1)
        BY <4>1, ScopeFacts
      <4> HIDE DEF e
      <4>9. s[3] = "done" /\ e[3] = "exec"
        BY <3>2, <4>3
      <4>10. /\ pc'[Exec(g, n)] = IF Exec(g, n) = e THEN "called" ELSE pc[Exec(g, n)]
             /\ pc'[Done(g, n)] = IF Done(g, n) = s THEN "retrying" ELSE pc[Done(g, n)]
             /\ pc'[Again(g, n)] = pc[Again(g, n)] /\ pc'[Data(g, n)] = pc[Data(g, n)]
             /\ pc'[Done(g, 1)] = IF Done(g, 1) = s THEN "retrying" ELSE pc[Done(g, 1)]
             /\ n + 1 \in Attempts =>
                  pc'[Exec(g, n + 1)] = IF Exec(g, n + 1) = e THEN "called" ELSE pc[Exec(g, n + 1)]
        BY <1>2, <4>1, <4>9
      <4> QED
        BY <1>1, <4>2, <4>4, <4>5, <4>6, <4>7, <4>8, <4>10
    <3> QED
      BY <2>10, <3>1, <3>2 DEF Response
  <2> QED
    BY <1>4, <2>1, <2>2, <2>3, <2>4, <2>5, <2>6, <2>7, <2>8, <2>9, <2>10 DEF Step
<1>5. ASSUME Acquire PROVE ChainAt(g, n)'
  <2>1. gen + 1 \in Gens /\ gen \in Int /\ Exec(gen + 1, 1) \in Scopes
    BY <1>0, <1>1, <1>5, PipelineAssumption, ScopeFacts DEF Acquire, Gens, TypeBut, PipelineAssumption
  <2>2. Go(Exec(gen + 1, 1), "called") /\ flight' = flight
    BY <1>5 DEF Acquire, Exec
  <2>3. ChainAt(gen + 1, 1)
    BY <1>0, <2>1 DEF ChainInv, Chain
  <2>4. pc[Exec(gen + 1, 1)] = "out"
    BY <1>1, <2>1, ScopeFacts, <1>0 DEF PlacesOfKinds
  <2>5. Exec(g, n) = Exec(gen + 1, 1) => n = 1
    BY <1>0, <2>1, ScopeFacts
  <2>6. n + 1 \in Attempts => Exec(g, n + 1) # Exec(gen + 1, 1)
    <3>1. n \in Int /\ n > 0
      BY DEF Attempts
    <3>2. n + 1 \in Attempts /\ Exec(g, n + 1) = Exec(gen + 1, 1) => n + 1 = 1
      BY <1>0, <2>1, ScopeFacts
    <3> QED
      BY <3>1, <3>2
  <2>7. Exec(gen + 1, 1)[3] = "exec"
    BY <1>0, <2>1, ScopeFacts
  <2> QED
    BY <1>1, <1>2, <1>3, <2>1, <2>2, <2>4, <2>5, <2>6, <2>7 DEF Places
<1>6. ASSUME NEW h \in Gens, NEW m \in Attempts, Complete(h, m) PROVE ChainAt(g, n)'
  <2>1. /\ Go(Done(h, m), "called") /\ <<h, m>> \in flight /\ flight' = flight \ {<<h, m>>}
        /\ pc[Data(h, m)] \in {"out", "left"}
    BY <1>6 DEF Complete, Done, Data
  <2>2. Done(h, m) \in Scopes /\ Done(h, m)[3] = "done" /\ ChainAt(h, m)
    BY ScopeFacts DEF ChainInv, Chain
  <2>3. pc[Done(h, m)] = "out"
    BY <2>1, <2>2
  <2>4. Done(h, m) = Done(g, n) <=> <<h, m>> = <<g, n>>
    BY ScopeFacts
  <2>5. <<h, m>> = <<g, n>> => Data(h, m) = Data(g, n)
    OBVIOUS
  <2> QED
    BY <1>1, <1>2, <1>3, <2>1, <2>2, <2>3, <2>4, <2>5 DEF Places
<1>7. ASSUME NEW h \in Gens, NEW m \in Attempts, DataError(h, m) PROVE ChainAt(g, n)'
  <2>1. Go(Data(h, m), "called") /\ <<h, m>> \in flight /\ flight' = flight /\ pc[Data(h, m)] = "out"
    BY <1>7 DEF DataError, Data
  <2>2. Data(h, m) \in Scopes /\ Data(h, m)[3] = "data"
    BY ScopeFacts
  <2>3. Data(h, m) = Data(g, n) => <<h, m>> = <<g, n>>
    BY ScopeFacts
  <2> QED
    BY <1>1, <1>2, <1>3, <2>1, <2>2, <2>3 DEF Places
<1>8. ASSUME NEW h \in Gens, NEW m \in Attempts, Repeat(h, m) PROVE ChainAt(g, n)'
  <2>1. Go(Again(h, m), "called") /\ flight' = flight /\ pc[Done(h, m)] = "left"
    BY <1>8 DEF Repeat, Again, Done
  <2>2. Again(h, m) \in Scopes /\ Again(h, m)[3] = "again"
    BY ScopeFacts
  <2>3. Again(h, m) = Again(g, n) => Done(h, m) = Done(g, n)
    BY ScopeFacts
  <2> QED
    BY <1>1, <1>2, <1>3, <2>1, <2>2, <2>3 DEF Places
<1>9. CASE UNCHANGED vars
  BY <1>1, <1>9 DEF vars
<1> QED
  BY <1>4, <1>5, <1>6, <1>7, <1>8, <1>9 DEF Next

\* Attempts are sent, completed and retried one after the other
\* (executeAttempt, enableRetry).
THEOREM ChainInvariant == Spec => []ChainInv
<1>1. ChainInv /\ [Next]_vars => ChainInv'
  BY TypeStep, PlacesStep, ChainStep DEF ChainInv
<1> QED
  BY ChainInit, <1>1, PTL DEF Spec

-----------------------------------------------------------------------------
(* The gate itself                                                           *)

\* There are finitely many scopes, so those inside can be counted.
LEMMA ScopesFinite == IsFiniteSet(Scopes)
<1> DEFINE P == (Gens \X Attempts) \X Kinds
           f == [x \in P |-> <<x[1][1], x[1][2], x[2]>>]
<1>1. IsFiniteSet(Gens) /\ IsFiniteSet(Attempts)
  BY PipelineAssumption, FS_Interval DEF Gens, Attempts, PipelineAssumption
<1>2. IsFiniteSet(Kinds)
  <2>1. IsFiniteSet({"exec"}) /\ Kinds = (({"exec"} \cup {"done"}) \cup {"again"}) \cup {"data"}
    BY FS_Singleton DEF Kinds
  <2>2. IsFiniteSet({"exec"} \cup {"done"})
    BY <2>1, FS_AddElement
  <2>3. IsFiniteSet(({"exec"} \cup {"done"}) \cup {"again"})
    BY <2>2, FS_AddElement
  <2> QED
    BY <2>1, <2>3, FS_AddElement
<1>3. IsFiniteSet(Gens \X Attempts)
  BY <1>1, FS_Product
<1>4. IsFiniteSet(P)
  BY <1>2, <1>3, FS_Product
<1>5. f \in Surjection(P, Scopes)
  <2>1. f \in [P -> Scopes]
    BY DEF Scopes
  <2>2. ASSUME NEW s \in Scopes PROVE \E x \in P : f[x] = s
    <3>1. <<<<s[1], s[2]>>, s[3]>> \in P
      BY DEF Scopes
    <3>2. f[<<<<s[1], s[2]>>, s[3]>>] = s
      BY <3>1 DEF Scopes
    <3> QED
      BY <3>1, <3>2
  <2> QED
    BY <2>1, <2>2 DEF Surjection
<1> QED
  BY <1>4, <1>5, FS_Surjection

\* The scopes inside one gate are finitely many.
LEMMA InsideFinite ==
  ASSUME NEW g \in Gens
  PROVE  IsFiniteSet(InsideOf(g)) /\ Cardinality(InsideOf(g)) \in Nat
<1>1. InsideOf(g) \in SUBSET Scopes
  BY DEF InsideOf
<1> QED
  BY <1>1, ScopesFinite, FS_Subset, FS_CardinalityType

\* What a step of one scope does to the scopes counted.
LEMMA InsideMoves ==
  ASSUME TypeBut, NEW s \in Scopes, NEW p \in Places, Go(s, p), NEW g \in Gens
  PROVE  /\ s[1] # g => InsideOf(g)' = InsideOf(g)
         /\ (pc[s] \in Inside <=> p \in Inside) => InsideOf(g)' = InsideOf(g)
         /\ s[1] = g /\ pc[s] \notin Inside /\ p \in Inside =>
              InsideOf(g)' = InsideOf(g) \cup {s} /\ s \notin InsideOf(g)
         /\ s[1] = g /\ pc[s] \in Inside /\ p \notin Inside =>
              InsideOf(g)' = InsideOf(g) \ {s} /\ s \in InsideOf(g)
BY GoMoves DEF InsideOf

\* At first nobody is counted.
LEMMA GateInit == Init => GateInv
<1> SUFFICES ASSUME Init PROVE GateInv
  OBVIOUS
<1>1. Counted
  <2>1. ASSUME NEW g \in Gens PROVE active[g] = Cardinality(InsideOf(g))
    <3>1. InsideOf(g) = {}
      BY DEF Init, InsideOf, Inside
    <3> QED
      BY <3>1, FS_EmptySet DEF Init
  <2> QED
    BY <2>1 DEF Counted
<1>2. NobodyInsideAtCleanup /\ GateOrder
  BY DEF Init, NobodyInsideAtCleanup, GateOrder
<1>3. CallbacksCounted /\ CleanupsCounted
  BY DEF Init, CallbacksCounted, CleanupsCounted
<1>4. UsesInTurn
  BY PipelineAssumption DEF Init, UsesInTurn, Gens, PipelineAssumption
<1> QED
  BY <1>1, <1>2, <1>3, <1>4, ChainInit DEF GateInv

\* A scope entered is counted, a scope left is not.
LEMMA CountedStep ==
  ASSUME GateInv, [Next]_vars
  PROVE  Counted'
<1> SUFFICES ASSUME NEW g \in Gens PROVE active'[g] = Cardinality(InsideOf(g)')
  BY DEF Counted
<1>1. /\ TypeBut /\ active[g] = Cardinality(InsideOf(g))
      /\ IsFiniteSet(InsideOf(g)) /\ Cardinality(InsideOf(g)) \in Nat
  BY InsideFinite DEF GateInv, ChainInv, Counted
<1>2. ASSUME NEW s \in Scopes, NEW p \in Places, Go(s, p), active' = active,
             pc[s] \in Inside <=> p \in Inside
      PROVE  active'[g] = Cardinality(InsideOf(g)')
  BY <1>1, <1>2, InsideMoves
<1>3. ASSUME NEW s \in Scopes, Step(s) PROVE active'[g] = Cardinality(InsideOf(g)')
  <2>0. s[1] \in Gens
    BY ScopeFacts
  <2> USE DEF Places, Inside
  <2>1. CASE Enter(s)
    <3>1. CASE Go(s, "left") /\ active' = active
      BY <1>2, <2>1, <3>1 DEF Enter
    <3>2. CASE Go(s, "entered") /\ active' = [active EXCEPT ![s[1]] = @ + 1]
      <4>1. CASE s[1] = g
        <5>1. InsideOf(g)' = InsideOf(g) \cup {s} /\ s \notin InsideOf(g)
          BY <1>1, <2>1, <3>2, <4>1, InsideMoves DEF Enter
        <5>2. Cardinality(InsideOf(g)') = Cardinality(InsideOf(g)) + 1
          BY <1>1, <5>1, FS_AddElement
        <5> QED
          BY <1>1, <3>2, <4>1, <5>2 DEF TypeBut
      <4>2. CASE s[1] # g
        BY <1>1, <2>0, <3>2, <4>2, InsideMoves DEF TypeBut
      <4> QED
        BY <4>1, <4>2
    <3> QED
      BY <2>1, <3>1, <3>2 DEF Enter
  <2>2. CASE Leave(s)
    <3>1. PICK p \in {"left", "cleanup"} : Go(s, p)
      BY <2>2 DEF Leave
    <3>2. CASE s[1] = g
      <4>1. InsideOf(g)' = InsideOf(g) \ {s} /\ s \in InsideOf(g)
        BY <1>1, <2>2, <3>1, <3>2, InsideMoves DEF Leave
      <4>2. Cardinality(InsideOf(g)') = Cardinality(InsideOf(g)) - 1
        BY <1>1, <4>1, FS_RemoveElement
      <4> QED
        BY <1>1, <2>2, <3>2, <4>2 DEF TypeBut, Leave
    <3>3. CASE s[1] # g
      BY <1>1, <2>0, <2>2, <3>1, <3>3, InsideMoves DEF TypeBut, Leave
    <3> QED
      BY <3>2, <3>3
  <2>3. CASE Test(s)
    BY <1>2, <2>3 DEF Test, gate
  <2>4. CASE Attempt(s)
    BY <1>2, <2>4 DEF Attempt, gate
  <2>5. CASE SenderEnds(s)
    BY <1>2, <2>5 DEF SenderEnds, gate
  <2>6. CASE Response(s)
    <3>1. CASE Go(s, "answer")
      BY <1>2, <2>6, <3>1 DEF Response, gate
    <3>2. CASE /\ pc' = [pc EXCEPT ![s] = "retrying", ![<<s[1], s[2] + 1, "exec">>] = "called"]
               /\ s[3] = "done" /\ s[2] < MaxAttempts
      <4> DEFINE e == Exec(s[1], s[2] + 1)
      <4>1. /\ s = Done(s[1], s[2]) /\ s[1] \in Gens /\ s[2] \in Attempts /\ s[2] + 1 \in Attempts
            /\ e \in Scopes /\ pc'[s] = "retrying" /\ pc'[e] = "called"
            /\ \A t \in Scopes : t # s /\ t # e => pc'[t] = pc[t]
        BY <1>1, <3>2, RetryMoves
      <4>2. ChainAt(s[1], s[2])
        BY <4>1 DEF GateInv, ChainInv, Chain
      <4>3. pc[e] = "out" /\ pc[s] = "response"
        BY <2>6, <4>1, <4>2 DEF Response, ChainAt, Undecided
      <4>4. InsideOf(g)' = InsideOf(g)
        BY <4>1, <4>3 DEF InsideOf
      <4> QED
        BY <1>1, <2>6, <4>4 DEF Response, gate
    <3> QED
      BY <2>6, <3>1, <3>2 DEF Response
  <2>7. CASE Retried(s)
    BY <1>2, <2>7 DEF Retried, gate
  <2>8. CASE Answer(s)
    BY <1>2, <2>8 DEF Answer
  <2>9. CASE Finish(s)
    BY <1>2, <2>9 DEF Finish
  <2>10. CASE Cleanup(s)
    BY <1>2, <2>10 DEF Cleanup, gate
  <2> QED
    BY <1>3, <2>1, <2>2, <2>3, <2>4, <2>5, <2>6, <2>7, <2>8, <2>9, <2>10 DEF Step
<1>4. ASSUME Acquire PROVE active'[g] = Cardinality(InsideOf(g)')
  <2>1. gen + 1 \in Gens /\ gen \in Int /\ 1 \in Attempts
    BY <1>1, <1>4, PipelineAssumption DEF Acquire, Gens, Attempts, TypeBut, PipelineAssumption
  <2>2. Exec(gen + 1, 1) \in Scopes /\ Exec(gen + 1, 1)[1] = gen + 1
    BY <2>1, ScopeFacts
  <2>3. pc[Exec(gen + 1, 1)] = "out"
    BY <2>1, <2>2 DEF GateInv, ChainInv, PlacesOfKinds
  <2> QED
    BY <1>2, <1>4, <2>2, <2>3 DEF Acquire, Exec, gate, Places, Inside
<1>5. ASSUME NEW h \in Gens, NEW m \in Attempts, Complete(h, m) \/ DataError(h, m) \/ Repeat(h, m)
      PROVE  active'[g] = Cardinality(InsideOf(g)')
  <2>1. PICK t \in {Done(h, m), Data(h, m), Again(h, m)} : Go(t, "called") /\ pc[t] = "out"
    <3>1. ChainAt(h, m)
      BY DEF GateInv, ChainInv, Chain
    <3> QED
      BY <1>5, <3>1 DEF Complete, DataError, Repeat, Done, Data, Again, ChainAt
  <2> QED
    BY <1>2, <1>5, <2>1, ScopeFacts DEF Complete, DataError, Repeat, gate, Places, Inside
<1>6. CASE UNCHANGED vars
  BY <1>1, <1>6 DEF vars, gate, InsideOf
<1> QED
  BY <1>3, <1>4, <1>5, <1>6 DEF Next

\* How a step moves the scopes: one goes to a place its action names, or a
\* completion retries and calls the next attempt, which was out.
LEMMA Moves ==
  ASSUME ChainInv, [Next]_vars
  PROVE  \/ UNCHANGED vars
         \/ \E s \in Scopes : Step(s) /\ \E p \in Places \ {"out", "called"} : Go(s, p)
         \/ \E s \in Scopes, e \in Scopes :
              /\ Response(s) /\ e # s /\ e[1] = s[1] /\ pc[e] = "out" /\ pc'[e] = "called"
              /\ pc'[s] = "retrying" /\ \A t \in Scopes : t # s /\ t # e => pc'[t] = pc[t]
         \/ Acquire /\ \E s \in Scopes : s[1] = gen + 1 /\ pc[s] = "out" /\ Go(s, "called")
         \/ \E g \in Gens, n \in Attempts :
              /\ Complete(g, n) \/ DataError(g, n) \/ Repeat(g, n)
              /\ \E s \in Scopes : s[1] = g /\ pc[s] = "out" /\ Go(s, "called")
<1>1. ASSUME NEW s \in Scopes, Step(s), ~ Response(s)
      PROVE  \E p \in Places \ {"out", "called"} : Go(s, p)
  BY <1>1 DEF Step, Enter, Test, Attempt, SenderEnds, Retried, Answer, Finish, Leave, Cleanup, Places, Inside
<1>2. ASSUME NEW s \in Scopes, Response(s), ~ Go(s, "answer")
      PROVE  \E e \in Scopes :
               /\ e # s /\ e[1] = s[1] /\ pc[e] = "out" /\ pc'[e] = "called"
               /\ pc'[s] = "retrying" /\ \A t \in Scopes : t # s /\ t # e => pc'[t] = pc[t]
  <2>1. /\ pc' = [pc EXCEPT ![s] = "retrying", ![<<s[1], s[2] + 1, "exec">>] = "called"]
        /\ s[3] = "done" /\ s[2] < MaxAttempts /\ pc[s] = "response" /\ TypeBut
    BY <1>2 DEF Response, ChainInv
  <2> DEFINE e == Exec(s[1], s[2] + 1)
  <2>2. /\ s = Done(s[1], s[2]) /\ s[1] \in Gens /\ s[2] \in Attempts /\ s[2] + 1 \in Attempts
        /\ e \in Scopes /\ pc'[s] = "retrying" /\ pc'[e] = "called" /\ e # s
        /\ \A t \in Scopes : t # s /\ t # e => pc'[t] = pc[t]
    BY <2>1, RetryMoves
  <2>3. ChainAt(s[1], s[2])
    BY <2>2 DEF ChainInv, Chain
  <2>4. pc[e] = "out" /\ e[1] = s[1]
    BY <2>1, <2>2, <2>3, ScopeFacts DEF ChainAt, Undecided
  <2> QED
    BY <2>2, <2>4
<1>3. ASSUME Acquire PROVE \E s \in Scopes : s[1] = gen + 1 /\ pc[s] = "out" /\ Go(s, "called")
  <2>1. gen + 1 \in Gens /\ gen \in Int /\ 1 \in Attempts
    BY <1>3, PipelineAssumption DEF Acquire, Gens, Attempts, ChainInv, TypeBut, PipelineAssumption
  <2>2. Exec(gen + 1, 1) \in Scopes /\ Exec(gen + 1, 1)[1] = gen + 1
    BY <2>1, ScopeFacts
  <2>3. pc[Exec(gen + 1, 1)] = "out"
    BY <2>1, <2>2 DEF ChainInv, PlacesOfKinds
  <2> QED
    BY <1>3, <2>2, <2>3 DEF Acquire, Exec
<1>4. ASSUME NEW g \in Gens, NEW n \in Attempts, Complete(g, n) \/ DataError(g, n) \/ Repeat(g, n)
      PROVE  \E s \in Scopes : s[1] = g /\ pc[s] = "out" /\ Go(s, "called")
  <2>1. ChainAt(g, n)
    BY DEF ChainInv, Chain
  <2>2. PICK t \in {Done(g, n), Data(g, n), Again(g, n)} : Go(t, "called") /\ pc[t] = "out"
    BY <1>4, <2>1 DEF Complete, DataError, Repeat, Done, Data, Again, ChainAt
  <2> QED
    BY <2>2, ScopeFacts
<1>5. "answer" \in Places \ {"out", "called"}
  BY DEF Places, Inside
<1> QED
  BY <1>1, <1>2, <1>3, <1>4, <1>5 DEF Next, Step

\* Only Answer leads to "finish", and only Leave to "cleanup".
LEMMA StepGoes ==
  ASSUME TypeBut, NEW s \in Scopes, Step(s), NEW p \in Places, Go(s, p)
  PROVE  /\ p = "finish" => Answer(s)
         /\ p = "cleanup" => Leave(s)
<1>1. ASSUME Enter(s) \/ Test(s) \/ Attempt(s) PROVE p \notin {"finish", "cleanup"}
  BY <1>1, GoMoves DEF Enter, Test, Attempt, Places, Inside
<1>2. ASSUME SenderEnds(s) \/ Retried(s) \/ Finish(s) \/ Cleanup(s) PROVE p \notin {"finish", "cleanup"}
  BY <1>2, GoMoves DEF SenderEnds, Retried, Finish, Cleanup, Places, Inside
<1>3. ASSUME Response(s) PROVE p \notin {"finish", "cleanup"}
  BY <1>3, GoMoves, RetryMoves DEF Response, Places, Inside
<1>4. ASSUME Leave(s) PROVE p # "finish"
  BY <1>4, GoMoves DEF Leave, Places, Inside
<1>5. ASSUME Answer(s) PROVE p # "cleanup"
  BY <1>5, GoMoves DEF Answer, Places, Inside
<1> QED
  BY <1>1, <1>2, <1>3, <1>4, <1>5 DEF Step

\* The last scope inside is alone.
LEMMA LastInside ==
  ASSUME GateInv, NEW s \in Scopes, pc[s] \in Inside, active[s[1]] = 1,
         NEW t \in Scopes, t[1] = s[1], pc[t] \in Inside
  PROVE  t = s
<1>1. s[1] \in Gens /\ s \in InsideOf(s[1]) /\ t \in InsideOf(s[1])
  BY ScopeFacts DEF InsideOf
<1>2. Cardinality(InsideOf(s[1])) = 1 /\ IsFiniteSet(InsideOf(s[1]))
  BY <1>1, InsideFinite DEF GateInv, Counted
<1> QED
  BY <1>1, <1>2, FS_Singleton

\* No step puts a scope inside a gate whose cleanup is claimed.
LEMMA NobodyStep ==
  ASSUME GateInv, [Next]_vars
  PROVE  NobodyInsideAtCleanup'
<1> SUFFICES ASSUME NEW t \in Scopes, t[1] \in finished' PROVE pc'[t] \notin Inside
  BY DEF NobodyInsideAtCleanup
<1>1. ChainInv /\ TypeBut /\ (t[1] \in finished => pc[t] \notin Inside)
  BY DEF GateInv, ChainInv, NobodyInsideAtCleanup
<1>2. CASE UNCHANGED vars
  BY <1>1, <1>2 DEF vars, gate
<1>3. ASSUME NEW s \in Scopes, Step(s), NEW p \in Places \ {"out", "called"}, Go(s, p)
      PROVE  pc'[t] \notin Inside
  <2>1. CASE Leave(s)
    <3>1. p \in {"left", "cleanup"}
      BY <1>1, <1>3, <2>1, GoMoves DEF Leave, Places, Inside
    <3>2. CASE t = s
      BY <1>1, <1>3, <3>1, <3>2, GoMoves DEF Inside
    <3>3. CASE t # s
      <4>1. pc'[t] = pc[t]
        BY <1>1, <1>3, <3>3, GoMoves
      <4>2. t[1] \notin finished => t[1] = s[1] /\ active[s[1]] = 1
        BY <2>1 DEF Leave
      <4> QED
        BY <1>1, <2>1, <3>3, <4>1, <4>2, LastInside DEF Leave, Inside
    <3> QED
      BY <3>2, <3>3
  <2>2. CASE Enter(s)
    <3>1. finished' = finished /\ pc[s] = "called" /\ (s[1] \in finished => Go(s, "left"))
      BY <2>2 DEF Enter
    <3>2. t # s => pc'[t] = pc[t]
      BY <1>1, <1>3, GoMoves
    <3>3. s[1] \in finished => pc'[s] = "left"
      BY <1>1, <3>1, GoMoves DEF Places
    <3> QED
      BY <1>1, <3>1, <3>2, <3>3 DEF Inside
  <2>3. CASE ~ Leave(s) /\ ~ Enter(s)
    <3>1. finished' = finished
      BY <1>3, <2>3 DEF Step, Test, Attempt, SenderEnds, Response, Retried, Answer, Finish, Cleanup, gate
    <3>2. pc[s] \in Inside \/ p \notin Inside
      BY <1>1, <1>3, <2>3, GoMoves DEF Step, Test, Attempt, SenderEnds, Response, Retried, Answer, Finish, Cleanup, Inside, Places
    <3> QED
      BY <1>1, <1>3, <3>1, <3>2, GoMoves
  <2> QED
    BY <2>1, <2>2, <2>3
<1>4. ASSUME NEW s \in Scopes, NEW e \in Scopes, Response(s), pc'[e] = "called", pc'[s] = "retrying",
             \A u \in Scopes : u # s /\ u # e => pc'[u] = pc[u]
      PROVE  pc'[t] \notin Inside
  BY <1>1, <1>4 DEF Response, gate, Inside
<1>5. ASSUME NEW s \in Scopes, Go(s, "called"), finished' = finished PROVE pc'[t] \notin Inside
  BY <1>1, <1>5, GoMoves DEF Places, Inside
<1> QED
  BY <1>1, <1>2, <1>3, <1>4, <1>5, Moves DEF Acquire, Complete, DataError, Repeat, gate

\* What a step changes of the gate: each record has one action that writes it.
LEMMA GateWrites ==
  ASSUME ChainInv, [Next]_vars
  PROVE  /\ (gen' = gen /\ object' = object) \/ Acquire \/ \E s \in Scopes : Cleanup(s)
         /\ (called' = called /\ callbacks' = callbacks) \/ \E s \in Scopes : Answer(s)
         /\ pending' = pending \/ \E s \in Scopes : Finish(s)
         /\ finished' = finished \/ \E s \in Scopes : Leave(s)
         /\ cleanups' = cleanups \/ \E s \in Scopes : Cleanup(s)
<1>1. ASSUME NEW s \in Scopes, Step(s)
      PROVE  /\ (gen' = gen /\ object' = object) \/ Cleanup(s)
             /\ (called' = called /\ callbacks' = callbacks) \/ Answer(s)
             /\ pending' = pending \/ Finish(s)
             /\ finished' = finished \/ Leave(s)
             /\ cleanups' = cleanups \/ Cleanup(s)
  BY <1>1 DEF Step, Enter, Test, Attempt, SenderEnds, Response, Retried, Answer, Finish, Leave, Cleanup, gate
<1> QED
  BY <1>1 DEF Next, Acquire, Complete, DataError, Repeat, vars, gate

\* Every step keeps the order: callback, finish requested, cleanup claimed.
LEMMA GateOrderStep ==
  ASSUME GateInv, [Next]_vars
  PROVE  GateOrder'
<1>1. /\ ChainInv /\ TypeBut /\ PlacesOfKinds
      /\ finished \subseteq pending /\ pending \subseteq called
      /\ (\A s \in Scopes : pc[s] = "finish" => s[1] \in called)
      /\ (\A g \in called : g <= gen)
  BY DEF GateInv, ChainInv, GateOrder
<1>2. called \subseteq called'
  BY <1>1, GateWrites DEF Answer
<1>3. pending \subseteq pending'
  BY <1>1, GateWrites DEF Finish
<1>4. finished' \subseteq pending'
  BY <1>1, <1>3, GateWrites DEF Leave
<1>5. pending' \subseteq called'
  BY <1>1, <1>2, GateWrites DEF Finish
<1>6. ASSUME NEW s \in Scopes, pc'[s] = "finish" PROVE s[1] \in called'
  <2>1. CASE pc[s] = "finish"
    BY <1>1, <1>2, <2>1
  <2>2. ASSUME NEW u \in Scopes, Step(u), NEW p \in Places \ {"out", "called"}, Go(u, p), pc[s] # "finish"
        PROVE  s[1] \in called'
    <3>1. u = s /\ p = "finish"
      BY <1>1, <1>6, <2>2, GoOne
    <3>2. Answer(s)
      BY <1>1, <2>2, <3>1, StepGoes
    <3>3. s[1] \in called \cup finished \/ called' = called \cup {s[1]}
      BY <3>2 DEF Answer
    <3> QED
      BY <1>1, <1>2, <3>3
  <2>3. ASSUME NEW u \in Scopes, NEW e \in Scopes, pc'[e] = "called", pc'[u] = "retrying",
               \A v \in Scopes : v # u /\ v # e => pc'[v] = pc[v], pc[s] # "finish"
        PROVE  s[1] \in called'
    BY <1>6, <2>3
  <2>4. ASSUME NEW u \in Scopes, Go(u, "called"), pc[s] # "finish" PROVE s[1] \in called'
    BY <1>1, <1>6, <2>4, GoOne DEF Places
  <2>5. UNCHANGED vars => pc'[s] = pc[s]
    BY DEF vars
  <2> QED
    BY <1>1, <1>6, <2>1, <2>2, <2>3, <2>4, <2>5, Moves
<1>7. ASSUME NEW g \in called' PROVE g <= gen'
  <2>1. gen' = gen \/ (gen' = gen + 1 /\ gen \in Int)
    BY <1>1, GateWrites DEF Acquire, Cleanup, TypeBut
  <2>2. g \in called => g <= gen'
    BY <1>1, <2>1 DEF TypeBut, Gens
  <2>3. ASSUME NEW s \in Scopes, Answer(s) PROVE g \in called \/ g <= gen'
    BY <1>1, <1>7, <2>3 DEF Answer, PlacesOfKinds
  <2> QED
    BY <1>1, <2>2, <2>3, GateWrites
<1> QED
  BY <1>4, <1>5, <1>6, <1>7 DEF GateOrder

\* claimCallback succeeds once for each use.
LEMMA CallbacksStep ==
  ASSUME GateInv, [Next]_vars
  PROVE  CallbacksCounted'
<1>1. ChainInv /\ TypeBut /\ CallbacksCounted
  BY DEF GateInv, ChainInv
<1>2. ASSUME NEW s \in Scopes, Answer(s) PROVE CallbacksCounted'
  <2>1. CASE UNCHANGED <<called, callbacks>>
    BY <1>1, <2>1 DEF CallbacksCounted
  <2>2. CASE /\ s[1] \notin called
             /\ called' = called \cup {s[1]}
             /\ callbacks' = [callbacks EXCEPT ![s[1]] = @ + 1]
    BY <1>1, <2>2, ScopeFacts DEF CallbacksCounted, TypeBut
  <2> QED
    BY <1>2, <2>1, <2>2 DEF Answer
<1> QED
  BY <1>1, <1>2, GateWrites DEF CallbacksCounted

\* The scope that claims the cleanup is the only one that does, once.
LEMMA CleanupsStep ==
  ASSUME GateInv, [Next]_vars
  PROVE  CleanupsCounted'
<1>1. /\ ChainInv /\ TypeBut /\ CleanupsCounted /\ NobodyInsideAtCleanup
  BY DEF GateInv, ChainInv
<1>2. finished \subseteq finished'
  BY <1>1, GateWrites DEF Leave
<1>3. ASSUME NEW t \in Scopes, pc'[t] = "cleanup"
      PROVE  \/ pc[t] = "cleanup" /\ ~ Cleanup(t)
             \/ Leave(t) /\ t[1] \notin finished /\ finished' = finished \cup {t[1]}
  <2>1. ASSUME NEW s \in Scopes, Step(s), NEW p \in Places \ {"out", "called"}, Go(s, p)
        PROVE  \/ pc[t] = "cleanup" /\ ~ Cleanup(t)
               \/ Leave(t) /\ t[1] \notin finished /\ finished' = finished \cup {t[1]}
    <3>1. CASE t # s
      <4>1. pc[t] = "cleanup"
        BY <1>1, <1>3, <2>1, <3>1, GoMoves
      <4>2. ~ Cleanup(t)
        BY <1>1, <1>3, GoMoves DEF Cleanup, Places
      <4> QED
        BY <4>1, <4>2
    <3>2. CASE t = s
      <4>1. p = "cleanup"
        BY <1>1, <1>3, <2>1, <3>2, GoOne
      <4>2. Leave(s)
        BY <1>1, <2>1, <4>1, StepGoes
      <4> QED
        BY <1>1, <1>3, <3>2, <4>2, GoMoves DEF Leave, Places, Inside
    <3> QED
      BY <3>1, <3>2
  <2>2. ~ Cleanup(t)
    BY <1>1, <1>3, GoMoves DEF Cleanup, Places
  <2>3. ASSUME NEW u \in Scopes, NEW e \in Scopes, pc'[e] = "called", pc'[u] = "retrying",
               \A v \in Scopes : v # u /\ v # e => pc'[v] = pc[v]
        PROVE  pc[t] = "cleanup"
    BY <1>3, <2>3
  <2>4. ASSUME NEW u \in Scopes, Go(u, "called") PROVE pc[t] = "cleanup"
    BY <1>1, <1>3, <2>4, GoOne DEF Places
  <2>5. UNCHANGED vars => pc'[t] = pc[t]
    BY DEF vars
  <2> QED
    BY <1>1, <1>3, <2>1, <2>2, <2>3, <2>4, <2>5, Moves
<1>4. ASSUME NEW g \in Gens PROVE cleanups'[g] \in {0, 1} /\ (cleanups'[g] = 1 => g \in finished')
  <2>1. CASE cleanups' = cleanups
    BY <1>1, <1>2, <2>1 DEF CleanupsCounted
  <2>2. ASSUME NEW s \in Scopes, Cleanup(s)
        PROVE  cleanups'[g] \in {0, 1} /\ (cleanups'[g] = 1 => g \in finished')
    BY <1>1, <1>2, <2>2 DEF Cleanup, CleanupsCounted, TypeBut
  <2> QED
    BY <1>1, <2>1, <2>2, GateWrites
<1>5. ASSUME NEW s \in Scopes, pc'[s] = "cleanup" PROVE s[1] \in finished' /\ cleanups'[s[1]] = 0
  <2>0. s[1] \in Gens
    BY ScopeFacts
  <2>1. CASE pc[s] = "cleanup" /\ ~ Cleanup(s)
    <3>1. s[1] \in finished /\ cleanups[s[1]] = 0
      BY <1>1, <2>1 DEF CleanupsCounted
    <3>2. ASSUME NEW u \in Scopes, Cleanup(u) PROVE cleanups'[s[1]] = 0
      <4>1. u[1] # s[1]
        BY <1>1, <2>1, <3>2 DEF CleanupsCounted, Cleanup
      <4> QED
        BY <1>1, <2>0, <3>1, <3>2, <4>1 DEF Cleanup, TypeBut
    <3> QED
      BY <1>1, <1>2, <3>1, <3>2, GateWrites
  <2>2. CASE Leave(s) /\ s[1] \notin finished /\ finished' = finished \cup {s[1]}
    <3>1. cleanups[s[1]] = 0 /\ cleanups' = cleanups
      BY <1>1, <2>0, <2>2 DEF CleanupsCounted, Leave
    <3> QED
      BY <2>2, <3>1
  <2> QED
    BY <1>3, <1>5, <2>1, <2>2
<1>6. ASSUME NEW s \in Scopes, NEW t \in Scopes, pc'[s] = "cleanup", pc'[t] = "cleanup", s[1] = t[1]
      PROVE  s = t
  <2>1. CASE pc[s] = "cleanup" /\ pc[t] = "cleanup"
    BY <1>1, <1>6, <2>1 DEF CleanupsCounted
  <2>2. ASSUME NEW u \in Scopes, NEW v \in Scopes, Leave(u), u[1] \notin finished, pc[v] = "cleanup", u[1] = v[1]
        PROVE  FALSE
    BY <1>1, <2>2 DEF CleanupsCounted
  <2>3. ASSUME Leave(s), Leave(t), s[1] \notin finished, pc'[s] = "cleanup", pc'[t] = "cleanup" PROVE s = t
    BY <1>1, <2>3, GoMoves DEF Leave, Places, Inside
  <2> QED
    BY <1>3, <1>6, <2>1, <2>2, <2>3
<1> QED
  BY <1>4, <1>5, <1>6 DEF CleanupsCounted

\* The pool hands the object out only after the cleanup of its last use.
LEMMA TurnStep ==
  ASSUME GateInv, [Next]_vars
  PROVE  UsesInTurn'
<1>1. /\ ChainInv /\ TypeBut /\ CleanupsCounted /\ UsesInTurn /\ PlacesOfKinds
  BY DEF GateInv, ChainInv
<1>2. ASSUME Acquire PROVE UsesInTurn'
  <2>1. /\ gen \in Nat /\ gen + 1 \in Gens /\ gen' = gen + 1 /\ object' = "used" /\ cleanups' = cleanups
        /\ object # "used"
    BY <1>1, <1>2, PipelineAssumption DEF Acquire, TypeBut, Gens, PipelineAssumption
  <2>2. cleanups[gen + 1] = 0
    <3>1. cleanups[gen + 1] # 1
      BY <1>1, <2>1 DEF CleanupsCounted, GateInv, GateOrder
    <3> QED
      BY <1>1, <2>1, <3>1 DEF CleanupsCounted
  <2> QED
    BY <1>1, <2>1, <2>2 DEF UsesInTurn, Gens
<1>3. ASSUME NEW s \in Scopes, Cleanup(s) PROVE UsesInTurn'
  <2>1. /\ gen' = gen /\ object' # "used" /\ cleanups' = [cleanups EXCEPT ![s[1]] = @ + 1]
        /\ s[1] \in Gens /\ cleanups[s[1]] = 0 /\ s[1] <= gen
    BY <1>1, <1>3, ScopeFacts DEF Cleanup, CleanupsCounted, PlacesOfKinds
  <2>2. s[1] = gen
    BY <1>1, <2>1 DEF UsesInTurn, TypeBut, Gens
  <2> QED
    BY <1>1, <2>1, <2>2 DEF UsesInTurn, TypeBut, Gens
<1> QED
  BY <1>1, <1>2, <1>3, GateWrites DEF UsesInTurn

\* The inductive invariant of the gate: active_calls counts the scopes
\* inside, and the callback and the cleanup come once and in order.
THEOREM GateInvariant == Spec => []GateInv
<1>1. GateInv /\ [Next]_vars => GateInv'
  BY TypeStep, PlacesStep, ChainStep, CountedStep, NobodyStep, GateOrderStep, CallbacksStep,
     CleanupsStep, TurnStep DEF GateInv, ChainInv
<1> QED
  BY GateInit, <1>1, PTL DEF Spec

\* active never goes below zero: leave is never called more often than enter.
THEOREM TypeInvariant == Spec => []TypeOK
<1>1. GateInv => TypeOK
  <2> SUFFICES ASSUME GateInv PROVE TypeOK
    OBVIOUS
  <2>1. \A g \in Gens : active[g] \in Nat
    BY InsideFinite DEF GateInv, Counted
  <2> QED
    BY <2>1 DEF GateInv, ChainInv, TypeBut, TypeOK
<1> QED
  BY <1>1, GateInvariant, PTL

\* Nobody works on an object whose cleanup is claimed, for any number of
\* scopes, attempts and uses (CompletionState::leave).
THEOREM NobodyInside == Spec => []NobodyInsideAtCleanup
<1>1. GateInv => NobodyInsideAtCleanup
  BY DEF GateInv
<1> QED
  BY <1>1, GateInvariant, PTL

-----------------------------------------------------------------------------
(* The gate implements the safety part of OneShotCall.                       *)

\* The phase as the records of the gate tell it.
Told(g) ==
  IF cleanups[g] = 1 THEN "closed"
  ELSE IF g \in called THEN "answered"
  ELSE IF g <= gen THEN "open" ELSE "idle"

PhasesTold == \A g \in Gens : Phase(g) = Told(g)

\* The phase of a use is told by its gate.
LEMMA PhasesAreTold == GateInv => PhasesTold
<1> SUFFICES ASSUME GateInv, NEW g \in Gens PROVE Phase(g) = Told(g)
  BY DEF PhasesTold
<1>1. /\ callbacks[g] = IF g \in called THEN 1 ELSE 0
      /\ cleanups[g] \in {0, 1} /\ (cleanups[g] = 1 => g \in called)
  BY DEF GateInv, GateOrder, CallbacksCounted, CleanupsCounted
<1>2. CASE cleanups[g] = 1
  <2>1. callbacks[g] = 1 /\ ~ (callbacks[g] = 0) /\ ~ (cleanups[g] = 0)
    BY <1>1, <1>2
  <2> QED
    BY <1>2, <2>1, Zenon DEF Phase, Told
<1>3. CASE cleanups[g] # 1 /\ g \in called
  <2>1. callbacks[g] = 1 /\ cleanups[g] = 0 /\ ~ (callbacks[g] = 0)
    BY <1>1, <1>3
  <2> QED
    BY <1>3, <2>1, Zenon DEF Phase, Told
<1>4. CASE cleanups[g] # 1 /\ g \notin called
  <2>1. callbacks[g] = 0 /\ cleanups[g] = 0 /\ ~ (callbacks[g] = 1)
    BY <1>1, <1>4
  <2> QED
    BY <1>4, <2>1, Zenon DEF Phase, Told
<1> QED
  BY <1>2, <1>3, <1>4

\* Every step is a step of OneShotCall, or changes no phase.
LEMMA CallStep ==
  ASSUME GateInv, PhasesTold, PhasesTold', [Next]_vars
  PROVE  [Call!Next]_([g \in Gens |-> Phase(g)])
<1> DEFINE told == [g \in Gens |-> Told(g)]
<1>1. /\ ChainInv /\ TypeBut /\ GateOrder /\ CleanupsCounted /\ UsesInTurn /\ PlacesOfKinds
  BY DEF GateInv, ChainInv
<1>2. [g \in Gens |-> Phase(g)] = told /\ [g \in Gens |-> Phase(g)]' = told'
  BY DEF PhasesTold
<1>3. CASE gen' = gen /\ called' = called /\ cleanups' = cleanups
  <2>1. told' = told
    BY <1>3 DEF Told
  <2> QED
    BY <1>2, <2>1
<1>4. ASSUME NEW g \in Gens, told[g] = "idle", \A h \in Gens : h < g => told[h] = "closed",
             told' = [told EXCEPT ![g] = "open"]
      PROVE  [Call!Next]_([h \in Gens |-> Phase(h)])
  BY <1>2, <1>4 DEF Call!Next, Call!Open, Call!Gens, Gens
<1>8. ASSUME NEW g \in Gens, told[g] = "open", told' = [told EXCEPT ![g] = "answered"]
      PROVE  [Call!Next]_([h \in Gens |-> Phase(h)])
  BY <1>2, <1>8 DEF Call!Next, Call!Answer, Call!Gens, Gens
<1>9. ASSUME NEW g \in Gens, told[g] = "answered", told' = [told EXCEPT ![g] = "closed"]
      PROVE  [Call!Next]_([h \in Gens |-> Phase(h)])
  BY <1>2, <1>9 DEF Call!Next, Call!Close, Call!Gens, Gens
<1>5. ASSUME Acquire PROVE [Call!Next]_([g \in Gens |-> Phase(g)])
  <2>1. /\ gen + 1 \in Gens /\ gen' = gen + 1 /\ gen \in Nat
        /\ called' = called /\ cleanups' = cleanups
    BY <1>1, <1>5, PipelineAssumption DEF Acquire, TypeBut, Gens, PipelineAssumption, gate
  <2>2. \A h \in Gens : h < gen + 1 => told[h] = "closed"
    BY <1>1, <1>5, <2>1 DEF UsesInTurn, Acquire, Told, Gens
  <2>3. gen + 1 \notin called /\ cleanups[gen + 1] # 1
    BY <1>1, <2>1 DEF GateOrder, CleanupsCounted
  <2>4. told[gen + 1] = "idle"
    BY <2>1, <2>3 DEF Told
  <2>5. ASSUME NEW h \in Gens PROVE told'[h] = IF h = gen + 1 THEN "open" ELSE told[h]
    <3>1. h = gen + 1 \/ (h <= gen + 1 <=> h <= gen)
      BY <2>1 DEF Gens
    <3> QED
      BY <2>1, <2>3, <3>1 DEF Told
  <2>6. told' = [told EXCEPT ![gen + 1] = "open"]
    BY <2>5
  <2> QED
    <3> HIDE DEF told
    <3> QED
      BY <1>4, <2>1, <2>2, <2>4, <2>6
<1>6. ASSUME NEW s \in Scopes, Answer(s) PROVE [Call!Next]_([g \in Gens |-> Phase(g)])
  <2>1. CASE called' = called
    BY <1>3, <1>6, <2>1 DEF Answer
  <2>2. CASE /\ s[1] \notin called \cup finished
             /\ called' = called \cup {s[1]}
    <3>1. s[1] \in Gens /\ s[1] <= gen /\ cleanups[s[1]] # 1 /\ gen' = gen /\ cleanups' = cleanups
      BY <1>1, <1>6, <2>2, ScopeFacts DEF Answer, PlacesOfKinds, CleanupsCounted
    <3>2. told[s[1]] = "open"
      BY <2>2, <3>1 DEF Told
    <3>3. told' = [told EXCEPT ![s[1]] = "answered"]
      BY <2>2, <3>1 DEF Told
    <3> QED
      <4> HIDE DEF told
      <4> QED
        BY <1>8, <3>1, <3>2, <3>3
  <2> QED
    BY <1>6, <2>1, <2>2 DEF Answer
<1>7. ASSUME NEW s \in Scopes, Cleanup(s) PROVE [Call!Next]_([g \in Gens |-> Phase(g)])
  <2>1. /\ s[1] \in Gens /\ s[1] \in called /\ cleanups[s[1]] = 0
        /\ gen' = gen /\ called' = called /\ cleanups' = [cleanups EXCEPT ![s[1]] = 1]
    <3>1. s[1] \in Gens /\ s[1] \in called /\ cleanups[s[1]] = 0
      BY <1>1, <1>7, ScopeFacts DEF Cleanup, CleanupsCounted, GateOrder
    <3>2. gen' = gen /\ called' = called /\ cleanups' = [cleanups EXCEPT ![s[1]] = @ + 1]
      BY <1>7 DEF Cleanup, gate
    <3>3. cleanups' = [cleanups EXCEPT ![s[1]] = cleanups[s[1]] + 1]
      BY <3>2
    <3> QED
      BY <3>1, <3>2, <3>3
  <2>2. told[s[1]] = "answered"
    BY <2>1 DEF Told
  <2>3. told' = [told EXCEPT ![s[1]] = "closed"]
    BY <1>1, <2>1 DEF Told, TypeBut
  <2> QED
    BY <1>9, <2>1, <2>2, <2>3
<1> QED
  BY <1>1, <1>3, <1>5, <1>6, <1>7, GateWrites

\* The gate implements OneShotCall without its liveness: each call of
\* asyncExecute is answered once, cleaned up once, and before the next.
THEOREM GateRefinesCall == Spec => Call!SafeSpec
<1>1. Init => Call!Init
  <2> SUFFICES ASSUME Init PROVE Call!Init
    OBVIOUS
  <2>1. ASSUME NEW g \in Gens PROVE Told(g) = "idle"
    BY <2>1, PipelineAssumption DEF Init, Told, Gens, PipelineAssumption
  <2>2. \A g \in Gens : Phase(g) = "idle"
    BY <2>1, GateInit, PhasesAreTold DEF PhasesTold
  <2> QED
    BY <2>2 DEF Call!Init, Call!Gens, Gens
<1>2. GateInv /\ PhasesTold /\ PhasesTold' /\ [Next]_vars => [Call!Next]_([g \in Gens |-> Phase(g)])
  BY CallStep
<1> QED
  BY <1>1, <1>2, GateInvariant, PhasesAreTold, PTL DEF Spec, Call!SafeSpec

-----------------------------------------------------------------------------
(* Cleanup waits for the transport                                           *)

\* Where a completion is once its outcome, or the retry, is decided.
Decided == {"retrying", "check", "leaving", "cleanup", "left"}

\* A later attempt begins only in the completion of the one before it, so of all
\* earlier ones the completion is decided and was not repeated.
Overtaken ==
  \A g \in Gens : \A m, n \in Attempts :
    m < n /\ pc[Exec(g, n)] # "out" => pc[Done(g, m)] \in Decided /\ pc[Again(g, m)] = "out"

\* Nobody has answered while an attempt is about to be sent, or the transport holds
\* one whose data callbacks raised no error: an asyncExecute that answers an error
\* sent nothing, or comes after its own completion.
Unheard ==
  \A g \in Gens : \A n \in Attempts :
    /\ pc[Exec(g, n)] = "answer" => pc[Done(g, n)] = "out" \/ g \in called
    /\ pc[Exec(g, n)] = "attempt" => g \notin called
    /\ <<g, n>> \in flight /\ pc[Data(g, n)] \in {"out", "called"} => g \notin called

\* Before the first attempt is completed nobody asks for a finish.
FirstIsAwaited == \A g \in Gens : <<g, 1>> \in flight => g \notin pending

WaitInv == Overtaken /\ Unheard /\ FirstIsAwaited

\* How a completion goes on, and what calls an asyncExecute that retries, or a
\* completion again.
LEMMA AttemptMoves ==
  ASSUME ChainInv, [Next]_vars, NEW g \in Gens, NEW n \in Attempts
  PROVE  /\ pc[Done(g, n)] \in Decided => pc'[Done(g, n)] \in Decided
         /\ n > 1 /\ pc[Exec(g, n)] = "out" /\ pc'[Exec(g, n)] # "out" =>
              /\ n - 1 \in Attempts
              /\ pc[Done(g, n - 1)] = "response" /\ pc'[Done(g, n - 1)] = "retrying"
              /\ \A t \in Scopes : t \notin {Done(g, n - 1), Exec(g, n)} => pc'[t] = pc[t]
         /\ pc[Again(g, n)] = "out" /\ pc'[Again(g, n)] # "out" => Repeat(g, n)
         /\ pc[Done(g, n)] = "out" /\ pc'[Done(g, n)] # "out" => <<g, n>> \in flight
<1> USE DEF ChainInv
<1>1. /\ Exec(g, n) \in Scopes /\ Done(g, n) \in Scopes /\ Again(g, n) \in Scopes
      /\ Exec(g, n)[3] = "exec" /\ Done(g, n)[3] = "done" /\ Again(g, n)[3] = "again"
  BY ScopeFacts
<1>2. ASSUME NEW s \in Scopes, Step(s), NEW p \in Places \ {"out", "called"}, Go(s, p)
      PROVE  /\ pc[s] \in Decided => p \in Decided
             /\ pc[s] # "out"
  <2>1. pc'[s] = p
    BY <1>2, GoOne
  <2> QED
    BY <1>2, <2>1, GoMoves
    DEF Step, Enter, Test, Attempt, SenderEnds, Response, Retried, Answer, Finish, Leave, Cleanup,
        Decided, Places, Inside
<1>3. ASSUME NEW s \in Scopes, Step(s), NEW p \in Places \ {"out", "called"}, Go(s, p),
             NEW t \in Scopes
      PROVE  /\ pc[t] \in Decided => pc'[t] \in Decided
             /\ pc[t] = "out" => pc'[t] = "out"
  BY <1>2, <1>3, GoOne
<1>4. ASSUME NEW s \in Scopes, pc[s] = "out", Go(s, "called"), NEW t \in Scopes
      PROVE  /\ pc[t] \in Decided => pc'[t] \in Decided
             /\ pc[t] = "out" /\ pc'[t] # "out" => t = s
  BY <1>4, GoOne DEF Decided, Places
<1>5. ASSUME NEW s \in Scopes, Response(s), ~ Go(s, "answer")
      PROVE  /\ s[1] \in Gens /\ s[2] \in Attempts /\ s[2] + 1 \in Attempts
             /\ s = Done(s[1], s[2]) /\ pc[s] = "response" /\ pc'[s] = "retrying"
             /\ pc[Exec(s[1], s[2] + 1)] = "out"
             /\ \A t \in Scopes : t # s /\ t # Exec(s[1], s[2] + 1) => pc'[t] = pc[t]
  <2>1. /\ pc' = [pc EXCEPT ![s] = "retrying", ![<<s[1], s[2] + 1, "exec">>] = "called"]
        /\ s[3] = "done" /\ s[2] < MaxAttempts /\ pc[s] = "response" /\ TypeBut
    BY <1>5 DEF Response
  <2>2. /\ s[1] \in Gens /\ s[2] \in Attempts /\ s[2] + 1 \in Attempts /\ s = Done(s[1], s[2])
        /\ pc'[s] = "retrying"
        /\ \A t \in Scopes : t # s /\ t # Exec(s[1], s[2] + 1) => pc'[t] = pc[t]
    BY <2>1, RetryMoves
  <2>3. ChainAt(s[1], s[2])
    BY <2>2 DEF Chain
  <2> QED
    BY <2>1, <2>2, <2>3 DEF ChainAt, Undecided
<1>6. pc[Done(g, n)] \in Decided => pc'[Done(g, n)] \in Decided
  <2>1. ASSUME NEW s \in Scopes, Response(s), ~ Go(s, "answer"), pc[Done(g, n)] \in Decided
        PROVE  pc'[Done(g, n)] \in Decided
    <3>1. Done(g, n) # s /\ Done(g, n) # Exec(s[1], s[2] + 1)
      BY <1>5, <2>1 DEF Decided
    <3> QED
      BY <1>1, <1>5, <2>1, <3>1
  <2>2. UNCHANGED vars => pc' = pc
    BY DEF vars
  <2>3. ASSUME NEW s \in Scopes, Response(s), Go(s, "answer")
        PROVE  pc[Done(g, n)] \in Decided => pc'[Done(g, n)] \in Decided
    BY <1>1, <1>3, <2>3 DEF Step, Places, Inside
  <2> QED
    BY <1>1, <1>3, <1>4, <2>1, <2>2, <2>3, Moves
<1>7. ASSUME n > 1, pc[Exec(g, n)] = "out", pc'[Exec(g, n)] # "out"
      PROVE  /\ n - 1 \in Attempts
             /\ pc[Done(g, n - 1)] = "response" /\ pc'[Done(g, n - 1)] = "retrying"
             /\ \A t \in Scopes : t \notin {Done(g, n - 1), Exec(g, n)} => pc'[t] = pc[t]
  <2>1. ASSUME NEW s \in Scopes, Response(s), ~ Go(s, "answer")
        PROVE  /\ n - 1 \in Attempts
               /\ pc[Done(g, n - 1)] = "response" /\ pc'[Done(g, n - 1)] = "retrying"
               /\ \A t \in Scopes : t \notin {Done(g, n - 1), Exec(g, n)} => pc'[t] = pc[t]
    <3>1. Exec(g, n) = Exec(s[1], s[2] + 1)
      BY <1>1, <1>5, <1>7, <2>1
    <3>2. s[1] = g /\ s[2] + 1 = n /\ s[2] \in Attempts
      BY <1>5, <2>1, <3>1, ScopeFacts
    <3>3. n - 1 = s[2]
      BY <3>2 DEF Attempts
    <3> QED
      BY <1>5, <2>1, <3>2, <3>3
  <2>2. ASSUME NEW s \in Scopes, Response(s), Go(s, "answer")
        PROVE  FALSE
    BY <1>1, <1>3, <1>7, <2>2 DEF Step, Places, Inside
  <2>3. ASSUME Acquire
        PROVE  FALSE
    <3>1. Go(Exec(gen + 1, 1), "called") /\ gen + 1 \in Gens /\ 1 \in Attempts
      BY <2>3, PipelineAssumption
      DEF Acquire, Exec, Gens, Attempts, TypeBut, PipelineAssumption
    <3>2. Exec(gen + 1, 1) \in Scopes /\ Exec(g, n) # Exec(gen + 1, 1)
      BY <1>7, <3>1, ScopeFacts
    <3> QED
      BY <1>1, <1>7, <3>1, <3>2, GoOne DEF Places
  <2>4. ASSUME NEW h \in Gens, NEW m \in Attempts, Complete(h, m) \/ DataError(h, m) \/ Repeat(h, m)
        PROVE  FALSE
    <3>1. PICK t \in {Done(h, m), Data(h, m), Again(h, m)} : Go(t, "called")
      BY <2>4 DEF Complete, DataError, Repeat, Done, Data, Again
    <3>2. t \in Scopes /\ Exec(g, n) # t
      BY ScopeFacts
    <3> QED
      BY <1>1, <1>7, <3>1, <3>2, GoOne DEF Places
  <2>5. ~ UNCHANGED vars
    BY <1>7 DEF vars
  <2> QED
    BY <1>1, <1>3, <1>7, <2>1, <2>2, <2>3, <2>4, <2>5, Moves
<1>8. ASSUME NEW t \in Scopes, t[3] # "exec", pc[t] = "out", pc'[t] # "out"
      PROVE  \E h \in Gens, m \in Attempts :
               \/ Complete(h, m) /\ t = Done(h, m)
               \/ DataError(h, m) /\ t = Data(h, m)
               \/ Repeat(h, m) /\ t = Again(h, m)
  <2>1. ASSUME NEW s \in Scopes, Response(s)
        PROVE  FALSE
    <3>1. CASE Go(s, "answer")
      BY <1>3, <1>8, <2>1, <3>1 DEF Step, Places, Inside
    <3>2. CASE ~ Go(s, "answer")
      <4>1. t # s /\ t # Exec(s[1], s[2] + 1)
        BY <1>5, <1>8, <2>1, <3>2, ScopeFacts
      <4> QED
        BY <1>5, <1>8, <2>1, <3>2, <4>1
    <3> QED
      BY <3>1, <3>2
  <2>2. ASSUME Acquire
        PROVE  FALSE
    <3>1. Go(Exec(gen + 1, 1), "called") /\ gen + 1 \in Gens /\ 1 \in Attempts
      BY <2>2, PipelineAssumption
      DEF Acquire, Exec, Gens, Attempts, TypeBut, PipelineAssumption
    <3>2. Exec(gen + 1, 1) \in Scopes /\ t # Exec(gen + 1, 1)
      BY <1>8, <3>1, ScopeFacts
    <3> QED
      BY <1>8, <3>1, <3>2, GoOne DEF Places
  <2>3. ASSUME NEW h \in Gens, NEW m \in Attempts, Complete(h, m) \/ DataError(h, m) \/ Repeat(h, m)
        PROVE  \/ Complete(h, m) /\ t = Done(h, m)
               \/ DataError(h, m) /\ t = Data(h, m)
               \/ Repeat(h, m) /\ t = Again(h, m)
    <3>1. \/ Complete(h, m) /\ Go(Done(h, m), "called")
          \/ DataError(h, m) /\ Go(Data(h, m), "called")
          \/ Repeat(h, m) /\ Go(Again(h, m), "called")
      BY <2>3 DEF Complete, DataError, Repeat, Done, Data, Again
    <3> QED
      BY <1>8, <3>1, GoOne, ScopeFacts DEF Places
  <2>4. ~ UNCHANGED vars
    BY <1>8 DEF vars
  <2> QED
    BY <1>3, <1>8, <2>1, <2>2, <2>3, <2>4, Moves
<1>9. pc[Again(g, n)] = "out" /\ pc'[Again(g, n)] # "out" => Repeat(g, n)
  BY <1>1, <1>8, ScopeFacts
<1>10. ASSUME pc[Done(g, n)] = "out", pc'[Done(g, n)] # "out"
       PROVE  <<g, n>> \in flight
  <2>1. PICK h \in Gens, m \in Attempts : Complete(h, m) /\ Done(g, n) = Done(h, m)
    BY <1>1, <1>8, <1>10, ScopeFacts
  <2>2. g = h /\ n = m
    BY <2>1, ScopeFacts
  <2> QED
    BY <2>1, <2>2 DEF Complete
<1> QED
  BY <1>6, <1>7, <1>9, <1>10

\* What a completion decided stays decided, and the attempts stay in their order.
LEMMA OvertakenStep ==
  ASSUME ChainInv, Overtaken, [Next]_vars
  PROVE  Overtaken'
<1> SUFFICES ASSUME NEW g \in Gens, NEW m \in Attempts, NEW n \in Attempts, m < n,
                    pc'[Exec(g, n)] # "out"
             PROVE  pc'[Done(g, m)] \in Decided /\ pc'[Again(g, m)] = "out"
  BY DEF Overtaken
<1>1. \A k \in Attempts : ChainAt(g, k)
  BY DEF ChainInv, Chain
<1>2. Again(g, m) \in Scopes /\ n > 1
  BY ScopeFacts DEF Attempts
<1>3. CASE pc[Exec(g, n)] # "out"
  <2>1. pc[Done(g, m)] \in Decided /\ pc[Again(g, m)] = "out"
    BY <1>3 DEF Overtaken
  <2>2. ASSUME Repeat(g, m)
        PROVE  FALSE
    <3>1. m + 1 \in Attempts /\ pc[Exec(g, m + 1)] = "out" /\ m + 1 <= n
      BY <2>2, PipelineAssumption DEF Repeat, Exec, Attempts, PipelineAssumption
    <3>2. m + 1 < n
      BY <1>3, <3>1 DEF Attempts
    <3>3. pc[Done(g, m + 1)] # "out"
      BY <1>3, <3>1, <3>2 DEF Overtaken, Decided
    <3> QED
      BY <1>1, <3>1, <3>3 DEF ChainAt, Unsent
  <2> QED
    BY <2>1, <2>2, AttemptMoves
<1>4. CASE pc[Exec(g, n)] = "out"
  <2>0. m <= n - 1
    BY DEF Attempts
  <2>1. /\ n - 1 \in Attempts
        /\ pc[Done(g, n - 1)] = "response" /\ pc'[Done(g, n - 1)] = "retrying"
        /\ \A t \in Scopes : t \notin {Done(g, n - 1), Exec(g, n)} => pc'[t] = pc[t]
    BY <1>2, <1>4, AttemptMoves
  <2>2. pc'[Again(g, m)] = pc[Again(g, m)]
    BY <1>2, <2>1, ScopeFacts
  <2>3. CASE m = n - 1
    BY <1>1, <2>1, <2>2, <2>3 DEF ChainAt, Decided
  <2>4. CASE m < n - 1
    <3>1. pc[Exec(g, n - 1)] # "out"
      BY <1>1, <2>1 DEF ChainAt, Unsent
    <3>2. pc[Done(g, m)] \in Decided /\ pc[Again(g, m)] = "out"
      BY <2>1, <2>4, <3>1 DEF Overtaken
    <3> QED
      BY <2>2, <3>2, AttemptMoves
  <2> QED
    BY <2>0, <2>3, <2>4 DEF Attempts
<1> QED
  BY <1>3, <1>4

\* While an attempt is sent, or its transfer is undisturbed, nobody has an answer.
LEMMA NobodyAnswers ==
  ASSUME ChainInv, Overtaken, Unheard, NEW s \in Scopes, pc[s] = "answer", s[1] \notin called,
         NEW n \in Attempts
  PROVE  /\ pc[Exec(s[1], n)] # "attempt"
         /\ ~ (<<s[1], n>> \in flight /\ pc[Data(s[1], n)] \in {"out", "called"})
<1>1. PICK g \in Gens, m \in Attempts : g = s[1] /\ m = s[2]
  BY ScopeFacts
<1>2. s \in {Exec(g, m), Done(g, m), Again(g, m), Data(g, m)}
  BY <1>1, ScopeFacts DEF Kinds, Exec, Done, Again, Data
<1>3. ChainAt(g, m) /\ ChainAt(g, n)
  BY DEF ChainInv, Chain
<1> SUFFICES ASSUME \/ pc[Exec(g, n)] = "attempt"
                    \/ <<g, n>> \in flight /\ pc[Data(g, n)] \in {"out", "called"}
             PROVE  FALSE
  BY <1>1
<1>4. pc[Done(g, n)] = "out" /\ pc[Again(g, n)] = "out" /\ pc[Exec(g, n)] # "out"
  BY <1>3 DEF ChainAt, Unsent
<1>5. CASE m = n
  BY <1>2, <1>3, <1>4, <1>5 DEF ChainAt, Unsent
<1>6. CASE m > n
  <2>1. pc[Exec(g, m)] = "out"
    BY <1>4, <1>6 DEF Overtaken, Decided
  <2> QED
    BY <1>2, <1>3, <2>1 DEF ChainAt, Unsent
<1>7. CASE m < n
  <2>1. pc[Done(g, m)] \in Decided /\ pc[Again(g, m)] = "out"
    BY <1>4, <1>7 DEF Overtaken
  <2>2. pc[Exec(g, m)] # "answer"
    BY <1>1, <2>1 DEF Unheard, Decided
  <2>3. pc[Data(g, m)] # "answer"
    BY <1>3, <2>1 DEF ChainAt, Decided
  <2> QED
    BY <1>2, <2>1, <2>2, <2>3 DEF Decided
<1> QED
  BY <1>5, <1>6, <1>7 DEF Attempts

\* How an asyncExecute comes to answer or to send, and what else an attempt in
\* flight is: nothing but its own asyncExecute sends it.
LEMMA SendingMoves ==
  ASSUME ChainInv, [Next]_vars, NEW g \in Gens, NEW n \in Attempts
  PROVE  /\ pc'[Exec(g, n)] = "answer" =>
              pc[Exec(g, n)] = "answer" \/ Attempt(Exec(g, n)) \/ g \in called
         /\ pc'[Exec(g, n)] = "attempt" =>
              pc[Exec(g, n)] = "attempt" \/ (g \notin called /\ called' = called)
         /\ pc'[Data(g, n)] \in {"out", "called"} => pc[Data(g, n)] \in {"out", "called"}
         /\ <<g, n>> \in flight' => <<g, n>> \in flight \/ Attempt(Exec(g, n))
<1>1. /\ TypeBut /\ PlacesOfKinds
      /\ Exec(g, n) \in Scopes /\ Data(g, n) \in Scopes
      /\ Exec(g, n)[1] = g /\ Exec(g, n)[2] = n /\ Exec(g, n)[3] = "exec"
  BY ScopeFacts DEF ChainInv
<1>2. ASSUME NEW s \in Scopes, Step(s), NEW p \in Places \ {"out", "called"}, Go(s, p),
             s[3] = "exec"
      PROVE  /\ p = "answer" => Attempt(s) \/ s[1] \in called
             /\ p = "attempt" => s[1] \notin called /\ called' = called
  <2>1. pc'[s] = p
    BY <1>1, <1>2, GoOne
  <2>2. CASE Attempt(s)
    BY <1>1, <2>1, <2>2, GoMoves DEF Attempt, Places, Inside
  <2>3. CASE Test(s)
    BY <1>1, <1>2, <2>1, <2>3, GoMoves DEF Test, Places, Inside, gate
  <2>4. CASE Answer(s)
    BY <1>1, <1>2, <2>1, <2>4, GoMoves DEF Answer, Places, Inside
  <2>5. CASE Response(s)
    BY <1>1, <1>2, <2>5 DEF Response, PlacesOfKinds
  <2>6. CASE Enter(s) \/ SenderEnds(s) \/ Retried(s) \/ Finish(s) \/ Leave(s) \/ Cleanup(s)
    BY <1>1, <2>1, <2>6, GoMoves
    DEF Enter, SenderEnds, Retried, Finish, Leave, Cleanup, Places, Inside
  <2> QED
    BY <1>2, <2>2, <2>3, <2>4, <2>5, <2>6 DEF Step
<1>3. ASSUME NEW s \in Scopes, Step(s), NEW p \in Places \ {"out", "called"}, Go(s, p)
      PROVE  /\ pc'[Exec(g, n)] = "answer" =>
                  pc[Exec(g, n)] = "answer" \/ Attempt(Exec(g, n)) \/ g \in called
             /\ pc'[Exec(g, n)] = "attempt" =>
                  pc[Exec(g, n)] = "attempt" \/ (g \notin called /\ called' = called)
             /\ pc'[Data(g, n)] \in {"out", "called"} => pc[Data(g, n)] \in {"out", "called"}
  BY <1>1, <1>2, <1>3, GoOne
<1>4. ASSUME NEW s \in Scopes, pc[s] = "out", Go(s, "called"), NEW t \in Scopes
      PROVE  pc'[t] = pc[t] \/ (pc'[t] = "called" /\ pc[t] = "out")
  BY <1>1, <1>4, GoOne DEF Places
<1>5. ASSUME NEW g1 \in Gens, NEW n1 \in Attempts, <<g1, n1>> \in flight', <<g1, n1>> \notin flight
      PROVE  Attempt(Exec(g1, n1))
  <2>1. ASSUME NEW s \in Scopes, Attempt(s)
        PROVE  Attempt(Exec(g1, n1))
    <3>1. <<g1, n1>> = <<s[1], s[2]>>
      BY <1>5, <2>1 DEF Attempt
    <3>2. s = Exec(g1, n1)
      BY <1>1, <2>1, <3>1, ScopeFacts DEF Attempt, PlacesOfKinds, Exec
    <3> QED
      BY <2>1, <3>2
  <2> QED
    BY <1>5, <2>1
    DEF Next, Acquire, Step, Enter, Test, SenderEnds, Response, Retried, Answer, Finish, Leave,
        Cleanup, Complete, DataError, Repeat, vars
<1>6. UNCHANGED vars => pc' = pc
  BY DEF vars
<1> QED
  BY <1>1, <1>3, <1>4, <1>5, <1>6, Moves

\* What sends an attempt, or leaves it undisturbed, comes before any answer.
LEMMA UnheardStep ==
  ASSUME ChainInv, Overtaken, Unheard, [Next]_vars
  PROVE  Unheard'
<1> SUFFICES ASSUME NEW g \in Gens, NEW n \in Attempts
             PROVE  /\ pc'[Exec(g, n)] = "answer" => pc'[Done(g, n)] = "out" \/ g \in called'
                    /\ pc'[Exec(g, n)] = "attempt" => g \notin called'
                    /\ <<g, n>> \in flight' /\ pc'[Data(g, n)] \in {"out", "called"} =>
                         g \notin called'
  BY DEF Unheard
<1>1. ChainAt(g, n)
  BY DEF ChainInv, Chain
<1>2. called \subseteq called'
  BY GateWrites DEF Answer
<1>3. ASSUME g \in called', g \notin called
      PROVE  /\ pc[Exec(g, n)] # "attempt"
             /\ ~ (<<g, n>> \in flight /\ pc[Data(g, n)] \in {"out", "called"})
  <2>1. PICK s \in Scopes : Answer(s)
    BY <1>3, GateWrites
  <2>2. pc[s] = "answer" /\ s[1] = g
    BY <1>3, <2>1 DEF Answer
  <2> QED
    BY <1>3, <2>2, NobodyAnswers
<1>4. ASSUME pc'[Exec(g, n)] = "answer", g \notin called'
      PROVE  pc'[Done(g, n)] = "out"
  <2>1. pc[Exec(g, n)] = "answer" \/ Attempt(Exec(g, n))
    BY <1>2, <1>4, SendingMoves
  <2>2. pc[Done(g, n)] = "out" /\ <<g, n>> \notin flight
    BY <1>1, <1>2, <1>4, <2>1 DEF Unheard, ChainAt, Attempt, Unsent
  <2> QED
    BY <2>2, AttemptMoves
<1>5. pc'[Exec(g, n)] = "attempt" => g \notin called'
  BY <1>3, SendingMoves DEF Unheard
<1>6. ASSUME <<g, n>> \in flight', pc'[Data(g, n)] \in {"out", "called"}
      PROVE  g \notin called'
  <2>1. CASE <<g, n>> \in flight
    BY <1>3, <1>6, <2>1, SendingMoves DEF Unheard
  <2>2. CASE Attempt(Exec(g, n))
    BY <2>2 DEF Attempt, gate, Unheard
  <2> QED
    BY <1>6, <2>1, <2>2, SendingMoves
<1> QED
  BY <1>4, <1>5, <1>6

\* No finish is asked for while the transport holds the first attempt.
LEMMA FirstIsAwaitedStep ==
  ASSUME ChainInv, GateOrder, Overtaken, Unheard, FirstIsAwaited, [Next]_vars
  PROVE  FirstIsAwaited'
<1> SUFFICES ASSUME NEW g \in Gens, <<g, 1>> \in flight'
             PROVE  g \notin pending'
  BY DEF FirstIsAwaited
<1>1. 1 \in Attempts /\ ChainAt(g, 1)
  BY PipelineAssumption DEF ChainInv, Chain, Attempts, PipelineAssumption
<1>2. CASE Attempt(Exec(g, 1))
  BY <1>1, <1>2 DEF Attempt, gate, Unheard, GateOrder
<1>3. CASE <<g, 1>> \in flight
  <2>1. g \notin pending /\ pc[Done(g, 1)] = "out"
    BY <1>1, <1>3 DEF FirstIsAwaited, ChainAt
  <2>2. ASSUME NEW s \in Scopes, Finish(s), s[1] = g
        PROVE  FALSE
    <3>1. PICK m \in Attempts : s \in {Exec(g, m), Done(g, m), Again(g, m), Data(g, m)}
      BY <2>2, ScopeFacts DEF Kinds, Exec, Done, Again, Data
    <3>2. ChainAt(g, m) /\ pc[s] \in {"finish", "check"}
      BY <2>2 DEF Finish, ChainInv, Chain
    <3>3. pc[Data(g, m)] \notin {"finish", "check"} /\ pc[Exec(g, m)] # "check"
      BY ScopeFacts DEF ChainInv, PlacesOfKinds
    <3>4. CASE m = 1
      BY <1>3, <2>1, <3>1, <3>2, <3>3, <3>4 DEF ChainAt
    <3>5. CASE m > 1
      <4>1. pc[Exec(g, m)] = "out"
        BY <2>1, <3>2, <3>5 DEF ChainAt
      <4> QED
        BY <3>1, <3>2, <4>1 DEF ChainAt, Unsent
    <3> QED
      BY <3>4, <3>5 DEF Attempts
  <2>3. ASSUME NEW s \in Scopes, Finish(s), s[1] # g
        PROVE  g \notin pending'
    BY <2>1, <2>3 DEF Finish
  <2> QED
    BY <2>1, <2>2, <2>3, GateWrites
<1> QED
  BY <1>1, <1>2, <1>3, SendingMoves

\* The finalizers wait for the transport: only an attempt that is a retry, and whose
\* data callback raised an error itself, can still be there when cleanup is claimed.
THEOREM CleanupWaits == Spec => []CleanupWaitsUnlessRetryErred
<1>1. Init => WaitInv
  BY ScopeFacts DEF Init, WaitInv, Overtaken, Unheard, FirstIsAwaited
<1>2. GateInv /\ WaitInv /\ [Next]_vars => WaitInv'
  BY OvertakenStep, UnheardStep, FirstIsAwaitedStep DEF GateInv, WaitInv
<1>3. GateInv /\ WaitInv => CleanupWaitsUnlessRetryErred
  <2> SUFFICES ASSUME GateInv, WaitInv, NEW g \in finished, NEW n \in Attempts, <<g, n>> \in flight
               PROVE  n > 1 /\ pc[Data(g, n)] \notin {"out", "called"}
    BY DEF CleanupWaitsUnlessRetryErred, Data
  <2>1. g \in Gens /\ g \in pending /\ g \in called
    BY DEF GateInv, ChainInv, TypeBut, GateOrder
  <2>2. n # 1
    BY <2>1 DEF WaitInv, FirstIsAwaited
  <2> QED
    BY <2>1, <2>2 DEF WaitInv, Unheard, Attempts
<1> QED
  BY <1>1, <1>2, <1>3, GateInvariant, PTL DEF Spec
=============================================================================
