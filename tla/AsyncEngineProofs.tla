------------------------- MODULE AsyncEngineProofs -------------------------
(***************************************************************************)
(* Proofs about AsyncEngine, for every number of workers, requests,        *)
(* sessions and profiles, and every limit.                                 *)
(*                                                                         *)
(* The inductive invariant is built in layers, and each layer rests on     *)
(* those before it: types, what a worker has in its hands (LoopInv), where *)
(* every request is (HomeInv), what closing promises (CloseInv), who holds *)
(* the credits (CreditInv), and who will wake whom (WakeInv).  Each layer  *)
(* is preserved by a worker's step, one action at a time, and by what      *)
(* happens outside the workers (OutsideStep).                              *)
(***************************************************************************)
EXTENDS AsyncEngine, FiniteSetTheorems, WellFoundedInduction, TLAPS

-----------------------------------------------------------------------------
(* The inductive invariant                                                 *)

\* What a worker does, or returns to when it has ended a request.
At(w) == IF stage[w] = "answered" THEN back[w] ELSE stage[w]

\* From the end of ServiceGroups to the end of ServicePending.
InPass(w) == At(w) \in {"pending", "credit", "full", "start", "first"}

Distinct(s) == \A i, j \in DOMAIN s : s[i] = s[j] => i = j

Queued(w) == Elements(inbox[w]) \cup Elements(pending[w]) \cup Elements(kept[w])

\* Types; the counter of credits is not yet known to stay positive.
RequestTypes ==
  /\ life \in [Requests -> Lives] /\ owner \in [Requests -> Workers \cup {NoOne}]
  /\ early \subseteq Delayed /\ late \subseteq Requests /\ ready \subseteq Requests

SubmitTypes ==
  /\ lock \in Requests \cup {NoOne} /\ notifying \subseteq Requests
  /\ \A r \in Requests : lock = r \/ r \in notifying => owner[r] \in Workers
  /\ closing \subseteq Targets
  /\ closer \in [Targets -> {"open", "begun", "waiting", "closed"}]
  /\ faults \in 0..MaxFaults

QueueTypes ==
  /\ inbox \in [Workers -> Seq(Requests)]
  /\ pending \in [Workers -> Seq(Requests)]
  /\ kept \in [Workers -> Seq(Requests)]

GroupTypes ==
  /\ shard \in [Workers -> [Profiles -> Nat]] /\ credits \in Int
  /\ draining \in [Workers -> SUBSET Profiles]
  /\ failed \in [Workers -> SUBSET Profiles]
  /\ aged \in [Workers -> SUBSET Profiles]

FlagTypes ==
  /\ wake \subseteq Workers
  /\ waitingCredit \subseteq Workers /\ passCredit \subseteq Workers
  /\ waitingCapacity \subseteq Workers /\ passCapacity \subseteq Workers

StageTypes ==
  /\ stage \in [Workers -> Stages] /\ back \in [Workers -> Stages]
  /\ victims \in [Workers -> SUBSET Requests] /\ todo \in [Workers -> SUBSET Profiles]
  /\ armed \in [Workers -> SUBSET Requests]

TypeInv ==
  RequestTypes /\ SubmitTypes /\ QueueTypes /\ GroupTypes /\ FlagTypes /\ StageTypes

\* What a worker has in its hands at each stage of its loop.
LoopInv ==
  \A w \in Workers :
    /\ stage[w] \in {"credit", "full", "start"} => pending[w] # <<>>
    /\ At(w) \in {"scan", "finish"} => todo[w] # {}
    /\ stage[w] = "answered" => back[w] \in {"finish", "first", "drive", "flush", "pending"}
    /\ kept[w] # <<>> => InPass(w)

\* The life of a request and where it is found agree.
QueuesApart ==
  \A w \in Workers :
    /\ Distinct(inbox[w]) /\ Distinct(pending[w]) /\ Distinct(kept[w])
    /\ Elements(inbox[w]) \cap (Elements(pending[w]) \cup Elements(kept[w])) = {}
    /\ Elements(pending[w]) \cap Elements(kept[w]) = {}

QueuedInv ==
  \A w \in Workers : \A r \in Requests : r \in Queued(w) <=> life[r] = "queued" /\ owner[r] = w

VictimsRun == \A w \in Workers : victims[w] \subseteq Running(w)

LivesInv ==
  \A r \in Requests :
    /\ life[r] = "admitted" <=> lock = r
    /\ r \in Outstanding => owner[r] \in Workers
    /\ life[r] = "answered" => stage[owner[r]] = "answered"

NotifyInv == \A r \in notifying : life[r] # "new"

HomeInv == QueuesApart /\ QueuedInv /\ VictimsRun /\ LivesInv /\ NotifyInv

\* After the flag is set under the admission mutex nothing new comes in.
SealedInv ==
  \A w \in Workers :
    /\ At(w) = "seal" => Engine \in closing
    /\ At(w) \in {"flush", "stopped"} => Engine \in closing /\ lock = NoOne
    /\ At(w) = "flush" => Running(w) \subseteq victims[w]
    /\ stage[w] = "stopped" =>
         /\ inbox[w] = <<>> /\ pending[w] = <<>> /\ Running(w) = {} /\ Groups(w) = {}
         /\ w \notin waitingCredit

CloserInv ==
  \A x \in Targets :
    /\ closer[x] # "open" => x \in closing
    /\ closer[x] = "closed" => Drained(x)

CloseInv == SealedInv /\ CloserInv

\* Every credit is held by a shard, and a request that runs, or is about to, has one.
CountInv ==
  /\ IsFiniteSet(Held) /\ credits = Cardinality(Held) /\ credits <= MaxConnections
  /\ \A w \in Workers : \A p \in Profiles : shard[w][p] <= MaxConnections

PaidFor(w, p) == IsFiniteSet(ActiveSet(w, p)) /\ Cardinality(ActiveSet(w, p)) <= shard[w][p]

HasRoom(w) ==
  \E p \in Profiles :
    p = Profile(Head(pending[w])) /\ Cardinality(ActiveSet(w, p)) < shard[w][p]

RunInv ==
  /\ \A w \in Workers : \A p \in Profiles : PaidFor(w, p)
  /\ \A w \in Workers : stage[w] = "start" => HasRoom(w)

CreditInv == CountInv /\ RunInv

\* What waits in a worker's queue because it found no credit.
Starved(w) == (Elements(kept[w]) \cup
               (IF stage[w] = "parked" THEN Elements(pending[w]) ELSE {})) \ Delayed

\* The registrations of a worker that will outlast its pass.
HoldsCredit(w)   == w \in waitingCredit /\ (stage[w] = "parked" \/ w \in passCredit)
HoldsCapacity(w) == w \in waitingCapacity /\ (stage[w] = "parked" \/ w \in passCapacity)

Ending == \E v \in Workers : stage[v] = "answered"

\* Somebody will tell w that r was closed.
CloseIsTold(w, r) ==
  Closed(r) => w \in wake \/ closer[SessionOf[r]] = "begun" \/ closer[Engine] = "begun"

InboxTold(w) ==
  inbox[w] # <<>> => \/ w \in wake \/ At(w) \in {"drive", "inbox", "seal", "flush"}
                     \/ \E r \in notifying : owner[r] = w

RegistrationOwned(w) ==
  /\ InPass(w) /\ w \in passCredit => kept[w] # <<>>
  /\ stage[w] = "parked" /\ w \in waitingCredit => pending[w] # <<>>

CloseTold(w) ==
  /\ \A r \in Starved(w) : CloseIsTold(w, r)
  /\ stage[w] \in {"credit", "full"} => CloseIsTold(w, Head(pending[w]))

CapacityTold(w) ==
  /\ Starved(w) # {} => Full \/ w \in wake
  /\ stage[w] = "full" => (Full \/ w \in wake) /\ w \in passCapacity
  /\ stage[w] \in {"credit", "full"} => w \in waitingCapacity

\* A worker with a starved request is told of the next credit: it asked the
\* owners of idle groups, or a request will end and whoever ends it looks.
StarvedTold(w) ==
  Starved(w) # {} =>
    w \in wake \/ HoldsCredit(w) \/ (HoldsCapacity(w) /\ (Active # {} \/ Ending))

\* When every credit is held by an idle group, its owner will see the pressure.
ReclaimTold ==
  Pressure /\ Full /\ Active = {} /\ (\A v \in Workers : stage[v] \notin {"answered", "start"}) =>
    \A w \in Workers : Groups(w) # {} =>
      w \in wake \/ stage[w] \in {"drive", "inbox", "evict", "seal", "flush"}

WakeInv ==
  /\ \A w \in Workers : /\ InboxTold(w) /\ RegistrationOwned(w) /\ CloseTold(w)
                        /\ CapacityTold(w) /\ StarvedTold(w)
  /\ ReclaimTold

Inv == TypeInv /\ LoopInv /\ HomeInv /\ CloseInv /\ CreditInv /\ WakeInv

-----------------------------------------------------------------------------
(* Lemmas about the operators                                              *)

LEMMA LeastIn ==
  ASSUME NEW S \in SUBSET Profiles, S # {}
  PROVE  Least(S) \in S /\ Least(S) \in Profiles
<1>1. S \subseteq Nat
  BY ConstantsAssumption DEF ConstantsAssumption, Profiles
<1>2. PICK x \in S : \A y \in S : ~(<<y, x>> \in OpToRel(<, Nat))
  BY <1>1, NatLessThanWellFounded, WFMin
<1>3. \A y \in S : x <= y
  <2> SUFFICES ASSUME NEW y \in S, ~(x <= y)
               PROVE  <<y, x>> \in OpToRel(<, Nat)
    BY <1>2
  <2>1. x \in Nat /\ y \in Nat /\ y < x
    BY <1>1
  <2> QED
    BY <2>1 DEF OpToRel
<1> QED
  BY <1>3 DEF Least

LEMMA ProfileType ==
  /\ \A r \in Requests : Profile(r) \in Profiles
  /\ \A r \in Requests : SessionOf[r] \in Targets /\ SessionOf[r] # Engine
BY ConstantsAssumption DEF ConstantsAssumption, Profile, Profiles, Targets

LEMMA GroupsType ==
  ASSUME NEW w
  PROVE  Groups(w) \in SUBSET Profiles /\ Idle(w) \in SUBSET Groups(w)
BY DEF Groups, Idle

LEMMA ElementsOf ==
  ASSUME NEW S, NEW s \in Seq(S)
  PROVE  /\ Elements(s) \in SUBSET S
         /\ s = <<>> <=> Elements(s) = {}
BY DEF Elements

LEMMA ElementsOfAppend ==
  ASSUME NEW S, NEW s \in Seq(S), NEW x \in S
  PROVE  /\ Append(s, x) \in Seq(S) /\ Append(s, x) # <<>>
         /\ Elements(Append(s, x)) = Elements(s) \cup {x}
<1>1. /\ Append(s, x) \in Seq(S) /\ Len(Append(s, x)) = Len(s) + 1
      /\ \A i \in 1 .. Len(s) : Append(s, x)[i] = s[i]
      /\ Append(s, x)[Len(s) + 1] = x
  OBVIOUS
<1> QED
  BY <1>1 DEF Elements

LEMMA ElementsOfTail ==
  ASSUME NEW S, NEW s \in Seq(S), s # <<>>
  PROVE  /\ Head(s) \in S /\ Tail(s) \in Seq(S)
         /\ Head(s) \in Elements(s)
         /\ Elements(s) = {Head(s)} \cup Elements(Tail(s))
<1>1. /\ Head(s) = s[1] /\ Tail(s) \in Seq(S) /\ Len(Tail(s)) = Len(s) - 1 /\ Len(s) \in Nat \ {0}
      /\ \A i \in 1 .. Len(s) - 1 : Tail(s)[i] = s[i + 1]
  OBVIOUS
<1>2. \A x \in Elements(s) : x = Head(s) \/ x \in Elements(Tail(s))
  <2> SUFFICES ASSUME NEW i \in 1 .. Len(s), i # 1
               PROVE  s[i] \in Elements(Tail(s))
    BY <1>1 DEF Elements
  <2>1. i - 1 \in 1 .. Len(s) - 1 /\ Tail(s)[i - 1] = s[i]
    BY <1>1
  <2>2. i - 1 \in DOMAIN Tail(s)
    BY <2>1, <1>1
  <2> QED
    BY <2>1, <2>2 DEF Elements
<1>3. \A x \in Elements(Tail(s)) : x \in Elements(s)
  BY <1>1 DEF Elements
<1> QED
  BY <1>1, <1>2, <1>3 DEF Elements

LEMMA ElementsOfConcat ==
  ASSUME NEW S, NEW s \in Seq(S), NEW t \in Seq(S)
  PROVE  /\ s \o t \in Seq(S)
         /\ Elements(s \o t) = Elements(s) \cup Elements(t)
         /\ s \o t = <<>> <=> s = <<>> /\ t = <<>>
<1>1. /\ s \o t \in Seq(S) /\ Len(s \o t) = Len(s) + Len(t)
      /\ \A i \in 1 .. Len(s) : (s \o t)[i] = s[i]
      /\ \A i \in 1 .. Len(t) : (s \o t)[Len(s) + i] = t[i]
      /\ \A i \in Len(s) + 1 .. Len(s) + Len(t) :
           (s \o t)[i] = t[i - Len(s)] /\ i - Len(s) \in 1 .. Len(t)
  OBVIOUS
<1>2. Elements(s \o t) \subseteq Elements(s) \cup Elements(t)
  <2> SUFFICES ASSUME NEW i \in 1 .. Len(s) + Len(t)
               PROVE  (s \o t)[i] \in Elements(s) \cup Elements(t)
    BY <1>1 DEF Elements
  <2> QED
    BY <1>1 DEF Elements
<1>3. Elements(s) \subseteq Elements(s \o t)
  BY <1>1 DEF Elements
<1>4. Elements(t) \subseteq Elements(s \o t)
  <2> SUFFICES ASSUME NEW i \in 1 .. Len(t)
               PROVE  t[i] \in Elements(s \o t)
    BY <1>1 DEF Elements
  <2>1. Len(s) + i \in DOMAIN (s \o t) /\ (s \o t)[Len(s) + i] = t[i]
    BY <1>1
  <2> QED
    BY <2>1 DEF Elements
<1> QED
  BY <1>1, <1>2, <1>3, <1>4

LEMMA HeadOfConcat ==
  ASSUME NEW S, NEW s \in Seq(S), NEW t \in Seq(S), s # <<>>
  PROVE  Head(s \o t) = Head(s)
<1>1. /\ s \o t \in Seq(S) /\ Len(s \o t) = Len(s) + Len(t)
      /\ \A i \in 1 .. Len(s) : (s \o t)[i] = s[i]
      /\ Len(s) \in Nat \ {0} /\ Len(t) \in Nat
  OBVIOUS
<1>2. s \o t # <<>> /\ (s \o t)[1] = s[1]
  BY <1>1
<1> QED
  BY <1>1, <1>2

LEMMA DistinctAppend ==
  ASSUME NEW S, NEW s \in Seq(S), NEW x \in S, Distinct(s), x \notin Elements(s)
  PROVE  Distinct(Append(s, x))
BY DEF Distinct, Elements

LEMMA DistinctTail ==
  ASSUME NEW S, NEW s \in Seq(S), s # <<>>, Distinct(s)
  PROVE  Distinct(Tail(s)) /\ Elements(Tail(s)) = Elements(s) \ {Head(s)}
<1>1. /\ Head(s) = s[1] /\ Tail(s) \in Seq(S) /\ Len(Tail(s)) = Len(s) - 1 /\ Len(s) \in Nat \ {0}
      /\ \A i \in 1 .. Len(s) - 1 : Tail(s)[i] = s[i + 1]
  OBVIOUS
<1>2. Distinct(Tail(s))
  BY <1>1 DEF Distinct
<1>3. Head(s) \notin Elements(Tail(s))
  BY <1>1 DEF Distinct, Elements
<1> QED
  BY <1>2, <1>3, ElementsOfTail

LEMMA DistinctConcat ==
  ASSUME NEW S, NEW s \in Seq(S), NEW t \in Seq(S), Distinct(s), Distinct(t),
         Elements(s) \cap Elements(t) = {}
  PROVE  Distinct(s \o t)
<1>1. /\ s \o t \in Seq(S) /\ Len(s \o t) = Len(s) + Len(t)
      /\ \A i \in 1 .. Len(s) : (s \o t)[i] = s[i]
      /\ \A i \in Len(s) + 1 .. Len(s) + Len(t) :
           (s \o t)[i] = t[i - Len(s)] /\ i - Len(s) \in 1 .. Len(t)
  OBVIOUS
<1> SUFFICES ASSUME NEW i \in 1 .. Len(s) + Len(t), NEW j \in 1 .. Len(s) + Len(t),
                    (s \o t)[i] = (s \o t)[j]
             PROVE  i = j
  BY <1>1 DEF Distinct
<1>2. CASE i \in 1 .. Len(s) /\ j \in 1 .. Len(s)
  BY <1>1, <1>2 DEF Distinct
<1>3. CASE i \notin 1 .. Len(s) /\ j \notin 1 .. Len(s)
  <2>1. i - Len(s) \in 1 .. Len(t) /\ j - Len(s) \in 1 .. Len(t) /\ t[i - Len(s)] = t[j - Len(s)]
    BY <1>1, <1>3
  <2> QED
    BY <2>1 DEF Distinct
<1>4. \A k \in 1 .. Len(s), l \in 1 .. Len(t) : s[k] # t[l]
  <2>1. \A k \in 1 .. Len(s) : s[k] \in Elements(s)
    BY DEF Elements
  <2>2. \A l \in 1 .. Len(t) : t[l] \in Elements(t)
    BY DEF Elements
  <2> QED
    BY <2>1, <2>2
<1>5. CASE i \in 1 .. Len(s) /\ j \notin 1 .. Len(s)
  BY <1>1, <1>4, <1>5
<1>6. CASE i \notin 1 .. Len(s) /\ j \in 1 .. Len(s)
  BY <1>1, <1>4, <1>6
<1> QED
  BY <1>2, <1>3, <1>5, <1>6

-----------------------------------------------------------------------------
(* Types, and what a worker has in its hands                               *)

USE DEF requestVars, outside, timeVars, submitVars, closeVars, queueVars, resourceVars,
        groupVars, markVars, flagVars, waitVars, passVars, loopVars

\* What a worker looks at is there.
LEMMA Hands ==
  ASSUME TypeInv, LoopInv, NEW w \in Workers
  PROVE  /\ stage[w] \in {"scan", "finish"} =>
              Least(todo[w]) \in todo[w] /\ Least(todo[w]) \in Profiles
         /\ Idle(w) # {} => Least(Idle(w)) \in Idle(w) /\ Least(Idle(w)) \in Profiles
         /\ Groups(w) # {} => Least(Groups(w)) \in Groups(w) /\ Least(Groups(w)) \in Profiles
         /\ pending[w] # <<>> =>
              /\ Head(pending[w]) \in Requests /\ Tail(pending[w]) \in Seq(Requests)
              /\ Profile(Head(pending[w])) \in Profiles
         /\ stage[w] \in {"credit", "full", "start"} => pending[w] # <<>>
         /\ inbox[w] # <<>> => Head(inbox[w]) \in Requests /\ Tail(inbox[w]) \in Seq(Requests)
         /\ inbox[w] = <<>> => inbox[w] \o pending[w] = pending[w]
         /\ inbox[w] # <<>> => Head(inbox[w] \o pending[w]) = Head(inbox[w])
         /\ inbox[w] \o pending[w] = <<>> <=> inbox[w] = <<>> /\ pending[w] = <<>>
<1>1. /\ pending[w] \in Seq(Requests) /\ inbox[w] \in Seq(Requests)
      /\ todo[w] \in SUBSET Profiles
  BY DEF TypeInv, QueueTypes, StageTypes
<1>2. stage[w] \in {"scan", "finish"} => todo[w] # {}
  BY DEF LoopInv, At
<1>3. stage[w] \in {"scan", "finish"} => Least(todo[w]) \in todo[w] /\ Least(todo[w]) \in Profiles
  BY <1>1, <1>2, LeastIn
<1>4. /\ Idle(w) # {} => Least(Idle(w)) \in Idle(w) /\ Least(Idle(w)) \in Profiles
      /\ Groups(w) # {} => Least(Groups(w)) \in Groups(w) /\ Least(Groups(w)) \in Profiles
  BY GroupsType, LeastIn
<1>5. pending[w] # <<>> => /\ Head(pending[w]) \in Requests /\ Tail(pending[w]) \in Seq(Requests)
                           /\ Profile(Head(pending[w])) \in Profiles
  BY <1>1, ProfileType
<1>6. inbox[w] # <<>> => Head(inbox[w]) \in Requests /\ Tail(inbox[w]) \in Seq(Requests)
  BY <1>1
<1>7. /\ inbox[w] = <<>> => inbox[w] \o pending[w] = pending[w]
      /\ inbox[w] # <<>> => Head(inbox[w] \o pending[w]) = Head(inbox[w])
      /\ inbox[w] \o pending[w] = <<>> <=> inbox[w] = <<>> /\ pending[w] = <<>>
  <2>1. inbox[w] = <<>> => inbox[w] \o pending[w] = pending[w]
    BY <1>1
  <2>2. inbox[w] # <<>> => Head(inbox[w] \o pending[w]) = Head(inbox[w])
    BY <1>1, HeadOfConcat
  <2>3. inbox[w] \o pending[w] = <<>> <=> inbox[w] = <<>> /\ pending[w] = <<>>
    BY <1>1, ElementsOfConcat
  <2> QED
    BY <2>1, <2>2, <2>3
<1> QED
  BY <1>3, <1>4, <1>5, <1>6, <1>7 DEF LoopInv

LEMMA Removal ==
  ASSUME GroupTypes, NEW w \in Workers, NEW p \in Profiles, RemoveGroup(w, p)
  PROVE  GroupTypes'
BY DEF GroupTypes, RemoveGroup, ForgetGroup

LEMMA WorkerRequestTypes ==
  ASSUME TypeInv, LoopInv, NEW w \in Workers, WorkerStep(w) \/ ReactorFails(w)
  PROVE  RequestTypes'
<1> USE DEF TypeInv, RequestTypes
<1>1. CASE Drop(w)
  BY <1>1, Hands DEF Drop, Lives, Answer
<1>2. CASE Reject(w)
  BY <1>2, Hands DEF Reject, Lives
<1>3. CASE Start(w)
  BY <1>3, Hands DEF Start, Lives
<1>4. CASE FinishRequest(w)
  BY <1>4, Hands DEF FinishRequest, Lives, Answer
<1>5. CASE Retire(w)
  BY <1>5, Hands DEF Retire, Lives
<1>6. CASE FlushQueue(w)
  BY <1>6, Hands DEF FlushQueue, Lives, Answer
<1>7. CASE UNCHANGED <<life, owner, early, late, ready>>
  BY <1>7
<1> QED
  BY <1>1, <1>2, <1>3, <1>4, <1>5, <1>6, <1>7
  DEF WorkerStep, TakeInbox, EvictIdle, Evicted, ScanGroup, GroupScanned, NotYet, WaitForDrain,
      Serve, TakeCredit, NoCredit, AskForCredit, EndPass, Awake, Driven, Seal, FlushGroup, Stop,
      ReactorFails, RemoveGroup, ForgetGroup, Answer, Reregister, Take, Keep, RequestReclaim,
      ScanRest, Publish, Wake

LEMMA WorkerSubmitTypes ==
  ASSUME TypeInv, LoopInv, NEW w \in Workers, WorkerStep(w) \/ ReactorFails(w)
  PROVE  SubmitTypes'
<1> USE DEF TypeInv, SubmitTypes
<1>1. CASE Reject(w)
  BY <1>1, ConstantsAssumption DEF Reject, Fault, NoFault
<1>2. CASE Seal(w)
  BY <1>2, ConstantsAssumption DEF Seal, SetClosing, Targets
<1>3. CASE ReactorFails(w)
  BY <1>3, ConstantsAssumption DEF ReactorFails, Fault, Targets
<1>4. CASE UNCHANGED <<owner, lock, notifying, closing, closer, faults>>
  BY <1>4
<1> QED
  BY <1>1, <1>2, <1>3, <1>4
  DEF WorkerStep, TakeInbox, EvictIdle, Evicted, ScanGroup, GroupScanned, Drop, NotYet,
      WaitForDrain, Serve, TakeCredit, NoCredit, AskForCredit, Start, EndPass, Awake, Driven,
      FinishRequest, Retire, FlushQueue, FlushGroup, Stop, RemoveGroup, ForgetGroup, Answer,
      Reregister, Take, Keep, RequestReclaim, ScanRest, Publish, Wake

LEMMA WorkerQueueTypes ==
  ASSUME TypeInv, LoopInv, NEW w \in Workers, WorkerStep(w) \/ ReactorFails(w)
  PROVE  QueueTypes'
<1> USE DEF TypeInv, QueueTypes
<1>1. CASE TakeInbox(w)
  BY <1>1, Hands DEF TakeInbox
<1>2. CASE Drop(w)
  BY <1>2, Hands DEF Drop, Take
<1>3. CASE NotYet(w)
  BY <1>3, Hands DEF NotYet, Keep, Served
<1>4. CASE WaitForDrain(w)
  BY <1>4, Hands DEF WaitForDrain, Keep, Served
<1>5. CASE AskForCredit(w)
  BY <1>5, Hands DEF AskForCredit, Keep
<1>6. CASE Reject(w)
  BY <1>6, Hands DEF Reject, Take
<1>7. CASE Start(w)
  BY <1>7, Hands DEF Start, Take
<1>8. CASE EndPass(w)
  BY <1>8, Hands DEF EndPass
<1>9. CASE FlushQueue(w)
  BY <1>9, Hands, ElementsOfConcat DEF FlushQueue, Take
<1>10. CASE UNCHANGED <<inbox, pending, kept>>
  BY <1>10
<1> QED
  BY <1>1, <1>2, <1>3, <1>4, <1>5, <1>6, <1>7, <1>8, <1>9, <1>10
  DEF WorkerStep, EvictIdle, Evicted, ScanGroup, GroupScanned, Serve, TakeCredit, NoCredit, Awake,
      Driven, FinishRequest, Retire, Seal, FlushGroup, Stop, ReactorFails, RemoveGroup,
      ForgetGroup, Answer, Reregister, Take, Keep, RequestReclaim, ScanRest, Publish, Wake

LEMMA WorkerGroupTypes ==
  ASSUME TypeInv, LoopInv, NEW w \in Workers, WorkerStep(w) \/ ReactorFails(w)
  PROVE  GroupTypes'
<1> USE DEF TypeInv, GroupTypes
<1>1. CASE EvictIdle(w)
  BY <1>1, Hands, Removal DEF EvictIdle
<1>2. CASE ScanGroup(w)
  BY <1>2, Hands, Removal DEF ScanGroup
<1>3. CASE GroupScanned(w)
  BY <1>3, Hands, Removal DEF GroupScanned
<1>4. CASE Serve(w)
  BY <1>4, Hands, Removal DEF Serve, Served
<1>5. CASE TakeCredit(w)
  <2> DEFINE p == Profile(Head(pending[w]))
  <2>1. p \in Profiles
    BY <1>5, Hands DEF TakeCredit
  <2>2. /\ credits' = credits + 1 /\ shard' = [shard EXCEPT ![w][p] = @ + 1]
        /\ UNCHANGED markVars
    BY <1>5 DEF TakeCredit
  <2> HIDE DEF p
  <2> QED
    BY <2>1, <2>2 DEF markVars
<1>6. CASE Start(w)
  BY <1>6, Hands, Removal DEF Start
<1>7. CASE FlushGroup(w)
  BY <1>7, Hands, Removal DEF FlushGroup
<1>8. CASE UNCHANGED <<shard, credits, draining, failed, aged>>
  BY <1>8
<1> QED
  BY <1>1, <1>2, <1>3, <1>4, <1>5, <1>6, <1>7, <1>8
  DEF WorkerStep, TakeInbox, Evicted, Drop, NotYet, WaitForDrain, NoCredit, AskForCredit, Reject,
      EndPass, Awake, Driven, FinishRequest, Retire, Seal, FlushQueue, Stop, ReactorFails,
      RemoveGroup, ForgetGroup, Answer, Reregister, Take, Keep, RequestReclaim, ScanRest, Publish,
      Wake

LEMMA WorkerFlagTypes ==
  ASSUME TypeInv, LoopInv, NEW w \in Workers, WorkerStep(w) \/ ReactorFails(w)
  PROVE  FlagTypes'
<1> USE DEF TypeInv, FlagTypes
<1>1. CASE TakeInbox(w)
  BY <1>1, Hands DEF TakeInbox, ScanRest
<1>2. CASE EvictIdle(w)
  BY <1>2, Hands DEF EvictIdle, Wake, RemoveGroup
<1>3. CASE Evicted(w)
  BY <1>3, Hands DEF Evicted, ScanRest
<1>4. CASE GroupScanned(w)
  BY <1>4, Hands DEF GroupScanned, ScanRest, Wake, RemoveGroup
<1>5. CASE WaitForDrain(w)
  BY <1>5, Hands DEF WaitForDrain, Wake, RequestReclaim
<1>6. CASE Serve(w)
  BY <1>6, Hands DEF Serve, PublishWaiting
<1>7. CASE NoCredit(w)
  BY <1>7, Hands DEF NoCredit
<1>8. CASE AskForCredit(w)
  BY <1>8, Hands DEF AskForCredit, Wake, RequestReclaim
<1>9. CASE EndPass(w)
  BY <1>9, Hands DEF EndPass, Reregister
<1>10. CASE Awake(w)
  BY <1>10, Hands DEF Awake
<1>11. CASE Retire(w)
  BY <1>11, Hands DEF Retire, Wake, Publish
<1>12. CASE FlushGroup(w)
  BY <1>12, Hands DEF FlushGroup, Wake, RemoveGroup
<1>13. CASE Stop(w)
  BY <1>13, Hands DEF Stop
<1>14. CASE ReactorFails(w)
  BY <1>14, Hands DEF ReactorFails, Wake
<1>15. CASE UNCHANGED <<wake, waitingCredit, passCredit, waitingCapacity, passCapacity>>
  BY <1>15
<1> QED
  BY <1>1, <1>2, <1>3, <1>4, <1>5, <1>6, <1>7, <1>8, <1>9, <1>10, <1>11, <1>12, <1>13, <1>14,
     <1>15
  DEF WorkerStep, ScanGroup, Drop, NotYet, TakeCredit, Reject, Start, Driven, FinishRequest, Seal,
      FlushQueue, RemoveGroup, ForgetGroup, Answer, Reregister, Take, Keep, RequestReclaim,
      ScanRest, Publish, Wake

LEMMA WorkerStageTypes ==
  ASSUME TypeInv, LoopInv, NEW w \in Workers, WorkerStep(w) \/ ReactorFails(w)
  PROVE  StageTypes'
<1> USE DEF TypeInv, StageTypes
<1>1. CASE TakeInbox(w)
  BY <1>1, Hands, GroupsType DEF TakeInbox, Stages, Go, ScanRest
<1>2. CASE Evicted(w)
  BY <1>2, Hands, GroupsType DEF Evicted, Stages, Go, ScanRest, Active, Running, ActiveSet
<1>3. CASE ScanGroup(w)
  BY <1>3, Hands DEF ScanGroup, Stages, Go, Active, Running, ActiveSet
<1>4. CASE GroupScanned(w)
  BY <1>4, Hands DEF GroupScanned, Stages, Go, ScanRest, Active, Running, ActiveSet
<1>5. CASE Drop(w)
  BY <1>5, Hands DEF Drop, Stages, Answer
<1>6. CASE Serve(w)
  BY <1>6, Hands DEF Serve, Stages, Go, Served, Active, Running, ActiveSet
<1>7. CASE TakeCredit(w)
  BY <1>7, Hands DEF TakeCredit, Stages, Go
<1>8. CASE NoCredit(w)
  BY <1>8, Hands DEF NoCredit, Stages, Go
<1>9. CASE AskForCredit(w)
  BY <1>9, Hands DEF AskForCredit, Stages, Go, Active
<1>10. CASE Reject(w)
  BY <1>10, Hands DEF Reject, Stages
<1>11. CASE Start(w)
  BY <1>11, Hands DEF Start, Stages, Go, Active, Running, ActiveSet
<1>12. CASE EndPass(w)
  <2>1. Elements(kept[w]) \cap early \in SUBSET Requests
    BY ConstantsAssumption DEF RequestTypes, ConstantsAssumption
  <2> QED
    BY <1>12, <2>1 DEF EndPass, Stages, Go
<1>13. CASE Awake(w)
  BY <1>13, Hands DEF Awake, Stages, Go, Active, Running, ActiveSet
<1>14. CASE Driven(w)
  BY <1>14, Hands DEF Driven, Stages, Go
<1>15. CASE FinishRequest(w)
  BY <1>15, Hands DEF FinishRequest, Stages, Answer
<1>16. CASE Retire(w)
  BY <1>16, Hands DEF Retire, Stages, Go
<1>17. CASE Seal(w)
  BY <1>17, Hands DEF Seal, Stages, Go, Active, Running
<1>18. CASE FlushQueue(w)
  BY <1>18, Hands DEF FlushQueue, Stages, Answer
<1>19. CASE Stop(w)
  BY <1>19, Hands DEF Stop, Stages, Go
<1>20. CASE ReactorFails(w)
  BY <1>20, Hands DEF ReactorFails, Stages, Go
<1>21. CASE UNCHANGED <<stage, back, victims, todo, armed>>
  BY <1>21
<1> QED
  BY <1>1, <1>2, <1>3, <1>4, <1>5, <1>6, <1>7, <1>8, <1>9, <1>10, <1>11, <1>12, <1>13, <1>14,
     <1>15, <1>16, <1>17, <1>18, <1>19, <1>20, <1>21
  DEF WorkerStep, EvictIdle, NotYet, WaitForDrain, FlushGroup, RemoveGroup, ForgetGroup, Answer,
      Reregister, Take, Keep, RequestReclaim, ScanRest, Publish, Wake

\* The steps of other threads, of curl and of the clock.
\* What happens outside the workers.
OutsideStep ==
  \/ \E w \in Workers, p \in Profiles : GroupFails(w, p) \/ GroupAges(w, p)
  \/ \E r \in Requests : \/ Admit(r) \/ PushFails(r) \/ Submission(r)
                         \/ TransferEnds(r) \/ DeadlinePasses(r) \/ ReadyAtPasses(r)
  \/ \E x \in Targets : BeginClose(x) \/ Closing(x)

LEMMA OutsideTypes ==
  ASSUME TypeInv, OutsideStep
  PROVE  TypeInv'
<1> USE ConstantsAssumption DEF TypeInv, outsideUnchanged, Fault, Wake, Publish,
        RequestTypes, SubmitTypes, QueueTypes, GroupTypes, FlagTypes, StageTypes
<1>1. ASSUME NEW w \in Workers, NEW p \in Profiles, GroupFails(w, p)
      PROVE  TypeInv'
  <2>1. failed' \in [Workers -> SUBSET Profiles]
    BY <1>1 DEF GroupFails
  <2>2. faults' \in 0..MaxFaults
    BY <1>1 DEF GroupFails, ConstantsAssumption
  <2>3. wake' \subseteq Workers
    BY <1>1 DEF GroupFails
  <2> QED
    BY <1>1, <2>1, <2>2, <2>3 DEF OutsideStep, GroupFails
<1>2. ASSUME NEW w \in Workers, NEW p \in Profiles, GroupAges(w, p)
      PROVE  TypeInv'
  BY <1>2 DEF GroupAges
<1>3. ASSUME NEW r \in Requests, Admit(r)
      PROVE  TypeInv'
  <2>1. WorkersOf[r] \subseteq Workers
    BY DEF ConstantsAssumption
  <2>2. life' \in [Requests -> Lives]
    BY <1>3 DEF Admit, Lives
  <2>3. /\ owner' \in [Requests -> Workers \cup {NoOne}]
        /\ \A q \in Requests : owner[q] \in Workers => owner'[q] \in Workers
        /\ lock' # lock => owner'[r] \in Workers
    <3>1. CASE UNCHANGED <<owner, lock>>
      BY <3>1
    <3>2. ASSUME NEW v \in WorkersOf[r], owner' = [owner EXCEPT ![r] = v]
          PROVE  /\ owner' \in [Requests -> Workers \cup {NoOne}] /\ owner'[r] \in Workers
                 /\ \A q \in Requests : owner[q] \in Workers => owner'[q] \in Workers
      BY <2>1, <3>2
    <3> QED
      BY <1>3, <3>1, <3>2 DEF Admit
  <2>4. lock' \in Requests \cup {NoOne} /\ lock' \in {lock, r}
    BY <1>3 DEF Admit
  <2> QED
    BY <1>3, <2>2, <2>3, <2>4 DEF Admit
<1>4. ASSUME NEW r \in Requests, PushFails(r)
      PROVE  TypeInv'
  <2>1. faults' \in 0..MaxFaults
    BY <1>4 DEF PushFails, ConstantsAssumption
  <2>2. lock' \notin Requests
    BY <1>4 DEF PushFails, ConstantsAssumption
  <2>3. life' \in [Requests -> Lives]
    BY <1>4 DEF PushFails, Lives
  <2>4. wake' \subseteq Workers
    BY <1>4 DEF PushFails
  <2> QED
    BY <1>4, <2>1, <2>2, <2>3, <2>4 DEF PushFails
<1>5. ASSUME NEW r \in Requests, Push(r)
      PROVE  TypeInv'
  <2>1. lock \in Requests /\ lock' \notin Requests
    BY <1>5 DEF Push, ConstantsAssumption
  <2>2. inbox' \in [Workers -> Seq(Requests)]
    BY <1>5, ElementsOfAppend DEF Push
  <2> QED
    BY <1>5, <2>1, <2>2 DEF Push, Lives
<1>6. ASSUME NEW r \in Requests, Notify(r)
      PROVE  TypeInv'
  <2>1. owner[r] \in Workers
    BY <1>6 DEF Notify
  <2> QED
    BY <1>6, <2>1 DEF Notify
<1>7. ASSUME NEW r \in Requests, TransferEnds(r)
      PROVE  TypeInv'
  BY <1>7 DEF TransferEnds
<1>8. ASSUME NEW r \in Requests, DeadlinePasses(r)
      PROVE  TypeInv'
  BY <1>8 DEF DeadlinePasses
<1>9. ASSUME NEW r \in Requests, ReadyAtPasses(r)
      PROVE  TypeInv'
  BY <1>9 DEF ReadyAtPasses
<1>10. ASSUME NEW x \in Targets, BeginClose(x)
       PROVE  TypeInv'
  BY <1>10 DEF BeginClose, SetClosing
<1>11. ASSUME NEW x \in Targets, CloseWakes(x)
       PROVE  TypeInv'
  BY <1>11 DEF CloseWakes
<1>12. ASSUME NEW x \in Targets, CloseReturns(x)
       PROVE  TypeInv'
  BY <1>12 DEF CloseReturns
<1> QED
  BY <1>1, <1>2, <1>3, <1>4, <1>5, <1>6, <1>7, <1>8, <1>9, <1>10, <1>11, <1>12
  DEF OutsideStep, Submission, Closing

\* A pass keeps what it has in its hands.
LEMMA WorkerLoop ==
  ASSUME TypeInv, LoopInv, NEW w \in Workers, WorkerStep(w) \/ ReactorFails(w)
  PROVE  LoopInv'
<1> USE DEF TypeInv, QueueTypes, StageTypes, LoopInv, At, InPass
<1>1. CASE TakeInbox(w)
  BY <1>1, Hands DEF TakeInbox, Go, ScanRest
<1>2. CASE EvictIdle(w)
  BY <1>2, Hands DEF EvictIdle, Go
<1>3. CASE Evicted(w)
  BY <1>3, Hands DEF Evicted, Go, ScanRest
<1>4. CASE ScanGroup(w)
  BY <1>4, Hands DEF ScanGroup, Go
<1>5. CASE GroupScanned(w)
  BY <1>5, Hands DEF GroupScanned, Go, ScanRest
<1>6. CASE Drop(w)
  BY <1>6, Hands DEF Drop, Go, Answer, Take
<1>7. CASE NotYet(w)
  BY <1>7, Hands DEF NotYet, Go, Keep, Served
<1>8. CASE WaitForDrain(w)
  BY <1>8, Hands DEF WaitForDrain, Go, Keep, Served
<1>9. CASE Serve(w)
  BY <1>9, Hands DEF Serve, Go, Served
<1>10. CASE TakeCredit(w)
  BY <1>10, Hands DEF TakeCredit, Go
<1>11. CASE NoCredit(w)
  BY <1>11, Hands DEF NoCredit, Go
<1>12. CASE AskForCredit(w)
  BY <1>12, Hands DEF AskForCredit, Go, Keep
<1>13. CASE Reject(w)
  BY <1>13, Hands DEF Reject, Go, Take
<1>14. CASE Start(w)
  BY <1>14, Hands DEF Start, Go, Take
<1>15. CASE EndPass(w)
  BY <1>15, Hands DEF EndPass, Go
<1>16. CASE Awake(w)
  BY <1>16, Hands DEF Awake, Go
<1>17. CASE Driven(w)
  BY <1>17, Hands DEF Driven, Go
<1>18. CASE FinishRequest(w)
  BY <1>18, Hands DEF FinishRequest, Go, Answer
<1>19. CASE Retire(w)
  BY <1>19, Hands DEF Retire, Go
<1>20. CASE Seal(w)
  BY <1>20, Hands DEF Seal, Go
<1>21. CASE FlushQueue(w)
  BY <1>21, Hands DEF FlushQueue, Go, Answer, Take
<1>22. CASE FlushGroup(w)
  BY <1>22, Hands DEF FlushGroup, Go
<1>23. CASE Stop(w)
  BY <1>23, Hands DEF Stop, Go
<1>24. CASE ReactorFails(w)
  BY <1>24, Hands DEF ReactorFails, Go
<1> QED
  BY <1>1, <1>2, <1>3, <1>4, <1>5, <1>6, <1>7, <1>8, <1>9, <1>10, <1>11, <1>12, <1>13, <1>14,
     <1>15, <1>16, <1>17, <1>18, <1>19, <1>20, <1>21, <1>22, <1>23, <1>24
  DEF WorkerStep

LEMMA OutsideLoop ==
  ASSUME LoopInv, OutsideStep
  PROVE  LoopInv'
<1>1. UNCHANGED <<stage, back, todo, pending, kept>>
  BY DEF OutsideStep, GroupFails, GroupAges, Admit, PushFails, Push, Notify, TransferEnds,
         DeadlinePasses, ReadyAtPasses, BeginClose, CloseWakes, CloseReturns, outsideUnchanged,
         Submission, Closing
<1> QED
  BY <1>1 DEF LoopInv, At, InPass

-----------------------------------------------------------------------------
(* The home of a request                                                   *)

LEMMA TakesHead ==
  ASSUME QueueTypes, QueuesApart, NEW w \in Workers, pending[w] # <<>>,
         pending' = [pending EXCEPT ![w] = Tail(@)]
  PROVE  /\ Head(pending[w]) \in Requests /\ Head(pending[w]) \in Elements(pending[w])
         /\ Distinct(pending'[w])
         /\ Elements(pending'[w]) = Elements(pending[w]) \ {Head(pending[w])}
         /\ \A v \in Workers \ {w} : pending'[v] = pending[v]
<1>1. pending[w] \in Seq(Requests) /\ Distinct(pending[w]) /\ pending'[w] = Tail(pending[w])
  BY DEF QueueTypes, QueuesApart
<1>2. \A v \in Workers \ {w} : pending'[v] = pending[v]
  BY DEF QueueTypes
<1> QED
  BY <1>1, <1>2, DistinctTail, ElementsOfTail

LEMMA KeepHome ==
  ASSUME QueueTypes, QueuesApart, QueuedInv, NEW w \in Workers, pending[w] # <<>>, Keep(w),
         UNCHANGED <<inbox, life, owner>>
  PROVE  QueuesApart' /\ QueuedInv'
<1> DEFINE h == Head(pending[w])
<1>1. /\ h \in Requests /\ h \in Elements(pending[w]) /\ Distinct(pending'[w])
      /\ Elements(pending'[w]) = Elements(pending[w]) \ {h}
      /\ \A v \in Workers \ {w} : pending'[v] = pending[v]
  BY TakesHead DEF Keep
<1>2. kept'[w] = Append(kept[w], h) /\ \A v \in Workers \ {w} : kept'[v] = kept[v]
  BY DEF Keep, QueueTypes
<1>3. kept[w] \in Seq(Requests) /\ Distinct(kept[w]) /\ h \notin Elements(kept[w])
  BY <1>1 DEF QueueTypes, QueuesApart
<1>4. Distinct(kept'[w]) /\ Elements(kept'[w]) = Elements(kept[w]) \cup {h}
  BY <1>1, <1>2, <1>3, ElementsOfAppend, DistinctAppend
<1> HIDE DEF h
<1>5. QueuesApart'
  <2> SUFFICES ASSUME NEW v \in Workers
               PROVE  /\ Distinct(inbox[v]) /\ Distinct(pending'[v]) /\ Distinct(kept'[v])
                      /\ Elements(inbox[v]) \cap (Elements(pending'[v]) \cup Elements(kept'[v])) = {}
                      /\ Elements(pending'[v]) \cap Elements(kept'[v]) = {}
    BY DEF QueuesApart
  <2>1. CASE v = w
    BY <1>1, <1>4, <2>1 DEF QueuesApart
  <2>2. CASE v # w
    BY <1>1, <1>2, <2>2 DEF QueuesApart
  <2> QED
    BY <2>1, <2>2
<1>6. \A v \in Workers : Queued(v)' = Queued(v)
  <2>1. Queued(w)' = Queued(w)
    BY <1>1, <1>4 DEF Queued
  <2>2. \A v \in Workers \ {w} : Queued(v)' = Queued(v)
    BY <1>1, <1>2 DEF Queued
  <2> QED
    BY <2>1, <2>2
<1> QED
  BY <1>5, <1>6 DEF QueuedInv

LEMMA TakeHome ==
  ASSUME TypeInv, QueuesApart, QueuedInv, NEW w \in Workers, pending[w] # <<>>, Take(w),
         NEW l \in {"running", "answered"}, life' = [life EXCEPT ![Head(pending[w])] = l],
         UNCHANGED <<inbox, owner>>
  PROVE  QueuesApart' /\ QueuedInv'
<1> DEFINE h == Head(pending[w])
<1>1. /\ h \in Requests /\ h \in Elements(pending[w]) /\ Distinct(pending'[w])
      /\ Elements(pending'[w]) = Elements(pending[w]) \ {h}
      /\ \A v \in Workers \ {w} : pending'[v] = pending[v]
  BY TakesHead DEF Take, TypeInv
<1>2. kept' = kept
  BY DEF Take
<1>3. life'[h] # "queued" /\ \A r \in Requests \ {h} : life'[r] = life[r]
  BY <1>1 DEF TypeInv, RequestTypes
<1> HIDE DEF h
<1>4. QueuesApart'
  BY <1>1, <1>2 DEF QueuesApart
<1>5. Queued(w)' = Queued(w) \ {h}
  BY <1>1, <1>2 DEF Queued, QueuesApart
<1>6. \A v \in Workers \ {w} : Queued(v)' = Queued(v)
  BY <1>1, <1>2 DEF Queued
<1>7. owner[h] = w
  BY <1>1 DEF QueuedInv, Queued
<1>8. QueuedInv'
  <2> SUFFICES ASSUME NEW v \in Workers, NEW r \in Requests
               PROVE  r \in Queued(v)' <=> life'[r] = "queued" /\ owner[r] = v
    BY DEF QueuedInv
  <2>1. r \in Queued(v) <=> life[r] = "queued" /\ owner[r] = v
    BY DEF QueuedInv
  <2> QED
    BY <1>3, <1>5, <1>6, <1>7, <2>1
<1> QED
  BY <1>4, <1>8

LEMMA WorkerQueues ==
  ASSUME TypeInv, LoopInv, HomeInv, NEW w \in Workers, WorkerStep(w) \/ ReactorFails(w)
  PROVE  QueuesApart' /\ QueuedInv'
<1> USE DEF HomeInv
<1>1. CASE TakeInbox(w)
  <2>1. /\ pending[w] \in Seq(Requests) /\ inbox[w] \in Seq(Requests)
        /\ Distinct(pending[w]) /\ Distinct(inbox[w])
        /\ Elements(pending[w]) \cap Elements(inbox[w]) = {}
    BY DEF TypeInv, QueueTypes, QueuesApart
  <2>2. /\ pending'[w] = pending[w] \o inbox[w] /\ inbox'[w] = <<>>
        /\ \A v \in Workers \ {w} : pending'[v] = pending[v] /\ inbox'[v] = inbox[v]
        /\ UNCHANGED <<kept, life, owner>>
    BY <1>1 DEF TakeInbox, TypeInv, QueueTypes
  <2>3. /\ Distinct(pending'[w])
        /\ Elements(pending'[w]) = Elements(pending[w]) \cup Elements(inbox[w])
    BY <2>1, <2>2, DistinctConcat, ElementsOfConcat
  <2>4. Distinct(inbox'[w]) /\ Elements(inbox'[w]) = {}
    BY <2>2 DEF Distinct, Elements
  <2>5. \A v \in Workers : Queued(v)' = Queued(v)
    BY <2>2, <2>3, <2>4 DEF Queued
  <2>6. QueuesApart'
    BY <2>2, <2>3, <2>4 DEF QueuesApart
  <2> QED
    BY <2>2, <2>5, <2>6 DEF QueuedInv
<1>2. CASE NotYet(w)
  BY <1>2, KeepHome DEF NotYet, Served, TypeInv
<1>3. CASE WaitForDrain(w)
  BY <1>3, KeepHome DEF WaitForDrain, Served, TypeInv
<1>4. CASE AskForCredit(w)
  BY <1>4, Hands, KeepHome DEF AskForCredit, TypeInv
<1>5. CASE EndPass(w)
  <2>1. /\ pending[w] = <<>> /\ pending'[w] = kept[w] /\ kept'[w] = <<>>
        /\ \A v \in Workers \ {w} : pending'[v] = pending[v] /\ kept'[v] = kept[v]
        /\ UNCHANGED <<inbox, life, owner>>
    BY <1>5 DEF EndPass, TypeInv, QueueTypes
  <2>2. Distinct(<<>>) /\ Elements(<<>>) = {}
    BY DEF Distinct, Elements
  <2>3. \A v \in Workers : Queued(v)' = Queued(v)
    BY <2>1, <2>2 DEF Queued
  <2>4. QueuesApart'
    BY <2>1, <2>2 DEF QueuesApart
  <2> QED
    BY <2>1, <2>3, <2>4 DEF QueuedInv
<1>6. CASE Drop(w)
  BY <1>6, TakeHome DEF Drop, Answer
<1>7. CASE Reject(w)
  BY <1>7, Hands, TakeHome DEF Reject
<1>8. CASE Start(w)
  BY <1>8, Hands, TakeHome DEF Start
<1>9. CASE FlushQueue(w)
  <2>1. CASE inbox[w] = <<>>
    BY <1>9, <2>1, Hands, TakeHome DEF FlushQueue, Answer
  <2>2. CASE inbox[w] # <<>>
    <3> DEFINE h == Head(inbox[w])
    <3>1. /\ inbox'[w] = Tail(inbox[w]) /\ \A v \in Workers \ {w} : inbox'[v] = inbox[v]
          /\ UNCHANGED <<pending, kept, owner>> /\ life' = [life EXCEPT ![h] = "answered"]
      BY <1>9, <2>2, Hands DEF FlushQueue, Answer, TypeInv, QueueTypes
    <3>2. /\ h \in Requests /\ h \in Elements(inbox[w]) /\ Distinct(inbox'[w])
          /\ Elements(inbox'[w]) = Elements(inbox[w]) \ {h}
      <4>1. inbox[w] \in Seq(Requests) /\ Distinct(inbox[w])
        BY DEF TypeInv, QueueTypes, QueuesApart
      <4> QED
        BY <4>1, <3>1, <2>2, DistinctTail, ElementsOfTail
    <3>3. life'[h] # "queued" /\ \A r \in Requests \ {h} : life'[r] = life[r]
      BY <3>1, <3>2 DEF TypeInv, RequestTypes
    <3> HIDE DEF h
    <3> QED
      BY <3>1, <3>2, <3>3 DEF QueuesApart, QueuedInv, Queued
  <2> QED
    BY <2>1, <2>2
<1>10. CASE FinishRequest(w)
  <2>1. UNCHANGED <<queueVars, owner>>
    BY <1>10 DEF FinishRequest
  <2>2. \A r \in Requests : life'[r] = "queued" <=> life[r] = "queued"
    BY <1>10
    DEF FinishRequest, Answer, VictimsRun, Running, Active, TypeInv, RequestTypes, StageTypes
  <2> QED
    BY <2>1, <2>2 DEF QueuesApart, QueuedInv, Queued
<1>11. CASE Retire(w)
  <2>1. UNCHANGED <<queueVars, owner>>
    BY <1>11 DEF Retire
  <2>2. \A r \in Requests : life'[r] = "queued" <=> life[r] = "queued"
    BY <1>11 DEF Retire
  <2> QED
    BY <2>1, <2>2 DEF QueuesApart, QueuedInv, Queued
<1>12. CASE UNCHANGED <<life, owner, queueVars>>
  BY <1>12 DEF QueuesApart, QueuedInv, Queued
<1> QED
  BY <1>1, <1>2, <1>3, <1>4, <1>5, <1>6, <1>7, <1>8, <1>9, <1>10, <1>11, <1>12
  DEF WorkerStep, EvictIdle, Evicted, ScanGroup, GroupScanned, Serve, TakeCredit, NoCredit,
      Awake, Driven, Seal, FlushGroup, Stop, ReactorFails

LEMMA OutsideQueues ==
  ASSUME TypeInv, HomeInv, OutsideStep
  PROVE  QueuesApart' /\ QueuedInv'
<1> USE DEF HomeInv
<1>1. ASSUME NEW r \in Requests, Admit(r)
      PROVE  QueuesApart' /\ QueuedInv'
  <2>1. UNCHANGED queueVars /\ life[r] = "new"
    BY <1>1 DEF Admit
  <2>2. /\ life'[r] # "queued"
        /\ \A q \in Requests \ {r} : life'[q] = life[q] /\ owner'[q] = owner[q]
    BY <1>1 DEF Admit, TypeInv, RequestTypes
  <2>3. QueuesApart'
    BY <2>1 DEF QueuesApart
  <2>4. \A v \in Workers : Queued(v)' = Queued(v)
    BY <2>1 DEF Queued
  <2>5. \A v \in Workers : r \notin Queued(v)
    BY <2>1 DEF QueuedInv
  <2> QED
    BY <2>2, <2>3, <2>4, <2>5 DEF QueuedInv
<1>2. ASSUME NEW r \in Requests, PushFails(r)
      PROVE  QueuesApart' /\ QueuedInv'
  <2>1. UNCHANGED <<queueVars, owner>> /\ life[r] = "admitted"
    BY <1>2 DEF PushFails, LivesInv
  <2>2. \A q \in Requests : life'[q] = "queued" <=> life[q] = "queued"
    BY <1>2, <2>1 DEF PushFails, TypeInv, RequestTypes
  <2> QED
    BY <2>1, <2>2 DEF QueuesApart, QueuedInv, Queued
<1>3. ASSUME NEW r \in Requests, Push(r)
      PROVE  QueuesApart' /\ QueuedInv'
  <2>6. PICK v \in Workers : v = owner[r]
    BY <1>3 DEF Push, LivesInv, Outstanding
  <2>1. life[r] = "admitted" /\ UNCHANGED <<owner, pending, kept>>
    BY <1>3 DEF Push, LivesInv
  <2>2. /\ inbox'[v] = Append(inbox[v], r) /\ \A u \in Workers \ {v} : inbox'[u] = inbox[u]
        /\ life'[r] = "queued" /\ \A q \in Requests \ {r} : life'[q] = life[q]
    BY <1>3, <2>6 DEF Push, TypeInv, QueueTypes, RequestTypes
  <2>3. r \notin Queued(v)
    BY <2>1 DEF QueuedInv
  <2>4. inbox[v] \in Seq(Requests) /\ Distinct(inbox[v]) /\ r \notin Elements(inbox[v])
    BY <2>1, <2>3 DEF TypeInv, QueueTypes, QueuesApart, Queued
  <2>5. Distinct(inbox'[v]) /\ Elements(inbox'[v]) = Elements(inbox[v]) \cup {r}
    BY <2>2, <2>4, ElementsOfAppend, DistinctAppend
  <2>7. QueuesApart'
    <3> SUFFICES ASSUME NEW u \in Workers
                 PROVE  /\ Distinct(inbox'[u]) /\ Distinct(pending[u]) /\ Distinct(kept[u])
                        /\ Elements(inbox'[u]) \cap (Elements(pending[u]) \cup Elements(kept[u])) = {}
                        /\ Elements(pending[u]) \cap Elements(kept[u]) = {}
      BY <2>1 DEF QueuesApart
    <3>1. CASE u = v
      BY <2>3, <2>5, <3>1 DEF QueuesApart, Queued
    <3>2. CASE u # v
      BY <2>2, <3>2 DEF QueuesApart
    <3> QED
      BY <3>1, <3>2
  <2>8. /\ Queued(v)' = Queued(v) \cup {r}
        /\ \A u \in Workers \ {v} : Queued(u)' = Queued(u)
    <3>1. Queued(v)' = Queued(v) \cup {r}
      BY <2>1, <2>5 DEF Queued
    <3>2. \A u \in Workers \ {v} : Queued(u)' = Queued(u)
      BY <2>1, <2>2 DEF Queued
    <3> QED
      BY <3>1, <3>2
  <2>9. QueuedInv'
    <3> SUFFICES ASSUME NEW u \in Workers, NEW q \in Requests
                 PROVE  q \in Queued(u)' <=> life'[q] = "queued" /\ owner[q] = u
      BY <2>1 DEF QueuedInv
    <3>1. q \in Queued(u) <=> life[q] = "queued" /\ owner[q] = u
      BY DEF QueuedInv
    <3>2. CASE q = r
      BY <2>1, <2>2, <2>3, <2>6, <2>8, <3>1, <3>2
    <3>3. CASE q # r
      BY <2>2, <2>8, <3>1, <3>3
    <3> QED
      BY <3>2, <3>3
  <2> QED
    BY <2>7, <2>9
<1>4. CASE UNCHANGED <<life, owner, queueVars>>
  BY <1>4 DEF QueuesApart, QueuedInv, Queued
<1> QED
  BY <1>1, <1>2, <1>3, <1>4
  DEF OutsideStep, GroupFails, GroupAges, Notify, TransferEnds, DeadlinePasses, ReadyAtPasses,
      BeginClose, CloseWakes, CloseReturns, outsideUnchanged, Submission, Closing

\* A request leaves the life it has only where its worker or its caller says so.
LEMMA WorkerLives ==
  ASSUME TypeInv, LoopInv, HomeInv, NEW w \in Workers, WorkerStep(w) \/ ReactorFails(w)
  PROVE  VictimsRun' /\ LivesInv'
<1> USE DEF HomeInv
<1>1. \A r \in Elements(pending[w]) \cup Elements(inbox[w]) : life[r] = "queued" /\ owner[r] = w
  <2>1. pending[w] \in Seq(Requests) /\ inbox[w] \in Seq(Requests)
    BY DEF TypeInv, QueueTypes
  <2> QED
    BY <2>1, ElementsOf DEF QueuedInv, Queued
<1>2. /\ pending[w] # <<>> =>
           Head(pending[w]) \in Requests /\ Head(pending[w]) \in Elements(pending[w])
      /\ inbox[w] # <<>> => Head(inbox[w]) \in Requests /\ Head(inbox[w]) \in Elements(inbox[w])
  BY ElementsOfTail DEF TypeInv, QueueTypes
\* w answers a request it has in its hands.
<1>3. ASSUME NEW r \in Requests, owner[r] = w, life[r] \in {"queued", "running"},
             life' = [life EXCEPT ![r] = "answered"], UNCHANGED <<owner, lock>>,
             stage' = [stage EXCEPT ![w] = "answered"],
             victims' = [victims EXCEPT ![w] = @ \ {r}] \/ (life[r] = "queued" /\ victims' = victims)
      PROVE  VictimsRun' /\ LivesInv'
  <2>1. VictimsRun'
    <3> SUFFICES ASSUME NEW v \in Workers, NEW q \in victims'[v]
                 PROVE  q \in Running(v)'
      BY DEF VictimsRun
    <3>1. q \in victims[v] /\ (q = r => v # w \/ life[r] = "queued")
      BY <1>3 DEF TypeInv, StageTypes
    <3> QED
      BY <1>3, <3>1 DEF VictimsRun, Running, Active, TypeInv, RequestTypes
  <2>2. LivesInv'
    BY <1>3 DEF LivesInv, Outstanding, TypeInv, RequestTypes, StageTypes
  <2> QED
    BY <2>1, <2>2
<1>4. CASE Drop(w)
  BY <1>1, <1>2, <1>3, <1>4 DEF Drop, Answer
<1>5. CASE Reject(w)
  BY <1>1, <1>2, <1>3, <1>5, Hands DEF Reject
<1>6. CASE FlushQueue(w)
  <2> DEFINE r == Head(inbox[w] \o pending[w])
  <2>1. r \in Requests /\ r \in Elements(pending[w]) \cup Elements(inbox[w])
    BY <1>2, <1>6, Hands DEF FlushQueue
  <2> QED
    BY <1>1, <1>3, <1>6, <2>1 DEF FlushQueue, Answer
<1>7. CASE FinishRequest(w)
  <2>1. PICK r \in victims[w] : Answer(w, r) /\ victims' = [victims EXCEPT ![w] = @ \ {r}]
    BY <1>7 DEF FinishRequest
  <2>2. r \in Requests /\ owner[r] = w /\ life[r] = "running"
    BY <2>1 DEF VictimsRun, Running, Active
  <2> QED
    BY <1>3, <1>7, <2>1, <2>2 DEF FinishRequest, Answer
<1>8. CASE Start(w)
  <2> DEFINE r == Head(pending[w])
  <2>1. r \in Requests /\ life[r] = "queued" /\ owner[r] = w
    BY <1>1, <1>2, <1>8, Hands DEF Start
  <2>2. /\ life' = [life EXCEPT ![r] = "running"] /\ UNCHANGED <<owner, lock>>
        /\ stage' = [stage EXCEPT ![w] = "first"] /\ stage[w] = "start"
        /\ \/ victims' = [victims EXCEPT ![w] = ready \cap ActiveSet(w, Profile(r))]
           \/ victims' = [victims EXCEPT ![w] = (ready \cap ActiveSet(w, Profile(r))) \cup {r}]
    BY <1>8 DEF Start, Go
  <2> HIDE DEF r
  <2>3. /\ life'[r] = "running" /\ \A q \in Requests \ {r} : life'[q] = life[q]
    BY <2>1, <2>2 DEF TypeInv, RequestTypes
  <2>4. \A v \in Workers : Running(v) \subseteq Running(v)' /\ r \in Running(w)'
    BY <2>1, <2>2, <2>3 DEF Running, Active
  <2>5. VictimsRun'
    <3> SUFFICES ASSUME NEW v \in Workers, NEW q \in victims'[v]
                 PROVE  q \in Running(v)'
      BY DEF VictimsRun
    <3>1. CASE v # w
      BY <2>2, <2>4, <3>1 DEF VictimsRun, TypeInv, StageTypes
    <3>2. CASE v = w
      BY <2>2, <2>4, <3>2 DEF ActiveSet, TypeInv, StageTypes
    <3> QED
      BY <3>1, <3>2
  <2>6. LivesInv'
    BY <2>1, <2>2, <2>3 DEF LivesInv, Outstanding, TypeInv, StageTypes
  <2> QED
    BY <2>5, <2>6
<1>9. CASE Retire(w)
  <2>1. /\ UNCHANGED <<owner, lock, victims>>
        /\ \A r \in Requests : IF life[r] = "answered" /\ owner[r] = w THEN life'[r] = "released"
                               ELSE life'[r] = life[r]
        /\ \A v \in Workers \ {w} : stage'[v] = stage[v]
    BY <1>9 DEF Retire, Go, TypeInv, StageTypes
  <2>2. VictimsRun'
    BY <2>1 DEF VictimsRun, Running, Active
  <2>3. LivesInv'
    BY <2>1 DEF LivesInv, Outstanding
  <2> QED
    BY <2>2, <2>3
<1>10. ASSUME UNCHANGED <<life, owner, lock>>, stage[w] # "answered",
              \A v \in Workers \ {w} : stage'[v] = stage[v] /\ victims'[v] = victims[v],
              victims'[w] \subseteq Running(w)
       PROVE  VictimsRun' /\ LivesInv'
  <2>1. VictimsRun'
    BY <1>10 DEF VictimsRun, Running, Active
  <2>2. LivesInv'
    BY <1>10 DEF LivesInv, Outstanding
  <2> QED
    BY <2>1, <2>2
<1>11. CASE ScanGroup(w)
  BY <1>10, <1>11 DEF ScanGroup, Go, ActiveSet, TypeInv, StageTypes
<1>12. CASE Awake(w)
  BY <1>10, <1>12 DEF Awake, Go, TypeInv, StageTypes
<1>13. CASE Seal(w)
  BY <1>10, <1>13 DEF Seal, Go, TypeInv, StageTypes
<1>14. ASSUME UNCHANGED <<life, owner, lock, victims>>, stage[w] # "answered",
              stage' = stage \/ \E t \in Stages : stage' = [stage EXCEPT ![w] = t]
       PROVE  VictimsRun' /\ LivesInv'
  BY <1>10, <1>14 DEF VictimsRun, TypeInv, StageTypes
<1>15. CASE TakeInbox(w) \/ Evicted(w) \/ GroupScanned(w)
  BY <1>14, <1>15 DEF TakeInbox, Evicted, GroupScanned, ScanRest, Go, Stages
<1>16. CASE EvictIdle(w) \/ NotYet(w) \/ WaitForDrain(w) \/ FlushGroup(w)
  BY <1>14, <1>16 DEF EvictIdle, NotYet, WaitForDrain, Served, FlushGroup
<1>17. CASE Serve(w) \/ TakeCredit(w) \/ NoCredit(w) \/ AskForCredit(w)
  BY <1>14, <1>17 DEF Serve, Served, TakeCredit, NoCredit, AskForCredit, Go, Stages
<1>18. CASE EndPass(w) \/ Driven(w) \/ Stop(w) \/ ReactorFails(w)
  BY <1>14, <1>18 DEF EndPass, Driven, Stop, ReactorFails, Go, Stages
<1> QED
  BY <1>4, <1>5, <1>6, <1>7, <1>8, <1>9, <1>11, <1>12, <1>13, <1>15, <1>16, <1>17, <1>18
  DEF WorkerStep

LEMMA OutsideLives ==
  ASSUME TypeInv, HomeInv, OutsideStep
  PROVE  VictimsRun' /\ LivesInv'
<1> USE DEF HomeInv
<1>1. ASSUME NEW r \in Requests, Admit(r)
      PROVE  VictimsRun' /\ LivesInv'
  <2>1. UNCHANGED <<victims, stage>> /\ life[r] = "new" /\ lock = NoOne
    BY <1>1 DEF Admit
  <2>2. \A q \in Requests : life[q] # "admitted"
    BY <2>1, ConstantsAssumption DEF LivesInv, ConstantsAssumption
  <2>3. /\ \A q \in Requests \ {r} : life'[q] = life[q] /\ owner'[q] = owner[q]
        /\ \/ life'[r] = "refused" /\ lock' = NoOne
           \/ life'[r] = "admitted" /\ lock' = r /\ owner'[r] \in Workers
    <3>1. WorkersOf[r] \subseteq Workers
      BY ConstantsAssumption DEF ConstantsAssumption
    <3> QED
      BY <1>1, <3>1 DEF Admit, TypeInv, RequestTypes
  <2>4. VictimsRun'
    BY <2>1, <2>3 DEF VictimsRun, Running, Active
  <2>5. LivesInv'
    BY <2>1, <2>2, <2>3, ConstantsAssumption DEF LivesInv, Outstanding, ConstantsAssumption
  <2> QED
    BY <2>4, <2>5
<1>2. ASSUME NEW r \in Requests, PushFails(r) \/ Push(r)
      PROVE  VictimsRun' /\ LivesInv'
  <2>1. /\ UNCHANGED <<victims, stage, owner>> /\ life[r] = "admitted" /\ lock = r /\ lock' = NoOne
        /\ life'[r] \in {"queued", "refused"}
        /\ \A q \in Requests \ {r} : life'[q] = life[q]
    BY <1>2 DEF PushFails, Push, LivesInv, TypeInv, RequestTypes
  <2>2. VictimsRun'
    BY <2>1 DEF VictimsRun, Running, Active
  <2>3. LivesInv'
    BY <2>1, ConstantsAssumption DEF LivesInv, Outstanding, ConstantsAssumption
  <2> QED
    BY <2>2, <2>3
<1>3. CASE UNCHANGED <<life, owner, lock, victims, stage>>
  BY <1>3 DEF VictimsRun, LivesInv, Running, Active, Outstanding
<1> QED
  BY <1>1, <1>2, <1>3
  DEF OutsideStep, GroupFails, GroupAges, Notify, TransferEnds, DeadlinePasses, ReadyAtPasses,
      BeginClose, CloseWakes, CloseReturns, outsideUnchanged, Submission, Closing

-----------------------------------------------------------------------------
(* Closing                                                                 *)

\* What another worker has is its own.
LEMMA OthersKeepTheirs ==
  ASSUME TypeInv, LoopInv, NEW w \in Workers, WorkerStep(w) \/ ReactorFails(w),
         NEW v \in Workers, v # w
  PROVE  /\ stage'[v] = stage[v] /\ back'[v] = back[v]
         /\ victims'[v] = victims[v] /\ todo'[v] = todo[v]
         /\ inbox'[v] = inbox[v] /\ pending'[v] = pending[v] /\ kept'[v] = kept[v]
         /\ shard'[v] = shard[v]
         /\ v \in waitingCredit' <=> v \in waitingCredit
         /\ v \in passCredit' <=> v \in passCredit
         /\ v \in waitingCapacity' <=> v \in waitingCapacity
         /\ v \in passCapacity' <=> v \in passCapacity
         /\ v \in wake => v \in wake'
<1> USE DEF TypeInv, QueueTypes, GroupTypes, FlagTypes, StageTypes, Go, Wake
<1>1. CASE TakeInbox(w)
  BY <1>1 DEF TakeInbox, ScanRest
<1>2. CASE EvictIdle(w)
  BY <1>2 DEF EvictIdle, RemoveGroup, ForgetGroup
<1>3. CASE Evicted(w)
  BY <1>3 DEF Evicted, ScanRest
<1>4. CASE ScanGroup(w)
  BY <1>4 DEF ScanGroup
<1>5. CASE GroupScanned(w)
  BY <1>5 DEF GroupScanned, ScanRest, RemoveGroup, ForgetGroup
<1>6. CASE Drop(w)
  BY <1>6 DEF Drop, Answer, Take
<1>7. CASE NotYet(w)
  BY <1>7 DEF NotYet, Served, Keep
<1>8. CASE WaitForDrain(w)
  BY <1>8 DEF WaitForDrain, Served, Keep, RequestReclaim
<1>9. CASE Serve(w)
  BY <1>9 DEF Serve, Served, PublishWaiting
<1>10. CASE TakeCredit(w)
  BY <1>10 DEF TakeCredit
<1>11. CASE NoCredit(w)
  BY <1>11 DEF NoCredit
<1>12. CASE AskForCredit(w)
  BY <1>12 DEF AskForCredit, Keep, RequestReclaim
<1>13. CASE Reject(w)
  BY <1>13 DEF Reject, Take
<1>14. CASE Start(w)
  BY <1>14 DEF Start, Take
<1>15. CASE EndPass(w)
  BY <1>15 DEF EndPass, Reregister
<1>16. CASE Awake(w)
  BY <1>16 DEF Awake
<1>17. CASE Driven(w)
  BY <1>17 DEF Driven
<1>18. CASE FinishRequest(w)
  BY <1>18 DEF FinishRequest, Answer
<1>19. CASE Retire(w)
  BY <1>19 DEF Retire, Publish
<1>20. CASE Seal(w)
  BY <1>20 DEF Seal
<1>21. CASE FlushQueue(w)
  BY <1>21 DEF FlushQueue, Answer, Take
<1>22. CASE FlushGroup(w)
  BY <1>22 DEF FlushGroup, RemoveGroup, ForgetGroup
<1>23. CASE Stop(w)
  BY <1>23 DEF Stop
<1>24. CASE ReactorFails(w)
  BY <1>24 DEF ReactorFails
<1> QED
  BY <1>1, <1>2, <1>3, <1>4, <1>5, <1>6, <1>7, <1>8, <1>9, <1>10, <1>11, <1>12, <1>13, <1>14,
     <1>15, <1>16, <1>17, <1>18, <1>19, <1>20, <1>21, <1>22, <1>23, <1>24
  DEF WorkerStep

\* What a step of w does to the life of requests.
LEMMA LifeSteps ==
  ASSUME TypeInv, LoopInv, HomeInv, NEW w \in Workers, WorkerStep(w) \/ ReactorFails(w)
  PROVE  \/ life' = life
         \/ \E r \in Requests :
              /\ owner[r] = w /\ life[r] \in {"queued", "running"}
              /\ life' = [life EXCEPT ![r] = "answered"]
              /\ stage[w] # "answered" /\ stage'[w] = "answered"
         \/ \E r \in Requests :
              /\ owner[r] = w /\ life[r] = "queued" /\ r = Head(pending[w])
              /\ life' = [life EXCEPT ![r] = "running"] /\ Start(w)
         \/ Retire(w)
<1>1. \A r \in Elements(pending[w]) \cup Elements(inbox[w]) : life[r] = "queued" /\ owner[r] = w
  <2>1. pending[w] \in Seq(Requests) /\ inbox[w] \in Seq(Requests)
    BY DEF TypeInv, QueueTypes
  <2> QED
    BY <2>1, ElementsOf DEF HomeInv, QueuedInv, Queued
<1>2. /\ pending[w] # <<>> =>
           Head(pending[w]) \in Requests /\ Head(pending[w]) \in Elements(pending[w])
      /\ inbox[w] # <<>> => Head(inbox[w]) \in Requests /\ Head(inbox[w]) \in Elements(inbox[w])
  BY ElementsOfTail DEF TypeInv, QueueTypes
<1>3. stage \in [Workers -> Stages]
  BY DEF TypeInv, StageTypes
<1>4. CASE Drop(w)
  BY <1>1, <1>2, <1>3, <1>4 DEF Drop, Answer
<1>5. CASE Reject(w)
  BY <1>1, <1>2, <1>3, <1>5, Hands DEF Reject
<1>6. CASE FlushQueue(w)
  <2> DEFINE r == Head(inbox[w] \o pending[w])
  <2>1. r \in Requests /\ r \in Elements(pending[w]) \cup Elements(inbox[w])
    BY <1>2, <1>6, Hands DEF FlushQueue
  <2> QED
    BY <1>1, <1>3, <1>6, <2>1 DEF FlushQueue, Answer
<1>7. CASE FinishRequest(w)
  <2>1. PICK r \in victims[w] : Answer(w, r)
    BY <1>7 DEF FinishRequest
  <2>2. r \in Requests /\ owner[r] = w /\ life[r] = "running"
    BY <2>1 DEF HomeInv, VictimsRun, Running, Active
  <2> QED
    BY <1>3, <1>7, <2>1, <2>2 DEF FinishRequest, Answer
<1>8. CASE Start(w)
  BY <1>1, <1>2, <1>8, Hands DEF Start
<1> QED
  BY <1>4, <1>5, <1>6, <1>7, <1>8
  DEF WorkerStep, TakeInbox, EvictIdle, Evicted, ScanGroup, GroupScanned, NotYet, WaitForDrain,
      Serve, TakeCredit, NoCredit, AskForCredit, EndPass, Awake, Driven, Seal, FlushGroup, Stop,
      ReactorFails

LEMMA OthersLive ==
  ASSUME TypeInv, LoopInv, HomeInv, NEW w \in Workers, WorkerStep(w) \/ ReactorFails(w)
  PROVE  /\ owner' = owner /\ lock' = lock
         /\ \A r \in Requests : owner[r] # w => life'[r] = life[r]
         /\ \A r \in Requests : r \in Outstanding' => r \in Outstanding
         /\ \A v \in Workers \ {w} : Running(v)' = Running(v)
<1>1. owner' = owner /\ lock' = lock
  BY DEF WorkerStep, TakeInbox, EvictIdle, Evicted, ScanGroup, GroupScanned, Drop, NotYet,
         WaitForDrain, Serve, TakeCredit, NoCredit, AskForCredit, Reject, Start, EndPass, Awake,
         Driven, FinishRequest, Retire, Seal, FlushQueue, FlushGroup, Stop, ReactorFails
<1>2. \A r \in Requests : /\ owner[r] # w => life'[r] = life[r]
                          /\ r \in Outstanding' => r \in Outstanding
  <2>1. CASE Retire(w)
    BY <2>1 DEF Retire, Outstanding
  <2> QED
    BY <2>1, LifeSteps DEF TypeInv, RequestTypes, Outstanding
<1> QED
  BY <1>1, <1>2 DEF Running, Active

LEMMA WorkerSealed ==
  ASSUME TypeInv, LoopInv, HomeInv, CloseInv, NEW w \in Workers, WorkerStep(w) \/ ReactorFails(w)
  PROVE  SealedInv'
<1> USE DEF CloseInv, SealedInv
<1> SUFFICES ASSUME NEW v \in Workers
             PROVE  /\ At(v)' = "seal" => Engine \in closing'
                    /\ At(v)' \in {"flush", "stopped"} => Engine \in closing' /\ lock' = NoOne
                    /\ At(v)' = "flush" => Running(v)' \subseteq victims'[v]
                    /\ stage'[v] = "stopped" =>
                         /\ inbox'[v] = <<>> /\ pending'[v] = <<>> /\ Running(v)' = {}
                         /\ Groups(v)' = {} /\ v \notin waitingCredit'
  OBVIOUS
<1>1. closing \subseteq closing'
  BY DEF WorkerStep, TakeInbox, EvictIdle, Evicted, ScanGroup, GroupScanned, Drop, NotYet,
         WaitForDrain, Serve, TakeCredit, NoCredit, AskForCredit, Reject, Start, EndPass, Awake,
         Driven, FinishRequest, Retire, Seal, FlushQueue, FlushGroup, Stop, ReactorFails,
         SetClosing
<1>2. lock' = lock
  BY OthersLive
<1>3. CASE v # w
  <2>1. At(v)' = At(v) /\ Groups(v)' = Groups(v)
    BY <1>3, OthersKeepTheirs DEF At, Groups
  <2> QED
    BY <1>1, <1>2, <1>3, <2>1, OthersKeepTheirs, OthersLive
<1>4. CASE v = w
  <2>1. CASE Seal(w)
    <3>1. stage'[w] = "flush" /\ lock = NoOne /\ Engine \in closing' /\ victims'[w] = Running(w)
      BY <2>1 DEF Seal, Go, SetClosing, TypeInv, StageTypes
    <3>2. Running(w)' = Running(w)
      BY <2>1 DEF Seal, Running, Active
    <3> QED
      BY <1>2, <1>4, <3>1, <3>2 DEF At
  <2>2. CASE Stop(w)
    <3>1. /\ stage[w] = "flush" /\ stage'[w] = "stopped" /\ victims[w] = {} /\ Groups(w) = {}
          /\ inbox[w] \o pending[w] = <<>> /\ waitingCredit' = waitingCredit \ {w}
          /\ UNCHANGED <<life, owner, inbox, pending, shard>>
      BY <2>2 DEF Stop, Go, TypeInv, StageTypes
    <3>2. inbox[w] = <<>> /\ pending[w] = <<>>
      BY <3>1, Hands
    <3>3. Running(w)' = Running(w) /\ Groups(w)' = Groups(w)
      BY <3>1 DEF Running, Active, Groups
    <3> QED
      BY <1>1, <1>2, <1>4, <3>1, <3>2, <3>3 DEF At
  <2>3. CASE Retire(w)
    <3>1. /\ stage[w] = "answered" /\ stage'[w] = back[w] /\ victims' = victims
          /\ back[w] \in {"finish", "first", "drive", "flush", "pending"}
      BY <2>3 DEF Retire, Go, TypeInv, StageTypes, LoopInv
    <3>2. Running(w)' = Running(w)
      BY <2>3 DEF Retire, Running, Active
    <3> QED
      BY <1>1, <1>2, <1>4, <3>1, <3>2 DEF At
  <2>4. CASE FinishRequest(w)
    <3>1. PICK r \in victims[w] : Answer(w, r) /\ victims' = [victims EXCEPT ![w] = @ \ {r}]
      BY <2>4 DEF FinishRequest
    <3>2. /\ stage'[w] = "answered" /\ back'[w] = stage[w] /\ victims'[w] = victims[w] \ {r}
          /\ stage[w] \in {"finish", "first", "drive", "flush"} /\ owner' = owner
      BY <2>4, <3>1 DEF FinishRequest, Answer, TypeInv, StageTypes
    <3>3. Running(w)' = Running(w) \ {r}
      BY <3>1, <3>2 DEF Answer, Running, Active, TypeInv, RequestTypes
    <3> QED
      BY <1>1, <1>2, <1>4, <3>2, <3>3 DEF At
  <2>5. CASE FlushQueue(w)
    <3>1. /\ stage[w] = "flush" /\ stage'[w] = "answered" /\ back'[w] = "flush"
          /\ victims' = victims /\ owner' = owner
      BY <2>5 DEF FlushQueue, Answer, TypeInv, StageTypes
    <3>2. Running(w)' \subseteq Running(w)
      BY <2>5, <3>1 DEF FlushQueue, Answer, Running, Active, TypeInv, RequestTypes
    <3> QED
      BY <1>1, <1>2, <1>4, <3>1, <3>2 DEF At
  <2>6. CASE FlushGroup(w)
    <3>1. UNCHANGED <<life, owner, stage, back, victims>>
      BY <2>6 DEF FlushGroup
    <3> QED
      BY <2>6, <1>1, <1>2, <1>4, <3>1 DEF At, Running, Active, FlushGroup
  <2>7. CASE stage'[w] \notin {"seal", "flush", "stopped", "answered"}
    BY <1>4, <2>7 DEF At
  <2>10. CASE stage'[w] = "seal" /\ Engine \in closing'
    BY <1>4, <2>10 DEF At
  <2>8. CASE Drop(w) \/ Reject(w)
    <3>1. stage'[w] = "answered" /\ back'[w] = "pending"
      BY <2>8 DEF Drop, Reject, Answer, TypeInv, StageTypes
    <3> QED
      BY <1>4, <3>1 DEF At
  <2>9. \/ Seal(w) \/ Stop(w) \/ Retire(w) \/ FinishRequest(w) \/ FlushQueue(w) \/ FlushGroup(w)
        \/ Drop(w) \/ Reject(w) \/ stage'[w] \notin {"seal", "flush", "stopped", "answered"}
        \/ stage'[w] = "seal" /\ Engine \in closing'
    BY DEF WorkerStep, TakeInbox, EvictIdle, Evicted, ScanGroup, GroupScanned, NotYet, Served,
           WaitForDrain, Serve, TakeCredit, NoCredit, AskForCredit, Start, EndPass, Awake, Driven,
           ReactorFails, ScanRest, Go, TypeInv, StageTypes
  <2> QED
    BY <2>1, <2>2, <2>3, <2>4, <2>5, <2>6, <2>7, <2>8, <2>9, <2>10
<1> QED
  BY <1>3, <1>4

LEMMA StoppedStays ==
  ASSUME NEW w \in Workers, WorkerStep(w) \/ ReactorFails(w), LoopInv
  PROVE  stage[w] # "stopped"
BY DEF WorkerStep, TakeInbox, EvictIdle, Evicted, ScanGroup, GroupScanned, Drop, NotYet, Served,
       WaitForDrain, Serve, TakeCredit, NoCredit, AskForCredit, Reject, Start, EndPass, Awake,
       Driven, FinishRequest, Retire, Seal, FlushQueue, FlushGroup, Stop, ReactorFails

LEMMA WorkerCloser ==
  ASSUME TypeInv, LoopInv, HomeInv, CloseInv, NEW w \in Workers, WorkerStep(w) \/ ReactorFails(w)
  PROVE  CloserInv'
<1>1. closing \subseteq closing' /\ closer' = closer
  BY DEF WorkerStep, TakeInbox, EvictIdle, Evicted, ScanGroup, GroupScanned, Drop, NotYet,
         WaitForDrain, Serve, TakeCredit, NoCredit, AskForCredit, Reject, Start, EndPass, Awake,
         Driven, FinishRequest, Retire, Seal, FlushQueue, FlushGroup, Stop, ReactorFails,
         SetClosing
<1>2. \A x \in Targets : Drained(x) => Drained(x)'
  <2>1. ~ Drained(Engine)
    BY StoppedStays DEF Drained
  <2>2. ASSUME NEW x \in Targets, x # Engine, Drained(x)
        PROVE  Drained(x)'
    BY <2>2, OthersLive DEF Drained, Outstanding
  <2> QED
    BY <2>1, <2>2
<1> QED
  BY <1>1, <1>2 DEF CloseInv, CloserInv

LEMMA OutsideClose ==
  ASSUME TypeInv, LoopInv, HomeInv, CloseInv, OutsideStep
  PROVE  CloseInv'
<1> USE DEF CloseInv
<1>1. UNCHANGED <<stage, back, victims, shard, pending, waitingCredit>>
  BY DEF OutsideStep, GroupFails, GroupAges, Admit, PushFails, Push, Notify, TransferEnds,
         DeadlinePasses, ReadyAtPasses, BeginClose, CloseWakes, CloseReturns, outsideUnchanged,
         Submission, Closing
<1>2. \A v \in Workers : At(v)' = At(v) /\ Groups(v)' = Groups(v)
  BY <1>1 DEF At, Groups
<1>3. ASSUME NEW r \in Requests, Admit(r)
      PROVE  CloseInv'
  <2>1. /\ life[r] = "new" /\ UNCHANGED <<inbox, closing, closer>>
        /\ \A q \in Requests \ {r} : life'[q] = life[q] /\ owner'[q] = owner[q]
        /\ \/ life'[r] = "refused" /\ lock' = lock
           \/ life'[r] = "admitted" /\ ~ Closed(r)
    BY <1>3 DEF Admit, TypeInv, RequestTypes
  <2>2. \A v \in Workers : Running(v)' = Running(v)
    BY <2>1 DEF Running, Active
  <2>3. SealedInv'
    BY <1>1, <1>2, <2>1, <2>2 DEF SealedInv, Closed
  <2>4. ASSUME NEW y \in Targets, y \in closing, Drained(y)
        PROVE  Drained(y)'
    BY <1>1, <2>1, <2>4 DEF Drained, Outstanding, Closed
  <2> QED
    BY <2>1, <2>3, <2>4 DEF CloserInv
<1>4. ASSUME NEW r \in Requests, PushFails(r) \/ Push(r)
      PROVE  CloseInv'
  <2>1. /\ UNCHANGED <<owner, closing, closer>> /\ lock = r /\ lock # NoOne
        /\ life[r] = "admitted" /\ life'[r] \in {"queued", "refused"}
        /\ \A q \in Requests \ {r} : life'[q] = life[q]
    BY <1>4, ConstantsAssumption
    DEF PushFails, Push, HomeInv, LivesInv, TypeInv, RequestTypes, ConstantsAssumption
  <2>2. \A v \in Workers : At(v) \notin {"flush", "stopped"} /\ stage[v] # "stopped"
    BY <2>1 DEF SealedInv, At
  <2>3. SealedInv'
    BY <1>1, <1>2, <2>1, <2>2 DEF SealedInv
  <2>4. \A y \in Targets : Drained(y) => Drained(y)'
    BY <1>1, <2>1 DEF Drained, Outstanding
  <2> QED
    BY <2>1, <2>3, <2>4 DEF CloserInv
<1>5. CASE UNCHANGED <<life, owner, lock, inbox>> /\ closing \subseteq closing' /\ CloserInv'
  BY <1>1, <1>2, <1>5 DEF SealedInv, Running, Active
<1>6. CASE UNCHANGED <<life, owner, lock, inbox, closing, closer>>
  BY <1>1, <1>5, <1>6 DEF CloserInv, Drained, Outstanding
<1>7. ASSUME NEW x \in Targets, BeginClose(x) \/ CloseWakes(x) \/ CloseReturns(x)
      PROVE  CloseInv'
  <2>1. \A y \in Targets : Drained(y)' = Drained(y)
    BY <1>1, <1>7 DEF Drained, Outstanding, BeginClose, CloseWakes, CloseReturns
  <2>2. CloserInv'
    BY <1>7, <2>1
    DEF CloserInv, BeginClose, SetClosing, CloseWakes, CloseReturns, TypeInv, SubmitTypes
  <2> QED
    BY <1>5, <1>7, <2>2 DEF BeginClose, SetClosing, CloseWakes, CloseReturns
<1> QED
  BY <1>3, <1>4, <1>6, <1>7
  DEF OutsideStep, GroupFails, GroupAges, Notify, TransferEnds, DeadlinePasses, ReadyAtPasses,
      outsideUnchanged, Submission, Closing

-----------------------------------------------------------------------------
(* Credits                                                                 *)

\* The credits of one group.
HeldBy(w, p) == {h \in Held : h[1] = w /\ h[2] = p}

LEMMA HeldByGroup ==
  ASSUME TypeInv, CountInv, NEW w \in Workers, NEW p \in Profiles
  PROVE  /\ HeldBy(w, p) \subseteq Held
         /\ IsFiniteSet(HeldBy(w, p)) /\ Cardinality(HeldBy(w, p)) = shard[w][p]
<1> DEFINE n == shard[w][p]
           f == [i \in 1 .. n |-> <<w, p, i>>]
<1>1. n \in Nat /\ n <= MaxConnections /\ MaxConnections \in Nat
  BY ConstantsAssumption DEF TypeInv, GroupTypes, CountInv, ConstantsAssumption
<1>2. \A i \in 1 .. n : <<w, p, i>> \in HeldBy(w, p)
  BY <1>1 DEF HeldBy, Held
<1>3. \A h \in HeldBy(w, p) : h[3] \in 1 .. n /\ h = <<w, p, h[3]>>
  BY <1>1 DEF HeldBy, Held
<1>4. f \in Surjection(1 .. n, HeldBy(w, p))
  BY <1>2, <1>3 DEF Surjection
<1>5. f \in Injection(1 .. n, HeldBy(w, p))
  <2>1. \A i, j \in 1 .. n : f[i] = f[j] => i = j
    OBVIOUS
  <2> QED
    BY <1>4, <2>1 DEF Surjection, Injection, IsInjective
<1> HIDE DEF n, f
<1>6. IsFiniteSet(1 .. n) /\ Cardinality(1 .. n) = n
  BY <1>1, FS_Interval
<1>7. IsFiniteSet(HeldBy(w, p)) /\ Cardinality(HeldBy(w, p)) = n
  BY <1>4, <1>5, <1>6, FS_Surjection
<1> QED
  BY <1>7 DEF n, HeldBy

LEMMA RemovalCounts ==
  ASSUME TypeInv, CountInv, NEW w \in Workers, NEW p \in Profiles, RemoveGroup(w, p)
  PROVE  CountInv'
<1>1. /\ shard'[w][p] = 0 /\ credits' = credits - shard[w][p]
      /\ \A v \in Workers, q \in Profiles : v # w \/ q # p => shard'[v][q] = shard[v][q]
  BY DEF RemoveGroup, ForgetGroup, TypeInv, GroupTypes
<1>2. Held' = Held \ HeldBy(w, p)
  <2>1. \A h \in Workers \X Profiles \X (1..MaxConnections) :
          h[3] <= shard'[h[1]][h[2]] <=> h[3] <= shard[h[1]][h[2]] /\ ~(h[1] = w /\ h[2] = p)
    BY <1>1, ConstantsAssumption DEF ConstantsAssumption
  <2> QED
    BY <2>1 DEF Held, HeldBy
<1>3. Held \cap HeldBy(w, p) = HeldBy(w, p)
  BY DEF HeldBy
<1>4. IsFiniteSet(Held') /\ Cardinality(Held') = Cardinality(Held) - shard[w][p]
  <2>1. IsFiniteSet(Held) /\ Cardinality(HeldBy(w, p)) = shard[w][p]
    BY HeldByGroup DEF CountInv
  <2>2. /\ IsFiniteSet(Held \ HeldBy(w, p))
        /\ Cardinality(Held \ HeldBy(w, p)) =
             Cardinality(Held) - Cardinality(Held \cap HeldBy(w, p))
    BY <2>1, FS_Difference
  <2> QED
    BY <1>2, <1>3, <2>1, <2>2
<1>5. shard[w][p] \in Nat /\ credits \in Int /\ MaxConnections \in Nat
  BY ConstantsAssumption DEF TypeInv, GroupTypes, ConstantsAssumption
<1>6. \A v \in Workers, q \in Profiles : shard'[v][q] <= MaxConnections
  BY <1>1, <1>5 DEF CountInv
<1> QED
  BY <1>1, <1>4, <1>5, <1>6 DEF CountInv

LEMMA WorkerCounts ==
  ASSUME TypeInv, LoopInv, CountInv, NEW w \in Workers, WorkerStep(w) \/ ReactorFails(w)
  PROVE  CountInv'
<1>1. CASE EvictIdle(w)
  BY <1>1, Hands, RemovalCounts DEF EvictIdle
<1>2. CASE FlushGroup(w)
  BY <1>2, Hands, RemovalCounts DEF FlushGroup
<1>3. CASE UNCHANGED <<credits, shard>>
  BY <1>3 DEF CountInv, Held
<1>4. CASE GroupScanned(w)
  <2>1. Least(todo[w]) \in Profiles
    BY <1>4, Hands DEF GroupScanned
  <2>2. RemoveGroup(w, Least(todo[w])) \/ UNCHANGED <<credits, shard>>
    BY <1>4 DEF GroupScanned
  <2> QED
    BY <1>3, <2>1, <2>2, RemovalCounts
<1>5. CASE TakeCredit(w)
  <2>1. PICK p \in Profiles : p = Profile(Head(pending[w]))
    BY <1>5, Hands DEF TakeCredit
  <2>2. /\ credits' = credits + 1 /\ credits < MaxConnections
        /\ shard'[w][p] = shard[w][p] + 1
        /\ \A v \in Workers, q \in Profiles : v # w \/ q # p => shard'[v][q] = shard[v][q]
    BY <1>5, <2>1, ConstantsAssumption
    DEF TakeCredit, Full, TypeInv, GroupTypes, ConstantsAssumption
  <2>3. /\ shard[w][p] \in Nat /\ credits \in Int /\ MaxConnections \in Nat
    BY ConstantsAssumption DEF TypeInv, GroupTypes, ConstantsAssumption
  <2>4. shard[w][p] <= credits
    BY HeldByGroup, FS_Subset DEF CountInv
  <2>5. Held' = Held \cup {<<w, p, shard[w][p] + 1>>}
    <3>1. \A h \in Workers \X Profiles \X (1..MaxConnections) :
            h[3] <= shard'[h[1]][h[2]] <=>
              h[3] <= shard[h[1]][h[2]] \/ h = <<w, p, shard[w][p] + 1>>
      <4> SUFFICES ASSUME NEW v \in Workers, NEW q \in Profiles, NEW i \in 1..MaxConnections
                   PROVE  i <= shard'[v][q] <=>
                            i <= shard[v][q] \/ <<v, q, i>> = <<w, p, shard[w][p] + 1>>
        OBVIOUS
      <4>1. CASE v = w /\ q = p
        BY <2>2, <2>3, <4>1
      <4>2. CASE v # w \/ q # p
        BY <2>2, <4>2
      <4> QED
        BY <4>1, <4>2
    <3>2. <<w, p, shard[w][p] + 1>> \in Workers \X Profiles \X (1..MaxConnections)
      BY <2>2, <2>3, <2>4
    <3> QED
      BY <3>1, <3>2 DEF Held
  <2>6. <<w, p, shard[w][p] + 1>> \notin Held
    BY <2>3 DEF Held
  <2>7. IsFiniteSet(Held') /\ Cardinality(Held') = Cardinality(Held) + 1
    BY <2>5, <2>6, FS_AddElement DEF CountInv
  <2>8. \A v \in Workers, q \in Profiles : shard'[v][q] <= MaxConnections
    BY <2>2, <2>3, <2>4 DEF CountInv
  <2> QED
    BY <2>2, <2>3, <2>7, <2>8 DEF CountInv
<1> QED
  BY <1>1, <1>2, <1>3, <1>4, <1>5
  DEF WorkerStep, TakeInbox, Evicted, ScanGroup, Drop, NotYet, WaitForDrain, Serve, NoCredit,
      AskForCredit, Reject, Start, EndPass, Awake, Driven, FinishRequest, Retire, Seal,
      FlushQueue, Stop, ReactorFails

\* A group that is removed runs nothing.
LEMMA RemovedIsIdle ==
  ASSUME TypeInv, LoopInv, CloseInv, NEW w \in Workers, WorkerStep(w) \/ ReactorFails(w),
         NEW v \in Workers, NEW p \in Profiles
  PROVE  shard'[v][p] >= shard[v][p] \/ (ActiveSet(v, p) = {} /\ shard'[v][p] = 0)
<1> USE DEF TypeInv, GroupTypes
<1>1. CASE v # w
  BY <1>1, OthersKeepTheirs
<1>2. ASSUME NEW q \in Profiles, RemoveGroup(w, q), ActiveSet(w, q) = {}, v = w
      PROVE  shard'[v][p] >= shard[v][p] \/ (ActiveSet(v, p) = {} /\ shard'[v][p] = 0)
  BY <1>2 DEF RemoveGroup, ForgetGroup
<1>3. CASE v = w /\ EvictIdle(w)
  BY <1>2, <1>3, Hands DEF EvictIdle, Idle
<1>4. CASE v = w /\ GroupScanned(w)
  <2>1. CASE Least(todo[w]) \in Idle(w) /\ RemoveGroup(w, Least(todo[w]))
    BY <1>2, <1>4, <2>1 DEF Idle, Groups
  <2>2. CASE UNCHANGED groupVars
    BY <2>2
  <2> QED
    BY <1>4, <2>1, <2>2 DEF GroupScanned
<1>5. CASE v = w /\ FlushGroup(w)
  <2>1. Running(w) = {}
    BY <1>5 DEF FlushGroup, CloseInv, SealedInv, At
  <2> QED
    BY <1>2, <1>5, <2>1, Hands DEF FlushGroup, ActiveSet
<1>6. CASE v = w /\ TakeCredit(w)
  <2>1. Profile(Head(pending[w])) \in Profiles
    BY <1>6, Hands DEF TakeCredit
  <2> QED
    BY <1>6, <2>1 DEF TakeCredit
<1>7. CASE UNCHANGED shard
  BY <1>7
<1> QED
  BY <1>1, <1>3, <1>4, <1>5, <1>6, <1>7
  DEF WorkerStep, TakeInbox, Evicted, ScanGroup, Drop, NotYet, WaitForDrain, Serve, NoCredit,
      AskForCredit, Reject, Start, EndPass, Awake, Driven, FinishRequest, Retire, Seal,
      FlushQueue, Stop, ReactorFails

LEMMA PaidForLess ==
  ASSUME TypeInv, NEW w \in Workers, NEW p \in Profiles, PaidFor(w, p),
         ActiveSet(w, p)' \subseteq ActiveSet(w, p),
         shard'[w][p] \in Nat,
         shard'[w][p] >= shard[w][p] \/ (ActiveSet(w, p) = {} /\ shard'[w][p] = 0)
  PROVE  PaidFor(w, p)'
<1>1. /\ IsFiniteSet(ActiveSet(w, p)')
      /\ Cardinality(ActiveSet(w, p)') <= Cardinality(ActiveSet(w, p))
      /\ Cardinality(ActiveSet(w, p)) \in Nat /\ Cardinality(ActiveSet(w, p)') \in Nat
  BY FS_Subset, FS_CardinalityType DEF PaidFor
<1>2. shard[w][p] \in Nat
  BY DEF TypeInv, GroupTypes
<1>3. CASE shard'[w][p] >= shard[w][p]
  BY <1>1, <1>2, <1>3 DEF PaidFor
<1>4. CASE ActiveSet(w, p) = {} /\ shard'[w][p] = 0
  <2>1. ActiveSet(w, p)' = {}
    BY <1>4
  <2> QED
    BY <1>4, <2>1, FS_EmptySet DEF PaidFor
<1> QED
  BY <1>3, <1>4

LEMMA WorkerRuns ==
  ASSUME TypeInv, TypeInv', LoopInv, HomeInv, CloseInv, CreditInv,
         NEW w \in Workers, WorkerStep(w) \/ ReactorFails(w)
  PROVE  RunInv'
<1> USE DEF CreditInv
<1>1. ASSUME NEW v \in Workers, NEW p \in Profiles
      PROVE  PaidFor(v, p)'
  <2>1. PaidFor(v, p) /\ shard'[v][p] \in Nat
    BY DEF RunInv, TypeInv, GroupTypes
  <2>2. CASE Start(w)
    <3>1. PICK r \in Requests : r = Head(pending[w])
      BY <2>2, Hands DEF Start
    <3>2. /\ stage[w] = "start" /\ life' = [life EXCEPT ![r] = "running"] /\ life[r] = "queued"
          /\ owner[r] = w /\ UNCHANGED <<owner, shard>>
      <4>1. r \in Elements(pending[w])
        BY <2>2, <3>1, Hands, ElementsOfTail DEF Start, TypeInv, QueueTypes
      <4> QED
        BY <2>2, <3>1, <4>1 DEF Start, HomeInv, QueuedInv, Queued
    <3>3. ActiveSet(v, p)' = IF v = w /\ p = Profile(r) THEN ActiveSet(v, p) \cup {r}
                             ELSE ActiveSet(v, p)
      BY <3>2 DEF ActiveSet, Running, Active, TypeInv, RequestTypes
    <3>4. CASE v = w /\ p = Profile(r)
      <4>1. Cardinality(ActiveSet(v, p)) < shard[v][p]
        BY <3>1, <3>2, <3>4 DEF RunInv, HasRoom
      <4>2. r \notin ActiveSet(v, p)
        BY <3>2 DEF ActiveSet, Running, Active
      <4>3. /\ IsFiniteSet(ActiveSet(v, p)') /\ Cardinality(ActiveSet(v, p)) \in Nat
            /\ Cardinality(ActiveSet(v, p)') = Cardinality(ActiveSet(v, p)) + 1
        BY <2>1, <3>3, <3>4, <4>2, FS_AddElement, FS_CardinalityType DEF PaidFor
      <4>4. shard[v][p] \in Nat
        BY DEF TypeInv, GroupTypes
      <4> QED
        BY <3>2, <4>1, <4>3, <4>4 DEF PaidFor
    <3>5. CASE ~(v = w /\ p = Profile(r))
      BY <2>1, <3>2, <3>3, <3>5 DEF PaidFor
    <3> QED
      BY <3>4, <3>5
  <2>3. CASE ~ Start(w)
    <3>1. \A r \in Requests : life'[r] = "running" => life[r] = "running"
      <4>1. CASE Retire(w)
        BY <4>1 DEF Retire
      <4> QED
        BY <2>3, <4>1, LifeSteps DEF TypeInv, RequestTypes
    <3>2. ActiveSet(v, p)' \subseteq ActiveSet(v, p)
      BY <3>1, OthersLive DEF ActiveSet, Running, Active
    <3> QED
      BY <2>1, <3>2, RemovedIsIdle, PaidForLess
  <2> QED
    BY <2>2, <2>3
<1>2. ASSUME NEW v \in Workers, stage'[v] = "start"
      PROVE  HasRoom(v)'
  <2>1. CASE v # w
    <3>1. /\ stage[v] = "start" /\ pending'[v] = pending[v] /\ shard'[v] = shard[v]
          /\ Running(v)' = Running(v)
      BY <1>2, <2>1, OthersKeepTheirs, OthersLive
    <3>2. \A p \in Profiles : ActiveSet(v, p)' = ActiveSet(v, p)
      BY <3>1 DEF ActiveSet
    <3> QED
      BY <3>1, <3>2 DEF RunInv, HasRoom
  <2>2. CASE v = w
    <3>1. CASE Serve(w)
      <4>1. Profile(Head(pending[w])) \in Profiles
        BY <3>1, Hands DEF Serve, Served
      <4>2. UNCHANGED <<life, owner, pending, shard>> /\ HasRoom(w)
        BY <1>2, <2>2, <3>1, <4>1 DEF Serve, Go, HasRoom, TypeInv, StageTypes
      <4>3. \A p \in Profiles : ActiveSet(w, p)' = ActiveSet(w, p)
        BY <4>2 DEF ActiveSet, Running, Active
      <4> QED
        BY <2>2, <4>2, <4>3 DEF HasRoom
    <3>2. CASE TakeCredit(w)
      <4>1. PICK p \in Profiles : p = Profile(Head(pending[w]))
        BY <3>2, Hands DEF TakeCredit
      <4>2. UNCHANGED <<life, owner, pending>> /\ shard'[w][p] = shard[w][p] + 1
        BY <3>2, <4>1 DEF TakeCredit, TypeInv, GroupTypes
      <4>3. ActiveSet(w, p)' = ActiveSet(w, p)
        BY <4>2 DEF ActiveSet, Running, Active
      <4>4. /\ Cardinality(ActiveSet(w, p)) \in Nat /\ shard[w][p] \in Nat
            /\ Cardinality(ActiveSet(w, p)) <= shard[w][p]
        BY FS_CardinalityType DEF RunInv, PaidFor, TypeInv, GroupTypes
      <4>5. Cardinality(ActiveSet(w, p)') < shard'[w][p]
        BY <4>2, <4>3, <4>4
      <4> QED
        BY <2>2, <4>1, <4>2, <4>5 DEF HasRoom
    <3>3. Serve(w) \/ TakeCredit(w)
      BY <1>2, <2>2
      DEF WorkerStep, TakeInbox, EvictIdle, Evicted, ScanGroup, GroupScanned, Drop, NotYet,
          Served, WaitForDrain, NoCredit, AskForCredit, Reject, Start, EndPass, Awake, Driven,
          FinishRequest, Retire, Seal, FlushQueue, FlushGroup, Stop, ReactorFails, Go, ScanRest,
          Answer, TypeInv, StageTypes, LoopInv
    <3> QED
      BY <3>1, <3>2, <3>3
  <2> QED
    BY <2>1, <2>2
<1> QED
  BY <1>1, <1>2 DEF RunInv

LEMMA OutsideCredits ==
  ASSUME TypeInv, HomeInv, CreditInv, OutsideStep
  PROVE  CreditInv'
<1>1. UNCHANGED <<credits, shard, stage, pending>>
  BY DEF OutsideStep, GroupFails, GroupAges, Admit, PushFails, Push, Notify, TransferEnds,
         DeadlinePasses, ReadyAtPasses, BeginClose, CloseWakes, CloseReturns, outsideUnchanged,
         Submission, Closing
<1>2. \A v \in Workers : Running(v)' = Running(v)
  <2>1. ASSUME NEW r \in Requests, Admit(r)
        PROVE  \A v \in Workers : Running(v)' = Running(v)
    BY <2>1 DEF Admit, Running, Active, TypeInv, RequestTypes
  <2>2. ASSUME NEW r \in Requests, PushFails(r) \/ Push(r)
        PROVE  \A v \in Workers : Running(v)' = Running(v)
    BY <2>2 DEF PushFails, Push, HomeInv, LivesInv, Running, Active, TypeInv, RequestTypes
  <2>3. CASE UNCHANGED <<life, owner>>
    BY <2>3 DEF Running, Active
  <2> QED
    BY <2>1, <2>2, <2>3
    DEF OutsideStep, GroupFails, GroupAges, Notify, TransferEnds, DeadlinePasses, ReadyAtPasses,
        BeginClose, CloseWakes, CloseReturns, outsideUnchanged, Submission, Closing
<1>3. CountInv'
  BY <1>1 DEF CreditInv, CountInv, Held
<1>4. RunInv'
  <2>1. \A v \in Workers, q \in Profiles : ActiveSet(v, q)' = ActiveSet(v, q)
    BY <1>2 DEF ActiveSet
  <2> QED
    BY <1>1, <2>1 DEF CreditInv, RunInv, HasRoom, PaidFor
<1> QED
  BY <1>3, <1>4 DEF CreditInv

-----------------------------------------------------------------------------
(* Wake-ups                                                                *)

\* What a step leaves of the registrations and the wake-up of a worker.
FlagsKept(w) ==
  /\ w \in waitingCredit => w \in waitingCredit'
  /\ w \in passCredit => w \in passCredit'
  /\ w \in waitingCapacity => w \in waitingCapacity'
  /\ w \in passCapacity => w \in passCapacity'
  /\ w \in wake => w \in wake'

LEMMA StarvedIsQueued ==
  ASSUME TypeInv, HomeInv, NEW w \in Workers, NEW r \in Starved(w)
  PROVE  r \in Requests /\ life[r] = "queued" /\ owner[r] = w /\ r \in Outstanding
<1>1. kept[w] \in Seq(Requests) /\ pending[w] \in Seq(Requests)
  BY DEF TypeInv, QueueTypes
<1>2. r \in Requests /\ r \in Queued(w)
  BY <1>1, ElementsOf DEF Starved, Queued
<1> QED
  BY <1>2 DEF HomeInv, QueuedInv, Outstanding

LEMMA HeadIsQueued ==
  ASSUME TypeInv, LoopInv, HomeInv, NEW w \in Workers, pending[w] # <<>>
  PROVE  /\ Head(pending[w]) \in Requests /\ Head(pending[w]) \in Outstanding
         /\ Head(pending[w]) \in Elements(pending[w])
<1>1. Head(pending[w]) \in Requests /\ Head(pending[w]) \in Elements(pending[w])
  BY ElementsOfTail DEF TypeInv, QueueTypes
<1> QED
  BY <1>1 DEF HomeInv, QueuedInv, Queued, Outstanding

\* How the starved requests of w change with its own steps.
LEMMA StarvedSteps ==
  ASSUME TypeInv, LoopInv, HomeInv, NEW w \in Workers, WorkerStep(w) \/ ReactorFails(w)
  PROVE  \/ Starved(w)' = {}
         \/ /\ Starved(w)' \subseteq Starved(w) /\ FlagsKept(w)
            /\ stage[w] # "parked" /\ stage'[w] # "parked"
         \/ /\ EndPass(w) /\ Starved(w)' \subseteq Starved(w)
            /\ stage[w] = "pending" /\ stage'[w] = "parked"
         \/ /\ WaitForDrain(w) \/ AskForCredit(w)
            /\ Starved(w)' \subseteq Starved(w) \cup {Head(pending[w])}
            /\ FlagsKept(w) /\ stage'[w] = "pending" /\ stage[w] \in {"pending", "full"}
<1> USE DEF TypeInv, StageTypes, QueueTypes, Go
<1>1. kept[w] \in Seq(Requests) /\ pending[w] \in Seq(Requests)
  OBVIOUS
<1>2. Elements(<<>>) = {}
  BY DEF Elements
<1>3. CASE NotYet(w) \/ WaitForDrain(w) \/ AskForCredit(w)
  <2>1. pending[w] # <<>> /\ Keep(w)
    BY <1>3, Hands DEF NotYet, WaitForDrain, Served, AskForCredit
  <2>2. kept'[w] = Append(kept[w], Head(pending[w])) /\ Head(pending[w]) \in Requests
    BY <2>1, <1>1 DEF Keep
  <2>3. Elements(kept'[w]) = Elements(kept[w]) \cup {Head(pending[w])}
    BY <1>1, <2>2, ElementsOfAppend
  <2>4. stage[w] \in {"pending", "full"} /\ stage'[w] = "pending" /\ FlagsKept(w)
    BY <1>3 DEF NotYet, WaitForDrain, Served, AskForCredit, RequestReclaim, Wake, FlagsKept
  <2>5. Starved(w)' \subseteq Starved(w) \cup {Head(pending[w])}
    BY <2>3, <2>4 DEF Starved
  <2>6. NotYet(w) => Head(pending[w]) \in Delayed
    BY DEF NotYet, RequestTypes
  <2>7. NotYet(w) => Starved(w)' \subseteq Starved(w)
    BY <2>5, <2>6 DEF Starved
  <2> QED
    BY <1>3, <2>4, <2>5, <2>7
<1>4. CASE EndPass(w)
  <2>1. /\ stage[w] = "pending" /\ pending'[w] = kept[w] /\ kept'[w] = <<>>
        /\ stage'[w] = "parked" \/ (stage'[w] = "seal" /\ kept[w] = <<>>)
    BY <1>4 DEF EndPass
  <2>2. CASE stage'[w] = "parked"
    BY <1>2, <1>4, <2>1, <2>2 DEF Starved
  <2>3. CASE stage'[w] = "seal"
    BY <1>2, <2>1, <2>3 DEF Starved
  <2> QED
    BY <2>1, <2>2, <2>3
<1>5. CASE Drop(w) \/ Serve(w) \/ TakeCredit(w) \/ NoCredit(w) \/ Reject(w) \/ Start(w)
  <2>1. kept' = kept /\ stage[w] # "parked" /\ stage'[w] # "parked" /\ FlagsKept(w)
    BY <1>5 DEF Drop, Answer, Take, Serve, Served, PublishWaiting, TakeCredit, NoCredit, Reject,
                Start, FlagsKept
  <2> QED
    BY <2>1 DEF Starved
<1>6. CASE Driven(w) \/ FinishRequest(w) \/ Retire(w)
  <2>1. kept' = kept /\ stage[w] # "parked" /\ stage'[w] # "parked" /\ FlagsKept(w)
    BY <1>6 DEF Driven, FinishRequest, Answer, Retire, Publish, Wake, FlagsKept, LoopInv
  <2> QED
    BY <2>1 DEF Starved
<1>7. ASSUME ~ InPass(w), kept' = kept, stage'[w] # "parked"
      PROVE  Starved(w)' = {}
  BY <1>2, <1>7 DEF LoopInv, Starved
<1>8. CASE TakeInbox(w) \/ EvictIdle(w) \/ Evicted(w) \/ ScanGroup(w) \/ GroupScanned(w)
  BY <1>7, <1>8 DEF TakeInbox, EvictIdle, Evicted, ScanGroup, GroupScanned, ScanRest, InPass, At
<1>9. CASE Awake(w) \/ Seal(w) \/ FlushQueue(w) \/ FlushGroup(w) \/ Stop(w) \/ ReactorFails(w)
  <2>1. ~ InPass(w) /\ stage'[w] # "parked"
    BY <1>9 DEF Awake, Seal, FlushQueue, FlushGroup, Stop, ReactorFails, Answer, InPass, At
  <2>2. kept' = kept
    BY <1>9 DEF Awake, Seal, FlushQueue, FlushGroup, Stop, ReactorFails, Take
  <2> QED
    BY <1>7, <2>1, <2>2
<1> QED
  BY <1>3, <1>4, <1>5, <1>6, <1>8, <1>9 DEF WorkerStep

\* What the steps of w that others can see tell them.
LEMMA WorkerTells ==
  ASSUME TypeInv, LoopInv, HomeInv, CloseInv, CountInv, NEW w \in Workers,
         WorkerStep(w) \/ ReactorFails(w)
  PROVE  /\ closer' = closer /\ notifying' = notifying /\ owner' = owner
         /\ credits' < credits => Outstanding = {} \/ Workers \subseteq wake'
         /\ closing' # closing => Workers \subseteq wake'
         /\ Awake(w) \/ wake \subseteq wake'
<1>1. closer' = closer /\ notifying' = notifying /\ owner' = owner
  BY DEF WorkerStep, TakeInbox, EvictIdle, Evicted, ScanGroup, GroupScanned, Drop, NotYet,
         WaitForDrain, Serve, TakeCredit, NoCredit, AskForCredit, Reject, Start, EndPass, Awake,
         Driven, FinishRequest, Retire, Seal, FlushQueue, FlushGroup, Stop, ReactorFails
<1>2. credits' < credits => Outstanding = {} \/ Workers \subseteq wake'
  <2>1. credits \in Int
    BY DEF TypeInv, GroupTypes
  <2>2. \A p : RemoveGroup(w, p) => Outstanding = {} \/ Workers \subseteq wake'
    BY DEF RemoveGroup, Wake
  <2>3. CASE EvictIdle(w) \/ GroupScanned(w) \/ FlushGroup(w)
    BY <2>1, <2>2, <2>3 DEF EvictIdle, GroupScanned, FlushGroup
  <2>4. CASE TakeCredit(w)
    BY <2>1, <2>4 DEF TakeCredit
  <2>5. CASE UNCHANGED credits
    BY <2>1, <2>5
  <2> QED
    BY <2>3, <2>4, <2>5
    DEF WorkerStep, TakeInbox, Evicted, ScanGroup, Drop, NotYet, WaitForDrain, Serve, NoCredit,
        AskForCredit, Reject, Start, EndPass, Awake, Driven, FinishRequest, Retire, Seal,
        FlushQueue, Stop, ReactorFails
<1>3. closing' # closing => Workers \subseteq wake'
  <2>1. CASE Seal(w)
    <3>1. Engine \in closing
      BY <2>1 DEF Seal, CloseInv, SealedInv, At
    <3> QED
      BY <2>1, <3>1 DEF Seal, SetClosing
  <2> QED
    BY <2>1
    DEF WorkerStep, TakeInbox, EvictIdle, Evicted, ScanGroup, GroupScanned, Drop, NotYet,
        WaitForDrain, Serve, TakeCredit, NoCredit, AskForCredit, Reject, Start, EndPass, Awake,
        Driven, FinishRequest, Retire, FlushQueue, FlushGroup, Stop, ReactorFails, Wake
<1>4. Awake(w) \/ wake \subseteq wake'
  <2>1. \A p : RemoveGroup(w, p) => wake \subseteq wake'
    BY DEF RemoveGroup, Wake
  <2>2. RequestReclaim(w) => wake \subseteq wake'
    BY DEF RequestReclaim, Wake
  <2>3. CASE EvictIdle(w) \/ GroupScanned(w) \/ FlushGroup(w)
    BY <2>1, <2>3 DEF EvictIdle, GroupScanned, FlushGroup
  <2>4. CASE WaitForDrain(w) \/ AskForCredit(w)
    BY <2>2, <2>4 DEF WaitForDrain, AskForCredit
  <2> QED
    BY <2>3, <2>4
    DEF WorkerStep, TakeInbox, Evicted, ScanGroup, Drop, NotYet, Serve, TakeCredit, NoCredit,
        Reject, Start, EndPass, Driven, FinishRequest, Retire, Publish, Seal, FlushQueue, Stop,
        ReactorFails, Wake
<1> QED
  BY <1>1, <1>2, <1>3, <1>4

LEMMA WorkerInboxTold ==
  ASSUME TypeInv, LoopInv, HomeInv, CloseInv, CountInv, NEW w \in Workers,
         WorkerStep(w) \/ ReactorFails(w), NEW v \in Workers, InboxTold(v)
  PROVE  InboxTold(v)'
<1>1. CASE v # w
  BY <1>1, OthersKeepTheirs, WorkerTells DEF InboxTold, At
<1>2. CASE v = w
  <2> USE DEF TypeInv, StageTypes, Go
  <2>1. CASE TakeInbox(w)
    BY <1>2, <2>1 DEF TakeInbox, InboxTold, QueueTypes
  <2>2. CASE Stop(w)
    BY <1>2, <2>2, Hands DEF Stop, InboxTold
  <2>3. CASE Awake(w)
    BY <1>2, <2>3 DEF Awake, InboxTold, At
  <2>4. CASE FlushQueue(w)
    BY <1>2, <2>4 DEF FlushQueue, Answer, InboxTold, At
  <2>5. CASE Retire(w)
    BY <1>2, <2>5, WorkerTells DEF Retire, InboxTold, At, LoopInv, Wake, Publish
  <2>6. CASE inbox' = inbox /\ wake \subseteq wake'
             /\ (At(w) \in {"drive", "inbox", "seal", "flush"} =>
                   At(w)' \in {"drive", "inbox", "seal", "flush"})
    BY <1>2, <2>6, WorkerTells DEF InboxTold
  <2>7. CASE Driven(w) \/ FinishRequest(w) \/ Seal(w) \/ FlushGroup(w) \/ ReactorFails(w)
    <3>1. /\ inbox' = inbox /\ wake \subseteq wake'
          /\ At(w) \in {"drive", "inbox", "seal", "flush"} =>
               At(w)' \in {"drive", "inbox", "seal", "flush"}
      BY <2>7, WorkerTells
      DEF Driven, FinishRequest, Answer, Seal, FlushGroup, ReactorFails, At, Awake
    <3> QED
      BY <2>6, <3>1
  <2>8. CASE EvictIdle(w) \/ Evicted(w) \/ ScanGroup(w) \/ GroupScanned(w) \/ Drop(w) \/ NotYet(w)
             \/ WaitForDrain(w) \/ Serve(w) \/ TakeCredit(w) \/ NoCredit(w) \/ AskForCredit(w)
             \/ Reject(w) \/ Start(w) \/ EndPass(w)
    <3>1. inbox' = inbox /\ At(w) \notin {"drive", "inbox", "seal", "flush"}
      BY <2>8
      DEF EvictIdle, Evicted, ScanGroup, GroupScanned, Drop, NotYet, Served, WaitForDrain, Serve,
          TakeCredit, NoCredit, AskForCredit, Reject, Start, EndPass, At, Take
    <3>2. stage[w] # "parked"
      BY <2>8
      DEF EvictIdle, Evicted, ScanGroup, GroupScanned, Drop, NotYet, Served, WaitForDrain, Serve,
          TakeCredit, NoCredit, AskForCredit, Reject, Start, EndPass
    <3>3. wake \subseteq wake'
      BY <3>2, WorkerTells DEF Awake
    <3> QED
      BY <2>6, <3>1, <3>3
  <2> QED
    BY <2>1, <2>2, <2>3, <2>4, <2>5, <2>7, <2>8 DEF WorkerStep
<1> QED
  BY <1>1, <1>2

LEMMA WorkerRegistration ==
  ASSUME TypeInv, LoopInv, NEW w \in Workers,
         WorkerStep(w) \/ ReactorFails(w), NEW v \in Workers, RegistrationOwned(v)
  PROVE  RegistrationOwned(v)'
<1>1. CASE v # w
  BY <1>1, OthersKeepTheirs DEF RegistrationOwned, InPass, At
<1>2. CASE v = w
  <2> USE DEF TypeInv, StageTypes, QueueTypes, Go
  <2>1. CASE WaitForDrain(w) \/ AskForCredit(w) \/ NotYet(w)
    <3>1. pending[w] # <<>> /\ Keep(w) /\ stage'[w] = "pending"
      BY <2>1, Hands DEF WaitForDrain, AskForCredit, NotYet, Served
    <3>2. kept'[w] # <<>>
      <4>1. kept[w] \in Seq(Requests) /\ Head(pending[w]) \in Requests
        BY <3>1, Hands
      <4>2. kept'[w] = Append(kept[w], Head(pending[w]))
        BY <3>1 DEF Keep
      <4> QED
        BY <4>1, <4>2, ElementsOfAppend
    <3> QED
      BY <1>2, <3>1, <3>2 DEF RegistrationOwned
  <2>2. CASE TakeInbox(w) \/ Evicted(w) \/ GroupScanned(w)
    <3>1. stage'[w] # "parked" /\ (InPass(w)' => w \notin passCredit')
      BY <2>2 DEF TakeInbox, Evicted, GroupScanned, ScanRest, InPass, At
    <3> QED
      BY <1>2, <3>1 DEF RegistrationOwned
  <2>3. CASE EndPass(w)
    <3>1. /\ stage[w] = "pending" /\ pending'[w] = kept[w] /\ stage'[w] \in {"parked", "seal"}
          /\ w \in waitingCredit' => w \in passCredit
      BY <2>3 DEF EndPass, Reregister
    <3> QED
      BY <1>2, <3>1 DEF RegistrationOwned, InPass, At
  <2>4. CASE /\ passCredit' = passCredit /\ kept'[w] = kept[w]
             /\ stage'[w] # "parked" /\ (InPass(w)' => InPass(w))
    BY <1>2, <2>4 DEF RegistrationOwned
  <2>5. CASE EvictIdle(w) \/ ScanGroup(w) \/ Awake(w) \/ Seal(w) \/ FlushQueue(w) \/ FlushGroup(w)
             \/ Stop(w) \/ ReactorFails(w) \/ Retire(w)
    <3>1. /\ passCredit' = passCredit /\ kept'[w] = kept[w]
          /\ stage'[w] # "parked" /\ (InPass(w)' => InPass(w))
      BY <2>5 DEF EvictIdle, ScanGroup, Awake, Seal, FlushQueue, Answer, Take, FlushGroup, Stop,
                  ReactorFails, Retire, InPass, At, LoopInv
    <3> QED
      BY <2>4, <3>1
  <2>6. CASE Drop(w) \/ Serve(w) \/ TakeCredit(w) \/ NoCredit(w) \/ Reject(w) \/ Start(w)
             \/ Driven(w) \/ FinishRequest(w)
    <3>1. /\ passCredit' = passCredit /\ kept'[w] = kept[w]
          /\ stage'[w] # "parked" /\ (InPass(w)' => InPass(w))
      BY <2>6 DEF Drop, Answer, Take, Serve, Served, TakeCredit, NoCredit, Reject, Start, Driven,
                  FinishRequest, InPass, At
    <3> QED
      BY <2>4, <3>1
  <2> QED
    BY <2>1, <2>2, <2>3, <2>5, <2>6 DEF WorkerStep
<1> QED
  BY <1>1, <1>2

LEMMA WorkerCloseTold ==
  ASSUME TypeInv, LoopInv, HomeInv, CloseInv, CountInv, NEW w \in Workers,
         WorkerStep(w) \/ ReactorFails(w), NEW v \in Workers, CloseTold(v)
  PROVE  CloseTold(v)'
\* A request that was told of its closing still is, unless its worker saw it.
<1>1. ASSUME NEW r \in Requests, CloseIsTold(v, r), v # w \/ ~ Awake(w)
      PROVE  CloseIsTold(v, r)'
  <2>1. v \in wake => v \in wake'
    BY <1>1, OthersKeepTheirs, WorkerTells
  <2>2. CASE closing' = closing
    BY <1>1, <2>1, <2>2, WorkerTells DEF CloseIsTold, Closed
  <2>3. CASE closing' # closing
    BY <2>3, WorkerTells DEF CloseIsTold
  <2> QED
    BY <2>2, <2>3
<1>2. CASE v # w
  <2>1. /\ Starved(v)' = Starved(v) /\ stage'[v] = stage[v] /\ pending'[v] = pending[v]
    BY <1>2, OthersKeepTheirs DEF Starved
  <2>2. \A r \in Starved(v)' : CloseIsTold(v, r)'
    BY <1>1, <1>2, <2>1, StarvedIsQueued DEF CloseTold
  <2>3. ASSUME stage[v] \in {"credit", "full"}
        PROVE  CloseIsTold(v, Head(pending[v]))'
    <3>1. Head(pending[v]) \in Requests /\ CloseIsTold(v, Head(pending[v]))
      BY <2>3, Hands DEF CloseTold
    <3>2. PICK r \in Requests : r = Head(pending[v]) /\ CloseIsTold(v, r)
      BY <3>1
    <3>3. CloseIsTold(v, r)'
      BY <1>1, <1>2, <3>2
    <3>4. r = Head(pending'[v])
      BY <2>1, <3>2
    <3> QED
      BY <3>3, <3>4 DEF CloseIsTold, Closed
  <2> QED
    BY <2>1, <2>2, <2>3 DEF CloseTold
<1>3. CASE v = w
  <2>1. \A r \in Starved(w)' : CloseIsTold(w, r)'
    <3>1. CASE WaitForDrain(w) \/ AskForCredit(w)
      <4>1. PICK h \in Requests : h = Head(pending[w])
        BY <3>1, Hands DEF WaitForDrain, AskForCredit, Served
      <4>2. CloseIsTold(w, h)
        BY <1>3, <3>1, <4>1 DEF WaitForDrain, Served, AskForCredit, CloseTold, CloseIsTold
      <4>3. Starved(w)' \subseteq Starved(w) \cup {h}
        BY <3>1, <4>1, StarvedSteps DEF EndPass, WaitForDrain, AskForCredit
      <4>4. ~ Awake(w)
        BY <3>1 DEF Awake, WaitForDrain, AskForCredit, Served
      <4> QED
        BY <1>1, <1>3, <4>2, <4>3, <4>4, StarvedIsQueued DEF CloseTold
    <3>2. CASE ~(WaitForDrain(w) \/ AskForCredit(w)) /\ Starved(w)' # {}
      <4>1. Starved(w)' \subseteq Starved(w) /\ ~ Awake(w)
        BY <3>2, StarvedSteps DEF EndPass, Awake
      <4> QED
        BY <1>1, <1>3, <4>1, StarvedIsQueued DEF CloseTold
    <3> QED
      BY <3>1, <3>2
  <2>2. ASSUME stage'[w] \in {"credit", "full"}
        PROVE  CloseIsTold(w, Head(pending[w]))' /\ pending'[w] = pending[w]
    <3>1. CASE Serve(w)
      <4>1. ~ Closed(Head(pending[w])) /\ UNCHANGED <<closing, pending>>
        BY <3>1 DEF Serve, Served
      <4> QED
        BY <4>1 DEF CloseIsTold, Closed
    <3>2. CASE NoCredit(w)
      <4>1. CloseIsTold(w, Head(pending[w]))
        BY <1>3, <3>2 DEF NoCredit, CloseTold
      <4>2. UNCHANGED <<pending, closing, closer, wake>>
        BY <3>2 DEF NoCredit
      <4> QED
        BY <4>1, <4>2 DEF CloseIsTold, Closed
    <3>3. Serve(w) \/ NoCredit(w)
      BY <2>2
      DEF WorkerStep, TakeInbox, EvictIdle, Evicted, ScanGroup, GroupScanned, Drop, NotYet,
          Served, WaitForDrain, TakeCredit, AskForCredit, Reject, Start, EndPass, Awake, Driven,
          FinishRequest, Retire, Seal, FlushQueue, FlushGroup, Stop, ReactorFails, Go, ScanRest,
          Answer, TypeInv, StageTypes, LoopInv
    <3> QED
      BY <3>1, <3>2, <3>3
  <2> QED
    BY <1>3, <2>1, <2>2 DEF CloseTold
<1> QED
  BY <1>2, <1>3

LEMMA WorkerCapacityTold ==
  ASSUME TypeInv, LoopInv, HomeInv, CloseInv, CountInv, NEW w \in Workers,
         WorkerStep(w) \/ ReactorFails(w), NEW v \in Workers, CapacityTold(v)
  PROVE  CapacityTold(v)'
<1>1. ASSUME Full \/ v \in wake, Outstanding # {}, v # w \/ ~ Awake(w)
      PROVE  Full' \/ v \in wake'
  <2>1. v \in wake => v \in wake'
    BY <1>1, OthersKeepTheirs, WorkerTells
  <2>2. /\ credits \in Int /\ MaxConnections \in Int
        /\ credits' \in Int
    <3>1. GroupTypes'
      BY WorkerGroupTypes
    <3> QED
      BY <3>1, ConstantsAssumption DEF TypeInv, GroupTypes, ConstantsAssumption
  <2>3. CASE credits' < credits
    BY <1>1, <2>3, WorkerTells
  <2>4. CASE ~(credits' < credits)
    BY <1>1, <2>1, <2>2, <2>4 DEF Full
  <2> QED
    BY <2>3, <2>4
<1>2. CASE v # w
  <2>1. /\ Starved(v)' = Starved(v) /\ stage'[v] = stage[v]
        /\ v \in passCapacity => v \in passCapacity'
        /\ v \in waitingCapacity => v \in waitingCapacity'
    BY <1>2, OthersKeepTheirs DEF Starved
  <2>2. Starved(v) # {} \/ stage[v] = "full" => Outstanding # {}
    BY StarvedIsQueued, HeadIsQueued, Hands
  <2> QED
    BY <1>1, <1>2, <2>1, <2>2 DEF CapacityTold
<1>3. CASE v = w
  <2>1. ASSUME Starved(w)' # {}
        PROVE  Full' \/ w \in wake'
    <3>1. CASE WaitForDrain(w)
      BY <3>1 DEF WaitForDrain, Full
    <3>2. CASE AskForCredit(w)
      <4>1. Full \/ w \in wake
        BY <1>3, <3>2 DEF AskForCredit, CapacityTold
      <4>2. credits' = credits /\ (w \in wake => w \in wake')
        BY <3>2 DEF AskForCredit, RequestReclaim, Wake
      <4> QED
        BY <4>1, <4>2 DEF Full
    <3>3. CASE ~(WaitForDrain(w) \/ AskForCredit(w))
      <4>1. Starved(w) # {} /\ ~ Awake(w)
        BY <2>1, <3>3, StarvedSteps DEF EndPass, Awake
      <4>2. Outstanding # {}
        BY <4>1, StarvedIsQueued
      <4> QED
        BY <1>1, <1>3, <4>1, <4>2 DEF CapacityTold
    <3> QED
      BY <3>1, <3>2, <3>3
  <2>2. ASSUME stage'[w] \in {"credit", "full"}
        PROVE  /\ w \in waitingCapacity'
               /\ stage'[w] = "full" => Full' /\ w \in passCapacity'
    <3>1. CASE Serve(w)
      BY <2>2, <3>1 DEF Serve, PublishWaiting, Go, TypeInv, StageTypes
    <3>2. CASE NoCredit(w)
      BY <1>3, <3>2 DEF NoCredit, CapacityTold, Full
    <3>3. Serve(w) \/ NoCredit(w)
      BY <2>2
      DEF WorkerStep, TakeInbox, EvictIdle, Evicted, ScanGroup, GroupScanned, Drop, NotYet,
          Served, WaitForDrain, TakeCredit, AskForCredit, Reject, Start, EndPass, Awake, Driven,
          FinishRequest, Retire, Seal, FlushQueue, FlushGroup, Stop, ReactorFails, Go, ScanRest,
          Answer, TypeInv, StageTypes, LoopInv
    <3> QED
      BY <3>1, <3>2, <3>3
  <2> QED
    BY <1>3, <2>1, <2>2 DEF CapacityTold
<1> QED
  BY <1>2, <1>3

LEMMA WorkerEnding ==
  ASSUME TypeInv, LoopInv, HomeInv, NEW w \in Workers, WorkerStep(w) \/ ReactorFails(w),
         Active # {} \/ Ending
  PROVE  (Active # {} \/ Ending)' \/ Retire(w)
<1>1. CASE stage[w] = "answered"
  BY <1>1
  DEF WorkerStep, TakeInbox, EvictIdle, Evicted, ScanGroup, GroupScanned, Drop, NotYet, Served,
      WaitForDrain, Serve, TakeCredit, NoCredit, AskForCredit, Reject, Start, EndPass, Awake,
      Driven, FinishRequest, Seal, FlushQueue, FlushGroup, Stop, ReactorFails
<1>2. CASE stage[w] # "answered" /\ life' = life
  <2>1. CASE Active # {}
    BY <1>2, <2>1 DEF Active
  <2>2. ASSUME NEW u \in Workers, stage[u] = "answered"
        PROVE  Ending'
    BY <1>2, <2>2, OthersKeepTheirs DEF Ending
  <2> QED
    BY <2>1, <2>2 DEF Ending
<1>3. CASE stage'[w] = "answered"
  BY <1>3 DEF Ending
<1>4. ASSUME NEW r \in Requests, life' = [life EXCEPT ![r] = "running"]
      PROVE  Active' # {}
  BY <1>4 DEF Active, TypeInv, RequestTypes
<1> QED
  BY <1>1, <1>2, <1>3, <1>4, LifeSteps

LEMMA WorkerStarvedTold ==
  ASSUME TypeInv, LoopInv, HomeInv, CloseInv, CountInv, NEW w \in Workers, CapacityTold(w),
         WorkerStep(w) \/ ReactorFails(w), NEW v \in Workers, StarvedTold(v)
  PROVE  StarvedTold(v)'
<1>1. Retire(w) /\ v \in waitingCapacity => v \in wake'
  BY DEF Retire, Publish, Wake
<1>2. CASE v # w
  <2>1. /\ Starved(v)' = Starved(v) /\ (v \in wake => v \in wake')
        /\ HoldsCredit(v)' = HoldsCredit(v) /\ HoldsCapacity(v)' = HoldsCapacity(v)
    BY <1>2, OthersKeepTheirs DEF Starved, HoldsCredit, HoldsCapacity
  <2> QED
    BY <1>1, <2>1, WorkerEnding DEF StarvedTold, HoldsCapacity
<1>3. CASE v = w
  <2> SUFFICES ASSUME Starved(w)' # {}
               PROVE  \/ w \in wake' \/ HoldsCredit(w)'
                      \/ HoldsCapacity(w)' /\ (Active # {} \/ Ending)'
    BY <1>3 DEF StarvedTold
  <2>1. CASE Starved(w)' \subseteq Starved(w) /\ FlagsKept(w) /\ stage[w] # "parked"
    <3>1. w \in wake \/ HoldsCredit(w) \/ (HoldsCapacity(w) /\ (Active # {} \/ Ending))
      BY <1>3, <2>1 DEF StarvedTold
    <3>2. HoldsCredit(w) => HoldsCredit(w)'
      BY <2>1 DEF HoldsCredit, FlagsKept
    <3>3. HoldsCapacity(w) => HoldsCapacity(w)'
      BY <2>1 DEF HoldsCapacity, FlagsKept
    <3> QED
      BY <1>1, <1>3, <2>1, <3>1, <3>2, <3>3, WorkerEnding DEF FlagsKept, HoldsCapacity
  <2>2. CASE /\ EndPass(w) /\ Starved(w)' \subseteq Starved(w)
             /\ stage[w] = "pending" /\ stage'[w] = "parked"
    <3>1. w \in wake \/ HoldsCredit(w) \/ (HoldsCapacity(w) /\ (Active # {} \/ Ending))
      BY <1>3, <2>2 DEF StarvedTold
    <3>2. HoldsCredit(w) => HoldsCredit(w)'
      BY <2>2 DEF HoldsCredit, EndPass, Reregister
    <3>3. HoldsCapacity(w) => HoldsCapacity(w)'
      BY <2>2 DEF HoldsCapacity, EndPass, Reregister
    <3>4. wake' = wake /\ ~ Retire(w)
      BY <2>2 DEF EndPass, Retire
    <3> QED
      BY <3>1, <3>2, <3>3, <3>4, WorkerEnding
  <2>3. ASSUME RequestReclaim(w)
        PROVE  HoldsCredit(w)'
    BY <2>3 DEF RequestReclaim, HoldsCredit
  <2>4. CASE AskForCredit(w) /\ ~ RequestReclaim(w)
    <3>1. /\ stage[w] = "full" /\ stage'[w] = "pending" /\ ~(Cardinality(Active) < credits)
          /\ UNCHANGED <<life, wake, waitingCapacity, passCapacity>>
      BY <2>4 DEF AskForCredit, Go, TypeInv, StageTypes
    <3>2. (Full \/ w \in wake) /\ w \in passCapacity /\ w \in waitingCapacity
      BY <3>1 DEF CapacityTold
    <3>3. ASSUME Full
          PROVE  Active # {}
      <4>1. credits > 0
        BY <3>3, ConstantsAssumption DEF Full, ConstantsAssumption, TypeInv, GroupTypes
      <4> QED
        BY <3>1, <4>1, FS_EmptySet
    <3>4. Active' = Active
      BY <3>1 DEF Active
    <3> QED
      BY <3>1, <3>2, <3>3, <3>4 DEF HoldsCapacity
  <2>5. WaitForDrain(w) => RequestReclaim(w)
    BY DEF WaitForDrain
  <2> QED
    BY <2>1, <2>2, <2>3, <2>4, <2>5, StarvedSteps
<1> QED
  BY <1>2, <1>3

LEMMA WorkerReclaimTold ==
  ASSUME TypeInv, LoopInv, HomeInv, CloseInv, CreditInv, NEW w \in Workers,
         WorkerStep(w) \/ ReactorFails(w), ReclaimTold
  PROVE  ReclaimTold'
<1> USE DEF TypeInv, StageTypes
<1> SUFFICES ASSUME Pressure', Full', Active' = {},
                    \A v \in Workers : stage'[v] \notin {"answered", "start"},
                    NEW v \in Workers, Groups(v)' # {}
             PROVE  v \in wake' \/ stage'[v] \in {"drive", "inbox", "evict", "seal", "flush"}
  BY DEF ReclaimTold
<1>1. CASE Retire(w)
  BY <1>1 DEF Retire, Publish, Wake, Pressure
<1>2. CASE ~ Pressure
  <2>1. CASE RequestReclaim(w)
    BY <1>2, <2>1 DEF RequestReclaim, Wake, Pressure
  <2>2. CASE waitingCredit' \subseteq waitingCredit
    BY <1>2, <2>2 DEF Pressure
  <2>3. RequestReclaim(w) \/ waitingCredit' \subseteq waitingCredit
    BY DEF WorkerStep, TakeInbox, EvictIdle, Evicted, ScanGroup, GroupScanned, Drop, NotYet,
           WaitForDrain, Serve, TakeCredit, NoCredit, AskForCredit, Reject, Start, EndPass,
           Reregister, Awake, Driven, FinishRequest, Retire, Seal, FlushQueue, FlushGroup, Stop,
           ReactorFails, ScanRest
  <2> QED
    BY <2>1, <2>2, <2>3
<1>3. CASE Pressure /\ ~ Retire(w)
  <2>1. ~ TakeCredit(w) /\ ~ Start(w)
    <3>1. TakeCredit(w) => stage'[w] = "start"
      BY DEF TakeCredit, Go
    <3>2. ASSUME Start(w)
          PROVE  Active' # {}
      BY <3>2, Hands DEF Start, Active, RequestTypes
    <3> QED
      BY <3>1, <3>2
  <2>2. life' = life
    BY <1>3, <2>1, LifeSteps
  <2>3. Active = {}
    BY <2>2 DEF Active
  <2>4. stage[w] \notin {"answered", "start"}
    BY <1>3, <2>1
    DEF WorkerStep, TakeInbox, EvictIdle, Evicted, ScanGroup, GroupScanned, Drop, NotYet, Served,
        WaitForDrain, Serve, TakeCredit, NoCredit, AskForCredit, Reject, EndPass, Awake,
        Driven, FinishRequest, Answer, Seal, FlushQueue, FlushGroup, Stop, ReactorFails
  <2>5. \A u \in Workers : stage[u] \notin {"answered", "start"}
    BY <2>4, OthersKeepTheirs
  <2>6. ~(\E p \in Profiles : shard[w][p] > 0 /\ RemoveGroup(w, p)) /\ shard' = shard /\ Full
    <3>1. ASSUME NEW p \in Profiles, shard[w][p] > 0, RemoveGroup(w, p)
          PROVE  FALSE
      <4>1. credits' = credits - shard[w][p]
        BY <3>1 DEF RemoveGroup
      <4> QED
        BY <3>1, <4>1, ConstantsAssumption
        DEF CreditInv, CountInv, Full, GroupTypes, ConstantsAssumption
    <3>2. CASE EvictIdle(w)
      BY <3>1, <3>2, Hands DEF EvictIdle, Idle, Groups
    <3>3. CASE FlushGroup(w)
      BY <3>1, <3>3, Hands DEF FlushGroup, Groups
    <3>4. CASE GroupScanned(w)
      <4>1. CASE Least(todo[w]) \in Idle(w) /\ RemoveGroup(w, Least(todo[w]))
        BY <3>1, <4>1 DEF Idle, Groups
      <4>2. CASE UNCHANGED groupVars
        BY <3>1, <4>2 DEF Full
      <4> QED
        BY <3>4, <4>1, <4>2 DEF GroupScanned
    <3>5. CASE UNCHANGED <<credits, shard>>
      BY <3>1, <3>5 DEF Full
    <3> QED
      BY <2>1, <3>2, <3>3, <3>4, <3>5
      DEF WorkerStep, TakeInbox, Evicted, ScanGroup, Drop, NotYet, WaitForDrain, Serve, NoCredit,
          AskForCredit, Reject, EndPass, Awake, Driven, FinishRequest, Retire, Seal,
          FlushQueue, Stop, ReactorFails
  <2>7. Groups(v) # {}
    BY <2>6 DEF Groups
  <2>8. v \in wake \/ stage[v] \in {"drive", "inbox", "evict", "seal", "flush"}
    BY <1>3, <2>3, <2>5, <2>6, <2>7 DEF ReclaimTold
  <2>9. CASE v # w
    BY <2>8, <2>9, OthersKeepTheirs
  <2>10. CASE v = w /\ w \in wake /\ ~ Awake(w)
    BY <2>10, WorkerTells DEF CreditInv
  <2>11. CASE v = w /\ Awake(w)
    BY <2>11 DEF Awake, Go
  <2>12. CASE v = w /\ stage[w] \in {"drive", "inbox", "evict", "seal", "flush"}
    <3>1. ~ Stop(w)
      BY <2>7, <2>12 DEF Stop
    <3>2. ~ Evicted(w)
      <4>1. Idle(w) = Groups(w)
        BY <2>3 DEF Idle, ActiveSet, Running
      <4> QED
        BY <2>6, <2>7, <2>12, <4>1 DEF Evicted
    <3>3. TakeInbox(w) => stage'[w] = "evict"
      BY <1>3 DEF TakeInbox, Go
    <3>4. CASE ~ TakeInbox(w)
      BY <1>3, <2>1, <2>12, <3>1, <3>2, <3>4
      DEF WorkerStep, EvictIdle, ScanGroup, GroupScanned, Drop, NotYet, Served,
          WaitForDrain, Serve, NoCredit, AskForCredit, Reject, EndPass, Awake, Go,
          Driven, FinishRequest, Answer, Seal, FlushQueue, FlushGroup, ReactorFails
    <3> QED
      BY <2>12, <3>3, <3>4
  <2> QED
    BY <2>8, <2>9, <2>10, <2>11, <2>12
<1> QED
  BY <1>1, <1>2, <1>3

LEMMA WorkerWake ==
  ASSUME TypeInv, LoopInv, HomeInv, CloseInv, CreditInv, WakeInv, NEW w \in Workers,
         WorkerStep(w) \/ ReactorFails(w)
  PROVE  WakeInv'
<1>1. \A v \in Workers : /\ InboxTold(v)' /\ RegistrationOwned(v)' /\ CloseTold(v)'
                         /\ CapacityTold(v)' /\ StarvedTold(v)'
  BY WorkerInboxTold, WorkerRegistration, WorkerCloseTold, WorkerCapacityTold, WorkerStarvedTold
  DEF WakeInv, CreditInv
<1>2. ReclaimTold'
  BY WorkerReclaimTold DEF WakeInv
<1> QED
  BY <1>1, <1>2 DEF WakeInv

LEMMA OutsideWake ==
  ASSUME TypeInv, LoopInv, HomeInv, CloseInv, CreditInv, WakeInv, OutsideStep
  PROVE  WakeInv'
<1>1. /\ UNCHANGED <<stage, back, pending, kept, shard, credits, flagVars>>
      /\ wake \subseteq wake'
  BY DEF OutsideStep, GroupFails, GroupAges, Admit, PushFails, Push, Notify, TransferEnds,
         DeadlinePasses, ReadyAtPasses, BeginClose, CloseWakes, CloseReturns, outsideUnchanged,
         Submission, Closing, Wake, Publish
<1>2. Active' = Active
  <2> USE DEF Active, TypeInv, RequestTypes
  <2>1. ASSUME NEW r \in Requests, Admit(r)
        PROVE  Active' = Active
    BY <2>1 DEF Admit
  <2>2. ASSUME NEW r \in Requests, PushFails(r) \/ Push(r)
        PROVE  Active' = Active
    <3>1. life[r] = "admitted"
      BY <2>2 DEF PushFails, Push, HomeInv, LivesInv
    <3>2. life' \in {[life EXCEPT ![r] = "refused"], [life EXCEPT ![r] = "queued"]}
      BY <2>2 DEF PushFails, Push
    <3> QED
      BY <3>1, <3>2
  <2>3. CASE life' = life
    BY <2>3
  <2> QED
    BY <2>1, <2>2, <2>3
    DEF OutsideStep, GroupFails, GroupAges, Notify, TransferEnds, DeadlinePasses, ReadyAtPasses,
        BeginClose, CloseWakes, CloseReturns, outsideUnchanged, Submission, Closing
<1>3. /\ Full' = Full /\ Pressure' = Pressure /\ Ending' = Ending
      /\ \A v \in Workers : /\ At(v)' = At(v) /\ Groups(v)' = Groups(v) /\ Starved(v)' = Starved(v)
                            /\ HoldsCredit(v)' = HoldsCredit(v)
                            /\ HoldsCapacity(v)' = HoldsCapacity(v)
  BY <1>1 DEF Full, Pressure, Ending, At, Groups, Starved, HoldsCredit, HoldsCapacity
<1>4. ASSUME NEW v \in Workers
      PROVE  InboxTold(v)'
  <2>1. InboxTold(v)
    BY DEF WakeInv
  <2>2. ASSUME NEW r \in Requests, Push(r)
        PROVE  InboxTold(v)'
    <3>1. /\ owner[r] # v => inbox'[v] = inbox[v]
          /\ r \in notifying' /\ notifying \subseteq notifying' /\ owner' = owner
      BY <2>2 DEF Push, TypeInv, QueueTypes
    <3> QED
      BY <1>1, <1>3, <2>1, <3>1 DEF InboxTold
  <2>3. ASSUME NEW r \in Requests, Notify(r)
        PROVE  InboxTold(v)'
    BY <1>3, <2>1, <2>3 DEF InboxTold, Notify, Wake, TypeInv, SubmitTypes
  <2>4. ASSUME NEW r \in Requests, Admit(r)
        PROVE  InboxTold(v)'
    <3>1. inbox' = inbox /\ notifying' = notifying /\ life[r] = "new" /\ lock = NoOne
      BY <2>4 DEF Admit
    <3>2. \A q \in Requests \ {r} : owner'[q] = owner[q]
      BY <2>4 DEF Admit, TypeInv, RequestTypes
    <3>3. r \notin notifying
      BY <3>1 DEF HomeInv, NotifyInv
    <3> QED
      BY <1>1, <1>3, <2>1, <3>1, <3>2, <3>3 DEF InboxTold, TypeInv, SubmitTypes
  <2>5. CASE UNCHANGED <<inbox, notifying, owner>>
    BY <1>1, <1>3, <2>1, <2>5 DEF InboxTold
  <2> QED
    BY <2>2, <2>3, <2>4, <2>5
    DEF OutsideStep, GroupFails, GroupAges, PushFails, TransferEnds, DeadlinePasses,
        ReadyAtPasses, BeginClose, CloseWakes, CloseReturns, outsideUnchanged, Submission, Closing
<1>5. ASSUME NEW v \in Workers
      PROVE  CloseTold(v)'
  <2>1. ASSUME NEW q \in Requests, CloseIsTold(v, q)
        PROVE  CloseIsTold(v, q)'
    <3>1. ASSUME NEW x \in Targets, BeginClose(x)
          PROVE  CloseIsTold(v, q)'
      BY <2>1, <3>1 DEF CloseIsTold, Closed, BeginClose, SetClosing, TypeInv, SubmitTypes
    <3>2. ASSUME NEW x \in Targets, CloseWakes(x)
          PROVE  CloseIsTold(v, q)'
      BY <2>1, <3>2 DEF CloseIsTold, CloseWakes, Wake
    <3>3. ASSUME NEW x \in Targets, CloseReturns(x)
          PROVE  CloseIsTold(v, q)'
      BY <2>1, <3>3, ProfileType DEF CloseIsTold, Closed, CloseReturns, TypeInv, SubmitTypes
    <3>4. CASE UNCHANGED <<closing, closer>>
      BY <1>1, <2>1, <3>4 DEF CloseIsTold, Closed
    <3> QED
      BY <3>1, <3>2, <3>3, <3>4
      DEF OutsideStep, GroupFails, GroupAges, Admit, PushFails, Push, Notify, TransferEnds,
          DeadlinePasses, ReadyAtPasses, outsideUnchanged, Submission, Closing
  <2>2. \A q \in Starved(v) : CloseIsTold(v, q)'
    BY <2>1, StarvedIsQueued DEF WakeInv, CloseTold
  <2>3. ASSUME stage[v] \in {"credit", "full"}
        PROVE  CloseIsTold(v, Head(pending[v]))'
    <3>1. PICK q \in Requests : q = Head(pending[v]) /\ CloseIsTold(v, q)
      BY <2>3, Hands DEF WakeInv, CloseTold
    <3>2. CloseIsTold(v, q)' /\ q = Head(pending'[v])
      BY <1>1, <2>1, <3>1
    <3> QED
      BY <3>2 DEF CloseIsTold, Closed
  <2> QED
    BY <1>1, <1>3, <2>2, <2>3 DEF CloseTold
<1>6. ASSUME NEW v \in Workers
      PROVE  RegistrationOwned(v)' /\ CapacityTold(v)' /\ StarvedTold(v)'
  <2>1. RegistrationOwned(v) /\ CapacityTold(v) /\ StarvedTold(v)
    BY DEF WakeInv
  <2>2. RegistrationOwned(v)'
    BY <1>1, <1>3, <2>1 DEF RegistrationOwned, InPass
  <2>3. CapacityTold(v)'
    BY <1>1, <1>3, <2>1 DEF CapacityTold
  <2>4. StarvedTold(v)'
    BY <1>1, <1>2, <1>3, <2>1 DEF StarvedTold
  <2> QED
    BY <2>2, <2>3, <2>4
<1>7. ReclaimTold'
  BY <1>1, <1>2, <1>3 DEF WakeInv, ReclaimTold
<1> QED
  BY <1>4, <1>5, <1>6, <1>7 DEF WakeInv

LEMMA WorkerNotify ==
  ASSUME TypeInv, LoopInv, HomeInv, CloseInv, CreditInv, NEW w \in Workers,
         WorkerStep(w) \/ ReactorFails(w)
  PROVE  NotifyInv'
<1>1. notifying' = notifying
  BY WorkerTells DEF CreditInv
<1>2. \A q \in Requests : life[q] # "new" => life'[q] # "new"
  <2>1. CASE Retire(w)
    BY <2>1 DEF Retire
  <2> QED
    BY <2>1, LifeSteps DEF TypeInv, RequestTypes
<1> QED
  BY <1>1, <1>2 DEF HomeInv, NotifyInv, TypeInv, SubmitTypes

LEMMA OutsideNotify ==
  ASSUME TypeInv, HomeInv, OutsideStep
  PROVE  NotifyInv'
<1> USE DEF HomeInv, NotifyInv, TypeInv, RequestTypes, SubmitTypes
<1>1. ASSUME NEW r \in Requests, Admit(r) \/ PushFails(r) \/ Push(r)
      PROVE  NotifyInv'
  BY <1>1 DEF Admit, PushFails, Push
<1>2. CASE life' = life /\ notifying' \subseteq notifying
  BY <1>2
<1> QED
  BY <1>1, <1>2
  DEF OutsideStep, GroupFails, GroupAges, Notify, TransferEnds, DeadlinePasses, ReadyAtPasses,
      BeginClose, CloseWakes, CloseReturns, outsideUnchanged, Submission, Closing

-----------------------------------------------------------------------------
(* The invariant                                                           *)

LEMMA Initially == Init => Inv
<1> SUFFICES ASSUME Init
             PROVE  Inv
  OBVIOUS
<1> USE DEF Init
<1>1. TypeInv
  BY ConstantsAssumption
  DEF TypeInv, RequestTypes, SubmitTypes, QueueTypes, GroupTypes, FlagTypes, StageTypes, Lives,
      Stages, Targets, ConstantsAssumption
<1>2. LoopInv
  BY DEF LoopInv, At
<1>3. Elements(<<>>) = {} /\ Distinct(<<>>)
  BY DEF Elements, Distinct
<1>4. Active = {} /\ Outstanding = {} /\ \A w \in Workers : Queued(w) = {} /\ Starved(w) = {}
  BY <1>3 DEF Active, Outstanding, Queued, Starved
<1>5. HomeInv
  BY <1>3, <1>4, ConstantsAssumption
  DEF HomeInv, QueuesApart, QueuedInv, VictimsRun, LivesInv, NotifyInv, ConstantsAssumption
<1>6. CloseInv
  BY <1>4 DEF CloseInv, SealedInv, CloserInv, At
<1>7. CreditInv
  <2>1. Held = {} /\ MaxConnections \in Nat
    BY ConstantsAssumption DEF Held, ConstantsAssumption
  <2>2. CountInv
    BY <2>1, FS_EmptySet DEF CountInv
  <2>3. \A w \in Workers, p \in Profiles : ActiveSet(w, p) = {} /\ shard[w][p] = 0
    BY <1>4 DEF ActiveSet, Running
  <2>4. \A w \in Workers, p \in Profiles : PaidFor(w, p)
    <3>1. IsFiniteSet({}) /\ Cardinality({}) = 0 /\ Cardinality({}) <= 0
      BY FS_EmptySet
    <3> QED
      BY <2>3, <3>1 DEF PaidFor
  <2>5. \A w \in Workers : stage[w] # "start"
    OBVIOUS
  <2>6. RunInv
    BY <2>4, <2>5 DEF RunInv
  <2> QED
    BY <2>2, <2>6 DEF CreditInv
<1>8. WakeInv
  BY <1>4 DEF WakeInv, InboxTold, RegistrationOwned, CloseTold, CapacityTold, StarvedTold,
              ReclaimTold, Pressure, InPass, At
<1> QED
  BY <1>1, <1>2, <1>5, <1>6, <1>7, <1>8 DEF Inv

LEMMA Stepwise == Inv /\ [Next]_vars => Inv'
<1> SUFFICES ASSUME Inv, [Next]_vars
             PROVE  Inv'
  OBVIOUS
<1> USE DEF Inv
<1>1. ASSUME NEW w \in Workers, WorkerStep(w) \/ ReactorFails(w)
      PROVE  Inv'
  <2>1. TypeInv'
    BY <1>1, WorkerRequestTypes, WorkerSubmitTypes, WorkerQueueTypes, WorkerGroupTypes,
       WorkerFlagTypes, WorkerStageTypes DEF TypeInv
  <2>2. LoopInv'
    BY <1>1, WorkerLoop
  <2>3. QueuesApart' /\ QueuedInv' /\ VictimsRun' /\ LivesInv'
    BY <1>1, WorkerQueues, WorkerLives
  <2>4. NotifyInv'
    BY <1>1, WorkerNotify
  <2>5. SealedInv' /\ CloserInv'
    BY <1>1, WorkerSealed, WorkerCloser
  <2>6. CountInv' /\ RunInv'
    BY <1>1, <2>1, WorkerCounts, WorkerRuns DEF CreditInv
  <2>7. WakeInv'
    BY <1>1, WorkerWake
  <2> QED
    BY <2>1, <2>2, <2>3, <2>4, <2>5, <2>6, <2>7 DEF HomeInv, CloseInv, CreditInv
<1>2. ASSUME OutsideStep
      PROVE  Inv'
  <2>1. TypeInv' /\ LoopInv'
    BY <1>2, OutsideTypes, OutsideLoop
  <2>2. QueuesApart' /\ QueuedInv' /\ VictimsRun' /\ LivesInv' /\ NotifyInv'
    BY <1>2, OutsideQueues, OutsideLives, OutsideNotify
  <2>3. CloseInv' /\ CreditInv' /\ WakeInv'
    BY <1>2, OutsideClose, OutsideCredits, OutsideWake
  <2> QED
    BY <2>1, <2>2, <2>3 DEF HomeInv
<1>3. CASE UNCHANGED vars
  <2>1. UNCHANGED <<life, owner, ready, early, late, lock, notifying, closing, closer, inbox,
                    pending, kept, shard, credits, draining, failed, aged, wake, waitingCredit,
                    passCredit, waitingCapacity, passCapacity, stage, back, victims, todo,
                    armed, faults>>
    BY <1>3 DEF vars
  <2>2. TypeInv'
    BY <2>1 DEF TypeInv, RequestTypes, SubmitTypes, QueueTypes, GroupTypes, FlagTypes, StageTypes
  <2>3. /\ Active' = Active /\ Outstanding' = Outstanding /\ Full' = Full /\ Held' = Held
        /\ Pressure' = Pressure /\ Ending' = Ending
        /\ \A w : /\ At(w)' = At(w) /\ Queued(w)' = Queued(w) /\ Running(w)' = Running(w)
                  /\ Groups(w)' = Groups(w) /\ Starved(w)' = Starved(w)
    BY <2>1 DEF At, Queued, Active, Running, Outstanding, Groups, Starved, Full, Held, Pressure,
                Ending
  <2>4. LoopInv' /\ HomeInv' /\ CloseInv'
    BY <2>1, <2>3
    DEF LoopInv, InPass, HomeInv, QueuesApart, QueuedInv, VictimsRun, LivesInv, NotifyInv,
        CloseInv, SealedInv, CloserInv, Drained
  <2>5. CreditInv'
    BY <2>1, <2>3 DEF CreditInv, CountInv, RunInv, PaidFor, HasRoom, ActiveSet
  <2>6. WakeInv'
    BY <2>1, <2>3
    DEF WakeInv, InboxTold, RegistrationOwned, InPass, CloseTold, CloseIsTold, Closed,
        CapacityTold, StarvedTold, HoldsCredit, HoldsCapacity, ReclaimTold
  <2> QED
    BY <2>2, <2>4, <2>5, <2>6
<1> QED
  BY <1>1, <1>2, <1>3 DEF Next, OutsideStep

\* The engine keeps its invariant, whatever its threads, curl, the clock and those
\* who close it do.
THEOREM Invariance == Spec => []Inv
<1> QED
  BY Initially, Stepwise, PTL DEF Spec

-----------------------------------------------------------------------------
(* What the invariant says                                                 *)

LEMMA CountOfOne ==
  ASSUME NEW S, NEW s \in Seq(S), NEW x, Distinct(s)
  PROVE  Cardinality({i \in DOMAIN s : s[i] = x}) = IF x \in Elements(s) THEN 1 ELSE 0
<1>1. CASE x \notin Elements(s)
  <2>1. {i \in DOMAIN s : s[i] = x} = {}
    BY <1>1 DEF Elements
  <2> QED
    BY <1>1, <2>1, FS_EmptySet
<1>2. CASE x \in Elements(s)
  <2>1. PICK i \in DOMAIN s : s[i] = x
    BY <1>2 DEF Elements
  <2>2. {j \in DOMAIN s : s[j] = x} = {i}
    BY <2>1 DEF Distinct
  <2> QED
    BY <1>2, <2>2, FS_Singleton
<1> QED
  BY <1>1, <1>2

LEMMA NoGroupsNoCredits ==
  ASSUME CreditInv, TypeInv, \A v \in Workers : Groups(v) = {}
  PROVE  ~Full
<1>1. \A v \in Workers : \A p \in Profiles : shard[v][p] = 0
  BY DEF Groups, TypeInv, GroupTypes
<1>2. Held = {}
  <2> SUFFICES ASSUME NEW h \in Held
               PROVE  FALSE
    OBVIOUS
  <2>1. /\ h[1] \in Workers /\ h[2] \in Profiles /\ h[3] \in 1..MaxConnections
        /\ h[3] <= shard[h[1]][h[2]]
    BY DEF Held
  <2>2. shard[h[1]][h[2]] = 0
    BY <1>1, <2>1
  <2> QED
    BY <2>1, <2>2, ConstantsAssumption DEF ConstantsAssumption
<1>3. credits = 0
  BY <1>2, FS_EmptySet DEF CreditInv, CountInv
<1> QED
  BY <1>3, ConstantsAssumption DEF Full, ConstantsAssumption

LEMMA StoppedOwnNothing == Inv => StoppedWorkerOwnsNothing
<1> SUFFICES ASSUME Inv, NEW w \in Workers, stage[w] = "stopped"
             PROVE  (\A r \in Outstanding : owner[r] # w) /\ Groups(w) = {}
  BY DEF StoppedWorkerOwnsNothing
<1> USE DEF Inv
<1>1. /\ lock = NoOne /\ inbox[w] = <<>> /\ pending[w] = <<>> /\ Running(w) = {}
      /\ Groups(w) = {}
  BY DEF CloseInv, SealedInv, At
<1>2. kept[w] = <<>>
  BY DEF LoopInv, InPass, At
<1>3. Queued(w) = {}
  BY <1>1, <1>2 DEF Queued, Elements
<1>4. ASSUME NEW r \in Outstanding, owner[r] = w
      PROVE  FALSE
  <2>1. r \in Requests /\ life[r] \in {"admitted", "queued", "running", "answered"}
    BY DEF Outstanding
  <2>2. life[r] # "admitted"
    BY <1>1, <2>1, ConstantsAssumption DEF HomeInv, LivesInv, ConstantsAssumption
  <2>3. life[r] # "queued"
    BY <1>3, <1>4, <2>1 DEF HomeInv, QueuedInv
  <2>4. life[r] # "running"
    BY <1>1, <1>4, <2>1 DEF Running, Active
  <2>5. life[r] # "answered"
    BY <1>4, <2>1 DEF HomeInv, LivesInv
  <2> QED
    BY <2>1, <2>2, <2>3, <2>4, <2>5
<1> QED
  BY <1>1, <1>4

\* The variables of the engine keep their types; the counter of credits, which is
\* decreased by what a group holds when it is removed, never falls below zero.
THEOREM TypeCorrect == Spec => []TypeOK
<1>1. Inv => TypeOK
  <2> SUFFICES ASSUME Inv
               PROVE  TypeOK
    OBVIOUS
  <2>1. credits \in Nat
    BY FS_CardinalityType DEF Inv, CreditInv, CountInv
  <2>2. early \subseteq Requests
    BY ConstantsAssumption DEF Inv, TypeInv, RequestTypes, ConstantsAssumption
  <2> QED
    BY <2>1, <2>2
    DEF Inv, TypeInv, RequestTypes, SubmitTypes, QueueTypes, GroupTypes, FlagTypes, StageTypes,
        TypeOK
<1> QED
  BY <1>1, Invariance, PTL

\* However many workers take, keep and return credits, State::credits is what all
\* their groups hold together, stays within max_connections, and no group runs
\* more requests than it holds credits.
THEOREM CreditsPayForConnectionsAlways == Spec => []CreditsPayForConnections
<1>1. Inv => CreditsPayForConnections
  BY DEF Inv, CreditInv, CountInv, RunInv, PaidFor, CreditsPayForConnections
<1> QED
  BY <1>1, Invariance, PTL

\* A request that Submit accepted is once in one queue of the worker it was given
\* to, until the worker serves, drops or flushes it, and in none before and after.
THEOREM EveryRequestHasOneHomeAlways == Spec => []EveryRequestHasOneHome
<1>1. Inv => EveryRequestHasOneHome
  <2> SUFFICES ASSUME Inv, NEW r \in Requests, NEW w \in Workers
               PROVE  Cardinality({i \in DOMAIN QueueOf(w) : QueueOf(w)[i] = r}) =
                        IF life[r] = "queued" /\ owner[r] = w THEN 1 ELSE 0
    BY DEF EveryRequestHasOneHome
  <2>1. /\ inbox[w] \in Seq(Requests) /\ pending[w] \in Seq(Requests)
        /\ kept[w] \in Seq(Requests)
    BY DEF Inv, TypeInv, QueueTypes
  <2>2. /\ Distinct(inbox[w]) /\ Distinct(pending[w]) /\ Distinct(kept[w])
        /\ Elements(inbox[w]) \cap (Elements(pending[w]) \cup Elements(kept[w])) = {}
        /\ Elements(pending[w]) \cap Elements(kept[w]) = {}
    BY DEF Inv, HomeInv, QueuesApart
  <2>3. /\ inbox[w] \o pending[w] \in Seq(Requests) /\ Distinct(inbox[w] \o pending[w])
        /\ Elements(inbox[w] \o pending[w]) = Elements(inbox[w]) \cup Elements(pending[w])
    <3>1. Elements(inbox[w]) \cap Elements(pending[w]) = {}
      BY <2>2
    <3> QED
      BY <2>1, <2>2, <3>1, ElementsOfConcat, DistinctConcat
  <2>4. /\ QueueOf(w) \in Seq(Requests) /\ Distinct(QueueOf(w))
        /\ Elements(QueueOf(w)) = Queued(w)
    <3>1. Elements(inbox[w] \o pending[w]) \cap Elements(kept[w]) = {}
      BY <2>2, <2>3
    <3>2. PICK q \in Seq(Requests) : q = inbox[w] \o pending[w]
      BY <2>3
    <3>3. QueueOf(w) = q \o kept[w]
      BY <3>2 DEF QueueOf
    <3>4. /\ q \o kept[w] \in Seq(Requests) /\ Distinct(q \o kept[w])
          /\ Elements(q \o kept[w]) = Elements(q) \cup Elements(kept[w])
      <4>1. Distinct(q) /\ Elements(q) \cap Elements(kept[w]) = {}
        BY <2>3, <3>1, <3>2
      <4> QED
        BY <2>1, <2>2, <4>1, ElementsOfConcat, DistinctConcat
    <3> QED
      BY <2>3, <3>2, <3>3, <3>4 DEF Queued
  <2>5. r \in Queued(w) <=> life[r] = "queued" /\ owner[r] = w
    BY DEF Inv, HomeInv, QueuedInv
  <2> QED
    BY <2>4, <2>5, CountOfOne
<1> QED
  BY <1>1, Invariance, PTL

\* A worker whose Run has returned, after Close or after its reactor failed, left
\* no request it was handed unanswered and no connection, and none comes to it
\* afterwards: the flag was set under the mutex under which Submit pushes.
THEOREM StoppedWorkerOwnsNothingAlways == Spec => []StoppedWorkerOwnsNothing
<1> QED
  BY StoppedOwnNothing, Invariance, PTL

\* When CloseSession or Close has returned, what was closed has no request counted,
\* and none is counted again: a Submit that raced the close was waited for.
THEOREM ClosedIsQuietAlways == Spec => []ClosedIsQuiet
<1>1. Inv => ClosedIsQuiet
  <2> SUFFICES ASSUME Inv, NEW x \in Targets, closer[x] = "closed", NEW r \in Outstanding
               PROVE  x # Engine /\ SessionOf[r] # x
    BY DEF ClosedIsQuiet
  <2>1. Drained(x)
    BY DEF Inv, CloseInv, CloserInv
  <2>2. owner[r] \in Workers
    BY DEF Inv, HomeInv, LivesInv, Outstanding
  <2>3. x # Engine
    BY <2>1, <2>2, StoppedOwnNothing DEF Drained, StoppedWorkerOwnsNothing
  <2> QED
    BY <2>1, <2>3 DEF Drained
<1> QED
  BY <1>1, Invariance, PTL

\* A worker at rest is registered for reclaim only while a request of its own
\* waits, and a worker that stopped is not.
THEOREM PressureIsOwnedAlways == Spec => []PressureIsOwned
<1>1. Inv => PressureIsOwned
  BY DEF Inv, TypeInv, FlagTypes, CloseInv, SealedInv, WakeInv, RegistrationOwned, PressureIsOwned
<1> QED
  BY <1>1, Invariance, PTL

LEMMA WokenWhenAsleep == Inv => NoLostWakeup
<1> SUFFICES ASSUME Inv, Asleep, NEW w \in Workers
             PROVE  /\ inbox[w] = <<>>
                    /\ \A r \in Elements(pending[w]) :
                         r \in Delayed \/ (Full /\ Active # {} /\ ~Closed(r))
  BY DEF NoLostWakeup
<1> USE DEF Inv
<1>1. \A v \in Workers : stage[v] = "stopped" \/ (stage[v] = "parked" /\ v \notin wake)
  BY DEF Asleep, Due
<1>2. notifying = {} /\ \A x \in Targets : closer[x] # "begun"
  BY DEF Asleep
<1>3. CASE stage[w] = "stopped"
  BY <1>3 DEF CloseInv, SealedInv, Elements
<1>4. CASE stage[w] = "parked" /\ w \notin wake
  <2>1. inbox[w] = <<>>
    BY <1>2, <1>4 DEF WakeInv, InboxTold, At
  <2>2. ASSUME NEW r \in Elements(pending[w]), r \notin Delayed
        PROVE  Full /\ Active # {} /\ ~Closed(r)
    <3>1. r \in Starved(w)
      BY <1>4, <2>2 DEF Starved
    <3>2. Full
      BY <1>4, <3>1 DEF WakeInv, CapacityTold
    <3>3. ~Closed(r)
      <4>1. r \in Requests
        BY <3>1, StarvedIsQueued
      <4>2. closer[SessionOf[r]] # "begun" /\ closer[Engine] # "begun"
        BY <1>2, <4>1, ProfileType DEF Targets
      <4> QED
        BY <1>4, <3>1, <4>2 DEF WakeInv, CloseTold, CloseIsTold
    <3>4. ASSUME Active = {}
          PROVE  FALSE
      <4>1. HoldsCredit(w)
        BY <1>1, <1>4, <3>1, <3>4 DEF WakeInv, StarvedTold, Ending
      <4>2. Pressure
        BY <4>1 DEF HoldsCredit, Pressure
      <4>3. \A v \in Workers : Groups(v) = {}
        BY <1>1, <3>2, <3>4, <4>2 DEF WakeInv, ReclaimTold, CloseInv, SealedInv
      <4> QED
        BY <3>2, <4>3, NoGroupsNoCredits
    <3> QED
      BY <3>2, <3>3, <3>4
  <2> QED
    BY <2>1, <2>2
<1> QED
  BY <1>1, <1>3, <1>4

\* No wake-up of a request without ready_at is lost, for any workers, limits,
\* closings and faults, and whatever ready_at other requests were given.
THEOREM NoLostWakeupAlways == Spec => []NoLostWakeup
<1> QED
  BY WokenWhenAsleep, Invariance, PTL
=============================================================================
