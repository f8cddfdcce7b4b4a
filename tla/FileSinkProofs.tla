--------------------------- MODULE FileSinkProofs ---------------------------
(***************************************************************************)
(* Proofs about FileSink, for every length of the body, every chunk size,  *)
(* every io_depth and every number of faults.                              *)
(***************************************************************************)
EXTENDS FileSink, Integers, FiniteSetTheorems, TLAPS

USE SinkAssumption DEF SinkAssumption

-----------------------------------------------------------------------------
(* The inductive invariant                                                 *)

\* The end of the body that was handed to the ring so far.
Handed == accepted - active

\* The pieces the completion thread has in its hands: one it was given to
\* submit, and one whose completion it works on.
NextOf   == IF completer.pc \in {"signal", "next"} /\ completer.next # NoPiece
            THEN {completer.next} ELSE {}
LookedAt == IF completer.pc \in {"look", "account"} THEN {completer.piece} ELSE {}

RealPieces == {p \in Pieces : p.len > 0}

TransportStates ==
  [pc : {"open", "submit", "undo", "last", "undo last", "finalize", "retire", "ended"},
   pieces : SUBSET RealPieces, finalize : BOOLEAN]
CompleterStates ==
  [pc : {"idle", "look", "account", "signal", "next", "undo"}, piece : Pieces,
   ok : BOOLEAN, signal : {"none", "resume", "fail"}, next : Pieces, finalize : BOOLEAN]
UserStates ==
  [pc : {"ready", "signal", "finalize", "over"}, signal : BOOLEAN, finalize : BOOLEAN]

\* The threads that finalize.
Callers == {"transport", "completion thread", "detached thread", "user"}

TypeInv ==
  /\ accepted \in 0 .. Length /\ active \in 0 .. ChunkSize /\ active <= accepted
  /\ completed \in Nat
  /\ inflight \subseteq RealPieces /\ IsFiniteSet(inflight) /\ Cardinality(inflight) <= IoDepth
  /\ abandoned \subseteq RealPieces
  /\ kernel \subseteq RealPieces /\ live \subseteq kernel /\ file \subseteq Body
  /\ waiting \in BOOLEAN /\ known \in BOOLEAN /\ failed \in BOOLEAN
  /\ canceled \in BOOLEAN /\ callback \in BOOLEAN
  /\ finished \in {"no", "ok", "error"}
  /\ answers \in Seq([ok : BOOLEAN, by : Callers])
  /\ event \in {"clear", "paused", "failed", "gone"}
  /\ transport \in TransportStates /\ completer \in CompleterStates /\ user \in UserStates
  /\ LookedAt \subseteq RealPieces /\ NextOf \subseteq RealPieces
  /\ LookedAt # {} => completer.next = NoPiece
  /\ finalizers \in Nat /\ faults \in 0 .. MaxFaults

\* A piece begins where the one handed over before it ends, so that two pieces
\* never overlap; each is with one thread or in the ring, once.
PlaceInv ==
  /\ \A p \in inflight \cup abandoned \cup LookedAt : p.at + p.len <= Handed
  /\ \A p, q \in inflight : p = q \/ p.at + p.len <= q.at \/ q.at + q.len <= p.at
  /\ kernel \cup transport.pieces \cup NextOf \subseteq inflight \cup abandoned
  /\ kernel \cap (transport.pieces \cup NextOf \cup LookedAt) = {}
  /\ transport.pieces \cap (NextOf \cup LookedAt) = {}
  /\ transport.pc \in {"submit", "last"} \/ transport.pieces = {}
  /\ ~ failed => abandoned = {} /\ ~ canceled

\* What was completed and what is in flight is what was handed over, and what is
\* neither in flight nor in active_write_ is on the disk.
ByteInv ==
  /\ completed + Cardinality(AllOf(inflight)) <= Handed
  /\ ~ failed /\ finished # "error" =>
       /\ completed + Cardinality(AllOf(inflight)) = Handed
       /\ \A c \in 0 .. Handed - 1 : c \in AllOf(inflight) \/ c \in file
  /\ completer.ok => \A p \in LookedAt \cap inflight : Cells(p) \subseteq file

\* A result is given once, after the body has ended; a success leaves nothing
\* that could still write.
AnswerInv ==
  /\ finished = "no" <=> transport.pc \in {"open", "submit", "undo"}
  /\ finished = "ok" => accepted = Length
  /\ callback => answers = <<>> /\ finished # "no"
  /\ Len(answers) <= 1
  /\ answers # <<>> => Quiet
  /\ \A i \in 1 .. Len(answers) : answers[i].ok =>
       /\ file = Body /\ completed = Length
       /\ kernel = {} /\ transport.pieces = {} /\ NextOf = {}

Inv == TypeInv /\ PlaceInv /\ ByteInv /\ AnswerInv

-----------------------------------------------------------------------------
(* Lemmas about the operators                                              *)

LEMMA MinOfTwo ==
  ASSUME NEW a \in Int, NEW b \in Int
  PROVE  Min({a, b}) = IF a <= b THEN a ELSE b
<1> DEFINE m == IF a <= b THEN a ELSE b
<1>1. m \in {a, b} /\ \A y \in {a, b} : m <= y
  OBVIOUS
<1>2. \A z \in {a, b} : (\A y \in {a, b} : z <= y) => z = m
  OBVIOUS
<1> QED
  BY <1>1, <1>2 DEF Min

LEMMA PieceFields ==
  ASSUME NEW p \in RealPieces
  PROVE  /\ p = Piece(p.at, p.len)
         /\ p.at \in 0 .. Length /\ p.len \in 1 .. ChunkSize /\ p.at + p.len <= Length
BY DEF RealPieces, Pieces, Piece

LEMMA PieceType ==
  ASSUME NEW at \in Nat, NEW len \in 1 .. ChunkSize, at + len <= Length
  PROVE  /\ Piece(at, len) \in RealPieces /\ Piece(at, len) # NoPiece
         /\ Piece(at, len).at = at /\ Piece(at, len).len = len
BY DEF RealPieces, Pieces, Piece, NoPiece

LEMMA NoPieceType == NoPiece \in Pieces
BY DEF Pieces, Piece, NoPiece

\* The units of a piece.
LEMMA CellsOfPiece ==
  ASSUME NEW p \in RealPieces
  PROVE  /\ Cells(p) \subseteq Body /\ IsFiniteSet(Cells(p)) /\ Cardinality(Cells(p)) = p.len
         /\ \A c \in Int : c \in Cells(p) <=> p.at <= c /\ c < p.at + p.len
<1>1. p.at \in 0 .. Length /\ p.len \in 1 .. ChunkSize /\ p.at + p.len <= Length
  BY PieceFields
<1>2. p.at + p.len - 1 \in Int
  BY <1>1
<1>3. IsFiniteSet(Cells(p)) /\ Cardinality(Cells(p)) = p.len
  <2> DEFINE first == p.at
             last  == p.at + p.len - 1
  <2>1. first \in Int /\ last \in Int /\ ~ first > last /\ last - first + 1 = p.len
    BY <1>1
  <2> HIDE DEF first, last
  <2>2. IsFiniteSet(first .. last) /\ Cardinality(first .. last) = p.len
    BY <2>1, FS_Interval
  <2> QED
    BY <2>2 DEF Cells, first, last
<1>4. Cells(p) \subseteq Body /\ \A c \in Int : c \in Cells(p) <=> p.at <= c /\ c < p.at + p.len
  BY <1>1 DEF Cells, Body
<1> QED
  BY <1>3, <1>4

LEMMA AllOfType ==
  ASSUME NEW ps \in SUBSET RealPieces
  PROVE  /\ AllOf(ps) \subseteq Body /\ IsFiniteSet(AllOf(ps))
         /\ Cardinality(AllOf(ps)) \in Nat
<1>1. AllOf(ps) \subseteq Body
  BY CellsOfPiece DEF AllOf
<1>2. IsFiniteSet(Body)
  BY FS_Interval DEF Body
<1>3. IsFiniteSet(AllOf(ps))
  BY <1>1, <1>2, FS_Subset
<1> QED
  BY <1>1, <1>3, FS_CardinalityType

\* Pieces that begin where others end add their units.
LEMMA AllOfDisjointUnion ==
  ASSUME NEW ps \in SUBSET RealPieces, NEW qs \in SUBSET RealPieces, NEW mid \in Nat,
         \A p \in ps : p.at + p.len <= mid, \A q \in qs : mid <= q.at
  PROVE  /\ AllOf(ps \cup qs) = AllOf(ps) \cup AllOf(qs)
         /\ AllOf(ps) \cap AllOf(qs) = {}
         /\ Cardinality(AllOf(ps \cup qs)) = Cardinality(AllOf(ps)) + Cardinality(AllOf(qs))
<1>1. AllOf(ps \cup qs) = AllOf(ps) \cup AllOf(qs)
  BY DEF AllOf
<1>2. ASSUME NEW c \in AllOf(ps), c \in AllOf(qs) PROVE FALSE
  <2>1. PICK p \in ps : c \in Cells(p)
    BY DEF AllOf
  <2>2. PICK q \in qs : c \in Cells(q)
    BY <1>2 DEF AllOf
  <2>3. c \in Nat
    BY <2>1, CellsOfPiece DEF Body
  <2> QED
    BY <2>1, <2>2, <2>3, CellsOfPiece, PieceFields
<1>3. AllOf(ps) \cap AllOf(qs) = {}
  BY <1>2
<1>4. Cardinality(AllOf(ps) \cap AllOf(qs)) = 0
  BY <1>3, FS_EmptySet
<1>5. Cardinality(AllOf(ps) \cup AllOf(qs)) = Cardinality(AllOf(ps)) + Cardinality(AllOf(qs)) - 0
  BY <1>4, FS_Union, AllOfType
<1>6. Cardinality(AllOf(ps)) \in Nat /\ Cardinality(AllOf(qs)) \in Nat
  BY AllOfType
<1>7. Cardinality(AllOf(ps) \cup AllOf(qs)) = Cardinality(AllOf(ps)) + Cardinality(AllOf(qs))
  BY <1>5, <1>6
<1>8. Cardinality(AllOf(ps \cup qs)) = Cardinality(AllOf(ps) \cup AllOf(qs))
  BY <1>1
<1> QED
  BY <1>1, <1>3, <1>7, <1>8

\* A piece that overlaps no other leaves with its units.
LEMMA AllOfRemove ==
  ASSUME NEW ps \in SUBSET RealPieces, NEW p \in ps,
         \A q \in ps : q = p \/ p.at + p.len <= q.at \/ q.at + q.len <= p.at
  PROVE  /\ AllOf(ps \ {p}) = AllOf(ps) \ Cells(p)
         /\ Cells(p) \subseteq AllOf(ps)
         /\ Cardinality(AllOf(ps \ {p})) = Cardinality(AllOf(ps)) - p.len
<1>1. Cells(p) \subseteq AllOf(ps)
  BY DEF AllOf
<1>2. ASSUME NEW q \in ps \ {p}, NEW c \in Cells(q) PROVE c \notin Cells(p)
  <2>1. c \in Nat
    BY CellsOfPiece DEF Body
  <2> QED
    BY <2>1, CellsOfPiece, PieceFields
<1>3. AllOf(ps \ {p}) = AllOf(ps) \ Cells(p)
  BY <1>2 DEF AllOf
<1>4. AllOf(ps) \cap Cells(p) = Cells(p)
  BY <1>1
<1>5. Cardinality(AllOf(ps) \ Cells(p)) = Cardinality(AllOf(ps)) - Cardinality(Cells(p))
  BY <1>4, FS_Difference, AllOfType
<1> QED
  BY <1>1, <1>3, <1>5, CellsOfPiece

LEMMA AllOfEmpty == AllOf({}) = {} /\ Cardinality(AllOf({})) = 0
BY FS_EmptySet DEF AllOf

LEMMA AllOfOne ==
  ASSUME NEW p \in RealPieces
  PROVE  AllOf({p}) = Cells(p) /\ Cardinality(AllOf({p})) = p.len
BY CellsOfPiece DEF AllOf

\* The whole pieces Write takes lie end to end.
Row(base, whole) == {Piece(base + i * ChunkSize, ChunkSize) : i \in 0 .. whole - 1}

LEMMA RowMember ==
  ASSUME NEW base \in Nat, NEW whole \in Nat, base + whole * ChunkSize <= Length,
         NEW i \in 0 .. whole - 1
  PROVE  /\ i * ChunkSize \in Nat /\ i * ChunkSize + ChunkSize <= whole * ChunkSize
         /\ Piece(base + i * ChunkSize, ChunkSize) \in RealPieces
<1>1. whole = i + 1 + (whole - i - 1) /\ whole - i - 1 \in Nat /\ i \in Nat
  OBVIOUS
<1>2. whole * ChunkSize = i * ChunkSize + ChunkSize + (whole - i - 1) * ChunkSize
  BY <1>1
<1>3. i * ChunkSize \in Nat /\ (whole - i - 1) * ChunkSize \in Nat /\ whole * ChunkSize \in Nat
  BY <1>1
<1>4. i * ChunkSize + ChunkSize <= whole * ChunkSize
  BY <1>2, <1>3
<1>5. base + i * ChunkSize \in Nat /\ base + i * ChunkSize + ChunkSize <= Length
  BY <1>3, <1>4
<1> QED
  BY <1>3, <1>4, <1>5, PieceType

LEMMA RowShape ==
  ASSUME NEW base \in Nat, NEW whole \in Nat, base + whole * ChunkSize <= Length
  PROVE  /\ Row(base, whole) \subseteq RealPieces
         /\ \A p \in Row(base, whole) : base <= p.at /\ p.at + p.len <= base + whole * ChunkSize
         /\ \A p, q \in Row(base, whole) : p = q \/ p.at + p.len <= q.at \/ q.at + q.len <= p.at
<1>1. ASSUME NEW p \in Row(base, whole)
      PROVE  p \in RealPieces /\ base <= p.at /\ p.at + p.len <= base + whole * ChunkSize
  <2>1. PICK i \in 0 .. whole - 1 : p = Piece(base + i * ChunkSize, ChunkSize)
    BY DEF Row
  <2>2. p.at = base + i * ChunkSize /\ p.len = ChunkSize
    BY <2>1 DEF Piece
  <2> DEFINE before == i * ChunkSize
             size   == whole * ChunkSize
  <2>3. before \in Nat /\ before + ChunkSize <= size /\ p \in RealPieces /\ size \in Nat
    <3>1. before \in Nat /\ before + ChunkSize <= size
      BY RowMember
    <3>2. p \in RealPieces
      BY <2>1, RowMember
    <3>3. size \in Nat
      OBVIOUS
    <3> QED
      BY <3>1, <3>2, <3>3
  <2>4. p.at = base + before
    BY <2>2
  <2> HIDE DEF before, size
  <2>5. base <= p.at /\ p.at + p.len <= base + size
    BY <2>2, <2>3, <2>4
  <2> QED
    BY <2>3, <2>5 DEF size
<1>2. ASSUME NEW p \in Row(base, whole), NEW q \in Row(base, whole)
      PROVE  p = q \/ p.at + p.len <= q.at \/ q.at + q.len <= p.at
  <2>1. PICK i \in 0 .. whole - 1 : p = Piece(base + i * ChunkSize, ChunkSize)
    BY DEF Row
  <2>2. PICK j \in 0 .. whole - 1 : q = Piece(base + j * ChunkSize, ChunkSize)
    BY DEF Row
  <2>3. /\ p.at = base + i * ChunkSize /\ p.len = ChunkSize
        /\ q.at = base + j * ChunkSize /\ q.len = ChunkSize
        /\ i * ChunkSize \in Nat /\ j * ChunkSize \in Nat
    BY <2>1, <2>2, RowMember DEF Piece
  <2>4. CASE i = j
    BY <2>1, <2>2, <2>4
  <2>5. CASE i < j
    <3>1. j = i + 1 + (j - i - 1) /\ j - i - 1 \in Nat
      BY <2>5
    <3>2. j * ChunkSize = i * ChunkSize + ChunkSize + (j - i - 1) * ChunkSize
      BY <3>1
    <3>3. (j - i - 1) * ChunkSize \in Nat
      BY <3>1
    <3> QED
      BY <2>3, <3>2, <3>3
  <2>6. CASE j < i
    <3>1. i = j + 1 + (i - j - 1) /\ i - j - 1 \in Nat
      BY <2>6
    <3>2. i * ChunkSize = j * ChunkSize + ChunkSize + (i - j - 1) * ChunkSize
      BY <3>1
    <3>3. (i - j - 1) * ChunkSize \in Nat
      BY <3>1
    <3> QED
      BY <2>3, <3>2, <3>3
  <2> QED
    BY <2>4, <2>5, <2>6
<1> QED
  BY <1>1, <1>2

LEMMA RowSize ==
  ASSUME NEW base \in Nat, NEW whole \in Nat
  PROVE  IsFiniteSet(Row(base, whole)) /\ Cardinality(Row(base, whole)) <= whole
<1> DEFINE places == 0 .. whole - 1
           f == [i \in places |-> Piece(base + i * ChunkSize, ChunkSize)]
<1>1. f \in Surjection(places, Row(base, whole))
  BY DEF Surjection, Row
<1>2. IsFiniteSet(places) /\ Cardinality(places) <= whole
  <2> DEFINE last == whole - 1
  <2>1. last \in Int /\ (0 > last => whole >= 0) /\ last - 0 + 1 <= whole
    OBVIOUS
  <2> HIDE DEF last
  <2>2. IsFiniteSet(0 .. last) /\ Cardinality(0 .. last) = IF 0 > last THEN 0 ELSE last - 0 + 1
    BY <2>1, FS_Interval
  <2>3. IsFiniteSet(0 .. last) /\ Cardinality(0 .. last) <= whole
    BY <2>1, <2>2
  <2> QED
    BY <2>3 DEF last
<1> HIDE DEF places, f
<1>3. IsFiniteSet(Row(base, whole)) /\ Cardinality(Row(base, whole)) <= Cardinality(places)
  BY <1>1, <1>2, FS_Surjection
<1> QED
  BY <1>2, <1>3, FS_CardinalityType

\* Together they hold every unit from the first to the last, once.
LEMMA RowCells ==
  ASSUME NEW base \in Nat, NEW whole \in Nat, base + whole * ChunkSize <= Length
  PROVE  /\ AllOf(Row(base, whole)) = base .. base + whole * ChunkSize - 1
         /\ Cardinality(AllOf(Row(base, whole))) = whole * ChunkSize
<1> DEFINE size == whole * ChunkSize
           last == base + size - 1
<1>1. size \in Nat /\ last \in Int
  OBVIOUS
<1>2. ASSUME NEW c \in AllOf(Row(base, whole)) PROVE c \in base .. last
  <2>1. PICK p \in Row(base, whole) : c \in Cells(p)
    BY DEF AllOf
  <2>2. p \in RealPieces /\ base <= p.at /\ p.at + p.len <= base + size
    BY RowShape
  <2>3. c \in Nat
    BY <2>1, <2>2, CellsOfPiece DEF Body
  <2>4. p.at <= c /\ c < p.at + p.len
    BY <2>1, <2>2, <2>3, CellsOfPiece
  <2> QED
    BY <1>1, <2>2, <2>3, <2>4, PieceFields
<1>3. ASSUME NEW c \in base .. last PROVE c \in AllOf(Row(base, whole))
  <2> DEFINE d == c - base
             i == d \div ChunkSize
  <2>1. d \in Nat /\ d < size
    BY <1>1
  <2>2. /\ i \in Nat /\ ChunkSize * i <= d /\ d < ChunkSize * i + ChunkSize
    BY <2>1
  <2>3. ASSUME i >= whole PROVE FALSE
    <3>1. i = whole + (i - whole) /\ i - whole \in Nat
      BY <2>2, <2>3
    <3>2. ChunkSize * i = size + (i - whole) * ChunkSize
      BY <2>2, <3>1
    <3>3. (i - whole) * ChunkSize \in Nat
      BY <3>1
    <3> QED
      BY <1>1, <2>1, <2>2, <3>2, <3>3
  <2>4. i \in 0 .. whole - 1
    BY <2>2, <2>3
  <2> DEFINE p == Piece(base + i * ChunkSize, ChunkSize)
  <2>5. p \in Row(base, whole) /\ p \in RealPieces
    BY <2>4, RowMember DEF Row
  <2>6. p.at = base + i * ChunkSize /\ p.len = ChunkSize /\ ChunkSize * i = i * ChunkSize
    BY <2>2 DEF Piece
  <2> HIDE DEF i, p
  <2>7. p.at <= c /\ c < p.at + p.len
    BY <2>1, <2>2, <2>6
  <2>8. c \in Cells(p)
    BY <2>5, <2>7, CellsOfPiece
  <2> QED
    BY <2>5, <2>8 DEF AllOf
<1> HIDE DEF size
<1>4. AllOf(Row(base, whole)) = base .. last
  <2>1. AllOf(Row(base, whole)) \subseteq base .. last
    BY <1>2
  <2>2. base .. last \subseteq AllOf(Row(base, whole))
    BY <1>3
  <2> QED
    BY <2>1, <2>2
<1>5. Cardinality(base .. last) = size
  <2>1. (base > last => size = 0) /\ last - base + 1 = size
    BY <1>1
  <2> HIDE DEF last
  <2> QED
    BY <1>1, <2>1, FS_Interval
<1>6. Cardinality(AllOf(Row(base, whole))) = size
  BY <1>4, <1>5
<1> QED
  BY <1>4, <1>6 DEF size, last

LEMMA RowEmpty ==
  ASSUME NEW base \in Nat
  PROVE  Row(base, 0) = {}
BY DEF Row

-----------------------------------------------------------------------------
(* Initial states, and the operators several actions share                 *)

LEMMA InitInv == Init => Inv
<1> SUFFICES ASSUME Init PROVE Inv
  OBVIOUS
<1>1. TypeInv
  <2>1. transport \in TransportStates /\ completer \in CompleterStates /\ user \in UserStates
    BY NoPieceType DEF Init, TransportStates, CompleterStates, UserStates, Idle
  <2>2. LookedAt = {} /\ NextOf = {}
    BY DEF Init, LookedAt, NextOf, Idle
  <2>3. IsFiniteSet(inflight) /\ Cardinality(inflight) <= IoDepth
    BY FS_EmptySet DEF Init
  <2>4. answers \in Seq([ok : BOOLEAN, by : Callers])
    BY DEF Init
  <2>5. accepted \in 0 .. Length /\ active \in 0 .. ChunkSize /\ active <= accepted
    BY DEF Init
  <2>6. completed \in Nat /\ finalizers \in Nat /\ faults \in 0 .. MaxFaults
    BY DEF Init
  <2> QED
    BY <2>1, <2>2, <2>3, <2>4, <2>5, <2>6 DEF Init, TypeInv
<1>2. PlaceInv
  BY DEF Init, PlaceInv, LookedAt, NextOf, Idle
<1>3. ByteInv
  BY AllOfEmpty DEF Init, ByteInv, LookedAt, Idle, Handed
<1>4. AnswerInv
  BY DEF Init, AnswerInv
<1> QED
  BY <1>1, <1>2, <1>3, <1>4 DEF Inv

LEMMA StutterInv == Inv /\ UNCHANGED vars => Inv'
<1> SUFFICES ASSUME Inv, UNCHANGED vars PROVE Inv'
  OBVIOUS
<1>1. UNCHANGED <<sink, kernel, live, file, event, transport, completer, finalizers, user, faults>>
  BY DEF vars, ring, threads
<1>2. NextOf' = NextOf /\ LookedAt' = LookedAt /\ Handed' = Handed /\ Quiet' = Quiet
  BY <1>1 DEF NextOf, LookedAt, Handed, Quiet, sink
<1>3. TypeInv'
  BY <1>1, <1>2 DEF Inv, TypeInv, sink
<1>4. PlaceInv' /\ ByteInv'
  BY <1>1, <1>2 DEF Inv, PlaceInv, ByteInv, sink
<1>5. AnswerInv'
  BY <1>1, <1>2 DEF Inv, AnswerInv, sink
<1> QED
  BY <1>3, <1>4, <1>5 DEF Inv

LEMMA SignalType ==
  ASSUME TypeInv, NEW what \in {"none", "resume", "fail"}, Signal(what)
  PROVE  event' \in {"clear", "paused", "failed", "gone"}
BY DEF TypeInv, Signal

\* What Finalize may change, if it is due at all: the file loses what lies past
\* the bytes that were completed, the result may turn into a failure, and the
\* callback is answered.
LEMMA FinalizeEffect ==
  ASSUME Inv, NEW by \in Callers, Finalize(by) \/ UNCHANGED <<sink, file, faults>>
  PROVE  /\ UNCHANGED <<accepted, active, inflight, abandoned, completed, waiting, known,
                        canceled, finished>>
         /\ failed' \in BOOLEAN /\ (failed => failed')
         /\ callback' \in BOOLEAN /\ (callback' => callback) /\ faults' \in 0 .. MaxFaults
         /\ \/ file' = file
            \/ Quiet /\ ~ failed /\ finished = "ok" /\ file' = {c \in file : c < completed}
         /\ \/ answers' = answers
            \/ /\ Quiet /\ callback /\ ~ callback'
               /\ \E a \in [ok : BOOLEAN, by : Callers] : a.ok = ~ failed' /\ answers' = Append(answers, a)
               /\ failed' \/ (~ failed /\ finished = "ok" /\ file' = {c \in file : c < completed})
<1>1. CASE UNCHANGED <<sink, file, faults>>
  BY <1>1 DEF sink, Inv, TypeInv
<1>2. CASE Finalize(by) /\ Quiet
  <2> DEFINE a == [ok |-> ~ failed', by |-> by]
  <2>1. /\ failed' \in BOOLEAN /\ (failed => failed') /\ callback' = FALSE
        /\ UNCHANGED <<accepted, active, inflight, abandoned, completed, waiting, known,
                       canceled, finished>>
        /\ answers' = IF callback THEN Append(answers, a) ELSE answers
    BY <1>2 DEF Finalize, Inv, TypeInv
  <2>2. a \in [ok : BOOLEAN, by : Callers] /\ a.ok = ~ failed'
    OBVIOUS
  <2> HIDE DEF a
  <2>3. faults' \in 0 .. MaxFaults
    BY <1>2 DEF Finalize, Fault, Inv, TypeInv
  <2>4. \/ file' = file /\ failed'
        \/ ~ failed /\ finished = "ok" /\ file' = {c \in file : c < completed}
    BY <1>2 DEF Finalize, Inv, TypeInv
  <2>5. callback \in BOOLEAN
    BY DEF Inv, TypeInv
  <2> QED
    BY <1>2, <2>1, <2>2, <2>3, <2>4, <2>5
<1>3. CASE Finalize(by) /\ ~ Quiet
  BY <1>3 DEF Finalize, Inv, TypeInv, sink
<1> QED
  BY <1>1, <1>2, <1>3

\* When a transfer without a failure is quiet, the whole body is on the disk.
LEMMA QuietIsComplete ==
  ASSUME Inv, Quiet, ~ failed, finished = "ok"
  PROVE  completed = Length /\ file = Body /\ {c \in file : c < completed} = Body
<1>1. AllOf(inflight) = {} /\ Cardinality(AllOf(inflight)) = 0 /\ Handed = Length
  BY AllOfEmpty DEF Quiet, Inv, AnswerInv, TypeInv, Handed
<1>2. completed = Length /\ \A c \in 0 .. Length - 1 : c \in file
  BY <1>1 DEF Inv, ByteInv, TypeInv
<1>3. file = Body
  BY <1>2 DEF Inv, TypeInv, Body
<1> QED
  BY <1>2, <1>3 DEF Body

\* Finalize, on whichever thread, keeps the invariant.
LEMMA FinalizeInv ==
  ASSUME Inv, NEW by \in Callers, Finalize(by) \/ UNCHANGED <<sink, file, faults>>,
         UNCHANGED <<kernel, live, event>>,
         transport' \in TransportStates, completer' \in CompleterStates,
         user' \in UserStates, finalizers' \in Nat,
         transport'.pieces = transport.pieces,
         transport'.pc \in {"submit", "last"} <=> transport.pc \in {"submit", "last"},
         transport'.pc \in {"open", "submit", "undo"} <=> transport.pc \in {"open", "submit", "undo"},
         NextOf' = NextOf, LookedAt' = LookedAt, completer' = completer \/ LookedAt = {}
  PROVE  Inv'
<1>1. /\ UNCHANGED <<accepted, active, inflight, abandoned, completed, waiting, known,
                     canceled, finished>>
      /\ failed' \in BOOLEAN /\ (failed => failed')
      /\ callback' \in BOOLEAN /\ (callback' => callback) /\ faults' \in 0 .. MaxFaults
  BY FinalizeEffect
<1>2. \/ file' = file
      \/ Quiet /\ ~ failed /\ finished = "ok" /\ file' = {c \in file : c < completed}
  BY FinalizeEffect
<1>3. \/ answers' = answers
      \/ /\ Quiet /\ callback /\ ~ callback'
         /\ \E a \in [ok : BOOLEAN, by : Callers] : a.ok = ~ failed' /\ answers' = Append(answers, a)
         /\ failed' \/ (~ failed /\ finished = "ok" /\ file' = {c \in file : c < completed})
  BY FinalizeEffect
<1>4. file' = file
  BY <1>2, QuietIsComplete
<1>5. TypeInv'
  <2>1. answers' \in Seq([ok : BOOLEAN, by : Callers])
    <3>1. answers \in Seq([ok : BOOLEAN, by : Callers])
      BY DEF Inv, TypeInv
    <3>2. CASE answers' # answers
      <4>1. PICK a \in [ok : BOOLEAN, by : Callers] : answers' = Append(answers, a)
        BY <1>3, <3>2
      <4> QED
        BY <3>1, <4>1
    <3> QED
      BY <3>1, <3>2
  <2> QED
    BY <1>1, <1>4, <2>1 DEF Inv, TypeInv
<1>6. PlaceInv'
  BY <1>1 DEF Inv, PlaceInv, Handed
<1>7. ByteInv'
  BY <1>1, <1>4 DEF Inv, ByteInv, Handed
<1>8. AnswerInv'
  <2>1. CASE answers' = answers
    BY <1>1, <1>4, <2>1 DEF Inv, AnswerInv, Quiet
  <2>2. CASE answers' # answers
    <3>0. PICK a \in [ok : BOOLEAN, by : Callers] :
            a.ok = ~ failed' /\ answers' = Append(answers, a)
      BY <1>3, <2>2
    <3>1. /\ Quiet /\ callback /\ ~ callback' /\ answers = <<>>
          /\ failed' \/ (~ failed /\ finished = "ok" /\ file' = {c \in file : c < completed})
      BY <1>3, <2>2 DEF Inv, AnswerInv
    <3>2. ASSUME ~ failed'
          PROVE  file' = Body /\ completed = Length /\ kernel = {} /\ transport.pieces = {} /\ NextOf = {}
      <4>1. ~ failed /\ finished = "ok" /\ inflight = {} /\ abandoned = {}
        BY <3>1, <3>2 DEF Quiet, Inv, PlaceInv
      <4> QED
        BY <1>4, <3>1, <4>1, QuietIsComplete DEF Inv, PlaceInv
    <3>3. Len(answers') = 1 /\ answers'[1].ok = ~ failed'
      BY <3>0, <3>1
    <3>4. \A i \in 1 .. Len(answers') : answers'[i].ok =>
             file' = Body /\ completed' = Length /\ kernel' = {} /\ transport'.pieces = {} /\ NextOf' = {}
      <4> SUFFICES ASSUME NEW i \in 1 .. Len(answers'), answers'[i].ok
                   PROVE  /\ file' = Body /\ completed' = Length
                          /\ kernel' = {} /\ transport'.pieces = {} /\ NextOf' = {}
        OBVIOUS
      <4>1. i = 1
        BY <3>3
      <4>2. ~ failed'
        BY <3>3, <4>1
      <4> QED
        BY <1>1, <3>2, <4>2
    <3> QED
      BY <1>1, <3>1, <3>3, <3>4 DEF Inv, AnswerInv, Quiet
  <2> QED
    BY <2>1, <2>2
<1> QED
  BY <1>5, <1>6, <1>7, <1>8 DEF Inv

\* Pieces that go into the ring leave the thread that had them.
LEMMA SubmitInv ==
  ASSUME Inv, NEW ps \in SUBSET (transport.pieces \cup NextOf),
         kernel' = kernel \cup ps, live' = live \cup ps,
         UNCHANGED <<file, sink, event, faults, finalizers, user>>,
         transport' \in TransportStates, completer' \in CompleterStates,
         transport'.pieces = transport.pieces \ ps, NextOf' = NextOf \ ps, LookedAt' = LookedAt,
         transport'.pc \in {"submit", "last"} \/ transport'.pieces = {},
         transport'.pc \in {"open", "submit", "undo"} <=> transport.pc \in {"open", "submit", "undo"},
         completer' = completer \/ LookedAt = {}
  PROVE  Inv'
<1>1. TypeInv'
  BY DEF Inv, TypeInv, sink, TransportStates
<1>2. PlaceInv'
  <2>1. /\ kernel \cup transport.pieces \cup NextOf \subseteq inflight \cup abandoned
        /\ kernel \cap (transport.pieces \cup NextOf \cup LookedAt) = {}
        /\ transport.pieces \cap (NextOf \cup LookedAt) = {}
        /\ NextOf \cap LookedAt = {}
    BY DEF Inv, PlaceInv, NextOf, LookedAt
  <2>2. /\ kernel' \cup transport'.pieces \cup NextOf' \subseteq inflight \cup abandoned
        /\ kernel' \cap (transport'.pieces \cup NextOf' \cup LookedAt') = {}
        /\ transport'.pieces \cap (NextOf' \cup LookedAt') = {}
    BY <2>1
  <2>3. Handed' = Handed /\ UNCHANGED <<inflight, abandoned, failed, canceled>>
    BY DEF sink, Handed
  <2> QED
    BY <2>2, <2>3 DEF Inv, PlaceInv
<1>3. ByteInv'
  BY DEF Inv, ByteInv, sink, Handed
<1>4. AnswerInv'
  <2>1. (answers # <<>> => Quiet)'
    BY DEF Inv, AnswerInv, sink, Quiet
  <2> QED
    BY <2>1 DEF Inv, AnswerInv, sink
<1> QED
  BY <1>1, <1>2, <1>3, <1>4 DEF Inv

LEMMA SubmitFailsEffect ==
  ASSUME NEW ps, SubmitFails(ps), live \subseteq kernel
  PROVE  kernel' \subseteq kernel \cup ps /\ live' \subseteq kernel' /\ file' = file
BY DEF SubmitFails, ring

\* FailWrite gives up what is in flight.
LEMMA FailWriteInv ==
  ASSUME Inv, NEW ps \in SUBSET (transport.pieces \cup NextOf), NEW ev \in BOOLEAN,
         SubmitFails(ps), FailWrite(ev), Fault, UNCHANGED <<finalizers, user>>,
         transport' \in TransportStates, completer' \in CompleterStates,
         transport'.pieces = transport.pieces \ ps, NextOf' = NextOf \ ps, LookedAt' = LookedAt,
         transport'.pc \in {"submit", "last"} \/ transport'.pieces = {},
         transport'.pc \in {"open", "submit", "undo"} <=> transport.pc \in {"open", "submit", "undo"},
         completer' = completer \/ LookedAt = {}
  PROVE  Inv'
<1>1. kernel' \subseteq kernel \cup ps /\ live' \subseteq kernel' /\ file' = file
  BY SubmitFailsEffect DEF Inv, TypeInv
<1>2. /\ abandoned' = abandoned \cup inflight /\ inflight' = {} /\ active' = 0 /\ failed' = TRUE
      /\ UNCHANGED <<accepted, completed, waiting, known, canceled, finished, callback, answers>>
  BY DEF FailWrite
<1>3. event' \in {"clear", "paused", "failed", "gone"}
  BY SignalType DEF FailWrite, Inv, TypeInv
<1>4. Cardinality(AllOf(inflight)) \in Nat /\ AllOf(inflight') = {} /\ Cardinality(AllOf(inflight')) = 0
  BY <1>2, AllOfType, AllOfEmpty DEF Inv, TypeInv
<1>5. TypeInv'
  <2>1. IsFiniteSet(inflight') /\ Cardinality(inflight') <= IoDepth
    BY <1>2, FS_EmptySet
  <2>2. faults' \in 0 .. MaxFaults
    BY DEF Fault, Inv, TypeInv
  <2>3. kernel' \subseteq RealPieces /\ NextOf' \subseteq RealPieces
    BY <1>1 DEF Inv, TypeInv, TransportStates
  <2> QED
    BY <1>1, <1>2, <1>3, <2>1, <2>2, <2>3 DEF Inv, TypeInv
<1>6. PlaceInv'
  <2>1. Handed \in Nat /\ Handed' \in Nat /\ Handed <= Handed'
    BY <1>2 DEF Inv, TypeInv, Handed
  <2>2. \A p \in abandoned \cup inflight \cup LookedAt : p.at + p.len <= Handed'
    BY <2>1, PieceFields DEF Inv, TypeInv, PlaceInv
  <2>3. /\ kernel \cup transport.pieces \cup NextOf \subseteq inflight \cup abandoned
        /\ kernel \cap (transport.pieces \cup NextOf \cup LookedAt) = {}
        /\ transport.pieces \cap (NextOf \cup LookedAt) = {}
        /\ NextOf \cap LookedAt = {}
    BY DEF Inv, PlaceInv, NextOf, LookedAt
  <2>4. /\ kernel' \cup transport'.pieces \cup NextOf' \subseteq inflight' \cup abandoned'
        /\ kernel' \cap (transport'.pieces \cup NextOf' \cup LookedAt') = {}
        /\ transport'.pieces \cap (NextOf' \cup LookedAt') = {}
    BY <1>1, <1>2, <2>3
  <2> QED
    BY <1>2, <2>2, <2>4 DEF PlaceInv
<1>7. ByteInv'
  BY <1>2, <1>4 DEF Inv, ByteInv, TypeInv, Handed
<1>8. AnswerInv'
  <2>1. (answers # <<>> => Quiet)'
    BY <1>2 DEF Inv, AnswerInv, Quiet
  <2> QED
    BY <1>1, <1>2, <2>1 DEF Inv, AnswerInv
<1> QED
  BY <1>5, <1>6, <1>7, <1>8 DEF Inv

-----------------------------------------------------------------------------
(* The transport's worker                                                  *)

LEMMA TransportSubmitInv == Inv /\ TransportSubmit => Inv'
<1> SUFFICES ASSUME Inv, TransportSubmit PROVE Inv'
  OBVIOUS
<1> DEFINE next == [transport EXCEPT !.pieces = {},
                      !.pc = IF transport.pc = "submit" THEN "open" ELSE "finalize"]
           vetoed == [next EXCEPT !.pc = IF transport.pc = "submit" THEN "undo" ELSE "undo last"]
<1>1. /\ transport.pc \in {"submit", "last"} /\ UNCHANGED <<completer, finalizers, user>>
      /\ transport \in TransportStates /\ completer \in CompleterStates
  BY DEF TransportSubmit, Inv, TypeInv
<1>2. /\ next \in TransportStates /\ next.pieces = {}
      /\ next.pc = IF transport.pc = "submit" THEN "open" ELSE "finalize"
      /\ vetoed \in TransportStates /\ vetoed.pieces = {}
      /\ vetoed.pc = IF transport.pc = "submit" THEN "undo" ELSE "undo last"
  BY <1>1 DEF TransportStates
<1>3. \/ /\ SubmitBatch(transport.pieces) /\ transport' = next
         /\ UNCHANGED <<sink, event, faults>>
      \/ /\ Fault /\ SubmitFails(transport.pieces) /\ FailWrite(transport.pc = "submit")
         /\ transport' = vetoed
  BY DEF TransportSubmit
<1> HIDE DEF next, vetoed
<1>4. NextOf' = NextOf /\ LookedAt' = LookedAt /\ transport.pieces \cap NextOf = {}
  BY <1>1 DEF NextOf, LookedAt, Inv, PlaceInv
<1>5. NextOf' = NextOf \ transport.pieces
  BY <1>4
<1>6. CASE SubmitBatch(transport.pieces) /\ transport' = next /\ UNCHANGED <<sink, event, faults>>
  BY <1>1, <1>2, <1>4, <1>5, <1>6, SubmitInv DEF SubmitBatch
<1>7. CASE Fault /\ SubmitFails(transport.pieces) /\ FailWrite(transport.pc = "submit") /\ transport' = vetoed
  BY <1>1, <1>2, <1>4, <1>5, <1>7, FailWriteInv
<1> QED
  BY <1>3, <1>6, <1>7

LEMMA TransportUndoInv == Inv /\ TransportUndo => Inv'
<1> SUFFICES ASSUME Inv, TransportUndo PROVE Inv'
  OBVIOUS
<1>1. /\ transport.pc \in {"undo", "undo last"} /\ Finalize("transport")
      /\ transport' = [transport EXCEPT !.pc = IF transport.pc = "undo" THEN "open" ELSE "finalize"]
      /\ UNCHANGED <<kernel, live, event, completer, finalizers, user>>
      /\ transport \in TransportStates /\ completer \in CompleterStates
      /\ user \in UserStates /\ finalizers \in Nat
  BY DEF TransportUndo, Inv, TypeInv
<1>2. /\ transport' \in TransportStates /\ transport'.pieces = transport.pieces
      /\ transport'.pc = IF transport.pc = "undo" THEN "open" ELSE "finalize"
  BY <1>1 DEF TransportStates
<1>3. NextOf' = NextOf /\ LookedAt' = LookedAt /\ completer' \in CompleterStates
  BY <1>1 DEF NextOf, LookedAt
<1>4. /\ transport'.pc \in {"submit", "last"} <=> transport.pc \in {"submit", "last"}
      /\ transport'.pc \in {"open", "submit", "undo"} <=> transport.pc \in {"open", "submit", "undo"}
  <2>1. CASE transport.pc = "undo"
    BY <1>2, <2>1
  <2>2. CASE transport.pc = "undo last"
    BY <1>2, <2>2
  <2> QED
    BY <1>1, <2>1, <2>2
<1>5. "transport" \in Callers
  BY DEF Callers
<1> QED
  BY <1>1, <1>2, <1>3, <1>4, <1>5, FinalizeInv

LEMMA TransportFinalizeInv == Inv /\ TransportFinalize => Inv'
<1> SUFFICES ASSUME Inv, TransportFinalize PROVE Inv'
  OBVIOUS
<1>1. /\ transport.pc = "finalize" /\ (Finalize("transport") \/ UNCHANGED <<sink, file, faults>>)
      /\ transport' = [transport EXCEPT !.pc = "retire", !.finalize = FALSE]
      /\ UNCHANGED <<kernel, live, event, completer, finalizers, user>>
      /\ transport \in TransportStates /\ completer \in CompleterStates
      /\ user \in UserStates /\ finalizers \in Nat
  BY DEF TransportFinalize, Inv, TypeInv
<1>2. /\ transport' \in TransportStates /\ transport'.pieces = transport.pieces
      /\ transport'.pc = "retire"
  BY <1>1 DEF TransportStates
<1>3. NextOf' = NextOf /\ LookedAt' = LookedAt /\ completer' \in CompleterStates
  BY <1>1 DEF NextOf, LookedAt
<1>4. /\ transport'.pc \in {"submit", "last"} <=> transport.pc \in {"submit", "last"}
      /\ transport'.pc \in {"open", "submit", "undo"} <=> transport.pc \in {"open", "submit", "undo"}
  BY <1>1, <1>2
<1>5. "transport" \in Callers
  BY DEF Callers
<1> QED
  BY <1>1, <1>2, <1>3, <1>4, <1>5, FinalizeInv

LEMMA RetireInv == Inv /\ Retire => Inv'
<1> SUFFICES ASSUME Inv, Retire PROVE Inv'
  OBVIOUS
<1>1. /\ transport.pc = "retire" /\ transport' = [transport EXCEPT !.pc = "ended"]
      /\ event' = "gone" /\ transport \in TransportStates
      /\ UNCHANGED <<sink, ring, completer, finalizers, user, faults>>
  BY DEF Retire, Inv, TypeInv
<1>2. transport' \in TransportStates /\ transport'.pieces = transport.pieces /\ transport'.pc = "ended"
  BY <1>1 DEF TransportStates
<1>3. NextOf' = NextOf /\ LookedAt' = LookedAt /\ Handed' = Handed /\ Quiet' = Quiet
  BY <1>1 DEF NextOf, LookedAt, Handed, Quiet, sink
<1> QED
  BY <1>1, <1>2, <1>3 DEF Inv, TypeInv, PlaceInv, ByteInv, AnswerInv, sink, ring

\* While the body goes on, nothing was answered.
LEMMA OpenIsUnanswered ==
  ASSUME Inv, transport.pc = "open"
  PROVE  finished = "no" /\ answers = <<>> /\ ~ callback /\ transport.pieces = {}
BY DEF Inv, AnswerInv, PlaceInv, Quiet

\* Bytes that are refused or put off change no more than flags.
LEMMA FlagsInv ==
  ASSUME Inv, known' \in BOOLEAN, waiting' \in BOOLEAN,
         event' \in {"clear", "paused", "failed", "gone"},
         UNCHANGED <<accepted, active, inflight, transport, abandoned, completed, failed, canceled,
                     finished, callback, answers, ring, completer, finalizers, user, faults>>
  PROVE  Inv'
<1>1. NextOf' = NextOf /\ LookedAt' = LookedAt /\ Handed' = Handed /\ Quiet' = Quiet
  BY DEF NextOf, LookedAt, Handed, Quiet
<1> QED
  BY <1>1 DEF Inv, TypeInv, PlaceInv, ByteInv, AnswerInv, ring

\* What Write takes: no more than it is given, all of it in whole pieces but the
\* rest, which fits into active_write_, and no more pieces than there are slots.
LEMMA TakeArithmetic ==
  ASSUME NEW slots \in Nat, NEW held \in 0 .. ChunkSize, NEW n \in Nat
  PROVE  LET took  == Min({n, (slots + 1) * ChunkSize - held})
             whole == Min({slots, (held + took) \div ChunkSize})
         IN  /\ took \in 0 .. n
             /\ whole \in 0 .. slots /\ whole * ChunkSize \in Nat
             /\ whole * ChunkSize <= held + took
             /\ held + took - whole * ChunkSize <= ChunkSize
<1> DEFINE room  == slots * ChunkSize
           most  == (slots + 1) * ChunkSize - held
           took  == Min({n, (slots + 1) * ChunkSize - held})
           have  == held + took
           fill  == have \div ChunkSize
           whole == Min({slots, fill})
<1>1. room \in Nat /\ most = room + ChunkSize - held
  OBVIOUS
<1>2. most \in Nat
  BY <1>1
<1>3. took = IF n <= most THEN n ELSE most
  BY <1>2, MinOfTwo
<1> HIDE DEF most, took
<1>4. took \in 0 .. n /\ have \in Nat /\ have <= room + ChunkSize
  BY <1>1, <1>2, <1>3
<1> HIDE DEF have
<1>5. fill \in Nat /\ ChunkSize * fill <= have /\ have < ChunkSize * fill + ChunkSize
  BY <1>4
<1> HIDE DEF fill
<1>6. whole = IF slots <= fill THEN slots ELSE fill
  BY <1>5, MinOfTwo
<1> HIDE DEF whole
<1>7. CASE slots <= fill
  <2>1. whole = slots
    BY <1>6, <1>7
  <2>2. fill = slots + (fill - slots) /\ fill - slots \in Nat
    BY <1>5, <1>7
  <2>3. ChunkSize * fill = room + (fill - slots) * ChunkSize
    BY <1>5, <2>2
  <2>4. (fill - slots) * ChunkSize \in Nat /\ ChunkSize * fill \in Nat
    BY <1>5, <2>2
  <2>5. room <= have
    BY <1>1, <1>4, <1>5, <2>3, <2>4
  <2>6. whole * ChunkSize = room
    BY <2>1
  <2>7. whole \in 0 .. slots
    BY <2>1
  <2> HIDE DEF room
  <2>8. whole * ChunkSize \in Nat /\ whole * ChunkSize <= have /\ have - whole * ChunkSize <= ChunkSize
    BY <1>1, <1>4, <2>5, <2>6
  <2> QED
    BY <1>4, <2>7, <2>8 DEF whole, took, have, fill
<1>8. CASE fill < slots
  <2>1. whole = fill /\ whole \in 0 .. slots
    BY <1>5, <1>6, <1>8
  <2>2. whole * ChunkSize = ChunkSize * fill /\ whole * ChunkSize \in Nat
    BY <1>5, <2>1
  <2>3. whole * ChunkSize <= have /\ have - whole * ChunkSize <= ChunkSize
    BY <1>4, <1>5, <2>2
  <2> QED
    BY <1>4, <2>1, <2>2, <2>3 DEF whole, took, have, fill
<1> QED
  BY <1>5, <1>7, <1>8

LEMMA TakeBytesInv ==
  ASSUME Inv, NEW n \in 1 .. Length - accepted, TakeBytes(n), transport.pc = "open",
         known' = TRUE,
         UNCHANGED <<abandoned, completed, failed, canceled, finished, callback, answers,
                     ring, completer, finalizers, user, faults>>
  PROVE  Inv'
<1> DEFINE took  == Min({n, (Slots + 1) * ChunkSize - active})
           whole == Min({Slots, (active + took) \div ChunkSize})
           size  == whole * ChunkSize
           ps    == Row(Handed, whole)
<1>1. /\ transport \in TransportStates /\ completer \in CompleterStates
      /\ accepted \in 0 .. Length /\ active \in 0 .. ChunkSize /\ active <= accepted
      /\ IsFiniteSet(inflight) /\ inflight \subseteq RealPieces
      /\ completed \in Nat /\ waiting \in BOOLEAN /\ ~ failed
  BY DEF Inv, TypeInv, TakeBytes
<1>2. Cardinality(inflight) \in Nat /\ Slots \in Nat /\ Cardinality(inflight) + Slots = IoDepth
  BY <1>1, FS_CardinalityType DEF Inv, TypeInv, Slots
<1>3. /\ took \in 0 .. n
      /\ whole \in 0 .. Slots /\ size \in Nat
      /\ size <= active + took /\ active + took - size <= ChunkSize
  <2>1. n \in Nat
    BY <1>1
  <2> QED
    BY <1>1, <1>2, <2>1, TakeArithmetic
<1>4. /\ accepted' = accepted + took /\ active' = active + took - size
      /\ inflight' = inflight \cup ps
      /\ waiting' = (waiting \/ took < n)
      /\ event' = IF took < n THEN "paused" ELSE event
      /\ transport' = IF ps = {} THEN transport
                      ELSE [transport EXCEPT !.pc = "submit", !.pieces = ps]
  BY DEF TakeBytes, Row, Handed
<1> HIDE DEF took, whole
<1>5. Handed \in Nat /\ Handed' = Handed + size /\ Handed + size <= Length
  BY <1>1, <1>3, <1>4 DEF Handed
<1>6. /\ ps \subseteq RealPieces
      /\ \A p \in ps : Handed <= p.at /\ p.at + p.len <= Handed + size
      /\ \A p, q \in ps : p = q \/ p.at + p.len <= q.at \/ q.at + q.len <= p.at
      /\ AllOf(ps) = Handed .. Handed + size - 1 /\ Cardinality(AllOf(ps)) = size
  BY <1>3, <1>5, RowShape, RowCells
<1>7. IsFiniteSet(ps) /\ Cardinality(ps) <= whole
  BY <1>3, <1>5, RowSize
<1>8. /\ finished = "no" /\ answers = <<>> /\ ~ callback /\ transport.pieces = {}
  BY OpenIsUnanswered
<1>9. \A p \in inflight \cup abandoned \cup LookedAt : p.at + p.len <= Handed
  BY DEF Inv, PlaceInv
<1>10. LookedAt' = LookedAt /\ NextOf' = NextOf
  BY DEF LookedAt, NextOf
<1>11. \A p \in inflight \cup abandoned \cup LookedAt : p \notin ps
  BY <1>5, <1>6, <1>9, PieceFields DEF Inv, TypeInv
<1> HIDE DEF ps, size
<1>12. /\ transport' \in TransportStates /\ transport'.pieces = ps
       /\ transport'.pc \in {"open", "submit"} /\ (ps # {} => transport'.pc = "submit")
  <2>1. CASE ps = {}
    BY <1>1, <1>4, <1>8, <2>1
  <2>2. CASE ps # {}
    BY <1>1, <1>4, <1>6, <2>2 DEF TransportStates
  <2> QED
    BY <2>1, <2>2
<1>13. TypeInv'
  <2>1. inflight' \subseteq RealPieces /\ IsFiniteSet(inflight') /\ Cardinality(inflight') <= IoDepth
    <3>1. inflight \cap ps = {}
      BY <1>11
    <3>2. IsFiniteSet(inflight \cup ps)
          /\ Cardinality(inflight \cup ps) = Cardinality(inflight) + Cardinality(ps) - Cardinality(inflight \cap ps)
      BY <1>1, <1>7, FS_Union
    <3>3. Cardinality(inflight \cap ps) = 0 /\ Cardinality(ps) \in Nat
      BY <1>7, <3>1, FS_EmptySet, FS_CardinalityType
    <3>4. Cardinality(inflight \cup ps) <= IoDepth
      BY <1>2, <1>3, <1>7, <3>2, <3>3
    <3> QED
      BY <1>1, <1>4, <1>6, <3>2, <3>4
  <2>2. accepted' \in 0 .. Length /\ active' \in 0 .. ChunkSize /\ active' <= accepted'
    BY <1>1, <1>3, <1>4, <1>5 DEF Handed
  <2>3. event' \in {"clear", "paused", "failed", "gone"} /\ waiting' \in BOOLEAN
    BY <1>1, <1>4 DEF Inv, TypeInv
  <2> QED
    BY <1>10, <1>12, <2>1, <2>2, <2>3 DEF Inv, TypeInv, ring
<1>14. PlaceInv'
  <2>1. \A p \in inflight' \cup abandoned \cup LookedAt : p.at + p.len <= Handed'
    <3>1. ASSUME NEW p \in inflight \cup abandoned \cup LookedAt PROVE p.at + p.len <= Handed + size
      <4>1. p \in RealPieces /\ p.at + p.len <= Handed
        BY <1>9 DEF Inv, TypeInv
      <4> QED
        BY <1>3, <1>5, <4>1, PieceFields
    <3> QED
      BY <1>4, <1>5, <1>6, <3>1
  <2>2. \A p, q \in inflight' : p = q \/ p.at + p.len <= q.at \/ q.at + q.len <= p.at
    <3>1. ASSUME NEW p \in inflight, NEW q \in ps PROVE p.at + p.len <= q.at
      BY <1>1, <1>5, <1>6, <1>9, PieceFields
    <3> QED
      BY <1>4, <1>6, <3>1 DEF Inv, PlaceInv
  <2>3. /\ kernel \cup NextOf \subseteq inflight \cup abandoned
        /\ kernel \cap (NextOf \cup LookedAt) = {}
    BY DEF Inv, PlaceInv
  <2>4. /\ kernel \cup ps \cup NextOf \subseteq inflight' \cup abandoned
        /\ kernel \cap (ps \cup NextOf \cup LookedAt) = {}
        /\ ps \cap (NextOf \cup LookedAt) = {}
    BY <1>4, <1>11, <2>3
  <2>5. transport'.pc \in {"submit", "last"} \/ transport'.pieces = {}
    BY <1>12
  <2> QED
    BY <1>10, <1>12, <2>1, <2>2, <2>4, <2>5 DEF Inv, PlaceInv, ring
<1>15. ByteInv'
  <2>1. /\ AllOf(inflight') = AllOf(inflight) \cup AllOf(ps)
        /\ Cardinality(AllOf(inflight')) = Cardinality(AllOf(inflight)) + size
    BY <1>1, <1>4, <1>5, <1>6, <1>9, AllOfDisjointUnion
  <2>2. completed + Cardinality(AllOf(inflight)) = Handed /\ Cardinality(AllOf(inflight)) \in Nat
    BY <1>1, <1>8, AllOfType DEF Inv, ByteInv
  <2>3. completed + Cardinality(AllOf(inflight')) = Handed'
    BY <1>1, <1>3, <1>5, <2>1, <2>2
  <2>4. ASSUME NEW c \in 0 .. Handed' - 1 PROVE c \in AllOf(inflight') \/ c \in file
    <3>1. CASE c < Handed
      BY <1>1, <1>5, <1>8, <2>1, <3>1 DEF Inv, ByteInv
    <3>2. CASE c >= Handed
      BY <1>3, <1>5, <1>6, <2>1, <3>2
    <3> QED
      BY <1>5, <3>1, <3>2
  <2>5. LookedAt \cap inflight' = LookedAt \cap inflight
    BY <1>4, <1>11
  <2>6. completed + Cardinality(AllOf(inflight')) <= Handed'
    BY <1>3, <1>5, <2>3
  <2> QED
    BY <1>10, <2>3, <2>4, <2>5, <2>6 DEF Inv, ByteInv, ring
<1>16. AnswerInv'
  BY <1>8, <1>12 DEF Inv, AnswerInv
<1> QED
  BY <1>13, <1>14, <1>15, <1>16 DEF Inv

LEMMA WriteInv == Inv /\ Write => Inv'
<1> SUFFICES ASSUME Inv, Write PROVE Inv'
  OBVIOUS
<1>1. PICK n \in 1 .. Length - accepted : RefuseBytes \/ PauseBytes \/ TakeBytes(n)
  BY DEF Write
<1>2. /\ transport.pc = "open" /\ known' = TRUE
      /\ UNCHANGED <<abandoned, completed, failed, canceled, finished, callback, answers,
                     ring, completer, finalizers, user, faults>>
  BY DEF Write
<1>3. CASE RefuseBytes
  BY <1>2, <1>3, FlagsInv, SignalType DEF RefuseBytes, Inv, TypeInv
<1>4. CASE PauseBytes
  BY <1>2, <1>4, FlagsInv DEF PauseBytes
<1>5. CASE TakeBytes(n)
  BY <1>2, <1>5, TakeBytesInv
<1> QED
  BY <1>1, <1>3, <1>4, <1>5

\* The piece made of what active_write_ holds is new, and follows all others.
LEMMA TailPiece ==
  ASSUME Inv, active > 0
  PROVE  LET tail == Piece(accepted - active, active)
         IN  /\ tail \in RealPieces /\ tail # NoPiece /\ tail.at = Handed /\ tail.len = active
             /\ \A p \in inflight \cup abandoned \cup LookedAt : p # tail
             /\ Handed \in Nat /\ Handed + active = accepted
<1> DEFINE tail == Piece(accepted - active, active)
<1>1. Handed \in Nat /\ Handed = accepted - active /\ Handed + active = accepted
      /\ active \in 1 .. ChunkSize /\ accepted <= Length
  BY DEF Inv, TypeInv, Handed
<1>2. tail \in RealPieces /\ tail # NoPiece /\ tail.at = Handed /\ tail.len = active
  BY <1>1, PieceType
<1> HIDE DEF tail
<1>3. ASSUME NEW p \in inflight \cup abandoned \cup LookedAt PROVE p # tail
  BY <1>1, <1>2 DEF Inv, PlaceInv
<1> QED
  BY <1>1, <1>2, <1>3 DEF tail

LEMMA FinishInv ==
  ASSUME Inv, NEW status \in {"ok", "error"}, Finish(status), faults' \in 0 .. MaxFaults,
         status = "ok" => accepted = Length
  PROVE  Inv'
<1> DEFINE take == status = "ok" /\ active > 0 /\ Slots > 0
           tail == IF take THEN {Piece(accepted - active, active)} ELSE {}
<1>1. /\ transport.pc = "open" /\ finished' = status /\ callback' = TRUE
      /\ active' = IF take \/ status = "error" THEN 0 ELSE active
      /\ inflight' = inflight \cup tail
      /\ transport' = [pc |-> IF take THEN "last" ELSE "finalize", pieces |-> tail,
                       finalize |-> active' = 0 /\ inflight' = {}]
      /\ UNCHANGED <<accepted, abandoned, completed, waiting, known, failed, canceled, answers,
                     ring, event, completer, finalizers, user>>
  BY DEF Finish
<1>2. finished = "no" /\ answers = <<>> /\ transport.pieces = {}
  BY <1>1, OpenIsUnanswered
<1>3. /\ Handed \in Nat /\ accepted \in 0 .. Length /\ active \in 0 .. ChunkSize
      /\ IsFiniteSet(inflight) /\ inflight \subseteq RealPieces /\ completed \in Nat
  BY DEF Inv, TypeInv, Handed
<1>4. Cardinality(inflight) \in Nat /\ Slots \in Nat /\ Cardinality(inflight) + Slots = IoDepth
  BY <1>3, FS_CardinalityType DEF Inv, TypeInv, Slots
<1>5. LookedAt' = LookedAt /\ NextOf' = NextOf
  BY <1>1 DEF LookedAt, NextOf
<1>6. \A p \in inflight \cup abandoned \cup LookedAt : p \in RealPieces /\ p.at + p.len <= Handed
  BY DEF Inv, TypeInv, PlaceInv
<1>7. /\ tail \subseteq RealPieces
      /\ \A p \in tail : p.at = Handed /\ p.len = active /\ p \notin inflight \cup abandoned \cup LookedAt
      /\ \A p, q \in tail : p = q
  BY TailPiece
<1>8. /\ Handed' \in Nat /\ Handed <= Handed' /\ Handed' <= accepted
      /\ (tail # {} => Handed' = Handed + active) /\ (tail = {} /\ status = "ok" => Handed' = Handed)
  BY <1>1, <1>3 DEF Handed, Inv, TypeInv
<1>9. Cardinality(AllOf(inflight)) \in Nat
  BY <1>3, AllOfType
<1>10. /\ AllOf(inflight') = AllOf(inflight) \cup AllOf(tail)
       /\ Cardinality(AllOf(inflight')) = Cardinality(AllOf(inflight)) + Cardinality(AllOf(tail))
  <2> HIDE DEF take, tail
  <2>1. \A p \in inflight : p.at + p.len <= Handed
    BY <1>6
  <2>2. \A q \in tail : Handed <= q.at
    BY <1>3, <1>7
  <2>3. inflight \in SUBSET RealPieces /\ tail \in SUBSET RealPieces
    BY <1>3, <1>7
  <2> QED
    BY <1>1, <1>3, <2>1, <2>2, <2>3, AllOfDisjointUnion
<1>11. CASE take
  <2> DEFINE p == Piece(accepted - active, active)
  <2>1. tail = {p} /\ p \in RealPieces
    BY <1>11, TailPiece
  <2>2. p.at = Handed /\ p.len = active /\ active > 0
    BY <1>7, <1>11, <2>1
  <2> HIDE DEF p, take, tail
  <2>3. AllOf(tail) = Cells(p) /\ Cardinality(AllOf(tail)) = active
    BY <2>1, <2>2, AllOfOne
  <2>4. Cardinality(inflight') = Cardinality(inflight) + 1 /\ IsFiniteSet(inflight')
    BY <1>1, <1>3, <1>7, <2>1, FS_AddElement
  <2>5. Slots > 0 /\ status = "ok" /\ active' = 0 /\ Handed' = Handed + active
    BY <1>1, <1>8, <1>11, <2>1 DEF take
  <2>6. transport' \in TransportStates /\ transport'.pieces = {p} /\ transport'.pc = "last"
    BY <1>1, <1>11, <2>1 DEF TransportStates
  <2>7. TypeInv'
    BY <1>1, <1>3, <1>4, <1>5, <2>1, <2>4, <2>5, <2>6 DEF Inv, TypeInv, ring
  <2>8. PlaceInv'
    <3>1. \A q \in inflight' \cup abandoned \cup LookedAt : q.at + q.len <= Handed'
      BY <1>1, <1>3, <1>6, <2>1, <2>2, <2>5, PieceFields
    <3>2. \A q, r \in inflight' : q = r \/ q.at + q.len <= r.at \/ r.at + r.len <= q.at
      BY <1>1, <1>6, <2>1, <2>2 DEF Inv, PlaceInv
    <3>3. p \notin inflight \cup abandoned \cup LookedAt
      BY <1>7, <2>1
    <3>4. /\ kernel \cup {p} \cup NextOf \subseteq inflight' \cup abandoned
          /\ kernel \cap ({p} \cup NextOf \cup LookedAt) = {}
          /\ {p} \cap (NextOf \cup LookedAt) = {}
      BY <1>1, <2>1, <3>3 DEF Inv, PlaceInv
    <3> QED
      BY <1>1, <1>5, <2>6, <3>1, <3>2, <3>4 DEF Inv, PlaceInv, ring
  <2>9. ByteInv'
    <3>1. ASSUME NEW c \in 0 .. Handed' - 1, c \notin AllOf(inflight) PROVE c \in AllOf(tail) \/ c < Handed
      BY <1>3, <2>1, <2>2, <2>3, <2>5, CellsOfPiece
    <3>2. LookedAt \cap inflight' = LookedAt \cap inflight
      BY <1>1, <1>7
    <3>3. /\ completed + Cardinality(AllOf(inflight')) <= Handed'
          /\ completed + Cardinality(AllOf(inflight)) = Handed =>
               completed + Cardinality(AllOf(inflight')) = Handed'
      BY <1>3, <1>9, <1>10, <2>3, <2>5 DEF Inv, ByteInv
    <3>4. ~ failed => /\ completed + Cardinality(AllOf(inflight)) = Handed
                      /\ \A c \in 0 .. Handed - 1 : c \in AllOf(inflight) \/ c \in file
      BY <1>2 DEF Inv, ByteInv
    <3>5. ~ failed => \A c \in 0 .. Handed' - 1 : c \in AllOf(inflight') \/ c \in file
      <4> SUFFICES ASSUME ~ failed, NEW c \in 0 .. Handed' - 1, c \notin AllOf(inflight')
                   PROVE  c \in file
        OBVIOUS
      <4>1. c < Handed
        BY <1>10, <3>1
      <4>2. c \in 0 .. Handed - 1
        BY <1>3, <1>8, <4>1
      <4> QED
        BY <1>10, <3>4, <4>2
    <3> QED
      BY <1>1, <1>5, <3>2, <3>3, <3>4, <3>5 DEF Inv, ByteInv, ring
  <2>10. AnswerInv'
    BY <1>1, <1>2, <2>5, <2>6 DEF Inv, AnswerInv
  <2> QED
    BY <2>7, <2>8, <2>9, <2>10 DEF Inv
<1>12. CASE ~ take
  <2>1. tail = {} /\ inflight' = inflight
    BY <1>1, <1>12
  <2> HIDE DEF take, tail
  <2>2. transport' \in TransportStates /\ transport'.pieces = {} /\ transport'.pc = "finalize"
    BY <1>1, <1>12, <2>1 DEF TransportStates
  <2>3. active' \in {0, active} /\ (status = "ok" => Handed' = Handed)
    BY <1>1, <1>8, <2>1
  <2>4. TypeInv'
    BY <1>1, <1>3, <1>5, <2>1, <2>2, <2>3 DEF Inv, TypeInv, ring
  <2>5. PlaceInv'
    <3>1. \A q \in inflight \cup abandoned \cup LookedAt : q.at + q.len <= Handed'
      BY <1>3, <1>6, <1>8, PieceFields
    <3> QED
      BY <1>1, <1>5, <2>1, <2>2, <3>1 DEF Inv, PlaceInv, ring
  <2>6. ByteInv'
    <3>1. completed + Cardinality(AllOf(inflight)) <= Handed'
      BY <1>3, <1>8, <1>9 DEF Inv, ByteInv
    <3>2. ~ failed /\ status = "ok" =>
            /\ completed + Cardinality(AllOf(inflight)) = Handed'
            /\ \A c \in 0 .. Handed' - 1 : c \in AllOf(inflight) \/ c \in file
      BY <1>2, <2>3 DEF Inv, ByteInv
    <3> QED
      BY <1>1, <1>5, <2>1, <3>1, <3>2 DEF Inv, ByteInv, ring
  <2>7. AnswerInv'
    BY <1>1, <1>2, <2>2 DEF Inv, AnswerInv
  <2> QED
    BY <2>4, <2>5, <2>6, <2>7 DEF Inv
<1> QED
  BY <1>11, <1>12

LEMMA FinishAsyncInv == Inv /\ (FinishAsync \/ NetworkFails) => Inv'
<1> SUFFICES ASSUME Inv, FinishAsync \/ NetworkFails PROVE Inv'
  OBVIOUS
<1>1. faults \in 0 .. MaxFaults
  BY DEF Inv, TypeInv
<1>2. CASE accepted = Length /\ Finish("ok") /\ UNCHANGED faults
  BY <1>1, <1>2, FinishInv
<1>3. CASE Finish("error") /\ UNCHANGED faults
  BY <1>1, <1>3, FinishInv
<1>4. CASE Fault /\ Finish("error")
  BY <1>1, <1>4, FinishInv DEF Fault
<1> QED
  BY <1>2, <1>3, <1>4 DEF FinishAsync, NetworkFails

-----------------------------------------------------------------------------
(* The completion thread                                                   *)

LEMMA IdleType == Idle \in CompleterStates /\ Idle.pc = "idle" /\ Idle.next = NoPiece
BY NoPieceType DEF Idle, CompleterStates

LEMMA ReapInv == Inv /\ Reap => Inv'
<1> SUFFICES ASSUME Inv, Reap PROVE Inv'
  OBVIOUS
<1>1. PICK p \in kernel, ok \in BOOLEAN :
        /\ kernel' = kernel \ {p}
        /\ live' = live \ {p}
        /\ file' = IF ok THEN file \cup Cells(p) ELSE file
        /\ IF ok THEN UNCHANGED faults ELSE Fault
        /\ completer' = IF p \in live THEN [Idle EXCEPT !.pc = "look", !.piece = p, !.ok = ok]
                                      ELSE Idle
  BY DEF Reap
<1>2. /\ completer.pc = "idle" /\ UNCHANGED <<sink, event, transport, finalizers, user>>
      /\ faults' \in 0 .. MaxFaults
  BY <1>1 DEF Reap, Inv, TypeInv, Fault
<1>3. p \in RealPieces /\ p \in Pieces /\ p.at + p.len <= Handed /\ Cells(p) \subseteq Body
  BY CellsOfPiece DEF Inv, TypeInv, PlaceInv, RealPieces
<1>4. /\ completer' \in CompleterStates /\ LookedAt' \subseteq {p} /\ NextOf' = {}
      /\ completer'.ok => (ok \/ LookedAt' = {})
      /\ completer'.next = NoPiece
  <2>1. CASE p \in live
    <3>1. completer' = [Idle EXCEPT !.pc = "look", !.piece = p, !.ok = ok]
      BY <1>1, <2>1
    <3>2. completer' \in CompleterStates /\ completer'.pc = "look" /\ completer'.piece = p
          /\ completer'.ok = ok /\ completer'.next = NoPiece
      BY <1>3, <3>1, NoPieceType DEF Idle, CompleterStates
    <3> QED
      BY <3>2 DEF LookedAt, NextOf
  <2>2. CASE p \notin live
    BY <1>1, <2>2, IdleType DEF LookedAt, NextOf
  <2> QED
    BY <2>1, <2>2
<1>5. LookedAt = {} /\ Handed' = Handed /\ Quiet' = Quiet
  BY <1>2 DEF LookedAt, Handed, Quiet, sink
<1>6. file \subseteq file' /\ file' \subseteq Body
  BY <1>1, <1>3 DEF Inv, TypeInv
<1>7. TypeInv'
  BY <1>1, <1>2, <1>3, <1>4, <1>6 DEF Inv, TypeInv, sink
<1>8. PlaceInv'
  <2>1. p \in inflight \cup abandoned /\ p \notin transport.pieces
    BY DEF Inv, PlaceInv
  <2> QED
    BY <1>1, <1>2, <1>3, <1>4, <1>5, <2>1 DEF Inv, PlaceInv, sink
<1>9. ByteInv'
  <2>1. completer'.ok => \A q \in LookedAt' \cap inflight' : Cells(q) \subseteq file'
    BY <1>1, <1>4
  <2> QED
    BY <1>2, <1>5, <1>6, <2>1 DEF Inv, ByteInv, sink
<1>10. AnswerInv'
  <2>1. \A i \in 1 .. Len(answers) : ~ answers[i].ok
    BY <1>1 DEF Inv, AnswerInv
  <2> QED
    BY <1>2, <1>5, <2>1 DEF Inv, AnswerInv, sink
<1> QED
  BY <1>7, <1>8, <1>9, <1>10 DEF Inv

\* What is left in flight without the piece the completion thread works on.
LEMMA LeftInFlight ==
  ASSUME Inv, NEW p \in LookedAt
  PROVE  /\ inflight \ {p} \subseteq RealPieces /\ IsFiniteSet(inflight \ {p})
         /\ Cardinality(inflight \ {p}) \in Nat /\ Cardinality(inflight \ {p}) <= IoDepth
         /\ p \in inflight => Cardinality(inflight \ {p}) + 1 <= IoDepth
         /\ Cardinality(AllOf(inflight \ {p})) \in Nat
         /\ Cardinality(AllOf(inflight \ {p})) <= Cardinality(AllOf(inflight))
         /\ p \in inflight => /\ Cardinality(AllOf(inflight)) = Cardinality(AllOf(inflight \ {p})) + p.len
                              /\ AllOf(inflight \ {p}) = AllOf(inflight) \ Cells(p)
         /\ kernel \cup transport.pieces \subseteq (inflight \ {p}) \cup abandoned
<1>1. /\ inflight \subseteq RealPieces /\ IsFiniteSet(inflight) /\ Cardinality(inflight) <= IoDepth
      /\ p \in RealPieces
  BY DEF Inv, TypeInv
<1>2. Cardinality(inflight) \in Nat
  BY <1>1, FS_CardinalityType
<1>3. /\ IsFiniteSet(inflight \ {p})
      /\ Cardinality(inflight \ {p}) = IF p \in inflight THEN Cardinality(inflight) - 1 ELSE Cardinality(inflight)
  BY <1>1, FS_RemoveElement
<1>4. Cardinality(inflight \ {p}) \in Nat
  BY <1>3, FS_CardinalityType
<1>5. Cardinality(AllOf(inflight)) \in Nat /\ Cardinality(AllOf(inflight \ {p})) \in Nat
  BY <1>1, AllOfType
<1>6. p.len \in Nat
  BY <1>1, PieceFields
<1>7. ASSUME p \in inflight
      PROVE  /\ Cardinality(AllOf(inflight \ {p})) = Cardinality(AllOf(inflight)) - p.len
             /\ AllOf(inflight \ {p}) = AllOf(inflight) \ Cells(p)
  BY <1>1, <1>7, AllOfRemove DEF Inv, PlaceInv
<1>8. ASSUME p \notin inflight PROVE inflight \ {p} = inflight
  BY <1>8
<1>9. kernel \cup transport.pieces \subseteq (inflight \ {p}) \cup abandoned
  BY DEF Inv, PlaceInv
<1>10. /\ Cardinality(AllOf(inflight \ {p})) <= Cardinality(AllOf(inflight))
       /\ p \in inflight => Cardinality(AllOf(inflight)) = Cardinality(AllOf(inflight \ {p})) + p.len
  <2>1. CASE p \in inflight
    BY <1>5, <1>6, <1>7, <2>1
  <2>2. CASE p \notin inflight
    <3>1. AllOf(inflight \ {p}) = AllOf(inflight)
      BY <1>8, <2>2
    <3> QED
      BY <1>5, <2>2, <3>1
  <2> QED
    BY <2>1, <2>2
<1>11. /\ Cardinality(inflight \ {p}) <= IoDepth
       /\ p \in inflight => Cardinality(inflight \ {p}) + 1 <= IoDepth
  BY <1>1, <1>2, <1>3
<1> QED
  BY <1>1, <1>3, <1>4, <1>5, <1>7, <1>9, <1>10, <1>11

LEMMA LookInv == Inv /\ Look => Inv'
<1> SUFFICES ASSUME Inv, Look PROVE Inv'
  OBVIOUS
<1> DEFINE p == completer.piece
<1>1. /\ completer.pc = "look" /\ LookedAt = {p} /\ NextOf = {}
      /\ UNCHANGED <<accepted, active, abandoned, completed, waiting, known, failed, canceled,
                     finished, callback, answers, ring, event, transport, user>>
      /\ completer \in CompleterStates
  BY DEF Look, LookedAt, NextOf, Inv, TypeInv
<1>2. Handed' = Handed /\ finalizers \in Nat /\ faults \in 0 .. MaxFaults
  BY <1>1 DEF Handed, Inv, TypeInv
<1>3. CASE /\ p \notin inflight \/ canceled
           /\ inflight' = inflight \ {p} /\ completer' = Idle
           /\ finalizers' \in {finalizers, finalizers + 1} /\ UNCHANGED faults
  <2>1. completer' \in CompleterStates /\ LookedAt' = {} /\ NextOf' = {}
    BY <1>3, IdleType DEF LookedAt, NextOf
  <2>2. /\ inflight' \subseteq RealPieces /\ IsFiniteSet(inflight') /\ Cardinality(inflight') <= IoDepth
        /\ Cardinality(AllOf(inflight')) \in Nat
        /\ Cardinality(AllOf(inflight')) <= Cardinality(AllOf(inflight))
        /\ kernel \cup transport.pieces \subseteq inflight' \cup abandoned
    BY <1>1, <1>3, LeftInFlight
  <2>3. TypeInv'
    BY <1>1, <1>2, <1>3, <2>1, <2>2 DEF Inv, TypeInv, ring
  <2>4. PlaceInv'
    BY <1>1, <1>2, <1>3, <2>1, <2>2 DEF Inv, PlaceInv, ring
  <2>5. ByteInv'
    <3>1. completed + Cardinality(AllOf(inflight')) <= Handed
      <4>1. Cardinality(AllOf(inflight)) \in Nat /\ completed \in Nat /\ Handed \in Nat
        BY AllOfType DEF Inv, TypeInv, Handed
      <4> QED
        BY <2>2, <4>1 DEF Inv, ByteInv
    <3>2. ~ failed => inflight' = inflight
      BY <1>3 DEF Inv, PlaceInv
    <3> QED
      BY <1>1, <1>2, <2>1, <3>1, <3>2 DEF Inv, ByteInv, ring
  <2>6. AnswerInv'
    <3>1. (answers # <<>> => Quiet)'
      BY <1>1, <1>3 DEF Inv, AnswerInv, Quiet
    <3> QED
      BY <1>1, <2>1, <3>1 DEF Inv, AnswerInv, ring
  <2> QED
    BY <2>3, <2>4, <2>5, <2>6 DEF Inv
<1>4. CASE /\ inflight' = inflight /\ finalizers' = finalizers /\ faults' \in 0 .. MaxFaults
           /\ \/ completer' = [completer EXCEPT !.pc = "account"]
              \/ completer' = [completer EXCEPT !.pc = "account", !.ok = FALSE]
  <2>1. /\ completer' \in CompleterStates /\ completer'.pc = "account" /\ completer'.piece = p
        /\ completer'.ok => completer.ok
        /\ completer'.next = completer.next
    BY <1>1, <1>4 DEF CompleterStates
  <2>2. LookedAt' = {p} /\ NextOf' = {} /\ Quiet' = Quiet
    BY <1>1, <1>4, <2>1 DEF LookedAt, NextOf, Quiet
  <2>3. TypeInv'
    BY <1>1, <1>2, <1>4, <2>1, <2>2 DEF Inv, TypeInv, ring
  <2>4. PlaceInv'
    BY <1>1, <1>2, <1>4, <2>2 DEF Inv, PlaceInv, ring
  <2>5. ByteInv'
    BY <1>1, <1>2, <1>4, <2>1, <2>2 DEF Inv, ByteInv, ring
  <2>6. AnswerInv'
    BY <1>1, <1>2, <1>4, <2>2 DEF Inv, AnswerInv, ring
  <2> QED
    BY <2>3, <2>4, <2>5, <2>6 DEF Inv
<1>5. faults' \in 0 .. MaxFaults
  BY <1>2 DEF Look, Fault
<1> QED
  BY <1>3, <1>4, <1>5 DEF Look

LEMMA WrittenInv ==
  ASSUME Inv, completer.pc = "account", completer.piece \in inflight, Written, waiting' = FALSE,
         UNCHANGED <<accepted, abandoned, known, canceled, finished, callback, answers,
                     ring, event, transport, finalizers, user, faults>>
  PROVE  Inv'
<1> DEFINE p    == completer.piece
           left == inflight \ {p}
           take == active > 0 /\ (finished # "no" \/ active >= ChunkSize)
           tail == IF take THEN Piece(accepted - active, active) ELSE NoPiece
           more == IF take THEN {tail} ELSE {}
<1>1. /\ LookedAt = {p} /\ NextOf = {} /\ p \in RealPieces /\ completer.ok
      /\ completer \in CompleterStates
      /\ accepted \in 0 .. Length /\ active \in 0 .. ChunkSize /\ active <= accepted
      /\ completed \in Nat /\ Handed \in Nat /\ Handed = accepted - active
  BY DEF LookedAt, NextOf, Inv, TypeInv, Written, Handed
<1>2. /\ completed' = completed + p.len /\ failed' = failed
      /\ active' = IF take THEN 0 ELSE active
      /\ inflight' = left \cup more
      /\ completer' = [completer EXCEPT !.pc = "signal", !.next = tail,
                         !.signal = IF waiting THEN "resume" ELSE "none",
                         !.finalize = finished # "no" /\ active' = 0 /\ inflight' = {}]
  BY DEF Written
<1>3. /\ left \subseteq RealPieces /\ IsFiniteSet(left)
      /\ Cardinality(left) \in Nat /\ Cardinality(left) + 1 <= IoDepth
      /\ Cardinality(AllOf(left)) \in Nat
      /\ Cardinality(AllOf(inflight)) = Cardinality(AllOf(left)) + p.len
      /\ AllOf(left) = AllOf(inflight) \ Cells(p)
      /\ kernel \cup transport.pieces \subseteq left \cup abandoned
  BY <1>1, LeftInFlight
<1>4. /\ tail \in Pieces /\ (take => tail \in RealPieces /\ tail.at = Handed /\ tail.len = active
                                     /\ \A q \in inflight \cup abandoned \cup LookedAt : q # tail)
      /\ (take <=> tail # NoPiece) /\ (take => active > 0)
  BY TailPiece, NoPieceType DEF RealPieces
<1>5. \A q \in left \cup abandoned : q \in RealPieces /\ q.at + q.len <= Handed
  BY DEF Inv, TypeInv, PlaceInv
<1>6. \A q, r \in left : q = r \/ q.at + q.len <= r.at \/ r.at + r.len <= q.at
  BY DEF Inv, PlaceInv
<1> HIDE DEF left, take, tail
<1>7. Handed' = Handed + (IF take THEN active ELSE 0)
  BY <1>1, <1>2 DEF Handed
<1>8. /\ completer' \in CompleterStates /\ completer'.pc = "signal" /\ completer'.next = tail
  BY <1>1, <1>2, <1>4 DEF CompleterStates
<1>9. LookedAt' = {} /\ NextOf' = more
  BY <1>4, <1>8 DEF LookedAt, NextOf
<1>10. p \in Pieces /\ Cells(p) \subseteq file
  BY <1>1 DEF Inv, ByteInv, RealPieces
<1>11. /\ more \subseteq RealPieces /\ \A q \in more : q.at = Handed /\ q.len = active /\ q = tail /\ take
  BY <1>4
<1>12. /\ AllOf(inflight') = AllOf(left) \cup AllOf(more)
       /\ Cardinality(AllOf(inflight')) = Cardinality(AllOf(left)) + Cardinality(AllOf(more))
  <2>1. \A q \in left : q.at + q.len <= Handed
    BY <1>5
  <2>2. \A q \in more : Handed <= q.at
    BY <1>1, <1>11
  <2>3. left \in SUBSET RealPieces /\ more \in SUBSET RealPieces
    BY <1>3, <1>11
  <2> HIDE DEF more
  <2> QED
    BY <1>1, <1>2, <2>1, <2>2, <2>3, AllOfDisjointUnion
<1>13. Cardinality(AllOf(more)) = IF take THEN active ELSE 0
  BY <1>4, AllOfOne, AllOfEmpty
<1>14. \A c \in Handed .. Handed' - 1 : c \in AllOf(more)
  <2>1. CASE take
    <3>1. AllOf(more) = Cells(tail)
      BY <1>4, <2>1, AllOfOne
    <3> QED
      BY <1>1, <1>4, <1>7, <2>1, <3>1, CellsOfPiece
  <2>2. CASE ~ take
    BY <1>1, <1>7, <2>2
  <2> QED
    BY <2>1, <2>2
<1>15. TypeInv'
  <2>1. inflight' \subseteq RealPieces /\ IsFiniteSet(inflight') /\ Cardinality(inflight') <= IoDepth
    <3>1. CASE take
      <4>0. IsFiniteSet(left \cup {tail})
            /\ Cardinality(left \cup {tail}) = IF tail \in left THEN Cardinality(left) ELSE Cardinality(left) + 1
        BY <1>3, FS_AddElement
      <4>1. IsFiniteSet(left \cup {tail}) /\ Cardinality(left \cup {tail}) <= Cardinality(left) + 1
        BY <1>3, <4>0
      <4> QED
        BY <1>2, <1>3, <1>4, <3>1, <4>1, FS_CardinalityType
    <3>2. CASE ~ take
      BY <1>2, <1>3, <3>2
    <3> QED
      BY <3>1, <3>2
  <2>2. active' \in 0 .. ChunkSize /\ active' <= accepted /\ completed' \in Nat
    BY <1>1, <1>2, PieceFields
  <2> QED
    BY <1>2, <1>8, <1>9, <1>11, <2>1, <2>2 DEF Inv, TypeInv, ring
<1>16. PlaceInv'
  <2>1. \A q \in inflight' \cup abandoned : q.at + q.len <= Handed'
    <3>1. \A q \in left \cup abandoned : q.at + q.len <= Handed'
      BY <1>1, <1>5, <1>7, PieceFields
    <3>2. \A q \in more : q.at + q.len <= Handed'
      BY <1>1, <1>7, <1>11
    <3> QED
      BY <1>2, <3>1, <3>2
  <2>2. \A q, r \in inflight' : q = r \/ q.at + q.len <= r.at \/ r.at + r.len <= q.at
    BY <1>2, <1>5, <1>6, <1>11
  <2>3. \A q \in more : q \notin kernel /\ q \notin transport.pieces
    BY <1>3, <1>4, <1>11 DEF Inv, PlaceInv
  <2>4. /\ kernel \cup transport.pieces \cup more \subseteq inflight' \cup abandoned
        /\ kernel \cap (transport.pieces \cup more) = {}
        /\ transport.pieces \cap more = {}
    BY <1>2, <1>3, <2>3 DEF Inv, PlaceInv
  <2> QED
    BY <1>2, <1>9, <2>1, <2>2, <2>4 DEF Inv, PlaceInv, ring
<1>17. ByteInv'
  <2>1. completed' \in Nat /\ p.len \in Nat
    BY <1>1, <1>2, PieceFields
  <2>2. /\ completed' + Cardinality(AllOf(inflight')) <= Handed'
        /\ completed + Cardinality(AllOf(inflight)) = Handed =>
             completed' + Cardinality(AllOf(inflight')) = Handed'
    BY <1>1, <1>2, <1>3, <1>7, <1>12, <1>13, <2>1 DEF Inv, ByteInv
  <2>3. Handed' \in Nat /\ Handed <= Handed'
    BY <1>1, <1>7
  <2>4. ASSUME ~ failed, finished # "error"
        PROVE  \A c \in 0 .. Handed' - 1 : c \in AllOf(inflight') \/ c \in file
    <3>1. \A c \in 0 .. Handed - 1 : c \in AllOf(inflight) \/ c \in file
      BY <2>4 DEF Inv, ByteInv
    <3>2. \A c \in 0 .. Handed - 1 : c \in AllOf(inflight') \/ c \in file
      BY <1>3, <1>10, <1>12, <3>1
    <3>3. \A c \in Handed .. Handed' - 1 : c \in AllOf(inflight')
      BY <1>12, <1>14
    <3>4. \A m \in Nat : \A c \in 0 .. m - 1 : c \in 0 .. Handed - 1 \/ c \in Handed .. m - 1
      BY <1>1
    <3>5. \A c \in 0 .. Handed' - 1 : c \in 0 .. Handed - 1 \/ c \in Handed .. Handed' - 1
      BY <2>3, <3>4
    <3> QED
      BY <3>2, <3>3, <3>5
  <2> QED
    BY <1>2, <1>9, <2>2, <2>4 DEF Inv, ByteInv, ring
<1>18. AnswerInv'
  <2>1. answers = <<>>
    BY DEF Inv, AnswerInv, Quiet
  <2> QED
    BY <1>2, <2>1 DEF Inv, AnswerInv, ring
<1> QED
  BY <1>15, <1>16, <1>17, <1>18 DEF Inv

LEMMA NotWrittenInv ==
  ASSUME Inv, completer.pc = "account", completer.piece \in inflight, NotWritten, waiting' = FALSE,
         UNCHANGED <<accepted, abandoned, known, canceled, finished, callback, answers,
                     ring, event, transport, finalizers, user, faults>>
  PROVE  Inv'
<1> DEFINE p    == completer.piece
           left == inflight \ {p}
<1>1. /\ LookedAt = {p} /\ NextOf = {} /\ completer \in CompleterStates
      /\ completer.next = NoPiece
  BY DEF LookedAt, NextOf, Inv, TypeInv
<1>2. /\ failed' = TRUE /\ inflight' = left /\ UNCHANGED <<active, completed>>
      /\ completer' = [completer EXCEPT !.pc = "signal",
                         !.signal = IF waiting \/ known THEN "fail" ELSE "none",
                         !.finalize = finished # "no" /\ active = 0 /\ inflight' = {}]
  BY DEF NotWritten
<1>3. /\ left \subseteq RealPieces /\ IsFiniteSet(left) /\ Cardinality(left) <= IoDepth
      /\ Cardinality(AllOf(left)) \in Nat
      /\ Cardinality(AllOf(left)) <= Cardinality(AllOf(inflight))
      /\ kernel \cup transport.pieces \subseteq left \cup abandoned
  BY <1>1, LeftInFlight
<1> HIDE DEF left
<1>4. completer' \in CompleterStates /\ completer'.pc = "signal" /\ completer'.next = completer.next
  BY <1>1, <1>2 DEF CompleterStates
<1>5. LookedAt' = {} /\ NextOf' = {} /\ Handed' = Handed
  BY <1>1, <1>2, <1>4 DEF LookedAt, NextOf, Handed
<1>6. TypeInv'
  BY <1>2, <1>3, <1>4, <1>5 DEF Inv, TypeInv, ring
<1>7. PlaceInv'
  BY <1>1, <1>2, <1>3, <1>5 DEF Inv, PlaceInv, ring, left
<1>8. ByteInv'
  <2>1. Cardinality(AllOf(inflight)) \in Nat /\ completed \in Nat /\ Handed \in Nat
    BY AllOfType DEF Inv, TypeInv, Handed
  <2>2. completed + Cardinality(AllOf(left)) <= Handed
    BY <1>3, <2>1 DEF Inv, ByteInv
  <2> QED
    BY <1>2, <1>5, <2>2 DEF ByteInv
<1>9. AnswerInv'
  <2>1. answers = <<>>
    BY DEF Inv, AnswerInv, Quiet
  <2> QED
    BY <1>2, <2>1 DEF Inv, AnswerInv, ring
<1> QED
  BY <1>6, <1>7, <1>8, <1>9 DEF Inv

LEMMA AccountInv == Inv /\ Account => Inv'
<1> SUFFICES ASSUME Inv, Account PROVE Inv'
  OBVIOUS
<1> DEFINE p == completer.piece
<1>1. /\ completer.pc = "account" /\ LookedAt = {p} /\ NextOf = {}
      /\ UNCHANGED <<accepted, abandoned, known, canceled, finished, callback, answers,
                     ring, event, transport, finalizers, user, faults>>
  BY DEF Account, LookedAt, NextOf
<1>2. CASE /\ p \notin inflight /\ completer' = Idle
           /\ UNCHANGED <<active, inflight, completed, waiting, failed>>
  <2>1. /\ completer' \in CompleterStates /\ LookedAt' = {} /\ NextOf' = {}
        /\ Handed' = Handed /\ Quiet' = Quiet
    BY <1>1, <1>2, IdleType DEF LookedAt, NextOf, Handed, Quiet
  <2>2. TypeInv' /\ PlaceInv'
    BY <1>1, <1>2, <2>1 DEF Inv, TypeInv, PlaceInv, ring
  <2>3. ByteInv' /\ AnswerInv'
    BY <1>1, <1>2, <2>1 DEF Inv, ByteInv, AnswerInv, ring
  <2> QED
    BY <2>2, <2>3 DEF Inv
<1>3. CASE p \in inflight /\ Written /\ waiting' = FALSE
  BY <1>1, <1>3, WrittenInv
<1>4. CASE p \in inflight /\ NotWritten /\ waiting' = FALSE
  BY <1>1, <1>4, NotWrittenInv
<1> QED
  BY <1>2, <1>3, <1>4 DEF Account

LEMMA SignalEventInv == Inv /\ SignalEvent => Inv'
<1> SUFFICES ASSUME Inv, SignalEvent PROVE Inv'
  OBVIOUS
<1>1. /\ completer.pc = "signal" /\ Signal(completer.signal)
      /\ completer' = [completer EXCEPT !.pc = "next"] /\ completer \in CompleterStates
      /\ UNCHANGED <<sink, ring, transport, finalizers, user, faults>>
  BY DEF SignalEvent, Inv, TypeInv
<1>2. completer' \in CompleterStates /\ completer'.pc = "next" /\ completer'.next = completer.next
  BY <1>1 DEF CompleterStates
<1>3. /\ LookedAt' = {} /\ LookedAt = {} /\ NextOf' = NextOf /\ Handed' = Handed /\ Quiet' = Quiet
  BY <1>1, <1>2 DEF LookedAt, NextOf, Handed, Quiet, sink
<1>4. event' \in {"clear", "paused", "failed", "gone"}
  BY <1>1, SignalType DEF Inv, CompleterStates
<1>5. TypeInv' /\ PlaceInv'
  BY <1>1, <1>2, <1>3, <1>4 DEF Inv, TypeInv, PlaceInv, ring, sink
<1>6. ByteInv' /\ AnswerInv'
  BY <1>1, <1>3 DEF Inv, ByteInv, AnswerInv, ring, sink
<1> QED
  BY <1>5, <1>6 DEF Inv

LEMMA SubmitNextInv == Inv /\ SubmitNext => Inv'
<1> SUFFICES ASSUME Inv, SubmitNext PROVE Inv'
  OBVIOUS
<1>1. /\ completer.pc = "next" /\ completer \in CompleterStates /\ LookedAt = {}
      /\ UNCHANGED <<transport, user>> /\ transport \in TransportStates
      /\ finalizers \in Nat
      /\ transport.pc \in {"submit", "last"} \/ transport.pieces = {}
  BY DEF SubmitNext, LookedAt, Inv, TypeInv, PlaceInv
<1>2. CASE /\ completer.next = NoPiece /\ completer' = Idle
           /\ finalizers' \in {finalizers, finalizers + 1}
           /\ UNCHANGED <<sink, ring, event, faults>>
  <2>1. /\ completer' \in CompleterStates /\ LookedAt' = {} /\ NextOf' = {} /\ NextOf = {}
        /\ Handed' = Handed /\ Quiet' = Quiet /\ finalizers' \in Nat
    BY <1>1, <1>2, IdleType DEF LookedAt, NextOf, Handed, Quiet, sink
  <2>2. TypeInv' /\ PlaceInv'
    BY <1>1, <1>2, <2>1 DEF Inv, TypeInv, PlaceInv, ring, sink
  <2>3. ByteInv' /\ AnswerInv'
    BY <1>1, <1>2, <2>1 DEF Inv, ByteInv, AnswerInv, ring, sink
  <2> QED
    BY <2>2, <2>3 DEF Inv
<1>3. ASSUME completer.next # NoPiece
      PROVE  /\ NextOf = {completer.next} /\ transport.pieces \ {completer.next} = transport.pieces
             /\ {completer.next} \in SUBSET (transport.pieces \cup NextOf)
  BY <1>1, <1>3 DEF NextOf, Inv, PlaceInv
<1>4. CASE /\ completer.next # NoPiece /\ SubmitBatch({completer.next}) /\ completer' = Idle
           /\ UNCHANGED <<sink, event, faults, finalizers>>
  <2>1. completer' \in CompleterStates /\ LookedAt' = LookedAt /\ NextOf' = NextOf \ {completer.next}
    BY <1>1, <1>3, <1>4, IdleType DEF LookedAt, NextOf
  <2> QED
    BY <1>1, <1>3, <1>4, <2>1, SubmitInv DEF SubmitBatch
<1>5. CASE /\ completer.next # NoPiece /\ Fault /\ SubmitFails({completer.next})
           /\ FailWrite(completer.signal # "none") /\ UNCHANGED finalizers
           /\ completer' = [completer EXCEPT !.pc = "undo"]
  <2>1. completer' \in CompleterStates /\ completer'.pc = "undo"
    BY <1>1, <1>5 DEF CompleterStates
  <2>2. LookedAt' = LookedAt /\ NextOf' = NextOf \ {completer.next}
    BY <1>1, <1>3, <1>5, <2>1 DEF LookedAt, NextOf
  <2> QED
    BY <1>1, <1>3, <1>5, <2>1, <2>2, FailWriteInv
<1> QED
  BY <1>1, <1>2, <1>4, <1>5 DEF SubmitNext

LEMMA CompleterUndoInv == Inv /\ CompleterUndo => Inv'
<1> SUFFICES ASSUME Inv, CompleterUndo PROVE Inv'
  OBVIOUS
<1>1. /\ completer.pc = "undo" /\ Finalize("completion thread") /\ completer' = Idle
      /\ UNCHANGED <<kernel, live, event, transport, finalizers, user>>
      /\ transport \in TransportStates /\ user \in UserStates /\ finalizers \in Nat
  BY DEF CompleterUndo, Inv, TypeInv
<1>2. /\ completer' \in CompleterStates
      /\ NextOf' = NextOf /\ LookedAt' = LookedAt /\ LookedAt = {}
  BY <1>1, IdleType DEF NextOf, LookedAt
<1>3. "completion thread" \in Callers
  BY DEF Callers
<1> QED
  BY <1>1, <1>2, <1>3, FinalizeInv

-----------------------------------------------------------------------------
(* The detached threads and the user                                       *)

LEMMA DetachedFinalizeInv == Inv /\ DetachedFinalize => Inv'
<1> SUFFICES ASSUME Inv, DetachedFinalize PROVE Inv'
  OBVIOUS
<1>1. /\ Finalize("detached thread")
      /\ UNCHANGED <<kernel, live, event, transport, completer, user>>
      /\ transport \in TransportStates /\ user \in UserStates /\ completer \in CompleterStates
  BY DEF DetachedFinalize, Inv, TypeInv
<1>0. finalizers' \in Nat
  <2>1. finalizers \in Nat /\ finalizers > 0 /\ finalizers' = finalizers - 1
    BY DEF DetachedFinalize, Inv, TypeInv
  <2> QED
    BY <2>1
<1>2. NextOf' = NextOf /\ LookedAt' = LookedAt
  BY <1>1 DEF NextOf, LookedAt
<1>3. "detached thread" \in Callers
  BY DEF Callers
<1> QED
  BY <1>0, <1>1, <1>2, <1>3, FinalizeInv

LEMMA CancelInv == Inv /\ Cancel => Inv'
<1> SUFFICES ASSUME Inv, Cancel PROVE Inv'
  OBVIOUS
<1>1. /\ canceled' = TRUE /\ failed' = TRUE /\ waiting' = FALSE /\ active' = 0
      /\ user' = [pc |-> "signal", signal |-> waiting \/ known,
                  finalize |-> finished # "no" /\ inflight = {}]
      /\ UNCHANGED <<accepted, inflight, abandoned, completed, known, finished, callback, answers,
                     ring, event, transport, completer, finalizers, faults>>
  BY DEF Cancel
<1>2. /\ waiting \in BOOLEAN /\ known \in BOOLEAN /\ completed \in Nat
      /\ Handed \in Nat /\ Handed' \in Nat /\ Handed <= Handed'
  BY <1>1 DEF Inv, TypeInv, Handed
<1>3. user' \in UserStates /\ NextOf' = NextOf /\ LookedAt' = LookedAt
  BY <1>1, <1>2 DEF UserStates, NextOf, LookedAt
<1>4. TypeInv'
  <2>1. active' \in 0 .. ChunkSize /\ active' <= accepted
    BY <1>1 DEF Inv, TypeInv
  <2> QED
    BY <1>1, <1>3, <2>1 DEF Inv, TypeInv, ring
<1>5. PlaceInv'
  <2>1. \A p \in inflight \cup abandoned \cup LookedAt : p.at + p.len <= Handed'
    BY <1>2, PieceFields DEF Inv, TypeInv, PlaceInv
  <2> QED
    BY <1>1, <1>3, <2>1 DEF Inv, PlaceInv, ring
<1>6. ByteInv'
  <2>1. Cardinality(AllOf(inflight)) \in Nat
    BY AllOfType DEF Inv, TypeInv
  <2>2. completed + Cardinality(AllOf(inflight)) <= Handed'
    BY <1>2, <2>1 DEF Inv, ByteInv
  <2> QED
    BY <1>1, <1>3, <2>2 DEF Inv, ByteInv, ring
<1>7. AnswerInv'
  <2>1. (answers # <<>> => Quiet)'
    BY <1>1 DEF Inv, AnswerInv, Quiet
  <2> QED
    BY <1>1, <1>3, <2>1 DEF Inv, AnswerInv, ring
<1> QED
  BY <1>4, <1>5, <1>6, <1>7 DEF Inv

LEMMA CancelSignalInv == Inv /\ CancelSignal => Inv'
<1> SUFFICES ASSUME Inv, CancelSignal PROVE Inv'
  OBVIOUS
<1>1. /\ event' \in {"clear", "paused", "failed", "gone"}
      /\ user' = [user EXCEPT !.pc = "finalize"] /\ user \in UserStates
      /\ UNCHANGED <<sink, ring, transport, completer, finalizers, faults>>
  BY SignalType DEF CancelSignal, Inv, TypeInv
<1>2. /\ user' \in UserStates /\ LookedAt' = LookedAt /\ NextOf' = NextOf
      /\ Handed' = Handed /\ Quiet' = Quiet
  BY <1>1 DEF UserStates, LookedAt, NextOf, Handed, Quiet, sink
<1>3. TypeInv' /\ PlaceInv'
  BY <1>1, <1>2 DEF Inv, TypeInv, PlaceInv, ring, sink
<1>4. ByteInv' /\ AnswerInv'
  BY <1>1, <1>2 DEF Inv, ByteInv, AnswerInv, ring, sink
<1> QED
  BY <1>3, <1>4 DEF Inv

LEMMA CancelFinalizeInv == Inv /\ CancelFinalize => Inv'
<1> SUFFICES ASSUME Inv, CancelFinalize PROVE Inv'
  OBVIOUS
<1>1. /\ Finalize("user") \/ UNCHANGED <<sink, file, faults>>
      /\ user' = [user EXCEPT !.pc = "over"] /\ user \in UserStates
      /\ UNCHANGED <<kernel, live, event, transport, completer, finalizers>>
      /\ transport \in TransportStates /\ completer \in CompleterStates /\ finalizers \in Nat
  BY DEF CancelFinalize, Inv, TypeInv
<1>2. user' \in UserStates /\ NextOf' = NextOf /\ LookedAt' = LookedAt
  BY <1>1 DEF UserStates, NextOf, LookedAt
<1>3. "user" \in Callers
  BY DEF Callers
<1> QED
  BY <1>1, <1>2, <1>3, FinalizeInv

-----------------------------------------------------------------------------
(* Theorems                                                                *)

LEMMA NextInv == Inv /\ [Next]_vars => Inv'
<1> SUFFICES ASSUME Inv, [Next]_vars PROVE Inv'
  OBVIOUS
<1>1. CASE Transport \/ NetworkFails
  BY <1>1, WriteInv, TransportSubmitInv, TransportUndoInv, FinishAsyncInv, TransportFinalizeInv,
     RetireInv DEF Transport
<1>2. CASE Completer
  BY <1>2, ReapInv, LookInv, AccountInv, SignalEventInv, SubmitNextInv, CompleterUndoInv
  DEF Completer
<1>3. CASE DetachedFinalize \/ User
  BY <1>3, DetachedFinalizeInv, CancelInv, CancelSignalInv, CancelFinalizeInv DEF User
<1>4. CASE UNCHANGED vars
  BY <1>4, StutterInv
<1> QED
  BY <1>1, <1>2, <1>3, <1>4 DEF Next

\* The sink keeps its invariant, whatever the kernel, the network and its callers do.
THEOREM Invariance == Spec => []Inv
BY InitInv, NextInv, PTL DEF Spec

(* The state keeps its type, and Write, FinishAsync and CompleteWrite never  *)
(* have more than io_depth pieces in flight between them.                    *)
THEOREM TypeCorrect == Spec => []TypeOK
<1>1. Inv => TypeOK
  <2> SUFFICES ASSUME Inv PROVE TypeOK
    OBVIOUS
  <2>1. completed \in 0 .. Length
    <3>1. Cardinality(AllOf(inflight)) \in Nat
      BY AllOfType DEF Inv, TypeInv
    <3> QED
      BY <3>1 DEF Inv, TypeInv, ByteInv, Handed
  <2>2. RealPieces \subseteq Pieces
    BY DEF RealPieces
  <2>3. /\ transport.pc \in {"open", "submit", "undo", "last", "undo last", "finalize", "retire", "ended"}
        /\ completer.pc \in {"idle", "look", "account", "signal", "next", "undo"}
        /\ user.pc \in {"ready", "signal", "finalize", "over"}
    BY DEF Inv, TypeInv, TransportStates, CompleterStates, UserStates
  <2> QED
    BY <2>1, <2>2, <2>3 DEF Inv, TypeInv, TypeOK
<1> QED
  BY <1>1, Invariance, PTL

(* Until something fails, a byte the sink took in is on the disk, in exactly *)
(* one piece in flight, or among the last ones, in active_write_.            *)
THEOREM EveryByteHasOnePlaceAlways == Spec => []EveryByteHasOnePlace
<1>1. Inv => EveryByteHasOnePlace
  <2> SUFFICES ASSUME Inv, ~ failed, finished # "error"
               PROVE  LET held == accepted - active .. accepted - 1
                          flying == AllOf(inflight)
                      IN /\ held \cap flying = {}
                         /\ \A p, q \in inflight : p # q => Cells(p) \cap Cells(q) = {}
                         /\ completed = accepted - active - Cardinality(flying)
                         /\ (0 .. accepted - 1) \ (held \cup flying) \subseteq file
    BY DEF EveryByteHasOnePlace
  <2> DEFINE held == accepted - active .. accepted - 1
             flying == AllOf(inflight)
  <2>1. /\ accepted \in Nat /\ active \in Nat /\ active <= accepted /\ completed \in Nat
        /\ inflight \subseteq RealPieces /\ Handed = accepted - active
    BY DEF Inv, TypeInv, Handed
  <2>2. Cardinality(flying) \in Nat
    BY <2>1, AllOfType
  <2>3. ASSUME NEW p \in inflight, NEW c \in Cells(p)
        PROVE  c \in Nat /\ p.at <= c /\ c < p.at + p.len /\ p.at + p.len <= Handed
               /\ p.at \in Nat /\ p.len \in Nat
    BY <2>1, CellsOfPiece, PieceFields DEF Inv, PlaceInv, Body
  <2>4. held \cap flying = {}
    BY <2>1, <2>3 DEF AllOf
  <2>5. ASSUME NEW p \in inflight, NEW q \in inflight, p # q PROVE Cells(p) \cap Cells(q) = {}
    BY <2>3, <2>5 DEF Inv, PlaceInv
  <2>6. completed = accepted - active - Cardinality(flying)
    BY <2>1, <2>2 DEF Inv, ByteInv
  <2>7. ASSUME NEW c \in 0 .. accepted - 1, c \notin held, c \notin flying PROVE c \in file
    <3>1. c \in 0 .. Handed - 1
      BY <2>1, <2>7
    <3> QED
      BY <2>7, <3>1 DEF Inv, ByteInv
  <2> QED
    BY <2>4, <2>5, <2>6, <2>7
<1> QED
  BY <1>1, Invariance, PTL

(* The finish callback is called at most once, and a success means that the  *)
(* whole body is in the file and that nothing is left to write.              *)
THEOREM SuccessIsTheWholeFileAlways == Spec => []SuccessIsTheWholeFile
<1>1. Inv => SuccessIsTheWholeFile
  BY DEF Inv, AnswerInv, SuccessIsTheWholeFile
<1> QED
  BY <1>1, Invariance, PTL

(* When the result is given, the executor knows of no write of the sink,     *)
(* except those FailWrite gave up.                                           *)
THEOREM DrainedWhenAnsweredAlways == Spec => []DrainedWhenAnswered
<1>1. Inv => DrainedWhenAnswered
  BY DEF Inv, TypeInv, PlaceInv, AnswerInv, Quiet, DrainedWhenAnswered
<1> QED
  BY <1>1, Invariance, PTL
=============================================================================
