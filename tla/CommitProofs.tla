---------------------------- MODULE CommitProofs ----------------------------
(***************************************************************************)
(* Theorems about PostgresCommit, for any writers, commits, streams,       *)
(* partitions and keys: its transactions implement the atomic journal, and *)
(* the positions of a partition have no gap.                               *)
(***************************************************************************)
EXTENDS PostgresCommit, TLAPS

-----------------------------------------------------------------------------
(* The inductive invariant: what a transaction has read is still so, since *)
(* it holds the lock of everything it has read.                            *)

\* Each lock has one holder.
Exclusive == \A v, w \in Writers : v # w => tx[v].held \cap tx[w].held = {}

\* Phases in which the key is locked, and those in which it has been found to be new.
Keyed(w) == tx[w].phase \notin {"idle", "answered", "begun"}
Fresh(w) ==
  \/ tx[w].phase \in {"streams", "version", "partition", "position"}
  \/ tx[w].phase = "closing" /\ tx[w].answer \in {"committed", "version_conflict"}

Compared(w) ==
  \/ tx[w].phase \in {"partition", "position"}
  \/ tx[w].phase = "closing" /\ tx[w].answer = "committed"

Closing(w, a) == tx[w].phase = "closing" /\ tx[w].answer = a

KeyOK(w) ==
  /\ Keyed(w) => <<"command", KeyOf[tx[w].commit]>> \in tx[w].held
  /\ Fresh(w) => ~Store!Known(tx[w].commit)
  /\ Closing(w, "replayed") \/ Closing(w, "idempotency_key_reused") =>
       Store!Known(tx[w].commit) /\ tx[w].answer = Store!FromRecord(tx[w].commit)

StreamsOK(w) ==
  /\ \A s \in DOMAIN tx[w].seen :
       <<"stream", s>> \in tx[w].held /\ tx[w].seen[s] = Store!Version(s)
  /\ tx[w].phase \in {"begun", "command"} => tx[w].seen = <<>>
  /\ tx[w].phase \in {"streams", "version"} => Left(w) # {}
  /\ tx[w].phase = "version" => <<"stream", FirstLeft(w)>> \in tx[w].held
  /\ tx[w].phase # "idle" => DOMAIN tx[w].seen \subseteq Store!Touched(tx[w].commit)
  /\ Compared(w) =>
       /\ DOMAIN tx[w].seen = Store!Touched(tx[w].commit)
       /\ \A s \in Store!Touched(tx[w].commit) : tx[w].seen[s] = tx[w].expected[s]
  /\ Closing(w, "version_conflict") =>
       \E s \in DOMAIN tx[w].seen : tx[w].seen[s] # tx[w].expected[s]

PartitionOK(w) ==
  /\ tx[w].phase = "position" \/ Closing(w, "committed") =>
       <<"partition", PartitionOf[tx[w].commit]>> \in tx[w].held
  /\ Closing(w, "committed") => tx[w].top = Store!Position(PartitionOf[tx[w].commit])

\* Nothing but phases and answers needs a type.
TxShape(t) ==
  /\ t \in [phase : Phases, commit : Commits \cup {NoCommit}, expected : {t.expected},
            held : SUBSET Locks, seen : {t.seen}, top : {t.top}, answer : Store!Answers \cup {"none"}]
  /\ t.phase # "idle" => t.commit \in Commits
  /\ t.phase = "idle" => t = NoTx
  /\ t.phase = "answered" => t.held = {} /\ t.seen = <<>>
  /\ t.phase = "closing" => t.answer \in Store!Answers

Shape ==
  /\ recorded \in [Keys -> Digests \cup {NoDigest}]
  /\ tx = [w \in Writers |-> tx[w]]
  /\ \A w \in Writers : TxShape(tx[w])

TxOK(w) == KeyOK(w) /\ StreamsOK(w) /\ PartitionOK(w)

IInv == Shape /\ Exclusive /\ \A w \in Writers : TxOK(w)

-----------------------------------------------------------------------------
\* Of the streams that are left one comes first.
LEMMA FirstIsLeft ==
  ASSUME NEW w \in Writers, tx[w].commit \in Commits, Left(w) # {}
  PROVE  FirstLeft(w) \in Left(w) /\ Left(w) \subseteq Streams
<1>1. Left(w) \subseteq Streams
  BY CommitAssumption DEF Store!Sensible, Left, Store!Touched
<1>2. PICK s \in Left(w) : \A t \in Left(w) : Rank[s] <= Rank[t]
  BY <1>1, RankAssumption
<1> QED BY <1>1, <1>2 DEF FirstLeft

-----------------------------------------------------------------------------
(* Frames. *)

\* What is read of the tables stays the same while they do.
LEMMA SameTables ==
  ASSUME UNCHANGED <<rows, recorded>>
  PROVE  /\ \A s : Store!Version(s)' = Store!Version(s)
         /\ \A p : Store!Position(p)' = Store!Position(p)
         /\ \A c : Store!Known(c)' = Store!Known(c)
         /\ \A c : Store!FromRecord(c)' = Store!FromRecord(c)
BY DEF Store!Version, Store!Position, Store!Positions, Store!Known, Store!FromRecord

\* A transaction that does not move while the tables stay the same.
LEMMA Still ==
  ASSUME NEW v \in Writers, TxOK(v), tx'[v] = tx[v],
         \A s \in DOMAIN tx[v].seen : Store!Version(s)' = Store!Version(s),
         Closing(v, "committed") =>
           Store!Position(PartitionOf[tx[v].commit])' = Store!Position(PartitionOf[tx[v].commit]),
         Keyed(v) => /\ Store!Known(tx[v].commit)' = Store!Known(tx[v].commit)
                     /\ Store!FromRecord(tx[v].commit)' = Store!FromRecord(tx[v].commit)
  PROVE  TxOK(v)'
<1>1. KeyOK(v)'
  BY DEF TxOK, KeyOK, Keyed, Fresh, Closing
<1>2. StreamsOK(v)'
  BY DEF TxOK, StreamsOK, Compared, Closing, Left, FirstLeft, Store!Touched
<1>3. PartitionOK(v)'
  BY DEF TxOK, PartitionOK, Closing
<1> QED BY <1>1, <1>2, <1>3 DEF TxOK

\* A step of transaction w that leaves the tables alone.
LEMMA QuietStep ==
  ASSUME IInv, NEW w \in Writers, NEW t, tx' = [tx EXCEPT ![w] = t], TxShape(t),
         UNCHANGED <<rows, recorded>>,
         \A v \in Writers \ {w} : t.held \cap tx[v].held = {},
         TxOK(w)'
  PROVE  IInv'
<1>1. tx'[w] = t /\ \A v \in Writers \ {w} : tx'[v] = tx[v]
  BY DEF IInv, Shape
<1>2. Shape'
  BY <1>1 DEF IInv, Shape, TxShape, Locks, Store!Answers
<1>3. Exclusive'
  BY <1>1 DEF IInv, Exclusive
<1>4. ASSUME NEW v \in Writers PROVE TxOK(v)'
  <2>1. CASE v = w
    BY <2>1
  <2>2. CASE v # w
    BY <1>1, <2>2, SameTables, Still DEF IInv
  <2> QED BY <2>1, <2>2
<1> QED BY <1>2, <1>3, <1>4 DEF IInv

-----------------------------------------------------------------------------
(* One lemma for every step of a transaction. *)

LEMMA NoTxShape == TxShape(NoTx)
BY DEF TxShape, NoTx, Phases, Store!Answers

LEMMA BeginStep ==
  ASSUME IInv, NEW w \in Writers, NEW c \in Commits, NEW e, BeginTx(w, c, e)
  PROVE  IInv'
<1> DEFINE t == [NoTx EXCEPT !.phase = "begun", !.commit = c, !.expected = e]
<1>1. /\ t.phase = "begun" /\ t.commit = c /\ t.expected = e /\ t.held = {} /\ t.seen = <<>>
      /\ TxShape(t)
  BY DEF NoTx, TxShape, Phases, Store!Answers
<1>2. tx' = [tx EXCEPT ![w] = t] /\ UNCHANGED <<rows, recorded>>
  BY DEF BeginTx
<1> HIDE DEF t
<1>3. tx'[w] = t
  BY <1>2 DEF IInv, Shape
<1>4. TxOK(w)'
  BY <1>1, <1>3
     DEF TxOK, KeyOK, StreamsOK, PartitionOK, Keyed, Fresh, Compared, Closing
<1> QED BY <1>1, <1>2, <1>4, QuietStep

\* A transaction that ends, or whose answer is taken.
LEMMA EndStep ==
  ASSUME IInv, NEW w \in Writers, tx' = [tx EXCEPT ![w] = NoTx], UNCHANGED <<rows, recorded>>
  PROVE  IInv'
<1>1. tx'[w] = NoTx
  BY DEF IInv, Shape
<1>2. NoTx.phase = "idle" /\ NoTx.held = {} /\ NoTx.seen = <<>>
  BY DEF NoTx
<1>3. TxOK(w)'
  BY <1>1, <1>2 DEF TxOK, KeyOK, StreamsOK, PartitionOK, Keyed, Fresh, Compared, Closing
<1> QED BY <1>2, <1>3, NoTxShape, QuietStep

\* What a transaction wants is free.
LEMMA GrantedStep ==
  ASSUME IInv, NEW w \in Writers, NEW next \in Phases \ {"idle", "answered", "closing"},
         tx[w].phase \in {"begun", "streams", "partition"}, Granted(w, next)
  PROVE  \E t :
         /\ TxShape(t)
         /\ tx'[w] = t
         /\ tx' = [tx EXCEPT ![w] = t]
         /\ \A v \in Writers \ {w} : t.held \cap tx[v].held = {}
         /\ UNCHANGED <<rows, recorded>>
         /\ t.phase = next /\ t.commit = tx[w].commit /\ t.expected = tx[w].expected
         /\ t.held = tx[w].held \cup Wanted(w) /\ t.seen = tx[w].seen /\ t.top = tx[w].top
<1> DEFINE t == [tx[w] EXCEPT !.held = @ \cup Wanted(w), !.phase = next]
<1>1. TxShape(tx[w]) /\ tx[w].commit \in Commits
  BY DEF IInv, Shape, TxShape
<1>2. Wanted(w) \subseteq Locks
  <2>1. KeyOf[tx[w].commit] \in Keys /\ PartitionOf[tx[w].commit] \in Partitions
    BY <1>1, CommitAssumption DEF Store!Sensible
  <2>2. tx[w].phase = "streams" => FirstLeft(w) \in Streams
    BY <1>1, FirstIsLeft DEF IInv, TxOK, StreamsOK
  <2> QED BY <2>1, <2>2 DEF Wanted, Locks
<1>3. /\ t.phase = next /\ t.commit = tx[w].commit /\ t.expected = tx[w].expected
      /\ t.held = tx[w].held \cup Wanted(w) /\ t.seen = tx[w].seen /\ t.top = tx[w].top
  BY <1>1 DEF TxShape
<1>4. TxShape(t)
  <2>1. t \in [phase : Phases, commit : Commits \cup {NoCommit}, expected : {tx[w].expected},
               held : SUBSET Locks, seen : {tx[w].seen}, top : {tx[w].top},
               answer : Store!Answers \cup {"none"}]
    BY <1>1, <1>2 DEF TxShape
  <2> HIDE DEF t
  <2> QED BY <1>1, <1>3, <2>1 DEF TxShape
<1>5. tx' = [tx EXCEPT ![w] = t] /\ UNCHANGED <<rows, recorded>>
  BY DEF Granted
<1> HIDE DEF t
<1>6. tx'[w] = t
  BY <1>5 DEF IInv, Shape
<1>7. \A v \in Writers \ {w} : t.held \cap tx[v].held = {}
  BY <1>3 DEF Granted, WaitsFor, IInv, Exclusive
<1> QED BY <1>3, <1>4, <1>5, <1>6, <1>7

LEMMA LockKeyStep == ASSUME IInv, NEW w \in Writers, LockKey(w) PROVE IInv'
<1>1. tx[w].phase = "begun" /\ Granted(w, "command")
  BY DEF LockKey
<1>2. PICK t :
      /\ TxShape(t) /\ tx'[w] = t /\ tx' = [tx EXCEPT ![w] = t]
      /\ \A v \in Writers \ {w} : t.held \cap tx[v].held = {}
      /\ UNCHANGED <<rows, recorded>>
      /\ t.phase = "command" /\ t.commit = tx[w].commit /\ t.expected = tx[w].expected
      /\ t.held = tx[w].held \cup Wanted(w) /\ t.seen = tx[w].seen /\ t.top = tx[w].top
  BY <1>1, GrantedStep DEF Phases
<1>3. TxOK(w)'
  <2>1. TxOK(w)
    BY DEF IInv
  <2>2. KeyOK(w)'
    BY <1>1, <1>2, SameTables, <2>1 DEF TxOK, KeyOK, Keyed, Fresh, Closing, Wanted
  <2>3. StreamsOK(w)'
    BY <1>1, <1>2, SameTables, <2>1
       DEF TxOK, StreamsOK, Compared, Closing, Wanted, Store!Touched
  <2>4. PartitionOK(w)'
    BY <1>1, <1>2, SameTables, <2>1 DEF TxOK, PartitionOK, Closing, Wanted
  <2> QED BY <2>2, <2>3, <2>4 DEF TxOK
<1> QED BY <1>2, <1>3, QuietStep

LEMMA LockStreamStep == ASSUME IInv, NEW w \in Writers, LockStream(w) PROVE IInv'
<1>1. tx[w].phase = "streams" /\ Granted(w, "version")
  BY DEF LockStream
<1>2. PICK t :
      /\ TxShape(t) /\ tx'[w] = t /\ tx' = [tx EXCEPT ![w] = t]
      /\ \A v \in Writers \ {w} : t.held \cap tx[v].held = {}
      /\ UNCHANGED <<rows, recorded>>
      /\ t.phase = "version" /\ t.commit = tx[w].commit /\ t.expected = tx[w].expected
      /\ t.held = tx[w].held \cup Wanted(w) /\ t.seen = tx[w].seen /\ t.top = tx[w].top
  BY <1>1, GrantedStep DEF Phases
<1>3. Left(w)' = Left(w) /\ FirstLeft(w)' = FirstLeft(w)
  BY <1>2 DEF Left, FirstLeft, Store!Touched
<1>4. TxOK(w)'
  <2>1. TxOK(w)
    BY DEF IInv
  <2>2. KeyOK(w)'
    BY <1>1, <1>2, <1>3, SameTables, <2>1 DEF TxOK, KeyOK, Keyed, Fresh, Closing, Wanted
  <2>3. StreamsOK(w)'
    BY <1>1, <1>2, <1>3, SameTables, <2>1
       DEF TxOK, StreamsOK, Compared, Closing, Wanted, Store!Touched
  <2>4. PartitionOK(w)'
    BY <1>1, <1>2, <1>3, SameTables, <2>1 DEF TxOK, PartitionOK, Closing, Wanted
  <2> QED BY <2>2, <2>3, <2>4 DEF TxOK
<1> QED BY <1>2, <1>4, QuietStep

LEMMA LockPartitionStep == ASSUME IInv, NEW w \in Writers, LockPartition(w) PROVE IInv'
<1>1. tx[w].phase = "partition" /\ Granted(w, "position")
  BY DEF LockPartition
<1>2. PICK t :
      /\ TxShape(t) /\ tx'[w] = t /\ tx' = [tx EXCEPT ![w] = t]
      /\ \A v \in Writers \ {w} : t.held \cap tx[v].held = {}
      /\ UNCHANGED <<rows, recorded>>
      /\ t.phase = "position" /\ t.commit = tx[w].commit /\ t.expected = tx[w].expected
      /\ t.held = tx[w].held \cup Wanted(w) /\ t.seen = tx[w].seen /\ t.top = tx[w].top
  BY <1>1, GrantedStep DEF Phases
<1>3. TxOK(w)'
  <2>1. TxOK(w)
    BY DEF IInv
  <2>2. KeyOK(w)'
    BY <1>1, <1>2, SameTables, <2>1 DEF TxOK, KeyOK, Keyed, Fresh, Closing, Wanted
  <2>3. StreamsOK(w)'
    BY <1>1, <1>2, SameTables, <2>1
       DEF TxOK, StreamsOK, Compared, Closing, Wanted, Store!Touched
  <2>4. PartitionOK(w)'
    BY <1>1, <1>2, SameTables, <2>1 DEF TxOK, PartitionOK, Closing, Wanted
  <2> QED BY <2>2, <2>3, <2>4 DEF TxOK
<1> QED BY <1>2, <1>3, QuietStep

\* The answer found on record is the one that the transaction gives.
LEMMA ReadCommandStep == ASSUME IInv, NEW w \in Writers, ReadCommand(w) PROVE IInv'
<1> DEFINE c == tx[w].commit
           t == IF Store!Known(c)
                THEN [tx[w] EXCEPT !.phase = "closing", !.answer = Store!FromRecord(c)]
                ELSE [tx[w] EXCEPT !.phase = "streams"]
<1>1. TxShape(tx[w]) /\ c \in Commits /\ tx[w].phase = "command" /\ TxOK(w)
  BY DEF IInv, Shape, TxShape, ReadCommand
<1>2. Store!FromRecord(c) \in {"replayed", "idempotency_key_reused"}
  BY DEF Store!FromRecord
<1>3. /\ t.commit = c /\ t.expected = tx[w].expected /\ t.held = tx[w].held
      /\ t.seen = tx[w].seen /\ t.top = tx[w].top
      /\ Store!Known(c) => t.phase = "closing" /\ t.answer = Store!FromRecord(c)
      /\ ~Store!Known(c) => t.phase = "streams"
  BY <1>1 DEF TxShape
<1>4. TxShape(t)
  <2>1. t \in [phase : Phases, commit : Commits \cup {NoCommit}, expected : {tx[w].expected},
               held : SUBSET Locks, seen : {tx[w].seen}, top : {tx[w].top},
               answer : Store!Answers \cup {"none"}]
    BY <1>1, <1>2 DEF TxShape, Phases, Store!Answers
  <2> HIDE DEF t
  <2> QED BY <1>1, <1>2, <1>3, <2>1 DEF TxShape, Store!Answers
<1>5. tx' = [tx EXCEPT ![w] = t] /\ UNCHANGED <<rows, recorded>>
  BY DEF ReadCommand
<1> HIDE DEF t
<1>6. tx'[w] = t
  BY <1>5 DEF IInv, Shape
<1>7. DOMAIN tx[w].seen = {} /\ Left(w)' # {}
  <2>1. tx[w].seen = <<>> /\ DOMAIN tx[w].seen = {}
    BY <1>1 DEF TxOK, StreamsOK
  <2>2. Store!Touched(c) # {}
    BY <1>1, CommitAssumption DEF Store!Sensible
  <2> QED BY <2>1, <2>2, <1>3, <1>6 DEF Left, Store!Touched
<1>8. TxOK(w)'
  BY <1>1, <1>2, <1>3, <1>5, <1>6, <1>7, SameTables
     DEF TxOK, KeyOK, StreamsOK, PartitionOK, Keyed, Fresh, Compared, Closing, Store!Touched
<1>9. \A v \in Writers \ {w} : t.held \cap tx[v].held = {}
  BY <1>3 DEF IInv, Exclusive
<1> QED BY <1>4, <1>5, <1>8, <1>9, QuietStep

\* What has been read stays under its lock; after the last of them all are as expected,
\* or one is not.
LEMMA ReadVersionStep == ASSUME IInv, NEW w \in Writers, ReadVersion(w) PROVE IInv'
<1> DEFINE c == tx[w].commit
           s == FirstLeft(w)
           seen == [r \in DOMAIN tx[w].seen \cup {s} |->
                      IF r = s THEN Store!Version(s) ELSE tx[w].seen[r]]
           u == [tx[w] EXCEPT !.seen = seen]
           t == IF Left(w) # {s} THEN [u EXCEPT !.phase = "streams"]
                ELSE IF \E r \in Store!Touched(u.commit) : u.seen[r] # u.expected[r]
                THEN [u EXCEPT !.phase = "closing", !.answer = "version_conflict"]
                ELSE [u EXCEPT !.phase = "partition"]
<1>1. TxShape(tx[w]) /\ c \in Commits /\ tx[w].phase = "version" /\ TxOK(w)
  BY DEF IInv, Shape, TxShape, ReadVersion
<1>2. /\ Left(w) # {} /\ s \in Left(w) /\ <<"stream", s>> \in tx[w].held
      /\ DOMAIN tx[w].seen \subseteq Store!Touched(c)
      /\ \A r \in DOMAIN tx[w].seen :
           <<"stream", r>> \in tx[w].held /\ tx[w].seen[r] = Store!Version(r)
      /\ <<"command", KeyOf[c]>> \in tx[w].held /\ ~Store!Known(c)
  BY <1>1, FirstIsLeft DEF TxOK, StreamsOK, KeyOK, Keyed, Fresh
<1>3. /\ DOMAIN seen = DOMAIN tx[w].seen \cup {s} /\ seen[s] = Store!Version(s)
      /\ \A r \in DOMAIN tx[w].seen : seen[r] = Store!Version(r)
  BY <1>2 DEF Left
<1>4. UNCHANGED <<rows, recorded>> /\ tx' = [tx EXCEPT ![w] = t]
  BY DEF ReadVersion
<1> HIDE DEF seen
<1>5. /\ u.phase = "version" /\ u.commit = c /\ u.expected = tx[w].expected
      /\ u.held = tx[w].held /\ u.seen = seen /\ u.top = tx[w].top
      /\ u \in [phase : Phases, commit : Commits \cup {NoCommit}, expected : {tx[w].expected},
               held : SUBSET Locks, seen : {seen}, top : {tx[w].top},
               answer : Store!Answers \cup {"none"}]
  BY <1>1 DEF TxShape
<1> HIDE DEF u
<1>6. /\ t.commit = c /\ t.expected = tx[w].expected
      /\ t.held = tx[w].held /\ t.seen = seen /\ t.top = tx[w].top
      /\ t \in [phase : Phases, commit : Commits \cup {NoCommit}, expected : {tx[w].expected},
               held : SUBSET Locks, seen : {seen}, top : {tx[w].top},
               answer : Store!Answers \cup {"none"}]
  BY <1>5 DEF Phases, Store!Answers
<1>7. \/ Left(w) # {s} /\ t.phase = "streams"
      \/ /\ Left(w) = {s} /\ t.phase = "closing" /\ t.answer = "version_conflict"
         /\ \E r \in Store!Touched(c) : seen[r] # tx[w].expected[r]
      \/ /\ Left(w) = {s} /\ t.phase = "partition"
         /\ \A r \in Store!Touched(c) : seen[r] = tx[w].expected[r]
  BY <1>5
<1> HIDE DEF t, s
<1>8. tx'[w] = t
  BY <1>4 DEF IInv, Shape
<1>9. TxShape(t)
  BY <1>1, <1>6, <1>7 DEF TxShape, Store!Answers
<1>10. Left(w)' = Left(w) \ {s}
  BY <1>3, <1>6, <1>8 DEF Left, Store!Touched
<1>11. Left(w) = {s} => DOMAIN seen = Store!Touched(c)
  BY <1>2, <1>3 DEF Left
<1>12. TxOK(w)'
  <2>1. KeyOK(w)'
    BY <1>2, <1>4, <1>6, <1>7, <1>8, SameTables DEF KeyOK, Keyed, Fresh, Closing
  <2>2. c' = c
    BY <1>6, <1>8
  <2>3. StreamsOK(w)'
    <3>1. \A r \in DOMAIN seen :
            <<"stream", r>> \in t.held /\ seen[r] = Store!Version(r)'
      BY <1>2, <1>3, <1>4, <1>6, SameTables
    <3>2. DOMAIN seen \subseteq Store!Touched(c)
      BY <1>2, <1>3 DEF Left
    <3>3. t.phase = "streams" => Left(w)' # {}
      BY <1>2, <1>7, <1>10
    <3> QED BY <3>1, <3>2, <3>3, <1>6, <1>7, <1>8, <1>11, <2>2
            DEF StreamsOK, Compared, Closing, Store!Touched
  <2>4. PartitionOK(w)'
    BY <1>7, <1>8 DEF PartitionOK, Closing
  <2> QED BY <2>1, <2>3, <2>4 DEF TxOK
<1>13. \A v \in Writers \ {w} : t.held \cap tx[v].held = {}
  BY <1>6 DEF IInv, Exclusive
<1> QED BY <1>4, <1>9, <1>12, <1>13, QuietStep

LEMMA ReadPositionStep == ASSUME IInv, NEW w \in Writers, ReadPosition(w) PROVE IInv'
<1> DEFINE c == tx[w].commit
           top == Store!Position(PartitionOf[c])
           t == [tx[w] EXCEPT !.phase = "closing", !.answer = "committed", !.top = top]
<1>1. TxShape(tx[w]) /\ c \in Commits /\ tx[w].phase = "position" /\ TxOK(w)
  BY DEF IInv, Shape, TxShape, ReadPosition
<1>2. UNCHANGED <<rows, recorded>> /\ tx' = [tx EXCEPT ![w] = t]
  BY DEF ReadPosition
<1>3. top' = top
  BY <1>2 DEF Store!Position, Store!Positions
<1> HIDE DEF top
<1>4. /\ t.phase = "closing" /\ t.answer = "committed" /\ t.commit = c
      /\ t.expected = tx[w].expected /\ t.held = tx[w].held /\ t.seen = tx[w].seen
      /\ t.top = top
      /\ t \in [phase : Phases, commit : Commits \cup {NoCommit}, expected : {tx[w].expected},
               held : SUBSET Locks, seen : {tx[w].seen}, top : {top},
               answer : Store!Answers \cup {"none"}]
  BY <1>1 DEF TxShape, Phases, Store!Answers
<1> HIDE DEF t
<1>5. tx'[w] = t
  BY <1>2 DEF IInv, Shape
<1>6. TxShape(t)
  BY <1>1, <1>4 DEF TxShape, Store!Answers
<1>7. TxOK(w)'
  <2>1. KeyOK(w)'
    BY <1>1, <1>2, <1>4, <1>5, SameTables DEF TxOK, KeyOK, Keyed, Fresh, Closing
  <2>2. StreamsOK(w)'
    BY <1>1, <1>2, <1>4, <1>5, SameTables
       DEF TxOK, StreamsOK, Compared, Closing, Store!Touched
  <2>3. PartitionOK(w)'
    BY <1>1, <1>2, <1>4, <1>5, SameTables DEF TxOK, PartitionOK, Closing, top
  <2> QED BY <2>1, <2>2, <2>3 DEF TxOK
<1>8. \A v \in Writers \ {w} : t.held \cap tx[v].held = {}
  BY <1>4 DEF IInv, Exclusive
<1> QED BY <1>2, <1>6, <1>7, <1>8, QuietStep

\* The rows of a commit leave the streams and the partitions of others as they are.
LEMMA OwnRowsOnly ==
  ASSUME IInv, NEW w \in Writers, Closing(w, "committed"), rows' = rows \cup Inserted(w)
  PROVE  /\ \A s \in Streams : <<"stream", s>> \notin tx[w].held =>
              Store!Version(s)' = Store!Version(s)
         /\ \A p \in Partitions : <<"partition", p>> \notin tx[w].held =>
              Store!Position(p)' = Store!Position(p)
<1> DEFINE c == tx[w].commit
<1>1. c \in Commits /\ TxOK(w)
  BY DEF IInv, Shape, TxShape, Closing
<1>2. <<"partition", PartitionOf[c]>> \in tx[w].held
  BY <1>1 DEF TxOK, PartitionOK
<1>3. \A s \in Store!Touched(c) : <<"stream", s>> \in tx[w].held
  BY <1>1 DEF TxOK, StreamsOK, Compared, Closing
<1>4. \A r \in Inserted(w) : r.stream \in Store!Touched(c) /\ r.partition = PartitionOf[c]
  <2>1. DOMAIN Appended[c] = 1..Len(Appended[c])
    BY <1>1, CommitAssumption DEF Store!Sensible
  <2> QED BY <2>1 DEF Inserted, Store!Written, Store!Touched
<1>5. ASSUME NEW s \in Streams, <<"stream", s>> \notin tx[w].held
      PROVE  Store!Version(s)' = Store!Version(s)
  <2>1. {q \in rows' : q.stream = s} = {q \in rows : q.stream = s}
    BY <1>3, <1>4, <1>5
  <2> QED BY <2>1 DEF Store!Version
<1>6. ASSUME NEW p \in Partitions, <<"partition", p>> \notin tx[w].held
      PROVE  Store!Position(p)' = Store!Position(p)
  <2>1. {q \in rows' : q.partition = p} = {q \in rows : q.partition = p}
    BY <1>2, <1>4, <1>6
  <2> QED BY <2>1 DEF Store!Position, Store!Positions
<1> QED BY <1>5, <1>6

\* A transaction ends with its rows in the tables, or with none; the others do not notice.
LEMMA CommitStep == ASSUME IInv, NEW w \in Writers, Commit(w) PROVE IInv'
<1> DEFINE c == tx[w].commit
           t == [NoTx EXCEPT !.phase = "answered", !.commit = c, !.expected = tx[w].expected,
                             !.answer = tx[w].answer]
<1>1. TxShape(tx[w]) /\ c \in Commits /\ tx[w].phase = "closing" /\ TxOK(w)
      /\ tx[w].answer \in Store!Answers
  BY DEF IInv, Shape, TxShape, Commit
<1>2. /\ t.phase = "answered" /\ t.commit = c /\ t.held = {} /\ t.seen = <<>>
      /\ t.expected = tx[w].expected
      /\ t \in [phase : Phases, commit : Commits \cup {NoCommit}, expected : {tx[w].expected},
               held : SUBSET Locks, seen : {<<>>}, top : {0},
               answer : Store!Answers \cup {"none"}]
  BY <1>1 DEF NoTx, Phases, Store!Answers
<1>3. \/ tx' = [tx EXCEPT ![w] = NoTx] /\ UNCHANGED <<rows, recorded>>
      \/ tx' = [tx EXCEPT ![w] = t] /\ UNCHANGED <<rows, recorded>>
      \/ /\ tx' = [tx EXCEPT ![w] = t]
         /\ tx[w].answer = "committed" /\ rows' = rows \cup Inserted(w)
         /\ recorded' = [recorded EXCEPT ![KeyOf[c]] = DigestOf[c]]
  BY DEF Commit
<1> HIDE DEF t
<1>4. TxShape(t)
  BY <1>1, <1>2 DEF TxShape
<1>5. CASE tx' = [tx EXCEPT ![w] = NoTx] /\ UNCHANGED <<rows, recorded>>
  BY <1>5, EndStep
<1>6. ASSUME tx' = [tx EXCEPT ![w] = t]
      PROVE  tx'[w] = t /\ TxOK(w)' /\ \A v \in Writers \ {w} : tx'[v] = tx[v]
  <2>1. tx'[w] = t /\ \A v \in Writers \ {w} : tx'[v] = tx[v]
    BY <1>6 DEF IInv, Shape
  <2>2. TxOK(w)'
    BY <1>2, <2>1 DEF TxOK, KeyOK, StreamsOK, PartitionOK, Keyed, Fresh, Compared, Closing
  <2> QED BY <2>1, <2>2
<1>7. CASE tx' = [tx EXCEPT ![w] = t] /\ UNCHANGED <<rows, recorded>>
  BY <1>2, <1>4, <1>6, <1>7, QuietStep
<1>8. CASE /\ tx' = [tx EXCEPT ![w] = t]
           /\ tx[w].answer = "committed" /\ rows' = rows \cup Inserted(w)
           /\ recorded' = [recorded EXCEPT ![KeyOf[c]] = DigestOf[c]]
  <2>1. Closing(w, "committed")
    BY <1>1, <1>8 DEF Closing
  <2>2. KeyOf[c] \in Keys /\ DigestOf[c] \in Digests
    BY <1>1, CommitAssumption DEF Store!Sensible
  <2>3. Shape'
    BY <1>4, <1>6, <1>8, <2>2 DEF IInv, Shape, TxShape, Locks, Store!Answers
  <2>4. Exclusive'
    BY <1>2, <1>6, <1>8 DEF IInv, Exclusive
  <2>5. ASSUME NEW v \in Writers \ {w} PROVE TxOK(v)'
    <3>1. tx'[v] = tx[v] /\ TxOK(v) /\ TxShape(tx[v]) /\ tx[v].held \cap tx[w].held = {}
      BY <1>6, <1>8 DEF IInv, Exclusive, Shape
    <3>2. \A s \in DOMAIN tx[v].seen : Store!Version(s)' = Store!Version(s)
      <4>1. \A s \in DOMAIN tx[v].seen : s \in Streams /\ <<"stream", s>> \notin tx[w].held
        BY <3>1 DEF TxOK, StreamsOK, TxShape, Locks
      <4> QED BY <4>1, <1>8, <2>1, OwnRowsOnly
    <3>3. Closing(v, "committed") =>
            Store!Position(PartitionOf[tx[v].commit])' = Store!Position(PartitionOf[tx[v].commit])
      <4> SUFFICES ASSUME Closing(v, "committed")
                   PROVE  Store!Position(PartitionOf[tx[v].commit])'
                            = Store!Position(PartitionOf[tx[v].commit])
        OBVIOUS
      <4>1. tx[v].commit \in Commits /\ PartitionOf[tx[v].commit] \in Partitions
        BY <3>1, CommitAssumption DEF Closing, TxShape, Store!Sensible
      <4>2. <<"partition", PartitionOf[tx[v].commit]>> \notin tx[w].held
        BY <3>1 DEF TxOK, PartitionOK
      <4> QED BY <4>1, <4>2, <3>1, <1>8, <2>1, OwnRowsOnly
    <3>4. Keyed(v) => /\ Store!Known(tx[v].commit)' = Store!Known(tx[v].commit)
                      /\ Store!FromRecord(tx[v].commit)' = Store!FromRecord(tx[v].commit)
      <4> SUFFICES ASSUME Keyed(v)
                   PROVE  recorded'[KeyOf[tx[v].commit]] = recorded[KeyOf[tx[v].commit]]
        BY <3>1 DEF Store!Known, Store!FromRecord
      <4>1. KeyOf[tx[v].commit] # KeyOf[c]
        <5>1. <<"command", KeyOf[c]>> \in tx[w].held
          BY <1>1 DEF TxOK, KeyOK, Keyed
        <5>2. <<"command", KeyOf[tx[v].commit]>> \in tx[v].held
          BY <3>1 DEF TxOK, KeyOK
        <5> QED BY <5>1, <5>2, <3>1
      <4>2. tx[v].commit \in Commits /\ KeyOf[tx[v].commit] \in Keys
        BY <3>1, CommitAssumption DEF Keyed, TxShape, Store!Sensible
      <4> QED BY <4>1, <4>2, <1>8 DEF IInv, Shape
    <3> QED BY <3>1, <3>2, <3>3, <3>4, Still
  <2> QED BY <1>6, <1>8, <2>3, <2>4, <2>5 DEF IInv
<1> QED BY <1>3, <1>5, <1>7, <1>8

-----------------------------------------------------------------------------
(* The invariant. *)

LEMMA InitIInv == CommitInit => IInv
<1> SUFFICES ASSUME CommitInit PROVE IInv
  OBVIOUS
<1>1. NoTx.phase = "idle" /\ NoTx.held = {} /\ NoTx.seen = <<>>
  BY DEF NoTx
<1>2. \A w \in Writers : tx[w] = NoTx
  BY DEF CommitInit
<1>3. ASSUME NEW w \in Writers PROVE TxOK(w)
  <2>1. tx[w].phase = "idle" /\ tx[w].seen = <<>>
    BY <1>1, <1>2
  <2> QED BY <2>1 DEF TxOK, KeyOK, StreamsOK, PartitionOK, Keyed, Fresh, Compared, Closing
<1>4. Shape
  BY <1>2, NoTxShape DEF CommitInit, Shape
<1> QED BY <1>1, <1>2, <1>3, <1>4 DEF IInv, Exclusive

\* Every step of every transaction keeps the invariant.
LEMMA StepKeepsIInv == ASSUME IInv, CommitNext PROVE IInv'
<1>1. PICK w \in Writers :
        \/ \E c \in Commits : \E e \in Store!Expectations(c) : BeginTx(w, c, e)
        \/ Statement(w) \/ Rollback(w) \/ Return(w)
  BY DEF CommitNext
<1>2. CASE \E c \in Commits : \E e \in Store!Expectations(c) : BeginTx(w, c, e)
  BY <1>2, BeginStep
<1>3. CASE Statement(w)
  BY <1>3, LockKeyStep, ReadCommandStep, LockStreamStep, ReadVersionStep, LockPartitionStep,
     ReadPositionStep, CommitStep DEF Statement
<1>4. CASE Rollback(w)
  BY <1>4, EndStep DEF Rollback
<1>5. CASE Return(w)
  BY <1>5, EndStep DEF Return
<1> QED BY <1>1, <1>2, <1>3, <1>4, <1>5

LEMMA StutterKeepsIInv == ASSUME IInv, UNCHANGED commitVars PROVE IInv'
<1>1. UNCHANGED <<rows, recorded>> /\ tx' = tx
  BY DEF commitVars
<1>2. \A w \in Writers : TxOK(w)'
  BY <1>1, SameTables, Still DEF IInv
<1>3. Shape' /\ Exclusive'
  BY <1>1 DEF IInv, Shape, Exclusive, TxShape, Locks, Store!Answers
<1> QED BY <1>2, <1>3 DEF IInv

\* What a transaction has read holds until it ends, in every reachable state.
THEOREM ReadsHold == CommitSpec => []IInv
<1>1. IInv /\ [CommitNext]_commitVars => IInv'
  BY StepKeepsIInv, StutterKeepsIInv
<1> QED BY <1>1, InitIInv, PTL DEF CommitSpec

-----------------------------------------------------------------------------
(* The refinement. *)

Calls == [w \in Writers |-> AsCall(tx[w])]

LEMMA CallStep ==
  ASSUME IInv, NEW w \in Writers, NEW t, tx' = [tx EXCEPT ![w] = t]
  PROVE  Calls' = [Calls EXCEPT ![w] = AsCall(t)]
BY DEF IInv, Shape, Calls

LEMMA QuietCall == AsCall(NoTx) = Store!Quiet
BY DEF AsCall, NoTx, Store!Quiet, Store!Called

\* What a transaction is about stays hidden until it ends.
LEMMA HiddenStep ==
  ASSUME IInv, NEW w \in Writers, NEW t, tx' = [tx EXCEPT ![w] = t],
         tx[w].phase \notin Outside, t.phase \notin Outside,
         t.commit = tx[w].commit, t.expected = tx[w].expected, UNCHANGED <<rows, recorded>>
  PROVE  UNCHANGED Store!journalVars
<1>1. AsCall(t) = AsCall(tx[w])
  BY DEF AsCall, Outside
<1>2. Calls' = [Calls EXCEPT ![w] = Calls[w]]
  BY <1>1, CallStep DEF Calls
<1>3. Calls' = Calls
  BY <1>2 DEF Calls
<1> QED BY <1>3 DEF Calls, Store!journalVars

LEMMA AskStep ==
  ASSUME IInv, NEW w \in Writers, NEW c \in Commits, NEW e \in Store!Expectations(c),
         BeginTx(w, c, e)
  PROVE  Store!Ask(w, c, e)
<1> DEFINE t == [NoTx EXCEPT !.phase = "begun", !.commit = c, !.expected = e]
<1>1. AsCall(t) = Store!Called("asked", c, e, "none")
  <2>1. t.phase = "begun" /\ t.commit = c /\ t.expected = e
    BY DEF NoTx
  <2> HIDE DEF t
  <2> QED BY <2>1 DEF AsCall, Store!Called
<1>2. Calls' = [Calls EXCEPT ![w] = AsCall(t)]
  BY CallStep DEF BeginTx
<1>3. Calls[w].stage = "none"
  BY DEF Calls, AsCall, BeginTx
<1> QED BY <1>1, <1>2, <1>3 DEF BeginTx, Calls, Store!Ask

\* A rollback is a failure of the call, and of nothing else.
LEMMA FailStep ==
  ASSUME IInv, NEW w \in Writers, tx' = [tx EXCEPT ![w] = NoTx], UNCHANGED <<rows, recorded>>,
         tx[w].phase \notin Outside
  PROVE  Store!Fail(w)
<1>1. Calls' = [Calls EXCEPT ![w] = Store!Quiet]
  BY QuietCall, CallStep
<1>2. Calls[w].stage = "asked"
  BY DEF Calls, AsCall, Outside
<1> QED BY <1>1, <1>2 DEF Calls, Store!Fail

LEMMA ReturnStep == ASSUME IInv, NEW w \in Writers, Return(w) PROVE Store!Done(w)
<1>1. Calls' = [Calls EXCEPT ![w] = Store!Quiet]
  BY QuietCall, CallStep DEF Return
<1>2. Calls[w].stage = "answered"
  BY DEF Calls, AsCall, Return
<1> QED BY <1>1, <1>2 DEF Calls, Store!Done, Return

\* The answer given is the answer that the tables call for at the COMMIT.
LEMMA AnswerHolds ==
  ASSUME IInv, NEW w \in Writers, tx[w].phase = "closing"
  PROVE  tx[w].answer = Store!Answer(tx[w].commit, tx[w].expected)
<1> DEFINE c == tx[w].commit
           e == tx[w].expected
<1>1. TxOK(w) /\ c \in Commits /\ tx[w].answer \in Store!Answers
  BY DEF IInv, Shape, TxShape
<1>2. CASE tx[w].answer \in {"replayed", "idempotency_key_reused"}
  BY <1>1, <1>2 DEF TxOK, KeyOK, Closing, Store!Answer
<1>3. CASE tx[w].answer = "version_conflict"
  <2>1. \E s \in Store!Touched(c) : Store!Version(s) # e[s]
    BY <1>1, <1>3 DEF TxOK, StreamsOK, Closing
  <2>2. ~Store!Known(c)
    BY <1>1, <1>3 DEF TxOK, KeyOK, Fresh
  <2> QED BY <1>3, <2>1, <2>2 DEF Store!Answer
<1>4. CASE tx[w].answer = "committed"
  <2>1. \A s \in Store!Touched(c) : Store!Version(s) = e[s]
    BY <1>1, <1>4 DEF TxOK, StreamsOK, Compared
  <2>2. ~Store!Known(c)
    BY <1>1, <1>4 DEF TxOK, KeyOK, Fresh
  <2> QED BY <1>4, <2>1, <2>2 DEF Store!Answer
<1> QED BY <1>1, <1>2, <1>3, <1>4 DEF Store!Answers

LEMMA CommitImplements ==
  ASSUME IInv, NEW w \in Writers, Commit(w)
  PROVE  Store!Commit(w) \/ Store!Fail(w)
<1> DEFINE c == tx[w].commit
           a == tx[w].answer
           t == [NoTx EXCEPT !.phase = "answered", !.commit = c, !.expected = tx[w].expected,
                             !.answer = a]
<1>1. TxShape(tx[w]) /\ c \in Commits /\ tx[w].phase = "closing" /\ TxOK(w)
  BY DEF IInv, Shape, TxShape, Commit
<1>2. CASE tx' = [tx EXCEPT ![w] = NoTx] /\ UNCHANGED <<rows, recorded>>
  BY <1>1, <1>2, FailStep DEF Outside
<1>3. ASSUME tx' = [tx EXCEPT ![w] = t]
      PROVE  Calls' = [Calls EXCEPT ![w] = Store!Called("answered", c, tx[w].expected, a)]
  <2>1. AsCall(t) = Store!Called("answered", c, tx[w].expected, a)
    <3>1. t.phase = "answered" /\ t.commit = c /\ t.expected = tx[w].expected /\ t.answer = a
      BY DEF NoTx
    <3> HIDE DEF t, c, a
    <3> QED BY <3>1 DEF AsCall, Store!Called
  <2> QED BY <1>3, <2>1, CallStep
<1>4. /\ Calls[w].stage = "asked" /\ Calls[w].commit = c
      /\ Calls[w].expected = tx[w].expected /\ a = Store!Answer(c, tx[w].expected)
  BY <1>1, AnswerHolds DEF Calls, AsCall
<1>5. CASE tx' = [tx EXCEPT ![w] = t] /\ a # "committed" /\ UNCHANGED <<rows, recorded>>
  BY <1>3, <1>4, <1>5 DEF Calls, Store!Commit
<1>6. CASE /\ tx' = [tx EXCEPT ![w] = t] /\ a = "committed" /\ rows' = rows \cup Inserted(w)
           /\ recorded' = [recorded EXCEPT ![KeyOf[c]] = DigestOf[c]]
  <2>1. Inserted(w) = Store!Written(c, Store!Position(PartitionOf[c]),
                                    [s \in Store!Touched(c) |-> Store!Version(s)])
    <3> DEFINE seen == [s \in Store!Touched(c) |-> Store!Version(s)]
    <3>1. tx[w].top = Store!Position(PartitionOf[c])
      BY <1>1, <1>6 DEF TxOK, PartitionOK, Closing
    <3>2. \A s \in Store!Touched(c) : tx[w].seen[s] = seen[s]
      BY <1>1, <1>6 DEF TxOK, StreamsOK, Compared
    <3> HIDE DEF seen
    <3>3. \A n \in 1..Len(Appended[c]) : Appended[c][n] \in Store!Touched(c)
      BY <1>1, CommitAssumption DEF Store!Sensible, Store!Touched
    <3>4. \A n \in 1..Len(Appended[c]) : tx[w].seen[Appended[c][n]] = seen[Appended[c][n]]
      BY <3>2, <3>3
    <3>5. Store!Written(c, tx[w].top, tx[w].seen) = Store!Written(c, tx[w].top, seen)
      BY <3>4 DEF Store!Written
    <3> QED BY <3>1, <3>5 DEF Inserted, seen
  <2> QED BY <1>3, <1>4, <1>6, <2>1 DEF Calls, Store!Commit
<1> QED BY <1>2, <1>5, <1>6 DEF Commit

\* Every step of a transaction is hidden, or is one step of the atomic journal.
LEMMA StepImplements ==
  ASSUME IInv, CommitNext
  PROVE  Store!Next \/ UNCHANGED Store!journalVars
<1>1. PICK w \in Writers :
        \/ \E c \in Commits : \E e \in Store!Expectations(c) : BeginTx(w, c, e)
        \/ Statement(w) \/ Rollback(w) \/ Return(w)
  BY DEF CommitNext
<1>2. CASE \E c \in Commits : \E e \in Store!Expectations(c) : BeginTx(w, c, e)
  BY <1>2, AskStep DEF Store!Next
<1>3. CASE Rollback(w)
  BY <1>3, FailStep DEF Rollback, Store!Next
<1>4. CASE Return(w)
  BY <1>4, ReturnStep DEF Store!Next
<1>5. CASE Commit(w)
  BY <1>5, CommitImplements DEF Store!Next
<1>6. ASSUME LockKey(w) \/ LockStream(w) \/ LockPartition(w)
      PROVE  UNCHANGED Store!journalVars
  <2>1. PICK next \in {"command", "version", "position"} :
          tx[w].phase \in {"begun", "streams", "partition"} /\ Granted(w, next)
    BY <1>6 DEF LockKey, LockStream, LockPartition
  <2>2. PICK t : /\ tx' = [tx EXCEPT ![w] = t] /\ UNCHANGED <<rows, recorded>>
                 /\ t.phase = next /\ t.commit = tx[w].commit /\ t.expected = tx[w].expected
    BY <2>1, GrantedStep DEF Phases
  <2> QED BY <2>1, <2>2, HiddenStep DEF Outside
<1>7. ASSUME ReadCommand(w) \/ ReadVersion(w) \/ ReadPosition(w)
      PROVE  UNCHANGED Store!journalVars
  <2>1. TxShape(tx[w]) /\ tx[w].phase \notin Outside /\ UNCHANGED <<rows, recorded>>
    BY <1>7 DEF IInv, Shape, ReadCommand, ReadVersion, ReadPosition, Outside
  <2>2. PICK t : /\ tx' = [tx EXCEPT ![w] = t] /\ t.phase \notin Outside
                 /\ t.commit = tx[w].commit /\ t.expected = tx[w].expected
    <3>1. CASE ReadCommand(w)
      <4> DEFINE t == IF Store!Known(tx[w].commit)
                      THEN [tx[w] EXCEPT !.phase = "closing",
                                         !.answer = Store!FromRecord(tx[w].commit)]
                      ELSE [tx[w] EXCEPT !.phase = "streams"]
      <4>1. t.phase \notin Outside /\ t.commit = tx[w].commit /\ t.expected = tx[w].expected
        BY <2>1 DEF TxShape, Outside
      <4>2. tx' = [tx EXCEPT ![w] = t]
        BY <3>1 DEF ReadCommand
      <4> HIDE DEF t
      <4> QED BY <4>1, <4>2
    <3>2. CASE ReadPosition(w)
      <4> DEFINE t == [tx[w] EXCEPT !.phase = "closing", !.answer = "committed",
                                    !.top = Store!Position(PartitionOf[tx[w].commit])]
      <4>1. t.phase \notin Outside /\ t.commit = tx[w].commit /\ t.expected = tx[w].expected
        BY <2>1 DEF TxShape, Outside
      <4>2. tx' = [tx EXCEPT ![w] = t]
        BY <3>2 DEF ReadPosition
      <4> HIDE DEF t
      <4> QED BY <4>1, <4>2
    <3>3. CASE ReadVersion(w)
      <4> DEFINE s == FirstLeft(w)
                 u == [tx[w] EXCEPT !.seen = [r \in DOMAIN @ \cup {s} |->
                                                IF r = s THEN Store!Version(s) ELSE @[r]]]
                 t == IF Left(w) # {s} THEN [u EXCEPT !.phase = "streams"]
                      ELSE IF \E r \in Store!Touched(u.commit) : u.seen[r] # u.expected[r]
                      THEN [u EXCEPT !.phase = "closing", !.answer = "version_conflict"]
                      ELSE [u EXCEPT !.phase = "partition"]
      <4>1. tx' = [tx EXCEPT ![w] = t]
        BY <3>3 DEF ReadVersion
      <4>2. /\ u.commit = tx[w].commit /\ u.expected = tx[w].expected
            /\ u \in [phase : Phases, commit : Commits \cup {NoCommit}, expected : {u.expected},
                      held : SUBSET Locks, seen : {u.seen}, top : {u.top},
                      answer : Store!Answers \cup {"none"}]
        BY <2>1 DEF TxShape
      <4> HIDE DEF u
      <4>3. t.phase \notin Outside /\ t.commit = tx[w].commit /\ t.expected = tx[w].expected
        BY <4>2 DEF Outside
      <4> HIDE DEF t
      <4> QED BY <4>1, <4>3
    <3> QED BY <1>7, <3>1, <3>2, <3>3
  <2> QED BY <2>1, <2>2, HiddenStep
<1> QED BY <1>1, <1>2, <1>3, <1>4, <1>5, <1>6, <1>7 DEF Statement

LEMMA InitImplements == CommitInit => Store!Init
BY QuietCall DEF CommitInit, Store!Init

\* Transactions of many statements, cut off anywhere, are commits of one step.
THEOREM Serializable == CommitSpec => Store!Spec
<1>1. IInv /\ [CommitNext]_commitVars => [Store!Next]_(Store!journalVars)
  <2>1. UNCHANGED commitVars => UNCHANGED Store!journalVars
    BY DEF commitVars, Store!journalVars
  <2> QED BY <2>1, StepImplements
<1> QED BY <1>1, InitImplements, ReadsHold, PTL DEF CommitSpec, Store!Spec

\* The same of the formula that is checked: each commit has the answer and the effect it
\* would have had in one step.
THEOREM CommitsAreAtomic == CommitSpec => CommitsAtomically
<1>1. IInv /\ [CommitNext]_commitVars
        => [commitVars' = commitVars \/ [Store!Next]_(Store!journalVars)]_commitVars
  BY StepImplements
<1> QED BY <1>1, InitImplements, ReadsHold, PTL DEF CommitSpec, CommitsAtomically

-----------------------------------------------------------------------------
(* The positions of a partition. *)

LEMMA GreatestOfInterval == \A n \in Nat : Store!Greatest(1..n) = n
<1> SUFFICES ASSUME NEW n \in Nat PROVE Store!Greatest(1..n) = n
  OBVIOUS
<1>1. CASE n = 0
  BY <1>1 DEF Store!Greatest
<1>2. CASE n # 0
  <2>1. n \in 1..n /\ \A m \in 1..n : m <= n
    BY <1>2
  <2>2. \A k \in 1..n : (\A m \in 1..n : m <= k) => k = n
    BY <1>2
  <2>3. (CHOOSE k \in 1..n : \A m \in 1..n : m <= k) = n
    BY <2>1, <2>2
  <2> QED BY <2>1, <2>3 DEF Store!Greatest
<1> QED BY <1>1, <1>2

LEMMA GaplessStep == ASSUME IInv, Store!Gapless, CommitNext PROVE Store!Gapless'
<1>1. CASE UNCHANGED rows
  BY <1>1 DEF Store!Gapless, Store!Positions
<1>2. ASSUME NEW w \in Writers, Closing(w, "committed"), rows' = rows \cup Inserted(w)
      PROVE  Store!Gapless'
  <2> DEFINE c == tx[w].commit
             len == Len(Appended[c])
  <2>1. TxOK(w) /\ c \in Commits /\ PartitionOf[c] \in Partitions /\ len \in Nat
    BY <1>2, CommitAssumption DEF IInv, Shape, TxShape, Closing, Store!Sensible
  <2>2. ASSUME NEW p \in Partitions PROVE \E n \in Nat : Store!Positions(p)' = 1..n
    <3>1. PICK n \in Nat : Store!Positions(p) = 1..n
      BY DEF Store!Gapless
    <3>2. CASE p # PartitionOf[c]
      <4>1. \A r \in Inserted(w) : r.partition # p
        BY <3>2 DEF Inserted, Store!Written
      <4>2. {q \in rows' : q.partition = p} = {q \in rows : q.partition = p}
        BY <1>2, <4>1
      <4> QED BY <3>1, <4>2 DEF Store!Positions
    <3>3. CASE p = PartitionOf[c]
      <4>1. tx[w].top = n
        BY <1>2, <2>1, <3>1, <3>3, GreatestOfInterval DEF TxOK, PartitionOK, Store!Position
      <4>2. {r.position : r \in {q \in Inserted(w) : q.partition = p}} = {n + i : i \in 1..len}
        <5>1. \A r \in Inserted(w) :
                r.partition = p /\ \E i \in 1..len : r.position = n + i
          BY <3>3, <4>1 DEF Inserted, Store!Written
        <5>2. \A i \in 1..len : \E r \in Inserted(w) : r.partition = p /\ r.position = n + i
          <6> SUFFICES ASSUME NEW i \in 1..len
                       PROVE  \E r \in Inserted(w) : r.partition = p /\ r.position = n + i
            OBVIOUS
          <6> DEFINE q == [partition |-> PartitionOf[c], position |-> tx[w].top + i,
                           stream |-> Appended[c][i],
                           version |-> tx[w].seen[Appended[c][i]] + Store!Ordinal(c, i),
                           commit |-> c]
          <6>1. q \in Inserted(w)
            BY DEF Inserted, Store!Written
          <6>2. q.partition = p /\ q.position = n + i
            BY <3>3, <4>1
          <6> QED BY <6>1, <6>2
        <5> QED BY <5>1, <5>2
      <4>3. Store!Positions(p)' = Store!Positions(p) \cup {n + i : i \in 1..len}
        BY <1>2, <4>2 DEF Store!Positions
      <4> HIDE DEF len
      <4>4. (1..n) \cup {n + i : i \in 1..len} = 1..(n + len)
        <5>1. ASSUME NEW k \in (n + 1)..(n + len) PROVE k \in {n + i : i \in 1..len}
          <6>1. k - n \in 1..len /\ k = n + (k - n)
            BY <2>1
          <6> QED BY <6>1
        <5> QED BY <5>1, <2>1
      <4>5. n + len \in Nat /\ Store!Positions(p)' = 1..(n + len)
        BY <2>1, <3>1, <4>3, <4>4
      <4> QED BY <4>5
    <3> QED BY <3>2, <3>3
  <2> QED BY <2>2 DEF Store!Gapless
<1>3. ASSUME ~UNCHANGED rows
      PROVE  \E w \in Writers : Closing(w, "committed") /\ rows' = rows \cup Inserted(w)
  BY <1>3 DEF CommitNext, BeginTx, Statement, LockKey, ReadCommand, LockStream, ReadVersion,
              LockPartition, ReadPosition, Commit, Rollback, Return, Granted, Closing
<1> QED BY <1>1, <1>2, <1>3

\* The positions of every partition are 1 to n: a reader that has come to a position never
\* misses an event that is committed later.
THEOREM PositionsGapless == CommitSpec => []Store!Gapless
<1>1. CommitInit => Store!Gapless
  <2> SUFFICES ASSUME CommitInit, NEW p \in Partitions PROVE Store!Positions(p) = 1..0
    BY DEF Store!Gapless
  <2> QED BY DEF CommitInit, Store!Positions
<1>2. Store!Gapless /\ IInv /\ [CommitNext]_commitVars => Store!Gapless'
  <2>1. UNCHANGED commitVars /\ Store!Gapless => Store!Gapless'
    BY DEF commitVars, Store!Gapless, Store!Positions
  <2> QED BY <2>1, GaplessStep
<1> QED BY <1>1, <1>2, ReadsHold, PTL DEF CommitSpec

-----------------------------------------------------------------------------
(* Nobody waits in a circle.  The key is locked before the streams, these  *)
(* before the partition, and a stream only after all that precede it.      *)

InOrder(w) ==
  /\ tx[w].phase = "begun" => tx[w].held = {}
  /\ \A p \in Partitions : <<"partition", p>> \in tx[w].held => tx[w].phase \in {"position", "closing"}
  /\ \A s \in Streams : <<"stream", s>> \in tx[w].held =>
       s \in DOMAIN tx[w].seen \/ (tx[w].phase = "version" /\ s = FirstLeft(w))
  /\ tx[w].phase \in {"streams", "version"} =>
       \A s \in DOMAIN tx[w].seen, t \in Left(w) : Rank[s] < Rank[t]

LocksInOrder == \A w \in Writers : InOrder(w)

\* A transaction that waits for one that holds a stream, and which itself wants one, wants a
\* stream that comes earlier.
LEMMA WaitsForLater ==
  ASSUME IInv, LocksInOrder, NEW w \in Writers, NEW v \in Writers, WaitsFor(w, v),
         tx[w].phase = "streams", tx[v].phase = "streams"
  PROVE  Rank[FirstLeft(w)] < Rank[FirstLeft(v)]
<1>1. /\ FirstLeft(w) \in Streams /\ <<"stream", FirstLeft(w)>> \in tx[v].held
      /\ FirstLeft(v) \in Left(v)
  BY FirstIsLeft DEF IInv, Shape, TxShape, TxOK, StreamsOK, WaitsFor, Wanted
<1>2. FirstLeft(w) \in DOMAIN tx[v].seen
  BY <1>1 DEF LocksInOrder, InOrder
<1> QED BY <1>1, <1>2 DEF LocksInOrder, InOrder

\* The order of locks excludes circles.
LEMMA NoCircle == ASSUME IInv, LocksInOrder PROVE NobodyWaitsInACircle
<1> SUFFICES ASSUME NEW S \in (SUBSET Writers) \ {{}},
                    \A w \in S : \E v \in S \ {w} : WaitsFor(w, v)
             PROVE  FALSE
  BY DEF NobodyWaitsInACircle
<1>1. \A w \in S : tx[w].phase \in {"begun", "streams", "partition"}
  BY DEF WaitsFor, Wanted
<1>2. ASSUME NEW w \in S PROVE tx[w].phase # "partition"
  <2> SUFFICES ASSUME tx[w].phase = "partition" PROVE FALSE
    OBVIOUS
  <2>1. PICK v \in S : WaitsFor(w, v)
    OBVIOUS
  <2>2. PartitionOf[tx[w].commit] \in Partitions
    BY CommitAssumption DEF Store!Sensible, IInv, Shape, TxShape
  <2>3. <<"partition", PartitionOf[tx[w].commit]>> \in tx[v].held
    BY <2>1 DEF WaitsFor, Wanted
  <2> QED BY <1>1, <2>2, <2>3 DEF LocksInOrder, InOrder
<1>3. \E w \in S : tx[w].phase = "streams"
  <2>1. PICK w \in S : TRUE
    OBVIOUS
  <2>2. PICK v \in S : WaitsFor(w, v)
    OBVIOUS
  <2>3. tx[v].phase # "begun"
    BY <2>2 DEF WaitsFor, LocksInOrder, InOrder
  <2> QED BY <1>1, <1>2, <2>3
<1> DEFINE T == {FirstLeft(w) : w \in {u \in S : tx[u].phase = "streams"}}
<1>4. T \in (SUBSET Streams) \ {{}}
  <2>1. ASSUME NEW w \in S, tx[w].phase = "streams" PROVE FirstLeft(w) \in Streams
    <3>1. tx[w].commit \in Commits /\ Left(w) # {}
      BY <2>1 DEF IInv, Shape, TxShape, TxOK, StreamsOK
    <3> QED BY <3>1, FirstIsLeft
  <2> QED BY <1>3, <2>1
<1>5. PICK s \in T : \A t \in T : Rank[t] <= Rank[s]
  BY <1>4, RankAssumption
<1>6. PICK w \in S : tx[w].phase = "streams" /\ FirstLeft(w) = s
  BY <1>5
<1>7. PICK v \in S : WaitsFor(w, v)
  OBVIOUS
<1>8. tx[v].phase = "streams"
  BY <1>1, <1>2, <1>7 DEF WaitsFor, LocksInOrder, InOrder
<1>9. FirstLeft(v) \in T
  BY <1>8
<1>10. Rank[FirstLeft(v)] \in Nat /\ Rank[s] \in Nat
  BY <1>4, <1>5, <1>9, RankAssumption
<1> HIDE DEF T
<1>11. Rank[FirstLeft(v)] <= Rank[s] /\ Rank[s] < Rank[FirstLeft(v)]
  BY <1>5, <1>6, <1>7, <1>8, <1>9, WaitsForLater
<1> QED BY <1>10, <1>11


\* The locks stay in order: for the transaction that moves, by its step.
LEMMA InOrderStill ==
  ASSUME NEW v \in Writers, InOrder(v), tx'[v] = tx[v]
  PROVE  InOrder(v)'
<1>1. Left(v)' = Left(v) /\ FirstLeft(v)' = FirstLeft(v)
  BY DEF Left, FirstLeft, Store!Touched
<1> QED BY <1>1 DEF InOrder

LEMMA InOrderMoves ==
  ASSUME IInv, LocksInOrder, NEW w \in Writers, NEW t, tx' = [tx EXCEPT ![w] = t], InOrder(w)'
  PROVE  LocksInOrder'
<1>1. \A v \in Writers \ {w} : tx'[v] = tx[v]
  BY DEF IInv, Shape
<1> QED BY <1>1, InOrderStill DEF LocksInOrder

\* A transaction that holds no lock and is not locking streams.
LEMMA InOrderUnlocked ==
  ASSUME NEW w \in Writers, tx[w].held = {}, tx[w].phase \notin {"streams", "version"}
  PROVE  InOrder(w)
BY DEF InOrder

LEMMA InOrderGranted ==
  ASSUME IInv, LocksInOrder, NEW w \in Writers, LockKey(w) \/ LockStream(w) \/ LockPartition(w)
  PROVE  LocksInOrder'
<1>1. PICK next \in {"command", "version", "position"} :
        /\ Granted(w, next)
        /\ next = "command" => tx[w].phase = "begun"
        /\ next = "version" => tx[w].phase = "streams"
        /\ next = "position" => tx[w].phase = "partition"
  BY DEF LockKey, LockStream, LockPartition
<1>2. PICK t :
        /\ tx'[w] = t /\ tx' = [tx EXCEPT ![w] = t]
        /\ t.phase = next /\ t.commit = tx[w].commit
        /\ t.held = tx[w].held \cup Wanted(w) /\ t.seen = tx[w].seen
  BY <1>1, GrantedStep DEF Phases
<1>3. Left(w)' = Left(w) /\ FirstLeft(w)' = FirstLeft(w)
  BY <1>2 DEF Left, FirstLeft, Store!Touched
<1>4. InOrder(w)
  BY DEF LocksInOrder
<1>5. InOrder(w)'
  BY <1>1, <1>2, <1>3, <1>4 DEF InOrder, Wanted
<1> QED BY <1>2, <1>5, InOrderMoves

LEMMA InOrderRead ==
  ASSUME IInv, LocksInOrder, NEW w \in Writers, ReadVersion(w)
  PROVE  LocksInOrder'
<1>1. tx[w].phase = "version" /\ InOrder(w) /\ tx[w].commit \in Commits /\ Left(w) # {}
  BY DEF ReadVersion, LocksInOrder, IInv, Shape, TxShape, TxOK, StreamsOK
<1>2. FirstLeft(w) \in Left(w) /\ Left(w) \subseteq Streams
  BY <1>1, FirstIsLeft
<1>3. PICK t :
        /\ tx' = [tx EXCEPT ![w] = t]
        /\ t.held = tx[w].held /\ t.commit = tx[w].commit
        /\ DOMAIN t.seen = DOMAIN tx[w].seen \cup {FirstLeft(w)}
        /\ t.phase \in {"streams", "closing", "partition"}
        /\ t.phase = "streams" => Left(w) # {FirstLeft(w)}
  <2>1. TxShape(tx[w])
    BY DEF IInv, Shape
  <2>2. PICK u : u = [tx[w] EXCEPT !.seen = [r \in DOMAIN @ \cup {FirstLeft(w)} |->
                        IF r = FirstLeft(w) THEN Store!Version(FirstLeft(w)) ELSE @[r]]]
    OBVIOUS
  <2>3. /\ u.held = tx[w].held /\ u.commit = tx[w].commit /\ u.phase = "version"
        /\ DOMAIN u.seen = DOMAIN tx[w].seen \cup {FirstLeft(w)}
    BY <1>1, <2>1, <2>2 DEF TxShape
  <2>4. PICK t :
          /\ tx' = [tx EXCEPT ![w] = t]
          /\ t = IF Left(w) # {FirstLeft(w)} THEN [u EXCEPT !.phase = "streams"]
                 ELSE IF \E r \in Store!Touched(u.commit) : u.seen[r] # u.expected[r]
                 THEN [u EXCEPT !.phase = "closing", !.answer = "version_conflict"]
                 ELSE [u EXCEPT !.phase = "partition"]
    BY <2>2 DEF ReadVersion
  <2>5. u \in [phase : Phases, commit : {u.commit}, expected : {u.expected}, held : {u.held},
               seen : {u.seen}, top : {u.top}, answer : Store!Answers \cup {"none"}]
    BY <2>1, <2>2 DEF TxShape
  <2>6. /\ t.held = u.held /\ t.commit = u.commit /\ t.seen = u.seen
        /\ t.phase \in {"streams", "closing", "partition"}
        /\ t.phase = "streams" => Left(w) # {FirstLeft(w)}
    BY <2>4, <2>5
  <2> QED BY <2>3, <2>4, <2>6
<1>4. tx'[w] = t
  BY <1>3 DEF IInv, Shape
<1>5. Left(w)' = Left(w) \ {FirstLeft(w)}
  BY <1>3, <1>4 DEF Left, Store!Touched
<1>6. \A s \in Left(w) : Rank[FirstLeft(w)] <= Rank[s] /\ Rank[s] \in Nat
  BY <1>1, <1>2, RankAssumption DEF FirstLeft
<1>7. \A s \in Left(w) \ {FirstLeft(w)} : Rank[FirstLeft(w)] < Rank[s]
  BY <1>2, <1>6, RankAssumption
<1>8. \A s \in DOMAIN t.seen, r \in Left(w)' : Rank[s] < Rank[r]
  BY <1>1, <1>3, <1>5, <1>7 DEF InOrder
<1>9. InOrder(w)'
  BY <1>1, <1>3, <1>4, <1>8 DEF InOrder
<1> QED BY <1>3, <1>9, InOrderMoves

\* A command is read before any stream is locked.
LEMMA InOrderCommand ==
  ASSUME IInv, LocksInOrder, NEW w \in Writers, ReadCommand(w)
  PROVE  LocksInOrder'
<1>1. tx[w].phase = "command" /\ InOrder(w) /\ TxShape(tx[w]) /\ tx[w].seen = <<>>
  BY DEF ReadCommand, LocksInOrder, IInv, Shape, TxOK, StreamsOK
<1>2. PICK t :
        /\ tx' = [tx EXCEPT ![w] = t]
        /\ t.held = tx[w].held /\ t.seen = <<>> /\ t.phase \in {"closing", "streams"}
  <2>1. PICK t :
          /\ tx' = [tx EXCEPT ![w] = t]
          /\ t = IF Store!Known(tx[w].commit)
                 THEN [tx[w] EXCEPT !.phase = "closing", !.answer = Store!FromRecord(tx[w].commit)]
                 ELSE [tx[w] EXCEPT !.phase = "streams"]
    BY DEF ReadCommand
  <2>2. t.held = tx[w].held /\ t.seen = tx[w].seen /\ t.phase \in {"closing", "streams"}
    BY <1>1, <2>1 DEF TxShape
  <2> QED BY <1>1, <2>1, <2>2
<1>3. tx'[w] = t
  BY <1>2 DEF IInv, Shape
<1>4. InOrder(w)'
  BY <1>1, <1>2, <1>3 DEF InOrder
<1> QED BY <1>2, <1>4, InOrderMoves

LEMMA InOrderPosition ==
  ASSUME IInv, LocksInOrder, NEW w \in Writers, ReadPosition(w)
  PROVE  LocksInOrder'
<1>1. tx[w].phase = "position" /\ InOrder(w) /\ TxShape(tx[w])
  BY DEF ReadPosition, LocksInOrder, IInv, Shape
<1>2. PICK t :
        /\ tx' = [tx EXCEPT ![w] = t]
        /\ t.held = tx[w].held /\ t.seen = tx[w].seen /\ t.phase = "closing"
  <2>1. PICK t :
          /\ tx' = [tx EXCEPT ![w] = t]
          /\ t = [tx[w] EXCEPT !.phase = "closing", !.answer = "committed",
                               !.top = Store!Position(PartitionOf[tx[w].commit])]
    BY DEF ReadPosition
  <2>2. t.held = tx[w].held /\ t.seen = tx[w].seen /\ t.phase = "closing"
    BY <1>1, <2>1 DEF TxShape
  <2> QED BY <2>1, <2>2
<1>3. tx'[w] = t
  BY <1>2 DEF IInv, Shape
<1>4. InOrder(w)'
  BY <1>1, <1>2, <1>3 DEF InOrder
<1> QED BY <1>2, <1>4, InOrderMoves

\* A transaction that begins or ends holds nothing.
LEMMA InOrderEnds ==
  ASSUME IInv, LocksInOrder, NEW w \in Writers,
         \/ \E c \in Commits : \E e \in Store!Expectations(c) : BeginTx(w, c, e)
         \/ Commit(w) \/ Rollback(w) \/ Return(w)
  PROVE  LocksInOrder'
<1>1. PICK t :
        /\ tx' = [tx EXCEPT ![w] = t]
        /\ t.held = {} /\ t.phase \in {"begun", "idle", "answered"}
  <2>1. CASE \E c \in Commits : \E e \in Store!Expectations(c) : BeginTx(w, c, e)
    <3>1. PICK c, e :
            tx' = [tx EXCEPT ![w] = [NoTx EXCEPT !.phase = "begun", !.commit = c, !.expected = e]]
      BY <2>1 DEF BeginTx
    <3>2. PICK t : t = [NoTx EXCEPT !.phase = "begun", !.commit = c, !.expected = e]
      OBVIOUS
    <3>3. t.held = {} /\ t.phase = "begun"
      BY <3>2 DEF NoTx
    <3> QED BY <3>1, <3>2, <3>3
  <2>2. CASE Commit(w)
    <3>1. PICK t : t = [NoTx EXCEPT !.phase = "answered", !.commit = tx[w].commit,
                          !.expected = tx[w].expected, !.answer = tx[w].answer]
      OBVIOUS
    <3>2. tx' = [tx EXCEPT ![w] = NoTx] \/ tx' = [tx EXCEPT ![w] = t]
      BY <2>2, <3>1 DEF Commit
    <3>3. /\ NoTx.held = {} /\ NoTx.phase = "idle"
          /\ t.held = {} /\ t.phase = "answered"
      BY <3>1 DEF NoTx
    <3> QED BY <3>2, <3>3
  <2>3. CASE Rollback(w) \/ Return(w)
    BY <2>3 DEF Rollback, Return, NoTx
  <2> QED BY <2>1, <2>2, <2>3
<1>2. tx'[w] = t
  BY <1>1 DEF IInv, Shape
<1>3. InOrder(w)'
  BY <1>1, <1>2 DEF InOrder
<1> QED BY <1>1, <1>3, InOrderMoves

LEMMA StepKeepsOrder == ASSUME IInv, LocksInOrder, [CommitNext]_commitVars PROVE LocksInOrder'
<1>1. CASE UNCHANGED commitVars
  BY <1>1, InOrderStill DEF commitVars, LocksInOrder
<1>2. CASE CommitNext
  <2>1. PICK w \in Writers :
          \/ \E c \in Commits : \E e \in Store!Expectations(c) : BeginTx(w, c, e)
          \/ Statement(w) \/ Rollback(w) \/ Return(w)
    BY <1>2 DEF CommitNext
  <2> QED BY <2>1, InOrderGranted, InOrderRead, InOrderCommand, InOrderPosition, InOrderEnds
          DEF Statement
<1> QED BY <1>1, <1>2

\* Transactions that take several locks each never wait for each other in a circle: no
\* command is lost to a deadlock that the database would have to break.
THEOREM NoDeadlock == CommitSpec => []NobodyWaitsInACircle
<1>1. CommitInit => LocksInOrder
  <2>1. CommitInit => \A w \in Writers : tx[w].held = {} /\ tx[w].phase = "idle"
    <3>1. NoTx.held = {} /\ NoTx.phase = "idle"
      BY DEF NoTx
    <3> QED BY <3>1 DEF CommitInit
  <2> QED BY <2>1, InOrderUnlocked DEF LocksInOrder
<1>2. IInv /\ LocksInOrder /\ [CommitNext]_commitVars => LocksInOrder'
  BY StepKeepsOrder
<1>3. IInv /\ LocksInOrder => NobodyWaitsInACircle
  BY NoCircle
<1> QED BY <1>1, <1>2, <1>3, ReadsHold, PTL DEF CommitSpec
=============================================================================
