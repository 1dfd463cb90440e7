--------------------------- MODULE PostgresCommit ---------------------------
(***************************************************************************)
(* commitAtomically on PostgreSQL: a transaction of many statements at the *)
(* level READ COMMITTED, kept apart from others by advisory locks that are *)
(* held until it ends.  It locks its command's key, its streams in their   *)
(* order and its partition, and reads each after locking it.  A connection *)
(* or a process may fail at any point, the reply to COMMIT included.       *)
(***************************************************************************)
EXTENDS Integers, Sequences

CONSTANTS
  Writers, Commits, NoCommit, Streams, Partitions, Keys, Digests, NoDigest,
  KeyOf, DigestOf, PartitionOf, Checked, Appended,
  Rank         \* the place of a stream in the order of their names

\* Names differ; among some of the streams one comes first and, as a database has finitely
\* many, one comes last.
ASSUME RankAssumption ==
  /\ Rank \in [Streams -> Nat]
  /\ \A s, t \in Streams : Rank[s] = Rank[t] => s = t
  /\ \A S \in (SUBSET Streams) \ {{}} :
       /\ \E s \in S : \A t \in S : Rank[s] <= Rank[t]
       /\ \E s \in S : \A t \in S : Rank[t] <= Rank[s]

VARIABLES
  rows, recorded,  \* the committed rows of the tables
  tx               \* the transaction of each writer

commitVars == <<rows, recorded, tx>>

\* Before the command is read, while streams or the partition are locked and read,
\* before COMMIT and after it.
Phases == {"idle", "begun", "command", "streams", "version", "partition", "position", "closing",
           "answered"}

Outside == {"idle", "answered"}

\* seen: the versions read so far; top: the last position of the partition.
NoTx == [phase |-> "idle", commit |-> NoCommit, expected |-> <<>>, held |-> {},
         seen |-> <<>>, top |-> 0, answer |-> "none"]

\* A transaction as a call of the atomic journal: a commit takes effect at its COMMIT.
AsCall(t) ==
  [stage |-> IF t.phase = "idle" THEN "none"
             ELSE IF t.phase = "answered" THEN "answered" ELSE "asked",
   commit |-> t.commit, expected |-> t.expected,
   answer |-> IF t.phase = "answered" THEN t.answer ELSE "none"]

Store == INSTANCE AtomicJournal WITH call <- [w \in Writers |-> AsCall(tx[w])]

ASSUME CommitAssumption == Store!Sensible

Locks == ({"command"} \X Keys) \cup ({"stream"} \X Streams) \cup ({"partition"} \X Partitions)

CommitTypeOK ==
  /\ recorded \in [Keys -> Digests \cup {NoDigest}]
  /\ \A w \in Writers :
       /\ tx[w].phase \in Phases
       /\ tx[w].commit \in Commits \cup {NoCommit}
       /\ tx[w].held \in SUBSET Locks
       /\ DOMAIN tx[w].seen \subseteq Streams
       /\ \A s \in DOMAIN tx[w].seen : tx[w].seen[s] \in Nat
       /\ tx[w].top \in Nat
       /\ tx[w].answer \in Store!Answers \cup {"none"}

-----------------------------------------------------------------------------
\* The streams not read yet, and the first of them.
Left(w) == Store!Touched(tx[w].commit) \ DOMAIN tx[w].seen

\* Bug: the streams are locked in the order in which the commit names them.
FirstLeftUnsorted(w) ==
  CHOOSE s \in Left(w) : \A t \in Left(w) :
    IF Checked[tx[w].commit] = {} THEN Rank[s] >= Rank[t]
    ELSE s = t \/ s \in Checked[tx[w].commit]

FirstLeft(w) == CHOOSE s \in Left(w) : \A t \in Left(w) : Rank[s] <= Rank[t]

\* Bug: a stream that is only checked is not locked.
WantedAppendedOnly(w) ==
  IF tx[w].phase = "begun" THEN {<<"command", KeyOf[tx[w].commit]>>}
  ELSE IF tx[w].phase = "streams"
       THEN {<<"stream", s>> : s \in {FirstLeft(w)} \ Checked[tx[w].commit]}
  ELSE IF tx[w].phase = "partition" THEN {<<"partition", PartitionOf[tx[w].commit]>>}
  ELSE {}

\* The lock a transaction asks for next.
Wanted(w) ==
  IF tx[w].phase = "begun" THEN {<<"command", KeyOf[tx[w].commit]>>}
  ELSE IF tx[w].phase = "streams" THEN {<<"stream", FirstLeft(w)>>}
  ELSE IF tx[w].phase = "partition" THEN {<<"partition", PartitionOf[tx[w].commit]>>}
  ELSE {}

WaitsFor(w, v) == Wanted(w) \cap tx[v].held # {}

\* A lock is granted when no other transaction holds it.
Granted(w, next) ==
  /\ \A v \in Writers \ {w} : ~WaitsFor(w, v)
  /\ tx' = [tx EXCEPT ![w] = [tx[w] EXCEPT !.held = @ \cup Wanted(w), !.phase = next]]
  /\ UNCHANGED <<rows, recorded>>

-----------------------------------------------------------------------------
BeginTx(w, c, e) ==
  /\ tx[w].phase = "idle"
  /\ tx' = [tx EXCEPT ![w] = [NoTx EXCEPT !.phase = "begun", !.commit = c, !.expected = e]]
  /\ UNCHANGED <<rows, recorded>>

LockKey(w) == tx[w].phase = "begun" /\ Granted(w, "command")

\* A command on record is answered from it.
ReadCommand(w) ==
  /\ tx[w].phase = "command"
  /\ tx' = [tx EXCEPT ![w] =
              IF Store!Known(tx[w].commit)
              THEN [tx[w] EXCEPT !.phase = "closing", !.answer = Store!FromRecord(tx[w].commit)]
              ELSE [tx[w] EXCEPT !.phase = "streams"]]
  /\ UNCHANGED <<rows, recorded>>

LockStream(w) == tx[w].phase = "streams" /\ Granted(w, "version")

\* After the last of them the versions are compared.
ReadVersion(w) ==
  LET s == FirstLeft(w)
      t == [tx[w] EXCEPT !.seen = [r \in DOMAIN @ \cup {s} |->
                                     IF r = s THEN Store!Version(s) ELSE @[r]]]
  IN
  /\ tx[w].phase = "version"
  /\ tx' = [tx EXCEPT ![w] =
              IF Left(w) # {s} THEN [t EXCEPT !.phase = "streams"]
              ELSE IF \E r \in Store!Touched(t.commit) : t.seen[r] # t.expected[r]
              THEN [t EXCEPT !.phase = "closing", !.answer = "version_conflict"]
              ELSE [t EXCEPT !.phase = "partition"]]
  /\ UNCHANGED <<rows, recorded>>

LockPartition(w) == tx[w].phase = "partition" /\ Granted(w, "position")

ReadPosition(w) ==
  /\ tx[w].phase = "position"
  /\ tx' = [tx EXCEPT ![w] = [tx[w] EXCEPT !.phase = "closing", !.answer = "committed",
                                           !.top = Store!Position(PartitionOf[tx[w].commit])]]
  /\ UNCHANGED <<rows, recorded>>

-----------------------------------------------------------------------------
\* The rows of a transaction, which nobody else sees before its COMMIT.
Inserted(w) == Store!Written(tx[w].commit, tx[w].top, tx[w].seen)

\* The unique keys of the tables.
Violates(w) ==
  \/ Store!Known(tx[w].commit)
  \/ \E q \in Inserted(w), r \in rows :
       \/ q.stream = r.stream /\ q.version = r.version
       \/ q.partition = r.partition /\ q.position = r.position

\* A transaction ends, and with it its locks.
Commit(w) ==
  LET t == tx[w]
      ends == [NoTx EXCEPT !.phase = "answered", !.commit = t.commit, !.expected = t.expected,
                           !.answer = t.answer]
  IN
  /\ t.phase = "closing"
  /\ IF t.answer = "committed"
     THEN IF Violates(w)
          THEN tx' = [tx EXCEPT ![w] = NoTx] /\ UNCHANGED <<rows, recorded>>
          ELSE /\ tx' = [tx EXCEPT ![w] = ends]
               /\ rows' = rows \cup Inserted(w)
               /\ recorded' = [recorded EXCEPT ![KeyOf[t.commit]] = DigestOf[t.commit]]
     ELSE tx' = [tx EXCEPT ![w] = ends] /\ UNCHANGED <<rows, recorded>>

\* A statement fails, or the connection or the process does.
Rollback(w) ==
  /\ tx[w].phase \notin Outside
  /\ tx' = [tx EXCEPT ![w] = NoTx]
  /\ UNCHANGED <<rows, recorded>>

\* The answer is heard or lost.
Return(w) ==
  /\ tx[w].phase = "answered"
  /\ tx' = [tx EXCEPT ![w] = NoTx]
  /\ UNCHANGED <<rows, recorded>>

CommitInit ==
  /\ rows = {}
  /\ recorded = [k \in Keys |-> NoDigest]
  /\ tx = [w \in Writers |-> NoTx]

Statement(w) ==
  \/ LockKey(w) \/ ReadCommand(w) \/ LockStream(w) \/ ReadVersion(w)
  \/ LockPartition(w) \/ ReadPosition(w) \/ Commit(w)

CommitNext ==
  \E w \in Writers :
    \/ \E c \in Commits : \E e \in Store!Expectations(c) : BeginTx(w, c, e)
    \/ Statement(w) \/ Rollback(w) \/ Return(w)

CommitSpec == CommitInit /\ [][CommitNext]_commitVars

-----------------------------------------------------------------------------
\* However the statements of transactions interleave, and wherever they are cut off, each
\* commit has the answer and the effect it would have had in one step: what it checked
\* still holds when its rows appear.  This is Store!Spec: the mapping depends on these
\* variables alone, and only a step that changes them is looked at.
CommitsAtomically ==
  Store!Init /\ [][commitVars' = commitVars \/ [Store!Next]_(Store!journalVars)]_commitVars

\* No transactions wait for each other in a circle, though each takes several locks.
NobodyWaitsInACircle ==
  \A S \in (SUBSET Writers) \ {{}} : \E w \in S : \A v \in S \ {w} : ~WaitsFor(w, v)
=============================================================================
