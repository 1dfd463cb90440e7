---------------------------- MODULE AtomicJournal ---------------------------
(***************************************************************************)
(* What a storage adapter promises of commitAtomically: a commit is one    *)
(* step, whose answer depends on what has been committed before it.  With  *)
(* SQLite this is the code itself, which runs a commit in one synchronous  *)
(* IMMEDIATE transaction; PostgresCommit implements it with advisory locks *)
(* over many statements.                                                   *)
(*                                                                         *)
(* The events of a commit, the rows of the outbox made from them and the   *)
(* record of its command are kept; the tenant is fixed.                    *)
(***************************************************************************)
EXTENDS Integers, Sequences

CONSTANTS
  Writers,     \* connections on which commands are handled
  Commits,     \* what they ask to commit
  NoCommit,
  Streams,
  Partitions,
  Keys,        \* idempotency keys
  Digests,     \* of payloads
  NoDigest,
  KeyOf,       \* the key of a commit, its digest, partition,
  DigestOf,
  PartitionOf,
  Checked,     \* the streams whose version it checks without appending to them,
  Appended     \* and the streams of its events, in their order

\* The streams a commit is conditional on.
Touched(c) == Checked[c] \cup {Appended[c][n] : n \in DOMAIN Appended[c]}

\* Every commit expects something, and a stream stays in its partition.
Sensible ==
  /\ NoDigest \notin Digests /\ NoCommit \notin Commits
  /\ KeyOf \in [Commits -> Keys] /\ DigestOf \in [Commits -> Digests]
  /\ PartitionOf \in [Commits -> Partitions]
  /\ Checked \in [Commits -> SUBSET Streams] /\ Appended \in [Commits -> Seq(Streams)]
  /\ \A c \in Commits : Touched(c) # {}
  /\ \A c, d \in Commits : Touched(c) \cap Touched(d) # {} => PartitionOf[c] = PartitionOf[d]

VARIABLES
  rows,      \* of the events
  recorded,  \* the digest of the command of each key
  call       \* of each writer

journalVars == <<rows, recorded, call>>

Answers == {"committed", "replayed", "idempotency_key_reused", "version_conflict"}

\* A call, and one that has not been made.
Called(stage, c, e, a) == [stage |-> stage, commit |-> c, expected |-> e, answer |-> a]
Quiet == Called("none", NoCommit, <<>>, "none")

-----------------------------------------------------------------------------
\* The greatest of some numbers, 0 of none.
Greatest(N) == IF N = {} THEN 0 ELSE CHOOSE n \in N : \A m \in N : m <= n

Version(s) == Greatest({r.version : r \in {q \in rows : q.stream = s}})

Positions(p) == {r.position : r \in {q \in rows : q.partition = p}}

Position(p) == Greatest(Positions(p))

\* The place of an event among those of its stream in its commit.
Ordinal(c, n) == LET OfStream(s) == s = Appended[c][n]
                 IN  Len(SelectSeq(SubSeq(Appended[c], 1, n), OfStream))

\* The rows of a commit after a position and the versions of its streams.
Written(c, position, version) ==
  {[partition |-> PartitionOf[c], position |-> position + n, stream |-> Appended[c][n],
    version |-> version[Appended[c][n]] + Ordinal(c, n), commit |-> c] :
      n \in 1..Len(Appended[c])}

\* What the record of its command says of a commit.
Known(c) == recorded[KeyOf[c]] # NoDigest
FromRecord(c) ==
  IF recorded[KeyOf[c]] = DigestOf[c] THEN "replayed" ELSE "idempotency_key_reused"

Answer(c, expected) ==
  IF Known(c) THEN FromRecord(c)
  ELSE IF \E s \in Touched(c) : Version(s) # expected[s] THEN "version_conflict"
  ELSE "committed"

\* Versions that a handler may have read, one stream after the other, before it asks.
Expectations(c) ==
  {e \in [Touched(c) -> UNION {0..Version(s) : s \in Touched(c)}] :
     \A s \in Touched(c) : e[s] <= Version(s)}

-----------------------------------------------------------------------------
Ask(w, c, e) ==
  /\ call[w].stage = "none"
  /\ call' = [call EXCEPT ![w] = Called("asked", c, e, "none")]
  /\ UNCHANGED <<rows, recorded>>

\* The transaction: everything or nothing, and the record of the command with the events.
Commit(w) ==
  LET c == call[w].commit
      e == call[w].expected
      a == Answer(c, e)
  IN
  /\ call[w].stage = "asked"
  /\ call' = [call EXCEPT ![w] = Called("answered", c, e, a)]
  /\ rows' = IF a = "committed"
             THEN rows \cup Written(c, Position(PartitionOf[c]), [s \in Touched(c) |-> Version(s)])
             ELSE rows
  /\ recorded' = IF a = "committed" THEN [recorded EXCEPT ![KeyOf[c]] = DigestOf[c]] ELSE recorded

\* It is rolled back, and the handler is told of a temporary failure.
Fail(w) ==
  /\ call[w].stage = "asked"
  /\ call' = [call EXCEPT ![w] = Quiet]
  /\ UNCHANGED <<rows, recorded>>

\* The answer arrives or is lost; the command may be sent again, to any writer.
Done(w) ==
  /\ call[w].stage = "answered"
  /\ call' = [call EXCEPT ![w] = Quiet]
  /\ UNCHANGED <<rows, recorded>>

Init ==
  /\ rows = {}
  /\ recorded = [k \in Keys |-> NoDigest]
  /\ call = [w \in Writers |-> Quiet]

Next ==
  \E w \in Writers :
    \/ \E c \in Commits : \E e \in Expectations(c) : Ask(w, c, e)
    \/ Commit(w) \/ Fail(w) \/ Done(w)

Spec == Init /\ [][Next]_journalVars

-----------------------------------------------------------------------------
\* The positions of a partition are 1 to n: nobody who reads on from a position can miss an
\* event that gets its place later.
Gapless == \A p \in Partitions : \E n \in Nat : Positions(p) = 1..n
=============================================================================
