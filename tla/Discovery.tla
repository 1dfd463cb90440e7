------------------------------ MODULE Discovery -----------------------------
(***************************************************************************)
(* Participation discovery between an origin and one of its peers.  The    *)
(* exporter turns the capabilities of the endpoint directory into records  *)
(* of a limited life in the origin's store, renews them and withdraws them *)
(* with tombstones.  The peer pulls the changes of that store page by page *)
(* after a cursor and applies them to its own.  The peer's calls may       *)
(* overlap, and their answers may be late or lost.                         *)
(*                                                                         *)
(* The exporter's records are not transitive, so each goes one hop.  Both  *)
(* sides read one clock, and the peer allows for a skew that there is not. *)
(* Signatures, digests and the size of a page in bytes are left out: a     *)
(* page may end after any of its records.                                  *)
(***************************************************************************)
EXTENDS Integers, FiniteSets

CONSTANTS
  Capabilities,      \* each is one record
  Pulls,             \* calls of the peer that may be under way at once
  RecordSeconds,     \* the life of a record,
  RenewAhead,        \* the time before its end at which it is renewed,
  RetainSeconds,     \* and the time for which a tombstone is kept
  RecordSkew,        \* what the peer allows the clocks to differ by
  MaxPerOrigin,      \* entries that a store holds of one origin
  MaxPage,           \* records of a page
  MaxChanges,        \* bounds: changes of the directory or of the export policy,
  MaxClock           \* and of the clock

\* A tombstone outlives every record issued before it.
ASSUME DiscoveryAssumption ==
  /\ RecordSeconds \in Nat \ {0} /\ RenewAhead \in 0..(RecordSeconds - 1)
  /\ RetainSeconds \in Nat /\ RetainSeconds > RecordSeconds /\ RecordSkew \in Nat
  /\ MaxPerOrigin \in Nat \ {0} /\ MaxPage \in Nat \ {0}

VARIABLES
  clock,
  offered,      \* the capabilities of the endpoint directory
  denied,       \* those that the export policy keeps from the peer
  changes,      \* how often one of these two has changed
  refresh,      \* the coordinator and the exporter at work
  origin, peer, \* the two stores
  sequence,     \* of the origin's last change
  peerSequence, \* of the peer's
  cursor,       \* how far the peer has come
  pull,         \* its calls
  announced,    \* the greatest revision the exporter has signed for each capability,
  repeated,     \* and those for which it has signed one no greater than an earlier one: a
                \* capability offered again after its record has gone starts at revision 1
  gone,         \* the last withdrawal of each that the peer has applied,
  late,         \* those of which it has applied something that had ended,
  evicted       \* and those of which a store has dropped an entry to make room

history == <<announced, repeated, gone, late, evicted>>

discoveryVars == <<clock, offered, denied, changes, refresh, origin, peer, sequence, peerSequence, cursor, pull,
                   history>>

\* What a store holds under the name of a record: its revision, whether it is withdrawn, when
\* it was issued and until when it counts; and its place among the changes of the store.
Nothing == [revision |-> 0, kind |-> "none", issued |-> 0, until |-> 0, sequence |-> 0]
NewRecord(r) == [revision |-> r, kind |-> "record", issued |-> clock, until |-> clock + RecordSeconds,
              sequence |-> 0]
NewTombstone(r) == [revision |-> r, kind |-> "tombstone", issued |-> clock,
                 until |-> clock + RetainSeconds, sequence |-> 0]

IsHeld(e) == e.kind # "none"
IsLive(e) == e.kind = "record" /\ e.until > clock
Same(e, f) == [e EXCEPT !.sequence = 0] = [f EXCEPT !.sequence = 0]

NoPull == [pc |-> "idle", after |-> 0, items |-> {}, next |-> 0]

DiscoveryTypeOK ==
  /\ clock \in 0..MaxClock /\ offered \subseteq Capabilities /\ denied \subseteq Capabilities
  /\ \A c \in Capabilities :
       /\ origin[c].kind \in {"none", "record", "tombstone"}
       /\ IsHeld(origin[c]) => origin[c].sequence \in 1..sequence
       /\ peer[c].kind \in {"none", "record", "tombstone"}
       /\ IsHeld(peer[c]) => peer[c].sequence \in 1..peerSequence
  /\ \A store \in {origin, peer} : Cardinality({c \in Capabilities : IsHeld(store[c])}) <= MaxPerOrigin
  /\ \A p \in Pulls : pull[p].pc \in {"idle", "building", "answered"}
  /\ cursor \in 0..sequence

-----------------------------------------------------------------------------
(* A store *)

\* Bug: whatever is not the same revision is applied.
ApplyResultLatest(e, value) ==
  IF IsHeld(e) /\ value.revision = e.revision
  THEN IF Same(value, e) THEN "duplicate" ELSE "conflict" ELSE "applied"

\* An older revision is stale; the same one again is a duplicate, or a conflict.
ApplyResult(e, value) ==
  IF IsHeld(e) /\ value.revision < e.revision THEN "stale"
  ELSE IF IsHeld(e) /\ value.revision = e.revision
       THEN IF Same(value, e) THEN "duplicate" ELSE "conflict"
  ELSE "applied"

\* Where an applied value goes.
Placed(store, c, value, place) == [store EXCEPT ![c] = [value EXCEPT !.sequence = place]]

\* Records and tombstones alike, the oldest changes are dropped of what does not fit.
Dropped(store) == {c \in Capabilities :
  /\ IsHeld(store[c])
  /\ Cardinality({d \in Capabilities : IsHeld(store[d]) /\ store[d].sequence >= store[c].sequence})
       > MaxPerOrigin}
Enforced(store) == [c \in Capabilities |-> IF c \in Dropped(store) THEN Nothing ELSE store[c]]

\* What has reached its end is removed.
Pruned(store) == [c \in Capabilities |-> IF store[c].until <= clock THEN Nothing ELSE store[c]]

-----------------------------------------------------------------------------
(* The exporter *)

\* A change of the directory asks for a refresh: at once, or after the one that is running.
Requested(r) == IF r.running THEN [r EXCEPT !.dirty = TRUE] ELSE [r EXCEPT !.scheduled = TRUE]

ChangeDirectory(c) ==
  /\ changes < MaxChanges
  /\ changes' = changes + 1
  /\ offered' = IF c \in offered THEN offered \ {c} ELSE offered \cup {c}
  /\ refresh' = Requested(refresh)
  /\ UNCHANGED <<clock, denied, origin, peer, sequence, peerSequence, cursor, pull, history>>

\* A refresh asked for on any other occasion, to renew what ends soon.
RequestRefresh ==
  /\ refresh' = Requested(refresh)
  /\ UNCHANGED <<clock, offered, denied, changes, origin, peer, sequence, peerSequence, cursor, pull, history>>

\* The directory is read, and the live records of the store.
StartRefresh ==
  /\ refresh.scheduled /\ ~refresh.running
  /\ refresh' = [refresh EXCEPT !.scheduled = FALSE, !.running = TRUE, !.at = clock,
                                !.offered = offered, !.left = Capabilities,
                                !.current = [c \in Capabilities |->
                                  IF IsLive(origin[c]) THEN origin[c] ELSE Nothing]]
  /\ UNCHANGED <<clock, offered, denied, changes, origin, peer, sequence, peerSequence, cursor, pull, history>>

\* A record that is good for a while is left alone; one that is new, or ends soon, is signed
\* at the revision after the live one; one that nobody offers any more is withdrawn.
Export(c) ==
  LET previous == refresh.current[c]
      at == refresh.at
      fresh == IsHeld(previous) /\ previous.until > at + RenewAhead
      value == IF c \in refresh.offered
               THEN [NewRecord(previous.revision + 1) EXCEPT !.issued = at, !.until = at + RecordSeconds]
               ELSE [NewTombstone(previous.revision + 1) EXCEPT !.issued = at, !.until = at + RetainSeconds]
      signs == IF c \in refresh.offered THEN ~fresh ELSE IsHeld(previous)
  IN
  /\ refresh.running /\ c \in refresh.left
  /\ refresh' = IF signs /\ ApplyResult(origin[c], value) = "conflict"
                THEN [refresh EXCEPT !.left = {}] ELSE [refresh EXCEPT !.left = @ \ {c}]
  /\ IF signs
     THEN /\ announced' = [announced EXCEPT ![c] = IF value.revision > @ THEN value.revision ELSE @]
          /\ repeated' = IF value.revision > announced[c] THEN repeated ELSE repeated \cup {c}
          /\ IF ApplyResult(origin[c], value) = "applied"
             THEN /\ sequence' = sequence + 1
                  /\ origin' = Enforced(Placed(origin, c, value, sequence + 1))
                  /\ evicted' = evicted \cup Dropped(Placed(origin, c, value, sequence + 1))
             ELSE UNCHANGED <<origin, sequence, evicted>>
     ELSE UNCHANGED <<origin, sequence, announced, repeated, evicted>>
  /\ UNCHANGED <<clock, offered, denied, changes, peer, peerSequence, cursor, pull, gone, late>>

\* The directory, the signer or the store fails: the rest is left out.
FailRefresh ==
  /\ refresh.running /\ refresh.left # {}
  /\ refresh' = [refresh EXCEPT !.left = {}]
  /\ UNCHANGED <<clock, offered, denied, changes, origin, peer, sequence, peerSequence, cursor, pull, history>>

EndRefresh ==
  /\ refresh.running /\ refresh.left = {}
  /\ refresh' = [refresh EXCEPT !.running = FALSE, !.dirty = FALSE, !.scheduled = refresh.dirty]
  /\ UNCHANGED <<clock, offered, denied, changes, origin, peer, sequence, peerSequence, cursor, pull, history>>

-----------------------------------------------------------------------------
(* The origin answers *)

\* The first change after a place.
NextChange(after) == {c \in Capabilities :
  /\ IsHeld(origin[c]) /\ origin[c].sequence > after
  /\ \A d \in Capabilities :
       IsHeld(origin[d]) /\ origin[d].sequence > after => origin[c].sequence <= origin[d].sequence}

\* What the peer is shown of a change: the policy turns a record into a tombstone.
Exported(c) ==
  IF origin[c].kind = "record" /\ c \in denied THEN NewTombstone(origin[c].revision + 1)
  ELSE [origin[c] EXCEPT !.sequence = 0]

ChangePolicy(c) ==
  /\ changes < MaxChanges
  /\ changes' = changes + 1
  /\ denied' = IF c \in denied THEN denied \ {c} ELSE denied \cup {c}
  /\ UNCHANGED <<clock, offered, refresh, origin, peer, sequence, peerSequence, cursor, pull, history>>

SendPull(p) ==
  /\ pull[p].pc = "idle"
  /\ pull' = [pull EXCEPT ![p] = [NoPull EXCEPT !.pc = "building", !.after = cursor, !.next = cursor]]
  /\ UNCHANGED <<clock, offered, denied, changes, refresh, origin, peer, sequence, peerSequence, cursor, history>>

\* Bug: the cursor moves to the last change there is.
PlaceAfterLatest(c) == sequence

\* Where the cursor stands after a record.
PlaceAfter(c) == origin[c].sequence

\* One more record for the page; the store may change before the next.
AddToPage(p) ==
  /\ pull[p].pc = "building" /\ Cardinality(pull[p].items) < MaxPage
  /\ \E c \in NextChange(pull[p].next) :
       pull' = [pull EXCEPT ![p].items = @ \cup {[name |-> c, value |-> Exported(c),
                                                  place |-> Cardinality(@) + 1]},
                            ![p].next = PlaceAfter(c)]
  /\ UNCHANGED <<clock, offered, denied, changes, refresh, origin, peer, sequence, peerSequence, cursor, history>>

\* The page is full, or there is nothing more; or the answer grows too long.
EndPage(p) ==
  /\ pull[p].pc = "building"
  /\ pull[p].items # {} \/ NextChange(pull[p].next) = {}
  /\ pull' = [pull EXCEPT ![p].pc = "answered"]
  /\ UNCHANGED <<clock, offered, denied, changes, refresh, origin, peer, sequence, peerSequence, cursor, history>>

-----------------------------------------------------------------------------
(* The peer *)

\* The first record of the page is applied.  One that has ended, by any clock within the skew,
\* and one that conflicts end the call, and the cursor stays.
ApplyItem(p) ==
  \E i \in pull[p].items :
    LET c == i.name
        result == ApplyResult(peer[c], i.value)
    IN
    /\ pull[p].pc = "answered"
    /\ \A j \in pull[p].items : i.place <= j.place
    /\ pull' = IF clock > i.value.until + RecordSkew \/ result = "conflict"
               THEN [pull EXCEPT ![p] = NoPull] ELSE [pull EXCEPT ![p].items = @ \ {i}]
    /\ IF clock <= i.value.until + RecordSkew /\ result = "applied"
       THEN /\ peerSequence' = peerSequence + 1
            /\ peer' = Enforced(Placed(peer, c, i.value, peerSequence + 1))
            /\ evicted' = evicted \cup Dropped(Placed(peer, c, i.value, peerSequence + 1))
            /\ gone' = IF i.value.kind = "tombstone" THEN [gone EXCEPT ![c] = i.value] ELSE gone
            /\ late' = IF clock > i.value.until THEN late \cup {c} ELSE late
       ELSE UNCHANGED <<peer, peerSequence, evicted, gone, late>>
    /\ UNCHANGED <<clock, offered, denied, changes, refresh, origin, sequence, cursor, announced, repeated>>

\* All of it is: the caller goes on from the new cursor.
EndPull(p) ==
  /\ pull[p].pc = "answered" /\ pull[p].items = {}
  /\ cursor' = pull[p].next
  /\ pull' = [pull EXCEPT ![p] = NoPull]
  /\ UNCHANGED <<clock, offered, denied, changes, refresh, origin, peer, sequence, peerSequence, history>>

\* The transport fails or the caller does.
LosePull(p) ==
  /\ pull[p].pc # "idle"
  /\ pull' = [pull EXCEPT ![p] = NoPull]
  /\ UNCHANGED <<clock, offered, denied, changes, refresh, origin, peer, sequence, peerSequence, cursor, history>>

PruneOrigin ==
  /\ origin' = Pruned(origin) /\ origin' # origin
  /\ UNCHANGED <<clock, offered, denied, changes, refresh, peer, sequence, peerSequence, cursor, pull, history>>

PrunePeer ==
  /\ peer' = Pruned(peer) /\ peer' # peer
  /\ UNCHANGED <<clock, offered, denied, changes, refresh, origin, sequence, peerSequence, cursor, pull, history>>

DiscoveryTick ==
  /\ clock < MaxClock
  /\ clock' = clock + 1
  /\ UNCHANGED <<offered, denied, changes, refresh, origin, peer, sequence, peerSequence, cursor, pull, history>>

-----------------------------------------------------------------------------
DiscoveryInit ==
  /\ clock = 0 /\ offered = {} /\ denied = {} /\ changes = 0
  /\ refresh = [scheduled |-> FALSE, running |-> FALSE, dirty |-> FALSE, at |-> 0, offered |-> {},
                left |-> {}, current |-> [c \in Capabilities |-> Nothing]]
  /\ origin = [c \in Capabilities |-> Nothing] /\ peer = [c \in Capabilities |-> Nothing]
  /\ sequence = 0 /\ peerSequence = 0 /\ cursor = 0
  /\ pull = [p \in Pulls |-> NoPull]
  /\ announced = [c \in Capabilities |-> 0] /\ repeated = {}
  /\ gone = [c \in Capabilities |-> Nothing] /\ late = {} /\ evicted = {}

DiscoveryNext ==
  \/ \E c \in Capabilities : ChangeDirectory(c) \/ ChangePolicy(c) \/ Export(c)
  \/ RequestRefresh \/ StartRefresh \/ FailRefresh \/ EndRefresh
  \/ \E p \in Pulls : SendPull(p) \/ AddToPage(p) \/ EndPage(p) \/ ApplyItem(p) \/ EndPull(p)
                      \/ LosePull(p)
  \/ PruneOrigin \/ PrunePeer \/ DiscoveryTick

DiscoverySpec == DiscoveryInit /\ [][DiscoveryNext]_discoveryVars

-----------------------------------------------------------------------------
\* Discovery design, 6.5: an older advertisement cannot resurrect a record.  What a peer shows
\* was not signed before the last withdrawal that it has applied, however late the answers
\* come and whatever has been pruned meanwhile: a revision that starts again does so later,
\* or in the same instant.  Two exceptions: a tombstone, or the record it withdraws, may be
\* dropped to make room; and once revisions have started again, what the skew lets in after
\* its end may take the place of the tombstone of a later life.
WithdrawnStaysGone ==
  \A c \in Capabilities \ (evicted \cup (late \cap repeated)) :
    IsLive(peer[c]) => peer[c].issued >= gone[c].issued \/ peer[c].revision > gone[c].revision

\* Delta pages: whatever calls overlap, fail or come late, the peer has seen every change that
\* lies behind its cursor, as it is or as a later one, unless it has come to its end or a store
\* has made room.
NothingPassedOver ==
  \A c \in Capabilities \ (repeated \cup evicted) :
    IsHeld(origin[c]) /\ origin[c].sequence <= cursor /\ origin[c].until > clock
      => peer[c].revision >= origin[c].revision
=============================================================================
