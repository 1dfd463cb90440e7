----------------------------- MODULE MCNetwork ------------------------------
(***************************************************************************)
(* Instances for TLC of the components that carry signals, records,        *)
(* invocations and offers to others.  They share no state, so a behaviour  *)
(* is about one of them, the focus; the others stay in their initial       *)
(* state.                                                                  *)
(***************************************************************************)
EXTENDS SignalDispatch, Discovery, CapabilityInvocation, Federation, TLC

CONSTANTS Focus,
          MaxRefreshClock,            \* bounds: no refresh of records begins later,
          MaxPlace                    \* and full stores take no more changes

CONSTANTS t1, t2, host,               \* turns of signal dispatch and their host
          q1, q2, c1, c2, c3,         \* calls of discovery's peer; capabilities
          k1, k2, d1, d2,             \* calls of the invocation port; candidates
          x1, x2, o1, o2              \* exchanges of a federation; offers

VARIABLE focus

\* Three instances of discovery: one capability and overlapping calls of the peer; two
\* capabilities and one call at a time; and more capabilities than a store has room for.
ASSUME NetworkAssumption ==
  Focus \subseteq {"signal", "overlap", "pages", "room", "invocation", "federation"}

\* Turns of one host: then only the fencing token tells them apart.
OneHost == [t \in Turns |-> host]

\* The processes of each component are alike, and so are its data.  No state has more than one
\* component at work, so all of them may change names together.
Along(f, a, b) == IF \A x \in DOMAIN f : f[x] = x THEN a :> a @@ b :> b ELSE a :> b @@ b :> a
Renamed(f, g) ==
  f @@ Along(f, q1, q2) @@ Along(f, k1, k2) @@ Along(f, x1, x2)
    @@ g @@ Along(g, d1, d2) @@ Along(g, o1, o2)
NetworkSymmetry ==
  {Renamed(f, g) : f \in Permutations({t1, t2}), g \in Permutations({c1, c2})}

-----------------------------------------------------------------------------
signalVars == <<leaseVars, now, troubles, journal, store, turn>>
networkVars == <<signalVars, discoveryVars, invocationVars, federationVars, focus>>

NetworkInit ==
  /\ focus \in Focus
  /\ Init /\ DiscoveryInit /\ InvocationInit /\ FederationInit

AllBut(f) ==
  /\ UNCHANGED focus
  /\ f # "signal" => UNCHANGED signalVars
  /\ f # "discovery" => UNCHANGED discoveryVars
  /\ f # "invocation" => UNCHANGED invocationVars
  /\ f # "federation" => UNCHANGED federationVars

\* The capabilities that an instance of discovery is about; a refresh passes over the others at
\* once.  At the last instant, when not even the skew lets in what was signed at first, only
\* answers that were given before are applied.
InUse == IF focus = "overlap" THEN {c1} ELSE IF focus = "pages" THEN {c1, c2} ELSE {c1, c2, c3}

\* Of full stores: one of three capabilities may be withdrawn again, which takes four changes,
\* the first at time 0 and the others at 1, and as many places in each store; one answer at a
\* time may be late, and what else there is to do, a refresh or a page, is done at once.
OfRoom ==
  /\ denied' = {} /\ clock' <= 1 /\ sequence' <= MaxPlace /\ peerSequence' <= MaxPlace
  /\ changes' <= Cardinality(offered') + 2 /\ (changes' > 1 => clock = 1)
  /\ refresh'.scheduled /\ ~refresh.scheduled => changes' # changes
  /\ refresh.running \/ refresh.scheduled => refresh' # refresh
  /\ Cardinality(refresh.left \ refresh'.left) <= 1
  /\ c3 \in refresh'.left \/ {c1, c2} \cap refresh'.left = {}
  /\ clock' # clock => \E p \in Pulls : pull[p].pc # "idle"
  /\ (\A p \in Pulls : pull[p].pc # "idle") => pull' # pull
  /\ \A p \in Pulls :
       /\ Cardinality(pull'[p].items) <= 1
       /\ pull[p].pc = "building" \/ (pull[p].pc = "answered" /\ pull[p].items = {})
            => pull'[p] # pull[p]
       /\ pull'[p].pc = "answered" => pull'[p].next # pull'[p].after

OfInstance ==
  /\ offered' \subseteq InUse /\ denied' \subseteq InUse
  /\ refresh.left \ InUse # {} => refresh'.left # refresh.left /\ InUse \subseteq refresh'.left
  /\ ~refresh.running /\ refresh'.running => clock <= MaxRefreshClock
  /\ focus = "overlap" =>
       /\ denied' = {} /\ changes' <= 2
       /\ \A p \in Pulls :
            /\ Cardinality(pull'[p].items) <= 1
            /\ pull[p].pc = "building" /\ pull[p].items # {} => pull'[p].pc # "building"
       /\ refresh'.dirty /\ ~refresh.dirty => changes' # changes
       /\ clock' = MaxClock => ~refresh'.running /\ \A p \in Pulls : pull'[p].pc # "building"
  /\ focus = "pages" =>
       /\ clock' <= MaxRefreshClock + 1 /\ changes' <= 2
       /\ \A p, q \in {r \in Pulls : pull'[r].pc # "idle"} : p = q
  /\ focus = "room" => OfRoom

NetworkNext ==
  \/ focus = "signal" /\ Next /\ AllBut("signal")
  \/ focus \in {"overlap", "pages", "room"} /\ DiscoveryNext /\ OfInstance /\ AllBut("discovery")
  \/ focus = "invocation" /\ InvocationNext /\ AllBut("invocation")
  \/ focus = "federation" /\ FederationNext /\ AllBut("federation")

NetworkSpec == NetworkInit /\ [][NetworkNext]_networkVars

\* What tells the states of a focus apart.  The order of the peer's changes does so only where
\* its store may be full.
View ==
  CASE focus = "signal" -> <<focus, signalVars>>
    [] focus = "invocation" -> <<focus, invocationVars>>
    [] focus = "federation" -> <<focus, federationVars>>
    [] focus = "room" -> <<focus, discoveryVars>>
    [] OTHER -> <<focus, clock, offered, denied, changes, refresh, origin, sequence, cursor, pull, history,
                  [c \in Capabilities |-> [peer[c] EXCEPT !.sequence = 0]]>>

-----------------------------------------------------------------------------
\* The types of all components.
NetworkTypeOK == TypeOK /\ DiscoveryTypeOK /\ InvocationTypeOK /\ FederationTypeOK
=============================================================================
