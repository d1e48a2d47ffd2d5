------------------------------ MODULE Exporter ------------------------------
(***************************************************************************)
(* One HTTP request (metricsHandler, setupGathers) as the composition of   *)
(* topology discovery and the ibswinfo collector.                          *)
(*                                                                         *)
(* setupGathers asks GetPorts for the topology and registers collectors    *)
(* over the lists it returns, or none when it fails.  GetPorts is taken    *)
(* here by what TopologyCacheProofs proves of it: an answer is at most     *)
(* TopologyAge old.  The ibswinfo collector is SwinfoCollector, extended   *)
(* by whose data an execution returns: switches are queried by the LID the *)
(* topology names, published under its GUID, and at RenumberedAt the       *)
(* subnet manager gives the switches other LIDs.  From then on a LID of an *)
(* older topology is answered by another switch, or by none.               *)
(***************************************************************************)
EXTENDS SwinfoCollector, Functions

CONSTANTS
    TopologyAge,   \* --ibnetdiscover.cache-ttl + --ibnetdiscover.timeout
    LIDs,
    OldLID,        \* OldLID[g]: the LID of g before RenumberedAt
    NewLID,        \* NewLID[g]: the LID of g from then on
    RenumberedAt

ASSUME TopologyAssumption == TopologyAge \in Nat /\ RenumberedAt \in Nat \ {0}
ASSUME LIDsAssumption ==
    /\ OldLID \in [GUIDs -> LIDs] /\ IsInjective(OldLID)
    /\ NewLID \in [GUIDs -> LIDs] /\ IsInjective(NewLID)

VARIABLES
    request,  \* request[s]: "idle", "collect" or "failed", the discovery's outcome
    seen,     \* seen[s]: when the topology of s was read; 0 before and on failure
    reader,   \* reader[w]: the switch whose readings w's execution returned
    owner,    \* owner[w]: the switch whose identifiers and statuses go with them
    origin    \* origin[g]: the switch that the cached fields of g came from

composed == <<request, seen, reader, owner, origin>>
allVars == <<vars, composed>>

LIDAt(g, t) == IF t < RenumberedAt THEN OldLID[g] ELSE NewLID[g]

\* The switch that answers, at time t, to the LID w's topology has for w's switch.
Answers(w, h, t) == LIDAt(h, t) = LIDAt(w[2], seen[w[1]])

ComposedInit ==
    /\ Init
    /\ request = [s \in Scrapes |-> "idle"]
    /\ seen = [s \in Scrapes |-> 0]
    /\ reader = [w \in Workers |-> w[2]]
    /\ owner = [w \in Workers |-> w[2]]
    /\ origin = [g \in GUIDs |-> g]

-----------------------------------------------------------------------------
(* setupGathers                                                            *)

\* GetPorts answers: the collectors are registered, and gathered.
Discover(s) ==
    /\ request[s] = "idle"
    /\ Start(s)
    /\ request' = [request EXCEPT ![s] = "collect"]
    /\ \E v \in 1..now : now - v <= TopologyAge /\ seen' = [seen EXCEPT ![s] = v]
    /\ UNCHANGED <<reader, owner, origin>>

\* mutant: the failed discovery's time is kept as if it had given a topology
FailedAsSeen(s) ==
    /\ request[s] = "idle"
    /\ request' = [request EXCEPT ![s] = "failed"]
    /\ seen' = [seen EXCEPT ![s] = now]
    /\ UNCHANGED <<vars, reader, owner, origin>>

\* mutant: after a failed discovery the collectors are registered over nil lists
FailedAsEmpty(s) ==
    /\ request[s] = "idle"
    /\ request' = [request EXCEPT ![s] = "failed"]
    /\ seen' = [seen EXCEPT ![s] = now]
    /\ disp' = [disp EXCEPT ![s] = "evict"]
    /\ evict' = [evict EXCEPT ![s] = Keys]
    /\ lastRange' = s
    /\ UNCHANGED <<now, cache, totals, pc, loc, result, reader, owner, origin>>

\* GetPorts fails: logged; the request is answered without any device's series,
\* and nothing is evicted.
DiscoverFailed(s) ==
    /\ request[s] = "idle"
    /\ request' = [request EXCEPT ![s] = "failed"]
    /\ UNCHANGED <<vars, seen, reader, owner, origin>>

-----------------------------------------------------------------------------
(* IbswinfoExec by LID, within SwinfoCollector's steps                     *)

\* The copied entry is whoever's it was when it was stored.
CheckEntry(w) ==
    /\ Check(w)
    /\ owner' = [owner EXCEPT ![w] = IF FreshEntry(w[2]) THEN origin[w[2]] ELSE w[2]]
    /\ UNCHANGED <<request, seen, reader, origin>>

VitalsFrom(w) ==
    /\ VitalsOk(w)
    /\ \E h \in GUIDs, t \in loc[w].begin..now :
         Answers(w, h, t) /\ reader' = [reader EXCEPT ![w] = h]
    /\ UNCHANGED <<request, seen, owner, origin>>

FullFrom(w) ==
    /\ FullOk(w)
    /\ \E h \in GUIDs :
         /\ Answers(w, h, loc'[w].asOf)
         /\ reader' = [reader EXCEPT ![w] = h]
         /\ owner' = [owner EXCEPT ![w] = h]
    /\ UNCHANGED <<request, seen, origin>>

StoreFrom(w) ==
    /\ Store(w)
    /\ origin' = [origin EXCEPT ![w[2]] = owner[w]]
    /\ UNCHANGED <<request, seen, reader, owner>>

\* What was read is published, or nothing was.
Forget(w) ==
    /\ Append(w) \/ ExecFailed(w) \/ ParseError(w)
    /\ reader' = [reader EXCEPT ![w] = w[2]]
    /\ owner' = [owner EXCEPT ![w] = w[2]]
    /\ UNCHANGED <<request, seen, origin>>

Evicts(s) ==
    /\ Evict(s)
    /\ origin' = [g \in GUIDs |-> IF cache'[g] = Absent THEN g ELSE origin[g]]
    /\ UNCHANGED <<request, seen, reader, owner>>

Unaffected(A) == A /\ UNCHANGED composed

Collects(s) == Unaffected(Wait(s)) \/ Evicts(s) \/ Unaffected(EvictEnd(s))
Queries(w) ==
    \/ Unaffected(Launch(w)) \/ CheckEntry(w) \/ VitalsFrom(w) \/ FullFrom(w)
    \/ StoreFrom(w) \/ Forget(w) \/ Unaffected(Release(w))

Answered(s) == request[s] = "failed" \/ disp[s] = "done"

ComposedNext ==
    \/ Unaffected(Tick)
    \/ \E s \in Scrapes : Discover(s) \/ DiscoverFailed(s) \/ Collects(s)
    \/ \E w \in Workers : Queries(w)
    \/ (\A s \in Scrapes : Answered(s)) /\ UNCHANGED allVars

ComposedSpec == ComposedInit /\ [][ComposedNext]_allVars

ComposedFairness ==
    /\ \A s \in Scrapes : WF_allVars(Collects(s))
    /\ \A w \in Workers : WF_allVars(Queries(w))

ComposedFairSpec == ComposedSpec /\ ComposedFairness

-----------------------------------------------------------------------------
(* Properties.                                                             *)

ComposedTypeOK ==
    /\ request \in [Scrapes -> {"idle", "collect", "failed"}]
    /\ seen \in [Scrapes -> 0..MaxTime]
    /\ reader \in [Workers -> GUIDs]
    /\ owner \in [Workers -> GUIDs]
    /\ origin \in [GUIDs -> GUIDs]
    /\ \A s \in Scrapes : (seen[s] # 0) <=> (disp[s] # "idle")

\* The static cache is for every request, and a request's list of switches
\* decides what is dropped from it: an entry is lost only to a request whose
\* discovery succeeded and did not find the switch, never to an overlapping one
\* that lists it, nor to one without a topology.
EvictedOnlyUnlisted ==
    [][\A g \in GUIDs : cache[g] # Absent /\ cache'[g] = Absent =>
          \E s \in Scrapes : request[s] = "collect" /\ g \notin DevicesOf[s]]_allVars

\* About to be published under w's GUID: readings or identifiers of another switch.
Foreign(w) == pc[w] = "append" /\ (reader[w] # w[2] \/ owner[w] # w[2])

\* The longest a request's workers can take: one execution after another on
\* each token.
Waves == (Cardinality(GUIDs) + MaxConcurrent - 1) \div MaxConcurrent

\* The longest an entry stays in use after it was stored: it is copied while
\* younger than the TTL, and published after one more execution.
CachedFor == IF TTL > 0 THEN TTL - 1 + RunTime ELSE 0

\* After a renumbering a switch can be published with another switch's serial
\* number, statuses or temperatures, but not for ever: only a request with a
\* topology from before it asks the wrong switch, what that request stored under
\* a wrong GUID expires, and nothing keeps the mistake alive beyond that.
ForeignBounded ==
    \A w \in Workers : Foreign(w) =>
        /\ now >= RenumberedAt
        /\ now <= RenumberedAt - 1 + TopologyAge + Waves * RunTime + CachedFor
=============================================================================
