------------------------------ MODULE AuditChain ------------------------------
(***************************************************************************)
(* The hash-chained audit log of one tenant: append, its slot reservation  *)
(* and repairChain of services/domainEvent.service.js, over the indexes of *)
(* models/domainEvent.model.js and the tail anchor of auditChain.model.js. *)
(*                                                                         *)
(* A hash covers the event's seq and content and its prevHash, so it is    *)
(* the sequence of everything it covers: the genesis hash is <<>>.         *)
(***************************************************************************)
EXTENDS Naturals, Sequences, FiniteSets

CONSTANTS
    Keys,         \* idempotency keys of the facts to record
    NoKey,
    Procs,        \* API requests, webhooks, worker jobs
    CasAttempts,  \* CAS_ATTEMPTS
    MaxTroubles   \* bound on the calls that die half way, an overlap counting one

ASSUME AuditAssumption ==
    /\ NoKey \notin Keys
    /\ CasAttempts \in Nat \ {0} /\ MaxTroubles \in Nat

VARIABLES
    anchor,   \* auditchains: tailSeq and tailHash, if the row exists
    events,   \* domainevents by key; seq 0 is null: stored but unanchored
    call,     \* per process: the next step and what it has read
    overlap,  \* ghost: two calls about one fact, or two first appends of the
              \* tenant, have been in flight together
    crashes

vars == <<anchor, events, call, overlap, crashes>>

NoEvent == [stored |-> FALSE, seq |-> 0, prev |-> <<>>, hash |-> <<>>]

EventHash(key, seq, prev) == Append(prev, <<seq, key>>)

Idle == [at |-> "idle", key |-> NoKey, repair |-> FALSE, tries |-> 0,
         hadAnchor |-> FALSE, seq |-> 0, prev |-> <<>>]

Init ==
    /\ anchor \in [exists : BOOLEAN, tailSeq : {0}, tailHash : {<<>>}]
    /\ events = [k \in Keys |-> NoEvent]
    /\ overlap = FALSE
    /\ call = [p \in Procs |-> Idle]
    /\ crashes = 0

At(p, step) == call[p].at = step
HashOf(c) == EventHash(c.key, c.seq, c.prev)
Return(p) == call' = [call EXCEPT ![p] = Idle]

Troubles == crashes + (IF overlap THEN 1 ELSE 0)

\* An idle process starts a call about k.
Start(p, k) ==
    /\ At(p, "idle")
    /\ overlap' = (overlap \/ \E q \in Procs : call[q].key = k)
    /\ overlap \/ ~overlap' \/ Troubles < MaxTroubles

\* Mutant: the index on (tenantId, seq) is not unique.
SeqTakenNotUnique(k, seq) == FALSE

\* The unique index on (tenantId, seq) holds one event per seq.  A row without
\* a seq stores null, and the index has an entry for it: one such row fits.
SeqTaken(k, seq) == \E j \in Keys \ {k} : events[j].stored /\ events[j].seq = seq

-----------------------------------------------------------------------------
(* append *)

AppendFind(p, k) ==
    /\ Start(p, k)
    /\ ~events[k].stored
    /\ call' = [call EXCEPT ![p] = [Idle EXCEPT !.at = "readAnchor", !.key = k]]
    /\ UNCHANGED <<anchor, events, crashes>>

\* _reserveChainSlot: propose the slot after the tail that was read.
ReadAnchor(p) ==
    /\ At(p, "readAnchor")
    /\ call' = [call EXCEPT ![p].at = "cas", ![p].hadAnchor = anchor.exists,
                            ![p].seq = anchor.tailSeq + 1, ![p].prev = anchor.tailHash]
    /\ overlap' = (overlap \/ (~anchor.exists /\ \E q \in Procs : At(q, "cas")))
    /\ UNCHANGED <<anchor, events, crashes>>

\* Mutant: the update is conditional on the tenant alone.
AdvanceAnchorBlind(p) ==
    /\ At(p, "cas")
    /\ anchor' = [exists |-> TRUE, tailSeq |-> call[p].seq, tailHash |-> HashOf(call[p])]
    /\ call' = [call EXCEPT ![p].at = "insert"]
    /\ UNCHANGED <<events, overlap, crashes>>

\* The compare-and-set on tailSeq; without an anchor, an upsert that matches
\* the tenant whatever its tail has become.
AdvanceAnchor(p) ==
    /\ At(p, "cas")
    /\ LET c == call[p] IN
       IF c.hadAnchor => anchor.tailSeq = c.seq - 1
       THEN /\ anchor' = [exists |-> TRUE, tailSeq |-> c.seq, tailHash |-> HashOf(c)]
            /\ call' = [call EXCEPT ![p].at = "insert"]
       ELSE /\ call' = [call EXCEPT ![p] =
                   IF c.tries + 1 < CasAttempts
                   THEN [c EXCEPT !.at = "readAnchor", !.tries = @ + 1]
                   ELSE IF c.repair THEN Idle
                   ELSE [c EXCEPT !.at = "insert", !.seq = 0, !.prev = <<>>]]
            /\ UNCHANGED anchor
    /\ UNCHANGED <<events, overlap, crashes>>

\* Either unique index refuses the insert with E11000: the call reports a
\* duplicate, after rolling back the slot it had reserved.
Insert(p) ==
    /\ At(p, "insert") /\ ~call[p].repair
    /\ LET c == call[p] IN
       IF events[c.key].stored \/ SeqTaken(c.key, c.seq)
       THEN /\ call' = [call EXCEPT ![p] =
                   IF c.seq = 0 THEN Idle ELSE [c EXCEPT !.at = "rollback"]]
            /\ UNCHANGED events
       ELSE /\ events' = [events EXCEPT ![c.key] =
                   [stored |-> TRUE, seq |-> c.seq, prev |-> c.prev,
                    hash |-> IF c.seq = 0 THEN <<>> ELSE HashOf(c)]]
            /\ Return(p)
    /\ UNCHANGED <<anchor, overlap, crashes>>

\* Only if the tail is still the proposed one.
Rollback(p) ==
    /\ At(p, "rollback")
    /\ LET c == call[p] IN
       anchor' = IF anchor.tailSeq = c.seq /\ anchor.tailHash = HashOf(c)
                 THEN [anchor EXCEPT !.tailSeq = c.seq - 1, !.tailHash = c.prev]
                 ELSE anchor
    /\ Return(p)
    /\ UNCHANGED <<events, overlap, crashes>>

-----------------------------------------------------------------------------
(* repairChain: an unanchored event is given a slot *)

\* Mutant: the repair looks for rows that have a hash already.
RepairFindHashed(p) ==
    \E k \in Keys :
        /\ Start(p, k)
        /\ events[k].stored /\ events[k].seq = 0 /\ events[k].hash # <<>>
        /\ call' = [call EXCEPT ![p] =
                       [Idle EXCEPT !.at = "readAnchor", !.key = k, !.repair = TRUE]]
        /\ UNCHANGED <<anchor, events, crashes>>

RepairFind(p) ==
    \E k \in Keys :
        /\ Start(p, k)
        /\ events[k].stored /\ events[k].seq = 0
        /\ call' = [call EXCEPT ![p] =
                       [Idle EXCEPT !.at = "readAnchor", !.key = k, !.repair = TRUE]]
        /\ UNCHANGED <<anchor, events, crashes>>

\* The update is guarded on seq null; nothing rolls the anchor back if it
\* matches no row or meets a taken seq.
RepairSet(p) ==
    /\ At(p, "insert") /\ call[p].repair
    /\ LET c == call[p] IN
       events' = IF events[c.key].seq = 0 /\ ~SeqTaken(c.key, c.seq)
                 THEN [events EXCEPT ![c.key] =
                          [stored |-> TRUE, seq |-> c.seq, prev |-> c.prev, hash |-> HashOf(c)]]
                 ELSE events
    /\ Return(p)
    /\ UNCHANGED <<anchor, overlap, crashes>>

Crash(p) ==
    /\ ~At(p, "idle") /\ Troubles < MaxTroubles
    /\ crashes' = crashes + 1
    /\ Return(p)
    /\ UNCHANGED <<anchor, events, overlap>>

Step(p) ==
    \/ ReadAnchor(p) \/ AdvanceAnchor(p) \/ Insert(p) \/ Rollback(p) \/ RepairSet(p)

Next ==
    \E p \in Procs :
        \/ \E k \in Keys : AppendFind(p, k)
        \/ RepairFind(p) \/ Step(p) \/ Crash(p)

Spec == Init /\ [][Next]_vars

\* A call reaches its next await; the nightly maintenance repairs the chain.
FairSpec ==
    Spec /\ \A p \in Procs : WF_vars(Step(p)) /\ SF_vars(RepairFind(p))

-----------------------------------------------------------------------------
(* Properties *)

Hashes == Seq(Nat \X Keys)

EventType == [stored : BOOLEAN, seq : Nat, prev : Hashes, hash : Hashes]

CallType ==
    [at : {"idle", "readAnchor", "cas", "insert", "rollback"}, key : Keys \cup {NoKey},
     repair : BOOLEAN, tries : 0 .. CasAttempts - 1, hadAnchor : BOOLEAN,
     seq : Nat, prev : Hashes]

TypeOK ==
    /\ anchor \in [exists : BOOLEAN, tailSeq : Nat, tailHash : Hashes]
    /\ events \in [Keys -> EventType]
    /\ call \in [Procs -> CallType]
    /\ crashes \in 0 .. MaxTroubles /\ overlap \in BOOLEAN

Anchored == {k \in Keys : events[k].stored /\ events[k].seq > 0}

Linked == {[key |-> k, seq |-> events[k].seq, prev |-> events[k].prev, hash |-> events[k].hash] :
              k \in Anchored}

Chain == INSTANCE HashChain WITH links <- Linked

\* Whatever overlaps, fails or crashes, an anchored event keeps its place for
\* good and every event that is anchored takes a place of its own, at the
\* depth its seq says (append, repairChain over the unique indexes).
ImplementsHashChain == Chain!Spec

\* No two calls about one fact or first appends have overlapped, none has died.
Undisturbed == ~overlap /\ crashes = 0

StoredTail == CHOOSE k \in Anchored : \A j \in Anchored : events[j].seq <= events[k].seq

\* verifyChain finds no break once nothing is in flight: the seqs run from 1
\* without a gap, each event points at the hash before it, and the anchor owns
\* the last one ("so the chain has no gap").
ChainVerifies ==
    Undisturbed /\ (\A p \in Procs : At(p, "idle")) =>
        /\ {events[k].seq : k \in Anchored} = 1 .. Cardinality(Anchored)
        /\ \A k \in Anchored :
              IF events[k].seq = 1 THEN events[k].prev = <<>>
              ELSE \E j \in Anchored : events[j].seq = events[k].seq - 1
                                       /\ events[j].hash = events[k].prev
        /\ IF Anchored = {} THEN anchor.tailSeq = 0
           ELSE anchor.tailSeq = events[StoredTail].seq /\ anchor.tailHash = events[StoredTail].hash

\* Unless appends of one fact or first appends overlap, or one dies, the nightly
\* repair folds every event that was stored unanchored into the chain.
UnanchoredFolded ==
    []Undisturbed =>
        \A k \in Keys : (events[k].stored /\ events[k].seq = 0) ~> events[k].seq > 0
=============================================================================
