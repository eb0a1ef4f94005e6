--------------------------- MODULE AuditChainProofs ---------------------------
(***************************************************************************)
(* Proofs about AuditChain, for any number of facts, calls, retries and    *)
(* failures.                                                               *)
(***************************************************************************)
EXTENDS AuditChain, FiniteSetTheorems, SequenceTheorems, TLAPS

-----------------------------------------------------------------------------
(* Part 1: whatever overlaps, fails or dies, AuditChain implements HashChain. *)

\* A call that has reserved, or is about to reserve, a slot proposes the seq
\* that follows the hash it read.
Proposed(c) == c.seq = Len(c.prev) + 1

CallsPropose ==
    \A p \in Procs :
        /\ ~At(p, "idle") => call[p].key \in Keys
        /\ At(p, "cas") \/ At(p, "rollback") => Proposed(call[p])
        /\ At(p, "insert") => Proposed(call[p]) \/ (~call[p].repair /\ call[p].seq = 0)

\* The depth of an anchored event is its seq, and its hash covers both.
EventsPlaced ==
    \A k \in Anchored : /\ events[k].seq = Len(events[k].prev) + 1
                        /\ events[k].hash = Append(events[k].prev, <<events[k].seq, k>>)

\* The inductive invariant of the refinement: two anchored events with one
\* predecessor would be at one depth, which the unique index on seq refuses.
LinkInv ==
    /\ TypeOK
    /\ anchor.tailSeq = Len(anchor.tailHash)
    /\ CallsPropose
    /\ EventsPlaced

\* The hash of a typed event is again a typed hash, one link longer.
LEMMA HashGrows ==
    ASSUME NEW h \in Hashes, NEW seq \in Nat, NEW k \in Keys
    PROVE  /\ Append(h, <<seq, k>>) \in Hashes
           /\ Len(Append(h, <<seq, k>>)) = Len(h) + 1
           /\ Len(h) \in Nat
  BY DEF Hashes

LEMMA InitLinkInv == Init => LinkInv
  <1> SUFFICES ASSUME Init PROVE LinkInv
    OBVIOUS
  <1>1. <<>> \in Hashes /\ Len(<<>>) = 0
    BY DEF Hashes
  <1>2. NoEvent \in EventType /\ Idle \in CallType
    BY <1>1, AuditAssumption DEF NoEvent, Idle, EventType, CallType
  <1>3. anchor \in [exists : BOOLEAN, tailSeq : Nat, tailHash : Hashes]
        /\ anchor.tailSeq = 0 /\ anchor.tailHash = <<>>
    BY <1>1 DEF Init
  <1>5. crashes \in 0 .. MaxTroubles
    BY AuditAssumption DEF Init
  <1>6. overlap \in BOOLEAN
    BY DEF Init
  <1>4. TypeOK
    BY <1>2, <1>3, <1>5, <1>6 DEF Init, TypeOK
  <1> QED
    BY <1>1, <1>3, <1>4 DEF Init, LinkInv, CallsPropose, EventsPlaced, Anchored, NoEvent, Idle, At

\* The ghosts keep their types.
LEMMA GhostsTyped ==
    ASSUME TypeOK, [Next]_vars
    PROVE  crashes' \in 0 .. MaxTroubles /\ overlap' \in BOOLEAN
  <1>1. crashes \in Nat /\ crashes <= MaxTroubles /\ MaxTroubles \in Nat /\ overlap \in BOOLEAN
    BY AuditAssumption DEF TypeOK
  <1>2. ASSUME NEW p \in Procs, Crash(p) PROVE crashes' \in 0 .. MaxTroubles /\ overlap' \in BOOLEAN
    BY <1>1, <1>2 DEF Crash, Troubles
  <1>3. ASSUME NEW p \in Procs, NEW k, Start(p, k) PROVE overlap' \in BOOLEAN
    BY <1>1, <1>3 DEF Start
  <1>4. ASSUME NEW p \in Procs, (\E k \in Keys : AppendFind(p, k)) \/ RepairFind(p)
        PROVE  crashes' \in 0 .. MaxTroubles /\ overlap' \in BOOLEAN
    <2>1. PICK k \in Keys : Start(p, k) /\ UNCHANGED crashes
      BY <1>4 DEF AppendFind, RepairFind
    <2> QED BY <1>1, <1>3, <2>1
  <1>5. ASSUME NEW p \in Procs, ReadAnchor(p)
        PROVE  crashes' \in 0 .. MaxTroubles /\ overlap' \in BOOLEAN
    BY <1>1, <1>5 DEF ReadAnchor
  <1>6. CASE UNCHANGED <<crashes, overlap>>
    BY <1>1, <1>6
  <1> QED
    BY <1>2, <1>4, <1>5, <1>6
    DEF Next, vars, Step, AdvanceAnchor, Insert, Rollback, RepairSet

LEMMA NextLinkInv == LinkInv /\ [Next]_vars => LinkInv'
  <1> SUFFICES ASSUME LinkInv, [Next]_vars PROVE LinkInv'
    OBVIOUS
  <1>g. crashes' \in 0 .. MaxTroubles /\ overlap' \in BOOLEAN
    BY GhostsTyped DEF LinkInv
  <1>t. /\ anchor \in [exists : BOOLEAN, tailSeq : Nat, tailHash : Hashes]
        /\ anchor.tailSeq = Len(anchor.tailHash)
        /\ events \in [Keys -> EventType] /\ call \in [Procs -> CallType]
        /\ CallsPropose /\ EventsPlaced
    BY DEF LinkInv, TypeOK
  <1>i. Idle \in CallType /\ Idle.at = "idle"
    BY AuditAssumption DEF Idle, CallType, Hashes
  \* One call moves to c; the stored rows and the tail stay as they are.
  <1>m. ASSUME NEW p \in Procs, NEW c \in CallType, call' = [call EXCEPT ![p] = c],
               c.at # "idle" => c.key \in Keys,
               c.at \in {"cas", "rollback"} => Proposed(c),
               c.at = "insert" => Proposed(c) \/ (~c.repair /\ c.seq = 0)
        PROVE  call' \in [Procs -> CallType] /\ CallsPropose'
    BY <1>m, <1>t DEF CallsPropose, At, Proposed
  <1>k. ASSUME UNCHANGED <<anchor, events>>, call' \in [Procs -> CallType], CallsPropose'
        PROVE  LinkInv'
    BY <1>k, <1>t, <1>g DEF LinkInv, TypeOK, EventsPlaced, Anchored
  \* An event is written whose hash is as its seq and prev say.
  <1>e. ASSUME NEW p \in Procs, NEW k \in Keys, NEW e \in EventType, UNCHANGED anchor,
               events' = [events EXCEPT ![k] = e], Return(p),
               e.seq > 0 => /\ e.seq = Len(e.prev) + 1
                            /\ e.hash = Append(e.prev, <<e.seq, k>>)
        PROVE  LinkInv'
    <2>1. call' \in [Procs -> CallType] /\ CallsPropose'
      BY <1>e, <1>i, <1>m DEF Return
    <2>2. events' \in [Keys -> EventType] /\ EventsPlaced'
      BY <1>e, <1>t DEF EventsPlaced, Anchored
    <2> QED BY <1>e, <1>t, <1>g, <2>1, <2>2 DEF LinkInv, TypeOK
  <1>1. ASSUME NEW p \in Procs, NEW k \in Keys, AppendFind(p, k) PROVE LinkInv'
    <2> DEFINE c == [Idle EXCEPT !.at = "readAnchor", !.key = k]
    <2>1. c \in CallType /\ c.at = "readAnchor" /\ c.key = k
      BY <1>i DEF CallType, Idle
    <2> QED BY <1>1, <1>m, <1>k, <2>1 DEF AppendFind
  <1>2. ASSUME NEW p \in Procs, RepairFind(p) PROVE LinkInv'
    <2>1. PICK k \in Keys :
             call' = [call EXCEPT ![p] =
                        [Idle EXCEPT !.at = "readAnchor", !.key = k, !.repair = TRUE]]
      BY <1>2 DEF RepairFind
    <2> DEFINE c == [Idle EXCEPT !.at = "readAnchor", !.key = k, !.repair = TRUE]
    <2>2. c \in CallType /\ c.at = "readAnchor" /\ c.key = k
      BY <1>i DEF CallType, Idle
    <2>3. call' = [call EXCEPT ![p] = c] /\ UNCHANGED <<anchor, events>>
      BY <1>2, <2>1 DEF RepairFind
    <2> HIDE DEF c
    <2> QED BY <1>m, <1>k, <2>2, <2>3
  <1>3. ASSUME NEW p \in Procs, ReadAnchor(p) PROVE LinkInv'
    <2> DEFINE c == [call[p] EXCEPT !.at = "cas", !.hadAnchor = anchor.exists,
                                    !.seq = anchor.tailSeq + 1, !.prev = anchor.tailHash]
    <2>1. call' = [call EXCEPT ![p] = c] /\ UNCHANGED <<anchor, events>>
      BY <1>3, <1>t DEF ReadAnchor, CallType
    <2>4. anchor.exists \in BOOLEAN /\ anchor.tailSeq + 1 \in Nat /\ anchor.tailHash \in Hashes
      BY <1>t
    <2>2. c \in CallType /\ c.key = call[p].key /\ c.at = "cas"
      BY <1>t, <2>4 DEF CallType
    <2>3. Proposed(c)
      BY <1>t DEF CallType, Proposed
    <2> QED BY <1>3, <1>t, <1>m, <1>k, <2>1, <2>2, <2>3 DEF ReadAnchor, CallsPropose, At
  <1>4. ASSUME NEW p \in Procs, AdvanceAnchor(p) PROVE LinkInv'
    <2> DEFINE c == call[p]
    <2>1. c \in CallType /\ c.at = "cas" /\ Proposed(c) /\ c.key \in Keys /\ c.seq \in Nat
          /\ c.prev \in Hashes
      BY <1>4, <1>t DEF AdvanceAnchor, At, CallsPropose, CallType
    <2>2. CASE c.hadAnchor => anchor.tailSeq = c.seq - 1
      <3> DEFINE d == [c EXCEPT !.at = "insert"]
      <3>1. call' = [call EXCEPT ![p] = d] /\ UNCHANGED events
            /\ anchor' = [exists |-> TRUE, tailSeq |-> c.seq, tailHash |-> HashOf(c)]
        BY <1>4, <2>2 DEF AdvanceAnchor
      <3>2. d \in CallType /\ d.at = "insert" /\ Proposed(d) /\ d.key \in Keys
        BY <2>1 DEF CallType, Proposed
      <3>3. call' \in [Procs -> CallType] /\ CallsPropose'
        BY <1>m, <3>1, <3>2
      <3>4. HashOf(c) \in Hashes /\ Len(HashOf(c)) = c.seq
        BY <2>1, HashGrows DEF HashOf, EventHash, Proposed
      <3>5. anchor' \in [exists : BOOLEAN, tailSeq : Nat, tailHash : Hashes]
            /\ anchor'.tailSeq = Len(anchor'.tailHash)
        BY <2>1, <3>1, <3>4
      <3> QED BY <1>g, <1>t, <3>1, <3>3, <3>5 DEF LinkInv, TypeOK, EventsPlaced, Anchored
    <2>3. CASE ~(c.hadAnchor => anchor.tailSeq = c.seq - 1)
      <3> DEFINE retry == [c EXCEPT !.at = "readAnchor", !.tries = @ + 1]
                 bare  == [c EXCEPT !.at = "insert", !.seq = 0, !.prev = <<>>]
      <3>1. \/ c.tries + 1 < CasAttempts /\ call' = [call EXCEPT ![p] = retry]
            \/ call' = [call EXCEPT ![p] = Idle]
            \/ ~c.repair /\ call' = [call EXCEPT ![p] = bare]
        BY <1>4, <2>3 DEF AdvanceAnchor
      <3>2. UNCHANGED <<anchor, events>>
        BY <1>4, <2>3 DEF AdvanceAnchor
      <3>3. c.tries + 1 < CasAttempts => retry \in CallType
        <4>1. c.tries + 1 < CasAttempts => c.tries + 1 \in 0 .. CasAttempts - 1
          BY <2>1, AuditAssumption DEF CallType
        <4> QED BY <2>1, <4>1 DEF CallType
      <3>4. bare \in CallType
        <4>1. <<>> \in Hashes
          BY DEF Hashes
        <4> QED BY <2>1, <4>1 DEF CallType
      <3>5. retry.at = "readAnchor" /\ retry.key \in Keys /\ bare.at = "insert"
            /\ bare.key \in Keys /\ bare.seq = 0 /\ bare.repair = c.repair
        BY <2>1 DEF CallType
      <3> HIDE DEF c, retry, bare
      <3>6. call' \in [Procs -> CallType] /\ CallsPropose'
        BY <1>m, <1>i, <3>1, <3>3, <3>4, <3>5
      <3> QED BY <1>k, <3>2, <3>6
    <2> QED BY <2>2, <2>3
  <1>5. ASSUME NEW p \in Procs, Insert(p) PROVE LinkInv'
    <2> DEFINE c == call[p]
               d == [c EXCEPT !.at = "rollback"]
               e == [stored |-> TRUE, seq |-> c.seq, prev |-> c.prev,
                     hash |-> IF c.seq = 0 THEN <<>> ELSE HashOf(c)]
    <2>1. c \in CallType /\ c.key \in Keys /\ (Proposed(c) \/ c.seq = 0) /\ c.seq \in Nat
          /\ c.prev \in Hashes /\ UNCHANGED anchor
      BY <1>5, <1>t DEF Insert, At, CallsPropose, CallType
    <2>2. d \in CallType /\ d.at = "rollback" /\ d.key \in Keys
          /\ (c.seq # 0 => Proposed(d))
      BY <2>1 DEF CallType, Proposed
    <2>3. e \in EventType
      BY <2>1, HashGrows DEF EventType, HashOf, EventHash, Hashes
    <2>4. e.seq > 0 => e.seq = Len(e.prev) + 1 /\ e.hash = Append(e.prev, <<e.seq, c.key>>)
      BY <2>1 DEF Proposed, HashOf, EventHash
    <2>5. \/ UNCHANGED events /\ call' = [call EXCEPT ![p] = Idle]
          \/ UNCHANGED events /\ c.seq # 0 /\ call' = [call EXCEPT ![p] = d]
          \/ events' = [events EXCEPT ![c.key] = e] /\ Return(p)
      BY <1>5 DEF Insert
    <2> HIDE DEF c, d, e
    <2> QED BY <1>m, <1>i, <1>k, <1>e, <2>1, <2>2, <2>3, <2>4, <2>5
  <1>6. ASSUME NEW p \in Procs, Rollback(p) PROVE LinkInv'
    <2>1. /\ call[p].seq = Len(call[p].prev) + 1 /\ call[p].prev \in Hashes
          /\ Len(call[p].prev) \in Nat
      BY <1>6, <1>t DEF Rollback, At, CallsPropose, Proposed, CallType, Hashes
    <2>2. call' \in [Procs -> CallType] /\ CallsPropose'
      BY <1>6, <1>i, <1>m DEF Rollback, Return
    <2>3. anchor' \in [exists : BOOLEAN, tailSeq : Nat, tailHash : Hashes]
          /\ anchor'.tailSeq = Len(anchor'.tailHash)
      <3> DEFINE c == call[p]
                 a == [anchor EXCEPT !.tailSeq = c.seq - 1, !.tailHash = c.prev]
      <3>1. anchor' = a \/ UNCHANGED anchor
        BY <1>6 DEF Rollback
      <3>2. c.seq - 1 \in Nat /\ c.seq - 1 = Len(c.prev)
        BY <2>1
      <3>3. a \in [exists : BOOLEAN, tailSeq : Nat, tailHash : Hashes]
            /\ a.tailSeq = Len(a.tailHash)
        BY <1>t, <2>1, <3>2
      <3> QED BY <1>t, <3>1, <3>3
    <2>4. UNCHANGED events
      BY <1>6 DEF Rollback
    <2> QED BY <1>g, <1>t, <2>2, <2>3, <2>4 DEF LinkInv, TypeOK, EventsPlaced, Anchored
  <1>7. ASSUME NEW p \in Procs, RepairSet(p) PROVE LinkInv'
    <2> DEFINE c == call[p]
               e == [stored |-> TRUE, seq |-> c.seq, prev |-> c.prev, hash |-> HashOf(c)]
    <2>1. c \in CallType /\ c.key \in Keys /\ Proposed(c) /\ c.seq \in Nat
          /\ c.prev \in Hashes /\ UNCHANGED anchor /\ Return(p)
      BY <1>7, <1>t DEF RepairSet, At, CallsPropose, CallType
    <2>2. e \in EventType /\ e.seq = Len(e.prev) + 1 /\ e.hash = Append(e.prev, <<e.seq, c.key>>)
      BY <2>1, HashGrows DEF EventType, HashOf, EventHash, Proposed
    <2>3. events' = [events EXCEPT ![c.key] = e] \/ UNCHANGED events
      BY <1>7 DEF RepairSet
    <2> HIDE DEF c, e
    <2>4. CASE UNCHANGED events
      BY <1>m, <1>i, <1>k, <2>1, <2>4 DEF Return
    <2> QED BY <1>e, <2>1, <2>2, <2>3, <2>4
  <1>8. ASSUME NEW p \in Procs, Crash(p) PROVE LinkInv'
    BY <1>8, <1>m, <1>i, <1>k DEF Crash, Return
  <1>9. CASE UNCHANGED vars
    BY <1>9, <1>k, <1>t DEF vars, CallsPropose, At
  <1> QED
    BY <1>1, <1>2, <1>3, <1>4, <1>5, <1>6, <1>7, <1>8, <1>9 DEF Next, Step

\* The facts recorded and in flight keep their types, and an anchored event has
\* the depth its seq says, for any number of facts and calls.
THEOREM AuditTypeSafe == Spec => [](TypeOK /\ EventsPlaced)
  <1>1. LinkInv => TypeOK /\ EventsPlaced
    BY DEF LinkInv
  <1> QED BY InitLinkInv, NextLinkInv, <1>1, PTL DEF Spec

\* A step that writes one event which had no place, at a depth of its own, is a
\* step of HashChain.
LEMMA LinkStep ==
    ASSUME LinkInv, LinkInv', NEW k \in Keys, NEW e \in EventType,
           events' = [events EXCEPT ![k] = e],
           k \notin Anchored, e.stored,
           e.seq > 0 => ~SeqTaken(k, e.seq)
    PROVE  [Chain!Next]_Linked
  <1> DEFINE l == [key |-> k, seq |-> e.seq, prev |-> e.prev, hash |-> e.hash]
  <1>t. /\ events \in [Keys -> EventType] /\ events'[k] = e
        /\ \A j \in Keys \ {k} : events'[j] = events[j]
        /\ e.seq \in Nat
    BY DEF LinkInv, TypeOK, EventType
  <1>1. CASE e.seq = 0
    <2>1. Anchored' = Anchored
      BY <1>t, <1>1 DEF Anchored
    <2> QED BY <1>t, <2>1 DEF Linked
  <1>2. CASE e.seq > 0
    <2>1. Anchored' = Anchored \cup {k}
      BY <1>t, <1>2 DEF Anchored
    <2>2. Linked' = Linked \cup {l}
      BY <1>t, <2>1 DEF Linked
    <2>3. e.seq = Len(e.prev) + 1 /\ e.hash = Append(e.prev, <<e.seq, k>>)
      BY <1>t, <2>1 DEF LinkInv, EventsPlaced
    <2>4. ASSUME NEW d \in Linked PROVE d.key # k /\ d.seq # e.seq /\ d.prev # e.prev
      <3>1. PICK j \in Anchored : d.key = j /\ d.seq = events[j].seq /\ d.prev = events[j].prev
        BY <2>4 DEF Linked
      <3>2. j # k /\ j \in Keys /\ events[j].stored
        BY <3>1 DEF Anchored
      <3>3. events[j].seq # e.seq
        BY <1>2, <3>2 DEF SeqTaken
      <3>4. events[j].seq = Len(events[j].prev) + 1
        BY <3>1 DEF LinkInv, EventsPlaced
      <3> QED BY <2>3, <3>1, <3>2, <3>3, <3>4
    <2>5. Chain!Extend(k, e.seq, e.prev)
      BY <2>2, <2>3, <2>4 DEF Chain!Extend
    <2>6. l \in Linked' \ Linked
      BY <2>2, <2>4
    <2> QED BY <2>5, <2>6 DEF Chain!Next
  <1> QED BY <1>t, <1>1, <1>2

\* The nightly repair, the concurrent appends, the lost compare-and-sets and the
\* rolled-back slots all together never rewrite or remove a link and never link
\* two events to one predecessor.
THEOREM AuditImplementsHashChain == Spec => ImplementsHashChain
  <1>1. Init => Chain!Init
    BY DEF Init, Chain!Init, Linked, Anchored, NoEvent
  <1>2. LinkInv /\ LinkInv' /\ [Next]_vars => [Chain!Next]_Linked
    <2> SUFFICES ASSUME LinkInv, LinkInv', [Next]_vars PROVE [Chain!Next]_Linked
      OBVIOUS
    <2>t. events \in [Keys -> EventType] /\ call \in [Procs -> CallType] /\ CallsPropose
      BY DEF LinkInv, TypeOK
    <2>1. CASE UNCHANGED events
      BY <2>1 DEF Linked, Anchored
    <2>2. ASSUME NEW p \in Procs, Insert(p) PROVE [Chain!Next]_Linked
      <3> DEFINE c == call[p]
                 e == [stored |-> TRUE, seq |-> c.seq, prev |-> c.prev,
                       hash |-> IF c.seq = 0 THEN <<>> ELSE HashOf(c)]
      <3>1. CASE events[c.key].stored \/ SeqTaken(c.key, c.seq)
        BY <2>1, <2>2, <3>1 DEF Insert
      <3>2. CASE ~(events[c.key].stored \/ SeqTaken(c.key, c.seq))
        <4>1. c \in CallType /\ c.key \in Keys
          BY <2>2, <2>t DEF Insert, At, CallsPropose
        <4>2. e \in EventType
          BY <4>1, HashGrows DEF CallType, EventType, HashOf, EventHash, Hashes
        <4>3. events' = [events EXCEPT ![c.key] = e] /\ c.key \notin Anchored /\ e.stored
              /\ ~SeqTaken(c.key, e.seq)
          BY <2>2, <3>2 DEF Insert, Anchored
        <4> HIDE DEF c, e
        <4> QED BY <4>1, <4>2, <4>3, LinkStep
      <3> QED BY <3>1, <3>2
    <2>3. ASSUME NEW p \in Procs, RepairSet(p) PROVE [Chain!Next]_Linked
      <3> DEFINE c == call[p]
                 e == [stored |-> TRUE, seq |-> c.seq, prev |-> c.prev, hash |-> HashOf(c)]
      <3>1. c \in CallType /\ c.key \in Keys
        BY <2>3, <2>t DEF RepairSet, At, CallsPropose
      <3>2. CASE events[c.key].seq = 0 /\ ~SeqTaken(c.key, c.seq)
        <4>2. e \in EventType
          BY <3>1, HashGrows DEF CallType, EventType, HashOf, EventHash
        <4>3. events' = [events EXCEPT ![c.key] = e] /\ c.key \notin Anchored /\ e.stored
              /\ ~SeqTaken(c.key, e.seq)
          BY <2>3, <3>2 DEF RepairSet, Anchored
        <4> HIDE DEF c, e
        <4> QED BY <3>1, <4>2, <4>3, LinkStep
      <3>3. CASE ~(events[c.key].seq = 0 /\ ~SeqTaken(c.key, c.seq))
        BY <2>1, <2>3, <3>3 DEF RepairSet
      <3> QED BY <3>2, <3>3
    <2> QED
      BY <2>1, <2>2, <2>3
      DEF Next, Step, vars, AppendFind, RepairFind, ReadAnchor, AdvanceAnchor, Rollback, Crash
  <1> QED BY InitLinkInv, NextLinkInv, <1>1, <1>2, PTL DEF Spec, ImplementsHashChain, Chain!Spec

-----------------------------------------------------------------------------
(* Part 2: what is anchored is what the tail's hash covers. *)

\* h is the hash at some depth of the chain that ends in the tail of anchor a.
InTail(h, a) ==
    /\ Len(h) <= a.tailSeq
    /\ \A i \in 1 .. Len(h) : h[i] = a.tailHash[i]

Reserved(p) == At(p, "insert") /\ call[p].seq > 0

\* Two calls in flight are about two facts; an append is about a fact without
\* a row, a repair about one that is unanchored.
CallsApart ==
    \A p \in Procs : ~At(p, "idle") =>
        /\ \A q \in Procs \ {p} : ~At(q, "idle") => call[q].key # call[p].key
        /\ call[p].repair = events[call[p].key].stored
        /\ call[p].key \notin Anchored

\* Until its first slot is reserved the tenant has at most one call that is
\* about to create the anchor.
AnchorFresh ==
    /\ ~anchor.exists => anchor.tailSeq = 0
    /\ \A p \in Procs : At(p, "cas") /\ ~call[p].hadAnchor =>
           ~anchor.exists /\ \A q \in Procs \ {p} : ~At(q, "cas")

\* Every slot the tail covers is owned by an anchored event or by a call that
\* will insert it, and every event and every call that owns one is in the tail.
TailCovers ==
    /\ \A p \in Procs : /\ ~At(p, "rollback")
                        /\ At(p, "cas") => InTail(call[p].prev, anchor)
                        /\ Reserved(p) => InTail(HashOf(call[p]), anchor)
    /\ \A k \in Anchored : InTail(events[k].hash, anchor)
    /\ \A n \in 1 .. anchor.tailSeq :
          \E k \in Keys : /\ anchor.tailHash[n] = <<n, k>>
                          /\ \/ k \in Anchored /\ events[k].seq = n
                             \/ \E p \in Procs : Reserved(p) /\ call[p].key = k /\ call[p].seq = n

QuietInv == CallsApart /\ AnchorFresh /\ TailCovers

TailInv == LinkInv /\ (Undisturbed => QuietInv)

\* Once disturbed, always disturbed.
LEMMA DisturbedForGood ==
    ASSUME TypeOK, [Next]_vars, Undisturbed'
    PROVE  Undisturbed
  <1>1. crashes \in Nat /\ overlap \in BOOLEAN
    BY AuditAssumption DEF TypeOK
  <1>2. ASSUME NEW p \in Procs, Crash(p) PROVE Undisturbed
    BY <1>1, <1>2 DEF Crash, Undisturbed
  <1>3. ASSUME NEW p \in Procs, (\E k \in Keys : AppendFind(p, k)) \/ RepairFind(p)
        PROVE  Undisturbed
    <2>1. PICK k \in Keys : Start(p, k) /\ UNCHANGED crashes
      BY <1>3 DEF AppendFind, RepairFind
    <2> QED BY <2>1 DEF Start, Undisturbed
  <1>4. ASSUME NEW p \in Procs, ReadAnchor(p) PROVE Undisturbed
    BY <1>4 DEF ReadAnchor, Undisturbed
  <1>5. CASE UNCHANGED <<crashes, overlap>>
    BY <1>5 DEF Undisturbed
  <1> QED
    BY <1>2, <1>3, <1>4, <1>5
    DEF Next, vars, Step, AdvanceAnchor, Insert, Rollback, RepairSet

\* The hash of an event ends in its own seq and key.
LEMMA HashEndsInKey ==
    ASSUME NEW h \in Hashes, NEW k, NEW seq, seq = Len(h) + 1
    PROVE  /\ Len(Append(h, <<seq, k>>)) = seq
           /\ Append(h, <<seq, k>>)[seq] = <<seq, k>>
           /\ \A i \in 1 .. Len(h) : Append(h, <<seq, k>>)[i] = h[i]
           /\ Len(h) \in Nat
  BY DEF Hashes

\* The slot a quiet call has reserved is free: its owner in the tail is itself.
LEMMA ReservedIsFree ==
    ASSUME LinkInv, QuietInv, NEW p \in Procs, Reserved(p)
    PROVE  ~SeqTaken(call[p].key, call[p].seq)
  <1> DEFINE c == call[p]
  <1>1. /\ c.seq = Len(c.prev) + 1 /\ c.prev \in Hashes /\ c.seq \in Nat /\ c.seq > 0
        /\ InTail(HashOf(c), anchor)
    BY DEF LinkInv, TypeOK, CallsPropose, Reserved, Proposed, CallType, QuietInv, TailCovers
  <1>2. Len(HashOf(c)) = c.seq /\ HashOf(c)[c.seq] = <<c.seq, c.key>>
    BY <1>1, HashEndsInKey DEF HashOf, EventHash
  <1>3. anchor.tailHash[c.seq] = <<c.seq, c.key>>
    BY <1>1, <1>2 DEF InTail
  <1> SUFFICES ASSUME NEW j \in Keys \ {c.key}, events[j].stored, events[j].seq = c.seq
               PROVE  FALSE
    BY DEF SeqTaken
  <1>4. j \in Anchored
    BY <1>1 DEF Anchored
  <1>5. /\ events[j].prev \in Hashes /\ c.seq = Len(events[j].prev) + 1
        /\ events[j].hash = Append(events[j].prev, <<c.seq, j>>) /\ InTail(events[j].hash, anchor)
    BY <1>4 DEF LinkInv, TypeOK, EventType, EventsPlaced, QuietInv, TailCovers
  <1>6. Len(events[j].hash) = c.seq /\ events[j].hash[c.seq] = <<c.seq, j>>
    BY <1>5, HashEndsInKey
  <1>7. anchor.tailHash[c.seq] = <<c.seq, j>>
    <2>1. c.seq \in 1 .. Len(events[j].hash)
      BY <1>1, <1>6
    <2>2. \A i \in 1 .. Len(events[j].hash) : events[j].hash[i] = anchor.tailHash[i]
      BY <1>5 DEF InTail
    <2> QED BY <1>6, <2>1, <2>2
  <1> QED BY <1>3, <1>7

\* A quiet call fills the slot it reserved: the event it anchors is the one the
\* tail names, and no other call or event changes.
LEMMA SlotFilled ==
    ASSUME LinkInv, QuietInv, NEW p \in Procs, Reserved(p), UNCHANGED anchor,
           NEW e \in EventType, e.stored, e.seq = call[p].seq, e.hash = HashOf(call[p]),
           events' = [events EXCEPT ![call[p].key] = e], Return(p)
    PROVE  QuietInv'
  <1> DEFINE k == call[p].key
  <1>t. /\ events \in [Keys -> EventType] /\ k \in Keys /\ ~At(p, "idle")
        /\ call \in [Procs -> CallType] /\ e.seq > 0 /\ Idle.at = "idle"
    BY DEF LinkInv, TypeOK, CallsPropose, Reserved, At, Idle
  <1>1. /\ call'[p] = Idle /\ \A q \in Procs : q # p => call'[q] = call[q]
        /\ events'[k] = e /\ \A j \in Keys : j # k => events'[j] = events[j]
    BY <1>t DEF Return
  <1>2. Anchored' = Anchored \cup {k}
    BY <1>t, <1>1 DEF Anchored
  <1>3. CallsApart'
    BY <1>t, <1>1, <1>2 DEF QuietInv, CallsApart, At, LinkInv, CallsPropose
  <1>4. AnchorFresh'
    BY <1>t, <1>1 DEF QuietInv, AnchorFresh, At
  <1>5. \A q \in Procs : /\ ~At(q, "rollback")'
                         /\ At(q, "cas")' => InTail(call'[q].prev, anchor')
                         /\ Reserved(q)' => InTail(HashOf(call'[q]), anchor')
    BY <1>t, <1>1 DEF QuietInv, TailCovers, At, Reserved, InTail, HashOf
  <1>6. \A j \in Anchored' : InTail(events'[j].hash, anchor')
    BY <1>t, <1>1, <1>2 DEF QuietInv, TailCovers, InTail
  <1>7. \A n \in 1 .. anchor'.tailSeq :
          \E j \in Keys : /\ anchor'.tailHash[n] = <<n, j>>
                          /\ \/ j \in Anchored' /\ events'[j].seq = n
                             \/ \E q \in Procs : Reserved(q)' /\ call'[q].key = j /\ call'[q].seq = n
    <2> SUFFICES ASSUME NEW n \in 1 .. anchor.tailSeq
                 PROVE  \E j \in Keys :
                          /\ anchor.tailHash[n] = <<n, j>>
                          /\ \/ j \in Anchored' /\ events'[j].seq = n
                             \/ \E q \in Procs : Reserved(q)' /\ call'[q].key = j /\ call'[q].seq = n
      OBVIOUS
    <2>1. PICK j \in Keys : /\ anchor.tailHash[n] = <<n, j>>
                            /\ \/ j \in Anchored /\ events[j].seq = n
                               \/ \E q \in Procs : Reserved(q) /\ call[q].key = j /\ call[q].seq = n
      BY DEF QuietInv, TailCovers
    <2>2. CASE j \in Anchored /\ events[j].seq = n
      <3>1. j # k
        BY <1>t, <2>2 DEF QuietInv, CallsApart
      <3> QED BY <1>1, <1>2, <2>1, <2>2, <3>1
    <2>3. ASSUME NEW q \in Procs, Reserved(q), call[q].key = j, call[q].seq = n
          PROVE  \/ j \in Anchored' /\ events'[j].seq = n
                 \/ \E r \in Procs : Reserved(r)' /\ call'[r].key = j /\ call'[r].seq = n
      <3>1. CASE q = p
        BY <1>1, <1>2, <2>3, <3>1
      <3>2. CASE q # p
        BY <1>1, <2>3, <3>2 DEF Reserved, At
      <3> QED BY <3>1, <3>2
    <2> QED BY <2>1, <2>2, <2>3
  <1> QED BY <1>3, <1>4, <1>5, <1>6, <1>7 DEF QuietInv, TailCovers

\* A step after which the tail and the anchored events are as before, and the
\* call it moves holds no slot, before or after.
LEMMA TailKept ==
    ASSUME LinkInv, QuietInv, UNCHANGED anchor, Anchored' = Anchored,
           \A k \in Anchored : events'[k] = events[k],
           NEW p \in Procs, \A q \in Procs \ {p} : call'[q] = call[q],
           ~Reserved(p), ~Reserved(p)', ~At(p, "rollback")',
           At(p, "cas")' => InTail(call'[p].prev, anchor'),
           CallsApart', AnchorFresh'
    PROVE  QuietInv'
  <1>1. \A q \in Procs : /\ ~At(q, "rollback")'
                         /\ At(q, "cas")' => InTail(call'[q].prev, anchor')
                         /\ Reserved(q)' => InTail(HashOf(call'[q]), anchor')
                         /\ Reserved(q) => Reserved(q)' /\ call'[q] = call[q]
    BY DEF QuietInv, TailCovers, At, Reserved, InTail, HashOf
  <1>2. \A k \in Anchored' : InTail(events'[k].hash, anchor')
    BY DEF QuietInv, TailCovers, InTail
  <1>3. \A n \in 1 .. anchor'.tailSeq :
          \E k \in Keys : /\ anchor'.tailHash[n] = <<n, k>>
                          /\ \/ k \in Anchored' /\ events'[k].seq = n
                             \/ \E q \in Procs : Reserved(q)' /\ call'[q].key = k /\ call'[q].seq = n
    <2> SUFFICES ASSUME NEW n \in 1 .. anchor.tailSeq
                 PROVE  \E k \in Keys :
                          /\ anchor.tailHash[n] = <<n, k>>
                          /\ \/ k \in Anchored' /\ events'[k].seq = n
                             \/ \E q \in Procs : Reserved(q)' /\ call'[q].key = k /\ call'[q].seq = n
      OBVIOUS
    <2>1. PICK k \in Keys : /\ anchor.tailHash[n] = <<n, k>>
                            /\ \/ k \in Anchored /\ events[k].seq = n
                               \/ \E q \in Procs : Reserved(q) /\ call[q].key = k /\ call[q].seq = n
      BY DEF QuietInv, TailCovers
    <2> QED BY <1>1, <2>1
  <1> QED BY <1>1, <1>2, <1>3 DEF QuietInv, TailCovers

LEMMA InitTailInv == Init => TailInv
  <1> SUFFICES ASSUME Init PROVE TailInv
    OBVIOUS
  <1>1. Anchored = {} /\ anchor.tailSeq = 0 /\ \A p \in Procs : call[p].at = "idle"
    BY DEF Init, Anchored, NoEvent, Idle
  <1>2. QuietInv
    BY <1>1 DEF QuietInv, CallsApart, AnchorFresh, TailCovers, At, Reserved
  <1> QED BY <1>2, InitLinkInv DEF TailInv

LEMMA NextTailInv == TailInv /\ [Next]_vars => TailInv'
  <1> SUFFICES ASSUME TailInv, [Next]_vars PROVE TailInv'
    OBVIOUS
  <1>l. LinkInv /\ LinkInv'
    BY NextLinkInv DEF TailInv
  <1> SUFFICES ASSUME Undisturbed' PROVE QuietInv'
    BY <1>l DEF TailInv
  <1>q. QuietInv /\ Undisturbed
    BY <1>l, DisturbedForGood DEF TailInv, LinkInv
  <1>t. /\ anchor \in [exists : BOOLEAN, tailSeq : Nat, tailHash : Hashes]
        /\ anchor.tailSeq = Len(anchor.tailHash)
        /\ events \in [Keys -> EventType] /\ call \in [Procs -> CallType] /\ CallsPropose
        /\ Idle.at = "idle" /\ Idle.seq = 0
    BY <1>l DEF LinkInv, TypeOK, Idle
  <1>i. Idle \in CallType
    BY AuditAssumption DEF Idle, CallType, Hashes
  \* A call is over.
  <1>r. ASSUME NEW p \in Procs, UNCHANGED <<anchor, events>>, Return(p), ~Reserved(p)
        PROVE  QuietInv'
    <2>1. call'[p] = Idle /\ \A q \in Procs : q # p => call'[q] = call[q]
      BY <1>r, <1>t DEF Return
    <2>2. Anchored' = Anchored
      BY <1>r DEF Anchored
    <2>3. CallsApart' /\ AnchorFresh'
      BY <1>q, <1>t, <1>r, <2>1, <2>2 DEF QuietInv, CallsApart, AnchorFresh, At
    <2>4. ~Reserved(p)' /\ ~At(p, "cas")' /\ ~At(p, "rollback")'
      BY <1>t, <2>1 DEF Reserved, At
    <2> QED BY <1>l, <1>q, <1>r, <2>1, <2>2, <2>3, <2>4, TailKept
  \* A call about k begins: no other is about it.
  <1>s. ASSUME NEW p \in Procs, NEW k \in Keys, Start(p, k), UNCHANGED <<anchor, events>>,
               NEW c \in CallType, call' = [call EXCEPT ![p] = c],
               c.at = "readAnchor", c.key = k, c.repair = events[k].stored, k \notin Anchored
        PROVE  QuietInv'
    <2>1. call'[p] = c /\ (\A q \in Procs : q # p => call'[q] = call[q]) /\ At(p, "idle")
          /\ \A q \in Procs : call[q].key # k
      BY <1>s, <1>t DEF Start, Undisturbed
    <2>2. Anchored' = Anchored
      BY <1>s DEF Anchored
    <2>3. CallsApart' /\ AnchorFresh'
      BY <1>q, <1>s, <2>1, <2>2 DEF QuietInv, CallsApart, AnchorFresh, At
    <2>4. ~Reserved(p) /\ ~Reserved(p)' /\ ~At(p, "cas")' /\ ~At(p, "rollback")'
      BY <1>s, <2>1 DEF Reserved, At
    <2> QED BY <1>l, <1>q, <1>s, <2>1, <2>2, <2>3, <2>4, TailKept
  <1>1. ASSUME NEW p \in Procs, NEW k \in Keys, AppendFind(p, k) PROVE QuietInv'
    <2> DEFINE c == [Idle EXCEPT !.at = "readAnchor", !.key = k]
    <2>1. c \in CallType /\ c.at = "readAnchor" /\ c.key = k /\ ~c.repair
      BY <1>t, <1>i DEF CallType, Idle
    <2>2. ~events[k].stored /\ c.repair = events[k].stored /\ k \notin Anchored
      BY <1>1, <1>t, <2>1 DEF AppendFind, Anchored, EventType, CallType
    <2> HIDE DEF c
    <2>3. call' = [call EXCEPT ![p] = c] /\ Start(p, k) /\ UNCHANGED <<anchor, events>>
      BY <1>1 DEF AppendFind, c
    <2> QED BY <1>s, <2>1, <2>2, <2>3
  <1>2. ASSUME NEW p \in Procs, RepairFind(p) PROVE QuietInv'
    <2>1. PICK k \in Keys :
             /\ call' = [call EXCEPT ![p] =
                        [Idle EXCEPT !.at = "readAnchor", !.key = k, !.repair = TRUE]]
             /\ Start(p, k) /\ events[k].stored /\ events[k].seq = 0
             /\ UNCHANGED <<anchor, events>>
      BY <1>2 DEF RepairFind
    <2> DEFINE c == [Idle EXCEPT !.at = "readAnchor", !.key = k, !.repair = TRUE]
    <2>2. c \in CallType /\ c.at = "readAnchor" /\ c.key = k /\ c.repair
      BY <1>t, <1>i DEF CallType, Idle
    <2>3. c.repair = events[k].stored /\ k \notin Anchored
      BY <1>t, <2>1, <2>2 DEF Anchored, EventType, CallType
    <2>4. call' = [call EXCEPT ![p] = c]
      BY <2>1
    <2> HIDE DEF c
    <2> QED BY <1>s, <2>1, <2>2, <2>3, <2>4
  <1>3. ASSUME NEW p \in Procs, ReadAnchor(p) PROVE QuietInv'
    <2>1. /\ At(p, "readAnchor") /\ UNCHANGED <<anchor, events>>
          /\ call'[p].at = "cas" /\ call'[p].hadAnchor = anchor.exists
          /\ call'[p].key = call[p].key /\ call'[p].repair = call[p].repair
          /\ call'[p].prev = anchor.tailHash
          /\ \A q \in Procs : q # p => call'[q] = call[q]
          /\ ~anchor.exists => \A q \in Procs : ~At(q, "cas")
      <3>1. ~overlap'
        BY DEF Undisturbed
      <3> DEFINE c == [call[p] EXCEPT !.at = "cas", !.hadAnchor = anchor.exists,
                                      !.seq = anchor.tailSeq + 1, !.prev = anchor.tailHash]
      <3>2. call' = [call EXCEPT ![p] = c] /\ At(p, "readAnchor")
            /\ UNCHANGED <<anchor, events>>
        BY <1>3, <1>t DEF ReadAnchor, CallType
      <3>3. c.at = "cas" /\ c.hadAnchor = anchor.exists /\ c.key = call[p].key
            /\ c.repair = call[p].repair /\ c.prev = anchor.tailHash
        BY <1>t DEF CallType
      <3>4. ~anchor.exists => \A q \in Procs : ~At(q, "cas")
        BY <1>3, <3>1 DEF ReadAnchor
      <3> HIDE DEF c
      <3> QED BY <1>t, <3>2, <3>3, <3>4
    <2>2. Anchored' = Anchored
      BY <2>1 DEF Anchored
    <2>3. CallsApart'
      BY <1>q, <2>1, <2>2 DEF QuietInv, CallsApart, At
    <2>4. AnchorFresh'
      BY <1>q, <2>1 DEF QuietInv, AnchorFresh, At
    <2>5. ~Reserved(p) /\ ~Reserved(p)' /\ ~At(p, "rollback")'
      BY <2>1 DEF Reserved, At
    <2>6. InTail(call'[p].prev, anchor')
      BY <1>t, <2>1 DEF InTail
    <2> QED BY <1>l, <1>q, <2>1, <2>2, <2>3, <2>4, <2>5, <2>6, TailKept
  <1>4. ASSUME NEW p \in Procs, AdvanceAnchor(p) PROVE QuietInv'
    <2> DEFINE c == call[p]
    <2>1. /\ c \in CallType /\ c.at = "cas" /\ c.seq = Len(c.prev) + 1 /\ c.key \in Keys
          /\ c.prev \in Hashes /\ Len(c.prev) \in Nat /\ UNCHANGED events
          /\ InTail(c.prev, anchor)
      BY <1>4, <1>t, <1>q
      DEF AdvanceAnchor, At, CallsPropose, CallType, Proposed, QuietInv, TailCovers, Hashes
    <2>2. Anchored' = Anchored
      BY <2>1 DEF Anchored
    <2>3. CASE c.hadAnchor => anchor.tailSeq = c.seq - 1
      <3>1. /\ anchor' = [exists |-> TRUE, tailSeq |-> c.seq, tailHash |-> HashOf(c)]
            /\ call' = [call EXCEPT ![p].at = "insert"]
        BY <1>4, <2>3 DEF AdvanceAnchor
      <3>2. /\ call'[p].at = "insert" /\ call'[p].key = c.key /\ call'[p].seq = c.seq
            /\ call'[p].prev = c.prev /\ call'[p].repair = c.repair
            /\ \A q \in Procs : q # p => call'[q] = call[q]
        BY <1>t, <3>1 DEF CallType
      <3>3. c.seq = anchor.tailSeq + 1
        BY <2>1, <2>3, <1>t, <1>q DEF QuietInv, AnchorFresh, At, InTail
      <3>4. /\ Len(HashOf(c)) = c.seq /\ HashOf(c)[c.seq] = <<c.seq, c.key>>
            /\ \A i \in 1 .. anchor.tailSeq : HashOf(c)[i] = anchor.tailHash[i]
        <4>1. /\ Len(HashOf(c)) = c.seq /\ HashOf(c)[c.seq] = <<c.seq, c.key>>
              /\ \A i \in 1 .. Len(c.prev) : HashOf(c)[i] = c.prev[i]
          BY <2>1, HashEndsInKey DEF HashOf, EventHash
        <4> QED BY <1>t, <2>1, <3>3, <4>1 DEF InTail
      <3>5. ASSUME NEW h \in Hashes, InTail(h, anchor) PROVE InTail(h, anchor')
        <4>1. Len(h) \in Nat
          BY DEF Hashes
        <4> QED BY <1>t, <3>1, <3>3, <3>4, <3>5, <4>1 DEF InTail
      <3>6. CallsApart'
        BY <1>q, <2>1, <2>2, <3>2 DEF QuietInv, CallsApart, At
      <3>7. AnchorFresh'
        BY <1>q, <2>1, <3>1, <3>2 DEF QuietInv, AnchorFresh, At
      <3>8. \A q \in Procs : /\ ~At(q, "rollback")'
                             /\ At(q, "cas")' => InTail(call'[q].prev, anchor')
                             /\ Reserved(q)' => InTail(HashOf(call'[q]), anchor')
        <4> SUFFICES ASSUME NEW q \in Procs
                     PROVE  /\ ~At(q, "rollback")'
                            /\ At(q, "cas")' => InTail(call'[q].prev, anchor')
                            /\ Reserved(q)' => InTail(HashOf(call'[q]), anchor')
          OBVIOUS
        <4>1. CASE q = p
          <5>1. HashOf(call'[q]) = HashOf(c)
            BY <3>2, <4>1 DEF HashOf
          <5>2. InTail(HashOf(c), anchor')
            <6>1. anchor'.tailSeq = c.seq /\ anchor'.tailHash = HashOf(c) /\ c.seq \in Nat
              BY <3>1, <2>1
            <6> QED BY <3>4, <6>1 DEF InTail
          <5> QED BY <3>2, <4>1, <5>1, <5>2 DEF At, Reserved
        <4>2. CASE q # p
          <5>1. call'[q] = call[q] /\ call[q].prev \in Hashes
            BY <1>t, <3>2, <4>2 DEF CallType
          <5>2. Reserved(q) => HashOf(call[q]) \in Hashes
            BY <1>t, <5>1, HashGrows DEF Reserved, CallsPropose, At, CallType, HashOf, EventHash
          <5>3. /\ ~At(q, "rollback")
                /\ At(q, "cas") => InTail(call[q].prev, anchor)
                /\ Reserved(q) => InTail(HashOf(call[q]), anchor)
            BY <1>q DEF QuietInv, TailCovers
          <5>4. At(q, "cas") => InTail(call'[q].prev, anchor')
            BY <3>5, <5>1, <5>3
          <5>5. Reserved(q) => InTail(HashOf(call'[q]), anchor')
            BY <3>5, <5>1, <5>2, <5>3
          <5> QED BY <5>1, <5>3, <5>4, <5>5 DEF At, Reserved
        <4> QED BY <4>1, <4>2
      <3>9. \A k \in Anchored' : InTail(events'[k].hash, anchor')
        <4>1. \A k \in Anchored : events[k].hash \in Hashes /\ InTail(events[k].hash, anchor)
          BY <1>t, <1>q DEF QuietInv, TailCovers, EventType, Anchored
        <4> QED BY <2>1, <2>2, <3>5, <4>1
      <3>10. \A n \in 1 .. anchor'.tailSeq :
               \E k \in Keys : /\ anchor'.tailHash[n] = <<n, k>>
                               /\ \/ k \in Anchored' /\ events'[k].seq = n
                                  \/ \E q \in Procs : Reserved(q)' /\ call'[q].key = k
                                                      /\ call'[q].seq = n
        <4> SUFFICES ASSUME NEW n \in 1 .. c.seq
                     PROVE  \E k \in Keys :
                               /\ HashOf(c)[n] = <<n, k>>
                               /\ \/ k \in Anchored /\ events[k].seq = n
                                  \/ \E q \in Procs : Reserved(q)' /\ call'[q].key = k
                                                      /\ call'[q].seq = n
          BY <2>1, <2>2, <3>1
        <4>1. CASE n = c.seq
          BY <2>1, <3>2, <3>4, <4>1 DEF Reserved, At
        <4>2. CASE n # c.seq
          <5>1. n \in 1 .. anchor.tailSeq
            BY <1>t, <3>3, <4>2
          <5>2. PICK k \in Keys : /\ anchor.tailHash[n] = <<n, k>>
                                  /\ \/ k \in Anchored /\ events[k].seq = n
                                     \/ \E q \in Procs : Reserved(q) /\ call[q].key = k
                                                         /\ call[q].seq = n
            BY <1>q, <5>1 DEF QuietInv, TailCovers
          <5>3. \A q \in Procs : Reserved(q) => Reserved(q)' /\ call'[q] = call[q]
            BY <2>1, <3>2 DEF Reserved, At
          <5> QED BY <3>4, <5>1, <5>2, <5>3
        <4> QED BY <4>1, <4>2
      <3> QED BY <3>6, <3>7, <3>8, <3>9, <3>10 DEF QuietInv, TailCovers
    <2>4. CASE ~(c.hadAnchor => anchor.tailSeq = c.seq - 1)
      <3>1. CASE call' = [call EXCEPT ![p] = Idle]
        BY <1>4, <1>r, <2>1, <2>4, <3>1 DEF AdvanceAnchor, Return, Reserved, At
      <3>2. CASE \/ call' = [call EXCEPT ![p] = [c EXCEPT !.at = "readAnchor", !.tries = @ + 1]]
                 \/ call' = [call EXCEPT ![p] = [c EXCEPT !.at = "insert", !.seq = 0, !.prev = <<>>]]
        <4>1. /\ call'[p].at = "readAnchor" \/ (call'[p].at = "insert" /\ call'[p].seq = 0)
              /\ call'[p].key = c.key /\ call'[p].repair = c.repair
              /\ \A q \in Procs : q # p => call'[q] = call[q]
          <5> DEFINE retry == [c EXCEPT !.at = "readAnchor", !.tries = @ + 1]
                     bare  == [c EXCEPT !.at = "insert", !.seq = 0, !.prev = <<>>]
          <5>1. /\ retry.at = "readAnchor" /\ retry.key = c.key /\ retry.repair = c.repair
                /\ bare.at = "insert" /\ bare.seq = 0 /\ bare.key = c.key /\ bare.repair = c.repair
            BY <2>1 DEF CallType
          <5>2. call' = [call EXCEPT ![p] = retry] \/ call' = [call EXCEPT ![p] = bare]
            BY <3>2
          <5> HIDE DEF retry, bare
          <5> QED BY <1>t, <5>1, <5>2
        <4>2. CallsApart' /\ AnchorFresh' /\ UNCHANGED anchor
          BY <1>4, <1>q, <2>1, <2>2, <2>4, <4>1
          DEF AdvanceAnchor, QuietInv, CallsApart, AnchorFresh, At
        <4>3. ~Reserved(p) /\ ~Reserved(p)' /\ ~At(p, "cas")' /\ ~At(p, "rollback")'
          BY <2>1, <4>1 DEF Reserved, At
        <4> QED BY <1>l, <1>q, <2>1, <2>2, <4>1, <4>2, <4>3, TailKept
      <3> QED BY <1>4, <2>4, <3>1, <3>2 DEF AdvanceAnchor
    <2> QED BY <2>3, <2>4
  <1>5. ASSUME NEW p \in Procs, Insert(p) PROVE QuietInv'
    <2> DEFINE c == call[p]
               e == [stored |-> TRUE, seq |-> c.seq, prev |-> c.prev,
                     hash |-> IF c.seq = 0 THEN <<>> ELSE HashOf(c)]
    <2>1. /\ c \in CallType /\ c.at = "insert" /\ ~c.repair /\ c.key \in Keys /\ c.seq \in Nat
          /\ c.prev \in Hashes /\ UNCHANGED anchor /\ ~events[c.key].stored
          /\ c.key \notin Anchored
      BY <1>5, <1>t, <1>q DEF Insert, At, CallsPropose, CallType, QuietInv, CallsApart
    <2>2. CASE c.seq > 0
      <3>1. Reserved(p) /\ ~SeqTaken(c.key, c.seq)
        BY <1>l, <1>q, <2>1, <2>2, ReservedIsFree DEF Reserved, At
      <3>2. events' = [events EXCEPT ![c.key] = e] /\ Return(p)
        BY <1>5, <2>1, <3>1 DEF Insert
      <3>3. e \in EventType /\ e.stored /\ e.seq = c.seq /\ e.hash = HashOf(c)
        BY <2>1, <2>2, HashGrows DEF EventType, HashOf, EventHash
      <3> HIDE DEF e
      <3> QED BY <1>l, <1>q, <2>1, <3>1, <3>2, <3>3, SlotFilled
    <2>3. CASE c.seq = 0
      <3>1. ~Reserved(p) /\ ~At(p, "idle")
        BY <2>1, <2>3 DEF Reserved, At
      <3>2. CASE UNCHANGED events /\ Return(p)
        BY <1>r, <2>1, <3>1, <3>2
      <3>3. CASE events' = [events EXCEPT ![c.key] = e] /\ Return(p)
        <4>1. call'[p] = Idle /\ \A q \in Procs : q # p => call'[q] = call[q]
          BY <1>t, <3>3 DEF Return
        <4>2. events'[c.key] = e /\ e.seq = 0 /\ \A j \in Keys : j # c.key => events'[j] = events[j]
          BY <1>t, <2>1, <2>3, <3>3
        <4>3. Anchored' = Anchored /\ \A k \in Anchored : events'[k] = events[k]
          BY <2>1, <4>2 DEF Anchored
        <4>4. CallsApart'
          BY <1>t, <1>q, <2>1, <3>1, <4>1, <4>2, <4>3 DEF QuietInv, CallsApart, At, CallsPropose
        <4>5. AnchorFresh'
          BY <1>t, <1>q, <2>1, <4>1 DEF QuietInv, AnchorFresh, At
        <4>6. ~Reserved(p)' /\ ~At(p, "cas")' /\ ~At(p, "rollback")'
          BY <1>t, <4>1 DEF Reserved, At
        <4> QED BY <1>l, <1>q, <2>1, <3>1, <4>1, <4>3, <4>4, <4>5, <4>6, TailKept
      <3> QED BY <1>5, <2>3, <3>2, <3>3 DEF Insert, Return
    <2> QED BY <2>1, <2>2, <2>3
  <1>6. ASSUME NEW p \in Procs, Rollback(p) PROVE QuietInv'
    BY <1>6, <1>q DEF Rollback, QuietInv, TailCovers
  <1>7. ASSUME NEW p \in Procs, RepairSet(p) PROVE QuietInv'
    <2> DEFINE c == call[p]
               e == [stored |-> TRUE, seq |-> c.seq, prev |-> c.prev, hash |-> HashOf(c)]
    <2>1. /\ c \in CallType /\ c.at = "insert" /\ c.key \in Keys /\ c.seq = Len(c.prev) + 1
          /\ c.prev \in Hashes /\ Len(c.prev) \in Nat /\ events[c.key].stored
          /\ c.key \notin Anchored /\ UNCHANGED anchor /\ Return(p)
      BY <1>7, <1>t, <1>q
      DEF RepairSet, At, CallsPropose, CallType, QuietInv, CallsApart, Proposed, Hashes
    <2>2. Reserved(p) /\ ~SeqTaken(c.key, c.seq) /\ events[c.key].seq = 0
      BY <1>l, <1>q, <1>t, <2>1, ReservedIsFree DEF Reserved, At, Anchored, EventType
    <2>3. events' = [events EXCEPT ![c.key] = e]
      BY <1>7, <2>2 DEF RepairSet
    <2>4. e \in EventType /\ e.stored /\ e.seq = c.seq /\ e.hash = HashOf(c)
      BY <2>1, HashGrows DEF EventType, HashOf, EventHash
    <2> HIDE DEF e
    <2> QED BY <1>l, <1>q, <2>1, <2>2, <2>3, <2>4, SlotFilled
  <1>8. ASSUME NEW p \in Procs, Crash(p) PROVE QuietInv'
    <2>1. crashes \in Nat /\ crashes' = crashes + 1
      BY <1>8, <1>l DEF Crash, LinkInv, TypeOK
    <2> QED BY <2>1 DEF Undisturbed
  <1>9. CASE UNCHANGED vars
    BY <1>9, <1>q
    DEF vars, QuietInv, CallsApart, AnchorFresh, TailCovers, At, Reserved, InTail, Anchored, HashOf
  <1> QED
    BY <1>1, <1>2, <1>3, <1>4, <1>5, <1>6, <1>7, <1>8, <1>9 DEF Next, Step

\* When nothing is in flight the seqs of the anchored events are the depths the
\* tail covers, one event each.
LEMMA SeqsAreDepths ==
    ASSUME LinkInv, QuietInv, \A p \in Procs : At(p, "idle")
    PROVE  /\ \A k \in Anchored : events[k].seq \in 1 .. anchor.tailSeq
                                  /\ anchor.tailHash[events[k].seq] = <<events[k].seq, k>>
           /\ \A n \in 1 .. anchor.tailSeq : \E k \in Anchored : events[k].seq = n
           /\ anchor.tailSeq \in Nat
           /\ Cardinality(Anchored) = anchor.tailSeq
  <1>t. /\ events \in [Keys -> EventType] /\ anchor.tailSeq \in Nat
    BY DEF LinkInv, TypeOK
  <1>1. ASSUME NEW k \in Anchored
        PROVE  /\ events[k].seq \in 1 .. anchor.tailSeq
               /\ anchor.tailHash[events[k].seq] = <<events[k].seq, k>>
    <2>1. /\ events[k].seq \in Nat /\ events[k].seq > 0 /\ events[k].prev \in Hashes
          /\ events[k].seq = Len(events[k].prev) + 1
          /\ events[k].hash = Append(events[k].prev, <<events[k].seq, k>>)
          /\ InTail(events[k].hash, anchor)
      BY <1>t DEF Anchored, EventType, LinkInv, EventsPlaced, QuietInv, TailCovers
    <2>2. Len(events[k].hash) = events[k].seq
          /\ events[k].hash[events[k].seq] = <<events[k].seq, k>>
      BY <2>1, HashEndsInKey
    <2> QED BY <1>t, <2>1, <2>2 DEF InTail
  <1>2. ASSUME NEW n \in 1 .. anchor.tailSeq PROVE \E k \in Anchored : events[k].seq = n
    BY DEF QuietInv, TailCovers, Reserved, At
  <1> DEFINE f == [n \in 1 .. anchor.tailSeq |-> CHOOSE k \in Anchored : events[k].seq = n]
  <1>3. \A n \in 1 .. anchor.tailSeq : f[n] \in Anchored /\ events[f[n]].seq = n
    BY <1>2
  <1>4. \A k \in Anchored : f[events[k].seq] = k
    <2> SUFFICES ASSUME NEW k \in Anchored PROVE f[events[k].seq] = k
      OBVIOUS
    <2> DEFINE j == f[events[k].seq]
    <2>1. j \in Anchored /\ events[j].seq = events[k].seq
      BY <1>1, <1>3
    <2>2. <<events[k].seq, j>> = <<events[k].seq, k>>
      BY <1>1, <2>1
    <2> QED BY <2>2
  <1> HIDE DEF f
  <1>5. f \in [1 .. anchor.tailSeq -> Anchored]
    BY <1>3 DEF f
  <1>6. f \in Bijection(1 .. anchor.tailSeq, Anchored)
    BY <1>1, <1>3, <1>4, <1>5 DEF Bijection, Injection, Surjection, IsInjective
  <1>7. Cardinality(Anchored) = anchor.tailSeq
    BY <1>t, <1>6, FS_CountingElements DEF ExistsBijection
  <1> QED BY <1>t, <1>1, <1>2, <1>7

\* Unless two calls about one fact or two first appends overlap, or one dies,
\* verifyChain finds no break once the calls in flight are over: every lost
\* compare-and-set, unanchored insert and nightly repair leaves the seqs without
\* a gap, every event pointing at the hash before it and the tail at the last.
THEOREM AuditChainVerifies == Spec => []ChainVerifies
  <1>1. TailInv => ChainVerifies
    <2> SUFFICES ASSUME TailInv, Undisturbed, \A p \in Procs : At(p, "idle")
                 PROVE  /\ {events[k].seq : k \in Anchored} = 1 .. Cardinality(Anchored)
                        /\ \A k \in Anchored :
                              IF events[k].seq = 1 THEN events[k].prev = <<>>
                              ELSE \E j \in Anchored : events[j].seq = events[k].seq - 1
                                                       /\ events[j].hash = events[k].prev
                        /\ IF Anchored = {} THEN anchor.tailSeq = 0
                           ELSE /\ anchor.tailSeq = events[StoredTail].seq
                                /\ anchor.tailHash = events[StoredTail].hash
      BY DEF ChainVerifies
    <2>i. LinkInv /\ QuietInv
      BY DEF TailInv
    <2>a. /\ \A k \in Anchored : events[k].seq \in 1 .. anchor.tailSeq
                                 /\ anchor.tailHash[events[k].seq] = <<events[k].seq, k>>
          /\ \A n \in 1 .. anchor.tailSeq : \E k \in Anchored : events[k].seq = n
          /\ anchor.tailSeq \in Nat
          /\ Cardinality(Anchored) = anchor.tailSeq
      BY <2>i, SeqsAreDepths
    <2>t. /\ anchor.tailHash \in Hashes /\ Len(anchor.tailHash) = anchor.tailSeq
          /\ \A k \in Anchored :
                /\ events[k].prev \in Hashes /\ events[k].hash \in Hashes
                /\ events[k].seq = Len(events[k].prev) + 1
                /\ events[k].hash = Append(events[k].prev, <<events[k].seq, k>>)
                /\ InTail(events[k].hash, anchor)
      BY <2>i DEF LinkInv, TypeOK, EventType, EventsPlaced, Anchored, QuietInv, TailCovers
    \* Two hashes of one depth in the tail are the same hash.
    <2>e. ASSUME NEW g \in Hashes, NEW h \in Hashes, InTail(g, anchor), InTail(h, anchor),
                 Len(g) = Len(h)
          PROVE  g = h
      BY <2>e, SeqEqual DEF Hashes, InTail
    <2>1. {events[k].seq : k \in Anchored} = 1 .. Cardinality(Anchored)
      BY <2>a
    <2>2. ASSUME NEW k \in Anchored
          PROVE  IF events[k].seq = 1 THEN events[k].prev = <<>>
                 ELSE \E j \in Anchored : events[j].seq = events[k].seq - 1
                                          /\ events[j].hash = events[k].prev
      <3> DEFINE g == events[k].prev
      <3>1. g \in Hashes /\ Len(g) = events[k].seq - 1 /\ Len(g) \in Nat /\ InTail(g, anchor)
        <4>1. g \in Hashes /\ events[k].seq = Len(g) + 1 /\ Len(g) \in Nat
          BY <2>t DEF Hashes
        <4>2. /\ Len(events[k].hash) = Len(g) + 1
              /\ \A i \in 1 .. Len(g) : events[k].hash[i] = g[i]
          BY <2>t, <4>1, HashEndsInKey
        <4> QED BY <2>a, <2>t, <4>1, <4>2 DEF InTail
      <3>2. CASE events[k].seq = 1
        BY <3>1, <3>2, EmptySeq DEF Hashes
      <3>3. CASE events[k].seq # 1
        <4>1. PICK j \in Anchored : events[j].seq = events[k].seq - 1
          BY <2>a, <3>1, <3>3
        <4>2. Len(events[j].hash) = Len(g)
          BY <2>t, <3>1, <4>1, HashEndsInKey
        <4> QED BY <2>e, <2>t, <3>1, <3>3, <4>1, <4>2
      <3> QED BY <3>2, <3>3
    <2>3. CASE Anchored = {}
      BY <2>1, <2>2, <2>3, <2>a, FS_EmptySet
    <2>4. CASE Anchored # {}
      <3>1. PICK m \in Anchored : events[m].seq = anchor.tailSeq
        BY <2>a, <2>4
      <3>2. \A j \in Anchored : events[j].seq <= events[m].seq
        BY <2>a, <3>1
      <3>3. StoredTail \in Anchored /\ \A j \in Anchored : events[j].seq <= events[StoredTail].seq
        BY <3>1, <3>2 DEF StoredTail
      <3>4. events[StoredTail].seq = anchor.tailSeq
        BY <2>a, <3>1, <3>3
      <3>5. Len(events[StoredTail].hash) = anchor.tailSeq
        BY <2>t, <3>3, <3>4, HashEndsInKey
      <3>6. InTail(anchor.tailHash, anchor)
        BY <2>a, <2>t DEF InTail
      <3>7. events[StoredTail].hash = anchor.tailHash
        BY <2>e, <2>t, <3>3, <3>5, <3>6
      <3> QED BY <2>1, <2>2, <2>4, <3>4, <3>7
    <2> QED BY <2>3, <2>4
  <1> QED BY InitTailInv, NextTailInv, <1>1, PTL DEF Spec
=============================================================================
