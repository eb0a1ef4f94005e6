----------------------------- MODULE PayoutProofs -----------------------------
(***************************************************************************)
(* Proofs about Payout, for any lines, cycles, approvers, adjustments and  *)
(* number of handlers, however they overlap, fail and crash.               *)
(***************************************************************************)
EXTENDS Payout, SumProofs

\* A batch before anything of it was submitted.
Pre == {"none", "draft", "pending", "approved"}

\* The steps of a submission before it has won the version of the ids, and
\* those at which the handler's copy is PROCESSING.
Submitting == {"queue", "process", "stamp", "post", "ids"}
InFlight == {"stamp", "post", "ids", "instruct", "answer", "fetch", "failed", "paid"}

\* The states and the steps of a batch that was approved.
Final == {"approved", "queued", "processing", "paid", "failed", "reversed"}
FinalSteps == InFlight \cup Submitting \cup {"approved", "settle", "reverse"}

\* The steps that work on no batch yet.
Loose == {"idle", "promote", "refund"}

Approved(c) == Cardinality(ApprovedBy(batch[c])) >= IF Dual(batch[c]) THEN 2 ELSE 1

\* What a handler knows of its batch by its step and its copy.
CopyOk(d) ==
    /\ d.at \notin Loose => d.cycle \in Cycles
    /\ d.at \notin Loose \cup {"carry", "create"} => batch[d.cycle].state # "none"
    /\ d.from # NoCycle => batch[d.from].state # "none"
    /\ d.at = "ask" => d.copy.state = "draft"
    /\ d.at \in {"approve", "approved", "reject"} => d.copy.state = "pending"
    /\ d.at = "queue" => d.copy.state \in {"approved", "failed"}
    /\ d.at = "process" => d.copy.state = "queued"
    /\ d.at \in InFlight => d.copy.state = "processing"
    /\ d.at \in {"settle", "reverse"} => d.copy.state = "paid"
    /\ d.at \in Submitting => d.copy.version <= batch[d.cycle].version

\* An approver who has not approved yet, and a handler that goes on from an
\* approved batch.
ApprovalOk(d) ==
    /\ d.at = "approve" =>
          /\ d.copy.net = batch[d.cycle].net
          /\ ApprovedBy(d.copy) \subseteq ApprovedBy(batch[d.cycle])
          /\ \E u \in Approvers : d.who = {u} /\ u \notin ApprovedBy(d.copy)
    /\ d.at \in FinalSteps => Approved(d.cycle)

\* What a handler was told of the money.
MoneyOk(d) ==
    /\ d.at \in {"paid", "settle", "reverse"} \/ (d.at = "answer" /\ d.outcome = "paid") =>
          provider[d.cycle] \in {"moved", "bounced"}
    /\ d.at = "fetch" => provider[d.cycle] \in {"moved", "failed", "bounced"}

CallOk(d) == CopyOk(d) /\ ApprovalOk(d) /\ MoneyOk(d)

\* Two versions of a batch that say the same of its money, or altogether.
SameSums(a, b) == a.lines = b.lines /\ a.net = b.net /\ a.carry = b.carry /\ a.opening = b.opening
SameFace(a, b) == a.state = b.state /\ SameSums(a, b)

\* Two records of one handler, apart from its step and its copy.
Alike(e, d) ==
    /\ e.cycle = d.cycle /\ e.items = d.items /\ e.adjs = d.adjs /\ e.from = d.from
    /\ e.outcome = d.outcome

BatchOk(c) ==
    /\ batch[c].state = "none" => batch[c].carry = 0
    /\ batch[c].state \in Final => Approved(c)
    /\ batch[c].state \in {"paid", "reversed"} => provider[c] \in {"moved", "bounced"}

\* A handler that will record a failure.
Failure(d) == d.at = "failed" \/ (d.at = "answer" /\ d.outcome = "failed")

Winning(c) == {p \in Procs : Cycle(p) = c /\ At(p, "instruct")}
Failing(c) == {p \in Procs : Cycle(p) = c /\ Failure(call[p])}

\* The instructions sent and about to be sent.
Sendings(c) == sent[c].instructions + Cardinality(Winning(c))

\* p may still win the version of the ids of c.
Behind(p, c) == Cycle(p) = c /\ call[p].at \in Submitting /\ Copy(p).version = batch[c].version

\* How the instructions of a batch keep within its recorded failures.
Counted(c) ==
    /\ IsFiniteSet(Winning(c)) /\ IsFiniteSet(Failing(c))
    /\ Sendings(c) <= 1 + sent[c].failures
    /\ batch[c].state \in Pre \cup {"failed"} => Sendings(c) <= sent[c].failures
    /\ \A p \in Procs : Behind(p, c) =>
          /\ Sendings(c) <= sent[c].failures
          /\ ~At(p, "queue") /\ batch[c].state = "failed" => Sendings(c) < sent[c].failures
    /\ \A p \in Procs : Cycle(p) = c /\ call[p].at \in Submitting \ {"queue"} =>
          batch[c].state \notin Pre
    /\ provider[c] = "none" => sent[c].failures + Cardinality(Failing(c)) <= sent[c].instructions
    /\ provider[c] \in {"moving", "moved"} => Failing(c) = {} /\ batch[c].state # "failed"

PayoutInv ==
    /\ TypeOK
    /\ \A p \in Procs : CallOk(call[p])
    /\ \A c \in Cycles : BatchOk(c)
    /\ "belated" \notin detours => \A c \in Cycles : Counted(c)

\* What a step never takes back.
Grows ==
    \A c \in Cycles :
        /\ batch[c].state # "none" =>
              /\ batch'[c].state # "none" /\ batch'[c].net = batch[c].net
              /\ ApprovedBy(batch[c]) \subseteq ApprovedBy(batch'[c])
        /\ batch[c].version <= batch'[c].version
        /\ provider[c] \in {"moved", "bounced"} => provider'[c] \in {"moved", "bounced"}
        /\ provider[c] \in {"moved", "failed", "bounced"} =>
              provider'[c] \in {"moved", "failed", "bounced"}

\* A batch goes to a state that what is known of it allows.
Justified ==
    \A c \in Cycles :
      /\ batch'[c].state = "none" => batch'[c] = batch[c]
      /\ batch'[c].state # batch[c].state =>
        /\ batch'[c].state \in Final => batch[c].state # "none" /\ Approved(c)
        /\ batch'[c].state \in {"paid", "reversed"} => provider[c] \in {"moved", "bounced"}

\* Handler p goes on as d, and the instructions and failures of no batch come
\* closer to each other.
Steady(p, d) ==
    \A c \in Cycles :
        /\ sent'[c] = sent[c] /\ provider'[c] = provider[c]
        /\ batch'[c].state \in Pre => batch[c].state \in Pre
        /\ batch'[c].state = "failed" => batch[c].state = "failed"
        /\ d.cycle = c /\ d.at = "instruct" => Cycle(p) = c /\ At(p, "instruct")
        /\ d.cycle = c /\ Failure(d) =>
              provider[c] = "failed" \/ (Cycle(p) = c /\ Failure(call[p]))
        /\ d.cycle = c /\ d.at \in Submitting =>
              /\ Cycle(p) = c /\ call[p].at \in Submitting /\ Copy(p).version = d.copy.version
              /\ \/ d.at = "queue"
                 \/ call[p].at # "queue"
                 \/ batch'[c].state \notin Pre \cup {"failed"}

-----------------------------------------------------------------------------

LEMMA IdleTyped == Idle \in CallType /\ NoBatch \in BatchType
  <1>1. NoBatch \in BatchType
    BY DEF NoBatch, BatchType, States
  <1>2. Idle \in CallType
    BY <1>1 DEF Idle, CallType, Steps, Outcomes, LineStates
  <1> QED BY <1>1, <1>2

\* The parts of a batch and of a handler's record.
LEMMA BatchParts ==
    ASSUME NEW b \in BatchType
    PROVE  /\ b.state \in States /\ b.lines \in Int /\ b.net \in Int /\ b.carry \in Int
           /\ b.opening \in Int /\ b.approvals \in Seq(Approvers)
           /\ b.version \in Nat /\ b.version \in Int
  BY DEF BatchType

LEMMA CallParts ==
    ASSUME NEW d \in CallType
    PROVE  /\ d.at \in Steps /\ d.cycle \in Cycles \cup {NoCycle} /\ d.copy \in BatchType
           /\ d.items \in SUBSET Items /\ d.adjs \in SUBSET Adjustments
           /\ d.from \in Cycles \cup {NoCycle} /\ d.who \in SUBSET Approvers
           /\ d.outcome \in Outcomes
  BY DEF CallType

\* The edits the handlers make of a batch and of their own record.
LEMMA BatchEdited ==
    ASSUME NEW b \in BatchType
    PROVE  /\ \A s \in States : [b EXCEPT !.state = s] \in BatchType
           /\ \A n \in Int : [b EXCEPT !.opening = n] \in BatchType
           /\ \A n \in Int : [b EXCEPT !.carry = n] \in BatchType
           /\ \A n \in Int : [b EXCEPT !.carry = n, !.opening = 0] \in BatchType
           /\ \A v \in BOOLEAN : [b EXCEPT !.chase = v] \in BatchType
           /\ \A s \in Seq(Approvers) : [b EXCEPT !.approvals = s] \in BatchType
           /\ \A s \in Seq(Approvers), k \in Nat :
                  [b EXCEPT !.approvals = s, !.version = k] \in BatchType
           /\ \A k \in Nat : [b EXCEPT !.version = k] \in BatchType
  <1>1. ASSUME NEW s \in States PROVE [b EXCEPT !.state = s] \in BatchType
    BY DEF BatchType
  <1>2. ASSUME NEW a \in BatchType, NEW n \in Int
        PROVE  [a EXCEPT !.opening = n] \in BatchType /\ [a EXCEPT !.carry = n] \in BatchType
    BY DEF BatchType
  <1>3. ASSUME NEW n \in Int PROVE [b EXCEPT !.carry = n, !.opening = 0] \in BatchType
    <2>1. PICK e : e = [b EXCEPT !.carry = n]
      OBVIOUS
    <2>2. e \in BatchType
      BY <2>1 DEF BatchType
    <2>3. \A z \in Int : [e EXCEPT !.opening = z] \in BatchType
      BY <1>2, <2>2
    <2>4. [e EXCEPT !.opening = 0] \in BatchType
      BY <2>3
    <2>5. [b EXCEPT !.carry = n, !.opening = 0] = [e EXCEPT !.opening = 0]
      BY <2>1 DEF BatchType
    <2> QED BY <2>4, <2>5
  <1>4. ASSUME NEW v \in BOOLEAN PROVE [b EXCEPT !.chase = v] \in BatchType
    BY DEF BatchType
  <1>5. ASSUME NEW s \in Seq(Approvers), NEW k \in Nat
        PROVE  /\ [b EXCEPT !.approvals = s] \in BatchType
               /\ [b EXCEPT !.approvals = s, !.version = k] \in BatchType
    BY DEF BatchType
  <1>6. ASSUME NEW k \in Nat PROVE [b EXCEPT !.version = k] \in BatchType
    BY DEF BatchType
  <1> QED BY <1>1, <1>2, <1>3, <1>4, <1>5, <1>6

LEMMA CallEdited ==
    ASSUME NEW d \in CallType, NEW st \in Steps
    PROVE  /\ [d EXCEPT !.at = st] \in CallType
           /\ \A o \in Outcomes : [d EXCEPT !.outcome = o, !.at = st] \in CallType
           /\ \A b \in BatchType : [d EXCEPT !.copy = b, !.at = st] \in CallType
  <1>1. [d EXCEPT !.at = st] \in CallType
    BY DEF CallType
  <1>2. ASSUME NEW o \in Outcomes PROVE [d EXCEPT !.outcome = o, !.at = st] \in CallType
    BY DEF CallType
  <1>3. ASSUME NEW b \in BatchType PROVE [d EXCEPT !.copy = b, !.at = st] \in CallType
    BY DEF CallType
  <1> QED BY <1>1, <1>2, <1>3

\* Only so many people approved a batch.
LEMMA ApproversFinite ==
    ASSUME NEW b \in BatchType
    PROVE  IsFiniteSet(ApprovedBy(b))
  <1> DEFINE s == b.approvals
             B == ApprovedBy(b)
  <1>1. s \in Seq(Approvers) /\ IsFiniteSet(DOMAIN s)
    <2>1. s \in Seq(Approvers)
      BY BatchParts
    <2> HIDE DEF s
    <2> QED BY <2>1, FS_Interval
  <1>2. B = {s[n] : n \in DOMAIN s}
    BY DEF ApprovedBy
  <1>3. s \in Surjection(DOMAIN s, B)
    <2> HIDE DEF s, B
    <2>1. s = [n \in DOMAIN s |-> s[n]]
      BY <1>1
    <2> QED BY <1>2, <2>1 DEF Surjection
  <1> HIDE DEF s
  <1> QED BY <1>1, <1>3, FS_Surjection

\* The people who approved only get more.
LEMMA ApprovedKept ==
    ASSUME TypeOK, TypeOK', Grows, NEW c \in Cycles, batch[c].state # "none", Approved(c)
    PROVE  Approved(c)'
  <1> DEFINE A == ApprovedBy(batch[c])
             B == ApprovedBy(batch'[c])
  <1>1. A \subseteq B /\ batch'[c].net = batch[c].net
    BY DEF Grows
  <1>3. IsFiniteSet(B)
    <2>1. batch'[c] \in BatchType
      BY DEF TypeOK
    <2> QED BY <2>1, ApproversFinite
  <1>4. Cardinality(A) <= Cardinality(B) /\ Cardinality(A) \in Nat /\ Cardinality(B) \in Nat
    BY <1>1, <1>3, FS_Subset, FS_CardinalityType
  <1>5. DualAt \in Nat
    BY PayoutAssumption
  <1> QED BY <1>1, <1>4, <1>5 DEF Approved, Dual

\* What a handler knows stays true while things only grow.
LEMMA CallKept ==
    ASSUME TypeOK, TypeOK', Grows, NEW d \in CallType, CallOk(d)
    PROVE  CallOk(d)'
  <1>1. d.copy \in BatchType /\ d.from \in Cycles \cup {NoCycle}
    BY DEF CallType
  <1>2. CASE d.at \in Loose
    <2>1. d.from # NoCycle => d.from \in Cycles
      BY <1>1
    <2> QED BY <1>2, <2>1 DEF CallOk, CopyOk, ApprovalOk, MoneyOk, Grows, Loose, FinalSteps,
                               InFlight, Submitting
  <1>3. CASE d.at \in {"carry", "create"}
    <2>1. d.from # NoCycle => d.from \in Cycles
      BY <1>1
    <2> QED BY <1>3, <2>1 DEF CallOk, CopyOk, ApprovalOk, MoneyOk, Grows, Loose, FinalSteps,
                               InFlight, Submitting
  <1>4. CASE d.at \notin Loose \cup {"carry", "create"}
    <2>1. PICK c \in Cycles : c = d.cycle /\ batch[c].state # "none"
      BY <1>4 DEF CallOk, CopyOk
    <2>2. d.from # NoCycle => d.from \in Cycles
      BY <1>1
    <2>3. batch[c].version \in Int /\ batch'[c].version \in Int /\ d.copy.version \in Int
      <3>1. batch[c] \in BatchType /\ batch'[c] \in BatchType
        BY DEF TypeOK
      <3> QED BY <1>1, <3>1, BatchParts
    <2>4. CopyOk(d)'
      BY <2>1, <2>2, <2>3 DEF CallOk, CopyOk, Grows
    <2>5. ApprovalOk(d)'
      <3>1. d.at \in FinalSteps => Approved(c)'
        BY <2>1, ApprovedKept DEF CallOk, ApprovalOk
      <3>2. d.at = "approve" =>
              /\ d.copy.net = batch'[c].net
              /\ ApprovedBy(d.copy) \subseteq ApprovedBy(batch'[c])
        BY <2>1 DEF CallOk, ApprovalOk, Grows
      <3> QED BY <2>1, <3>1, <3>2 DEF CallOk, ApprovalOk, Approved, ApprovedBy
    <2>6. MoneyOk(d)'
      BY <2>1 DEF CallOk, MoneyOk, Grows
    <2> QED BY <2>4, <2>5, <2>6 DEF CallOk
  <1> QED BY <1>2, <1>3, <1>4

\* The facts about the other handlers and about the batches follow from p's step.
LEMMA Stepped ==
    ASSUME PayoutInv, TypeOK', NEW p \in Procs, NEW d \in CallType,
           call' = [call EXCEPT ![p] = d], Grows, Justified, CallOk(d)',
           "belated" \notin detours' => \A c \in Cycles : Counted(c)'
    PROVE  PayoutInv'
  <1>t. /\ call \in [Procs -> CallType] /\ call'[p] = d
        /\ \A q \in Procs \ {p} : call'[q] = call[q]
    BY DEF PayoutInv, TypeOK
  <1>1. ASSUME NEW q \in Procs, q # p PROVE CallOk(call[q])'
    <2>1. PICK e \in CallType : e = call[q] /\ e = call'[q]
      BY <1>t, <1>1
    <2>2. CallOk(e)'
      BY <2>1, CallKept DEF PayoutInv
    <2> QED BY <2>1, <2>2
  <1>2. CallOk(call[p])'
    BY <1>t
  <1>3. ASSUME NEW c \in Cycles PROVE BatchOk(c)'
    <2>1. CASE batch'[c].state = batch[c].state
      <3>1. batch[c].state \in Final => Approved(c)'
        BY ApprovedKept DEF PayoutInv, BatchOk, Final
      <3> QED BY <2>1, <3>1 DEF PayoutInv, BatchOk, Grows, Justified
    <2>2. CASE batch'[c].state # batch[c].state
      <3>1. batch'[c].state \in Final => Approved(c)'
        BY <2>2, ApprovedKept DEF PayoutInv, Justified
      <3> QED BY <2>2, <3>1 DEF BatchOk, Justified, Grows
    <2> QED BY <2>1, <2>2
  <1> QED BY <1>1, <1>2, <1>3 DEF PayoutInv

-----------------------------------------------------------------------------
(* Counting instructions and failures. *)

\* What the count of a batch is made of.
LEMMA CountParts ==
    ASSUME TypeOK, NEW c \in Cycles, Counted(c)
    PROVE  /\ sent[c].instructions \in Nat /\ sent[c].failures \in Nat
           /\ Cardinality(Winning(c)) \in Nat /\ Cardinality(Failing(c)) \in Nat
           /\ Sendings(c) \in Nat /\ Sendings(c) = sent[c].instructions + Cardinality(Winning(c))
  BY FS_CardinalityType DEF TypeOK, Counted, Sendings

LEMMA CountKept ==
    ASSUME PayoutInv, TypeOK', NEW p \in Procs, NEW d \in CallType,
           call' = [call EXCEPT ![p] = d], Grows, Steady(p, d), NEW c \in Cycles, Counted(c)
    PROVE  Counted(c)'
  <1>t. /\ call \in [Procs -> CallType] /\ call'[p] = d
        /\ \A q \in Procs \ {p} : call'[q] = call[q]
    BY DEF PayoutInv, TypeOK
  <1>s. /\ sent'[c] = sent[c] /\ provider'[c] = provider[c]
        /\ batch'[c].state \in Pre => batch[c].state \in Pre
        /\ batch'[c].state = "failed" => batch[c].state = "failed"
        /\ d.cycle = c /\ d.at = "instruct" => Cycle(p) = c /\ At(p, "instruct")
        /\ d.cycle = c /\ Failure(d) =>
              provider[c] = "failed" \/ (Cycle(p) = c /\ Failure(call[p]))
        /\ d.cycle = c /\ d.at \in Submitting =>
              /\ Cycle(p) = c /\ call[p].at \in Submitting /\ Copy(p).version = d.copy.version
              /\ \/ d.at = "queue"
                 \/ call[p].at # "queue"
                 \/ batch'[c].state \notin Pre \cup {"failed"}
    BY DEF Steady
  <1>w. /\ IsFiniteSet(Winning(c)') /\ Cardinality(Winning(c)') <= Cardinality(Winning(c))
        /\ Cardinality(Winning(c)') \in Nat /\ Cardinality(Winning(c)) \in Nat
    <2>1. Winning(c)' \subseteq Winning(c)
      BY <1>t, <1>s DEF Winning, Cycle, At
    <2>2. IsFiniteSet(Winning(c))
      BY DEF Counted
    <2> QED BY <2>1, <2>2, FS_Subset, FS_CardinalityType
  <1>f. /\ IsFiniteSet(Failing(c)')
        /\ provider[c] # "failed" =>
              /\ Failing(c)' \subseteq Failing(c)
              /\ Cardinality(Failing(c)') <= Cardinality(Failing(c))
        /\ Cardinality(Failing(c)') \in Nat /\ Cardinality(Failing(c)) \in Nat
    <2>1. Failing(c)' \subseteq Failing(c) \cup {p}
      BY <1>t DEF Failing, Cycle, Failure
    <2>2. provider[c] # "failed" => Failing(c)' \subseteq Failing(c)
      <3> SUFFICES ASSUME provider[c] # "failed", NEW q \in Failing(c)' PROVE q \in Failing(c)
        OBVIOUS
      <3>1. CASE q = p
        BY <1>t, <1>s, <3>1 DEF Failing, Cycle, Failure
      <3>2. CASE q # p
        BY <1>t, <3>2 DEF Failing, Cycle, Failure
      <3> QED BY <3>1, <3>2
    <2>3. IsFiniteSet(Failing(c)) /\ IsFiniteSet(Failing(c) \cup {p})
      BY FS_AddElement DEF Counted
    <2> QED BY <2>1, <2>2, <2>3, FS_Subset, FS_CardinalityType
  <1>n. /\ sent[c].instructions \in Nat /\ sent[c].failures \in Nat
        /\ Sendings(c) = sent[c].instructions + Cardinality(Winning(c))
        /\ Sendings(c)' = sent[c].instructions + Cardinality(Winning(c)')
    BY <1>s, CountParts DEF PayoutInv, Sendings
  <1>v. ASSUME NEW q \in Procs, Behind(q, c)' PROVE Behind(q, c)
    <2>1. PICK e \in CallType : e = call'[q] /\ e.cycle = c /\ e.at \in Submitting
                                /\ e.copy.version = batch'[c].version
      BY <1>t, <1>v DEF Behind, Cycle, Copy
    <2>2. Cycle(q) = c /\ call[q].at \in Submitting /\ Copy(q).version = e.copy.version
      BY <1>t, <1>s, <2>1 DEF Cycle, Copy
    <2>3. Copy(q).version <= batch[c].version
      <3>1. CallOk(call[q])
        BY DEF PayoutInv
      <3> QED BY <2>2, <3>1 DEF CallOk, CopyOk, Cycle, Copy
    <2>4. batch[c].version \in Int /\ batch'[c].version \in Int
      <3>1. batch[c] \in BatchType /\ batch'[c] \in BatchType
        BY DEF PayoutInv, TypeOK
      <3> QED BY <3>1, BatchParts
    <2>5. batch[c].version <= batch'[c].version
      BY DEF Grows
    <2> QED BY <2>1, <2>2, <2>3, <2>4, <2>5 DEF Behind
  <1>1. Sendings(c)' <= Sendings(c)
    BY <1>w, <1>n
  <1>2. (Sendings(c) <= 1 + sent[c].failures)
        /\ (batch[c].state \in Pre \cup {"failed"} => Sendings(c) <= sent[c].failures)
    BY DEF Counted
  <1>3. Sendings(c) \in Nat /\ Sendings(c)' \in Nat
    BY <1>w, <1>n
  <1>4. (Sendings(c)' <= 1 + sent'[c].failures)
        /\ (batch'[c].state \in Pre \cup {"failed"} => Sendings(c)' <= sent'[c].failures)
    <2>1. batch'[c].state \in Pre \cup {"failed"} => batch[c].state \in Pre \cup {"failed"}
      BY <1>s
    <2> QED BY <1>1, <1>2, <1>3, <1>n, <1>s, <2>1
  <1>5. ASSUME NEW q \in Procs, Behind(q, c)'
        PROVE  /\ Sendings(c)' <= sent'[c].failures
               /\ ~At(q, "queue")' /\ batch'[c].state = "failed" =>
                      Sendings(c)' < sent'[c].failures
    <2>1. Behind(q, c)
      BY <1>5, <1>v
    <2>2. (Sendings(c) <= sent[c].failures)
          /\ (~At(q, "queue") /\ batch[c].state = "failed" => Sendings(c) < sent[c].failures)
      BY <2>1 DEF Counted
    <2>3. ~At(q, "queue")' /\ batch'[c].state = "failed" =>
              ~At(q, "queue") /\ batch[c].state = "failed"
      <3>1. CASE q = p
        <4>1. d.cycle = c /\ d.at \in Submitting /\ (At(q, "queue")' <=> d.at = "queue")
          BY <1>t, <1>5, <3>1 DEF Behind, Cycle, At
        <4> QED BY <1>s, <3>1, <4>1 DEF At
      <3>2. CASE q # p
        BY <1>t, <1>s, <3>2 DEF At
      <3> QED BY <3>1, <3>2
    <2> QED BY <1>1, <1>3, <1>n, <1>s, <2>2, <2>3
  <1>6. ASSUME NEW q \in Procs, Cycle(q)' = c, call'[q].at \in Submitting \ {"queue"}
        PROVE  batch'[c].state \notin Pre
    <2>1. CASE q = p
      <3>1. d.cycle = c /\ d.at \in Submitting \ {"queue"}
        BY <1>t, <1>6, <2>1 DEF Cycle
      <3>2. CASE call[p].at # "queue"
        BY <1>s, <3>1, <3>2 DEF Counted
      <3>3. CASE call[p].at = "queue"
        BY <1>s, <3>1, <3>3
      <3> QED BY <3>2, <3>3
    <2>2. CASE q # p
      BY <1>t, <1>s, <1>6, <2>2 DEF Counted, Cycle
    <2> QED BY <2>1, <2>2
  <1>7. /\ provider'[c] = "none" =>
              sent'[c].failures + Cardinality(Failing(c)') <= sent'[c].instructions
        /\ provider'[c] \in {"moving", "moved"} =>
              Failing(c)' = {} /\ batch'[c].state # "failed"
    BY <1>f, <1>n, <1>s DEF Counted
  <1> QED BY <1>w, <1>f, <1>4, <1>5, <1>6, <1>7 DEF Counted

\* A step that keeps the instructions and the failures apart.
LEMMA Progressed ==
    ASSUME PayoutInv, TypeOK', NEW p \in Procs, NEW d \in CallType,
           call' = [call EXCEPT ![p] = d], Grows, Justified, CallOk(d)',
           "belated" \notin detours' => "belated" \notin detours /\ Steady(p, d)
    PROVE  PayoutInv'
  <1>1. ASSUME "belated" \notin detours', NEW c \in Cycles PROVE Counted(c)'
    BY <1>1, CountKept DEF PayoutInv
  <1> QED BY <1>1, Stepped

\* A step that touches no batch and no money.
LEMMA QuietStep ==
    ASSUME PayoutInv, TypeOK', NEW p \in Procs, NEW d \in CallType,
           call' = [call EXCEPT ![p] = d], UNCHANGED <<batch, provider, sent>>, CallOk(d),
           detours \subseteq detours',
           d.at = "instruct" => Cycle(p) = d.cycle /\ At(p, "instruct"),
           Failure(d) => provider[d.cycle] = "failed"
                         \/ (Cycle(p) = d.cycle /\ Failure(call[p])),
           d.at \in Submitting =>
              /\ Cycle(p) = d.cycle /\ call[p].at \in Submitting
              /\ Copy(p).version = d.copy.version
              /\ d.at = "queue" \/ call[p].at # "queue"
    PROVE  PayoutInv'
  <1>1. Grows
    <2>1. ASSUME NEW c \in Cycles PROVE batch[c].version <= batch[c].version
      <3>1. batch[c] \in BatchType
        BY DEF PayoutInv, TypeOK
      <3>2. batch[c].version \in Int
        BY <3>1, BatchParts
      <3> QED BY <3>2
    <2> QED BY <2>1 DEF Grows
  <1>2. Justified
    BY DEF Justified
  <1>3. CallOk(d)'
    BY <1>1, CallKept DEF PayoutInv
  <1>4. Steady(p, d)
    BY DEF Steady
  <1> QED BY <1>1, <1>2, <1>3, <1>4, Progressed

\* A handler that ends.
LEMMA Ended ==
    ASSUME PayoutInv, TypeOK', NEW p \in Procs,
           call' = [call EXCEPT ![p] = Idle], UNCHANGED <<batch, provider, sent>>,
           detours \subseteq detours'
    PROVE  PayoutInv'
  <1>1. PICK d \in CallType : d = Idle
    BY IdleTyped
  <1>2. d.at = "idle" /\ d.from = NoCycle
    BY <1>1 DEF Idle
  <1>3. CallOk(d)
    BY <1>2 DEF CallOk, CopyOk, ApprovalOk, MoneyOk, Loose, FinalSteps, InFlight, Submitting
  <1>4. d.at \notin Submitting /\ d.at # "instruct" /\ ~Failure(d)
    BY <1>2 DEF Submitting, Failure
  <1> QED BY <1>1, <1>3, <1>4, QuietStep

\* A submission begins: nothing was sent, or what was sent has failed.
LEMMA CountFound ==
    ASSUME PayoutInv, NEW p \in Procs, NEW d \in CallType, At(p, "idle"),
           call' = [call EXCEPT ![p] = d], UNCHANGED <<batch, provider, sent>>,
           d.at = "queue", batch[d.cycle].state \in {"approved", "failed"},
           NEW c \in Cycles, Counted(c)
    PROVE  Counted(c)'
  <1>t. /\ call \in [Procs -> CallType] /\ call'[p] = d
        /\ \A q \in Procs \ {p} : call'[q] = call[q]
    BY DEF PayoutInv, TypeOK
  <1>1. Winning(c)' = Winning(c) /\ Failing(c)' = Failing(c)
    <2>1. ASSUME NEW q \in Procs
          PROVE  (q \in Winning(c)' <=> q \in Winning(c)) /\ (q \in Failing(c)' <=> q \in Failing(c))
      BY <1>t DEF Winning, Failing, Failure, Cycle, At
    <2> QED BY <2>1 DEF Winning, Failing
  <1>2. Sendings(c)' = Sendings(c)
    BY <1>1 DEF Sendings
  <1>3. ASSUME NEW q \in Procs, Behind(q, c)'
        PROVE  /\ Sendings(c) <= sent[c].failures
               /\ ~At(q, "queue")' /\ batch[c].state = "failed" =>
                      Sendings(c) < sent[c].failures
    <2>1. CASE q = p
      <3>1. d.cycle = c
        BY <1>t, <1>3, <2>1 DEF Behind, Cycle
      <3>2. batch[c].state \in Pre \cup {"failed"}
        BY <3>1 DEF Pre
      <3> QED BY <1>t, <2>1, <3>2 DEF Counted, At
    <2>2. CASE q # p
      <3>1. Behind(q, c)
        BY <1>t, <1>3, <2>2 DEF Behind, Cycle, Copy
      <3> QED BY <1>t, <2>2, <3>1 DEF Counted, At
    <2> QED BY <2>1, <2>2
  <1>4. ASSUME NEW q \in Procs, Cycle(q)' = c, call'[q].at \in Submitting \ {"queue"}
        PROVE  batch[c].state \notin Pre
    <2>1. q # p
      BY <1>t, <1>4
    <2> QED BY <1>t, <1>4, <2>1 DEF Counted, Cycle
  <1> QED BY <1>1, <1>2, <1>3, <1>4 DEF Counted

\* The version of the ids is won: whoever else has read it is too late.
LEMMA CountWon ==
    ASSUME PayoutInv, TypeOK', NEW p \in Procs, NEW d \in CallType, At(p, "ids"),
           call' = [call EXCEPT ![p] = d], UNCHANGED <<provider, sent>>,
           d.at = "instruct", d.cycle = Cycle(p),
           Cycle(p) \in Cycles, Copy(p).version = batch[Cycle(p)].version,
           \A x \in Cycles : /\ batch'[x].state = batch[x].state
                             /\ batch'[x].version = IF x = Cycle(p) THEN batch[x].version + 1
                                                    ELSE batch[x].version,
           NEW c \in Cycles, Counted(c)
    PROVE  Counted(c)'
  <1>t. /\ call \in [Procs -> CallType] /\ call'[p] = d
        /\ \A q \in Procs \ {p} : call'[q] = call[q]
    BY DEF PayoutInv, TypeOK
  <1>f. Failing(c)' = Failing(c)
    <2>1. ASSUME NEW q \in Procs PROVE q \in Failing(c)' <=> q \in Failing(c)
      BY <1>t DEF Failing, Failure, Cycle, At
    <2> QED BY <2>1 DEF Failing
  <1>n. /\ sent[c].instructions \in Nat /\ sent[c].failures \in Nat
        /\ Cardinality(Winning(c)) \in Nat
        /\ Sendings(c) = sent[c].instructions + Cardinality(Winning(c))
        /\ Sendings(c)' = sent[c].instructions + Cardinality(Winning(c)')
    BY CountParts DEF PayoutInv, Sendings
  <1>1. CASE c # Cycle(p)
    <2>1. Winning(c)' = Winning(c)
      <3>1. ASSUME NEW q \in Procs PROVE q \in Winning(c)' <=> q \in Winning(c)
        BY <1>t, <1>1 DEF Winning, Cycle, At
      <3> QED BY <3>1 DEF Winning
    <2>2. Sendings(c)' = Sendings(c)
      BY <1>n, <2>1
    <2>3. ASSUME NEW q \in Procs, Cycle(q)' = c
          PROVE  q # p /\ (Behind(q, c)' <=> Behind(q, c)) /\ (At(q, "queue")' <=> At(q, "queue"))
      BY <1>t, <1>1, <2>3 DEF Behind, Cycle, Copy, At
    <2>4. ASSUME NEW q \in Procs, Behind(q, c)'
          PROVE  /\ Sendings(c) <= sent[c].failures
                 /\ ~At(q, "queue")' /\ batch[c].state = "failed" =>
                        Sendings(c) < sent[c].failures
      <3>1. Cycle(q)' = c
        BY <2>4 DEF Behind
      <3> QED BY <2>3, <2>4, <3>1 DEF Counted
    <2>5. ASSUME NEW q \in Procs, Cycle(q)' = c, call'[q].at \in Submitting \ {"queue"}
          PROVE  batch[c].state \notin Pre
      BY <1>t, <2>3, <2>5 DEF Counted, Cycle
    <2>6. batch'[c].state = batch[c].state
      OBVIOUS
    <2> QED BY <1>f, <2>1, <2>2, <2>4, <2>5, <2>6 DEF Counted
  <1>2. CASE c = Cycle(p)
    <2>0. Behind(p, c) /\ p \notin Winning(c)
      BY <1>2 DEF Behind, Submitting, At, Winning
    <2>1. Winning(c)' = Winning(c) \cup {p}
      <3>1. ASSUME NEW q \in Procs PROVE q \in Winning(c)' <=> q \in Winning(c) \cup {p}
        BY <1>t, <1>2 DEF Winning, Cycle, At
      <3> QED BY <3>1 DEF Winning
    <2>2. IsFiniteSet(Winning(c)') /\ Sendings(c)' = Sendings(c) + 1
      <3>1. IsFiniteSet(Winning(c))
        BY DEF Counted
      <3>2. Cardinality(Winning(c)') = Cardinality(Winning(c)) + 1 /\ IsFiniteSet(Winning(c)')
        BY <2>0, <2>1, <3>1, FS_AddElement
      <3> QED BY <1>n, <3>2
    <2>3. /\ Sendings(c) <= sent[c].failures
          /\ batch[c].state = "failed" => Sendings(c) < sent[c].failures
          /\ batch[c].state \notin Pre
      BY <1>2, <2>0 DEF Counted, At, Cycle, Submitting
    <2>4. ASSUME NEW q \in Procs PROVE ~Behind(q, c)'
      <3>1. CASE q = p
        BY <1>t, <3>1 DEF Behind, Submitting
      <3>2. CASE q # p
        <4>1. CallOk(call[q]) /\ batch[c] \in BatchType /\ call[q] \in CallType
          BY <1>t DEF PayoutInv, TypeOK
        <4>2. batch[c].version \in Int /\ call[q].copy.version \in Int
          BY <4>1, BatchParts, CallParts
        <4>3. Cycle(q) = c /\ call[q].at \in Submitting => call[q].copy.version <= batch[c].version
          BY <4>1 DEF CallOk, CopyOk, Cycle
        <4> QED BY <1>t, <1>2, <3>2, <4>2, <4>3 DEF Behind, Cycle, Copy
      <3> QED BY <3>1, <3>2
    <2>5. ASSUME NEW q \in Procs, Cycle(q)' = c, call'[q].at \in Submitting \ {"queue"}
          PROVE  batch[c].state \notin Pre
      BY <2>3
    <2>6. Sendings(c) \in Nat
      BY <1>n
    <2>7. (Sendings(c)' <= 1 + sent[c].failures)
          /\ (batch[c].state \in Pre \cup {"failed"} => Sendings(c)' <= sent[c].failures)
      BY <1>n, <2>2, <2>3, <2>6
    <2>8. batch'[c].state = batch[c].state
      OBVIOUS
    <2> QED BY <1>f, <2>2, <2>4, <2>5, <2>7, <2>8 DEF Counted
  <1> QED BY <1>1, <1>2

\* The provider is instructed: nothing had been sent that was not refused.
LEMMA CountInstructed ==
    ASSUME PayoutInv, TypeOK', NEW p \in Procs, NEW d \in CallType, At(p, "instruct"),
           call' = [call EXCEPT ![p] = d], UNCHANGED batch, d.at = "answer", d.cycle = Cycle(p),
           Cycle(p) \in Cycles,
           \A x \in Cycles :
              /\ sent'[x].failures = sent[x].failures
              /\ sent'[x].instructions = IF x = Cycle(p) THEN sent[x].instructions + 1
                                         ELSE sent[x].instructions
              /\ x # Cycle(p) \/ provider[x] # "none" => provider'[x] = provider[x],
           d.outcome = "failed" =>
              provider[Cycle(p)] = "none" /\ provider'[Cycle(p)] = "none",
           NEW c \in Cycles, Counted(c)
    PROVE  Counted(c)'
  <1>t. /\ call \in [Procs -> CallType] /\ call'[p] = d
        /\ \A q \in Procs \ {p} : call'[q] = call[q]
    BY DEF PayoutInv, TypeOK
  <1>b. ASSUME NEW q \in Procs
        PROVE  /\ Behind(q, c)' => Behind(q, c) /\ q # p
               /\ Cycle(q)' = c /\ call'[q].at \in Submitting =>
                      Cycle(q) = c /\ q # p
    <2>1. CASE q = p
      BY <1>t, <2>1 DEF Behind, Submitting
    <2>2. CASE q # p
      BY <1>t, <2>2 DEF Behind, Cycle, Copy
    <2> QED BY <2>1, <2>2
  <1>m. /\ sent[c].instructions \in Nat /\ sent[c].failures \in Nat
        /\ Cardinality(Winning(c)) \in Nat /\ Cardinality(Failing(c)) \in Nat
        /\ IsFiniteSet(Winning(c)) /\ IsFiniteSet(Failing(c))
        /\ Sendings(c) = sent[c].instructions + Cardinality(Winning(c))
        /\ Sendings(c)' = sent'[c].instructions + Cardinality(Winning(c)')
    BY CountParts DEF PayoutInv, Sendings, Counted
  <1>1. IsFiniteSet(Winning(c)') /\ Sendings(c)' = Sendings(c)
    <2>1. CASE c # Cycle(p)
      <3>1. ASSUME NEW q \in Procs PROVE q \in Winning(c)' <=> q \in Winning(c)
        BY <1>t, <2>1 DEF Winning, Cycle, At
      <3>2. Winning(c)' = Winning(c)
        BY <3>1 DEF Winning
      <3> QED BY <1>m, <2>1, <3>2
    <2>2. CASE c = Cycle(p)
      <3>1. ASSUME NEW q \in Procs PROVE q \in Winning(c)' <=> q \in Winning(c) \ {p}
        BY <1>t, <2>2 DEF Winning, Cycle, At
      <3>2. Winning(c)' = Winning(c) \ {p} /\ p \in Winning(c)
        BY <2>2, <3>1 DEF Winning
      <3>3. IsFiniteSet(Winning(c)') /\ Cardinality(Winning(c)') = Cardinality(Winning(c)) - 1
        BY <1>m, <3>2, FS_RemoveElement
      <3> QED BY <1>m, <2>2, <3>3
    <2> QED BY <2>1, <2>2
  <1>2. (Sendings(c)' <= 1 + sent'[c].failures)
        /\ (batch[c].state \in Pre \cup {"failed"} => Sendings(c)' <= sent'[c].failures)
    BY <1>1 DEF Counted
  <1>3. ASSUME NEW q \in Procs, Behind(q, c)'
        PROVE  /\ Sendings(c)' <= sent'[c].failures
               /\ ~At(q, "queue")' /\ batch[c].state = "failed" =>
                      Sendings(c)' < sent'[c].failures
    <2>1. Behind(q, c) /\ (At(q, "queue")' <=> At(q, "queue"))
      BY <1>t, <1>b, <1>3 DEF At
    <2> QED BY <1>1, <2>1 DEF Counted
  <1>4. ASSUME NEW q \in Procs, Cycle(q)' = c, call'[q].at \in Submitting \ {"queue"}
        PROVE  batch[c].state \notin Pre
    BY <1>t, <1>b, <1>4 DEF Counted
  <1>5. IsFiniteSet(Failing(c)') /\ Cardinality(Failing(c)') \in Nat
    <2>1. Failing(c)' \subseteq Failing(c) \cup {p}
      BY <1>t DEF Failing, Cycle, Failure
    <2>2. IsFiniteSet(Failing(c) \cup {p})
      BY <1>m, FS_AddElement
    <2> QED BY <2>1, <2>2, FS_Subset, FS_CardinalityType
  <1>6. CASE c # Cycle(p)
    <2>1. ASSUME NEW q \in Procs PROVE q \in Failing(c)' <=> q \in Failing(c)
      BY <1>t, <1>6 DEF Failing, Cycle, Failure
    <2>2. Failing(c)' = Failing(c)
      BY <2>1 DEF Failing
    <2>3. provider'[c] = provider[c] /\ sent'[c].instructions = sent[c].instructions
          /\ sent'[c].failures = sent[c].failures
      BY <1>6
    <2>4. /\ provider'[c] = "none" =>
              sent'[c].failures + Cardinality(Failing(c)') <= sent'[c].instructions
          /\ provider'[c] \in {"moving", "moved"} => Failing(c)' = {} /\ batch'[c].state # "failed"
      BY <2>2, <2>3 DEF Counted
    <2> QED BY <1>1, <1>2, <1>3, <1>4, <1>5, <2>4 DEF Counted
  <1>7. CASE c = Cycle(p)
    <2>0. p \in Winning(c)
      BY <1>7 DEF Winning
    <2>1. Cardinality(Winning(c)) >= 1
      <3>1. Winning(c) # {}
        BY <2>0
      <3> QED BY <1>m, <3>1, FS_EmptySet
    <2>2. d.outcome # "failed" => Failing(c)' \subseteq Failing(c)
      <3> SUFFICES ASSUME d.outcome # "failed", NEW q \in Failing(c)' PROVE q \in Failing(c)
        OBVIOUS
      <3>1. q # p
        BY <1>t DEF Failing, Failure
      <3> QED BY <1>t, <3>1 DEF Failing, Failure, Cycle
    <2>3. CASE provider[c] # "none"
      <3>1. d.outcome # "failed" /\ provider'[c] = provider[c]
        BY <1>7, <2>3
      <3>2. provider[c] \in {"moving", "moved"} => Failing(c) = {} /\ batch[c].state # "failed"
        BY DEF Counted
      <3>3. provider'[c] \in {"moving", "moved"} => Failing(c)' = {} /\ batch'[c].state # "failed"
        BY <2>2, <3>1, <3>2
      <3> QED BY <1>1, <1>2, <1>3, <1>4, <1>5, <2>3, <3>1, <3>3 DEF Counted
    <2>4. CASE provider[c] = "none"
      <3>1. sent[c].failures + Cardinality(Failing(c)) <= sent[c].instructions
        BY <2>4 DEF Counted
      <3>2. Cardinality(Failing(c)') <= Cardinality(Failing(c)) + 1
        <4>1. Failing(c)' \subseteq Failing(c) \cup {p}
          BY <1>t DEF Failing, Cycle, Failure
        <4>2. IsFiniteSet(Failing(c) \cup {p})
              /\ Cardinality(Failing(c) \cup {p}) <= Cardinality(Failing(c)) + 1
          <5> DEFINE F == Failing(c)
          <5>1. IsFiniteSet(F \cup {p})
                /\ Cardinality(F \cup {p}) = IF p \in F THEN Cardinality(F) ELSE Cardinality(F) + 1
            BY <1>m, FS_AddElement
          <5>2. Cardinality(F) \in Nat
            BY <1>m
          <5> HIDE DEF F
          <5>3. Cardinality(F \cup {p}) <= Cardinality(F) + 1
            BY <5>1, <5>2
          <5> QED BY <5>1, <5>3 DEF F
        <4>3. Cardinality(Failing(c)') <= Cardinality(Failing(c) \cup {p})
              /\ Cardinality(Failing(c) \cup {p}) \in Nat
          BY <4>1, <4>2, FS_Subset, FS_CardinalityType
        <4> QED BY <1>m, <1>5, <4>2, <4>3
      <3>3. sent'[c].instructions = sent[c].instructions + 1 /\ sent'[c].failures = sent[c].failures
        BY <1>7
      <3>4. sent'[c].failures + Cardinality(Failing(c)') <= sent'[c].instructions
        BY <1>m, <1>5, <3>1, <3>2, <3>3
      <3>5. Sendings(c) <= 1 + sent[c].failures
            /\ (batch[c].state = "failed" => Sendings(c) <= sent[c].failures)
        BY DEF Counted
      <3>6. Cardinality(Failing(c)) = 0 /\ batch[c].state # "failed"
        BY <1>m, <2>1, <3>1, <3>5
      <3>7. provider'[c] # "none" => Failing(c)' = {} /\ batch'[c].state # "failed"
        <4>1. Failing(c) = {}
          BY <1>m, <3>6, FS_EmptySet
        <4> QED BY <1>7, <2>2, <3>6, <4>1
      <3> QED BY <1>1, <1>2, <1>3, <1>4, <1>5, <3>4, <3>7 DEF Counted
    <2> QED BY <2>3, <2>4
  <1> QED BY <1>6, <1>7

\* A failure is recorded: one more instruction may be sent.
LEMMA CountFailed ==
    ASSUME PayoutInv, TypeOK', NEW p \in Procs, NEW d \in CallType, At(p, "failed"),
           call' = [call EXCEPT ![p] = d], UNCHANGED provider, d.at = "unwind",
           Cycle(p) \in Cycles,
           \A x \in Cycles :
              /\ batch'[x].state = IF x = Cycle(p) THEN "failed" ELSE batch[x].state
              /\ batch'[x].version = batch[x].version
              /\ sent'[x].instructions = sent[x].instructions
              /\ sent'[x].failures = IF x = Cycle(p) THEN sent[x].failures + 1
                                     ELSE sent[x].failures,
           NEW c \in Cycles, Counted(c)
    PROVE  Counted(c)'
  <1>t. /\ call \in [Procs -> CallType] /\ call'[p] = d
        /\ \A q \in Procs \ {p} : call'[q] = call[q]
    BY DEF PayoutInv, TypeOK
  <1>w. Winning(c)' = Winning(c)
    <2>1. ASSUME NEW q \in Procs PROVE q \in Winning(c)' <=> q \in Winning(c)
      BY <1>t DEF Winning, Cycle, At
    <2> QED BY <2>1 DEF Winning
  <1>b. ASSUME NEW q \in Procs
        PROVE  /\ Behind(q, c)' => Behind(q, c) /\ q # p
               /\ Cycle(q)' = c /\ call'[q].at \in Submitting =>
                      Cycle(q) = c /\ q # p
    <2>1. CASE q = p
      BY <1>t, <2>1 DEF Behind, Submitting
    <2>2. CASE q # p
      BY <1>t, <2>2 DEF Behind, Cycle, Copy
    <2> QED BY <2>1, <2>2
  <1>m. /\ sent[c].instructions \in Nat /\ sent[c].failures \in Nat
        /\ Cardinality(Winning(c)) \in Nat /\ Cardinality(Failing(c)) \in Nat
        /\ IsFiniteSet(Winning(c)) /\ IsFiniteSet(Failing(c)) /\ Sendings(c) \in Nat
        /\ Sendings(c)' = Sendings(c)
    BY <1>w, CountParts DEF PayoutInv, Sendings, Counted
  <1>1. CASE c # Cycle(p)
    <2>1. ASSUME NEW q \in Procs PROVE q \in Failing(c)' <=> q \in Failing(c)
      BY <1>t, <1>1 DEF Failing, Cycle, Failure
    <2>2. Failing(c)' = Failing(c)
      BY <2>1 DEF Failing
    <2>3. sent'[c].failures = sent[c].failures /\ batch'[c].state = batch[c].state
          /\ sent'[c].instructions = sent[c].instructions
      BY <1>1
    <2>4. ASSUME NEW q \in Procs, Behind(q, c)'
          PROVE  /\ Sendings(c)' <= sent'[c].failures
                 /\ ~At(q, "queue")' /\ batch'[c].state = "failed" =>
                        Sendings(c)' < sent'[c].failures
      <3>1. Behind(q, c) /\ (At(q, "queue")' <=> At(q, "queue"))
        BY <1>t, <1>b, <2>4 DEF At
      <3> QED BY <1>m, <2>3, <3>1 DEF Counted
    <2>5. ASSUME NEW q \in Procs, Cycle(q)' = c, call'[q].at \in Submitting \ {"queue"}
          PROVE  batch'[c].state \notin Pre
      BY <1>t, <1>b, <2>3, <2>5 DEF Counted
    <2> QED BY <1>w, <1>m, <2>2, <2>3, <2>4, <2>5 DEF Counted
  <1>2. CASE c = Cycle(p)
    <2>0. p \in Failing(c) /\ provider[c] \notin {"moving", "moved"}
      BY <1>2 DEF Failing, Failure, At, Counted
    <2>1. ASSUME NEW q \in Procs PROVE q \in Failing(c)' <=> q \in Failing(c) \ {p}
      BY <1>t, <1>2 DEF Failing, Cycle, Failure
    <2>2. Failing(c)' = Failing(c) \ {p}
      BY <2>1 DEF Failing
    <2>3. IsFiniteSet(Failing(c)') /\ Cardinality(Failing(c)') = Cardinality(Failing(c)) - 1
      BY <1>m, <2>0, <2>2, FS_RemoveElement
    <2>4. sent'[c].failures = sent[c].failures + 1 /\ batch'[c].state = "failed"
          /\ sent'[c].instructions = sent[c].instructions
      BY <1>2
    <2>5. Sendings(c) <= 1 + sent[c].failures
      BY DEF Counted
    <2>6. (Sendings(c)' <= 1 + sent'[c].failures) /\ (Sendings(c)' <= sent'[c].failures)
      BY <1>m, <2>4, <2>5
    <2>7. ASSUME NEW q \in Procs, Behind(q, c)' PROVE Sendings(c)' < sent'[c].failures
      <3>1. Sendings(c) <= sent[c].failures
        BY <1>b, <2>7 DEF Counted
      <3> QED BY <1>m, <2>4, <3>1
    <2>8. batch'[c].state \notin Pre
      BY <2>4 DEF Pre
    <2>9. provider[c] = "none" =>
              sent'[c].failures + Cardinality(Failing(c)') <= sent'[c].instructions
      <3>1. provider[c] = "none" => sent[c].failures + Cardinality(Failing(c)) <= sent[c].instructions
        BY DEF Counted
      <3> QED BY <1>m, <2>3, <2>4, <3>1
    <2> QED BY <1>w, <1>m, <2>0, <2>3, <2>6, <2>7, <2>8, <2>9 DEF Counted
  <1> QED BY <1>1, <1>2

-----------------------------------------------------------------------------
(* The kinds of step a handler takes. *)

Detours == {"overlap", "crash", "hold", "revived", "nested", "belated", "resubmit", "reversal"}

LEMMA ArriveTyped ==
    ASSUME TypeOK, NEW more \in SUBSET Detours, Arrive(more)
    PROVE  /\ detours \subseteq detours' /\ detours' \subseteq Detours
           /\ bounds' \in [overlaps : Nat, crashes : Nat]
  <1>1. detours \subseteq Detours /\ bounds \in [overlaps : Nat, crashes : Nat]
    BY DEF TypeOK, Detours
  <1>2. detours \subseteq detours' /\ detours' \subseteq Detours
    BY <1>1 DEF Arrive, Detours
  <1>3. bounds' \in [overlaps : Nat, crashes : Nat]
    BY <1>1 DEF Arrive
  <1> QED BY <1>2, <1>3

\* Lines put into a state of a cycle are lines.
LEMMA LinesSet ==
    ASSUME TypeOK, NEW items, NEW s \in LineStates, NEW c \in Cycles \cup {NoCycle},
           SetLines(items, s, c)
    PROVE  line' \in [Items -> LineType]
  BY DEF SetLines, TypeOK, LineType

\* A request that begins, other than a submission.
LEMMA Began ==
    ASSUME PayoutInv, NEW p \in Procs, NEW d \in CallType, NEW more \in SUBSET Detours,
           At(p, "idle"), Arrive(more), call' = [call EXCEPT ![p] = d],
           UNCHANGED <<line, batch, adjusted, journal, provider, sent>>, CallOk(d),
           d.at \notin Submitting \cup {"instruct", "answer"},
           d.at = "failed" => provider[d.cycle] = "failed"
    PROVE  PayoutInv'
  <1>1. detours \subseteq detours' /\ TypeOK'
    BY ArriveTyped DEF PayoutInv, TypeOK, Detours
  <1>2. Failure(d) => provider[d.cycle] = "failed"
    BY DEF Failure
  <1> QED BY <1>1, <1>2, QuietStep

\* A handler that goes on and touches no batch.
LEMMA Went ==
    ASSUME PayoutInv, NEW p \in Procs, NEW d \in CallType,
           call' = [call EXCEPT ![p] = d], UNCHANGED <<batch, provider, Ghosts>>,
           line' \in [Items -> LineType],
           adjusted' \in [Adjustments -> [added : BOOLEAN, cycle : Cycles \cup {NoCycle}]],
           journal' \in [Cycles -> JournalType], CallOk(d),
           d.at # "instruct", Failure(d) => provider[d.cycle] = "failed",
           d.at \in Submitting =>
              /\ Cycle(p) = d.cycle /\ call[p].at \in Submitting
              /\ Copy(p).version = d.copy.version
              /\ call[p].at # "queue"
    PROVE  PayoutInv'
  <1>1. TypeOK'
    BY DEF PayoutInv, TypeOK, Ghosts
  <1>2. UNCHANGED <<batch, provider, sent>> /\ detours \subseteq detours'
    BY DEF Ghosts
  <1> QED BY <1>1, <1>2, QuietStep

\* A handler that saves a field of a batch.
LEMMA Saved ==
    ASSUME PayoutInv, NEW p \in Procs, NEW d \in CallType, NEW c \in Cycles, NEW b \in BatchType,
           call' = [call EXCEPT ![p] = d], batch' = [batch EXCEPT ![c] = b],
           UNCHANGED <<Book, provider, sent, bounds>>,
           detours \subseteq detours', detours' \subseteq Detours,
           b.state # "none",
           batch[c].state # "none" =>
              b.net = batch[c].net /\ ApprovedBy(batch[c]) \subseteq ApprovedBy(b),
           batch[c].version <= b.version,
           b.state # batch[c].state =>
              /\ b.state \in Final => batch[c].state # "none" /\ Approved(c)
              /\ b.state \in {"paid", "reversed"} => provider[c] \in {"moved", "bounced"},
           Grows => CallOk(d)',
           "belated" \notin detours' =>
              /\ b.state \in Pre => batch[c].state \in Pre
              /\ b.state = "failed" => batch[c].state = "failed",
           d.at # "instruct",
           Failure(d) => Cycle(p) = d.cycle /\ Failure(call[p]),
           d.at \in Submitting =>
              /\ d.cycle = c /\ Cycle(p) = c /\ call[p].at \in Submitting
              /\ Copy(p).version = d.copy.version
              /\ call[p].at # "queue" \/ b.state \notin Pre \cup {"failed"}
    PROVE  PayoutInv'
  <1>t. /\ batch \in [Cycles -> BatchType] /\ batch'[c] = b
        /\ \A x \in Cycles \ {c} : batch'[x] = batch[x]
    BY DEF PayoutInv, TypeOK
  <1>1. TypeOK'
    BY DEF PayoutInv, TypeOK, Book, Detours
  <1>2. Grows
    <2>1. ASSUME NEW x \in Cycles PROVE batch[x].version <= batch'[x].version
      <3>1. batch[x].version \in Int
        BY <1>t, BatchParts
      <3> QED BY <1>t, <3>1
    <2>2. ASSUME NEW x \in Cycles, batch[x].state # "none"
          PROVE  /\ batch'[x].state # "none" /\ batch'[x].net = batch[x].net
                 /\ ApprovedBy(batch[x]) \subseteq ApprovedBy(batch'[x])
      BY <1>t, <2>2
    <2> QED BY <2>1, <2>2 DEF Grows
  <1>3. Justified
    BY <1>t DEF Justified
  <1>4. "belated" \notin detours' => Steady(p, d)
    BY <1>t DEF Steady, Submitting
  <1> QED BY <1>1, <1>2, <1>3, <1>4, Progressed

\* A step outside the handlers, on lines and adjustments.
LEMMA Aside ==
    ASSUME PayoutInv, TypeOK', UNCHANGED <<batch, provider, call, sent>>,
           detours \subseteq detours'
    PROVE  PayoutInv'
  <1>1. ASSUME NEW q \in Procs PROVE CallOk(call[q])'
    BY DEF PayoutInv, CallOk, CopyOk, ApprovalOk, MoneyOk, Approved
  <1>2. ASSUME NEW c \in Cycles PROVE BatchOk(c)'
    BY DEF PayoutInv, BatchOk, Approved
  <1>3. ASSUME "belated" \notin detours', NEW c \in Cycles PROVE Counted(c)'
    BY <1>3 DEF PayoutInv, Counted, Sendings, Winning, Failing, Failure, Behind, Cycle, Copy, At
  <1> QED BY <1>1, <1>2, <1>3 DEF PayoutInv

-----------------------------------------------------------------------------
(* Requests that begin. *)

\* The record of a call that has just read the batch of a cycle.
LEMMA FreshTyped ==
    ASSUME NEW st \in Steps, NEW c \in Cycles \cup {NoCycle}, NEW b \in BatchType,
           NEW items \in SUBSET Items, NEW w \in SUBSET Approvers, NEW o \in Outcomes
    PROVE  [at |-> st, cycle |-> c, copy |-> b, items |-> items, adjs |-> {},
            from |-> NoCycle, who |-> w, outcome |-> o] \in CallType
  BY DEF CallType

LEMMA EligibleFindInv ==
    ASSUME PayoutInv, NEW p \in Procs, NEW i \in Items, EligibleFind(p, i)
    PROVE  PayoutInv'
  <1>1. PICK d : d = [Idle EXCEPT !.at = "promote", !.items = {i}]
    OBVIOUS
  <1>2. d \in CallType /\ d.at = "promote" /\ d.from = NoCycle
    <2>1. d = [at |-> "promote", cycle |-> NoCycle, copy |-> NoBatch, items |-> {i}, adjs |-> {},
               from |-> NoCycle, who |-> {}, outcome |-> "none"]
      BY <1>1 DEF Idle
    <2>2. "promote" \in Steps /\ "none" \in Outcomes
      BY DEF Steps, Outcomes, LineStates
    <2> QED BY <2>1, <2>2, FreshTyped, IdleTyped
  <1>3. CallOk(d)
    BY <1>2 DEF CallOk, CopyOk, ApprovalOk, MoneyOk, Loose, FinalSteps, InFlight, Submitting
  <1>4. At(p, "idle") /\ Arrive({}) /\ call' = [call EXCEPT ![p] = d]
    BY <1>1 DEF EligibleFind, Begin
  <1>5. UNCHANGED <<line, batch, adjusted, journal, provider, sent>>
    BY DEF EligibleFind
  <1>6. d.at \notin Submitting \cup {"instruct", "answer"} /\ d.at # "failed"
    BY <1>2 DEF Submitting
  <1>7. {} \in SUBSET Detours
    OBVIOUS
  <1> QED BY <1>2, <1>3, <1>4, <1>5, <1>6, <1>7, Began

LEMMA RefundFindInv ==
    ASSUME PayoutInv, NEW p \in Procs, NEW l \in Lines, RefundFind(p, l)
    PROVE  PayoutInv'
  <1>1. PICK d : d = [Idle EXCEPT !.at = "refund", !.items = {<<l, 1>>},
                                  !.outcome = line[<<l, 1>>].state]
    OBVIOUS
  <1>2. d \in CallType /\ d.at = "refund" /\ d.from = NoCycle
    <2>1. d = [at |-> "refund", cycle |-> NoCycle, copy |-> NoBatch, items |-> {<<l, 1>>},
               adjs |-> {}, from |-> NoCycle, who |-> {}, outcome |-> line[<<l, 1>>].state]
      BY <1>1 DEF Idle
    <2>2. "refund" \in Steps /\ <<l, 1>> \in Items
      BY DEF Steps, Items
    <2>3. line[<<l, 1>>] \in LineType
      BY <2>2 DEF PayoutInv, TypeOK
    <2>4. line[<<l, 1>>].state \in Outcomes
      BY <2>3 DEF LineType, Outcomes
    <2> QED BY <2>1, <2>2, <2>4, FreshTyped, IdleTyped
  <1>3. CallOk(d)
    BY <1>2 DEF CallOk, CopyOk, ApprovalOk, MoneyOk, Loose, FinalSteps, InFlight, Submitting
  <1>4. At(p, "idle") /\ Arrive({}) /\ call' = [call EXCEPT ![p] = d]
    BY <1>1 DEF RefundFind, Begin
  <1>5. UNCHANGED <<line, batch, adjusted, journal, provider, sent>>
    BY DEF RefundFind
  <1>6. d.at \notin Submitting \cup {"instruct", "answer"} /\ d.at # "failed"
    BY <1>2 DEF Submitting
  <1>7. {} \in SUBSET Detours
    OBVIOUS
  <1> QED BY <1>2, <1>3, <1>4, <1>5, <1>6, <1>7, Began

LEMMA ComputeFindInv ==
    ASSUME PayoutInv, NEW p \in Procs, NEW c \in Cycles,
           NEW window \in SUBSET Items, ComputeFind(p, c, window)
    PROVE  PayoutInv'
  <1>1. PICK d : d = [Idle EXCEPT !.at = "carry", !.cycle = c, !.items = window]
    OBVIOUS
  <1>2. d \in CallType /\ d.at = "carry" /\ d.from = NoCycle /\ d.cycle = c
    <2>1. d = [at |-> "carry", cycle |-> c, copy |-> NoBatch, items |-> window,
               adjs |-> {}, from |-> NoCycle, who |-> {}, outcome |-> "none"]
      BY <1>1 DEF Idle
    <2>2. "carry" \in Steps /\ "none" \in Outcomes
      BY DEF Steps, Outcomes, LineStates
    <2> QED BY <2>1, <2>2, FreshTyped, IdleTyped
  <1>3. CallOk(d)
    BY <1>2 DEF CallOk, CopyOk, ApprovalOk, MoneyOk, Loose, FinalSteps, InFlight, Submitting
  <1>4. At(p, "idle") /\ Arrive({}) /\ call' = [call EXCEPT ![p] = d]
    BY <1>1 DEF ComputeFind, Begin
  <1>5. UNCHANGED <<line, batch, adjusted, journal, provider, sent>>
    BY DEF ComputeFind
  <1>6. d.at \notin Submitting \cup {"instruct", "answer"} /\ d.at # "failed"
    BY <1>2 DEF Submitting
  <1>7. {} \in SUBSET Detours
    OBVIOUS
  <1> QED BY <1>2, <1>3, <1>4, <1>5, <1>6, <1>7, Began

\* A call on a batch that exists, at a step that relies on little more than its state.
LEMMA FreshOk ==
    ASSUME PayoutInv, NEW c \in Cycles, NEW d \in CallType, batch[c].state # "none",
           d.cycle = c, d.copy = batch[c], d.from = NoCycle,
           \/ d.at = "ask" /\ batch[c].state = "draft"
           \/ d.at = "reject" /\ batch[c].state = "pending"
           \/ d.at = "cancel"
           \/ /\ d.at = "fetch" /\ batch[c].state = "processing"
              /\ provider[c] \in {"moved", "failed", "bounced"}
           \/ d.at = "queue" /\ batch[c].state \in {"approved", "failed"}
           \/ d.at = "failed" /\ batch[c].state = "processing"
           \/ /\ d.at = "paid" /\ batch[c].state = "processing"
              /\ provider[c] \in {"moved", "bounced"}
           \/ d.at = "reverse" /\ batch[c].state = "paid"
    PROVE  CallOk(d)
  <1>1. batch[c].version \in Int
    <2>1. batch[c] \in BatchType
      BY DEF PayoutInv, TypeOK
    <2> QED BY <2>1, BatchParts
  <1>2. /\ batch[c].state \in Final => Approved(c)
        /\ batch[c].state = "paid" => provider[c] \in {"moved", "bounced"}
    BY DEF PayoutInv, BatchOk
  <1>3. CopyOk(d)
    BY <1>1 DEF CopyOk, Loose, InFlight, Submitting
  <1>4. ApprovalOk(d)
    BY <1>2 DEF ApprovalOk, Final, FinalSteps, InFlight, Submitting
  <1>5. MoneyOk(d)
    BY <1>2 DEF MoneyOk
  <1> QED BY <1>3, <1>4, <1>5 DEF CallOk

LEMMA AskFindInv ==
    ASSUME PayoutInv, NEW p \in Procs, NEW c \in Cycles, AskFind(p, c)
    PROVE  PayoutInv'
  <1>1. "ask" \in Steps /\ "none" \in Outcomes /\ {} \in SUBSET Approvers /\ {} \in SUBSET Detours
    BY DEF Steps, Outcomes, LineStates
  <1>2. batch[c].state = "draft"
    BY DEF AskFind
  <1>3. PICK d : d = [Idle EXCEPT !.at = "ask", !.cycle = c, !.copy = batch[c]]
    OBVIOUS
  <1>d. d \in CallType /\ d.at = "ask" /\ d.cycle = c /\ d.copy = batch[c]
        /\ d.from = NoCycle /\ d.who = {}
    <2>1. d = [at |-> "ask", cycle |-> c, copy |-> batch[c], items |-> {}, adjs |-> {},
               from |-> NoCycle, who |-> {}, outcome |-> "none"]
      BY <1>3 DEF Idle
    <2>2. batch[c] \in BatchType
      BY DEF PayoutInv, TypeOK
    <2> QED BY <1>1, <2>1, <2>2, FreshTyped
  <1>k. CallOk(d)
    BY <1>2, <1>d, FreshOk
  <1>4. At(p, "idle") /\ Arrive({}) /\ call' = [call EXCEPT ![p] = d]
    BY <1>3 DEF AskFind, BeginOn, Begin
  <1>5. UNCHANGED <<line, batch, adjusted, journal, provider, sent>>
    BY DEF AskFind
  <1>6. d.at \notin Submitting \cup {"instruct", "answer"} /\ d.at # "failed"
    BY <1>d DEF Submitting
  <1> QED BY <1>1, <1>d, <1>k, <1>4, <1>5, <1>6, Began

LEMMA RejectFindInv ==
    ASSUME PayoutInv, NEW p \in Procs, NEW c \in Cycles, RejectFind(p, c)
    PROVE  PayoutInv'
  <1>1. "reject" \in Steps /\ "none" \in Outcomes /\ {} \in SUBSET Approvers
        /\ {} \in SUBSET Detours
    BY DEF Steps, Outcomes, LineStates
  <1>2. batch[c].state = "pending"
    BY DEF RejectFind
  <1>3. PICK d : d = [Idle EXCEPT !.at = "reject", !.cycle = c, !.copy = batch[c]]
    OBVIOUS
  <1>d. d \in CallType /\ d.at = "reject" /\ d.cycle = c /\ d.copy = batch[c]
        /\ d.from = NoCycle /\ d.who = {}
    <2>1. d = [at |-> "reject", cycle |-> c, copy |-> batch[c], items |-> {}, adjs |-> {},
               from |-> NoCycle, who |-> {}, outcome |-> "none"]
      BY <1>3 DEF Idle
    <2>2. batch[c] \in BatchType
      BY DEF PayoutInv, TypeOK
    <2> QED BY <1>1, <2>1, <2>2, FreshTyped
  <1>k. CallOk(d)
    BY <1>2, <1>d, FreshOk
  <1>4. At(p, "idle") /\ Arrive({}) /\ call' = [call EXCEPT ![p] = d]
    BY <1>3 DEF RejectFind, BeginOn, Begin
  <1>5. UNCHANGED <<line, batch, adjusted, journal, provider, sent>>
    BY DEF RejectFind
  <1>6. d.at \notin Submitting \cup {"instruct", "answer"} /\ d.at # "failed"
    BY <1>d DEF Submitting
  <1> QED BY <1>1, <1>d, <1>k, <1>4, <1>5, <1>6, Began

LEMMA CancelFindInv ==
    ASSUME PayoutInv, NEW p \in Procs, NEW c \in Cycles, CancelFind(p, c)
    PROVE  PayoutInv'
  <1>1. "cancel" \in Steps /\ "cancelled" \in Outcomes /\ {} \in SUBSET Approvers
    BY DEF Steps, Outcomes
  <1>2. batch[c].state # "none"
    <2>1. "cancelled" \in Successors[batch[c].state]
      BY DEF CancelFind
    <2>2. Successors["none"] = {}
      BY DEF Successors, States
    <2> QED BY <2>1, <2>2
  <1>3. PICK d : d = [Idle EXCEPT !.at = "cancel", !.cycle = c, !.copy = batch[c],
                                  !.outcome = "cancelled"]
    OBVIOUS
  <1>d. d \in CallType /\ d.at = "cancel" /\ d.cycle = c /\ d.copy = batch[c]
        /\ d.from = NoCycle /\ d.who = {}
    <2>1. d = [at |-> "cancel", cycle |-> c, copy |-> batch[c], items |-> {}, adjs |-> {},
               from |-> NoCycle, who |-> {}, outcome |-> "cancelled"]
      BY <1>3 DEF Idle
    <2>2. batch[c] \in BatchType
      BY DEF PayoutInv, TypeOK
    <2> QED BY <1>1, <2>1, <2>2, FreshTyped
  <1>k. CallOk(d)
    BY <1>2, <1>d, FreshOk
  <1>4. PICK more \in SUBSET Detours : Arrive(more)
    BY DEF CancelFind, Detours
  <1>5. At(p, "idle") /\ call' = [call EXCEPT ![p] = d]
    BY <1>3 DEF CancelFind
  <1>6. UNCHANGED <<line, batch, adjusted, journal, provider, sent>>
    BY DEF CancelFind
  <1>7. d.at \notin Submitting \cup {"instruct", "answer"} /\ d.at # "failed"
    BY <1>d DEF Submitting
  <1> QED BY <1>d, <1>k, <1>4, <1>5, <1>6, <1>7, Began

LEMMA SweepFindInv ==
    ASSUME PayoutInv, NEW p \in Procs, NEW c \in Cycles, SweepFind(p, c)
    PROVE  PayoutInv'
  <1>1. "fetch" \in Steps /\ "none" \in Outcomes /\ {} \in SUBSET Approvers
        /\ {} \in SUBSET Detours
    BY DEF Steps, Outcomes, LineStates
  <1>2. batch[c].state = "processing" /\ provider[c] \in {"moved", "failed", "bounced"}
    BY DEF SweepFind
  <1>3. PICK d : d = [Idle EXCEPT !.at = "fetch", !.cycle = c, !.copy = batch[c]]
    OBVIOUS
  <1>d. d \in CallType /\ d.at = "fetch" /\ d.cycle = c /\ d.copy = batch[c]
        /\ d.from = NoCycle /\ d.who = {}
    <2>1. d = [at |-> "fetch", cycle |-> c, copy |-> batch[c], items |-> {}, adjs |-> {},
               from |-> NoCycle, who |-> {}, outcome |-> "none"]
      BY <1>3 DEF Idle
    <2>2. batch[c] \in BatchType
      BY DEF PayoutInv, TypeOK
    <2> QED BY <1>1, <2>1, <2>2, FreshTyped
  <1>k. CallOk(d)
    BY <1>2, <1>d, FreshOk
  <1>4. At(p, "idle") /\ Arrive({}) /\ call' = [call EXCEPT ![p] = d]
    BY <1>3 DEF SweepFind, BeginOn, Begin
  <1>5. UNCHANGED <<line, batch, adjusted, journal, provider, sent>>
    BY DEF SweepFind
  <1>6. d.at \notin Submitting \cup {"instruct", "answer"} /\ d.at # "failed"
    BY <1>d DEF Submitting
  <1> QED BY <1>1, <1>d, <1>k, <1>4, <1>5, <1>6, Began

\* A webhook tells the truth about the money at the moment it is sent.
LEMMA WebhookInv ==
    ASSUME PayoutInv, NEW p \in Procs, NEW c \in Cycles, Webhook(p, c)
    PROVE  PayoutInv'
  <1>1. PICK o : /\ o \in (CASE provider[c] = "moved"   -> {"paid"}
                             [] provider[c] = "failed"  -> {"failed"}
                             [] provider[c] = "bounced" -> {"paid", "reversed"}
                             [] OTHER                   -> {})
                 /\ batch[c].state = "processing" \/ (batch[c].state = "paid" /\ o = "reversed")
                 /\ Begin(p, [Idle EXCEPT !.cycle = c, !.copy = batch[c], !.outcome = o,
                                 !.at = IF o # "reversed" THEN o
                                        ELSE IF batch[c].state = "processing" THEN "paid"
                                             ELSE "reverse"])
    BY DEF Webhook
  <1>2. /\ o \in {"paid", "failed", "reversed"}
        /\ o \in {"paid", "reversed"} => provider[c] \in {"moved", "bounced"}
        /\ o = "failed" => provider[c] = "failed"
    BY <1>1
  <1> DEFINE st == IF o # "reversed" THEN o
                   ELSE IF batch[c].state = "processing" THEN "paid" ELSE "reverse"
  <1>3. PICK step : step = st
    OBVIOUS
  <1>4. step \in Steps /\ o \in Outcomes /\ {} \in SUBSET Approvers /\ {} \in SUBSET Detours
    BY <1>2, <1>3 DEF Steps, Outcomes, LineStates
  <1>5. PICK d : d = [Idle EXCEPT !.cycle = c, !.copy = batch[c], !.outcome = o, !.at = step]
    OBVIOUS
  <1>d. d \in CallType /\ d.at = step /\ d.cycle = c /\ d.copy = batch[c]
        /\ d.from = NoCycle /\ d.who = {}
    <2>1. d = [at |-> step, cycle |-> c, copy |-> batch[c], items |-> {}, adjs |-> {},
               from |-> NoCycle, who |-> {}, outcome |-> o]
      BY <1>5 DEF Idle
    <2>2. batch[c] \in BatchType
      BY DEF PayoutInv, TypeOK
    <2> QED BY <1>4, <2>1, <2>2, FreshTyped
  <1>6. CallOk(d)
    BY <1>1, <1>2, <1>3, <1>d, FreshOk
  <1>7. At(p, "idle") /\ Arrive({}) /\ call' = [call EXCEPT ![p] = d]
    BY <1>1, <1>3, <1>5 DEF Begin
  <1>8. UNCHANGED <<line, batch, adjusted, journal, provider, sent>>
    BY DEF Webhook
  <1>9. d.at \notin Submitting \cup {"instruct", "answer"}
        /\ (d.at = "failed" => provider[d.cycle] = "failed")
    BY <1>2, <1>3, <1>d DEF Submitting
  <1> QED BY <1>4, <1>d, <1>6, <1>7, <1>8, <1>9, Began

\* An approver has not approved the batch that he reads.
LEMMA ApproveFindInv ==
    ASSUME PayoutInv, NEW p \in Procs, NEW c \in Cycles, NEW u \in Approvers,
           ApproveFind(p, c, u)
    PROVE  PayoutInv'
  <1>1. "approve" \in Steps /\ "none" \in Outcomes /\ {u} \in SUBSET Approvers
        /\ {} \in SUBSET Detours
    BY DEF Steps, Outcomes, LineStates
  <1>2. batch[c].state = "pending" /\ u \notin ApprovedBy(batch[c])
    BY DEF ApproveFind
  <1>3. PICK d : d = [Idle EXCEPT !.at = "approve", !.cycle = c, !.copy = batch[c], !.who = {u}]
    OBVIOUS
  <1>d. d \in CallType /\ d.at = "approve" /\ d.cycle = c /\ d.copy = batch[c]
        /\ d.from = NoCycle /\ d.who = {u}
    <2>1. d = [at |-> "approve", cycle |-> c, copy |-> batch[c], items |-> {}, adjs |-> {},
               from |-> NoCycle, who |-> {u}, outcome |-> "none"]
      BY <1>3 DEF Idle
    <2>2. batch[c] \in BatchType
      BY DEF PayoutInv, TypeOK
    <2> QED BY <1>1, <2>1, <2>2, FreshTyped
  <1>4. CallOk(d)
    <2>1. CopyOk(d)
      BY <1>2, <1>d DEF CopyOk, Loose, InFlight, Submitting
    <2>2. ApprovalOk(d)
      BY <1>2, <1>d DEF ApprovalOk, FinalSteps, InFlight, Submitting
    <2>3. MoneyOk(d)
      BY <1>d DEF MoneyOk
    <2> QED BY <2>1, <2>2, <2>3 DEF CallOk
  <1>5. At(p, "idle") /\ Arrive({}) /\ call' = [call EXCEPT ![p] = d]
    BY <1>3 DEF ApproveFind, Begin
  <1>6. UNCHANGED <<line, batch, adjusted, journal, provider, sent>>
    BY DEF ApproveFind
  <1>7. d.at \notin Submitting \cup {"instruct", "answer"} /\ d.at # "failed"
    BY <1>d DEF Submitting
  <1> QED BY <1>1, <1>d, <1>4, <1>5, <1>6, <1>7, Began

LEMMA SubmitFindInv ==
    ASSUME PayoutInv, NEW p \in Procs, NEW c \in Cycles, SubmitFind(p, c)
    PROVE  PayoutInv'
  <1>1. "queue" \in Steps /\ "none" \in Outcomes /\ {} \in SUBSET Approvers
    BY DEF Steps, Outcomes, LineStates
  <1>2. batch[c].state \in {"approved", "failed"}
    BY DEF SubmitFind
  <1>3. PICK d : d = [Idle EXCEPT !.at = "queue", !.cycle = c, !.copy = batch[c]]
    OBVIOUS
  <1>d. d \in CallType /\ d.at = "queue" /\ d.cycle = c /\ d.copy = batch[c]
        /\ d.from = NoCycle /\ d.who = {}
    <2>1. d = [at |-> "queue", cycle |-> c, copy |-> batch[c], items |-> {}, adjs |-> {},
               from |-> NoCycle, who |-> {}, outcome |-> "none"]
      BY <1>3 DEF Idle
    <2>2. batch[c] \in BatchType
      BY DEF PayoutInv, TypeOK
    <2> QED BY <1>1, <2>1, <2>2, FreshTyped
  <1>k. CallOk(d)
    BY <1>2, <1>d, FreshOk
  <1>4. PICK more \in SUBSET Detours : Arrive(more)
    BY DEF SubmitFind, Detours
  <1>5. At(p, "idle") /\ call' = [call EXCEPT ![p] = d]
    BY <1>3 DEF SubmitFind
  <1>6. UNCHANGED <<line, batch, adjusted, journal, provider, sent>>
    BY DEF SubmitFind
  <1>7. detours \subseteq detours' /\ TypeOK'
    BY <1>4, <1>d, <1>5, <1>6, ArriveTyped DEF PayoutInv, TypeOK, Detours
  <1>8. ASSUME "belated" \notin detours', NEW x \in Cycles PROVE Counted(x)'
    <2>1. Counted(x)
      BY <1>7, <1>8 DEF PayoutInv
    <2> QED BY <1>2, <1>d, <1>5, <1>6, <2>1, CountFound
  <1>9. Grows /\ Justified
    <2>1. ASSUME NEW x \in Cycles PROVE batch[x].version <= batch'[x].version
      <3>1. batch[x] \in BatchType
        BY DEF PayoutInv, TypeOK
      <3>2. batch[x].version \in Int
        BY <3>1, BatchParts
      <3> QED BY <1>6, <3>2
    <2> QED BY <1>6, <2>1 DEF Grows, Justified
  <1>a. CallOk(d)'
    BY <1>d, <1>k, <1>7, <1>9, CallKept DEF PayoutInv
  <1> QED BY <1>d, <1>5, <1>7, <1>8, <1>9, <1>a, Stepped

-----------------------------------------------------------------------------
(* Handlers that go on without touching a batch. *)

\* The steps that rely on nothing but that there is a batch.
Plain == {"absorb", "consume", "pin", "apply", "release", "unapply", "preserve", "unwind",
          "unwound", "restore", "cancel"}

\* A handler that has found its batch.
Found(p) == call[p].at \notin Loose \cup {"carry", "create"}

LEMMA ContinueMoved ==
    ASSUME PayoutInv, NEW p \in Procs, NEW st \in Steps, Continue(p, st)
    PROVE  \E d \in CallType :
              /\ call' = [call EXCEPT ![p] = d] /\ d.at = st
              /\ d.cycle = Cycle(p) /\ d.copy = Copy(p) /\ d.from = call[p].from
              /\ d.who = call[p].who /\ d.outcome = call[p].outcome
  <1>1. call[p] \in CallType
    BY DEF PayoutInv, TypeOK
  <1>2. PICK d : d = [call[p] EXCEPT !.at = st]
    OBVIOUS
  <1>3. d \in CallType
    BY <1>1, <1>2, CallEdited
  <1>4. /\ d.at = st /\ d.cycle = Cycle(p) /\ d.copy = Copy(p) /\ d.from = call[p].from
        /\ d.who = call[p].who /\ d.outcome = call[p].outcome
    BY <1>1, <1>2 DEF CallType, Cycle, Copy
  <1>5. call' = [call EXCEPT ![p] = d]
    BY <1>2 DEF Continue
  <1> QED BY <1>3, <1>4, <1>5

LEMMA FoundBatch ==
    ASSUME PayoutInv, NEW p \in Procs, Found(p)
    PROVE  Cycle(p) \in Cycles /\ batch[Cycle(p)].state # "none" /\ Copy(p) \in BatchType
  <1>1. CallOk(call[p]) /\ call[p] \in CallType
    BY DEF PayoutInv, TypeOK
  <1> QED BY <1>1, CallParts DEF CallOk, CopyOk, Found, Cycle, Copy

LEMMA PlainOk ==
    ASSUME PayoutInv, NEW p \in Procs, Found(p), NEW d \in CallType, d.at \in Plain,
           d.cycle = Cycle(p), d.from = call[p].from
    PROVE  CallOk(d)
  <1>1. d.cycle \in Cycles /\ batch[d.cycle].state # "none"
    BY FoundBatch
  <1>2. d.from # NoCycle => batch[d.from].state # "none"
    BY DEF PayoutInv, CallOk, CopyOk
  <1>3. CopyOk(d)
    BY <1>1, <1>2 DEF CopyOk, Plain, InFlight, Submitting
  <1>4. ApprovalOk(d) /\ MoneyOk(d)
    BY DEF ApprovalOk, MoneyOk, Plain, FinalSteps, InFlight, Submitting
  <1> QED BY <1>3, <1>4 DEF CallOk

LEMMA WentOn ==
    ASSUME PayoutInv, NEW p \in Procs, NEW st \in Plain, Found(p), Continue(p, st),
           UNCHANGED <<batch, provider, Ghosts>>,
           line' \in [Items -> LineType],
           adjusted' \in [Adjustments -> [added : BOOLEAN, cycle : Cycles \cup {NoCycle}]],
           journal' \in [Cycles -> JournalType]
    PROVE  PayoutInv'
  <1>1. st \in Steps
    BY DEF Plain, Steps
  <1>2. PICK d \in CallType : /\ call' = [call EXCEPT ![p] = d] /\ d.at = st
                              /\ d.cycle = Cycle(p) /\ d.from = call[p].from
    BY <1>1, ContinueMoved
  <1>3. CallOk(d)
    BY <1>2, PlainOk
  <1>4. d.at # "instruct" /\ ~Failure(d) /\ d.at \notin Submitting
    BY <1>2 DEF Plain, Failure, Submitting
  <1> QED BY <1>2, <1>3, <1>4, Went

LEMMA WentHome ==
    ASSUME PayoutInv, NEW p \in Procs, Return(p), UNCHANGED <<batch, provider, Ghosts>>,
           line' \in [Items -> LineType],
           adjusted' \in [Adjustments -> [added : BOOLEAN, cycle : Cycles \cup {NoCycle}]],
           journal' \in [Cycles -> JournalType]
    PROVE  PayoutInv'
  <1>1. call' = [call EXCEPT ![p] = Idle] /\ Idle \in CallType
    BY IdleTyped DEF Return
  <1>2. TypeOK'
    BY <1>1 DEF PayoutInv, TypeOK, Ghosts
  <1>3. UNCHANGED <<batch, provider, sent>> /\ detours \subseteq detours'
    BY DEF Ghosts
  <1> QED BY <1>1, <1>2, <1>3, Ended

LEMMA BookTyped ==
    ASSUME PayoutInv
    PROVE  /\ line \in [Items -> LineType]
           /\ adjusted \in [Adjustments -> [added : BOOLEAN, cycle : Cycles \cup {NoCycle}]]
           /\ journal \in [Cycles -> JournalType]
  BY DEF PayoutInv, TypeOK

LEMMA EligibleSaveInv ==
    ASSUME PayoutInv, NEW p \in Procs, EligibleSave(p)
    PROVE  PayoutInv'
  <1>1. line' \in [Items -> LineType]
    <2>1. ASSUME NEW i \in Items PROVE [line[i] EXCEPT !.state = "eligible"] \in LineType
      BY BookTyped DEF LineType, LineStates
    <2> QED BY <2>1, BookTyped DEF EligibleSave
  <1> QED BY <1>1, BookTyped, WentHome DEF EligibleSave

LEMMA RefundSaveInv ==
    ASSUME PayoutInv, NEW p \in Procs, RefundSave(p)
    PROVE  PayoutInv'
  <1>1. line' \in [Items -> LineType]
    <2>1. PICK i \in call[p].items :
            line' = IF call[p].outcome \in {"accrued", "eligible", "held"}
                    THEN [line EXCEPT ![i].state = "reversed"]
                    ELSE [line EXCEPT ![<<i[1], -1>>].state = "eligible"]
      BY DEF RefundSave
    <2>2. "reversed" \in LineStates /\ "eligible" \in LineStates
      BY DEF LineStates
    <2>3. ASSUME NEW j, NEW s \in LineStates PROVE [line EXCEPT ![j].state = s] \in [Items -> LineType]
      BY BookTyped DEF LineType
    <2> QED BY <2>1, <2>2, <2>3
  <1> QED BY <1>1, BookTyped, WentHome DEF RefundSave

LEMMA ComputeConsumeInv ==
    ASSUME PayoutInv, NEW p \in Procs, ComputeConsume(p)
    PROVE  PayoutInv'
  <1>1. Found(p) /\ Continue(p, "pin") /\ "pin" \in Plain
        /\ UNCHANGED <<batch, adjusted, journal, provider, Ghosts>>
    BY DEF ComputeConsume, Found, At, Loose, Plain
  <1>2. call[p].from \in Cycles \cup {NoCycle}
    BY CallParts DEF PayoutInv, TypeOK
  <1>3. line' \in [Items -> LineType]
    BY <1>2, LinesSet DEF ComputeConsume, PayoutInv, LineStates
  <1> QED BY <1>1, <1>3, BookTyped, WentOn

LEMMA ComputePinInv ==
    ASSUME PayoutInv, NEW p \in Procs, ComputePin(p)
    PROVE  PayoutInv'
  <1>1. Found(p) /\ Continue(p, "apply") /\ "apply" \in Plain
        /\ UNCHANGED <<batch, adjusted, journal, provider, Ghosts>>
    BY DEF ComputePin, Found, At, Loose, Plain
  <1>3. line' \in [Items -> LineType]
    BY <1>1, FoundBatch, LinesSet DEF ComputePin, PayoutInv, LineStates
  <1> QED BY <1>1, <1>3, BookTyped, WentOn

LEMMA ComputeApplyInv ==
    ASSUME PayoutInv, NEW p \in Procs, ComputeApply(p)
    PROVE  PayoutInv'
  <1>1. Found(p)
    BY DEF ComputeApply, Found, At, Loose
  <1>2. Cycle(p) \in Cycles
    BY <1>1, FoundBatch
  <1>3. adjusted' \in [Adjustments -> [added : BOOLEAN, cycle : Cycles \cup {NoCycle}]]
    BY <1>2, BookTyped DEF ComputeApply
  <1> QED BY <1>3, BookTyped, WentHome DEF ComputeApply

LEMMA ReleaseInv ==
    ASSUME PayoutInv, NEW p \in Procs, Release(p)
    PROVE  PayoutInv'
  <1>1. Found(p) /\ Continue(p, "unapply") /\ "unapply" \in Plain
        /\ UNCHANGED <<batch, adjusted, journal, provider, Ghosts>>
    BY DEF Release, Found, At, Loose, Plain
  <1>2. Cycle(p) \in Cycles
    BY <1>1, FoundBatch
  <1>3. \/ SetLines(LinesOf(Cycle(p), {"batched"}), "paid", Cycle(p))
        \/ SetLines(LinesOf(Cycle(p), {"batched"}), "eligible", NoCycle)
    BY DEF Release
  <1>4. line' \in [Items -> LineType]
    BY <1>2, <1>3, LinesSet DEF PayoutInv, LineStates
  <1> QED BY <1>1, <1>4, BookTyped, WentOn

LEMMA UnapplyInv ==
    ASSUME PayoutInv, NEW p \in Procs, Unapply(p)
    PROVE  PayoutInv'
  <1>1. Found(p) /\ Continue(p, "preserve") /\ "preserve" \in Plain
        /\ UNCHANGED <<line, batch, journal, provider, Ghosts>>
    BY DEF Unapply, Found, At, Loose, Plain
  <1>2. adjusted' \in [Adjustments -> [added : BOOLEAN, cycle : Cycles \cup {NoCycle}]]
    BY BookTyped DEF Unapply
  <1> QED BY <1>1, <1>2, BookTyped, WentOn

LEMMA RestoreInv ==
    ASSUME PayoutInv, NEW p \in Procs, Restore(p)
    PROVE  PayoutInv'
  <1>1. Found(p) /\ Continue(p, "preserve") /\ "preserve" \in Plain
        /\ UNCHANGED <<batch, adjusted, journal, provider, Ghosts>>
    BY DEF Restore, Found, At, Loose, Plain
  <1>2. line' \in [Items -> LineType]
    BY LinesSet DEF Restore, PayoutInv, LineStates
  <1> QED BY <1>1, <1>2, BookTyped, WentOn

LEMMA UnwindInv ==
    ASSUME PayoutInv, NEW p \in Procs, Unwind(p)
    PROVE  PayoutInv'
  <1>1. Found(p) /\ UNCHANGED <<line, batch, adjusted, provider, Ghosts>>
    BY DEF Unwind, Found, At, Loose
  <1>2. PICK st \in Plain : Continue(p, st)
    BY DEF Unwind, AfterUnwind, Plain
  <1>3. journal' \in [Cycles -> JournalType]
    <2>1. Cycle(p) \in Cycles
      BY <1>1, FoundBatch
    <2>2. PICK v \in BOOLEAN : journal' = [journal EXCEPT ![Cycle(p)].unwound = v]
      BY <2>1, BookTyped DEF Unwind, JournalType
    <2> QED BY <2>2, BookTyped DEF JournalType
  <1> QED BY <1>1, <1>2, <1>3, BookTyped, WentOn

-----------------------------------------------------------------------------

\* The latest batch that carries a balance is a batch.
LEMMA CarryingFrom ==
    ASSUME PayoutInv, Carrying # {}
    PROVE  /\ Max(Carrying) \in Cycles /\ batch[Max(Carrying)].state # "none"
           /\ batch[Max(Carrying)].carry # 0
  <1>1. IsFiniteSet(Carrying) /\ Carrying \subseteq Int
    <2>1. IsFiniteSet(Cycles) /\ Cycles \subseteq Int
      BY PayoutAssumption
    <2>2. Carrying \subseteq Cycles
      BY DEF Carrying
    <2> QED BY <2>1, <2>2, FS_Subset
  <1>2. Max(Carrying) \in Carrying
    <2>1. \E x \in Carrying : \A y \in Carrying : x >= y
      BY <1>1, MaxExists
    <2> QED BY <2>1 DEF Max
  <1>3. Max(Carrying) \in Cycles /\ batch[Max(Carrying)].carry # 0
    BY <1>2 DEF Carrying
  <1> QED BY <1>3 DEF PayoutInv, BatchOk

\* The batch that carries the balance exists.
LEMMA ComputeCarryInv ==
    ASSUME PayoutInv, NEW p \in Procs, ComputeCarry(p)
    PROVE  PayoutInv'
  <1> DEFINE from == IF Carrying = {} THEN NoCycle ELSE Max(Carrying)
             opening == IF from = NoCycle THEN 0 ELSE batch[from].carry
  <1>1. UNCHANGED <<line, batch, adjusted, journal, provider, Ghosts>>
    BY DEF ComputeCarry
  <1>2. CASE Return(p)
    BY <1>1, <1>2, BookTyped, WentHome
  <1>3. CASE ~Return(p)
    <2>1. PICK f : f = from
      OBVIOUS
    <2>2. f \in Cycles \cup {NoCycle} /\ (f # NoCycle => batch[f].state # "none")
      BY <2>1, CarryingFrom
    <2>3. PICK n : n = opening
      OBVIOUS
    <2>4. n \in Int
      <3>1. CASE f = NoCycle
        BY <2>1, <2>3, <3>1
      <3>2. CASE f # NoCycle
        <4>1. batch[f] \in BatchType
          BY <2>2, <3>2 DEF PayoutInv, TypeOK
        <4> QED BY <2>1, <2>3, <3>2, <4>1, BatchParts
      <3> QED BY <3>1, <3>2
    <2>5. PICK d : d = [call[p] EXCEPT !.adjs = Pending, !.from = f,
                                       !.copy.opening = n, !.at = "create"]
      OBVIOUS
    <2>6. call[p] \in CallType /\ CallOk(call[p]) /\ call[p].at = "carry"
      BY DEF PayoutInv, TypeOK, ComputeCarry, At
    <2>7. d \in CallType /\ d.at = "create" /\ d.cycle = Cycle(p) /\ d.from = f
      <3> DEFINE b == [call[p].copy EXCEPT !.opening = n]
      <3>1. call[p].copy \in BatchType
        BY <2>6, CallParts
      <3>2. b \in BatchType
        BY <2>4, <3>1, BatchEdited
      <3>3. d = [call[p] EXCEPT !.adjs = Pending, !.from = f, !.copy = b, !.at = "create"]
        BY <2>5
      <3> HIDE DEF b
      <3>4. Pending \in SUBSET Adjustments /\ "create" \in Steps
        BY DEF Pending, Steps
      <3> QED BY <2>2, <2>6, <3>2, <3>3, <3>4 DEF CallType, Cycle
    <2>8. CallOk(d)
      <3>1. d.cycle \in Cycles
        BY <2>6, <2>7 DEF CallOk, CopyOk, Cycle, Loose
      <3>2. CopyOk(d)
        BY <2>2, <2>7, <3>1 DEF CopyOk, InFlight, Submitting
      <3>3. ApprovalOk(d) /\ MoneyOk(d)
        BY <2>7 DEF ApprovalOk, MoneyOk, FinalSteps, InFlight, Submitting
      <3> QED BY <3>2, <3>3 DEF CallOk
    <2>9. call' = [call EXCEPT ![p] = d]
      BY <1>3, <2>1, <2>3, <2>5 DEF ComputeCarry
    <2>a. d.at # "instruct" /\ ~Failure(d) /\ d.at \notin Submitting
      BY <2>7 DEF Failure, Submitting
    <2> QED BY <1>1, <2>7, <2>8, <2>9, <2>a, BookTyped, Went
  <1> QED BY <1>2, <1>3

LEMMA SubmitPostInv ==
    ASSUME PayoutInv, NEW p \in Procs, SubmitPost(p)
    PROVE  PayoutInv'
  <1>1. Found(p) /\ Continue(p, "ids") /\ "ids" \in Steps /\ call[p].at = "post"
        /\ UNCHANGED <<line, batch, adjusted, provider, Ghosts>>
    BY DEF SubmitPost, Found, At, Loose, Steps
  <1>2. PICK d \in CallType : /\ call' = [call EXCEPT ![p] = d] /\ d.at = "ids"
                              /\ d.cycle = Cycle(p) /\ d.copy = Copy(p)
                              /\ d.from = call[p].from
    BY <1>1, ContinueMoved
  <1>3. Cycle(p) \in Cycles /\ Copy(p) \in BatchType
    BY <1>1, FoundBatch
  <1>4. CallOk(call[p])
    BY DEF PayoutInv
  <1>5. CallOk(d)
    <2>1. CopyOk(d)
      BY <1>1, <1>2, <1>4 DEF CallOk, CopyOk, Loose, InFlight, Submitting, Cycle, Copy
    <2>2. ApprovalOk(d)
      BY <1>1, <1>2, <1>4 DEF CallOk, ApprovalOk, FinalSteps, InFlight, Submitting, Cycle
    <2>3. MoneyOk(d)
      BY <1>2 DEF MoneyOk
    <2> QED BY <2>1, <2>2, <2>3 DEF CallOk
  <1>6. journal' \in [Cycles -> JournalType]
    <2>1. Copy(p).lines + Copy(p).opening \in Int
      BY <1>3, BatchParts
    <2>2. PICK j : j = IF journal[Cycle(p)].posted THEN journal[Cycle(p)]
                       ELSE [journal[Cycle(p)] EXCEPT !.posted = TRUE,
                                        !.drained = Copy(p).lines + Copy(p).opening]
      OBVIOUS
    <2>3. journal[Cycle(p)] \in JournalType
      BY <1>3, BookTyped
    <2>4. j \in JournalType
      BY <2>1, <2>2, <2>3 DEF JournalType
    <2>5. journal' = [journal EXCEPT ![Cycle(p)] = j]
      BY <2>2 DEF SubmitPost
    <2> QED BY <2>4, <2>5, BookTyped
  <1>7. d.at # "instruct" /\ ~Failure(d) /\ call[p].at \in Submitting /\ call[p].at # "queue"
    BY <1>1, <1>2 DEF Failure, Submitting
  <1> QED BY <1>1, <1>2, <1>5, <1>6, <1>7, BookTyped, Went

\* The sweep believes what the provider says.
LEMMA SweepFetchInv ==
    ASSUME PayoutInv, NEW p \in Procs, SweepFetch(p)
    PROVE  PayoutInv'
  <1>1. Found(p) /\ call[p].at = "fetch" /\ UNCHANGED <<line, batch, adjusted, journal, provider, Ghosts>>
    BY DEF SweepFetch, Found, At, Loose
  <1>2. Cycle(p) \in Cycles /\ batch[Cycle(p)].state # "none"
    BY <1>1, FoundBatch
  <1>3. call[p] \in CallType /\ CallOk(call[p])
    BY DEF PayoutInv, TypeOK
  <1>4. PICK o : o = Outcome(provider[Cycle(p)])
    OBVIOUS
  <1>5. PICK st : st = IF o = "reversed" THEN "paid" ELSE o
    OBVIOUS
  <1>6. provider[Cycle(p)] \in {"moved", "failed", "bounced"}
    BY <1>1, <1>3 DEF CallOk, MoneyOk, Cycle
  <1>7. /\ o \in {"paid", "failed", "reversed"} /\ st \in {"paid", "failed"}
        /\ st = "paid" => provider[Cycle(p)] \in {"moved", "bounced"}
        /\ st = "failed" => provider[Cycle(p)] = "failed"
    BY <1>4, <1>5, <1>6 DEF Outcome
  <1>8. PICK d : d = [call[p] EXCEPT !.outcome = o, !.at = st]
    OBVIOUS
  <1>9. d \in CallType /\ d.at = st /\ d.cycle = Cycle(p) /\ d.copy = Copy(p)
        /\ d.from = call[p].from
    <2>1. st \in Steps /\ o \in Outcomes
      BY <1>7 DEF Steps, Outcomes, LineStates
    <2>2. d \in CallType
      BY <1>3, <1>8, <2>1, CallEdited
    <2> QED BY <1>3, <1>8, <2>2 DEF CallType, Cycle, Copy
  <1>a. call' = [call EXCEPT ![p] = d]
    BY <1>4, <1>5, <1>8 DEF SweepFetch
  <1>b. CallOk(d)
    <2>1. CopyOk(d)
      BY <1>1, <1>3, <1>7, <1>9 DEF CallOk, CopyOk, Loose, InFlight, Submitting, Cycle, Copy
    <2>2. ApprovalOk(d)
      BY <1>1, <1>3, <1>7, <1>9 DEF CallOk, ApprovalOk, FinalSteps, InFlight, Submitting, Cycle
    <2>3. MoneyOk(d)
      BY <1>7, <1>9 DEF MoneyOk
    <2> QED BY <2>1, <2>2, <2>3 DEF CallOk
  <1>c. d.at # "instruct" /\ (Failure(d) => provider[d.cycle] = "failed") /\ d.at \notin Submitting
    BY <1>7, <1>9 DEF Failure, Submitting
  <1> QED BY <1>1, <1>9, <1>a, <1>b, <1>c, BookTyped, Went

LEMMA SettleInv ==
    ASSUME PayoutInv, NEW p \in Procs, Settle(p)
    PROVE  PayoutInv'
  <1>1. Found(p) /\ call[p].at = "settle" /\ UNCHANGED <<batch, adjusted, journal, provider, Ghosts>>
    BY DEF Settle, Found, At, Loose
  <1>2. line' \in [Items -> LineType]
    BY <1>1, FoundBatch, LinesSet DEF Settle, PayoutInv, LineStates
  <1>3. CASE Return(p)
    BY <1>1, <1>2, <1>3, BookTyped, WentHome
  <1>4. CASE Continue(p, "reverse")
    <2>1. "reverse" \in Steps
      BY DEF Steps
    <2>2. PICK d \in CallType : /\ call' = [call EXCEPT ![p] = d] /\ d.at = "reverse"
                                /\ d.cycle = Cycle(p) /\ d.copy = Copy(p)
                                /\ d.from = call[p].from
      BY <1>4, <2>1, ContinueMoved
    <2>3. CallOk(call[p])
      BY DEF PayoutInv
    <2>4. CallOk(d)
      <3>1. CopyOk(d)
        BY <1>1, <2>2, <2>3 DEF CallOk, CopyOk, Loose, InFlight, Submitting, Cycle, Copy
      <3>2. ApprovalOk(d)
        BY <1>1, <2>2, <2>3 DEF CallOk, ApprovalOk, FinalSteps, InFlight, Submitting, Cycle
      <3>3. MoneyOk(d)
        BY <1>1, <2>2, <2>3 DEF CallOk, MoneyOk, Cycle
      <3> QED BY <3>1, <3>2, <3>3 DEF CallOk
    <2>5. d.at # "instruct" /\ ~Failure(d) /\ d.at \notin Submitting
      BY <2>2 DEF Failure, Submitting
    <2> QED BY <1>1, <1>2, <2>2, <2>4, <2>5, BookTyped, Went
  <1> QED BY <1>3, <1>4 DEF Settle

-----------------------------------------------------------------------------
(* Handlers that save the state of a batch. *)

\* The record of a handler that goes on from p's with the state it has saved.
Follows(p, d, s, st) ==
    /\ d.at = st /\ d.cycle = Cycle(p) /\ d.from = call[p].from /\ d.outcome = call[p].outcome
    /\ Alike(d, call[p])
    /\ d.copy.state = s /\ d.copy.version = Copy(p).version /\ SameSums(d.copy, Copy(p))

LEMMA IdleOk == \E d \in CallType : d = Idle /\ d.at = "idle" /\ CallOk(d)
  <1>1. PICK d \in CallType : d = Idle
    BY IdleTyped
  <1>2. d.at = "idle" /\ d.from = NoCycle
    BY <1>1 DEF Idle
  <1>3. CallOk(d)
    BY <1>2 DEF CallOk, CopyOk, ApprovalOk, MoneyOk, Loose, FinalSteps, InFlight, Submitting
  <1> QED BY <1>1, <1>2, <1>3

LEMMA TransitionEffect ==
    ASSUME PayoutInv, NEW p \in Procs, Found(p), NEW s \in States, NEW st \in Steps,
           Transition(p, s, st)
    PROVE  \/ batch' = batch /\ Return(p) /\ s \notin Successors[Copy(p).state]
           \/ /\ s \in Successors[Copy(p).state]
              /\ \E b \in BatchType :
                    /\ batch' = [batch EXCEPT ![Cycle(p)] = b]
                    /\ b.state = s /\ b.net = batch[Cycle(p)].net
                    /\ b.approvals = batch[Cycle(p)].approvals
                    /\ b.version = batch[Cycle(p)].version /\ SameSums(b, batch[Cycle(p)])
              /\ \E d \in CallType :
                    /\ call' = [call EXCEPT ![p] = d]
                    /\ IF st = "idle" THEN d = Idle ELSE Follows(p, d, s, st)
  <1>1. CASE s \notin Successors[Copy(p).state]
    BY <1>1 DEF Transition
  <1>2. CASE s \in Successors[Copy(p).state]
    <2>1. batch[Cycle(p)] \in BatchType /\ call[p] \in CallType /\ call[p].copy \in BatchType
      BY FoundBatch, CallParts DEF PayoutInv, TypeOK
    <2>2. PICK b : b = [batch[Cycle(p)] EXCEPT !.state = s]
      OBVIOUS
    <2>3. b \in BatchType
      BY <2>1, <2>2, BatchEdited
    <2>4. /\ b.state = s /\ b.net = batch[Cycle(p)].net
          /\ b.approvals = batch[Cycle(p)].approvals /\ b.version = batch[Cycle(p)].version
          /\ SameSums(b, batch[Cycle(p)])
      BY <2>1, <2>2 DEF BatchType, SameSums
    <2>5. batch' = [batch EXCEPT ![Cycle(p)] = b]
      BY <1>2, <2>2 DEF Transition
    <2>6. CASE st = "idle"
      BY <1>2, <2>3, <2>4, <2>5, <2>6, IdleTyped DEF Transition
    <2>7. CASE st # "idle"
      <3>1. PICK v : v = [call[p].copy EXCEPT !.state = s]
        OBVIOUS
      <3>2. v \in BatchType
        BY <2>1, <3>1, BatchEdited
      <3>3. v.state = s /\ v.version = Copy(p).version /\ SameSums(v, Copy(p))
        BY <2>1, <3>1 DEF BatchType, Copy, SameSums
      <3>4. PICK d : d = [call[p] EXCEPT !.copy = v, !.at = st]
        OBVIOUS
      <3>5. d \in CallType
        BY <2>1, <3>2, <3>4, CallEdited
      <3>6. Follows(p, d, s, st)
        BY <2>1, <3>3, <3>4 DEF CallType, Follows, Alike, Cycle
      <3>7. call' = [call EXCEPT ![p] = d]
        BY <1>2, <2>7, <3>1, <3>4 DEF Transition
      <3> QED BY <1>2, <2>3, <2>4, <2>5, <2>7, <3>5, <3>6, <3>7
    <2> QED BY <2>6, <2>7
  <1> QED BY <1>1, <1>2

\* A transition that leads to no failure.
LEMMA Transited ==
    ASSUME PayoutInv, NEW p \in Procs, Found(p), NEW s \in States, NEW st \in Steps,
           Transition(p, s, st), UNCHANGED <<Book, provider, sent, bounds>>,
           detours \subseteq detours', detours' \subseteq Detours,
           s \notin {"none", "failed"},
           s \in Successors[Copy(p).state] =>
              /\ s \in Final => Approved(Cycle(p))
              /\ s \in {"paid", "reversed"} => provider[Cycle(p)] \in {"moved", "bounced"}
              /\ "belated" \notin detours' /\ s \in Pre => batch[Cycle(p)].state \in Pre,
           st \notin {"instruct", "failed", "answer"},
           st \in Submitting => call[p].at \in Submitting /\ s \notin Pre,
           st # "idle" => \A d \in CallType : Follows(p, d, s, st) => CallOk(d)
    PROVE  PayoutInv'
  <1>0. Cycle(p) \in Cycles /\ batch[Cycle(p)].state # "none" /\ batch[Cycle(p)] \in BatchType
    BY FoundBatch DEF PayoutInv, TypeOK
  <1>1. CASE batch' = batch /\ Return(p)
    <2>1. call' = [call EXCEPT ![p] = Idle] /\ Idle \in CallType
      BY <1>1, IdleTyped DEF Return
    <2>2. TypeOK'
      BY <1>1, <2>1 DEF PayoutInv, TypeOK, Book, Detours
    <2> QED BY <1>1, <2>1, <2>2, Ended
  <1>2. ASSUME s \in Successors[Copy(p).state],
               NEW b \in BatchType, batch' = [batch EXCEPT ![Cycle(p)] = b],
               b.state = s, b.net = batch[Cycle(p)].net,
               b.approvals = batch[Cycle(p)].approvals, b.version = batch[Cycle(p)].version,
               NEW d \in CallType, call' = [call EXCEPT ![p] = d],
               IF st = "idle" THEN d = Idle ELSE Follows(p, d, s, st)
        PROVE  PayoutInv'
    <2>1. CallOk(d)
      <3>1. CASE st = "idle"
        BY <1>2, <3>1, IdleOk
      <3>2. CASE st # "idle"
        BY <1>2, <3>2
      <3> QED BY <3>1, <3>2
    <2>2. d.at = st /\ (st # "idle" => d.cycle = Cycle(p) /\ d.copy.version = Copy(p).version)
      BY <1>2 DEF Follows, Idle
    <2>3. ApprovedBy(b) = ApprovedBy(batch[Cycle(p)])
      BY <1>2 DEF ApprovedBy
    <2>4. batch[Cycle(p)].version <= b.version
      <3>1. b.version \in Int
        BY BatchParts
      <3> QED BY <1>2, <3>1
    <2>5. TypeOK'
      BY <1>2 DEF PayoutInv, TypeOK, Book, Detours
    <2>6. Grows => CallOk(d)'
      BY <2>1, <2>5, CallKept DEF PayoutInv
    <2>7. d.at # "instruct" /\ ~Failure(d)
      BY <2>2 DEF Failure
    <2>8. d.at \in Submitting =>
             /\ d.cycle = Cycle(p) /\ call[p].at \in Submitting
             /\ Copy(p).version = d.copy.version /\ b.state \notin Pre \cup {"failed"}
      BY <1>2, <2>2 DEF Submitting
    <2>9. "belated" \notin detours' =>
             /\ b.state \in Pre => batch[Cycle(p)].state \in Pre
             /\ b.state = "failed" => batch[Cycle(p)].state = "failed"
      BY <1>2
    <2>a. /\ b.state # "none" /\ b.net = batch[Cycle(p)].net
          /\ ApprovedBy(batch[Cycle(p)]) \subseteq ApprovedBy(b)
          /\ b.state \in Final => Approved(Cycle(p))
          /\ b.state \in {"paid", "reversed"} => provider[Cycle(p)] \in {"moved", "bounced"}
      BY <1>2, <2>3
    <2> QED BY <1>0, <1>2, <2>4, <2>6, <2>7, <2>8, <2>9, <2>a, Saved
  <1> QED BY <1>1, <1>2, TransitionEffect


LEMMA Arrived ==
    ASSUME PayoutInv, NEW p \in Procs, detours' = Belated(p)
    PROVE  /\ detours \subseteq detours' /\ detours' \subseteq Detours
           /\ "belated" \notin detours' => batch[Cycle(p)].state = Copy(p).state
  BY DEF PayoutInv, TypeOK, Detours, Belated

LEMMA Stayed ==
    ASSUME PayoutInv, UNCHANGED detours
    PROVE  detours \subseteq detours' /\ detours' \subseteq Detours
  BY DEF PayoutInv, TypeOK, Detours

LEMMA AskSaveInv ==
    ASSUME PayoutInv, NEW p \in Procs, AskSave(p)
    PROVE  PayoutInv'
  <1>1. Found(p) /\ call[p].at = "ask" /\ "pending" \in States /\ "idle" \in Steps
    BY DEF AskSave, Found, At, Loose, States, Steps
  <1>2. Transition(p, "pending", "idle") /\ UNCHANGED <<Book, provider, sent, bounds>>
        /\ detours' = Belated(p)
    BY DEF AskSave
  <1>3. Copy(p).state = "draft"
    BY <1>1 DEF PayoutInv, CallOk, CopyOk, Copy
  <1>4. "belated" \notin detours' => batch[Cycle(p)].state \in Pre
    BY <1>2, <1>3, Arrived DEF Pre
  <1>5. "pending" \notin Final \cup {"paid", "reversed", "none", "failed"}
        /\ "idle" \notin Submitting \cup {"instruct", "failed", "answer"}
    BY DEF Final, Submitting
  <1> QED BY <1>1, <1>2, <1>4, <1>5, Arrived, Transited

\* Two people stand behind the approval of a batch above the threshold.
LEMMA ApproveSaveInv ==
    ASSUME PayoutInv, NEW p \in Procs, ApproveSave(p)
    PROVE  PayoutInv'
  <1>1. Found(p) /\ call[p].at = "approved" /\ "approved" \in States /\ "idle" \in Steps
    BY DEF ApproveSave, Found, At, Loose, States, Steps
  <1>2. Transition(p, "approved", "idle") /\ UNCHANGED <<Book, provider, sent, bounds>>
        /\ detours' = Belated(p)
    BY DEF ApproveSave
  <1>3. Copy(p).state = "pending" /\ Approved(Cycle(p))
    BY <1>1 DEF PayoutInv, CallOk, CopyOk, ApprovalOk, FinalSteps, Copy, Cycle
  <1>4. "belated" \notin detours' => batch[Cycle(p)].state \in Pre
    BY <1>2, <1>3, Arrived DEF Pre
  <1>5. "idle" \notin Submitting \cup {"instruct", "failed", "answer"}
    BY DEF Submitting
  <1> QED BY <1>1, <1>2, <1>3, <1>4, <1>5, Arrived, Transited

LEMMA RejectSaveInv ==
    ASSUME PayoutInv, NEW p \in Procs, RejectSave(p)
    PROVE  PayoutInv'
  <1>1. Found(p) /\ call[p].at = "reject" /\ "rejected" \in States /\ "idle" \in Steps
    BY DEF RejectSave, Found, At, Loose, States, Steps
  <1>2. Transition(p, "rejected", "idle") /\ UNCHANGED <<Book, provider, sent, bounds>>
        /\ UNCHANGED detours
    BY DEF RejectSave, Ghosts
  <1>5. "rejected" \notin Final \cup Pre \cup {"paid", "reversed", "none", "failed"}
        /\ "idle" \notin Submitting \cup {"instruct", "failed", "answer"}
    BY DEF Final, Submitting, Pre
  <1> QED BY <1>1, <1>2, <1>5, Stayed, Transited

LEMMA CancelSaveInv ==
    ASSUME PayoutInv, NEW p \in Procs, CancelSave(p)
    PROVE  PayoutInv'
  <1>1. Found(p) /\ call[p].at = "cancel" /\ "cancelled" \in States /\ "release" \in Steps
    BY DEF CancelSave, Found, At, Loose, States, Steps
  <1>2. Transition(p, "cancelled", "release") /\ UNCHANGED <<Book, provider, sent, bounds>>
        /\ UNCHANGED detours
    BY DEF CancelSave, Ghosts
  <1>3. \A d \in CallType : Follows(p, d, "cancelled", "release") => CallOk(d)
    BY <1>1, PlainOk DEF Follows, Plain
  <1>5. "cancelled" \notin Final \cup Pre \cup {"paid", "reversed", "none", "failed"}
        /\ "release" \notin Submitting \cup {"instruct", "failed", "answer"}
    BY DEF Final, Submitting, Pre
  <1> QED BY <1>1, <1>2, <1>3, <1>5, Stayed, Transited

LEMMA SubmitQueueInv ==
    ASSUME PayoutInv, NEW p \in Procs, SubmitQueue(p)
    PROVE  PayoutInv'
  <1>1. Found(p) /\ call[p].at = "queue" /\ "queued" \in States /\ "process" \in Steps
    BY DEF SubmitQueue, Found, At, Loose, States, Steps
  <1>2. Transition(p, "queued", "process") /\ UNCHANGED <<Book, provider, sent, bounds>>
        /\ UNCHANGED detours
    BY DEF SubmitQueue, Ghosts
  <1>3. CallOk(call[p])
    BY DEF PayoutInv
  <1>4. ASSUME NEW d \in CallType, Follows(p, d, "queued", "process") PROVE CallOk(d)
    <2>1. CopyOk(d)
      BY <1>1, <1>3, <1>4 DEF CallOk, CopyOk, Loose, InFlight, Submitting, Follows, Cycle, Copy
    <2>2. ApprovalOk(d) /\ MoneyOk(d)
      BY <1>1, <1>3, <1>4 DEF CallOk, ApprovalOk, MoneyOk, FinalSteps, Submitting, Follows, Cycle
    <2> QED BY <2>1, <2>2 DEF CallOk
  <1>5. Approved(Cycle(p))
    BY <1>1, <1>3 DEF CallOk, ApprovalOk, FinalSteps, Submitting, Cycle
  <1>6. "queued" \notin Pre \cup {"paid", "reversed", "none", "failed"}
        /\ "process" \notin {"instruct", "failed", "answer"} /\ call[p].at \in Submitting
    BY <1>1 DEF Submitting, Pre
  <1> QED BY <1>1, <1>2, <1>4, <1>5, <1>6, Stayed, Transited

LEMMA SubmitProcessInv ==
    ASSUME PayoutInv, NEW p \in Procs, SubmitProcess(p)
    PROVE  PayoutInv'
  <1>1. Found(p) /\ call[p].at = "process" /\ "processing" \in States /\ "stamp" \in Steps
    BY DEF SubmitProcess, Found, At, Loose, States, Steps
  <1>2. Transition(p, "processing", "stamp") /\ UNCHANGED <<Book, provider, sent, bounds>>
        /\ UNCHANGED detours
    BY DEF SubmitProcess, Ghosts
  <1>3. CallOk(call[p])
    BY DEF PayoutInv
  <1>4. ASSUME NEW d \in CallType, Follows(p, d, "processing", "stamp") PROVE CallOk(d)
    <2>1. CopyOk(d)
      BY <1>1, <1>3, <1>4 DEF CallOk, CopyOk, Loose, InFlight, Submitting, Follows, Cycle, Copy
    <2>2. ApprovalOk(d) /\ MoneyOk(d)
      BY <1>1, <1>3, <1>4 DEF CallOk, ApprovalOk, MoneyOk, FinalSteps, Submitting, Follows, Cycle
    <2> QED BY <2>1, <2>2 DEF CallOk
  <1>5. Approved(Cycle(p))
    BY <1>1, <1>3 DEF CallOk, ApprovalOk, FinalSteps, Submitting, Cycle
  <1>6. "processing" \notin Pre \cup {"paid", "reversed", "none", "failed"}
        /\ "stamp" \notin {"instruct", "failed", "answer"} /\ call[p].at \in Submitting
    BY <1>1 DEF Submitting, Pre
  <1> QED BY <1>1, <1>2, <1>4, <1>5, <1>6, Stayed, Transited

\* Whoever marks a batch paid has heard that the money moved.
LEMMA MarkPaidInv ==
    ASSUME PayoutInv, NEW p \in Procs, MarkPaid(p)
    PROVE  PayoutInv'
  <1>1. Found(p) /\ call[p].at = "paid" /\ "paid" \in States /\ "settle" \in Steps
    BY DEF MarkPaid, Found, At, Loose, States, Steps
  <1>2. Transition(p, "paid", "settle") /\ UNCHANGED <<Book, provider, sent, bounds>>
        /\ UNCHANGED detours
    BY DEF MarkPaid, Ghosts
  <1>3. CallOk(call[p])
    BY DEF PayoutInv
  <1>4. ASSUME NEW d \in CallType, Follows(p, d, "paid", "settle") PROVE CallOk(d)
    <2>1. CopyOk(d)
      BY <1>1, <1>3, <1>4 DEF CallOk, CopyOk, Loose, InFlight, Submitting, Follows, Cycle, Copy
    <2>2. ApprovalOk(d) /\ MoneyOk(d)
      BY <1>1, <1>3, <1>4 DEF CallOk, ApprovalOk, MoneyOk, FinalSteps, InFlight, Follows, Cycle
    <2> QED BY <2>1, <2>2 DEF CallOk
  <1>5. Approved(Cycle(p)) /\ provider[Cycle(p)] \in {"moved", "bounced"}
    BY <1>1, <1>3 DEF CallOk, ApprovalOk, MoneyOk, FinalSteps, InFlight, Cycle
  <1>6. "paid" \notin Pre \cup {"none", "failed"}
        /\ "settle" \notin Submitting \cup {"instruct", "failed", "answer"}
    BY DEF Submitting, Pre
  <1> QED BY <1>1, <1>2, <1>4, <1>5, <1>6, Stayed, Transited

LEMMA MarkReversedInv ==
    ASSUME PayoutInv, NEW p \in Procs, MarkReversed(p)
    PROVE  PayoutInv'
  <1>1. Found(p) /\ call[p].at = "reverse" /\ "reversed" \in States /\ "unwind" \in Steps
    BY DEF MarkReversed, Found, At, Loose, States, Steps
  <1>2. Transition(p, "reversed", "unwind") /\ UNCHANGED <<Book, provider, sent, bounds>>
    BY DEF MarkReversed
  <1>3. detours \subseteq detours' /\ detours' \subseteq Detours
    BY DEF MarkReversed, PayoutInv, TypeOK, Detours
  <1>4. \A d \in CallType : Follows(p, d, "reversed", "unwind") => CallOk(d)
    BY <1>1, PlainOk DEF Follows, Plain
  <1>5. Approved(Cycle(p)) /\ provider[Cycle(p)] \in {"moved", "bounced"}
    BY <1>1 DEF PayoutInv, CallOk, ApprovalOk, MoneyOk, FinalSteps, Cycle
  <1>6. "reversed" \notin Pre \cup {"none", "failed"}
        /\ "unwind" \notin Submitting \cup {"instruct", "failed", "answer"}
    BY DEF Submitting, Pre
  <1> QED BY <1>1, <1>2, <1>3, <1>4, <1>5, <1>6, Transited


\* A failure is recorded by whoever was told of it, while the batch is in flight.
LEMMA MarkFailedInv ==
    ASSUME PayoutInv, NEW p \in Procs, MarkFailed(p)
    PROVE  PayoutInv'
  <1> DEFINE c == Cycle(p)
  <1>1. Found(p) /\ At(p, "failed") /\ "failed" \in States /\ "unwind" \in Steps
    BY DEF MarkFailed, Found, At, Loose, States, Steps
  <1>2. Transition(p, "failed", "unwind") /\ UNCHANGED <<Book, provider, detours, bounds>>
    BY DEF MarkFailed
  <1>3. Copy(p).state = "processing" /\ Approved(c)
    BY <1>1 DEF PayoutInv, CallOk, CopyOk, ApprovalOk, FinalSteps, InFlight, At, Copy, Cycle
  <1>4. "failed" \in Successors[Copy(p).state]
    BY <1>3 DEF Successors, States
  <1>5. c \in Cycles /\ batch[c].state # "none" /\ batch[c] \in BatchType
    BY <1>1, FoundBatch DEF PayoutInv, TypeOK
  <1>6. PICK b \in BatchType : /\ batch' = [batch EXCEPT ![c] = b]
                               /\ b.state = "failed" /\ b.net = batch[c].net
                               /\ b.approvals = batch[c].approvals
                               /\ b.version = batch[c].version
    BY <1>1, <1>2, <1>4, TransitionEffect
  <1>7. PICK d \in CallType : call' = [call EXCEPT ![p] = d] /\ Follows(p, d, "failed", "unwind")
    BY <1>1, <1>2, <1>4, TransitionEffect
  <1>8. d.at = "unwind" /\ CallOk(d)
    BY <1>1, <1>7, PlainOk DEF Follows, Plain
  <1>s. /\ sent \in [Cycles -> [instructions : Nat, failures : Nat]]
        /\ sent' = [sent EXCEPT ![c].failures = @ + 1]
    BY <1>4 DEF MarkFailed, PayoutInv, TypeOK
  <1> HIDE DEF c
  <1>9. \A x \in Cycles :
              /\ sent'[x].instructions = sent[x].instructions
              /\ sent'[x].failures = IF x = c THEN sent[x].failures + 1 ELSE sent[x].failures
    BY <1>5, <1>s
  <1>a. sent' \in [Cycles -> [instructions : Nat, failures : Nat]]
    BY <1>5, <1>s
  <1>b. TypeOK'
    BY <1>2, <1>6, <1>7, <1>a DEF PayoutInv, TypeOK, Book
  <1>c. \A x \in Cycles : /\ batch'[x].state = IF x = c THEN "failed" ELSE batch[x].state
                          /\ batch'[x].version = batch[x].version
    BY <1>5, <1>6 DEF PayoutInv, TypeOK
  <1>d. Grows /\ Justified
    <2>1. ASSUME NEW x \in Cycles PROVE batch[x].version <= batch'[x].version
      <3>1. batch[x] \in BatchType
        BY DEF PayoutInv, TypeOK
      <3>2. batch[x].version \in Int
        BY <3>1, BatchParts
      <3> QED BY <1>c, <3>2
    <2>2. ASSUME NEW x \in Cycles
          PROVE  /\ batch'[x].state # "none" \/ batch'[x] = batch[x]
                 /\ batch'[x].net = batch[x].net
                 /\ ApprovedBy(batch[x]) \subseteq ApprovedBy(batch'[x])
      <3>1. CASE x = c
        BY <1>5, <1>6, <3>1 DEF ApprovedBy, PayoutInv, TypeOK
      <3>2. CASE x # c
        BY <1>5, <1>6, <3>2 DEF PayoutInv, TypeOK
      <3> QED BY <3>1, <3>2
    <2>3. UNCHANGED provider
      BY <1>2
    <2>4. Grows
      BY <2>1, <2>2, <2>3 DEF Grows
    <2>5. Justified
      <3>1. ASSUME NEW x \in Cycles, batch'[x].state # batch[x].state
            PROVE  x = c /\ batch'[x].state = "failed"
        BY <1>c, <3>1
      <3> QED BY <1>3, <1>5, <2>2, <3>1 DEF Justified, c
    <2> QED BY <2>4, <2>5
  <1>e. ASSUME "belated" \notin detours', NEW x \in Cycles PROVE Counted(x)'
    <2>1. Counted(x)
      BY <1>2, <1>e DEF PayoutInv
    <2> QED BY <1>1, <1>2, <1>5, <1>7, <1>8, <1>9, <1>b, <1>c, <2>1, CountFailed DEF c
  <1>f. CallOk(d)'
    BY <1>8, <1>b, <1>d, CallKept DEF PayoutInv
  <1> QED BY <1>7, <1>b, <1>d, <1>e, <1>f, Stepped

\* The provider is asked to pay, and its answer is lost or true.
LEMMA InstructInv ==
    ASSUME PayoutInv, NEW p \in Procs, Instruct(p)
    PROVE  PayoutInv'
  <1> DEFINE c == Cycle(p)
  <1>1. Found(p) /\ At(p, "instruct") /\ UNCHANGED <<line, batch, adjusted, journal, detours, bounds>>
    BY DEF Instruct, Found, At, Loose
  <1>2. c \in Cycles
    BY <1>1, FoundBatch
  <1>3. PICK money, o :
           /\ money \in IF provider[c] = "none" THEN {"none", "moving", "moved"} ELSE {provider[c]}
           /\ o \in {"ambiguous", CASE money = "none"  -> "failed"
                                    [] money = "moved" -> "paid"
                                    [] OTHER           -> "accepted"}
           /\ provider' = [provider EXCEPT ![c] = money]
           /\ call' = [call EXCEPT ![p].outcome = o, ![p].at = "answer"]
    BY DEF Instruct
  <1>4. provider[c] \in {"none", "moving", "moved", "failed", "bounced"}
    BY <1>2 DEF PayoutInv, TypeOK
  <1>5. /\ money \in {"none", "moving", "moved", "failed", "bounced"}
        /\ provider[c] # "none" => money = provider[c]
        /\ o \in {"ambiguous", "failed", "paid", "accepted"}
        /\ o = "failed" => money = "none" /\ provider[c] = "none"
        /\ o = "paid" => money = "moved"
    BY <1>3, <1>4
  <1>6. call[p] \in CallType /\ CallOk(call[p])
    BY DEF PayoutInv, TypeOK
  <1>7. PICK d : d = [call[p] EXCEPT !.outcome = o, !.at = "answer"]
    OBVIOUS
  <1>8. d \in CallType /\ d.at = "answer" /\ d.cycle = c /\ d.copy = Copy(p)
        /\ d.from = call[p].from /\ d.outcome = o
    <2>1. "answer" \in Steps /\ o \in Outcomes
      BY <1>5 DEF Steps, Outcomes, LineStates
    <2>2. d \in CallType
      BY <1>6, <1>7, <2>1, CallEdited
    <2> QED BY <1>6, <1>7, <2>2 DEF CallType, Cycle, Copy
  <1>9. call' = [call EXCEPT ![p] = d]
    BY <1>3, <1>7
  <1>s. /\ sent \in [Cycles -> [instructions : Nat, failures : Nat]]
        /\ sent' = [sent EXCEPT ![c].instructions = @ + 1]
        /\ provider \in [Cycles -> {"none", "moving", "moved", "failed", "bounced"}]
    BY DEF Instruct, PayoutInv, TypeOK
  <1>v. CopyOk(d) /\ ApprovalOk(d)
    <2>1. CopyOk(d)
      BY <1>1, <1>6, <1>8 DEF CallOk, CopyOk, Loose, InFlight, Submitting, At, Cycle, Copy
    <2>2. ApprovalOk(d)
      BY <1>1, <1>6, <1>8 DEF CallOk, ApprovalOk, FinalSteps, InFlight, Submitting, At, Cycle
    <2> QED BY <2>1, <2>2
  <1> HIDE DEF c
  <1>a. \A x \in Cycles :
              /\ sent'[x].failures = sent[x].failures
              /\ sent'[x].instructions = IF x = c THEN sent[x].instructions + 1
                                         ELSE sent[x].instructions
              /\ x # c \/ provider[x] # "none" => provider'[x] = provider[x]
    BY <1>2, <1>3, <1>5, <1>s
  <1>b. /\ sent' \in [Cycles -> [instructions : Nat, failures : Nat]]
        /\ provider' \in [Cycles -> {"none", "moving", "moved", "failed", "bounced"}]
        /\ provider'[c] = money
    BY <1>2, <1>3, <1>5, <1>s
  <1>c. TypeOK'
    BY <1>1, <1>8, <1>9, <1>b DEF PayoutInv, TypeOK
  <1>d. Grows /\ Justified
    <2>1. ASSUME NEW x \in Cycles PROVE batch[x].version <= batch'[x].version
      <3>1. batch[x] \in BatchType
        BY DEF PayoutInv, TypeOK
      <3>2. batch[x].version \in Int
        BY <3>1, BatchParts
      <3> QED BY <1>1, <3>2
    <2>2. \A x \in Cycles : provider[x] # "none" => provider'[x] = provider[x]
      BY <1>a
    <2> QED BY <1>1, <2>1, <2>2 DEF Grows, Justified
  <1>e. ASSUME "belated" \notin detours', NEW x \in Cycles PROVE Counted(x)'
    <2>1. Counted(x)
      BY <1>1, <1>e DEF PayoutInv
    <2>2. d.outcome = "failed" => provider[c] = "none" /\ provider'[c] = "none"
      BY <1>5, <1>8, <1>b
    <2> QED BY <1>1, <1>2, <1>8, <1>9, <1>a, <1>c, <2>1, <2>2, CountInstructed DEF c
  <1>f. CallOk(d)'
    <2>1. CopyOk(d)'
      BY <1>1, <1>v DEF CopyOk
    <2>2. ApprovalOk(d)'
      BY <1>1, <1>v DEF ApprovalOk, Approved
    <2>3. MoneyOk(d)'
      BY <1>5, <1>8, <1>b DEF MoneyOk
    <2> QED BY <2>1, <2>2, <2>3 DEF CallOk
  <1> QED BY <1>8, <1>9, <1>c, <1>d, <1>e, <1>f, Stepped

\* Saving the ids: the version has moved on and the handler ends, or it moves now.
LEMMA SaveIdsEffect ==
    ASSUME PayoutInv, NEW p \in Procs, Found(p), NEW st \in Steps, SaveIds(p, st)
    PROVE  \/ batch' = batch /\ Return(p)
           \/ /\ Copy(p).version = batch[Cycle(p)].version
              /\ \E b \in BatchType :
                    /\ batch' = [batch EXCEPT ![Cycle(p)] = b]
                    /\ b.state = batch[Cycle(p)].state /\ b.net = batch[Cycle(p)].net
                    /\ b.approvals = batch[Cycle(p)].approvals
                    /\ b.version = batch[Cycle(p)].version + 1 /\ SameFace(b, batch[Cycle(p)])
              /\ \E d \in CallType :
                    /\ call' = [call EXCEPT ![p] = d]
                    /\ d.at = st /\ d.cycle = Cycle(p) /\ d.from = call[p].from
                    /\ d.outcome = call[p].outcome /\ d.copy.state = Copy(p).state
                    /\ Alike(d, call[p]) /\ SameFace(d.copy, Copy(p))
                    /\ d.copy.version = batch[Cycle(p)].version + 1
  <1>1. CASE batch[Cycle(p)].version # Copy(p).version
    BY <1>1 DEF SaveIds
  <1>2. CASE batch[Cycle(p)].version = Copy(p).version
    <2>1. batch[Cycle(p)] \in BatchType /\ call[p] \in CallType /\ call[p].copy \in BatchType
      BY FoundBatch, CallParts DEF PayoutInv, TypeOK
    <2>2. PICK k : k = batch[Cycle(p)].version + 1
      OBVIOUS
    <2>3. k \in Nat
      <3>1. batch[Cycle(p)].version \in Nat
        BY <2>1, BatchParts
      <3> QED BY <2>2, <3>1
    <2>4. PICK b : b = [batch[Cycle(p)] EXCEPT !.version = k]
      OBVIOUS
    <2>5. b \in BatchType
      BY <2>1, <2>3, <2>4, BatchEdited
    <2>6. /\ b.state = batch[Cycle(p)].state /\ b.net = batch[Cycle(p)].net
          /\ b.approvals = batch[Cycle(p)].approvals /\ b.version = k
          /\ SameFace(b, batch[Cycle(p)])
      BY <2>1, <2>4 DEF BatchType, SameFace, SameSums
    <2>7. batch' = [batch EXCEPT ![Cycle(p)] = b]
      BY <1>2, <2>2, <2>4 DEF SaveIds
    <2>8. PICK v : v = [call[p].copy EXCEPT !.version = k]
      OBVIOUS
    <2>9. v \in BatchType
      BY <2>1, <2>3, <2>8, BatchEdited
    <2>a. v.state = Copy(p).state /\ v.version = k /\ SameFace(v, Copy(p))
      BY <2>1, <2>8 DEF BatchType, Copy, SameFace, SameSums
    <2>b. PICK d : d = [call[p] EXCEPT !.copy = v, !.at = st]
      OBVIOUS
    <2>c. d \in CallType
      BY <2>1, <2>9, <2>b, CallEdited
    <2>d. /\ d.at = st /\ d.cycle = Cycle(p) /\ d.from = call[p].from
          /\ d.outcome = call[p].outcome /\ d.copy.state = Copy(p).state
          /\ Alike(d, call[p]) /\ SameFace(d.copy, Copy(p)) /\ d.copy.version = k
      BY <2>1, <2>a, <2>b DEF CallType, Cycle, Alike
    <2>e. call' = [call EXCEPT ![p] = d]
      <3>1. call' = [call EXCEPT ![p].copy.version = @ + 1, ![p].at = st]
        BY <1>2 DEF SaveIds
      <3>2. call[p].copy.version + 1 = k
        BY <1>2, <2>2 DEF Copy
      <3> QED BY <2>8, <2>b, <3>1, <3>2
    <2> QED BY <1>2, <2>2, <2>5, <2>6, <2>7, <2>c, <2>d, <2>e
  <1> QED BY <1>1, <1>2


\* Nobody who read the version before can win it after this.
LEMMA SubmitIdsInv ==
    ASSUME PayoutInv, NEW p \in Procs, SubmitIds(p)
    PROVE  PayoutInv'
  <1> DEFINE c == Cycle(p)
  <1>1. Found(p) /\ At(p, "ids") /\ "instruct" \in Steps /\ SaveIds(p, "instruct")
    BY DEF SubmitIds, Found, At, Loose, Steps
  <1>2. UNCHANGED <<Book, provider, sent, detours, bounds>>
    BY <1>1 DEF SaveIds, Ghosts
  <1>3. c \in Cycles /\ batch[c].state # "none" /\ batch[c] \in BatchType
    BY <1>1, FoundBatch DEF PayoutInv, TypeOK
  <1>4. CASE batch' = batch /\ Return(p)
    <2>1. call' = [call EXCEPT ![p] = Idle] /\ Idle \in CallType
      BY <1>4, IdleTyped DEF Return
    <2>2. TypeOK'
      BY <1>2, <1>4, <2>1 DEF PayoutInv, TypeOK, Book
    <2> QED BY <1>2, <1>4, <2>1, <2>2, Ended
  <1>5. ASSUME Copy(p).version = batch[c].version,
               NEW b \in BatchType, batch' = [batch EXCEPT ![c] = b],
               b.state = batch[c].state, b.net = batch[c].net,
               b.approvals = batch[c].approvals, b.version = batch[c].version + 1,
               NEW d \in CallType, call' = [call EXCEPT ![p] = d],
               d.at = "instruct", d.cycle = c, d.from = call[p].from,
               d.copy.state = Copy(p).state
        PROVE  PayoutInv'
    <2>1. CallOk(call[p])
      BY DEF PayoutInv
    <2>2. CallOk(d)
      <3>1. CopyOk(d)
        BY <1>1, <1>5, <2>1 DEF CallOk, CopyOk, Loose, InFlight, Submitting, At, Copy, Cycle
      <3>2. ApprovalOk(d) /\ MoneyOk(d)
        BY <1>1, <1>5, <2>1 DEF CallOk, ApprovalOk, MoneyOk, FinalSteps, Submitting, At, Cycle
      <3> QED BY <3>1, <3>2 DEF CallOk
    <2>3. TypeOK'
      BY <1>2, <1>5 DEF PayoutInv, TypeOK, Book
    <2> HIDE DEF c
    <2>4. \A x \in Cycles : /\ batch'[x].state = batch[x].state
                            /\ batch'[x].version = IF x = c THEN batch[x].version + 1
                                                   ELSE batch[x].version
                            /\ batch'[x].net = batch[x].net
                            /\ batch'[x].approvals = batch[x].approvals
                            /\ x # c => batch'[x] = batch[x]
      BY <1>3, <1>5 DEF PayoutInv, TypeOK
    <2>5. Grows /\ Justified
      <3>1. ASSUME NEW x \in Cycles PROVE batch[x].version <= batch'[x].version
        <4>1. batch[x] \in BatchType
          BY DEF PayoutInv, TypeOK
        <4>2. batch[x].version \in Int
          BY <4>1, BatchParts
        <4> QED BY <2>4, <4>2
      <3>2. UNCHANGED provider
        BY <1>2
      <3>3. \A x \in Cycles : ApprovedBy(batch[x]) \subseteq ApprovedBy(batch'[x])
        BY <2>4 DEF ApprovedBy
      <3> QED BY <1>3, <2>4, <3>1, <3>2, <3>3 DEF Grows, Justified
    <2>6. ASSUME "belated" \notin detours', NEW x \in Cycles PROVE Counted(x)'
      <3>1. Counted(x)
        BY <1>2, <2>6 DEF PayoutInv
      <3>2. UNCHANGED <<provider, sent>>
        BY <1>2
      <3> QED BY <1>1, <1>3, <1>5, <2>3, <2>4, <3>1, <3>2, CountWon DEF c
    <2>7. CallOk(d)'
      BY <2>2, <2>3, <2>5, CallKept DEF PayoutInv
    <2> QED BY <1>5, <2>3, <2>5, <2>6, <2>7, Stepped
  <1> QED BY <1>1, <1>4, <1>5, SaveIdsEffect

LEMMA UnwindIdsInv ==
    ASSUME PayoutInv, NEW p \in Procs, UnwindIds(p)
    PROVE  PayoutInv'
  <1>1. PICK st \in Plain : SaveIds(p, st)
    BY DEF UnwindIds, AfterUnwind, Plain
  <1>2. Found(p) /\ st \in Steps
    BY DEF UnwindIds, Found, At, Loose, Steps, Plain
  <1>3. UNCHANGED <<Book, provider, sent, detours, bounds>>
    BY <1>1 DEF SaveIds, Ghosts
  <1>4. Cycle(p) \in Cycles /\ batch[Cycle(p)].state # "none" /\ batch[Cycle(p)] \in BatchType
    BY <1>2, FoundBatch DEF PayoutInv, TypeOK
  <1>5. CASE batch' = batch /\ Return(p)
    <2>1. call' = [call EXCEPT ![p] = Idle] /\ Idle \in CallType
      BY <1>5, IdleTyped DEF Return
    <2>2. TypeOK'
      BY <1>3, <1>5, <2>1 DEF PayoutInv, TypeOK, Book
    <2> QED BY <1>3, <1>5, <2>1, <2>2, Ended
  <1>6. ASSUME NEW b \in BatchType, batch' = [batch EXCEPT ![Cycle(p)] = b],
               b.state = batch[Cycle(p)].state, b.net = batch[Cycle(p)].net,
               b.approvals = batch[Cycle(p)].approvals,
               b.version = batch[Cycle(p)].version + 1,
               NEW d \in CallType, call' = [call EXCEPT ![p] = d],
               d.at = st, d.cycle = Cycle(p), d.from = call[p].from
        PROVE  PayoutInv'
    <2>1. CallOk(d)
      BY <1>2, <1>6, PlainOk
    <2>2. TypeOK'
      BY <1>3, <1>6 DEF PayoutInv, TypeOK, Book
    <2>3. Grows => CallOk(d)'
      BY <2>1, <2>2, CallKept DEF PayoutInv
    <2>4. batch[Cycle(p)].version <= b.version
      <3>1. batch[Cycle(p)].version \in Int
        BY <1>4, BatchParts
      <3> QED BY <1>6, <3>1
    <2>5. ApprovedBy(batch[Cycle(p)]) \subseteq ApprovedBy(b)
      BY <1>6 DEF ApprovedBy
    <2>6. d.at # "instruct" /\ ~Failure(d) /\ d.at \notin Submitting
      BY <1>6 DEF Plain, Failure, Submitting
    <2> QED BY <1>3, <1>4, <1>6, <2>3, <2>4, <2>5, <2>6, Stayed, Saved
  <1> QED BY <1>1, <1>2, <1>5, <1>6, SaveIdsEffect

LEMMA SubmitStampInv ==
    ASSUME PayoutInv, NEW p \in Procs, SubmitStamp(p)
    PROVE  PayoutInv'
  <1>1. Found(p) /\ call[p].at = "stamp" /\ Continue(p, "post") /\ "post" \in Steps
        /\ UNCHANGED <<Book, provider, sent, detours, bounds>>
    BY DEF SubmitStamp, Found, At, Loose, Steps, Ghosts
  <1>2. Cycle(p) \in Cycles /\ batch[Cycle(p)].state # "none" /\ batch[Cycle(p)] \in BatchType
    BY <1>1, FoundBatch DEF PayoutInv, TypeOK
  <1>3. PICK b : b = [batch[Cycle(p)] EXCEPT !.chase = TRUE]
    OBVIOUS
  <1>4. b \in BatchType /\ b.state = batch[Cycle(p)].state /\ b.net = batch[Cycle(p)].net
        /\ b.approvals = batch[Cycle(p)].approvals /\ b.version = batch[Cycle(p)].version
    <2>1. b \in BatchType
      BY <1>2, <1>3, BatchEdited
    <2> QED BY <1>2, <1>3, <2>1 DEF BatchType
  <1>5. batch' = [batch EXCEPT ![Cycle(p)] = b]
    BY <1>3 DEF SubmitStamp
  <1>6. PICK d \in CallType : /\ call' = [call EXCEPT ![p] = d] /\ d.at = "post"
                              /\ d.cycle = Cycle(p) /\ d.copy = Copy(p) /\ d.from = call[p].from
    BY <1>1, ContinueMoved
  <1>7. CallOk(call[p])
    BY DEF PayoutInv
  <1>8. CallOk(d)
    <2>1. CopyOk(d)
      BY <1>1, <1>6, <1>7 DEF CallOk, CopyOk, Loose, InFlight, Submitting, Copy, Cycle
    <2>2. ApprovalOk(d) /\ MoneyOk(d)
      BY <1>1, <1>6, <1>7 DEF CallOk, ApprovalOk, MoneyOk, FinalSteps, Submitting, Cycle
    <2> QED BY <2>1, <2>2 DEF CallOk
  <1>9. TypeOK'
    BY <1>1, <1>4, <1>5, <1>6 DEF PayoutInv, TypeOK, Book
  <1>a. Grows => CallOk(d)'
    BY <1>8, <1>9, CallKept DEF PayoutInv
  <1>b. batch[Cycle(p)].version <= b.version
    <2>1. batch[Cycle(p)].version \in Int
      BY <1>2, BatchParts
    <2> QED BY <1>4, <2>1
  <1>c. ApprovedBy(batch[Cycle(p)]) \subseteq ApprovedBy(b)
    BY <1>4 DEF ApprovedBy
  <1>d. d.at # "instruct" /\ ~Failure(d) /\ call[p].at \in Submitting /\ call[p].at # "queue"
    BY <1>1, <1>6 DEF Failure, Submitting
  <1> QED BY <1>1, <1>2, <1>4, <1>5, <1>6, <1>a, <1>b, <1>c, <1>d, Stayed, Saved

\* A handler goes on from the answer it was given.
LEMMA AnswerInv ==
    ASSUME PayoutInv, NEW p \in Procs, Answer(p)
    PROVE  PayoutInv'
  <1>1. Found(p) /\ call[p].at = "answer" /\ UNCHANGED <<Book, provider, sent, detours, bounds>>
    BY DEF Answer, Found, At, Loose, Ghosts
  <1>2. Cycle(p) \in Cycles /\ batch[Cycle(p)].state # "none" /\ batch[Cycle(p)] \in BatchType
    BY <1>1, FoundBatch DEF PayoutInv, TypeOK
  <1>3. PICK v : v = (batch[Cycle(p)].chase \/ call[p].outcome = "ambiguous") /\ v \in BOOLEAN
    OBVIOUS
  <1>4. PICK b : b = [batch[Cycle(p)] EXCEPT !.chase = v]
    OBVIOUS
  <1>5. b \in BatchType /\ b.state = batch[Cycle(p)].state /\ b.net = batch[Cycle(p)].net
        /\ b.approvals = batch[Cycle(p)].approvals /\ b.version = batch[Cycle(p)].version
    <2>1. b \in BatchType
      BY <1>2, <1>3, <1>4, BatchEdited
    <2> QED BY <1>2, <1>4, <2>1 DEF BatchType
  <1>6. batch' = [batch EXCEPT ![Cycle(p)] = b]
    BY <1>3, <1>4 DEF Answer
  <1>7. CallOk(call[p])
    BY DEF PayoutInv
  <1>8. PICK d \in CallType :
           /\ call' = [call EXCEPT ![p] = d] /\ CallOk(d)
           /\ d.at \in {"idle", "paid", "failed"}
           /\ d.at = "failed" => d.cycle = Cycle(p) /\ call[p].outcome = "failed"
    <2>1. CASE call[p].outcome \notin {"paid", "failed"}
      BY <2>1, IdleOk DEF Answer, Return
    <2>2. CASE call[p].outcome \in {"paid", "failed"}
      <3>1. PICK st : st = call[p].outcome /\ st \in {"paid", "failed"}
        BY <2>2
      <3>2. st \in Steps /\ Continue(p, st)
        BY <3>1, <2>2 DEF Steps, Answer
      <3>3. PICK d \in CallType : /\ call' = [call EXCEPT ![p] = d] /\ d.at = st
                                  /\ d.cycle = Cycle(p) /\ d.copy = Copy(p)
                                  /\ d.from = call[p].from
        BY <3>2, ContinueMoved
      <3>4. CallOk(d)
        <4>1. CopyOk(d)
          BY <1>1, <1>7, <3>1, <3>3 DEF CallOk, CopyOk, Loose, InFlight, Submitting, Copy, Cycle
        <4>2. ApprovalOk(d)
          BY <1>1, <1>7, <3>1, <3>3 DEF CallOk, ApprovalOk, FinalSteps, InFlight, Cycle
        <4>3. MoneyOk(d)
          BY <1>1, <1>7, <3>1, <3>3 DEF CallOk, MoneyOk, Cycle
        <4> QED BY <4>1, <4>2, <4>3 DEF CallOk
      <3> QED BY <3>1, <3>3, <3>4
    <2> QED BY <2>1, <2>2
  <1>9. TypeOK'
    BY <1>1, <1>5, <1>6, <1>8 DEF PayoutInv, TypeOK, Book
  <1>a. Grows => CallOk(d)'
    BY <1>8, <1>9, CallKept DEF PayoutInv
  <1>b. batch[Cycle(p)].version <= b.version
    <2>1. batch[Cycle(p)].version \in Int
      BY <1>2, BatchParts
    <2> QED BY <1>5, <2>1
  <1>c. ApprovedBy(batch[Cycle(p)]) \subseteq ApprovedBy(b)
    BY <1>5 DEF ApprovedBy
  <1>d. d.at # "instruct" /\ d.at \notin Submitting
        /\ (Failure(d) => Cycle(p) = d.cycle /\ Failure(call[p]))
    BY <1>1, <1>8 DEF Failure, Submitting
  <1> QED BY <1>1, <1>2, <1>5, <1>6, <1>8, <1>a, <1>b, <1>c, <1>d, Stayed, Saved

LEMMA PreserveInv ==
    ASSUME PayoutInv, NEW p \in Procs, Preserve(p)
    PROVE  PayoutInv'
  <1>1. Found(p) /\ UNCHANGED <<Book, provider, sent, detours, bounds>>
        /\ call' = [call EXCEPT ![p] = Idle]
    BY DEF Preserve, Found, At, Loose, Ghosts, Return
  <1>2. Cycle(p) \in Cycles /\ batch[Cycle(p)].state # "none" /\ batch[Cycle(p)] \in BatchType
    BY <1>1, FoundBatch DEF PayoutInv, TypeOK
  <1>3. CASE batch' = batch
    <2>1. TypeOK'
      BY <1>1, <1>3, IdleTyped DEF PayoutInv, TypeOK, Book
    <2> QED BY <1>1, <1>3, <2>1, Ended
  <1>4. CASE batch' # batch
    <2>1. PICK n : n = Copy(p).opening
      OBVIOUS
    <2>2. n \in Int
      BY <1>1, <2>1, FoundBatch, BatchParts
    <2>3. PICK b : b = [batch[Cycle(p)] EXCEPT !.carry = n, !.opening = 0]
      OBVIOUS
    <2>4. b \in BatchType /\ b.state = batch[Cycle(p)].state /\ b.net = batch[Cycle(p)].net
          /\ b.approvals = batch[Cycle(p)].approvals /\ b.version = batch[Cycle(p)].version
      <3>1. b \in BatchType
        BY <1>2, <2>2, <2>3, BatchEdited
      <3> QED BY <1>2, <2>3, <3>1 DEF BatchType
    <2>5. batch' = [batch EXCEPT ![Cycle(p)] = b]
      BY <1>4, <2>1, <2>3 DEF Preserve
    <2>6. PICK d \in CallType : d = Idle /\ d.at = "idle" /\ CallOk(d)
      BY IdleOk
    <2>7. TypeOK'
      BY <1>1, <2>4, <2>5, IdleTyped DEF PayoutInv, TypeOK, Book
    <2>8. Grows => CallOk(d)'
      BY <2>6, <2>7, CallKept DEF PayoutInv
    <2>9. batch[Cycle(p)].version <= b.version
      <3>1. batch[Cycle(p)].version \in Int
        BY <1>2, BatchParts
      <3> QED BY <2>4, <3>1
    <2>a. ApprovedBy(batch[Cycle(p)]) \subseteq ApprovedBy(b)
      BY <2>4 DEF ApprovedBy
    <2>b. d.at # "instruct" /\ ~Failure(d) /\ d.at \notin Submitting
      BY <2>6 DEF Failure, Submitting
    <2> QED BY <1>1, <1>2, <2>4, <2>5, <2>6, <2>8, <2>9, <2>a, <2>b, Stayed, Saved
  <1> QED BY <1>3, <1>4


\* A batch that is computed is a draft.
LEMMA ComputedTyped ==
    ASSUME PayoutInv, NEW p \in Procs
    PROVE  /\ Computed(p) \in BatchType /\ Computed(p).state = "draft"
           /\ Computed(p).version = 0
  <1> DEFINE items == call[p].items
             lines == Worth(items) + Cardinality(call[p].adjs)
             raw == lines + Copy(p).opening
             carries == raw < 0 \/ raw < MinPayout
  <1>1. /\ items \in SUBSET Items /\ call[p].adjs \in SUBSET Adjustments
        /\ Copy(p).opening \in Int
    <2>1. call[p] \in CallType
      BY DEF PayoutInv, TypeOK
    <2>2. Copy(p) \in BatchType
      BY <2>1, CallParts DEF Copy
    <2> QED BY <2>1, <2>2, CallParts, BatchParts
  <1>2. Worth(items) \in Int
    <2> DEFINE f == [i \in items |-> i[2]]
    <2>1. IsFiniteSet(items)
      <3>1. IsFiniteSet({1, -1})
        <4>1. IsFiniteSet({1})
          BY FS_Singleton
        <4>2. IsFiniteSet({1} \cup {-1})
          BY <4>1, FS_AddElement
        <4>3. {1, -1} = {1} \cup {-1}
          OBVIOUS
        <4> QED BY <4>2, <4>3
      <3>2. IsFiniteSet(Items)
        BY <3>1, PayoutAssumption, FS_Product DEF Items
      <3> QED BY <1>1, <3>2, FS_Subset
    <2>2. \A i \in items : f[i] \in Int
      BY <1>1 DEF Items
    <2>3. SumFunctionOnSet(f, items) \in Int
      <3> HIDE DEF f, items
      <3> QED BY <2>1, <2>2, SumInt
    <2>4. DOMAIN f = items
      OBVIOUS
    <2> QED BY <2>3, <2>4 DEF Worth, SumFunction
  <1>3. Cardinality(call[p].adjs) \in Int
    <2>1. IsFiniteSet(call[p].adjs)
      BY <1>1, PayoutAssumption, FS_Subset
    <2> QED BY <2>1, FS_CardinalityType
  <1>4. lines \in Int /\ raw \in Int
    BY <1>1, <1>2, <1>3
  <1>5. PICK n \in Int, k \in Int, l \in Int, o \in Int :
            /\ n = (IF carries THEN 0 ELSE raw) /\ k = (IF carries THEN raw ELSE 0)
            /\ l = lines /\ o = Copy(p).opening
    BY <1>1, <1>4
  <1>6. PICK b : b = [NoBatch EXCEPT !.state = "draft", !.lines = l, !.opening = o,
                                     !.net = n, !.carry = k]
    OBVIOUS
  <1>7. b = [state |-> "draft", lines |-> l, net |-> n, carry |-> k, opening |-> o,
             approvals |-> <<>>, version |-> 0, chase |-> FALSE]
    BY <1>6 DEF NoBatch
  <1>8. b \in BatchType /\ b.state = "draft" /\ b.version = 0
    BY <1>7 DEF BatchType, States
  <1>9. Computed(p) = b
    BY <1>5, <1>6 DEF Computed
  <1> QED BY <1>8, <1>9

LEMMA ComputeCreateInv ==
    ASSUME PayoutInv, NEW p \in Procs, ComputeCreate(p)
    PROVE  PayoutInv'
  <1>1. call[p].at = "create" /\ UNCHANGED <<Book, provider, sent, detours, bounds>>
    BY DEF ComputeCreate, At, Ghosts
  <1>2. call[p] \in CallType /\ CallOk(call[p])
    BY DEF PayoutInv, TypeOK
  <1>3. Cycle(p) \in Cycles /\ batch[Cycle(p)] \in BatchType
    BY <1>1, <1>2 DEF CallOk, CopyOk, Loose, Cycle, PayoutInv, TypeOK
  <1>4. CASE batch[Cycle(p)] # NoBatch
    <2>1. call' = [call EXCEPT ![p] = Idle] /\ batch' = batch
      BY <1>4 DEF ComputeCreate, Return
    <2>2. TypeOK'
      BY <1>1, <2>1, IdleTyped DEF PayoutInv, TypeOK, Book
    <2> QED BY <1>1, <2>1, <2>2, Ended
  <1>5. CASE batch[Cycle(p)] = NoBatch
    <2>1. PICK b \in BatchType : b = Computed(p) /\ b.state = "draft" /\ b.version = 0
      BY ComputedTyped
    <2>2. batch' = [batch EXCEPT ![Cycle(p)] = b]
      BY <1>5, <2>1 DEF ComputeCreate
    <2>3. PICK st \in {"absorb", "pin"} : Continue(p, st)
      BY <1>5 DEF ComputeCreate
    <2>4. st \in Steps
      BY DEF Steps
    <2>5. PICK d \in CallType : /\ call' = [call EXCEPT ![p] = d] /\ d.at = st
                                /\ d.cycle = Cycle(p) /\ d.from = call[p].from
      BY <2>3, <2>4, ContinueMoved
    <2>6. TypeOK'
      BY <1>1, <2>1, <2>2, <2>5 DEF PayoutInv, TypeOK, Book
    <2>7. batch[Cycle(p)].state = "none" /\ batch[Cycle(p)].version = 0
      BY <1>5 DEF NoBatch
    <2>8. CallOk(d)'
      <3>1. \A x \in Cycles : batch[x].state # "none" => batch'[x].state # "none"
        BY <1>3, <2>1, <2>2 DEF PayoutInv, TypeOK
      <3>2. batch'[Cycle(p)].state # "none"
        BY <1>3, <2>1, <2>2 DEF PayoutInv, TypeOK
      <3>3. call[p].from # NoCycle => call[p].from \in Cycles /\ batch[call[p].from].state # "none"
        BY <1>2, CallParts DEF CallOk, CopyOk
      <3>4. CopyOk(d)'
        BY <1>3, <2>5, <3>1, <3>2, <3>3 DEF CopyOk, InFlight, Submitting
      <3>5. ApprovalOk(d)' /\ MoneyOk(d)'
        BY <2>5 DEF ApprovalOk, MoneyOk, FinalSteps, InFlight, Submitting
      <3> QED BY <3>4, <3>5 DEF CallOk
    <2>9. d.at # "instruct" /\ ~Failure(d) /\ d.at \notin Submitting
      BY <2>5 DEF Failure, Submitting
    <2>a. "draft" \notin Final \cup {"none", "failed", "paid", "reversed"} /\ "none" \in Pre
      BY DEF Final, Pre
    <2>b. PICK c \in Cycles : c = Cycle(p)
      BY <1>3
    <2>c. batch[c].version <= b.version
      BY <2>1, <2>7, <2>b
    <2>d. batch' = [batch EXCEPT ![c] = b] /\ b.state = "draft" /\ batch[c].state = "none"
      BY <2>1, <2>2, <2>7, <2>b
    <2>e. detours \subseteq detours' /\ detours' \subseteq Detours
      BY <1>1, Stayed
    <2>f. UNCHANGED <<Book, provider, sent, bounds>>
      BY <1>1
    <2>g. call' = [call EXCEPT ![p] = d]
      BY <2>5
    <2> QED BY <2>8, <2>9, <2>a, <2>c, <2>d, <2>e, <2>f, <2>g, Saved
  <1> QED BY <1>4, <1>5

LEMMA ComputeAbsorbInv ==
    ASSUME PayoutInv, NEW p \in Procs, ComputeAbsorb(p)
    PROVE  PayoutInv'
  <1>1. Found(p) /\ Continue(p, "consume") /\ "consume" \in Steps
        /\ UNCHANGED <<Book, provider, sent, bounds>>
    BY DEF ComputeAbsorb, Found, At, Loose, Steps
  <1>2. detours \subseteq detours' /\ detours' \subseteq Detours
        /\ ("belated" \notin detours' => "belated" \notin detours)
    BY DEF ComputeAbsorb, PayoutInv, TypeOK, Detours
  <1>3. PICK d \in CallType : /\ call' = [call EXCEPT ![p] = d] /\ d.at = "consume"
                              /\ d.cycle = Cycle(p) /\ d.from = call[p].from
    BY <1>1, ContinueMoved
  <1>4. CallOk(d)
    BY <1>1, <1>3, PlainOk DEF Plain
  <1>5. d.at # "instruct" /\ ~Failure(d) /\ d.at \notin Submitting
    BY <1>3 DEF Failure, Submitting
  <1>6. PICK c : c = call[p].from /\ batch' = [batch EXCEPT ![c].carry = 0]
    BY DEF ComputeAbsorb
  <1>7. c \in Cycles \cup {NoCycle} /\ (c # NoCycle => batch[c].state # "none")
    BY <1>6, CallParts DEF PayoutInv, TypeOK, CallOk, CopyOk
  <1>8. CASE c = NoCycle
    <2>1. c \notin Cycles
      BY <1>8, PayoutAssumption DEF NoCycle
    <2>2. batch' = batch
      BY <1>6, <2>1 DEF PayoutInv, TypeOK
    <2>3. TypeOK'
      BY <1>1, <1>2, <1>3, <2>2 DEF PayoutInv, TypeOK, Book, Detours
    <2> QED BY <1>1, <1>2, <1>3, <1>4, <1>5, <2>2, <2>3, QuietStep
  <1>9. CASE c \in Cycles /\ batch[c].state # "none"
    <2>1. batch[c] \in BatchType /\ 0 \in Int
      BY <1>9 DEF PayoutInv, TypeOK
    <2>2. PICK b : b = [batch[c] EXCEPT !.carry = 0]
      OBVIOUS
    <2>3. b \in BatchType /\ b.state = batch[c].state /\ b.net = batch[c].net
          /\ b.approvals = batch[c].approvals /\ b.version = batch[c].version
      <3>1. b \in BatchType
        BY <2>1, <2>2, BatchEdited
      <3> QED BY <2>1, <2>2, <3>1 DEF BatchType
    <2>4. batch' = [batch EXCEPT ![c] = b]
      BY <1>6, <2>2
    <2>5. TypeOK'
      BY <1>1, <1>2, <1>3, <2>3, <2>4 DEF PayoutInv, TypeOK, Book, Detours
    <2>6. Grows => CallOk(d)'
      BY <1>4, <2>5, CallKept DEF PayoutInv
    <2>7. batch[c].version <= b.version
      <3>1. batch[c].version \in Int
        BY <2>1, BatchParts
      <3> QED BY <2>3, <3>1
    <2>8. ApprovedBy(batch[c]) \subseteq ApprovedBy(b)
      BY <2>3 DEF ApprovedBy
    <2> QED BY <1>1, <1>2, <1>3, <1>5, <1>9, <2>3, <2>4, <2>6, <2>7, <2>8, Saved
  <1> QED BY <1>7, <1>8, <1>9

\* Two approvals of one batch are of two people: the copy a handler counts on
\* had not been approved by whoever approves now.
LEMMA ApprovePushInv ==
    ASSUME PayoutInv, NEW p \in Procs, ApprovePush(p)
    PROVE  PayoutInv'
  <1> DEFINE c == Cycle(p)
             w == CHOOSE x \in call[p].who : TRUE
  <1>1. Found(p) /\ call[p].at = "approve" /\ UNCHANGED <<Book, provider, sent, detours, bounds>>
    BY DEF ApprovePush, Found, At, Loose, Ghosts
  <1>2. c \in Cycles /\ batch[c].state # "none" /\ batch[c] \in BatchType /\ Copy(p) \in BatchType
    BY <1>1, FoundBatch DEF PayoutInv, TypeOK
  <1>3. call[p] \in CallType /\ CallOk(call[p])
    BY DEF PayoutInv, TypeOK
  <1>4. PICK u \in Approvers : u = w /\ u \notin ApprovedBy(Copy(p))
    BY <1>1, <1>3 DEF CallOk, ApprovalOk, Copy
  <1>5. Copy(p).net = batch[c].net /\ ApprovedBy(Copy(p)) \subseteq ApprovedBy(batch[c])
    BY <1>1, <1>3 DEF CallOk, ApprovalOk, Copy, Cycle
  <1>6. batch[c].approvals \in Seq(Approvers) /\ batch[c].version \in Nat
        /\ Copy(p).approvals \in Seq(Approvers) /\ batch[c].net \in Int
    BY <1>2, BatchParts
  <1>7. PICK s, k : s = Append(batch[c].approvals, u) /\ k = batch[c].version + 1
    OBVIOUS
  <1>8. s \in Seq(Approvers) /\ k \in Nat
    BY <1>6, <1>7
  <1>9. PICK b : b = [batch[c] EXCEPT !.approvals = s, !.version = k]
    OBVIOUS
  <1>a. b \in BatchType /\ b.state = batch[c].state /\ b.net = batch[c].net
        /\ b.approvals = s /\ b.version = k
    <2>1. b \in BatchType
      BY <1>2, <1>8, <1>9, BatchEdited
    <2> QED BY <1>2, <1>9, <2>1 DEF BatchType
  <1>b. batch' = [batch EXCEPT ![c] = b]
    <2>1. batch' = [batch EXCEPT ![c].approvals = Append(@, u), ![c].version = @ + 1]
      BY <1>4 DEF ApprovePush
    <2>2. PICK mid : mid = [batch EXCEPT ![c].approvals = Append(@, u)]
      OBVIOUS
    <2>3. batch' = [mid EXCEPT ![c].version = @ + 1]
      BY <2>1, <2>2
    <2>4. batch \in [Cycles -> BatchType]
      BY DEF PayoutInv, TypeOK
    <2>5. mid = [batch EXCEPT ![c] = [batch[c] EXCEPT !.approvals = s]]
      BY <1>7, <2>2
    <2>6. mid[c] = [batch[c] EXCEPT !.approvals = s] /\ DOMAIN mid = Cycles
          /\ \A x \in Cycles \ {c} : mid[x] = batch[x]
      <3> HIDE DEF c
      <3> QED BY <1>2, <2>4, <2>5
    <2>7. mid[c].version = batch[c].version
      BY <1>2, <2>6 DEF BatchType
    <2>8. batch' = [mid EXCEPT ![c] = [mid[c] EXCEPT !.version = k]]
      BY <1>7, <2>3, <2>7
    <2>9. b = [mid[c] EXCEPT !.version = k]
      BY <1>2, <1>9, <2>6 DEF BatchType
    <2> HIDE DEF c
    <2> QED BY <1>2, <2>4, <2>5, <2>6, <2>8, <2>9
  <1>c. ApprovedBy(batch[c]) \cup {u} \subseteq ApprovedBy(b)
    <2>1. ASSUME NEW n \in DOMAIN batch[c].approvals
          PROVE  n \in DOMAIN s /\ s[n] = batch[c].approvals[n]
      BY <1>6, <1>7
    <2>2. Len(s) \in DOMAIN s /\ s[Len(s)] = u
      BY <1>6, <1>7
    <2> QED BY <1>a, <2>1, <2>2 DEF ApprovedBy
  <1>d. IsFiniteSet(ApprovedBy(b))
    BY <1>a, ApproversFinite
  <1>e. ASSUME Len(Append(Copy(p).approvals, u)) >= IF Dual(Copy(p)) THEN 2 ELSE 1
        PROVE  Cardinality(ApprovedBy(b)) >= IF Dual(b) THEN 2 ELSE 1
    <2>1. Dual(b) <=> Dual(Copy(p))
      BY <1>5, <1>a DEF Dual
    <2>2. CASE ~Dual(b)
      <3>1. {u} \subseteq ApprovedBy(b) /\ Cardinality({u}) = 1
        BY <1>c, FS_Singleton
      <3>2. Cardinality({u}) <= Cardinality(ApprovedBy(b))
        BY <1>d, <3>1, FS_Subset
      <3> QED BY <2>2, <3>1, <3>2
    <2>3. CASE Dual(b)
      <3>1. Len(Copy(p).approvals) >= 1
        BY <1>6, <1>e, <2>1, <2>3
      <3>2. PICK v : v = Copy(p).approvals[1] /\ v \in ApprovedBy(Copy(p))
        BY <1>6, <3>1 DEF ApprovedBy
      <3>3. v # u /\ {u, v} \subseteq ApprovedBy(b)
        BY <1>4, <1>5, <1>c, <3>2
      <3>4. Cardinality({u, v}) = 2
        <4>1. Cardinality({u}) = 1 /\ IsFiniteSet({u})
          BY FS_Singleton
        <4>2. Cardinality({u} \cup {v}) = Cardinality({u}) + 1
          BY <3>3, <4>1, FS_AddElement
        <4>3. {u, v} = {u} \cup {v}
          OBVIOUS
        <4> QED BY <4>1, <4>2, <4>3
      <3>5. Cardinality({u, v}) <= Cardinality(ApprovedBy(b))
        BY <1>d, <3>3, FS_Subset
      <3> QED BY <2>3, <3>4, <3>5
    <2> QED BY <2>2, <2>3
  <1>f. PICK d \in CallType :
           /\ call' = [call EXCEPT ![p] = d]
           /\ d = Idle \/ (/\ Len(Append(Copy(p).approvals, u)) >= IF Dual(Copy(p)) THEN 2 ELSE 1
                           /\ d.at = "approved" /\ d.cycle = c /\ d.from = call[p].from
                           /\ d.copy.state = Copy(p).state)
    <2>1. CASE ~(Len(Append(Copy(p).approvals, u)) >= IF Dual(Copy(p)) THEN 2 ELSE 1)
      BY <1>4, <2>1, IdleTyped DEF ApprovePush, Return
    <2>2. CASE Len(Append(Copy(p).approvals, u)) >= IF Dual(Copy(p)) THEN 2 ELSE 1
      <3>1. PICK own \in Seq(Approvers) : own = Append(Copy(p).approvals, u)
        <4>1. Append(Copy(p).approvals, u) \in Seq(Approvers)
          BY <1>6
        <4> QED BY <4>1
      <3>2. PICK v : v = [call[p].copy EXCEPT !.approvals = own]
        OBVIOUS
      <3>3. v \in BatchType /\ v.state = Copy(p).state
        <4>1. v \in BatchType
          BY <1>2, <3>1, <3>2, BatchEdited DEF Copy
        <4> QED BY <1>2, <3>2, <4>1 DEF BatchType, Copy
      <3>4. PICK d : d = [call[p] EXCEPT !.copy = v, !.at = "approved"]
        OBVIOUS
      <3>5. "approved" \in Steps
        BY DEF Steps
      <3>6. d \in CallType
        BY <1>3, <3>3, <3>4, <3>5, CallEdited
      <3>7. d.at = "approved" /\ d.cycle = c /\ d.from = call[p].from
            /\ d.copy.state = Copy(p).state
        BY <1>3, <3>3, <3>4 DEF CallType, Cycle
      <3>8. call' = [call EXCEPT ![p] = d]
        BY <1>4, <2>2, <3>1, <3>2, <3>4 DEF ApprovePush
      <3> QED BY <2>2, <3>6, <3>7, <3>8
    <2> QED BY <2>1, <2>2
  <1>g. TypeOK'
    BY <1>1, <1>a, <1>b, <1>f DEF PayoutInv, TypeOK, Book
  <1>h. Grows => CallOk(d)'
    <2>1. CASE d = Idle
      BY <1>g, <2>1, IdleOk, CallKept DEF PayoutInv
    <2>2. CASE d # Idle
      <3> SUFFICES ASSUME Grows PROVE CallOk(d)'
        OBVIOUS
      <3>0. /\ Len(Append(Copy(p).approvals, u)) >= IF Dual(Copy(p)) THEN 2 ELSE 1
            /\ d.at = "approved" /\ d.cycle = c /\ d.from = call[p].from
            /\ d.copy.state = Copy(p).state
        BY <1>f, <2>2
      <3>c. PICK e \in Cycles : e = Cycle(p) /\ d.cycle = e
        BY <1>2, <3>0
      <3>1. Approved(e)'
        <4>1. batch'[e] = b
          BY <1>2, <1>b, <3>c DEF PayoutInv, TypeOK
        <4>2. Cardinality(ApprovedBy(b)) >= IF Dual(b) THEN 2 ELSE 1
          BY <1>e, <3>0
        <4> QED BY <4>1, <4>2 DEF Approved, ApprovedBy, Dual
      <3>2. batch'[c].state # "none"
        BY <1>2 DEF Grows
      <3>3. Copy(p).state = "pending"
        BY <1>1, <1>3 DEF CallOk, CopyOk, Copy
      <3>4. call[p].from # NoCycle => batch'[call[p].from].state # "none"
        BY <1>3, CallParts DEF CallOk, CopyOk, Grows
      <3>5. CopyOk(d)'
        BY <1>2, <3>0, <3>2, <3>3, <3>4 DEF CopyOk, Loose, InFlight, Submitting
      <3>6. ApprovalOk(d)'
        <4>1. d.at # "approve" /\ Approved(d.cycle)'
          BY <3>0, <3>1, <3>c
        <4> QED BY <4>1 DEF ApprovalOk
      <3>7. MoneyOk(d)'
        BY <3>0 DEF MoneyOk
      <3> QED BY <3>5, <3>6, <3>7 DEF CallOk
    <2> QED BY <2>1, <2>2
  <1>i. d.at # "instruct" /\ ~Failure(d) /\ d.at \notin Submitting
    BY <1>f DEF Failure, Submitting, Idle
  <1>j. batch[c].version <= b.version
    BY <1>6, <1>7, <1>a
  <1>k. ApprovedBy(batch[c]) \subseteq ApprovedBy(b)
    BY <1>c
  <1> HIDE DEF c
  <1> QED BY <1>1, <1>2, <1>a, <1>b, <1>f, <1>h, <1>i, <1>j, <1>k, Stayed, Saved

-----------------------------------------------------------------------------
(* What happens outside the handlers, and crashes. *)

LEMMA HoldLineInv ==
    ASSUME PayoutInv, NEW i \in Items, HoldLine(i)
    PROVE  PayoutInv'
  <1>1. PICK more \in SUBSET Detours : Arrive(more)
    BY DEF HoldLine, Detours
  <1>2. UNCHANGED <<batch, adjusted, journal, provider, call, sent>>
        /\ line' = [line EXCEPT ![i].state = "held"]
    BY DEF HoldLine
  <1>3. line' \in [Items -> LineType]
    <2>1. "held" \in LineStates
      BY DEF LineStates
    <2> QED BY <1>2, <2>1 DEF PayoutInv, TypeOK, LineType
  <1>4. detours \subseteq detours' /\ TypeOK'
    BY <1>1, <1>2, <1>3, ArriveTyped DEF PayoutInv, TypeOK, Detours
  <1> QED BY <1>2, <1>4, Aside

LEMMA ReleaseLineInv ==
    ASSUME PayoutInv, NEW i \in Items, ReleaseLine(i)
    PROVE  PayoutInv'
  <1>1. PICK more \in SUBSET Detours : Arrive(more)
    BY DEF ReleaseLine
  <1>2. UNCHANGED <<batch, adjusted, journal, provider, call, sent>>
        /\ line' = [line EXCEPT ![i].state = "eligible"]
    BY DEF ReleaseLine
  <1>3. line' \in [Items -> LineType]
    <2>1. "eligible" \in LineStates
      BY DEF LineStates
    <2> QED BY <1>2, <2>1 DEF PayoutInv, TypeOK, LineType
  <1>4. detours \subseteq detours' /\ TypeOK'
    BY <1>1, <1>2, <1>3, ArriveTyped DEF PayoutInv, TypeOK, Detours
  <1> QED BY <1>2, <1>4, Aside

LEMMA AddAdjustmentInv ==
    ASSUME PayoutInv, NEW a \in Adjustments, AddAdjustment(a)
    PROVE  PayoutInv'
  <1>1. PICK more \in SUBSET Detours : Arrive(more)
    BY DEF AddAdjustment
  <1>2. UNCHANGED <<line, batch, journal, provider, call, sent>>
        /\ adjusted' = [adjusted EXCEPT ![a].added = TRUE]
    BY DEF AddAdjustment
  <1>3. adjusted' \in [Adjustments -> [added : BOOLEAN, cycle : Cycles \cup {NoCycle}]]
    BY <1>2 DEF PayoutInv, TypeOK
  <1>4. detours \subseteq detours' /\ TypeOK'
    BY <1>1, <1>2, <1>3, ArriveTyped DEF PayoutInv, TypeOK, Detours
  <1> QED BY <1>2, <1>4, Aside

\* Money that is known to have moved is not forgotten, and no failure is on its
\* way to the books of a payout that still moves.
LEMMA ProviderStepInv ==
    ASSUME PayoutInv, NEW c \in Cycles, ProviderStep(c)
    PROVE  PayoutInv'
  <1>1. UNCHANGED <<line, batch, adjusted, journal, call, sent, detours, bounds>>
    BY DEF ProviderStep, Ghosts
  <1>2. PICK money \in {"moved", "failed", "bounced"} :
           /\ provider' = [provider EXCEPT ![c] = money]
           /\ \/ provider[c] = "moving" /\ money \in {"moved", "failed"}
              \/ provider[c] = "moved" /\ money = "bounced"
    BY DEF ProviderStep
  <1>3. provider'[c] = money /\ \A x \in Cycles \ {c} : provider'[x] = provider[x]
    BY <1>2 DEF PayoutInv, TypeOK
  <1>4. TypeOK'
    BY <1>1, <1>2 DEF PayoutInv, TypeOK
  <1>5. Grows
    <2>1. ASSUME NEW x \in Cycles PROVE batch[x].version <= batch[x].version
      <3>1. batch[x] \in BatchType
        BY DEF PayoutInv, TypeOK
      <3>2. batch[x].version \in Int
        BY <3>1, BatchParts
      <3> QED BY <3>2
    <2> QED BY <1>1, <1>2, <1>3, <2>1 DEF Grows
  <1>6. ASSUME NEW q \in Procs PROVE CallOk(call[q])'
    <2>1. PICK e \in CallType : e = call[q] /\ e = call'[q]
      BY <1>1 DEF PayoutInv, TypeOK
    <2>2. CallOk(e)'
      BY <1>4, <1>5, <2>1, CallKept DEF PayoutInv
    <2> QED BY <2>1, <2>2
  <1>7. ASSUME NEW x \in Cycles PROVE BatchOk(x)'
    <2>1. provider[x] \in {"moved", "bounced"} => provider'[x] \in {"moved", "bounced"}
      BY <1>5 DEF Grows
    <2> QED BY <1>1, <2>1 DEF PayoutInv, BatchOk, Approved
  <1>8. ASSUME "belated" \notin detours', NEW x \in Cycles PROVE Counted(x)'
    <2>1. Counted(x)
      BY <1>1, <1>8 DEF PayoutInv
    <2>2. /\ Winning(x)' = Winning(x) /\ Failing(x)' = Failing(x) /\ Sendings(x)' = Sendings(x)
          /\ \A q \in Procs : (Behind(q, x)' <=> Behind(q, x)) /\ (At(q, "queue")' <=> At(q, "queue"))
          /\ \A q \in Procs : Cycle(q)' = Cycle(q)
      BY <1>1 DEF Winning, Failing, Failure, Sendings, Behind, Cycle, Copy, At
    <2>3. (provider'[x] = "none" => provider[x] = "none")
          /\ (provider'[x] \in {"moving", "moved"} => provider[x] \in {"moving", "moved"})
      BY <1>2, <1>3
    <2> QED BY <1>1, <2>1, <2>2, <2>3 DEF Counted
  <1> QED BY <1>1, <1>4, <1>6, <1>7, <1>8 DEF PayoutInv

LEMMA CrashInv ==
    ASSUME PayoutInv, NEW p \in Procs, Crash(p)
    PROVE  PayoutInv'
  <1>1. /\ call' = [call EXCEPT ![p] = Idle] /\ detours' = detours \cup {"crash"}
        /\ bounds' = [bounds EXCEPT !.crashes = @ + 1]
        /\ UNCHANGED <<line, batch, adjusted, journal, provider, sent>>
    BY DEF Crash, Return
  <1>2. TypeOK'
    BY <1>1, IdleTyped DEF PayoutInv, TypeOK
  <1> QED BY <1>1, <1>2, Ended

-----------------------------------------------------------------------------
(* The invariant, and what it gives. *)

LEMMA InitPayoutInv == Init => PayoutInv
  <1> SUFFICES ASSUME Init PROVE PayoutInv
    OBVIOUS
  <1>1. TypeOK
    <2>1. line \in [Items -> LineType]
      BY DEF Init, LineType, LineStates
    <2>2. /\ batch \in [Cycles -> BatchType] /\ call \in [Procs -> CallType]
          /\ journal \in [Cycles -> JournalType]
      BY IdleTyped DEF Init, NoJournal, JournalType
    <2> QED BY <2>1, <2>2 DEF Init, TypeOK
  <1>2. ASSUME NEW p \in Procs PROVE CallOk(call[p]) /\ At(p, "idle")
    <2>1. call[p] = Idle
      BY DEF Init
    <2> QED BY <2>1, IdleOk DEF Idle, At
  <1>3. ASSUME NEW c \in Cycles
        PROVE  batch[c] = NoBatch /\ batch[c].state = "none" /\ batch[c].carry = 0
    BY DEF Init, NoBatch
  <1>4. ASSUME NEW c \in Cycles PROVE BatchOk(c)
    BY <1>3 DEF BatchOk, Final
  <1>5. ASSUME NEW c \in Cycles PROVE Counted(c)
    <2>1. Winning(c) = {} /\ Failing(c) = {}
      BY <1>2 DEF Winning, Failing, Failure, At
    <2>2. IsFiniteSet({}) /\ Cardinality({}) = 0
      BY FS_EmptySet
    <2>3. sent[c].instructions = 0 /\ sent[c].failures = 0 /\ provider[c] = "none"
      BY DEF Init
    <2>4. Sendings(c) = 0
      BY <2>1, <2>2, <2>3 DEF Sendings
    <2>5. \A p \in Procs : call[p].at \notin Submitting
      BY <1>2 DEF At, Submitting
    <2> QED BY <1>3, <2>1, <2>2, <2>3, <2>4, <2>5 DEF Counted, Behind
  <1> QED BY <1>1, <1>2, <1>4, <1>5 DEF PayoutInv

LEMMA AskInv ==
    ASSUME PayoutInv, NEW p \in Procs, Ask(p)
    PROVE  PayoutInv'
  <1>1. CASE \E i \in Items : EligibleFind(p, i)
    BY <1>1, EligibleFindInv
  <1>2. CASE \E l \in Lines : RefundFind(p, l)
    BY <1>2, RefundFindInv
  <1>3. ASSUME NEW c \in Cycles,
               NEW window \in SUBSET {i \in Items : line[i].state = "eligible"},
               ComputeFind(p, c, window)
        PROVE  PayoutInv'
    BY <1>3, ComputeFindInv
  <1>4. ASSUME NEW c \in Cycles, AskFind(p, c) \/ RejectFind(p, c) \/ CancelFind(p, c)
        PROVE  PayoutInv'
    BY <1>4, AskFindInv, RejectFindInv, CancelFindInv
  <1>5. ASSUME NEW c \in Cycles, SubmitFind(p, c) \/ Webhook(p, c)
        PROVE  PayoutInv'
    BY <1>5, SubmitFindInv, WebhookInv
  <1>6. ASSUME NEW c \in Cycles, NEW u \in Approvers, ApproveFind(p, c, u)
        PROVE  PayoutInv'
    BY <1>6, ApproveFindInv
  <1> QED BY <1>1, <1>2, <1>3, <1>4, <1>5, <1>6 DEF Ask

LEMMA AdvanceInv ==
    ASSUME PayoutInv, NEW p \in Procs, Advance(p)
    PROVE  PayoutInv'
  <1>1. CASE EligibleSave(p) \/ RefundSave(p) \/ ComputeCarry(p) \/ ComputeCreate(p)
    BY <1>1, EligibleSaveInv, RefundSaveInv, ComputeCarryInv, ComputeCreateInv
  <1>2. CASE ComputeAbsorb(p) \/ ComputeConsume(p) \/ ComputePin(p) \/ ComputeApply(p)
    BY <1>2, ComputeAbsorbInv, ComputeConsumeInv, ComputePinInv, ComputeApplyInv
  <1>3. CASE AskSave(p) \/ ApprovePush(p) \/ ApproveSave(p) \/ RejectSave(p)
    BY <1>3, AskSaveInv, ApprovePushInv, ApproveSaveInv, RejectSaveInv
  <1>4. CASE CancelSave(p) \/ Release(p) \/ Unapply(p) \/ Preserve(p)
    BY <1>4, CancelSaveInv, ReleaseInv, UnapplyInv, PreserveInv
  <1>5. CASE SubmitQueue(p) \/ SubmitProcess(p) \/ SubmitStamp(p) \/ SubmitPost(p) \/ SubmitIds(p)
    BY <1>5, SubmitQueueInv, SubmitProcessInv, SubmitStampInv, SubmitPostInv, SubmitIdsInv
  <1>6. CASE Instruct(p) \/ Answer(p) \/ SweepFetch(p)
    BY <1>6, InstructInv, AnswerInv, SweepFetchInv
  <1>7. CASE MarkPaid(p) \/ Settle(p) \/ MarkFailed(p) \/ MarkReversed(p)
    BY <1>7, MarkPaidInv, SettleInv, MarkFailedInv, MarkReversedInv
  <1>8. CASE Unwind(p) \/ UnwindIds(p) \/ Restore(p)
    BY <1>8, UnwindInv, UnwindIdsInv, RestoreInv
  <1> QED BY <1>1, <1>2, <1>3, <1>4, <1>5, <1>6, <1>7, <1>8 DEF Advance

LEMMA NextPayoutInv == PayoutInv /\ [Next]_vars => PayoutInv'
  <1> SUFFICES ASSUME PayoutInv, [Next]_vars PROVE PayoutInv'
    OBVIOUS
  <1>1. ASSUME NEW i \in Items, HoldLine(i) \/ ReleaseLine(i) PROVE PayoutInv'
    BY <1>1, HoldLineInv, ReleaseLineInv
  <1>2. ASSUME NEW a \in Adjustments, AddAdjustment(a) PROVE PayoutInv'
    BY <1>2, AddAdjustmentInv
  <1>3. ASSUME NEW c \in Cycles, ProviderStep(c) PROVE PayoutInv'
    BY <1>3, ProviderStepInv
  <1>4. ASSUME NEW p \in Procs, Ask(p) \/ Advance(p) \/ Crash(p) PROVE PayoutInv'
    BY <1>4, AskInv, AdvanceInv, CrashInv
  <1>5. ASSUME NEW p \in Procs, Sweep(p) PROVE PayoutInv'
    BY <1>5, SweepFindInv DEF Sweep
  <1>6. CASE UNCHANGED vars
    <2>1. UNCHANGED <<batch, provider, call, sent>> /\ detours \subseteq detours' /\ TypeOK'
      BY <1>6 DEF vars, PayoutInv, TypeOK
    <2> QED BY <2>1, Aside
  <1> QED BY <1>1, <1>2, <1>3, <1>4, <1>5, <1>6 DEF Next

\* The invariant holds of every state the handlers of payout.service.js reach.
THEOREM PayoutInvariant == Spec => []PayoutInv
  BY InitPayoutInv, NextPayoutInv, PTL DEF Spec

\* Lines, batches, journals, provider and handlers keep to their types, the
\* versions and lists of approvals included.
THEOREM PayoutTypeSafe == Spec => []TypeOK
  <1>1. PayoutInv => TypeOK
    BY DEF PayoutInv
  <1> QED BY <1>1, PayoutInvariant, PTL

\* Dual approval: however many approvals of a batch race, and whatever saves
\* come between, a batch at the threshold that left the approval stage was
\* approved by two different people (approve).
THEOREM PayoutDualApproval == Spec => []DualApproval
  <1>1. PayoutInv => DualApproval
    BY DEF PayoutInv, BatchOk, Approved, Final, DualApproval
  <1> QED BY <1>1, PayoutInvariant, PTL

\* A payout is sent to the provider once, and once more for each failure
\* recorded, as long as no approval step was saved over a batch that had moved
\* on: of two submissions at once only one wins the version of the ids (submit).
THEOREM PayoutInstructedOnce == Spec => []InstructedOnce
  <1>1. PayoutInv => InstructedOnce
    <2> SUFFICES ASSUME PayoutInv, "belated" \notin detours, NEW c \in Cycles
                 PROVE  sent[c].instructions <= 1 + sent[c].failures
      BY DEF InstructedOnce
    <2>1. Counted(c)
      BY DEF PayoutInv
    <2>2. Sendings(c) <= 1 + sent[c].failures
      BY <2>1 DEF Counted
    <2> QED BY <2>1, <2>2, CountParts DEF PayoutInv
  <1> QED BY <1>1, PayoutInvariant, PTL

\* Nothing is PAID or REVERSED whose money did not move, and nothing FAILED
\* whose money moves or has moved unless a belated approval reopened it: lost,
\* late and repeated answers, webhooks and sweeps included (submit, markPaid,
\* markFailed, applyProviderEvent, reconcileInFlight).
THEOREM PayoutStateMatchesProvider == Spec => []StateMatchesProvider
  <1>1. PayoutInv => StateMatchesProvider
    <2> SUFFICES ASSUME PayoutInv, NEW c \in Cycles
                 PROVE  /\ batch[c].state \in {"paid", "reversed"} =>
                               provider[c] \in {"moved", "bounced"}
                        /\ batch[c].state = "failed" /\ "belated" \notin detours =>
                               provider[c] \notin {"moving", "moved"}
      BY DEF StateMatchesProvider
    <2>1. BatchOk(c) /\ ("belated" \notin detours => Counted(c))
      BY DEF PayoutInv
    <2> QED BY <2>1 DEF BatchOk, Counted
  <1> QED BY <1>1, PayoutInvariant, PTL

-----------------------------------------------------------------------------
(* The books and the lines, while calls come one at a time. *)

Batched(c) == LinesOf(c, {"batched"})
Settled(c) == LinesOf(c, {"paid"})
Applied(c) == {a \in Adjustments : adjusted[a].cycle = c}

\* What is owed no longer, because it was paid or went into a balance carried.
Gone == {i \in Items : \/ line[i].state = "paid"
                       \/ line[i].state = "batched" /\ ~Pinned(line[i].cycle)}
Used == {a \in Adjustments : adjusted[a].cycle # NoCycle /\ ~Pinned(adjusted[a].cycle)}

\* What a batch contributes to the two sides, apart from lines and adjustments.
Entry(c) == batch[c].carry + (IF Pinned(c) THEN batch[c].opening ELSE 0)
              + (IF Standing(c) THEN journal[c].drained ELSE 0)
Gap == Worth(Gone) + Cardinality(Used) - SumFunction([c \in Cycles |-> Entry(c)])

\* The states of a batch on its way, those after it was asked for, those before
\* it was sent, and those in which it may carry a balance.
Current == {"draft", "pending", "approved", "rejected", "queued", "processing", "paid"}
Asked == Current \ {"draft"}
Unsent == {"none", "draft", "pending", "approved", "rejected", "queued"}
Carriers == {"draft", "cancelled", "failed", "reversed"}

\* The steps half way through a change of several collections.
Computing == {"absorb", "consume", "pin", "apply"}
Posting == {"stamp", "post"}
Unwinding == {"unwind"}
Staged == Computing \cup Posting \cup Unwinding \cup {"unwound", "restore"}
On(d, c, steps) == d.cycle = c /\ d.at \in steps

\* A batch with something to pay, whose lines and adjustments make up what it says.
Whole(c) == batch[c].net > 0 /\ batch[c].state \in Current
Filled(c) == Worth(Batched(c) \cup Settled(c)) + Cardinality(Applied(c)) = batch[c].lines

FaceOk(c) ==
    LET b == batch[c] IN
    /\ b.state = "none" => b.net = 0 /\ b.carry = 0 /\ b.opening = 0
    /\ b.net >= 0
    /\ b.state \in Asked => b.net > 0
    /\ b.carry # 0 => b.state \in Carriers
    /\ Whole(c) => b.carry = 0 /\ b.net = b.lines + b.opening

LinesOk(c, d) ==
    /\ batch[c].state = "none" => Batched(c) = {} /\ Settled(c) = {} /\ Applied(c) = {}
    /\ Whole(c) => /\ batch[c].state # "paid" => Settled(c) = {}
                   /\ On(d, c, Computing) \/ Filled(c)
    /\ batch[c].carry # 0 /\ batch[c].state \in {"failed", "reversed"} => Batched(c) = {}

\* The journal of a batch stands while its money is under way or paid.
JournalOk(c, d) ==
    /\ Standing(c) <=> (Live(c) /\ ~On(d, c, Posting)) \/ On(d, c, Unwinding)
    /\ Standing(c) => journal[c].drained = batch[c].lines + batch[c].opening
    /\ batch[c].state \in Unsent \/ On(d, c, Posting) => ~journal[c].posted
    /\ journal[c].unwound => journal[c].posted
    /\ provider[c] \in {"moving", "moved"} => Live(c)

CycleOk(c, d) == FaceOk(c) /\ LinesOk(c, d) /\ JournalOk(c, d)

Placed ==
    /\ \A i \in Items : line[i].state \in {"batched", "paid"} => line[i].cycle \in Cycles
    /\ \A a \in Adjustments : adjusted[a].cycle # NoCycle => adjusted[a].added
    /\ \A l \in Lines : /\ line[<<l, 1>>].state # "none"
                        /\ line[<<l, 1>>].state = "reversed" => line[<<l, -1>>].state = "none"
                        /\ line[<<l, -1>>].state # "reversed"

\* The steps of a handler that has not read its batch.
Unread == {"idle", "promote", "refund", "carry", "create"} \cup Computing

\* What the only handler in flight knows of its batch ...
ReadOk(d) ==
    /\ d.at \notin Unread => SameFace(d.copy, batch[d.cycle])
    /\ d.at \notin Unread \cup {"approved"} => d.copy.version = batch[d.cycle].version
    /\ d.at = "ask" => d.copy.net > 0
    /\ d.at = "queue" => d.copy.state = "approved"

\* ... of the lines it is about to change ...
ItemsOk(d) ==
    /\ d.at = "promote" => \A i \in d.items : line[i].state = "accrued"
    /\ d.at = "refund" =>
          \E l \in Lines : /\ d.items = {<<l, 1>>} /\ line[<<l, -1>>].state = "none"
                           /\ d.outcome = line[<<l, 1>>].state /\ d.outcome # "reversed"
    /\ d.at \in {"carry", "create", "absorb", "consume", "pin"} =>
          \A i \in d.items : line[i].state = "eligible"

\* ... of the batch it is composing ...
ComputeOk(d) ==
    LET c == d.cycle
        b == batch[d.cycle] IN
    /\ d.at \in {"create"} \cup Computing => d.adjs \subseteq Pending
    /\ d.at = "create" => IF d.from = NoCycle THEN d.copy.opening = 0
                          ELSE batch[d.from].carry # 0 /\ d.copy.opening = batch[d.from].carry
    /\ d.at \in Computing =>
          /\ b.state = "draft" /\ b.lines = Worth(d.items) + Cardinality(d.adjs)
          /\ b.carry # 0 => b.carry = b.lines + b.opening
          /\ Settled(c) = {} /\ Applied(c) = {}
          /\ Batched(c) = IF d.at = "apply" THEN d.items ELSE {}
          /\ d.from = NoCycle => b.opening = 0
    /\ d.at \in {"absorb", "consume"} => d.from \notin {NoCycle, c}
    /\ d.at = "absorb" => b.opening = batch[d.from].carry /\ b.opening # 0
    /\ d.at = "consume" =>
          /\ batch[d.from].carry = 0 /\ batch[d.from].state \in Carriers
          /\ ~Whole(d.from) /\ Applied(d.from) = {}
          /\ batch[d.from].state \in {"failed", "reversed"} => Batched(d.from) = {}

\* ... and of the batch it is taking back.
LeaveOk(d) ==
    LET c == d.cycle
        b == batch[d.cycle] IN
    /\ d.at = "failed" => d.outcome = "failed"
    /\ d.at = "reverse" => d.outcome = "reversed"
    /\ d.at \in {"paid", "settle", "reverse"} /\ d.outcome = "reversed" =>
          provider[c] = "bounced"
    /\ d.at \in {"unwind", "unwound"} =>
          /\ b.carry = 0
          /\ IF d.outcome = "reversed" THEN b.state = "reversed" /\ Applied(c) = {}
             ELSE b.state = "failed" /\ Settled(c) = {}
    /\ d.at = "unwind" => Filled(c)
    /\ d.at = "cancel" => /\ b.carry # 0 => Applied(c) = {}
                          /\ d.copy.state \in {"draft", "pending", "approved", "queued", "failed"}
    /\ d.at = "restore" => b.carry = 0 /\ b.state = "reversed" /\ Applied(c) = {}
    /\ d.at \in {"release", "unapply"} =>
          b.state \in {"cancelled", "failed"} /\ (b.carry # 0 => Applied(c) = {})
    /\ d.at = "unapply" => (b.carry = 0 => Batched(c) = {})
    /\ d.at = "preserve" => /\ b.state \in {"cancelled", "failed", "reversed"}
                            /\ b.carry = 0 => Batched(c) = {} /\ Applied(c) = {}

StepOk(d) == ReadOk(d) /\ ItemsOk(d) /\ ComputeOk(d) /\ LeaveOk(d)

\* By how much lines and books differ at each step.
GapOf(d) ==
    LET b == batch[d.cycle] IN
    CASE d.at = "absorb" -> IF b.carry = 0 THEN - b.opening ELSE - b.carry
      [] d.at = "consume" -> (IF b.carry = 0 THEN 0 ELSE - b.lines) - Worth(Batched(d.from))
      [] d.at = "pin" -> IF b.carry = 0 THEN 0 ELSE - b.lines
      [] d.at = "apply" -> IF b.carry = 0 THEN 0 ELSE - Cardinality(d.adjs)
      [] d.at \in Posting -> b.lines + b.opening
      [] d.at = "unwind" -> Worth(Settled(d.cycle)) - b.lines - b.opening
      [] d.at \in {"unwound", "restore"} -> Worth(Settled(d.cycle))
      [] OTHER -> 0

\* A balance below zero was borrowed from the negative lines that went into it.
Deficit(n) == IF n < 0 THEN - n ELSE 0
Borrowed(c) == IF batch[c].carry = 0 THEN Deficit(batch[c].opening) ELSE Deficit(batch[c].carry)
Borrowings == SumFunction([c \in Cycles |-> Borrowed(c)])
Negative(items) == {i \in items : i[2] = -1}
Backing ==
    {i \in Negative(Items) :
        \/ line[i].state = "paid" /\ batch[line[i].cycle].state \in {"draft", "cancelled"}
        \/ line[i].state = "batched" /\ batch[line[i].cycle].carry # 0}

\* What is borrowed twice, or not backed yet, while a batch is composed.
Unbacked(d) ==
    IF d.at \in {"absorb", "consume", "pin"} /\ batch[d.cycle].carry # 0
    THEN Cardinality(Negative(d.items)) ELSE 0
Slack(d) ==
    Unbacked(d) + CASE d.at = "absorb"  -> Deficit(batch[d.from].carry)
                    [] d.at = "consume" -> Cardinality(Negative(Batched(d.from)))
                    [] OTHER            -> 0

\* Money sent or on its way.
Sent == {c \in Cycles : provider[c] \in {"moving", "moved"}}
Outgoing == SumFunction([c \in Sent |-> batch[c].net])

OrderAt(d) ==
    /\ Placed
    /\ \A c \in Cycles : CycleOk(c, d)
    /\ StepOk(d)

BooksAt(d) ==
    /\ OrderAt(d)
    /\ Gap = GapOf(d)
    /\ Borrowings <= Cardinality(Backing) + Slack(d)
    /\ Outgoing <= Granted

\* Who runs, runs alone; and the record of the only call in flight.
Alone == \A p, q \in Running : p = q
Now == IF Running = {} THEN Idle ELSE call[CHOOSE p \in Running : TRUE]

BooksInv == detours \subseteq {"revived"} => Alone /\ \E d \in {Now} : BooksAt(d)

-----------------------------------------------------------------------------
(* What sets of lines are worth. *)

Positive(items) == {i \in items : i[2] = 1}
Price == [i \in Items |-> i[2]]

LEMMA ItemsFinite == IsFiniteSet(Items) /\ \A i \in Items : i[2] \in {1, -1}
  <1>1. IsFiniteSet({1, -1})
    <2>1. {1, -1} = {1} \cup {-1}
      OBVIOUS
    <2>2. IsFiniteSet({1}) /\ IsFiniteSet({-1})
      BY FS_Singleton
    <2> QED BY <2>1, <2>2, FS_Union
  <1>2. IsFiniteSet(Lines)
    BY PayoutAssumption
  <1> QED BY <1>1, <1>2, FS_Product DEF Items

LEMMA SetsFinite ==
    /\ \A A \in SUBSET Items : IsFiniteSet(A) /\ Cardinality(A) \in Nat
    /\ \A A \in SUBSET Adjustments : IsFiniteSet(A) /\ Cardinality(A) \in Nat
    /\ \A A \in SUBSET Cycles : IsFiniteSet(A)
  BY ItemsFinite, PayoutAssumption, FS_Subset, FS_CardinalityType

LEMMA WorthSum ==
    ASSUME NEW A \in SUBSET Items
    PROVE  Worth(A) = SumFunctionOnSet(Price, A) /\ Worth(A) \in Int
  <1> DEFINE f == [i \in A |-> i[2]]
  <1>1. Worth(A) = SumFunctionOnSet(f, A)
    BY DEF Worth, SumFunction
  <1>2. (\A i \in A : f[i] = Price[i] /\ Price[i] \in Int) /\ IsFiniteSet(A)
    BY ItemsFinite, SetsFinite DEF Price
  <1> HIDE DEF f
  <1>3. SumFunctionOnSet(f, A) = SumFunctionOnSet(Price, A)
    BY <1>2, SumSame DEF SameOn
  <1>4. SumFunctionOnSet(Price, A) \in Int
    BY <1>2, SumInt
  <1> QED BY <1>1, <1>3, <1>4

LEMMA WorthNone == Worth({}) = 0
  BY WorthSum, SumOfNone

LEMMA WorthUnion ==
    ASSUME NEW A \in SUBSET Items, NEW B \in SUBSET Items, A \cap B = {}
    PROVE  /\ Worth(A \cup B) = Worth(A) + Worth(B)
           /\ Worth(A) \in Int /\ Worth(B) \in Int
  <1>1. \A i \in A \cup B : Price[i] \in Int
    BY ItemsFinite DEF Price
  <1>2. IsFiniteSet(A) /\ IsFiniteSet(B)
    BY SetsFinite
  <1>3. SumFunctionOnSet(Price, A \cup B)
          = SumFunctionOnSet(Price, A) + SumFunctionOnSet(Price, B)
    BY <1>1, <1>2, SumUnion
  <1>4. A \cup B \in SUBSET Items
    OBVIOUS
  <1> QED BY <1>3, <1>4, WorthSum

\* Lines are worth one each, and offsets minus one.
LEMMA WorthSigned ==
    ASSUME NEW A \in SUBSET Items
    PROVE  /\ Worth(A) = Cardinality(Positive(A)) - Cardinality(Negative(A))
           /\ Cardinality(Positive(A)) \in Nat /\ Cardinality(Negative(A)) \in Nat
  <1> DEFINE P == Positive(A)
             N == Negative(A)
  <1>1. /\ P \in SUBSET Items /\ N \in SUBSET Items /\ P \cap N = {} /\ P \cup N = A
        /\ \A i \in P : Price[i] = 1
        /\ \A i \in N : Price[i] = -1
    BY ItemsFinite DEF Positive, Negative, Price
  <1> HIDE DEF P, N
  <1>2. /\ IsFiniteSet(P) /\ IsFiniteSet(N)
        /\ Cardinality(P) \in Nat /\ Cardinality(N) \in Nat
    BY <1>1, SetsFinite
  <1>3. SumFunctionOnSet(Price, P) = 1 * Cardinality(P)
    BY <1>1, <1>2, SumCount
  <1>4. SumFunctionOnSet(Price, N) = -1 * Cardinality(N)
    BY <1>1, <1>2, SumCount
  <1>5. Worth(P) = Cardinality(P) /\ Worth(N) = 0 - Cardinality(N)
    BY <1>1, <1>2, <1>3, <1>4, WorthSum
  <1>6. Worth(P \cup N) = Worth(P) + Worth(N)
    BY <1>1, WorthUnion
  <1>7. Worth(A) = Cardinality(P) - Cardinality(N)
    BY <1>1, <1>2, <1>5, <1>6
  <1> QED BY <1>2, <1>7 DEF P, N

\* Sets apart are counted apart.
LEMMA CountApart ==
    ASSUME NEW A, NEW B, IsFiniteSet(A), IsFiniteSet(B), A \cap B = {}
    PROVE  /\ Cardinality(A \cup B) = Cardinality(A) + Cardinality(B)
           /\ Cardinality(A) \in Nat /\ Cardinality(B) \in Nat
  <1>1. Cardinality(A \cap B) = 0
    BY FS_EmptySet
  <1>2. Cardinality(A) \in Nat /\ Cardinality(B) \in Nat
    BY FS_CardinalityType
  <1>3. Cardinality(A \cup B) = Cardinality(A) + Cardinality(B) - Cardinality(A \cap B)
    BY FS_Union
  <1> QED BY <1>1, <1>2, <1>3

-----------------------------------------------------------------------------
(* How the books move with a step. *)

LEMMA BooksSets ==
    /\ Gone \in SUBSET Items /\ Used \in SUBSET Adjustments /\ Backing \in SUBSET Items
    /\ \A c : Batched(c) \in SUBSET Items /\ Settled(c) \in SUBSET Items
              /\ Applied(c) \in SUBSET Adjustments
  BY DEF Gone, Used, Backing, Negative, Batched, Settled, Applied, LinesOf

LEMMA BooksSetsNext ==
    /\ Gone' \in SUBSET Items /\ Used' \in SUBSET Adjustments /\ Backing' \in SUBSET Items
    /\ \A c : /\ Batched(c)' \in SUBSET Items /\ Settled(c)' \in SUBSET Items
              /\ Applied(c)' \in SUBSET Adjustments
  BY DEF Gone, Used, Backing, Negative, Batched, Settled, Applied, LinesOf

LEMMA BooksInts ==
    ASSUME TypeOK, NEW c \in Cycles
    PROVE  /\ Entry(c) \in Int /\ Borrowed(c) \in Nat
           /\ batch[c].lines \in Int /\ batch[c].net \in Int /\ batch[c].carry \in Int
           /\ batch[c].opening \in Int /\ journal[c].drained \in Int
  <1>1. batch[c] \in BatchType /\ journal[c] \in JournalType
    BY DEF TypeOK
  <1>2. /\ batch[c].lines \in Int /\ batch[c].net \in Int /\ batch[c].carry \in Int
        /\ batch[c].opening \in Int /\ journal[c].drained \in Int
    BY <1>1 DEF BatchType, JournalType
  <1> QED BY <1>2 DEF Entry, Borrowed, Deficit

LEMMA BooksIntsNext ==
    ASSUME TypeOK', NEW c \in Cycles
    PROVE  /\ Entry(c)' \in Int /\ Borrowed(c)' \in Nat
           /\ batch'[c].lines \in Int /\ batch'[c].net \in Int /\ batch'[c].carry \in Int
           /\ batch'[c].opening \in Int /\ journal'[c].drained \in Int
  <1>1. batch'[c] \in BatchType /\ journal'[c] \in JournalType
    BY DEF TypeOK
  <1>2. /\ batch'[c].lines \in Int /\ batch'[c].net \in Int /\ batch'[c].carry \in Int
        /\ batch'[c].opening \in Int /\ journal'[c].drained \in Int
    BY <1>1 DEF BatchType, JournalType
  <1> QED BY <1>2 DEF Entry, Borrowed, Deficit

\* The parts of the gap are integers, and what one batch contributes moves it.
LEMMA GapStep ==
    ASSUME TypeOK, TypeOK', NEW k \in Cycles, \A c \in Cycles \ {k} : Entry(c)' = Entry(c)
    PROVE  /\ Gap' = Gap + Worth(Gone') - Worth(Gone) + Cardinality(Used') - Cardinality(Used)
                       - Entry(k)' + Entry(k)
           /\ Gap \in Int /\ Worth(Gone) \in Int /\ Worth(Gone') \in Int
           /\ Cardinality(Used) \in Nat /\ Cardinality(Used') \in Nat
           /\ Entry(k) \in Int /\ Entry(k)' \in Int
  <1> DEFINE f == [c \in Cycles |-> Entry(c)]
             g == [c \in Cycles |-> Entry(c)']
  <1>1. f \in [Cycles -> Int] /\ g \in [Cycles -> Int] /\ \A c \in Cycles \ {k} : g[c] = f[c]
    BY BooksInts, BooksIntsNext
  <1>2. f[k] = Entry(k) /\ g[k] = Entry(k)'
    OBVIOUS
  <1>3. Gap = Worth(Gone) + Cardinality(Used) - SumFunction(f)
    BY DEF Gap
  <1>4. Gap' = Worth(Gone') + Cardinality(Used') - SumFunction(g)
    BY DEF Gap
  <1>5. IsFiniteSet(Cycles)
    BY PayoutAssumption
  <1> HIDE DEF f, g
  <1>6. /\ SumFunction(g) = SumFunction(f) - f[k] + g[k]
        /\ SumFunction(f) \in Int /\ SumFunction(g) \in Int
    BY <1>1, <1>5, SumMoved
  <1>7. /\ Worth(Gone) \in Int /\ Worth(Gone') \in Int
        /\ Cardinality(Used) \in Nat /\ Cardinality(Used') \in Nat
    <2>1. Gone' \in SUBSET Items /\ Used' \in SUBSET Adjustments
      BY BooksSetsNext
    <2> QED BY <2>1, BooksSets, WorthSum, SetsFinite
  <1>8. Entry(k) \in Int /\ Entry(k)' \in Int
    BY BooksInts, BooksIntsNext
  <1> QED BY <1>2, <1>3, <1>4, <1>6, <1>7, <1>8

LEMMA GapKept ==
    ASSUME TypeOK, TypeOK', Gone' = Gone, Used' = Used, \A c \in Cycles : Entry(c)' = Entry(c)
    PROVE  Gap' = Gap
  <1>1. [c \in Cycles |-> Entry(c)'] = [c \in Cycles |-> Entry(c)]
    OBVIOUS
  <1>2. SumFunction([c \in Cycles |-> Entry(c)'])
          = SumFunction([c \in Cycles |-> Entry(c)])
    BY <1>1
  <1> QED BY <1>2 DEF Gap

\* The same for the balances below zero.
LEMMA BorrowingsStep ==
    ASSUME TypeOK, TypeOK', NEW k \in Cycles,
           \A c \in Cycles \ {k} : Borrowed(c)' = Borrowed(c)
    PROVE  /\ Borrowings' = Borrowings - Borrowed(k) + Borrowed(k)'
           /\ Borrowings \in Int /\ Borrowed(k) \in Nat /\ Borrowed(k)' \in Nat
           /\ Cardinality(Backing) \in Nat /\ Cardinality(Backing') \in Nat
  <1> DEFINE f == [c \in Cycles |-> Borrowed(c)]
             g == [c \in Cycles |-> Borrowed(c)']
  <1>1. f \in [Cycles -> Int] /\ g \in [Cycles -> Int] /\ \A c \in Cycles \ {k} : g[c] = f[c]
    BY BooksInts, BooksIntsNext
  <1>2. f[k] = Borrowed(k) /\ g[k] = Borrowed(k)'
    OBVIOUS
  <1>3. Borrowings = SumFunction(f) /\ Borrowings' = SumFunction(g)
    BY DEF Borrowings
  <1>5. IsFiniteSet(Cycles)
    BY PayoutAssumption
  <1> HIDE DEF f, g
  <1>6. /\ SumFunction(g) = SumFunction(f) - f[k] + g[k]
        /\ SumFunction(f) \in Int /\ SumFunction(g) \in Int
    BY <1>1, <1>5, SumMoved
  <1>7. Borrowed(k) \in Nat /\ Borrowed(k)' \in Nat
    BY BooksInts, BooksIntsNext
  <1>8. Cardinality(Backing) \in Nat /\ Cardinality(Backing') \in Nat
    <2>1. Backing' \in SUBSET Items
      BY BooksSetsNext
    <2> QED BY <2>1, BooksSets, SetsFinite
  <1> QED BY <1>2, <1>3, <1>6, <1>7, <1>8

LEMMA BorrowingsKept ==
    ASSUME TypeOK, TypeOK', \A c \in Cycles : Borrowed(c)' = Borrowed(c),
           Backing \subseteq Backing'
    PROVE  /\ Borrowings' = Borrowings
           /\ Cardinality(Backing) <= Cardinality(Backing')
           /\ Borrowings \in Int
           /\ Cardinality(Backing) \in Nat /\ Cardinality(Backing') \in Nat
  <1>1. [c \in Cycles |-> Borrowed(c)'] = [c \in Cycles |-> Borrowed(c)]
    OBVIOUS
  <1>2. SumFunction([c \in Cycles |-> Borrowed(c)'])
          = SumFunction([c \in Cycles |-> Borrowed(c)])
    BY <1>1
  <1>3. Borrowings' = Borrowings
    BY <1>2 DEF Borrowings
  <1>4. Borrowings \in Int
    <2> DEFINE f == [c \in Cycles |-> Borrowed(c)]
    <2>1. (\A c \in Cycles : f[c] \in Int) /\ DOMAIN f = Cycles
      BY BooksInts
    <2>2. Borrowings = SumFunctionOnSet(f, Cycles)
      BY <2>1 DEF Borrowings, SumFunction
    <2> HIDE DEF f
    <2> QED BY <2>1, <2>2, SumInt, PayoutAssumption
  <1>5. Backing' \in SUBSET Items
    BY BooksSetsNext
  <1>6. Cardinality(Backing) \in Nat /\ Cardinality(Backing') \in Nat /\ IsFiniteSet(Backing')
    BY <1>5, BooksSets, SetsFinite
  <1>7. Cardinality(Backing) <= Cardinality(Backing')
    BY <1>6, FS_Subset
  <1> QED BY <1>3, <1>4, <1>6, <1>7

-----------------------------------------------------------------------------
(* The share of one batch in them. *)

GoneOf(c) == Settled(c) \cup IF Pinned(c) THEN {} ELSE Batched(c)
UsedOf(c) == IF Pinned(c) THEN {} ELSE Applied(c)
Share(c) == Worth(GoneOf(c)) + Cardinality(UsedOf(c)) - Entry(c)
BackingOf(c) ==
    Negative((IF batch[c].state \in {"draft", "cancelled"} THEN Settled(c) ELSE {})
              \cup (IF batch[c].carry # 0 THEN Batched(c) ELSE {}))

\* A step leaves a batch, its lines, its adjustments and its journal alone.
Holds(c) ==
    /\ Batched(c)' = Batched(c) /\ Settled(c)' = Settled(c) /\ Applied(c)' = Applied(c)
    /\ journal'[c] = journal[c]
Keeps(c) == SameFace(batch'[c], batch[c]) /\ Holds(c)

\* Two records are at the same stage with a batch.
SameStage(d, e, c) ==
    \A steps \in {Computing, Posting, Unwinding} : On(d, c, steps) <=> On(e, c, steps)

LEMMA ShareKept ==
    ASSUME NEW c \in Cycles, Keeps(c)
    PROVE  /\ Pinned(c)' = Pinned(c) /\ Live(c)' = Live(c) /\ Standing(c)' = Standing(c)
           /\ GoneOf(c)' = GoneOf(c) /\ UsedOf(c)' = UsedOf(c) /\ BackingOf(c)' = BackingOf(c)
           /\ Entry(c)' = Entry(c) /\ Borrowed(c)' = Borrowed(c)
  <1>1. /\ batch'[c].state = batch[c].state /\ batch'[c].carry = batch[c].carry
        /\ batch'[c].opening = batch[c].opening /\ journal'[c] = journal[c]
        /\ Batched(c)' = Batched(c) /\ Settled(c)' = Settled(c) /\ Applied(c)' = Applied(c)
    BY DEF Keeps, Holds, SameFace, SameSums
  <1>2. Pinned(c)' = Pinned(c) /\ Live(c)' = Live(c) /\ Standing(c)' = Standing(c)
    <2>1. Live(c)' <=> Live(c)
      BY <1>1 DEF Live
    <2>2. Pinned(c)' <=> Pinned(c)
      BY <1>1, <2>1 DEF Pinned
    <2>3. Standing(c)' <=> Standing(c)
      BY <1>1 DEF Standing
    <2>4. Live(c) \in BOOLEAN /\ Pinned(c) \in BOOLEAN /\ Live(c)' \in BOOLEAN /\ Pinned(c)' \in BOOLEAN
      BY DEF Live, Pinned
    <2>5. Standing(c) = Standing(c)'
      BY <1>1 DEF Standing
    <2> QED BY <2>1, <2>2, <2>4, <2>5
  <1>3. GoneOf(c)' = GoneOf(c) /\ UsedOf(c)' = UsedOf(c)
    BY <1>1, <1>2 DEF GoneOf, UsedOf
  <1>4. BackingOf(c)' = BackingOf(c)
    BY <1>1 DEF BackingOf, Negative
  <1>5. Entry(c)' = Entry(c)
    BY <1>1, <1>2 DEF Entry
  <1>6. Borrowed(c)' = Borrowed(c)
    BY <1>1 DEF Borrowed
  <1> QED BY <1>2, <1>3, <1>4, <1>5, <1>6

\* What is gone, used or backing belongs to one batch each.
LEMMA GoneParts ==
    ASSUME TypeOK, Placed
    PROVE  /\ \A i : i \in Gone <=> \E c \in Cycles : i \in GoneOf(c)
           /\ \A a : a \in Used <=> \E c \in Cycles : a \in UsedOf(c)
           /\ \A i : i \in Backing <=> \E c \in Cycles : i \in BackingOf(c)
           /\ \A c, k \in Cycles : c # k =>
                 /\ GoneOf(c) \cap GoneOf(k) = {} /\ UsedOf(c) \cap UsedOf(k) = {}
                 /\ BackingOf(c) \cap BackingOf(k) = {}
           /\ \A c \in Cycles : /\ GoneOf(c) \in SUBSET Items /\ UsedOf(c) \in SUBSET Adjustments
                                /\ BackingOf(c) \in SUBSET Items
  <1>1. /\ \A i \in Items : line[i].state \in {"batched", "paid"} => line[i].cycle \in Cycles
        /\ \A a \in Adjustments : adjusted[a].cycle \in Cycles \cup {NoCycle}
        /\ NoCycle \notin Cycles
    <2>1. \A a \in Adjustments : adjusted[a].cycle \in Cycles \cup {NoCycle}
      BY DEF TypeOK
    <2> QED BY <2>1, PayoutAssumption DEF Placed, NoCycle
  <1>2. \A i : i \in Gone <=> \E c \in Cycles : i \in GoneOf(c)
    BY <1>1 DEF Gone, GoneOf, Settled, Batched, LinesOf
  <1>3. \A a : a \in Used <=> \E c \in Cycles : a \in UsedOf(c)
    BY <1>1 DEF Used, UsedOf, Applied
  <1>4. \A i : i \in Backing <=> \E c \in Cycles : i \in BackingOf(c)
    BY <1>1 DEF Backing, BackingOf, Negative, Settled, Batched, LinesOf
  <1>5. \A c, k \in Cycles : c # k =>
                 /\ GoneOf(c) \cap GoneOf(k) = {} /\ UsedOf(c) \cap UsedOf(k) = {}
                 /\ BackingOf(c) \cap BackingOf(k) = {}
    BY DEF GoneOf, UsedOf, BackingOf, Negative, Settled, Batched, LinesOf, Applied
  <1>6. \A c \in Cycles : /\ GoneOf(c) \in SUBSET Items /\ UsedOf(c) \in SUBSET Adjustments
                          /\ BackingOf(c) \in SUBSET Items
    BY DEF GoneOf, UsedOf, BackingOf, Negative, Settled, Batched, LinesOf, Applied
  <1> QED BY <1>2, <1>3, <1>4, <1>5, <1>6

LEMMA GonePartsNext ==
    ASSUME TypeOK', Placed'
    PROVE  /\ \A i : i \in Gone' <=> \E c \in Cycles : i \in GoneOf(c)'
           /\ \A a : a \in Used' <=> \E c \in Cycles : a \in UsedOf(c)'
           /\ \A i : i \in Backing' <=> \E c \in Cycles : i \in BackingOf(c)'
           /\ \A c, k \in Cycles : c # k =>
                 /\ GoneOf(c)' \cap GoneOf(k)' = {} /\ UsedOf(c)' \cap UsedOf(k)' = {}
                 /\ BackingOf(c)' \cap BackingOf(k)' = {}
           /\ \A c \in Cycles : /\ GoneOf(c)' \in SUBSET Items /\ UsedOf(c)' \in SUBSET Adjustments
                                /\ BackingOf(c)' \in SUBSET Items
  <1>1. /\ \A i \in Items : line'[i].state \in {"batched", "paid"} => line'[i].cycle \in Cycles
        /\ \A a \in Adjustments : adjusted'[a].cycle \in Cycles \cup {NoCycle}
        /\ NoCycle \notin Cycles
    <2>1. \A a \in Adjustments : adjusted'[a].cycle \in Cycles \cup {NoCycle}
      BY DEF TypeOK
    <2> QED BY <2>1, PayoutAssumption DEF Placed, NoCycle
  <1>2. \A i : i \in Gone' <=> \E c \in Cycles : i \in GoneOf(c)'
    BY <1>1 DEF Gone, GoneOf, Settled, Batched, LinesOf
  <1>3. \A a : a \in Used' <=> \E c \in Cycles : a \in UsedOf(c)'
    BY <1>1 DEF Used, UsedOf, Applied
  <1>4. \A i : i \in Backing' <=> \E c \in Cycles : i \in BackingOf(c)'
    BY <1>1 DEF Backing, BackingOf, Negative, Settled, Batched, LinesOf
  <1>5. \A c, k \in Cycles : c # k =>
                 /\ GoneOf(c)' \cap GoneOf(k)' = {} /\ UsedOf(c)' \cap UsedOf(k)' = {}
                 /\ BackingOf(c)' \cap BackingOf(k)' = {}
    BY DEF GoneOf, UsedOf, BackingOf, Negative, Settled, Batched, LinesOf, Applied
  <1>6. \A c \in Cycles : /\ GoneOf(c)' \in SUBSET Items /\ UsedOf(c)' \in SUBSET Adjustments
                          /\ BackingOf(c)' \in SUBSET Items
    BY DEF GoneOf, UsedOf, BackingOf, Negative, Settled, Batched, LinesOf, Applied
  <1> QED BY <1>2, <1>3, <1>4, <1>5, <1>6

\* So the books move with the share of the batch a step changes.
LEMMA GapMoves ==
    ASSUME TypeOK, TypeOK', Placed, Placed', NEW k \in Cycles, \A c \in Cycles \ {k} : Keeps(c)
    PROVE  /\ Gap' = Gap + Share(k)' - Share(k)
           /\ Gap \in Int /\ Share(k) \in Int /\ Share(k)' \in Int
  <1>1. \A c \in Cycles \ {k} : /\ Entry(c)' = Entry(c) /\ GoneOf(c)' = GoneOf(c)
                                /\ UsedOf(c)' = UsedOf(c)
    BY ShareKept
  <1>2. /\ Gap' = Gap + Worth(Gone') - Worth(Gone) + Cardinality(Used') - Cardinality(Used)
                       - Entry(k)' + Entry(k)
        /\ Gap \in Int /\ Worth(Gone) \in Int /\ Worth(Gone') \in Int
        /\ Cardinality(Used) \in Nat /\ Cardinality(Used') \in Nat
        /\ Entry(k) \in Int /\ Entry(k)' \in Int
    BY <1>1, GapStep
  <1>3. PICK G : /\ Gone = G \cup GoneOf(k) /\ G \cap GoneOf(k) = {}
                 /\ Gone' = G \cup GoneOf(k)' /\ G \cap GoneOf(k)' = {}
    <2>1. ASSUME NEW x \in Gone \ GoneOf(k) PROVE x \in Gone' \ GoneOf(k)'
      <3>1. PICK c \in Cycles \ {k} : x \in GoneOf(c)'
        BY <1>1, GoneParts
      <3> QED BY <3>1, GonePartsNext
    <2>2. ASSUME NEW x \in Gone' \ GoneOf(k)' PROVE x \in Gone \ GoneOf(k)
      <3>1. PICK c \in Cycles \ {k} : x \in GoneOf(c)
        BY <1>1, GonePartsNext
      <3> QED BY <3>1, GoneParts
    <2>3. GoneOf(k) \subseteq Gone /\ GoneOf(k)' \subseteq Gone'
      BY GoneParts, GonePartsNext
    <2> QED BY <2>1, <2>2, <2>3
  <1>4. PICK U : /\ Used = U \cup UsedOf(k) /\ U \cap UsedOf(k) = {}
                 /\ Used' = U \cup UsedOf(k)' /\ U \cap UsedOf(k)' = {}
    <2>1. ASSUME NEW x \in Used \ UsedOf(k) PROVE x \in Used' \ UsedOf(k)'
      <3>1. PICK c \in Cycles \ {k} : x \in UsedOf(c)'
        BY <1>1, GoneParts
      <3> QED BY <3>1, GonePartsNext
    <2>2. ASSUME NEW x \in Used' \ UsedOf(k)' PROVE x \in Used \ UsedOf(k)
      <3>1. PICK c \in Cycles \ {k} : x \in UsedOf(c)
        BY <1>1, GonePartsNext
      <3> QED BY <3>1, GoneParts
    <2>3. UsedOf(k) \subseteq Used /\ UsedOf(k)' \subseteq Used'
      BY GoneParts, GonePartsNext
    <2> QED BY <2>1, <2>2, <2>3
  <1>5. /\ Worth(Gone) = Worth(G) + Worth(GoneOf(k)) /\ Worth(Gone') = Worth(G) + Worth(GoneOf(k)')
        /\ Worth(G) \in Int /\ Worth(GoneOf(k)) \in Int /\ Worth(GoneOf(k)') \in Int
    <2>1. G \in SUBSET Items /\ GoneOf(k) \in SUBSET Items /\ GoneOf(k)' \in SUBSET Items
      BY <1>3, BooksSets, GoneParts, GonePartsNext
    <2> QED BY <1>3, <2>1, WorthUnion
  <1>6. /\ Cardinality(Used) = Cardinality(U) + Cardinality(UsedOf(k))
        /\ Cardinality(Used') = Cardinality(U) + Cardinality(UsedOf(k)')
        /\ Cardinality(U) \in Nat /\ Cardinality(UsedOf(k)) \in Nat /\ Cardinality(UsedOf(k)') \in Nat
    <2>1. U \in SUBSET Adjustments /\ UsedOf(k) \in SUBSET Adjustments
          /\ UsedOf(k)' \in SUBSET Adjustments
      BY <1>4, BooksSets, GoneParts, GonePartsNext
    <2>2. IsFiniteSet(U) /\ IsFiniteSet(UsedOf(k)) /\ IsFiniteSet(UsedOf(k)')
      BY <2>1, SetsFinite
    <2> QED BY <1>4, <2>2, CountApart
  <1> QED BY <1>2, <1>5, <1>6 DEF Share

LEMMA BorrowingsMove ==
    ASSUME TypeOK, TypeOK', Placed, Placed', NEW k \in Cycles, \A c \in Cycles \ {k} : Keeps(c)
    PROVE  /\ Borrowings' = Borrowings - Borrowed(k) + Borrowed(k)'
           /\ Cardinality(Backing') = Cardinality(Backing) - Cardinality(BackingOf(k))
                                        + Cardinality(BackingOf(k)')
           /\ Borrowings \in Int /\ Borrowed(k) \in Nat /\ Borrowed(k)' \in Nat
           /\ Cardinality(Backing) \in Nat
           /\ Cardinality(BackingOf(k)) \in Nat /\ Cardinality(BackingOf(k)') \in Nat
  <1>1. \A c \in Cycles \ {k} : Borrowed(c)' = Borrowed(c) /\ BackingOf(c)' = BackingOf(c)
    BY ShareKept
  <1>2. /\ Borrowings' = Borrowings - Borrowed(k) + Borrowed(k)'
        /\ Borrowings \in Int /\ Borrowed(k) \in Nat /\ Borrowed(k)' \in Nat
        /\ Cardinality(Backing) \in Nat /\ Cardinality(Backing') \in Nat
    BY <1>1, BorrowingsStep
  <1>3. PICK U : /\ Backing = U \cup BackingOf(k) /\ U \cap BackingOf(k) = {}
                 /\ Backing' = U \cup BackingOf(k)' /\ U \cap BackingOf(k)' = {}
    <2>1. ASSUME NEW x \in Backing \ BackingOf(k) PROVE x \in Backing' \ BackingOf(k)'
      <3>1. PICK c \in Cycles \ {k} : x \in BackingOf(c)'
        BY <1>1, GoneParts
      <3> QED BY <3>1, GonePartsNext
    <2>2. ASSUME NEW x \in Backing' \ BackingOf(k)' PROVE x \in Backing \ BackingOf(k)
      <3>1. PICK c \in Cycles \ {k} : x \in BackingOf(c)
        BY <1>1, GonePartsNext
      <3> QED BY <3>1, GoneParts
    <2>3. BackingOf(k) \subseteq Backing /\ BackingOf(k)' \subseteq Backing'
      BY GoneParts, GonePartsNext
    <2> QED BY <2>1, <2>2, <2>3
  <1>4. /\ Cardinality(Backing) = Cardinality(U) + Cardinality(BackingOf(k))
        /\ Cardinality(Backing') = Cardinality(U) + Cardinality(BackingOf(k)')
        /\ Cardinality(U) \in Nat
        /\ Cardinality(BackingOf(k)) \in Nat /\ Cardinality(BackingOf(k)') \in Nat
    <2>1. U \in SUBSET Items /\ BackingOf(k) \in SUBSET Items /\ BackingOf(k)' \in SUBSET Items
      BY <1>3, BooksSets, GoneParts, GonePartsNext
    <2>2. IsFiniteSet(U) /\ IsFiniteSet(BackingOf(k)) /\ IsFiniteSet(BackingOf(k)')
      BY <2>1, SetsFinite
    <2> QED BY <1>3, <2>2, CountApart
  <1> QED BY <1>2, <1>4

-----------------------------------------------------------------------------
(* What holds of the batches a step leaves alone, and how a step is put together. *)

LEMMA CycleKept ==
    ASSUME NEW c \in Cycles, NEW d, NEW e, Keeps(c), SameStage(d, e, c), CycleOk(c, d),
           provider'[c] \in {"moving", "moved"} => provider[c] \in {"moving", "moved"}
    PROVE  CycleOk(c, e)'
  <1>1. /\ On(d, c, Computing) <=> On(e, c, Computing)
        /\ On(d, c, Posting) <=> On(e, c, Posting)
        /\ On(d, c, Unwinding) <=> On(e, c, Unwinding)
    BY DEF SameStage
  <1>2. /\ batch'[c].state = batch[c].state /\ batch'[c].carry = batch[c].carry
        /\ batch'[c].opening = batch[c].opening /\ batch'[c].lines = batch[c].lines
        /\ batch'[c].net = batch[c].net /\ journal'[c] = journal[c]
        /\ Batched(c)' = Batched(c) /\ Settled(c)' = Settled(c) /\ Applied(c)' = Applied(c)
    BY DEF Keeps, Holds, SameFace, SameSums
  <1>3. FaceOk(c)'
    BY <1>2 DEF CycleOk, FaceOk, Whole
  <1>4. LinesOk(c, e)'
    BY <1>1, <1>2 DEF CycleOk, LinesOk, Whole, Filled, On
  <1>5. JournalOk(c, e)'
    BY <1>1, <1>2, ShareKept DEF CycleOk, JournalOk, On
  <1> QED BY <1>3, <1>4, <1>5 DEF CycleOk

\* Money that was sent stays what it was.
LEMMA OutgoingLess ==
    ASSUME TypeOK, TypeOK', \A c \in Cycles : batch[c].net >= 0,
           \A c \in Sent' : c \in Sent /\ batch'[c].net = batch[c].net
    PROVE  Outgoing' <= Outgoing /\ Outgoing \in Int /\ Outgoing' \in Int
  <1> DEFINE f == [c \in Sent |-> batch[c].net]
             g == [c \in Sent' |-> batch'[c].net]
             F == [c \in Cycles |-> IF c \in Sent THEN batch[c].net ELSE 0]
             G == [c \in Cycles |-> IF c \in Sent' THEN batch'[c].net ELSE 0]
  <1>1. Sent \in SUBSET Cycles /\ Sent' \in SUBSET Cycles /\ IsFiniteSet(Cycles)
    BY PayoutAssumption DEF Sent
  <1>2. \A c \in Cycles : batch[c].net \in Int /\ batch'[c].net \in Int
    BY BooksInts, BooksIntsNext
  <1>3. Outgoing = SumFunctionOnSet(f, Sent) /\ Outgoing' = SumFunctionOnSet(g, Sent')
    BY DEF Outgoing, SumFunction
  <1>4. /\ \A c \in Sent : f[c] \in Int /\ F[c] = f[c]
        /\ \A c \in Cycles \ Sent : F[c] = 0
        /\ \A c \in Sent' : g[c] \in Int /\ G[c] = g[c]
        /\ \A c \in Cycles \ Sent' : G[c] = 0
        /\ \A c \in Cycles : G[c] \in Int /\ F[c] \in Int /\ G[c] <= F[c]
    BY <1>1, <1>2
  <1> HIDE DEF f, g, F, G
  <1>5. SumFunctionOnSet(f, Sent) = SumFunctionOnSet(F, Cycles)
    BY <1>1, <1>4, SumWithin
  <1>6. PICK T : T = Sent'
    OBVIOUS
  <1>7. SumFunctionOnSet(g, T) = SumFunctionOnSet(G, Cycles)
    <2>1. T \in SUBSET Cycles /\ (\A c \in T : g[c] \in Int /\ G[c] = g[c])
          /\ \A c \in Cycles \ T : G[c] = 0
      BY <1>1, <1>4, <1>6
    <2> QED BY <1>1, <2>1, SumWithin
  <1>8. SumFunctionOnSet(G, Cycles) <= SumFunctionOnSet(F, Cycles)
    BY <1>1, <1>4, SumAtMost
  <1>9. SumFunctionOnSet(G, Cycles) \in Int /\ SumFunctionOnSet(F, Cycles) \in Int
    BY <1>1, <1>4, SumInt
  <1> QED BY <1>3, <1>5, <1>6, <1>7, <1>8, <1>9

\* A record that is back home knows nothing and owes nothing.
LEMMA AtHome ==
    /\ StepOk(Idle) /\ GapOf(Idle) = 0 /\ Slack(Idle) = 0
    /\ \A c, steps : On(Idle, c, steps) => "idle" \in steps
  <1>1. Idle.at = "idle"
    BY DEF Idle
  <1>2. StepOk(Idle)
    BY <1>1 DEF StepOk, ReadOk, ItemsOk, ComputeOk, LeaveOk, Unread, Computing
  <1>3. GapOf(Idle) = 0
    BY <1>1 DEF GapOf, Posting
  <1>4. Slack(Idle) = 0
    BY <1>1 DEF Slack, Unbacked
  <1> QED BY <1>1, <1>2, <1>3, <1>4 DEF On

LEMMA AtHomeNext ==
    StepOk(Idle)' /\ GapOf(Idle)' = 0 /\ Slack(Idle)' = 0
  <1>1. Idle.at = "idle"
    BY DEF Idle
  <1>2. StepOk(Idle)'
    BY <1>1 DEF StepOk, ReadOk, ItemsOk, ComputeOk, LeaveOk, Unread, Computing
  <1>3. GapOf(Idle)' = 0
    BY <1>1 DEF GapOf, Posting
  <1>4. Slack(Idle)' = 0
    BY <1>1 DEF Slack, Unbacked
  <1> QED BY <1>2, <1>3, <1>4

LEMMA GrantedInt ==
    /\ Granted \in Int
    /\ (\A a \in Adjustments : adjusted'[a].added = adjusted[a].added) => Granted' = Granted
  <1>1. {a \in Adjustments : adjusted[a].added} \in SUBSET Adjustments
    OBVIOUS
  <1>2. Cardinality({a \in Adjustments : adjusted[a].added}) \in Nat
    BY <1>1, SetsFinite
  <1>3. Cardinality(Lines) \in Nat
    BY PayoutAssumption, FS_CardinalityType
  <1>4. ASSUME \A a \in Adjustments : adjusted'[a].added = adjusted[a].added
        PROVE  Granted' = Granted
    <2>1. {a \in Adjustments : adjusted'[a].added} = {a \in Adjustments : adjusted[a].added}
      BY <1>4
    <2> QED BY <2>1 DEF Granted
  <1> QED BY <1>2, <1>3, <1>4 DEF Granted

\* A step that changes one batch, whose share moves as the step says.
LEMMA BooksStep ==
    ASSUME TypeOK, TypeOK', NEW d, NEW e, NEW k \in Cycles, BooksAt(d),
           \A c \in Cycles \ {k} : Keeps(c) /\ SameStage(d, e, c),
           Placed', CycleOk(k, e)', StepOk(e)',
           GapOf(e)' = GapOf(d) + Share(k)' - Share(k),
           Slack(d) \in Int, Slack(e)' \in Int,
           Borrowed(k)' + Cardinality(BackingOf(k)) + Slack(d)
               <= Borrowed(k) + Cardinality(BackingOf(k)') + Slack(e)',
           provider' = provider,
           k \in Sent => batch'[k].net = batch[k].net,
           \A a \in Adjustments : adjusted'[a].added = adjusted[a].added
    PROVE  BooksAt(e)'
  <1>1. Placed /\ \A c \in Cycles : CycleOk(c, d)
    BY DEF BooksAt, OrderAt
  <1>2. OrderAt(e)'
    <2>1. ASSUME NEW c \in Cycles \ {k} PROVE CycleOk(c, e)'
      BY <1>1, CycleKept
    <2>2. \A c \in Cycles : CycleOk(c, e)'
      BY <2>1
    <2> QED BY <2>2 DEF OrderAt
  <1>3. Gap' = GapOf(e)'
    <2>1. Gap' = Gap + Share(k)' - Share(k) /\ Gap = GapOf(d)
      BY <1>1, GapMoves DEF BooksAt
    <2> QED BY <2>1
  <1>4. Borrowings' <= Cardinality(Backing') + Slack(e)'
    <2>1. Borrowings <= Cardinality(Backing) + Slack(d)
      BY DEF BooksAt
    <2>2. /\ Borrowings' = Borrowings - Borrowed(k) + Borrowed(k)'
          /\ Cardinality(Backing') = Cardinality(Backing) - Cardinality(BackingOf(k))
                                        + Cardinality(BackingOf(k)')
          /\ Borrowings \in Int /\ Borrowed(k) \in Nat /\ Borrowed(k)' \in Nat
          /\ Cardinality(Backing) \in Nat
          /\ Cardinality(BackingOf(k)) \in Nat /\ Cardinality(BackingOf(k)') \in Nat
      BY <1>1, BorrowingsMove
    <2> QED BY <2>1, <2>2
  <1>5. Outgoing' <= Granted'
    <2>1. \A c \in Cycles : batch[c].net >= 0
      BY <1>1 DEF CycleOk, FaceOk
    <2>2. \A c \in Sent' : c \in Sent /\ batch'[c].net = batch[c].net
      BY DEF Sent, Keeps, SameFace, SameSums
    <2>3. Outgoing' <= Outgoing /\ Outgoing \in Int /\ Outgoing' \in Int
      BY <2>1, <2>2, OutgoingLess
    <2>4. Granted' = Granted /\ Granted \in Int /\ Outgoing <= Granted
      BY GrantedInt DEF BooksAt
    <2> QED BY <2>3, <2>4
  <1> QED BY <1>2, <1>3, <1>4, <1>5 DEF BooksAt

\* A step that leaves the books and the lines behind them alone.
LEMMA BooksQuiet ==
    ASSUME TypeOK, TypeOK', NEW d, NEW e, BooksAt(d),
           \A c \in Cycles : Keeps(c) /\ SameStage(d, e, c),
           Placed', StepOk(e)',
           GapOf(e)' = GapOf(d), Slack(e)' = Slack(d),
           \A c \in Cycles : provider'[c] \in {"moving", "moved"} => provider[c] \in {"moving", "moved"},
           Granted' \in Int, Granted <= Granted'
    PROVE  BooksAt(e)'
  <1>1. Placed /\ \A c \in Cycles : CycleOk(c, d)
    BY DEF BooksAt, OrderAt
  <1>2. OrderAt(e)'
    <2>1. ASSUME NEW c \in Cycles PROVE CycleOk(c, e)'
      BY <1>1, CycleKept
    <2> QED BY <2>1 DEF OrderAt
  <1>k. \A c \in Cycles : /\ GoneOf(c)' = GoneOf(c) /\ UsedOf(c)' = UsedOf(c)
                          /\ BackingOf(c)' = BackingOf(c)
                          /\ Entry(c)' = Entry(c) /\ Borrowed(c)' = Borrowed(c)
    BY ShareKept
  <1>3. Gone' = Gone /\ Used' = Used /\ Backing' = Backing
    <2>1. \A i : i \in Gone' <=> i \in Gone
      BY <1>1, <1>k, GoneParts, GonePartsNext
    <2>2. \A i : i \in Used' <=> i \in Used
      BY <1>1, <1>k, GoneParts, GonePartsNext
    <2>3. \A i : i \in Backing' <=> i \in Backing
      BY <1>1, <1>k, GoneParts, GonePartsNext
    <2> QED BY <2>1, <2>2, <2>3
  <1>4. Gap' = GapOf(e)'
    <2>1. Gap' = Gap /\ Gap = GapOf(d)
      BY <1>k, <1>3, GapKept DEF BooksAt
    <2> QED BY <2>1
  <1>5. Borrowings' <= Cardinality(Backing') + Slack(e)'
    <2>1. Borrowings' = Borrowings /\ Borrowings <= Cardinality(Backing) + Slack(d)
      BY <1>k, <1>3, BorrowingsKept DEF BooksAt
    <2> QED BY <1>3, <2>1
  <1>6. Outgoing' <= Granted'
    <2>1. \A c \in Cycles : batch[c].net >= 0
      BY <1>1 DEF CycleOk, FaceOk
    <2>2. \A c \in Sent' : c \in Sent /\ batch'[c].net = batch[c].net
      BY DEF Sent, Keeps, SameFace, SameSums
    <2>3. Outgoing' <= Outgoing /\ Outgoing \in Int /\ Outgoing' \in Int
      BY <2>1, <2>2, OutgoingLess
    <2>4. Granted \in Int /\ Outgoing <= Granted
      BY GrantedInt DEF BooksAt
    <2> QED BY <2>3, <2>4
  <1> QED BY <1>2, <1>4, <1>5, <1>6 DEF BooksAt

LEMMA NowStep ==
    ASSUME TypeOK, NEW p \in Procs, Running \subseteq {p}, NEW e \in CallType,
           call' = [call EXCEPT ![p] = e], e.at # "idle" \/ e = Idle
    PROVE  Alone' /\ Now' = e
  <1>1. call'[p] = e /\ \A q \in Procs \ {p} : call'[q] = call[q]
    BY DEF TypeOK
  <1>2. Running' = {q \in Procs : call'[q].at # "idle"}
    BY DEF Running
  <1>3. Running' \subseteq {p}
    BY <1>1, <1>2 DEF Running
  <1>4. CASE e.at # "idle"
    <2>1. Running' = {p}
      BY <1>1, <1>2, <1>3, <1>4
    <2> QED BY <1>1, <2>1 DEF Now, Alone
  <1>5. CASE e = Idle
    <2>1. Running' = {}
      BY <1>1, <1>2, <1>3, <1>5 DEF Idle
    <2> QED BY <1>5, <2>1 DEF Now, Alone
  <1> QED BY <1>4, <1>5

LEMMA NowAlone ==
    ASSUME Alone, NEW p \in Procs, ~At(p, "idle")
    PROVE  Running = {p} /\ Now = call[p]
  BY DEF Alone, Running, At, Now

-----------------------------------------------------------------------------
(* Steps that leave the books alone. *)

\* A step of p ends in a record whose books hold.
GoesOn(p) ==
    \E e \in CallType : /\ call' = [call EXCEPT ![p] = e]
                        /\ e.at # "idle" \/ e = Idle
                        /\ BooksAt(e)'

LEMMA Calm ==
    ASSUME NEW d, d.at \notin Staged
    PROVE  /\ GapOf(d) = 0 /\ GapOf(d)' = 0 /\ Slack(d) = 0 /\ Slack(d)' = 0
           /\ \A c : \A steps \in {Computing, Posting, Unwinding} : ~On(d, c, steps)
  <1>1. /\ d.at \notin Computing \cup Posting \cup Unwinding
        /\ d.at \notin {"absorb", "consume", "pin", "apply", "unwind", "unwound", "restore"}
    BY DEF Staged, Computing, Unwinding
  <1>2. GapOf(d) = 0 /\ GapOf(d)' = 0
    BY <1>1 DEF GapOf
  <1>3. Slack(d) = 0 /\ Slack(d)' = 0
    BY <1>1 DEF Slack, Unbacked
  <1>4. \A c : \A steps \in {Computing, Posting, Unwinding} : ~On(d, c, steps)
    BY <1>1 DEF On
  <1> QED BY <1>2, <1>3, <1>4

LEMMA CalmStage ==
    ASSUME NEW d, NEW e, d.at \notin Staged, e.at \notin Staged
    PROVE  \A c : SameStage(d, e, c)
  BY Calm DEF SameStage

LEMMA IdleCalm == Idle.at \notin Staged
  BY DEF Idle, Staged, Computing, Posting, Unwinding

LEMMA FaceSame == \A b : SameFace(b, b)
  BY DEF SameFace, SameSums

LEMMA BookHolds ==
    ASSUME UNCHANGED Book
    PROVE  /\ \A c : Holds(c) /\ (Placed => Placed')
           /\ \A a \in Adjustments : adjusted'[a].added = adjusted[a].added
  BY DEF Book, Holds, Batched, Settled, LinesOf, Applied, Placed

\* Neither the lines nor the faces of the batches change.
LEMMA StillStep ==
    ASSUME TypeOK, TypeOK', NEW d, NEW e, BooksAt(d), UNCHANGED <<Book, provider>>,
           \A c \in Cycles : SameFace(batch'[c], batch[c]) /\ SameStage(d, e, c),
           StepOk(e)', GapOf(e)' = GapOf(d), Slack(d) = 0, Slack(e)' = 0
    PROVE  BooksAt(e)'
  <1>1. \A c \in Cycles : Keeps(c)
    BY BookHolds DEF Keeps
  <1>2. Placed'
    BY BookHolds DEF BooksAt, OrderAt
  <1>3. Granted' \in Int /\ Granted <= Granted'
    BY BookHolds, GrantedInt
  <1> QED BY <1>1, <1>2, <1>3, BooksQuiet

\* What a record claims stays true with the lines and the batches.
LEMMA StepSame ==
    ASSUME NEW e, StepOk(e), UNCHANGED <<line, batch, adjusted, provider>>
    PROVE  StepOk(e)'
  <1>1. ReadOk(e)'
    BY DEF StepOk, ReadOk, SameFace, SameSums
  <1>2. ItemsOk(e)'
    BY DEF StepOk, ItemsOk
  <1>3. ComputeOk(e)'
    BY DEF StepOk, ComputeOk, Batched, Settled, Applied, LinesOf, Pending, Whole
  <1>4. LeaveOk(e)'
    BY DEF StepOk, LeaveOk, Batched, Settled, Applied, LinesOf, Filled
  <1> QED BY <1>1, <1>2, <1>3, <1>4 DEF StepOk

\* A handler that has only read.
LEMMA FoundBooks ==
    ASSUME PayoutInv, PayoutInv', NEW p \in Procs, NEW e, call' = [call EXCEPT ![p] = e],
           NEW d, BooksAt(d), d.at \notin Staged,
           UNCHANGED <<line, batch, adjusted, journal, provider>>,
           e.at \notin Staged, e.at # "idle", StepOk(e)
    PROVE  GoesOn(p)
  <1>1. e \in CallType
    BY DEF PayoutInv, TypeOK
  <1>2. StepOk(e)'
    BY StepSame
  <1>3. BooksAt(e)'
    BY <1>2, Calm, CalmStage, FaceSame, StillStep DEF PayoutInv, Book
  <1> QED BY <1>1, <1>3 DEF GoesOn

\* A handler that ends without having changed anything that counts.
LEMMA HomeBooks ==
    ASSUME PayoutInv, PayoutInv', NEW p \in Procs, Return(p), NEW d, BooksAt(d),
           UNCHANGED <<Book, provider>>, \A c \in Cycles : SameFace(batch'[c], batch[c]),
           d.at \notin Staged
    PROVE  GoesOn(p)
  <1>1. Idle \in CallType /\ call' = [call EXCEPT ![p] = Idle]
    BY IdleTyped DEF Return
  <1>2. BooksAt(Idle)'
    BY AtHomeNext, IdleCalm, Calm, CalmStage, StillStep DEF PayoutInv
  <1> QED BY <1>1, <1>2 DEF GoesOn

LEMMA EligibleFindBooks ==
    ASSUME PayoutInv, PayoutInv', NEW p \in Procs, NEW i \in Items, EligibleFind(p, i),
           BooksAt(Idle)
    PROVE  GoesOn(p)
  <1>1. PICK e : e = [Idle EXCEPT !.at = "promote", !.items = {i}]
    OBVIOUS
  <1>2. /\ call' = [call EXCEPT ![p] = e] /\ e.at = "promote" /\ e.items = {i}
        /\ line[i].state = "accrued" /\ UNCHANGED <<line, batch, adjusted, journal, provider>>
    BY <1>1 DEF EligibleFind, Begin, Idle
  <1>3. StepOk(e)
    BY <1>2 DEF StepOk, ReadOk, ItemsOk, ComputeOk, LeaveOk, Unread, Computing
  <1>4. e.at \notin Staged
    BY <1>2 DEF Staged, Computing, Posting, Unwinding
  <1> QED BY <1>2, <1>3, <1>4, IdleCalm, FoundBooks

LEMMA RefundFindBooks ==
    ASSUME PayoutInv, PayoutInv', NEW p \in Procs, NEW l \in Lines, RefundFind(p, l),
           BooksAt(Idle)
    PROVE  GoesOn(p)
  <1>1. PICK e : e = [Idle EXCEPT !.at = "refund", !.items = {<<l, 1>>},
                                  !.outcome = line[<<l, 1>>].state]
    OBVIOUS
  <1>2. /\ call' = [call EXCEPT ![p] = e] /\ e.at = "refund" /\ e.items = {<<l, 1>>}
        /\ e.outcome = line[<<l, 1>>].state /\ e.outcome # "reversed"
        /\ line[<<l, -1>>].state = "none"
        /\ UNCHANGED <<line, batch, adjusted, journal, provider>>
    BY <1>1 DEF RefundFind, Begin, Idle
  <1>3. StepOk(e)
    BY <1>2 DEF StepOk, ReadOk, ItemsOk, ComputeOk, LeaveOk, Unread, Computing
  <1>4. e.at \notin Staged
    BY <1>2 DEF Staged, Computing, Posting, Unwinding
  <1> QED BY <1>2, <1>3, <1>4, IdleCalm, FoundBooks

LEMMA ComputeFindBooks ==
    ASSUME PayoutInv, PayoutInv', NEW p \in Procs, NEW c \in Cycles, NEW window,
           ComputeFind(p, c, window), BooksAt(Idle)
    PROVE  GoesOn(p)
  <1>1. PICK e : e = [Idle EXCEPT !.at = "carry", !.cycle = c, !.items = window]
    OBVIOUS
  <1>2. /\ call' = [call EXCEPT ![p] = e] /\ e.at = "carry" /\ e.items = window
        /\ window \subseteq {i \in Items : line[i].state = "eligible"}
        /\ UNCHANGED <<line, batch, adjusted, journal, provider>>
    BY <1>1 DEF ComputeFind, Begin, Idle
  <1>3. StepOk(e)
    BY <1>2 DEF StepOk, ReadOk, ItemsOk, ComputeOk, LeaveOk, Unread, Computing
  <1>4. e.at \notin Staged
    BY <1>2 DEF Staged, Computing, Posting, Unwinding
  <1> QED BY <1>2, <1>3, <1>4, IdleCalm, FoundBooks

\* A request that has read a batch.
LEMMA ReadBooks ==
    ASSUME PayoutInv, PayoutInv', NEW p \in Procs, NEW e, call' = [call EXCEPT ![p] = e],
           BooksAt(Idle), UNCHANGED <<line, batch, adjusted, journal, provider>>,
           e.at \in {"ask", "approve", "reject", "cancel", "queue", "paid", "failed", "reverse",
                     "fetch"},
           e.cycle \in Cycles, e.copy = batch[e.cycle],
           e.at = "ask" => e.copy.net > 0,
           e.at = "queue" => e.copy.state = "approved",
           e.at = "cancel" =>
              /\ batch[e.cycle].carry # 0 => Applied(e.cycle) = {}
              /\ e.copy.state \in {"draft", "pending", "approved", "queued", "failed"},
           e.at = "failed" => e.outcome = "failed",
           e.at = "reverse" => e.outcome = "reversed",
           e.at \in {"paid", "reverse"} /\ e.outcome = "reversed" => provider[e.cycle] = "bounced"
    PROVE  GoesOn(p)
  <1>1. ReadOk(e)
    BY DEF ReadOk, SameFace, SameSums
  <1>2. ItemsOk(e) /\ ComputeOk(e)
    BY DEF ItemsOk, ComputeOk, Computing
  <1>3. LeaveOk(e)
    BY DEF LeaveOk
  <1>4. e.at \notin Staged /\ e.at # "idle"
    BY DEF Staged, Computing, Posting, Unwinding
  <1> QED BY <1>1, <1>2, <1>3, <1>4, IdleCalm, FoundBooks DEF StepOk

LEMMA AskFindBooks ==
    ASSUME PayoutInv, PayoutInv', NEW p \in Procs, NEW c \in Cycles, AskFind(p, c),
           BooksAt(Idle)
    PROVE  GoesOn(p)
  <1>1. PICK e : e = [Idle EXCEPT !.at = "ask", !.cycle = c, !.copy = batch[c]]
    OBVIOUS
  <1>2. /\ call' = [call EXCEPT ![p] = e] /\ e.at = "ask" /\ e.cycle = c /\ e.copy = batch[c]
        /\ batch[c].net > 0 /\ UNCHANGED <<line, batch, adjusted, journal, provider>>
    BY <1>1 DEF AskFind, BeginOn, Begin, Idle
  <1> QED BY <1>2, ReadBooks

LEMMA RejectFindBooks ==
    ASSUME PayoutInv, PayoutInv', NEW p \in Procs, NEW c \in Cycles, RejectFind(p, c),
           BooksAt(Idle)
    PROVE  GoesOn(p)
  <1>1. PICK e : e = [Idle EXCEPT !.at = "reject", !.cycle = c, !.copy = batch[c]]
    OBVIOUS
  <1>2. /\ call' = [call EXCEPT ![p] = e] /\ e.at = "reject" /\ e.cycle = c /\ e.copy = batch[c]
        /\ UNCHANGED <<line, batch, adjusted, journal, provider>>
    BY <1>1 DEF RejectFind, BeginOn, Begin, Idle
  <1> QED BY <1>2, ReadBooks

LEMMA SweepFindBooks ==
    ASSUME PayoutInv, PayoutInv', NEW p \in Procs, NEW c \in Cycles, SweepFind(p, c),
           BooksAt(Idle)
    PROVE  GoesOn(p)
  <1>1. PICK e : e = [Idle EXCEPT !.at = "fetch", !.cycle = c, !.copy = batch[c]]
    OBVIOUS
  <1>2. /\ call' = [call EXCEPT ![p] = e] /\ e.at = "fetch" /\ e.cycle = c /\ e.copy = batch[c]
        /\ UNCHANGED <<line, batch, adjusted, journal, provider>>
    BY <1>1 DEF SweepFind, BeginOn, Begin, Idle
  <1> QED BY <1>2, ReadBooks

LEMMA ApproveFindBooks ==
    ASSUME PayoutInv, PayoutInv', NEW p \in Procs, NEW c \in Cycles, NEW u, ApproveFind(p, c, u),
           BooksAt(Idle)
    PROVE  GoesOn(p)
  <1>1. PICK e : e = [Idle EXCEPT !.at = "approve", !.cycle = c, !.copy = batch[c], !.who = {u}]
    OBVIOUS
  <1>2. /\ call' = [call EXCEPT ![p] = e] /\ e.at = "approve" /\ e.cycle = c /\ e.copy = batch[c]
        /\ UNCHANGED <<line, batch, adjusted, journal, provider>>
    BY <1>1 DEF ApproveFind, Begin, Idle
  <1> QED BY <1>2, ReadBooks

LEMMA CancelFindBooks ==
    ASSUME PayoutInv, PayoutInv', NEW p \in Procs, NEW c \in Cycles, CancelFind(p, c),
           BooksAt(Idle), detours' \subseteq {"revived"}
    PROVE  GoesOn(p)
  <1>1. PICK e : e = [Idle EXCEPT !.at = "cancel", !.cycle = c, !.copy = batch[c],
                                  !.outcome = "cancelled"]
    OBVIOUS
  <1>2. /\ call' = [call EXCEPT ![p] = e] /\ e.at = "cancel" /\ e.cycle = c /\ e.copy = batch[c]
        /\ UNCHANGED <<line, batch, adjusted, journal, provider>>
    BY <1>1 DEF CancelFind, Idle
  <1>3. batch[c].carry # 0 => Applied(c) = {}
    BY DEF CancelFind, Arrive, Applied
  <1>4. batch[c].state \in {"draft", "pending", "approved", "queued", "failed"}
    <2>1. batch[c].state \in States /\ "cancelled" \in Successors[batch[c].state]
      BY BatchParts DEF CancelFind, PayoutInv, TypeOK
    <2> QED BY <2>1 DEF Successors, States
  <1> QED BY <1>2, <1>3, <1>4, ReadBooks

LEMMA SubmitFindBooks ==
    ASSUME PayoutInv, PayoutInv', NEW p \in Procs, NEW c \in Cycles, SubmitFind(p, c),
           BooksAt(Idle), detours' \subseteq {"revived"}
    PROVE  GoesOn(p)
  <1>1. PICK e : e = [Idle EXCEPT !.at = "queue", !.cycle = c, !.copy = batch[c]]
    OBVIOUS
  <1>2. /\ call' = [call EXCEPT ![p] = e] /\ e.at = "queue" /\ e.cycle = c /\ e.copy = batch[c]
        /\ UNCHANGED <<line, batch, adjusted, journal, provider>>
    BY <1>1 DEF SubmitFind, Idle
  <1>3. batch[c].state = "approved"
    BY DEF SubmitFind, Arrive
  <1> QED BY <1>2, <1>3, ReadBooks

LEMMA WebhookBooks ==
    ASSUME PayoutInv, PayoutInv', NEW p \in Procs, NEW c \in Cycles, Webhook(p, c),
           BooksAt(Idle)
    PROVE  GoesOn(p)
  <1>1. PICK outcome \in CASE provider[c] = "moved"   -> {"paid"}
                           [] provider[c] = "failed"  -> {"failed"}
                           [] provider[c] = "bounced" -> {"paid", "reversed"}
                           [] OTHER                   -> {} :
           Begin(p, [Idle EXCEPT !.cycle = c, !.copy = batch[c], !.outcome = outcome,
                         !.at = IF outcome # "reversed" THEN outcome
                                ELSE IF batch[c].state = "processing" THEN "paid" ELSE "reverse"])
    BY DEF Webhook
  <1>2. outcome \in {"paid", "failed", "reversed"} /\ (outcome = "reversed" => provider[c] = "bounced")
    BY <1>1
  <1>3. PICK at : at = IF outcome # "reversed" THEN outcome
                       ELSE IF batch[c].state = "processing" THEN "paid" ELSE "reverse"
    OBVIOUS
  <1>4. PICK e : e = [Idle EXCEPT !.cycle = c, !.copy = batch[c], !.outcome = outcome, !.at = at]
    OBVIOUS
  <1>5. /\ call' = [call EXCEPT ![p] = e] /\ e.at = at /\ e.cycle = c /\ e.copy = batch[c]
        /\ e.outcome = outcome /\ UNCHANGED <<line, batch, adjusted, journal, provider>>
    BY <1>1, <1>3, <1>4 DEF Webhook, Begin, Idle
  <1> QED BY <1>2, <1>3, <1>5, ReadBooks

LEMMA OwnCycle ==
    ASSUME PayoutInv, NEW p \in Procs, NEW d, d = call[p], d.at \notin Loose
    PROVE  /\ d.cycle \in Cycles /\ Cycle(p) = d.cycle /\ Copy(p) = d.copy /\ d \in CallType
           /\ batch[d.cycle] \in BatchType /\ d.copy \in BatchType
           /\ d.at \notin {"carry", "create"} => batch[d.cycle].state # "none" /\ Found(p)
  <1>1. d \in CallType /\ CallOk(d)
    BY DEF PayoutInv, TypeOK
  <1> QED BY <1>1, CallParts DEF PayoutInv, TypeOK, CallOk, CopyOk, Cycle, Copy, Found

LEMMA ComputeCarryBooks ==
    ASSUME PayoutInv, PayoutInv', NEW p \in Procs, NEW d, d = call[p], BooksAt(d),
           ComputeCarry(p)
    PROVE  GoesOn(p)
  <1>1. d.at = "carry" /\ d \in CallType /\ d.copy \in BatchType /\ d.cycle \in Cycles
        /\ UNCHANGED <<line, batch, adjusted, journal, provider>>
    BY OwnCycle DEF ComputeCarry, At, Loose
  <1>2. d.at \notin Staged
    BY <1>1 DEF Staged, Computing, Posting, Unwinding
  <1>3. CASE Return(p)
    BY <1>1, <1>2, <1>3, FaceSame, HomeBooks DEF Book
  <1>4. CASE ~Return(p)
    <2>1. PICK from : from = IF Carrying = {} THEN NoCycle ELSE Max(Carrying)
      OBVIOUS
    <2>2. PICK opening : opening = IF from = NoCycle THEN 0 ELSE batch[from].carry
      OBVIOUS
    <2>3. call' = [call EXCEPT ![p].adjs = Pending, ![p].from = from,
                               ![p].copy.opening = opening, ![p].at = "create"]
      BY <1>4, <2>1, <2>2 DEF ComputeCarry
    <2>4. PICK adjs : adjs = Pending
      OBVIOUS
    <2>5. PICK v : v = [d.copy EXCEPT !.opening = opening]
      OBVIOUS
    <2>6. PICK e : e = [d EXCEPT !.adjs = adjs, !.from = from, !.copy = v, !.at = "create"]
      OBVIOUS
    <2>7. call' = [call EXCEPT ![p] = e]
      BY <1>1, <2>3, <2>4, <2>5, <2>6
    <2>8. /\ e.at = "create" /\ e.adjs = Pending /\ e.from = from /\ e.items = d.items
          /\ e.copy.opening = opening
      <3>1. v.opening = opening
        BY <1>1, <2>5 DEF BatchType
      <3> QED BY <1>1, <2>4, <2>6, <3>1 DEF CallType
    <2>9. from # NoCycle => batch[from].carry # 0
      BY <2>1, CarryingFrom
    <2>a. StepOk(e)
      <3>1. ItemsOk(e)
        BY <1>1, <2>8 DEF BooksAt, OrderAt, StepOk, ItemsOk
      <3>2. ComputeOk(e)
        BY <2>2, <2>8, <2>9 DEF ComputeOk, Computing
      <3>3. ReadOk(e) /\ LeaveOk(e)
        BY <2>8 DEF ReadOk, LeaveOk, Unread
      <3> QED BY <3>1, <3>2, <3>3 DEF StepOk
    <2>b. e.at \notin Staged /\ e.at # "idle"
      BY <2>8 DEF Staged, Computing, Posting, Unwinding
    <2> QED BY <1>1, <1>2, <2>7, <2>a, <2>b, FoundBooks
  <1> QED BY <1>3, <1>4

LEMMA SweepFetchBooks ==
    ASSUME PayoutInv, PayoutInv', NEW p \in Procs, NEW d, d = call[p], BooksAt(d),
           SweepFetch(p)
    PROVE  GoesOn(p)
  <1>1. d.at = "fetch" /\ d \in CallType /\ d.cycle \in Cycles /\ Cycle(p) = d.cycle
        /\ UNCHANGED <<line, batch, adjusted, journal, provider>>
    BY OwnCycle DEF SweepFetch, At, Loose
  <1>2. d.at \notin Staged
    BY <1>1 DEF Staged, Computing, Posting, Unwinding
  <1>3. PICK o : o = Outcome(provider[d.cycle])
    OBVIOUS
  <1>4. PICK at : at = IF o = "reversed" THEN "paid" ELSE o
    OBVIOUS
  <1>5. PICK e : e = [d EXCEPT !.outcome = o, !.at = at]
    OBVIOUS
  <1>6. call' = [call EXCEPT ![p] = e]
    <2>1. call' = [call EXCEPT ![p].outcome = o, ![p].at = at]
      <3>1. Outcome(provider[Cycle(p)]) = o
        BY <1>1, <1>3
      <3> QED BY <1>4, <3>1, Zenon DEF SweepFetch
    <2> QED BY <1>1, <1>5, <2>1
  <1>7. /\ e.at = at /\ e.outcome = o /\ e.cycle = d.cycle /\ e.copy = d.copy
    BY <1>1, <1>5 DEF CallType
  <1>8. /\ o \in {"paid", "failed", "reversed"} /\ at \in {"paid", "failed"}
        /\ at = "failed" => o = "failed"
        /\ o = "reversed" => provider[d.cycle] = "bounced"
    <2>1. provider[d.cycle] \in {"moved", "failed", "bounced"}
      BY <1>1 DEF PayoutInv, CallOk, MoneyOk
    <2> QED BY <1>3, <1>4, <2>1 DEF Outcome
  <1>9. StepOk(e)
    <2>1. ReadOk(e)
      BY <1>1, <1>7, <1>8 DEF BooksAt, OrderAt, StepOk, ReadOk, Unread, Computing
    <2>2. ItemsOk(e) /\ ComputeOk(e) /\ LeaveOk(e)
      BY <1>7, <1>8 DEF ItemsOk, ComputeOk, LeaveOk, Computing
    <2> QED BY <2>1, <2>2 DEF StepOk
  <1>a. e.at \notin Staged /\ e.at # "idle"
    BY <1>7, <1>8 DEF Staged, Computing, Posting, Unwinding
  <1> QED BY <1>1, <1>2, <1>6, <1>9, <1>a, FoundBooks

\* A handler that goes on as it is.
LEMMA Continued ==
    ASSUME PayoutInv, NEW p \in Procs, NEW st \in Steps, Continue(p, st)
    PROVE  \E e \in CallType : /\ call' = [call EXCEPT ![p] = e] /\ e.at = st
                               /\ Alike(e, call[p]) /\ e.copy = call[p].copy
  <1>1. call[p] \in CallType
    BY DEF PayoutInv, TypeOK
  <1>2. PICK e : e = [call[p] EXCEPT !.at = st]
    OBVIOUS
  <1>3. e \in CallType
    BY <1>1, <1>2, CallEdited
  <1>4. e.at = st /\ Alike(e, call[p]) /\ e.copy = call[p].copy
    BY <1>1, <1>2 DEF CallType, Alike
  <1> QED BY <1>2, <1>3, <1>4 DEF Continue

\* A save of what does not count.
LEMMA FacesKept ==
    ASSUME TypeOK, NEW c \in Cycles, NEW b, batch' = [batch EXCEPT ![c] = b],
           SameFace(b, batch[c])
    PROVE  batch'[c] = b /\ \A x \in Cycles : SameFace(batch'[x], batch[x])
  BY FaceSame DEF TypeOK

LEMMA SubmitStampBooks ==
    ASSUME PayoutInv, PayoutInv', NEW p \in Procs, NEW d, d = call[p], BooksAt(d),
           SubmitStamp(p)
    PROVE  GoesOn(p)
  <1>1. d.at = "stamp" /\ d.cycle \in Cycles /\ Cycle(p) = d.cycle /\ batch[d.cycle] \in BatchType
        /\ UNCHANGED <<Book, provider>> /\ "post" \in Steps
    BY OwnCycle DEF SubmitStamp, At, Loose, Steps
  <1>2. PICK e \in CallType : /\ call' = [call EXCEPT ![p] = e] /\ e.at = "post"
                              /\ Alike(e, d) /\ e.copy = d.copy
    BY <1>1, Continued DEF SubmitStamp
  <1>3. PICK b : b = [batch[d.cycle] EXCEPT !.chase = TRUE]
    OBVIOUS
  <1>4. batch' = [batch EXCEPT ![d.cycle] = b] /\ SameFace(b, batch[d.cycle])
        /\ b.version = batch[d.cycle].version
    BY <1>1, <1>3 DEF SubmitStamp, BatchType, SameFace, SameSums
  <1>5. batch'[d.cycle] = b /\ \A x \in Cycles : SameFace(batch'[x], batch[x])
    BY <1>1, <1>4, FacesKept DEF PayoutInv
  <1>6. e.cycle = d.cycle
    BY <1>2 DEF Alike
  <1>7. StepOk(e)'
    <2>1. SameFace(d.copy, batch[d.cycle]) /\ d.copy.version = batch[d.cycle].version
      BY <1>1 DEF BooksAt, OrderAt, StepOk, ReadOk, Unread, Computing
    <2>2. ReadOk(e)'
      BY <1>2, <1>4, <1>5, <1>6, <2>1 DEF ReadOk, SameFace, SameSums
    <2>3. ItemsOk(e)' /\ ComputeOk(e)' /\ LeaveOk(e)'
      BY <1>2 DEF ItemsOk, ComputeOk, LeaveOk, Computing
    <2> QED BY <2>2, <2>3 DEF StepOk
  <1>8. \A c : SameStage(d, e, c)
    BY <1>1, <1>2, <1>6 DEF SameStage, On, Computing, Posting, Unwinding
  <1>9. GapOf(e)' = GapOf(d)
    BY <1>1, <1>2, <1>4, <1>5, <1>6 DEF GapOf, Posting, SameFace, SameSums
  <1>a. Slack(d) = 0 /\ Slack(e)' = 0
    BY <1>1, <1>2 DEF Slack, Unbacked
  <1>b. BooksAt(e)'
    BY <1>1, <1>5, <1>7, <1>8, <1>9, <1>a, StillStep DEF PayoutInv
  <1> QED BY <1>2, <1>b DEF GoesOn

LEMMA AnswerBooks ==
    ASSUME PayoutInv, PayoutInv', NEW p \in Procs, NEW d, d = call[p], BooksAt(d),
           Answer(p)
    PROVE  GoesOn(p)
  <1>1. d.at = "answer" /\ d.cycle \in Cycles /\ Cycle(p) = d.cycle /\ batch[d.cycle] \in BatchType
        /\ UNCHANGED <<Book, provider>>
    BY OwnCycle DEF Answer, At, Loose
  <1>2. d.at \notin Staged
    BY <1>1 DEF Staged, Computing, Posting, Unwinding
  <1>3. PICK b : b = [batch[d.cycle] EXCEPT !.chase = @ \/ d.outcome = "ambiguous"]
    OBVIOUS
  <1>4. batch' = [batch EXCEPT ![d.cycle] = b] /\ SameFace(b, batch[d.cycle])
        /\ b.version = batch[d.cycle].version
    BY <1>1, <1>3 DEF Answer, BatchType, SameFace, SameSums
  <1>5. batch'[d.cycle] = b /\ \A x \in Cycles : SameFace(batch'[x], batch[x])
    BY <1>1, <1>4, FacesKept DEF PayoutInv
  <1>6. CASE Return(p)
    BY <1>1, <1>2, <1>5, <1>6, HomeBooks
  <1>7. CASE ~Return(p)
    <2>1. d.outcome \in {"paid", "failed"} /\ d.outcome \in Steps /\ Continue(p, d.outcome)
      BY <1>7 DEF Answer, Steps
    <2>2. PICK e \in CallType : /\ call' = [call EXCEPT ![p] = e] /\ e.at = d.outcome
                                /\ Alike(e, d) /\ e.copy = d.copy
      BY <2>1, Continued
    <2>3. e.cycle = d.cycle /\ e.outcome = d.outcome
      BY <2>2 DEF Alike
    <2>4. StepOk(e)'
      <3>1. SameFace(d.copy, batch[d.cycle]) /\ d.copy.version = batch[d.cycle].version
        BY <1>1 DEF BooksAt, OrderAt, StepOk, ReadOk, Unread, Computing
      <3>2. ReadOk(e)'
        BY <1>4, <1>5, <2>1, <2>2, <2>3, <3>1 DEF ReadOk, SameFace, SameSums
      <3>3. ItemsOk(e)' /\ ComputeOk(e)' /\ LeaveOk(e)'
        BY <2>1, <2>2, <2>3 DEF ItemsOk, ComputeOk, LeaveOk, Computing
      <3> QED BY <3>2, <3>3 DEF StepOk
    <2>5. e.at \notin Staged /\ e.at # "idle"
      BY <2>1, <2>2 DEF Staged, Computing, Posting, Unwinding
    <2>6. BooksAt(e)'
      BY <1>1, <1>2, <1>5, <2>4, <2>5, Calm, CalmStage, StillStep DEF PayoutInv
    <2> QED BY <2>2, <2>5, <2>6 DEF GoesOn
  <1> QED BY <1>6, <1>7

LEMMA SubmitIdsBooks ==
    ASSUME PayoutInv, PayoutInv', NEW p \in Procs, NEW d, d = call[p], BooksAt(d),
           SubmitIds(p)
    PROVE  GoesOn(p)
  <1>1. d.at = "ids" /\ d.cycle \in Cycles /\ Cycle(p) = d.cycle /\ Copy(p) = d.copy
        /\ UNCHANGED <<Book, provider>> /\ SaveIds(p, "instruct") /\ Found(p) /\ "instruct" \in Steps
    BY OwnCycle DEF SubmitIds, SaveIds, At, Loose, Steps
  <1>2. d.at \notin Staged
    BY <1>1 DEF Staged, Computing, Posting, Unwinding
  <1>3. CASE batch' = batch /\ Return(p)
    BY <1>1, <1>2, <1>3, FaceSame, HomeBooks
  <1>4. ASSUME NEW b \in BatchType, batch' = [batch EXCEPT ![d.cycle] = b],
               SameFace(b, batch[d.cycle]), b.version = batch[d.cycle].version + 1,
               NEW e \in CallType, call' = [call EXCEPT ![p] = e], e.at = "instruct",
               Alike(e, d), SameFace(e.copy, d.copy), e.copy.version = batch[d.cycle].version + 1
        PROVE  GoesOn(p)
    <2>1. batch'[d.cycle] = b /\ \A x \in Cycles : SameFace(batch'[x], batch[x])
      BY <1>1, <1>4, FacesKept DEF PayoutInv
    <2>2. StepOk(e)'
      <3>1. SameFace(d.copy, batch[d.cycle])
        BY <1>1 DEF BooksAt, OrderAt, StepOk, ReadOk, Unread, Computing
      <3>2. ReadOk(e)'
        BY <1>4, <2>1, <3>1 DEF ReadOk, SameFace, SameSums, Alike
      <3>3. ItemsOk(e)' /\ ComputeOk(e)' /\ LeaveOk(e)'
        BY <1>4 DEF ItemsOk, ComputeOk, LeaveOk, Computing
      <3> QED BY <3>2, <3>3 DEF StepOk
    <2>3. e.at \notin Staged /\ e.at # "idle"
      BY <1>4 DEF Staged, Computing, Posting, Unwinding
    <2>4. BooksAt(e)'
      BY <1>1, <1>2, <2>1, <2>2, <2>3, Calm, CalmStage, StillStep DEF PayoutInv
    <2> QED BY <1>4, <2>3, <2>4 DEF GoesOn
  <1> QED BY <1>1, <1>3, <1>4, SaveIdsEffect

\* The handler is alone, so it wins the version of the ids and takes its lines back.
LEMMA UnwindIdsBooks ==
    ASSUME PayoutInv, PayoutInv', NEW p \in Procs, NEW d, d = call[p], BooksAt(d),
           UnwindIds(p)
    PROVE  GoesOn(p)
  <1>1. d.at = "unwound" /\ d.cycle \in Cycles /\ Cycle(p) = d.cycle /\ Copy(p) = d.copy
        /\ UNCHANGED <<Book, provider>> /\ Found(p)
    BY OwnCycle DEF UnwindIds, SaveIds, At, Loose
  <1>2. PICK st \in {"restore", "release"} :
           SaveIds(p, st) /\ (st = "restore" <=> d.outcome = "reversed")
    BY DEF UnwindIds, AfterUnwind
  <1>3. st \in Steps
    BY DEF Steps
  <1>4. /\ SameFace(d.copy, batch[d.cycle]) /\ d.copy.version = batch[d.cycle].version
        /\ LeaveOk(d)
    BY <1>1 DEF BooksAt, OrderAt, StepOk, ReadOk, Unread, Computing
  <1>5. \E b \in BatchType, e \in CallType :
           /\ batch' = [batch EXCEPT ![d.cycle] = b]
           /\ SameFace(b, batch[d.cycle]) /\ b.version = batch[d.cycle].version + 1
           /\ call' = [call EXCEPT ![p] = e] /\ e.at = st
           /\ Alike(e, d) /\ SameFace(e.copy, d.copy)
           /\ e.copy.version = batch[d.cycle].version + 1
    <2>1. CASE batch' = batch /\ Return(p)
      <3>1. batch' = [batch EXCEPT ![d.cycle].version = @ + 1]
        BY <1>1, <1>2, <1>4 DEF SaveIds
      <3>2. batch[d.cycle] \in BatchType
        BY OwnCycle, <1>1 DEF PayoutInv, TypeOK
      <3>3. batch'[d.cycle].version = batch[d.cycle].version + 1 /\ batch[d.cycle].version \in Nat
        BY <1>1, <3>1, <3>2 DEF BatchType, PayoutInv, TypeOK
      <3> QED BY <2>1, <3>3
    <2>2. CASE ~(batch' = batch /\ Return(p))
      BY <1>1, <1>2, <1>3, <2>2, SaveIdsEffect
    <2> QED BY <2>1, <2>2
  <1>6. PICK b \in BatchType, e \in CallType :
           /\ batch' = [batch EXCEPT ![d.cycle] = b]
           /\ SameFace(b, batch[d.cycle]) /\ b.version = batch[d.cycle].version + 1
           /\ call' = [call EXCEPT ![p] = e] /\ e.at = st
           /\ Alike(e, d) /\ SameFace(e.copy, d.copy)
           /\ e.copy.version = batch[d.cycle].version + 1
    BY <1>5
  <1>7. batch'[d.cycle] = b /\ \A x \in Cycles : SameFace(batch'[x], batch[x])
    BY <1>1, <1>6, FacesKept DEF PayoutInv
  <1>8. e.cycle = d.cycle /\ e.outcome = d.outcome
    BY <1>6 DEF Alike
  <1>9. \A c : Batched(c)' = Batched(c) /\ Settled(c)' = Settled(c) /\ Applied(c)' = Applied(c)
    BY <1>1, BookHolds DEF Holds
  <1>a. StepOk(e)'
    <2>1. ReadOk(e)'
      BY <1>4, <1>6, <1>7, <1>8 DEF ReadOk, SameFace, SameSums
    <2>2. LeaveOk(e)'
      BY <1>1, <1>2, <1>4, <1>6, <1>7, <1>8, <1>9 DEF LeaveOk, SameFace, SameSums
    <2>3. ItemsOk(e)' /\ ComputeOk(e)'
      BY <1>6 DEF ItemsOk, ComputeOk, Computing
    <2> QED BY <2>1, <2>2, <2>3 DEF StepOk
  <1>b. \A c : SameStage(d, e, c)
    BY <1>1, <1>6 DEF SameStage, On, Computing, Posting, Unwinding
  <1>c. GapOf(e)' = GapOf(d)
    <2>1. GapOf(d) = Worth(Settled(d.cycle))
      BY <1>1 DEF GapOf, Posting
    <2>2. CASE st = "restore"
      BY <1>6, <1>8, <1>9, <2>1, <2>2 DEF GapOf, Posting
    <2>3. CASE st = "release"
      <3>1. Settled(d.cycle) = {}
        BY <1>1, <1>2, <1>4, <2>3 DEF LeaveOk
      <3>2. GapOf(e)' = 0
        BY <1>6, <2>3 DEF GapOf, Posting
      <3> QED BY <2>1, <3>1, <3>2, WorthNone
    <2> QED BY <2>2, <2>3
  <1>d. Slack(d) = 0 /\ Slack(e)' = 0
    BY <1>1, <1>6 DEF Slack, Unbacked
  <1>e. BooksAt(e)'
    BY <1>1, <1>7, <1>a, <1>b, <1>c, <1>d, StillStep DEF PayoutInv
  <1>f. e.at # "idle"
    BY <1>6
  <1> QED BY <1>6, <1>e, <1>f DEF GoesOn

\* The approval is pushed; what the copy says stays true, but for its version.
LEMMA ApprovePushBooks ==
    ASSUME PayoutInv, PayoutInv', NEW p \in Procs, NEW d, d = call[p], BooksAt(d),
           ApprovePush(p)
    PROVE  GoesOn(p)
  <1>1. d.at = "approve" /\ d.cycle \in Cycles /\ Cycle(p) = d.cycle /\ Copy(p) = d.copy
        /\ UNCHANGED <<Book, provider>> /\ batch[d.cycle] \in BatchType /\ d.copy \in BatchType
        /\ d \in CallType
    BY OwnCycle DEF ApprovePush, At, Loose
  <1>2. d.at \notin Staged
    BY <1>1 DEF Staged, Computing, Posting, Unwinding
  <1>3. PICK u : u = CHOOSE w \in call[p].who : TRUE
    OBVIOUS
  <1>4. PICK b : b = [batch[d.cycle] EXCEPT !.approvals = Append(@, u), !.version = @ + 1]
    OBVIOUS
  <1>5. batch' = [batch EXCEPT ![d.cycle] = b] /\ SameFace(b, batch[d.cycle])
    <2>1. batch' = [batch EXCEPT ![d.cycle].approvals = Append(@, u), ![d.cycle].version = @ + 1]
      BY <1>1, <1>3 DEF ApprovePush
    <2>2. batch' = [batch EXCEPT ![d.cycle] = b]
      BY <1>1, <1>4, <2>1
    <2> QED BY <1>1, <1>4, <2>2 DEF BatchType, SameFace, SameSums
  <1>6. batch'[d.cycle] = b /\ \A x \in Cycles : SameFace(batch'[x], batch[x])
    BY <1>1, <1>5, FacesKept DEF PayoutInv
  <1>7. CASE Return(p)
    BY <1>1, <1>2, <1>6, <1>7, HomeBooks
  <1>8. CASE ~Return(p)
    <2>1. PICK own : call' = [call EXCEPT ![p].copy.approvals = own, ![p].at = "approved"]
      BY <1>8 DEF ApprovePush
    <2>2. PICK v : v = [d.copy EXCEPT !.approvals = own]
      OBVIOUS
    <2>3. PICK e : e = [d EXCEPT !.copy = v, !.at = "approved"]
      OBVIOUS
    <2>4. call' = [call EXCEPT ![p] = e]
      BY <1>1, <2>1, <2>2, <2>3
    <2>5. e \in CallType
      BY <2>4 DEF PayoutInv, TypeOK
    <2>6. e.at = "approved" /\ e.cycle = d.cycle /\ SameFace(e.copy, d.copy)
      <3>1. SameFace(v, d.copy)
        BY <1>1, <2>2 DEF BatchType, SameFace, SameSums
      <3> QED BY <1>1, <2>3, <3>1 DEF CallType
    <2>7. StepOk(e)'
      <3>1. SameFace(d.copy, batch[d.cycle])
        BY <1>1 DEF BooksAt, OrderAt, StepOk, ReadOk, Unread, Computing
      <3>2. ReadOk(e)'
        BY <1>5, <1>6, <2>6, <3>1 DEF ReadOk, SameFace, SameSums
      <3>3. ItemsOk(e)' /\ ComputeOk(e)' /\ LeaveOk(e)'
        BY <2>6 DEF ItemsOk, ComputeOk, LeaveOk, Computing
      <3> QED BY <3>2, <3>3 DEF StepOk
    <2>8. e.at \notin Staged /\ e.at # "idle"
      BY <2>6 DEF Staged, Computing, Posting, Unwinding
    <2>9. BooksAt(e)'
      BY <1>1, <1>2, <1>6, <2>7, <2>8, Calm, CalmStage, StillStep DEF PayoutInv
    <2> QED BY <2>4, <2>5, <2>8, <2>9 DEF GoesOn
  <1> QED BY <1>7, <1>8

-----------------------------------------------------------------------------
(* Steps that move a batch from one state to the next. *)

\* The state of one batch changes, and which side its money is on does not.
LEMMA StateStep ==
    ASSUME PayoutInv, TypeOK', NEW d, NEW e, BooksAt(d), NEW c \in Cycles, NEW b,
           batch' = [batch EXCEPT ![c] = b], SameSums(b, batch[c]), UNCHANGED <<Book, provider>>,
           Live(c)' <=> Live(c), d.at \notin Staged, e.at \notin Staged,
           StepOk(e)', CycleOk(c, e)', BackingOf(c) \subseteq BackingOf(c)'
    PROVE  BooksAt(e)'
  <1>1. batch'[c] = b /\ \A x \in Cycles \ {c} : batch'[x] = batch[x]
    BY DEF PayoutInv, TypeOK
  <1>2. \A x \in Cycles \ {c} : Keeps(x) /\ SameStage(d, e, x)
    BY <1>1, BookHolds, FaceSame, CalmStage DEF Keeps
  <1>3. Placed' /\ \A a \in Adjustments : adjusted'[a].added = adjusted[a].added
    BY BookHolds DEF BooksAt, OrderAt
  <1>4. /\ Batched(c)' = Batched(c) /\ Settled(c)' = Settled(c) /\ Applied(c)' = Applied(c)
        /\ journal'[c] = journal[c]
    BY BookHolds DEF Holds
  <1>5. /\ batch'[c].carry = batch[c].carry /\ batch'[c].opening = batch[c].opening
        /\ batch'[c].net = batch[c].net
    BY <1>1 DEF SameSums
  <1>6. Share(c)' = Share(c) /\ Share(c) \in Int
    <2>1. Pinned(c)' <=> Pinned(c)
      BY <1>5 DEF Pinned
    <2>2. GoneOf(c)' = GoneOf(c) /\ UsedOf(c)' = UsedOf(c)
      BY <1>4, <2>1 DEF GoneOf, UsedOf
    <2>3. Entry(c)' = Entry(c)
      BY <1>4, <1>5, <2>1 DEF Entry, Standing
    <2>4. Share(c) \in Int
      BY <1>2, <1>3, GapMoves DEF PayoutInv, BooksAt, OrderAt
    <2> QED BY <2>2, <2>3, <2>4 DEF Share
  <1>7. Borrowed(c)' = Borrowed(c) /\ Borrowed(c) \in Nat
    BY <1>5, BooksInts DEF Borrowed, PayoutInv
  <1>8. /\ Cardinality(BackingOf(c)) <= Cardinality(BackingOf(c)')
        /\ Cardinality(BackingOf(c)) \in Nat /\ Cardinality(BackingOf(c)') \in Nat
    <2>1. BackingOf(c)' \in SUBSET Items
      BY DEF BackingOf, Negative, Settled, Batched, LinesOf
    <2>2. IsFiniteSet(BackingOf(c)') /\ Cardinality(BackingOf(c)') \in Nat
      BY <2>1, SetsFinite
    <2> QED BY <2>2, FS_Subset, FS_CardinalityType
  <1>9. GapOf(d) = 0 /\ GapOf(e)' = 0 /\ Slack(d) = 0 /\ Slack(e)' = 0
    BY Calm
  <1>a. GapOf(e)' = GapOf(d) + Share(c)' - Share(c)
    BY <1>6, <1>9
  <1>b. Borrowed(c)' + Cardinality(BackingOf(c)) + Slack(d)
            <= Borrowed(c) + Cardinality(BackingOf(c)') + Slack(e)'
    BY <1>7, <1>8, <1>9
  <1>c. Slack(d) \in Int /\ Slack(e)' \in Int /\ provider' = provider
    BY <1>9
  <1>d. TypeOK
    BY DEF PayoutInv
  <1> QED BY <1>2, <1>3, <1>5, <1>a, <1>b, <1>c, <1>d, BooksStep

\* What is known of a batch the only handler has read.
LEMMA KnownBatch ==
    ASSUME PayoutInv, NEW p \in Procs, NEW d, d = call[p], BooksAt(d),
           d.at \notin Unread
    PROVE  /\ d.cycle \in Cycles /\ Cycle(p) = d.cycle /\ Copy(p) = d.copy /\ d \in CallType
           /\ batch[d.cycle] \in BatchType /\ Found(p)
           /\ SameFace(d.copy, batch[d.cycle])
           /\ d.at # "approved" => d.copy.version = batch[d.cycle].version
           /\ CycleOk(d.cycle, d) /\ StepOk(d) /\ CopyOk(d) /\ MoneyOk(d)
           /\ batch[d.cycle].lines \in Int /\ batch[d.cycle].net \in Int
           /\ batch[d.cycle].carry \in Int /\ batch[d.cycle].opening \in Int
           /\ journal[d.cycle].drained \in Int
  <1>1. d.at \notin Loose \cup {"carry", "create"}
    BY DEF Unread, Loose
  <1>2. /\ d.cycle \in Cycles /\ Cycle(p) = d.cycle /\ Copy(p) = d.copy /\ d \in CallType
        /\ batch[d.cycle] \in BatchType /\ Found(p)
    BY <1>1, OwnCycle
  <1>3. /\ SameFace(d.copy, batch[d.cycle])
        /\ d.at # "approved" => d.copy.version = batch[d.cycle].version
    BY DEF BooksAt, OrderAt, StepOk, ReadOk
  <1>4. CycleOk(d.cycle, d) /\ StepOk(d) /\ CopyOk(d) /\ MoneyOk(d)
    BY <1>2 DEF BooksAt, OrderAt, PayoutInv, CallOk
  <1> QED BY <1>2, <1>3, <1>4, BooksInts DEF PayoutInv

LEMMA CalmOn ==
    ASSUME NEW d, d.at \notin Staged
    PROVE  \A c : ~On(d, c, Computing) /\ ~On(d, c, Posting) /\ ~On(d, c, Unwinding)
  BY Calm

\* A step of the approval or of the queue, with nothing to lose.
LEMMA AskedBooks ==
    ASSUME PayoutInv, PayoutInv', NEW d, NEW e, BooksAt(d), NEW c \in Cycles, NEW b,
           batch' = [batch EXCEPT ![c] = b], SameSums(b, batch[c]), UNCHANGED <<Book, provider>>,
           batch[c].state \in {"draft", "pending", "approved"}, batch[c].net > 0,
           b.state \in {"pending", "approved", "rejected", "queued"},
           d.at \notin Staged, e.at \notin Staged, StepOk(e)'
    PROVE  BooksAt(e)'
  <1>1. batch'[c] = b
    BY DEF PayoutInv, TypeOK
  <1>2. CycleOk(c, d)
    BY DEF BooksAt, OrderAt
  <1>3. /\ Batched(c)' = Batched(c) /\ Settled(c)' = Settled(c) /\ Applied(c)' = Applied(c)
        /\ journal'[c] = journal[c] /\ provider'[c] = provider[c]
    BY BookHolds DEF Holds
  <1>4. /\ batch'[c].carry = batch[c].carry /\ batch'[c].opening = batch[c].opening
        /\ batch'[c].net = batch[c].net /\ batch'[c].lines = batch[c].lines
        /\ batch'[c].state = b.state
    BY <1>1 DEF SameSums
  <1>5. Whole(c) /\ Whole(c)' /\ ~Live(c) /\ ~Live(c)'
    BY <1>4 DEF Whole, Live, Current
  <1>6. /\ batch[c].carry = 0 /\ batch[c].net = batch[c].lines + batch[c].opening
        /\ Settled(c) = {} /\ Filled(c) /\ ~Standing(c) /\ ~journal[c].posted
        /\ provider[c] \notin {"moving", "moved"}
        /\ journal[c].unwound => journal[c].posted
    BY <1>2, <1>5, CalmOn DEF CycleOk, FaceOk, LinesOk, JournalOk, Unsent
  <1>7. CycleOk(c, e)'
    <2>1. FaceOk(c)'
      <3>1. batch[c].net \in Int /\ batch[c].net >= 0
        BY BooksInts DEF PayoutInv
      <3>2. batch'[c].state # "none" /\ batch'[c].net > 0 /\ batch'[c].net >= 0
        BY <1>4, <3>1
      <3> QED BY <1>4, <1>6, <3>2 DEF FaceOk
    <2>2. LinesOk(c, e)'
      BY <1>3, <1>4, <1>6 DEF LinesOk, Filled
    <2>3. JournalOk(c, e)'
      BY <1>3, <1>5, <1>6, CalmOn DEF JournalOk, Standing, On
    <2> QED BY <2>1, <2>2, <2>3 DEF CycleOk
  <1>8. BackingOf(c) \subseteq BackingOf(c)'
    <2>1. BackingOf(c) = {}
      BY <1>6 DEF BackingOf, Negative
    <2> QED BY <2>1
  <1> QED BY <1>5, <1>7, <1>8, StateStep DEF PayoutInv

LEMMA AskSaveBooks ==
    ASSUME PayoutInv, PayoutInv', NEW p \in Procs, NEW d, d = call[p], BooksAt(d),
           AskSave(p)
    PROVE  GoesOn(p)
  <1>1. d.at = "ask" /\ UNCHANGED <<Book, provider>> /\ Transition(p, "pending", "idle")
        /\ "pending" \in States /\ "idle" \in Steps
    BY DEF AskSave, At, States, Steps
  <1>2. d.at \notin Unread /\ d.at \notin Staged
    BY <1>1 DEF Unread, Staged, Computing, Posting, Unwinding
  <1>3. CASE batch' = batch /\ Return(p)
    BY <1>1, <1>2, <1>3, FaceSame, HomeBooks
  <1>4. ASSUME NEW b \in BatchType, batch' = [batch EXCEPT ![d.cycle] = b],
               b.state = "pending", SameSums(b, batch[d.cycle]),
               call' = [call EXCEPT ![p] = Idle]
        PROVE  GoesOn(p)
    <2>1. batch[d.cycle].state = "draft" /\ batch[d.cycle].net > 0
      BY <1>1, <1>2, KnownBatch DEF CopyOk, StepOk, ReadOk, SameFace, SameSums
    <2>2. BooksAt(Idle)'
      BY <1>1, <1>2, <1>4, <2>1, KnownBatch, AtHomeNext, IdleCalm, AskedBooks
    <2> QED BY <1>4, <2>2, IdleTyped DEF GoesOn
  <1> QED BY <1>1, <1>2, <1>3, <1>4, KnownBatch, TransitionEffect

LEMMA ApproveSaveBooks ==
    ASSUME PayoutInv, PayoutInv', NEW p \in Procs, NEW d, d = call[p], BooksAt(d),
           ApproveSave(p)
    PROVE  GoesOn(p)
  <1>1. d.at = "approved" /\ UNCHANGED <<Book, provider>> /\ Transition(p, "approved", "idle")
        /\ "approved" \in States /\ "idle" \in Steps
    BY DEF ApproveSave, At, States, Steps
  <1>2. d.at \notin Unread /\ d.at \notin Staged
    BY <1>1 DEF Unread, Staged, Computing, Posting, Unwinding
  <1>3. CASE batch' = batch /\ Return(p)
    BY <1>1, <1>2, <1>3, FaceSame, HomeBooks
  <1>4. ASSUME NEW b \in BatchType, batch' = [batch EXCEPT ![d.cycle] = b],
               b.state = "approved", SameSums(b, batch[d.cycle]),
               call' = [call EXCEPT ![p] = Idle]
        PROVE  GoesOn(p)
    <2>1. batch[d.cycle].state = "pending" /\ batch[d.cycle].net > 0
      BY <1>1, <1>2, KnownBatch DEF CopyOk, SameFace, CycleOk, FaceOk, Asked, Current
    <2>2. BooksAt(Idle)'
      BY <1>1, <1>2, <1>4, <2>1, KnownBatch, AtHomeNext, IdleCalm, AskedBooks
    <2> QED BY <1>4, <2>2, IdleTyped DEF GoesOn
  <1> QED BY <1>1, <1>2, <1>3, <1>4, KnownBatch, TransitionEffect

LEMMA RejectSaveBooks ==
    ASSUME PayoutInv, PayoutInv', NEW p \in Procs, NEW d, d = call[p], BooksAt(d),
           RejectSave(p)
    PROVE  GoesOn(p)
  <1>1. d.at = "reject" /\ UNCHANGED <<Book, provider>> /\ Transition(p, "rejected", "idle")
        /\ "rejected" \in States /\ "idle" \in Steps
    BY DEF RejectSave, At, States, Steps
  <1>2. d.at \notin Unread /\ d.at \notin Staged
    BY <1>1 DEF Unread, Staged, Computing, Posting, Unwinding
  <1>3. CASE batch' = batch /\ Return(p)
    BY <1>1, <1>2, <1>3, FaceSame, HomeBooks
  <1>4. ASSUME NEW b \in BatchType, batch' = [batch EXCEPT ![d.cycle] = b],
               b.state = "rejected", SameSums(b, batch[d.cycle]),
               call' = [call EXCEPT ![p] = Idle]
        PROVE  GoesOn(p)
    <2>1. batch[d.cycle].state = "pending" /\ batch[d.cycle].net > 0
      BY <1>1, <1>2, KnownBatch DEF CopyOk, SameFace, CycleOk, FaceOk, Asked, Current
    <2>2. BooksAt(Idle)'
      BY <1>1, <1>2, <1>4, <2>1, KnownBatch, AtHomeNext, IdleCalm, AskedBooks
    <2> QED BY <1>4, <2>2, IdleTyped DEF GoesOn
  <1> QED BY <1>1, <1>2, <1>3, <1>4, KnownBatch, TransitionEffect

LEMMA SubmitQueueBooks ==
    ASSUME PayoutInv, PayoutInv', NEW p \in Procs, NEW d, d = call[p], BooksAt(d),
           SubmitQueue(p)
    PROVE  GoesOn(p)
  <1>1. d.at = "queue" /\ UNCHANGED <<Book, provider>> /\ Transition(p, "queued", "process")
        /\ "queued" \in States /\ "process" \in Steps
    BY DEF SubmitQueue, At, States, Steps
  <1>2. d.at \notin Unread /\ d.at \notin Staged
    BY <1>1 DEF Unread, Staged, Computing, Posting, Unwinding
  <1>3. CASE batch' = batch /\ Return(p)
    BY <1>1, <1>2, <1>3, FaceSame, HomeBooks
  <1>4. ASSUME NEW b \in BatchType, batch' = [batch EXCEPT ![d.cycle] = b],
               b.state = "queued", SameSums(b, batch[d.cycle]),
               b.version = batch[d.cycle].version,
               NEW e \in CallType, call' = [call EXCEPT ![p] = e], Follows(p, e, "queued", "process")
        PROVE  GoesOn(p)
    <2>1. batch[d.cycle].state = "approved" /\ batch[d.cycle].net > 0
      BY <1>1, <1>2, KnownBatch DEF StepOk, ReadOk, SameFace, CycleOk, FaceOk, Asked, Current
    <2>2. batch'[d.cycle] = b
      BY <1>2, <1>4, KnownBatch DEF PayoutInv, TypeOK
    <2>3. StepOk(e)'
      <3>1. ReadOk(e)'
        BY <1>1, <1>2, <1>4, <2>2, KnownBatch DEF Follows, Alike, ReadOk, SameFace, SameSums
      <3>2. ItemsOk(e)' /\ ComputeOk(e)' /\ LeaveOk(e)'
        BY <1>4 DEF Follows, ItemsOk, ComputeOk, LeaveOk, Computing
      <3> QED BY <3>1, <3>2 DEF StepOk
    <2>4. e.at \notin Staged /\ e.at # "idle"
      BY <1>4 DEF Follows, Staged, Computing, Posting, Unwinding
    <2>5. BooksAt(e)'
      BY <1>1, <1>2, <1>4, <2>1, <2>3, <2>4, KnownBatch, AskedBooks
    <2> QED BY <1>4, <2>4, <2>5 DEF GoesOn
  <1> QED BY <1>1, <1>2, <1>3, <1>4, KnownBatch, TransitionEffect

LEMMA CancelSaveBooks ==
    ASSUME PayoutInv, PayoutInv', NEW p \in Procs, NEW d, d = call[p], BooksAt(d),
           CancelSave(p)
    PROVE  GoesOn(p)
  <1>1. d.at = "cancel" /\ UNCHANGED <<Book, provider>> /\ Transition(p, "cancelled", "release")
        /\ "cancelled" \in States /\ "release" \in Steps
    BY DEF CancelSave, At, States, Steps
  <1>2. d.at \notin Unread /\ d.at \notin Staged
    BY <1>1 DEF Unread, Staged, Computing, Posting, Unwinding
  <1>3. CASE batch' = batch /\ Return(p)
    BY <1>1, <1>2, <1>3, FaceSame, HomeBooks
  <1>4. ASSUME NEW b \in BatchType, batch' = [batch EXCEPT ![d.cycle] = b],
               b.state = "cancelled", SameSums(b, batch[d.cycle]),
               b.version = batch[d.cycle].version,
               NEW e \in CallType, call' = [call EXCEPT ![p] = e],
               Follows(p, e, "cancelled", "release")
        PROVE  GoesOn(p)
    <2>1. PICK c \in Cycles : c = d.cycle
      BY <1>2, KnownBatch
    <2>2. /\ batch[c].state \in {"draft", "pending", "approved", "queued", "failed"}
          /\ batch[c].carry # 0 => Applied(c) = {}
      BY <1>1, <1>2, <2>1, KnownBatch DEF StepOk, LeaveOk, SameFace
    <2>3. batch'[c] = b
      BY <1>4, <2>1 DEF PayoutInv, TypeOK
    <2>4. /\ Batched(c)' = Batched(c) /\ Settled(c)' = Settled(c) /\ Applied(c)' = Applied(c)
          /\ journal'[c] = journal[c] /\ provider'[c] = provider[c]
      BY <1>1, BookHolds DEF Holds
    <2>5. /\ batch'[c].carry = batch[c].carry /\ batch'[c].opening = batch[c].opening
          /\ batch'[c].net = batch[c].net /\ batch'[c].lines = batch[c].lines
          /\ batch'[c].state = "cancelled"
      BY <1>4, <2>1, <2>3 DEF SameSums
    <2>6. ~Whole(c)' /\ ~Live(c) /\ ~Live(c)'
      BY <2>2, <2>5 DEF Whole, Live, Current
    <2>7. CycleOk(c, e)'
      <3>1. CycleOk(c, d)
        BY <1>2, <2>1, KnownBatch
      <3>2. ~Standing(c) /\ provider[c] \notin {"moving", "moved"} /\ batch[c].net >= 0
            /\ (journal[c].unwound => journal[c].posted)
        BY <1>2, <2>6, <3>1, CalmOn DEF CycleOk, JournalOk, FaceOk
      <3>3. FaceOk(c)'
        BY <2>5, <2>6, <3>2 DEF FaceOk, Asked, Current, Carriers
      <3>4. LinesOk(c, e)'
        BY <2>5, <2>6 DEF LinesOk
      <3>5. JournalOk(c, e)'
        BY <1>4, <2>4, <2>5, <2>6, <3>2 DEF JournalOk, Standing, On, Posting, Unwinding, Unsent, Follows
      <3> QED BY <3>3, <3>4, <3>5 DEF CycleOk
    <2>8. StepOk(e)'
      <3>1. ReadOk(e)'
        BY <1>1, <1>2, <1>4, <2>1, <2>3, KnownBatch DEF Follows, Alike, ReadOk, SameFace, SameSums
      <3>2. LeaveOk(e)'
        BY <1>4, <2>1, <2>2, <2>4, <2>5 DEF Follows, Alike, LeaveOk
      <3>3. ItemsOk(e)' /\ ComputeOk(e)'
        BY <1>4 DEF Follows, ItemsOk, ComputeOk, Computing
      <3> QED BY <3>1, <3>2, <3>3 DEF StepOk
    <2>9. e.at \notin Staged /\ e.at # "idle"
      BY <1>4 DEF Follows, Staged, Computing, Posting, Unwinding
    <2>a. BackingOf(c) \subseteq BackingOf(c)'
      BY <2>4, <2>5 DEF BackingOf, Negative
    <2>b. BooksAt(e)'
      BY <1>1, <1>2, <1>4, <2>1, <2>6, <2>7, <2>8, <2>9, <2>a, StateStep DEF PayoutInv
    <2> QED BY <1>4, <2>9, <2>b DEF GoesOn
  <1> QED BY <1>1, <1>2, <1>3, <1>4, KnownBatch, TransitionEffect

LEMMA MarkPaidBooks ==
    ASSUME PayoutInv, PayoutInv', NEW p \in Procs, NEW d, d = call[p], BooksAt(d),
           MarkPaid(p)
    PROVE  GoesOn(p)
  <1>1. d.at = "paid" /\ UNCHANGED <<Book, provider>> /\ Transition(p, "paid", "settle")
        /\ "paid" \in States /\ "settle" \in Steps
    BY DEF MarkPaid, At, States, Steps
  <1>2. d.at \notin Unread /\ d.at \notin Staged
    BY <1>1 DEF Unread, Staged, Computing, Posting, Unwinding
  <1>3. CASE batch' = batch /\ Return(p)
    BY <1>1, <1>2, <1>3, FaceSame, HomeBooks
  <1>4. ASSUME NEW b \in BatchType, batch' = [batch EXCEPT ![d.cycle] = b],
               b.state = "paid", SameSums(b, batch[d.cycle]),
               b.version = batch[d.cycle].version,
               NEW e \in CallType, call' = [call EXCEPT ![p] = e],
               Follows(p, e, "paid", "settle")
        PROVE  GoesOn(p)
    <2>1. PICK c \in Cycles : c = d.cycle
      BY <1>2, KnownBatch
    <2>2. batch[c].state = "processing"
      BY <1>1, <1>2, <2>1, KnownBatch DEF CopyOk, InFlight, SameFace
    <2>3. batch'[c] = b
      BY <1>4, <2>1 DEF PayoutInv, TypeOK
    <2>4. /\ Batched(c)' = Batched(c) /\ Settled(c)' = Settled(c) /\ Applied(c)' = Applied(c)
          /\ journal'[c] = journal[c] /\ provider'[c] = provider[c]
      BY <1>1, BookHolds DEF Holds
    <2>5. /\ batch'[c].carry = batch[c].carry /\ batch'[c].opening = batch[c].opening
          /\ batch'[c].net = batch[c].net /\ batch'[c].lines = batch[c].lines
          /\ batch'[c].state = "paid"
      BY <1>4, <2>1, <2>3 DEF SameSums
    <2>6. CycleOk(c, d) /\ ~On(d, c, Computing) /\ ~On(d, c, Posting) /\ ~On(d, c, Unwinding)
      BY <1>2, <2>1, KnownBatch, CalmOn
    <2>7. Whole(c) /\ Whole(c)' /\ Live(c) /\ Live(c)'
      BY <2>2, <2>5, <2>6 DEF Whole, Live, Current, Asked, CycleOk, FaceOk
    <2>8. CycleOk(c, e)'
      <3>1. /\ batch[c].net > 0 /\ batch[c].carry = 0
            /\ batch[c].net = batch[c].lines + batch[c].opening
            /\ Filled(c) /\ Standing(c) /\ journal[c].drained = batch[c].lines + batch[c].opening
            /\ (journal[c].unwound => journal[c].posted)
        BY <2>6, <2>7 DEF CycleOk, FaceOk, LinesOk, JournalOk, Whole
      <3>2. FaceOk(c)'
        <4>1. batch'[c].net >= 0 /\ batch'[c].state # "none"
          BY <2>1, <2>5, <2>6 DEF CycleOk, FaceOk
        <4> QED BY <2>5, <3>1, <4>1 DEF FaceOk
      <3>3. LinesOk(c, e)'
        BY <2>4, <2>5, <3>1 DEF LinesOk, Filled
      <3>4. JournalOk(c, e)'
        BY <1>4, <2>4, <2>5, <2>7, <3>1 DEF JournalOk, Standing, On, Posting, Unwinding, Unsent, Follows
      <3> QED BY <3>2, <3>3, <3>4 DEF CycleOk
    <2>9. StepOk(e)'
      <3>1. ReadOk(e)'
        BY <1>1, <1>2, <1>4, <2>1, <2>3, KnownBatch DEF Follows, Alike, ReadOk, SameFace, SameSums
      <3>2. LeaveOk(e)'
        BY <1>1, <1>2, <1>4, <2>1, <2>4, KnownBatch DEF Follows, Alike, StepOk, LeaveOk
      <3>3. ItemsOk(e)' /\ ComputeOk(e)'
        BY <1>4 DEF Follows, ItemsOk, ComputeOk, Computing
      <3> QED BY <3>1, <3>2, <3>3 DEF StepOk
    <2>a. e.at \notin Staged /\ e.at # "idle"
      BY <1>4 DEF Follows, Staged, Computing, Posting, Unwinding
    <2>b. BackingOf(c) \subseteq BackingOf(c)'
      BY <2>2, <2>4, <2>5 DEF BackingOf, Negative
    <2>c. BooksAt(e)'
      BY <1>1, <1>2, <1>4, <2>1, <2>7, <2>8, <2>9, <2>a, <2>b, StateStep DEF PayoutInv
    <2> QED BY <1>4, <2>a, <2>c DEF GoesOn
  <1> QED BY <1>1, <1>2, <1>3, <1>4, KnownBatch, TransitionEffect

-----------------------------------------------------------------------------
(* Steps that move the money of a batch to the other side. *)

\* The share of a batch whose lines and adjustments make up what it says.
LEMMA FilledShare ==
    ASSUME TypeOK, NEW c \in Cycles, batch[c].carry = 0, Filled(c)
    PROVE  /\ Live(c) => Share(c) = batch[c].lines
                                      - (IF Standing(c) THEN journal[c].drained ELSE 0)
           /\ ~Live(c) => Share(c) = Worth(Settled(c)) - batch[c].opening
                                       - (IF Standing(c) THEN journal[c].drained ELSE 0)
           /\ Worth(Settled(c)) \in Int
  <1>1. Batched(c) \cup Settled(c) \in SUBSET Items /\ Settled(c) \in SUBSET Items
        /\ Applied(c) \in SUBSET Adjustments
    BY BooksSets
  <1>2. /\ Worth(Batched(c) \cup Settled(c)) \in Int /\ Worth(Settled(c)) \in Int
        /\ Cardinality(Applied(c)) \in Nat
    BY <1>1, WorthSum, SetsFinite
  <1>3. /\ batch[c].lines \in Int /\ batch[c].opening \in Int /\ journal[c].drained \in Int
    BY BooksInts
  <1>4. PICK s \in Int : s = IF Standing(c) THEN journal[c].drained ELSE 0
    BY <1>3
  <1>5. CASE Live(c)
    <2>1. ~Pinned(c)
      BY <1>5 DEF Pinned
    <2>2. GoneOf(c) = Batched(c) \cup Settled(c) /\ UsedOf(c) = Applied(c) /\ Entry(c) = s
      BY <1>4, <2>1 DEF GoneOf, UsedOf, Entry
    <2>3. Share(c) = batch[c].lines - s
      BY <1>2, <1>3, <2>2 DEF Share, Filled
    <2> QED BY <1>2, <1>4, <1>5, <2>3
  <1>6. CASE ~Live(c)
    <2>1. Pinned(c)
      BY <1>6 DEF Pinned
    <2>2. GoneOf(c) = Settled(c) /\ UsedOf(c) = {} /\ Entry(c) = batch[c].opening + s
      BY <1>3, <1>4, <2>1 DEF GoneOf, UsedOf, Entry
    <2>3. Cardinality({}) = 0
      BY FS_EmptySet
    <2>4. Share(c) = Worth(Settled(c)) - batch[c].opening - s
      BY <1>2, <1>3, <2>2, <2>3 DEF Share
    <2> QED BY <1>2, <1>4, <1>6, <2>4
  <1> QED BY <1>5, <1>6

LEMMA FilledShareNext ==
    ASSUME TypeOK', NEW c \in Cycles, batch'[c].carry = 0, Filled(c)'
    PROVE  /\ Live(c)' => Share(c)' = batch'[c].lines
                                      - (IF Standing(c)' THEN journal'[c].drained ELSE 0)
           /\ ~Live(c)' => Share(c)' = Worth(Settled(c)') - batch'[c].opening
                                       - (IF Standing(c)' THEN journal'[c].drained ELSE 0)
           /\ Worth(Settled(c)') \in Int
  <1>1. Batched(c)' \cup Settled(c)' \in SUBSET Items /\ Settled(c)' \in SUBSET Items
        /\ Applied(c)' \in SUBSET Adjustments
    BY BooksSetsNext
  <1>2. /\ Worth(Batched(c)' \cup Settled(c)') \in Int /\ Worth(Settled(c)') \in Int
        /\ Cardinality(Applied(c)') \in Nat
    BY <1>1, WorthSum, SetsFinite
  <1>3. /\ batch'[c].lines \in Int /\ batch'[c].opening \in Int /\ journal'[c].drained \in Int
    BY BooksIntsNext
  <1>4. PICK s \in Int : s = IF Standing(c)' THEN journal'[c].drained ELSE 0
    BY <1>3
  <1>5. CASE Live(c)'
    <2>1. ~Pinned(c)'
      BY <1>5 DEF Pinned
    <2>2. GoneOf(c)' = Batched(c)' \cup Settled(c)' /\ UsedOf(c)' = Applied(c)' /\ Entry(c)' = s
      BY <1>4, <2>1 DEF GoneOf, UsedOf, Entry
    <2>3. Share(c)' = batch'[c].lines - s
      BY <1>2, <1>3, <2>2 DEF Share, Filled
    <2> QED BY <1>2, <1>4, <1>5, <2>3
  <1>6. CASE ~Live(c)'
    <2>1. Pinned(c)'
      BY <1>6 DEF Pinned
    <2>2. GoneOf(c)' = Settled(c)' /\ UsedOf(c)' = {} /\ Entry(c)' = batch'[c].opening + s
      BY <1>3, <1>4, <2>1 DEF GoneOf, UsedOf, Entry
    <2>3. Cardinality({}) = 0
      BY FS_EmptySet
    <2>4. Share(c)' = Worth(Settled(c)') - batch'[c].opening - s
      BY <1>2, <1>3, <2>2, <2>3 DEF Share
    <2> QED BY <1>2, <1>4, <1>6, <2>4
  <1> QED BY <1>5, <1>6

\* The state of a whole batch changes, and its money may change sides.
LEMMA FlipStep ==
    ASSUME PayoutInv, TypeOK', NEW d, NEW e, BooksAt(d), NEW c \in Cycles, NEW b,
           batch' = [batch EXCEPT ![c] = b], SameSums(b, batch[c]), UNCHANGED <<Book, provider>>,
           e.cycle = c, Whole(c), Filled(c), d.at \notin Staged,
           batch[c].state \in {"queued", "processing", "paid"},
           b.state \in {"processing", "failed", "reversed"},
           e.at \in {"stamp", "unwind"}, StepOk(e)', CycleOk(c, e)',
           GapOf(e)' = (IF Live(c)' THEN batch[c].lines
                        ELSE Worth(Settled(c)) - batch[c].opening)
                       - (IF Live(c) THEN batch[c].lines
                          ELSE Worth(Settled(c)) - batch[c].opening)
    PROVE  BooksAt(e)'
  <1>1. batch'[c] = b /\ \A x \in Cycles \ {c} : batch'[x] = batch[x]
    BY DEF PayoutInv, TypeOK
  <1>2. \A x \in Cycles \ {c} : Keeps(x) /\ SameStage(d, e, x)
    <2>1. \A x \in Cycles \ {c} : SameStage(d, e, x)
      BY CalmOn DEF SameStage, On
    <2> QED BY <1>1, <2>1, BookHolds, FaceSame DEF Keeps
  <1>3. Placed' /\ \A a \in Adjustments : adjusted'[a].added = adjusted[a].added
    BY BookHolds DEF BooksAt, OrderAt
  <1>4. /\ Batched(c)' = Batched(c) /\ Settled(c)' = Settled(c) /\ Applied(c)' = Applied(c)
        /\ journal'[c] = journal[c]
    BY BookHolds DEF Holds
  <1>5. /\ batch'[c].carry = batch[c].carry /\ batch'[c].opening = batch[c].opening
        /\ batch'[c].net = batch[c].net /\ batch'[c].lines = batch[c].lines
        /\ batch[c].carry = 0
    BY <1>1 DEF SameSums, BooksAt, OrderAt, CycleOk, FaceOk
  <1>6. PICK s : s = IF Standing(c) THEN journal[c].drained ELSE 0
    OBVIOUS
  <1>7. /\ Share(c) = (IF Live(c) THEN batch[c].lines
                       ELSE Worth(Settled(c)) - batch[c].opening) - s
        /\ Worth(Settled(c)) \in Int
    BY <1>5, <1>6, FilledShare DEF PayoutInv
  <1>8. Share(c)' = (IF Live(c)' THEN batch[c].lines
                     ELSE Worth(Settled(c)) - batch[c].opening) - s
    <2>1. Filled(c)'
      BY <1>4, <1>5 DEF Filled
    <2>2. s = IF Standing(c)' THEN journal'[c].drained ELSE 0
      BY <1>4, <1>6 DEF Standing
    <2>3. Worth(Settled(c)') = Worth(Settled(c))
      BY <1>4
    <2> QED BY <1>5, <2>1, <2>2, <2>3, FilledShareNext
  <1>9. s \in Int /\ batch[c].lines \in Int /\ batch[c].opening \in Int
    BY <1>6, BooksInts DEF PayoutInv
  <1>a. GapOf(d) = 0 /\ Slack(d) = 0
    BY Calm
  <1>b. Slack(e)' = 0
    BY DEF Slack, Unbacked
  <1>c. GapOf(e)' = GapOf(d) + Share(c)' - Share(c)
    BY <1>7, <1>8, <1>9, <1>a
  <1>d. BackingOf(c) = {} /\ BackingOf(c)' = {}
    BY <1>1, <1>5 DEF BackingOf, Negative
  <1>e. Borrowed(c)' = Borrowed(c) /\ Borrowed(c) \in Nat
    BY <1>5, BooksInts DEF Borrowed, PayoutInv
  <1>f. Borrowed(c)' + Cardinality(BackingOf(c)) + Slack(d)
            <= Borrowed(c) + Cardinality(BackingOf(c)') + Slack(e)'
    <2>1. Cardinality({}) = 0
      BY FS_EmptySet
    <2>2. Cardinality(BackingOf(c)) = 0 /\ Cardinality(BackingOf(c)') = 0
      BY <1>d, <2>1
    <2> QED BY <1>a, <1>b, <1>e, <2>2
  <1>g. Slack(d) \in Int /\ Slack(e)' \in Int /\ provider' = provider /\ TypeOK
    BY <1>a, <1>b DEF PayoutInv
  <1> QED BY <1>2, <1>3, <1>5, <1>c, <1>f, <1>g, BooksStep

LEMMA SubmitProcessBooks ==
    ASSUME PayoutInv, PayoutInv', NEW p \in Procs, NEW d, d = call[p], BooksAt(d),
           SubmitProcess(p)
    PROVE  GoesOn(p)
  <1>1. d.at = "process" /\ UNCHANGED <<Book, provider>> /\ Transition(p, "processing", "stamp")
        /\ "processing" \in States /\ "stamp" \in Steps
    BY DEF SubmitProcess, At, States, Steps
  <1>2. d.at \notin Unread /\ d.at \notin Staged
    BY <1>1 DEF Unread, Staged, Computing, Posting, Unwinding
  <1>3. CASE batch' = batch /\ Return(p)
    BY <1>1, <1>2, <1>3, FaceSame, HomeBooks
  <1>4. ASSUME NEW b \in BatchType, batch' = [batch EXCEPT ![d.cycle] = b],
               b.state = "processing", SameSums(b, batch[d.cycle]),
               b.version = batch[d.cycle].version,
               NEW e \in CallType, call' = [call EXCEPT ![p] = e],
               Follows(p, e, "processing", "stamp")
        PROVE  GoesOn(p)
    <2>1. PICK c \in Cycles : c = d.cycle
      BY <1>2, KnownBatch
    <2>2. batch[c].state = "queued"
      BY <1>1, <1>2, <2>1, KnownBatch DEF CopyOk, SameFace
    <2>3. batch'[c] = b
      BY <1>4, <2>1 DEF PayoutInv, TypeOK
    <2>4. /\ Batched(c)' = Batched(c) /\ Settled(c)' = Settled(c) /\ Applied(c)' = Applied(c)
          /\ journal'[c] = journal[c] /\ provider'[c] = provider[c]
      BY <1>1, BookHolds DEF Holds
    <2>5. /\ batch'[c].carry = batch[c].carry /\ batch'[c].opening = batch[c].opening
          /\ batch'[c].net = batch[c].net /\ batch'[c].lines = batch[c].lines
          /\ batch'[c].state = "processing"
      BY <1>4, <2>1, <2>3 DEF SameSums
    <2>6. CycleOk(c, d) /\ ~On(d, c, Computing) /\ ~On(d, c, Posting) /\ ~On(d, c, Unwinding)
      BY <1>2, <2>1, KnownBatch, CalmOn
    <2>7. Whole(c) /\ Whole(c)' /\ ~Live(c) /\ Live(c)'
      BY <2>2, <2>5, <2>6 DEF Whole, Live, Current, Asked, CycleOk, FaceOk
    <2>8. /\ batch[c].net > 0 /\ batch[c].carry = 0
          /\ batch[c].net = batch[c].lines + batch[c].opening
          /\ Settled(c) = {} /\ Filled(c) /\ ~Standing(c) /\ ~journal[c].posted
          /\ (journal[c].unwound => journal[c].posted)
          /\ batch[c].net >= 0
      BY <2>2, <2>6, <2>7 DEF CycleOk, FaceOk, LinesOk, JournalOk, Whole, Unsent
    <2>9. e.at = "stamp" /\ e.cycle = c
      BY <1>2, <1>4, <2>1, KnownBatch DEF Follows
    <2>a. CycleOk(c, e)'
      <3>1. FaceOk(c)'
        BY <2>5, <2>8 DEF FaceOk
      <3>2. LinesOk(c, e)'
        BY <2>4, <2>5, <2>8 DEF LinesOk, Filled
      <3>3. JournalOk(c, e)'
        BY <2>4, <2>7, <2>8, <2>9 DEF JournalOk, Standing, On, Posting, Unwinding
      <3> QED BY <3>1, <3>2, <3>3 DEF CycleOk
    <2>b. StepOk(e)'
      <3>1. ReadOk(e)'
        BY <1>1, <1>2, <1>4, <2>1, <2>3, KnownBatch DEF Follows, Alike, ReadOk, SameFace, SameSums
      <3>2. ItemsOk(e)' /\ ComputeOk(e)' /\ LeaveOk(e)'
        BY <2>9 DEF ItemsOk, ComputeOk, LeaveOk, Computing
      <3> QED BY <3>1, <3>2 DEF StepOk
    <2>c. GapOf(e)' = batch[c].lines + batch[c].opening
      BY <2>5, <2>9 DEF GapOf, Posting
    <2>d. Worth(Settled(c)) = 0 /\ batch[c].lines \in Int /\ batch[c].opening \in Int
      BY <2>8, WorthNone, BooksInts DEF PayoutInv
    <2>e. GapOf(e)' = (IF Live(c)' THEN batch[c].lines
                        ELSE Worth(Settled(c)) - batch[c].opening)
                       - (IF Live(c) THEN batch[c].lines
                          ELSE Worth(Settled(c)) - batch[c].opening)
      BY <2>7, <2>c, <2>d
    <2>f. SameSums(b, batch[c]) /\ batch' = [batch EXCEPT ![c] = b]
      BY <1>4, <2>1
    <2>g. BooksAt(e)'
      BY <1>1, <1>2, <1>4, <2>2, <2>7, <2>8, <2>9, <2>a, <2>b, <2>e, <2>f, FlipStep DEF PayoutInv
    <2> QED BY <1>4, <2>9, <2>g DEF GoesOn
  <1> QED BY <1>1, <1>2, <1>3, <1>4, KnownBatch, TransitionEffect

\* What is taken back was whole, and its journal stands until the next step.
LEMMA TakenBack ==
    ASSUME PayoutInv, PayoutInv', NEW p \in Procs, NEW d, d = call[p], BooksAt(d),
           UNCHANGED <<Book, provider>>, d.at \in {"failed", "reverse"},
           NEW b \in BatchType, batch' = [batch EXCEPT ![d.cycle] = b],
           SameSums(b, batch[d.cycle]), b.version = batch[d.cycle].version,
           b.state = d.outcome, d.outcome \in {"failed", "reversed"},
           batch[d.cycle].state \in {"processing", "paid"},
           d.outcome = "reversed" => Applied(d.cycle) = {},
           d.outcome = "failed" => batch[d.cycle].state = "processing",
           provider[d.cycle] \notin {"moving", "moved"},
           NEW e \in CallType, call' = [call EXCEPT ![p] = e],
           Follows(p, e, b.state, "unwind")
    PROVE  GoesOn(p)
  <1>2. d.at \notin Unread /\ d.at \notin Staged
    BY DEF Unread, Staged, Computing, Posting, Unwinding
  <1>3. PICK c \in Cycles : c = d.cycle
    BY <1>2, KnownBatch
  <1>4. batch'[c] = b
    BY <1>3 DEF PayoutInv, TypeOK
  <1>5. /\ Batched(c)' = Batched(c) /\ Settled(c)' = Settled(c) /\ Applied(c)' = Applied(c)
        /\ journal'[c] = journal[c] /\ provider'[c] = provider[c]
    BY BookHolds DEF Holds
  <1>6. /\ batch'[c].carry = batch[c].carry /\ batch'[c].opening = batch[c].opening
        /\ batch'[c].net = batch[c].net /\ batch'[c].lines = batch[c].lines
        /\ batch'[c].state = d.outcome
    BY <1>3, <1>4 DEF SameSums
  <1>7. CycleOk(c, d) /\ ~On(d, c, Computing) /\ ~On(d, c, Posting) /\ ~On(d, c, Unwinding)
    BY <1>2, <1>3, KnownBatch, CalmOn
  <1>8. Whole(c) /\ ~Whole(c)' /\ Live(c) /\ ~Live(c)'
    BY <1>3, <1>6, <1>7 DEF Whole, Live, Current, Asked, CycleOk, FaceOk
  <1>9. /\ batch[c].net >= 0 /\ batch[c].carry = 0 /\ Filled(c)
        /\ d.outcome = "failed" => Settled(c) = {}
        /\ Standing(c) /\ journal[c].drained = batch[c].lines + batch[c].opening
        /\ (journal[c].unwound => journal[c].posted)
    BY <1>3, <1>7, <1>8 DEF CycleOk, FaceOk, LinesOk, JournalOk, Whole
  <1>a. e.at = "unwind" /\ e.cycle = c /\ e.outcome = d.outcome
    BY <1>2, <1>3, KnownBatch DEF Follows, Alike
  <1>b. CycleOk(c, e)'
    <2>1. FaceOk(c)'
      BY <1>6, <1>8, <1>9 DEF FaceOk, Asked, Current
    <2>2. LinesOk(c, e)'
      BY <1>6, <1>8, <1>9 DEF LinesOk
    <2>3. JournalOk(c, e)'
      BY <1>3, <1>5, <1>6, <1>8, <1>9, <1>a DEF JournalOk, Standing, On, Posting, Unwinding, Unsent
    <2> QED BY <2>1, <2>2, <2>3 DEF CycleOk
  <1>c. StepOk(e)'
    <2>1. ReadOk(e)'
      BY <1>2, <1>3, <1>4, <1>a, KnownBatch DEF Follows, Alike, ReadOk, SameFace, SameSums
    <2>2. LeaveOk(e)'
      <3>1. Filled(c)'
        BY <1>5, <1>6, <1>9 DEF Filled
      <3> QED BY <1>3, <1>5, <1>6, <1>9, <1>a, <3>1 DEF LeaveOk
    <2>3. ItemsOk(e)' /\ ComputeOk(e)'
      BY <1>a DEF ItemsOk, ComputeOk, Computing
    <2> QED BY <2>1, <2>2, <2>3 DEF StepOk
  <1>d. GapOf(e)' = Worth(Settled(c)) - batch[c].lines - batch[c].opening
    <2>1. Worth(Settled(c)') = Worth(Settled(c))
      BY <1>5
    <2> QED BY <1>6, <1>a, <2>1 DEF GapOf, Posting
  <1>e. Worth(Settled(c)) \in Int /\ batch[c].lines \in Int /\ batch[c].opening \in Int
    BY BooksSets, WorthSum, BooksInts DEF PayoutInv
  <1>f. GapOf(e)' = (IF Live(c)' THEN batch[c].lines
                      ELSE Worth(Settled(c)) - batch[c].opening)
                     - (IF Live(c) THEN batch[c].lines
                        ELSE Worth(Settled(c)) - batch[c].opening)
    BY <1>8, <1>d, <1>e
  <1>g. SameSums(b, batch[c]) /\ batch' = [batch EXCEPT ![c] = b] /\ batch[c].state \in {"processing", "paid"}
    BY <1>3
  <1>h. b.state \in {"processing", "failed", "reversed"} /\ TypeOK' /\ UNCHANGED <<Book, provider>>
    BY DEF PayoutInv
  <1>i. e.at \in {"stamp", "unwind"} /\ e.cycle = c /\ d.at \notin Staged /\ Whole(c) /\ Filled(c)
    BY <1>2, <1>8, <1>9, <1>a
  <1>j. BooksAt(e)'
    BY <1>b, <1>c, <1>f, <1>g, <1>h, <1>i, FlipStep
  <1> QED BY <1>a, <1>j DEF GoesOn

LEMMA MarkFailedBooks ==
    ASSUME PayoutInv, PayoutInv', NEW p \in Procs, NEW d, d = call[p], BooksAt(d),
           MarkFailed(p), detours' \subseteq {"revived"}
    PROVE  GoesOn(p)
  <1>1. d.at = "failed" /\ UNCHANGED <<Book, provider>> /\ Transition(p, "failed", "unwind")
        /\ "failed" \in States /\ "unwind" \in Steps
    BY DEF MarkFailed, At, States, Steps
  <1>2. d.at \notin Unread /\ d.at \notin Staged
    BY <1>1 DEF Unread, Staged, Computing, Posting, Unwinding
  <1>3. CASE batch' = batch /\ Return(p)
    BY <1>1, <1>2, <1>3, FaceSame, HomeBooks
  <1>4. ASSUME NEW b \in BatchType, batch' = [batch EXCEPT ![d.cycle] = b],
               b.state = "failed", SameSums(b, batch[d.cycle]),
               b.version = batch[d.cycle].version,
               NEW e \in CallType, call' = [call EXCEPT ![p] = e],
               Follows(p, e, "failed", "unwind")
        PROVE  GoesOn(p)
    <2>1. batch[d.cycle].state = "processing" /\ d.outcome = "failed" /\ d.cycle \in Cycles
      BY <1>1, <1>2, KnownBatch DEF CopyOk, InFlight, SameFace, StepOk, LeaveOk
    <2>2. batch'[d.cycle].state = "failed"
      BY <1>4, <2>1 DEF PayoutInv, TypeOK
    <2>3. provider[d.cycle] \notin {"moving", "moved"}
      BY <1>1, <2>1, <2>2 DEF PayoutInv, Counted
    <2> QED BY <1>1, <1>4, <2>1, <2>3, TakenBack
  <1> QED BY <1>1, <1>2, <1>3, <1>4, KnownBatch, TransitionEffect

LEMMA MarkReversedBooks ==
    ASSUME PayoutInv, PayoutInv', NEW p \in Procs, NEW d, d = call[p], BooksAt(d),
           MarkReversed(p), detours' \subseteq {"revived"}
    PROVE  GoesOn(p)
  <1>1. d.at = "reverse" /\ UNCHANGED <<Book, provider>> /\ Transition(p, "reversed", "unwind")
        /\ "reversed" \in States /\ "unwind" \in Steps
    BY DEF MarkReversed, At, States, Steps
  <1>2. d.at \notin Unread /\ d.at \notin Staged
    BY <1>1 DEF Unread, Staged, Computing, Posting, Unwinding
  <1>3. CASE batch' = batch /\ Return(p)
    BY <1>1, <1>2, <1>3, FaceSame, HomeBooks
  <1>4. ASSUME NEW b \in BatchType, batch' = [batch EXCEPT ![d.cycle] = b],
               b.state = "reversed", SameSums(b, batch[d.cycle]),
               b.version = batch[d.cycle].version,
               NEW e \in CallType, call' = [call EXCEPT ![p] = e],
               Follows(p, e, "reversed", "unwind")
        PROVE  GoesOn(p)
    <2>1. batch[d.cycle].state = "paid" /\ d.outcome = "reversed" /\ d.cycle \in Cycles
          /\ provider[d.cycle] = "bounced" /\ Cycle(p) = d.cycle
      BY <1>1, <1>2, KnownBatch DEF CopyOk, SameFace, StepOk, LeaveOk
    <2>2. Applied(d.cycle) = {}
      BY <2>1 DEF MarkReversed, Applied
    <2> QED BY <1>1, <1>4, <2>1, <2>2, TakenBack
  <1> QED BY <1>1, <1>2, <1>3, <1>4, KnownBatch, TransitionEffect

-----------------------------------------------------------------------------
(* Steps that post a journal or take it back. *)

LEMMA JournalStep ==
    ASSUME PayoutInv, TypeOK', NEW d, NEW e, BooksAt(d), NEW c \in Cycles, NEW j,
           journal' = [journal EXCEPT ![c] = j], UNCHANGED <<line, batch, adjusted, provider>>,
           d.cycle = c, e.cycle = c, d.at \in {"post", "unwind"}, e.at \in {"ids", "unwound"},
           StepOk(e)', CycleOk(c, e)',
           GapOf(e)' = GapOf(d) + Entry(c) - Entry(c)'
    PROVE  BooksAt(e)'
  <1>1. journal'[c] = j /\ \A x \in Cycles \ {c} : journal'[x] = journal[x]
    BY DEF PayoutInv, TypeOK
  <1>2. \A x : Batched(x)' = Batched(x) /\ Settled(x)' = Settled(x) /\ Applied(x)' = Applied(x)
    BY DEF Batched, Settled, Applied, LinesOf
  <1>3. \A x \in Cycles \ {c} : Keeps(x) /\ SameStage(d, e, x)
    <2>1. \A x \in Cycles \ {c} : SameStage(d, e, x)
      BY DEF SameStage, On
    <2> QED BY <1>1, <1>2, <2>1, FaceSame DEF Keeps, Holds
  <1>4. Placed /\ Placed' /\ \A a \in Adjustments : adjusted'[a].added = adjusted[a].added
    BY DEF BooksAt, OrderAt, Placed
  <1>5. Share(c)' = Share(c) + Entry(c) - Entry(c)' /\ Share(c) \in Int
    <2>1. Pinned(c)' <=> Pinned(c)
      BY DEF Pinned, Live
    <2>2. GoneOf(c)' = GoneOf(c) /\ UsedOf(c)' = UsedOf(c)
      BY <1>2, <2>1 DEF GoneOf, UsedOf
    <2>3. Worth(GoneOf(c)) \in Int /\ Cardinality(UsedOf(c)) \in Nat
      <3>1. GoneOf(c) \in SUBSET Items /\ UsedOf(c) \in SUBSET Adjustments
        BY <1>4, GoneParts DEF PayoutInv
      <3> QED BY <3>1, WorthSum, SetsFinite
    <2>4. Entry(c) \in Int /\ Entry(c)' \in Int
      BY BooksInts, BooksIntsNext DEF PayoutInv
    <2>5. Worth(GoneOf(c)') = Worth(GoneOf(c)) /\ Cardinality(UsedOf(c)') = Cardinality(UsedOf(c))
      BY <2>2
    <2> QED BY <2>3, <2>4, <2>5 DEF Share
  <1>6. BackingOf(c)' = BackingOf(c) /\ Borrowed(c)' = Borrowed(c)
    BY <1>2 DEF BackingOf, Negative, Borrowed
  <1>7. Slack(d) = 0 /\ Slack(e)' = 0
    BY DEF Slack, Unbacked
  <1>8. Entry(c) \in Int /\ Entry(c)' \in Int /\ Borrowed(c) \in Nat
    BY BooksInts, BooksIntsNext DEF PayoutInv
  <1>9. Gap \in Int
    BY <1>3, <1>4, GapMoves DEF PayoutInv
  <1>a. GapOf(e)' = GapOf(d) + Share(c)' - Share(c)
    BY <1>5, <1>8, <1>9 DEF BooksAt
  <1>b. Borrowed(c)' + Cardinality(BackingOf(c)) + Slack(d)
            <= Borrowed(c) + Cardinality(BackingOf(c)') + Slack(e)'
    <2>1. BackingOf(c) \in SUBSET Items
      BY <1>4, GoneParts DEF PayoutInv
    <2>2. Cardinality(BackingOf(c)) \in Nat
      BY <2>1, SetsFinite
    <2> QED BY <1>6, <1>7, <1>8, <2>2
  <1>c. Slack(d) \in Int /\ Slack(e)' \in Int /\ provider' = provider /\ TypeOK
        /\ batch'[c].net = batch[c].net
    BY <1>7 DEF PayoutInv
  <1> QED BY <1>3, <1>4, <1>a, <1>b, <1>c, BooksStep

LEMMA SubmitPostBooks ==
    ASSUME PayoutInv, PayoutInv', NEW p \in Procs, NEW d, d = call[p], BooksAt(d),
           SubmitPost(p)
    PROVE  GoesOn(p)
  <1>1. d.at = "post" /\ UNCHANGED <<line, batch, adjusted, provider>> /\ Continue(p, "ids")
        /\ "ids" \in Steps
    BY DEF SubmitPost, At, Steps
  <1>2. d.at \notin Unread
    BY <1>1 DEF Unread, Computing
  <1>3. PICK c \in Cycles : c = d.cycle /\ Cycle(p) = c
    BY <1>2, KnownBatch
  <1>4. PICK e \in CallType : /\ call' = [call EXCEPT ![p] = e] /\ e.at = "ids"
                              /\ Alike(e, d) /\ e.copy = d.copy
    BY <1>1, Continued
  <1>5. e.cycle = c
    BY <1>3, <1>4 DEF Alike
  <1>6. /\ CycleOk(c, d) /\ SameFace(d.copy, batch[c]) /\ d.copy.version = batch[c].version
        /\ batch[c].state = "processing"
        /\ batch[c].lines \in Int /\ batch[c].opening \in Int
    BY <1>1, <1>2, <1>3, KnownBatch DEF CopyOk, InFlight, SameFace
  <1>7. On(d, c, Posting) /\ ~On(d, c, Unwinding) /\ ~On(d, c, Computing)
    BY <1>1, <1>3 DEF On, Posting, Unwinding, Computing
  <1>8. /\ ~journal[c].posted /\ ~journal[c].unwound /\ ~Standing(c) /\ Live(c)
    BY <1>6, <1>7 DEF CycleOk, JournalOk, Standing, Live
  <1>9. PICK j : j = [journal[c] EXCEPT !.posted = TRUE,
                                        !.drained = d.copy.lines + d.copy.opening]
    OBVIOUS
  <1>a. journal' = [journal EXCEPT ![c] = j]
    <2>1. Copy(p) = d.copy
      BY DEF Copy
    <2> QED BY <1>3, <1>8, <1>9, <2>1 DEF SubmitPost
  <1>b. journal'[c] = j /\ j.posted /\ ~j.unwound /\ j.drained = batch[c].lines + batch[c].opening
    <2>1. journal[c] \in JournalType /\ journal'[c] = j
      BY <1>a DEF PayoutInv, TypeOK
    <2>2. j.posted /\ j.unwound = journal[c].unwound /\ j.drained = d.copy.lines + d.copy.opening
      BY <1>9, <2>1 DEF JournalType
    <2> QED BY <1>6, <1>8, <2>1, <2>2 DEF SameFace, SameSums
  <1>c. Standing(c)'
    BY <1>b DEF Standing
  <1>d. \A x : Batched(x)' = Batched(x) /\ Settled(x)' = Settled(x) /\ Applied(x)' = Applied(x)
    BY <1>1 DEF Batched, Settled, Applied, LinesOf
  <1>e. CycleOk(c, e)'
    <2>1. FaceOk(c)'
      BY <1>1, <1>6 DEF CycleOk, FaceOk, Whole
    <2>2. LinesOk(c, e)'
      BY <1>1, <1>6, <1>7, <1>d DEF CycleOk, LinesOk, Whole, Filled
    <2>3. JournalOk(c, e)'
      <3>1. Live(c)' /\ ~On(e, c, Posting) /\ ~On(e, c, Unwinding)
        BY <1>1, <1>4, <1>8 DEF Live, On, Posting, Unwinding
      <3> QED BY <1>1, <1>6, <1>b, <1>c, <3>1 DEF JournalOk, Unsent
    <2> QED BY <2>1, <2>2, <2>3 DEF CycleOk
  <1>f. StepOk(e)'
    <2>1. ReadOk(e)'
      BY <1>1, <1>4, <1>5, <1>6 DEF ReadOk, SameFace, SameSums
    <2>2. ItemsOk(e)' /\ ComputeOk(e)' /\ LeaveOk(e)'
      BY <1>4 DEF ItemsOk, ComputeOk, LeaveOk, Computing
    <2> QED BY <2>1, <2>2 DEF StepOk
  <1>g. GapOf(e)' = GapOf(d) + Entry(c) - Entry(c)'
    <2>1. GapOf(d) = batch[c].lines + batch[c].opening /\ GapOf(e)' = 0
      BY <1>1, <1>3, <1>4 DEF GapOf, Posting
    <2>2. Pinned(c)' <=> Pinned(c)
      BY <1>1 DEF Pinned, Live
    <2>3. PICK n : n = batch[c].carry + (IF Pinned(c) THEN batch[c].opening ELSE 0)
      OBVIOUS
    <2>4. Entry(c) = n + 0 /\ Entry(c)' = n + (batch[c].lines + batch[c].opening)
      BY <1>1, <1>8, <1>b, <1>c, <2>2, <2>3 DEF Entry
    <2>5. n \in Int
      BY <2>3, BooksInts DEF PayoutInv
    <2> QED BY <1>6, <2>1, <2>4, <2>5
  <1>h. BooksAt(e)'
    BY <1>1, <1>3, <1>4, <1>5, <1>a, <1>e, <1>f, <1>g, JournalStep DEF PayoutInv
  <1> QED BY <1>4, <1>h DEF GoesOn

LEMMA UnwindBooks ==
    ASSUME PayoutInv, PayoutInv', NEW p \in Procs, NEW d, d = call[p], BooksAt(d),
           Unwind(p)
    PROVE  GoesOn(p)
  <1>1. d.at = "unwind" /\ UNCHANGED <<line, batch, adjusted, provider>> /\ "unwound" \in Steps
    BY DEF Unwind, At, Steps
  <1>2. d.at \notin Unread
    BY <1>1 DEF Unread, Computing
  <1>3. PICK c \in Cycles : c = d.cycle /\ Cycle(p) = c
    BY <1>2, KnownBatch
  <1>6. /\ CycleOk(c, d) /\ SameFace(d.copy, batch[c]) /\ d.copy.version = batch[c].version
        /\ batch[c].lines \in Int /\ batch[c].opening \in Int /\ LeaveOk(d)
    BY <1>1, <1>2, <1>3, KnownBatch DEF StepOk
  <1>7. ~On(d, c, Posting) /\ On(d, c, Unwinding) /\ ~On(d, c, Computing)
    BY <1>1, <1>3 DEF On, Posting, Unwinding, Computing
  <1>8. /\ Standing(c) /\ journal[c].posted /\ ~journal[c].unwound
        /\ journal[c].drained = batch[c].lines + batch[c].opening
        /\ batch[c].state \in {"failed", "reversed"} /\ ~Live(c)
    BY <1>1, <1>3, <1>6, <1>7 DEF CycleOk, JournalOk, Standing, Live, LeaveOk
  <1>9. PICK j : j = [journal[c] EXCEPT !.unwound = TRUE]
    OBVIOUS
  <1>a. journal' = [journal EXCEPT ![c] = j] /\ Continue(p, "unwound")
    <2>1. journal' = [journal EXCEPT ![c].unwound = TRUE] /\ Continue(p, "unwound")
      BY <1>3, <1>8 DEF Unwind
    <2> QED BY <1>3, <1>9, <2>1
  <1>4. PICK e \in CallType : /\ call' = [call EXCEPT ![p] = e] /\ e.at = "unwound"
                              /\ Alike(e, d) /\ e.copy = d.copy
    BY <1>1, <1>a, Continued
  <1>5. e.cycle = c /\ e.outcome = d.outcome
    BY <1>3, <1>4 DEF Alike
  <1>b. journal'[c] = j /\ j.posted /\ j.unwound
    <2>1. journal[c] \in JournalType /\ journal'[c] = j
      BY <1>a DEF PayoutInv, TypeOK
    <2> QED BY <1>8, <1>9, <2>1 DEF JournalType
  <1>c. ~Standing(c)'
    BY <1>b DEF Standing
  <1>d. \A x : Batched(x)' = Batched(x) /\ Settled(x)' = Settled(x) /\ Applied(x)' = Applied(x)
    BY <1>1 DEF Batched, Settled, Applied, LinesOf
  <1>e. CycleOk(c, e)'
    <2>1. FaceOk(c)'
      BY <1>1, <1>6 DEF CycleOk, FaceOk, Whole
    <2>2. LinesOk(c, e)'
      BY <1>1, <1>6, <1>7, <1>d DEF CycleOk, LinesOk, Whole, Filled
    <2>3. JournalOk(c, e)'
      <3>1. ~Live(c)' /\ ~On(e, c, Posting) /\ ~On(e, c, Unwinding)
        BY <1>1, <1>4, <1>8 DEF Live, On, Posting, Unwinding
      <3>2. provider[c] \in {"moving", "moved"} => Live(c)
        BY <1>6 DEF CycleOk, JournalOk
      <3> QED BY <1>1, <1>8, <1>b, <1>c, <3>1, <3>2 DEF JournalOk, Unsent
    <2> QED BY <2>1, <2>2, <2>3 DEF CycleOk
  <1>f. StepOk(e)'
    <2>1. ReadOk(e)'
      BY <1>1, <1>4, <1>5, <1>6 DEF ReadOk, SameFace, SameSums
    <2>2. LeaveOk(e)'
      BY <1>1, <1>3, <1>4, <1>5, <1>6, <1>d DEF LeaveOk
    <2>3. ItemsOk(e)' /\ ComputeOk(e)'
      BY <1>4 DEF ItemsOk, ComputeOk, Computing
    <2> QED BY <2>1, <2>2, <2>3 DEF StepOk
  <1>g. GapOf(e)' = GapOf(d) + Entry(c) - Entry(c)'
    <2>1. /\ GapOf(d) = Worth(Settled(c)) - batch[c].lines - batch[c].opening
          /\ GapOf(e)' = Worth(Settled(c))
      <3>1. Worth(Settled(c)') = Worth(Settled(c))
        BY <1>d
      <3> QED BY <1>1, <1>3, <1>4, <1>5, <3>1 DEF GapOf, Posting
    <2>2. Pinned(c)' <=> Pinned(c)
      BY <1>1 DEF Pinned, Live
    <2>3. PICK n : n = batch[c].carry + (IF Pinned(c) THEN batch[c].opening ELSE 0)
      OBVIOUS
    <2>4. Entry(c) = n + (batch[c].lines + batch[c].opening) /\ Entry(c)' = n + 0
      BY <1>1, <1>8, <1>c, <2>2, <2>3 DEF Entry
    <2>5. n \in Int /\ Worth(Settled(c)) \in Int
      BY <2>3, BooksInts, BooksSets, WorthSum DEF PayoutInv
    <2> QED BY <1>6, <2>1, <2>4, <2>5
  <1>h. BooksAt(e)'
    BY <1>1, <1>3, <1>4, <1>5, <1>a, <1>e, <1>f, <1>g, JournalStep DEF PayoutInv
  <1> QED BY <1>4, <1>h DEF GoesOn

-----------------------------------------------------------------------------
(* Steps that move the lines of a batch. *)

\* Lines get a new state and a new cycle, or none.
LEMMA SetLinesEffect ==
    ASSUME TypeOK, Placed, NEW items \in SUBSET Items, NEW c \in Cycles,
           NEW s \in {"batched", "paid", "eligible"}, NEW k,
           k = IF s = "eligible" THEN NoCycle ELSE c,
           SetLines(items, s, k), UNCHANGED adjusted,
           \A i \in items : line[i].state # "none",
           \A x \in Cycles \ {c} : items \cap (Batched(x) \cup Settled(x)) = {}
    PROVE  /\ Batched(c)' = (Batched(c) \ items) \cup (IF s = "batched" THEN items ELSE {})
           /\ Settled(c)' = (Settled(c) \ items) \cup (IF s = "paid" THEN items ELSE {})
           /\ \A x \in Cycles \ {c} : Batched(x)' = Batched(x) /\ Settled(x)' = Settled(x)
           /\ \A x : Applied(x)' = Applied(x)
           /\ Placed'
  <1>1. NoCycle \notin Cycles
    BY PayoutAssumption DEF NoCycle
  <1>2. \A i \in Items : line'[i] = IF i \in items THEN [state |-> s, cycle |-> k] ELSE line[i]
    BY DEF SetLines
  <1>3. /\ \A i \in items : i \in Items /\ line'[i].state = s /\ line'[i].cycle = k
        /\ \A i \in Items \ items : line'[i] = line[i]
    BY <1>2
  <1>4. Batched(c)' = (Batched(c) \ items) \cup (IF s = "batched" THEN items ELSE {})
    BY <1>1, <1>3 DEF Batched, LinesOf
  <1>5. Settled(c)' = (Settled(c) \ items) \cup (IF s = "paid" THEN items ELSE {})
    BY <1>1, <1>3 DEF Settled, LinesOf
  <1>6. ASSUME NEW x \in Cycles \ {c}
        PROVE  Batched(x)' = Batched(x) /\ Settled(x)' = Settled(x)
    <2>1. items \cap Batched(x) = {} /\ items \cap Settled(x) = {}
      OBVIOUS
    <2>2. k # x
      BY <1>1
    <2>3. Batched(x)' = Batched(x)
      BY <1>3, <2>1, <2>2 DEF Batched, LinesOf
    <2>4. Settled(x)' = Settled(x)
      BY <1>3, <2>1, <2>2 DEF Settled, LinesOf
    <2> QED BY <2>3, <2>4
  <1>7. \A x : Applied(x)' = Applied(x)
    BY DEF Applied
  <1>8. Placed'
    <2>1. \A i \in Items : line'[i].state \in {"batched", "paid"} => line'[i].cycle \in Cycles
      BY <1>3 DEF Placed
    <2>2. ASSUME NEW l \in Lines
          PROVE  /\ line'[<<l, 1>>].state # "none"
                 /\ line'[<<l, 1>>].state = "reversed" => line'[<<l, -1>>].state = "none"
                 /\ line'[<<l, -1>>].state # "reversed"
      <3>1. <<l, 1>> \in Items /\ <<l, -1>> \in Items
        BY DEF Items
      <3> QED BY <1>3, <3>1 DEF Placed
    <2>3. \A a \in Adjustments : adjusted'[a].cycle # NoCycle => adjusted'[a].added
      BY DEF Placed
    <2> QED BY <2>1, <2>2, <2>3 DEF Placed
  <1> QED BY <1>4, <1>5, <1>6, <1>7, <1>8

LEMMA LinesStep ==
    ASSUME PayoutInv, TypeOK', NEW d, NEW e, BooksAt(d), NEW c \in Cycles,
           NEW items \in SUBSET Items, NEW s \in {"batched", "paid", "eligible"}, NEW k,
           k = IF s = "eligible" THEN NoCycle ELSE c,
           SetLines(items, s, k), UNCHANGED <<batch, adjusted, journal, provider>>,
           \A i \in items : line[i].state # "none",
           \A x \in Cycles \ {c} : items \cap (Batched(x) \cup Settled(x)) = {},
           \A x \in Cycles \ {c} : SameStage(d, e, x),
           StepOk(e)', CycleOk(c, e)',
           GapOf(e)' = GapOf(d) + Worth(GoneOf(c)') - Worth(GoneOf(c)),
           Slack(d) \in Int, Slack(e)' \in Int,
           Cardinality(BackingOf(c)) + Slack(d) <= Cardinality(BackingOf(c)') + Slack(e)'
    PROVE  BooksAt(e)'
  <1>1. Placed /\ TypeOK
    BY DEF BooksAt, OrderAt, PayoutInv
  <1>2. /\ \A x \in Cycles \ {c} : Batched(x)' = Batched(x) /\ Settled(x)' = Settled(x)
        /\ \A x : Applied(x)' = Applied(x)
        /\ Placed'
    <2>1. TypeOK /\ Placed /\ UNCHANGED adjusted
      BY <1>1
    <2>2. \A i \in items : line[i].state # "none"
      OBVIOUS
    <2>3. \A x \in Cycles \ {c} : items \cap (Batched(x) \cup Settled(x)) = {}
      OBVIOUS
    <2>4. k = (IF s = "eligible" THEN NoCycle ELSE c) /\ SetLines(items, s, k)
      OBVIOUS
    <2>5. /\ Batched(c)' = (Batched(c) \ items) \cup (IF s = "batched" THEN items ELSE {})
          /\ Settled(c)' = (Settled(c) \ items) \cup (IF s = "paid" THEN items ELSE {})
          /\ \A x \in Cycles \ {c} : Batched(x)' = Batched(x) /\ Settled(x)' = Settled(x)
          /\ \A x : Applied(x)' = Applied(x)
          /\ Placed'
      BY ONLY <2>1, <2>2, <2>3, <2>4, SetLinesEffect, c \in Cycles, items \in SUBSET Items, s \in {"batched", "paid", "eligible"}
    <2> QED BY <2>5
  <1>3. \A x \in Cycles \ {c} : Keeps(x)
    BY <1>2, FaceSame DEF Keeps, Holds
  <1>4. /\ UsedOf(c)' = UsedOf(c) /\ Entry(c)' = Entry(c) /\ Borrowed(c)' = Borrowed(c)
    <2>1. Pinned(c)' <=> Pinned(c)
      BY DEF Pinned, Live
    <2> QED BY <1>2, <2>1 DEF UsedOf, Entry, Borrowed, Standing
  <1>5. Share(c)' = Share(c) + Worth(GoneOf(c)') - Worth(GoneOf(c)) /\ Share(c) \in Int
        /\ Worth(GoneOf(c)) \in Int /\ Worth(GoneOf(c)') \in Int
    <2>1. GoneOf(c) \in SUBSET Items /\ UsedOf(c) \in SUBSET Adjustments /\ GoneOf(c)' \in SUBSET Items
      BY <1>1, <1>2, GoneParts, GonePartsNext
    <2>2. /\ Worth(GoneOf(c)) \in Int /\ Worth(GoneOf(c)') \in Int
          /\ Cardinality(UsedOf(c)) \in Nat
      BY <2>1, WorthSum, SetsFinite
    <2>3. Entry(c) \in Int
      BY <1>1, BooksInts
    <2>4. Cardinality(UsedOf(c)') = Cardinality(UsedOf(c))
      BY <1>4
    <2> QED BY <1>4, <2>2, <2>3, <2>4 DEF Share
  <1>6. GapOf(d) \in Int
    BY <1>1, <1>2, <1>3, GapMoves DEF BooksAt
  <1>7. GapOf(e)' = GapOf(d) + Share(c)' - Share(c)
    BY <1>5, <1>6
  <1>8. Borrowed(c)' + Cardinality(BackingOf(c)) + Slack(d)
            <= Borrowed(c) + Cardinality(BackingOf(c)') + Slack(e)'
    <2>1. BackingOf(c) \in SUBSET Items /\ BackingOf(c)' \in SUBSET Items
      BY <1>1, <1>2, GoneParts, GonePartsNext
    <2>2. Cardinality(BackingOf(c)) \in Nat /\ Cardinality(BackingOf(c)') \in Nat
      BY <2>1, SetsFinite
    <2>3. Borrowed(c) \in Nat
      BY <1>1, BooksInts
    <2> QED BY <1>4, <2>2, <2>3
  <1>9. /\ c \in Sent => batch'[c].net = batch[c].net
        /\ \A a \in Adjustments : adjusted'[a].added = adjusted[a].added
    OBVIOUS
  <1> QED BY <1>1, <1>2, <1>3, <1>7, <1>8, <1>9, BooksStep

\* Lines of one batch are not those of another.
LEMMA LinesApart ==
    ASSUME NEW c, NEW items, items \subseteq Batched(c) \cup Settled(c)
    PROVE  /\ items \in SUBSET Items
           /\ \A i \in items : line[i].state # "none"
           /\ \A x \in Cycles \ {c} : items \cap (Batched(x) \cup Settled(x)) = {}
  BY DEF Batched, Settled, LinesOf

LEMMA SettleBooks ==
    ASSUME PayoutInv, PayoutInv', NEW p \in Procs, NEW d, d = call[p], BooksAt(d),
           Settle(p)
    PROVE  GoesOn(p)
  <1>1. d.at = "settle" /\ UNCHANGED <<batch, adjusted, journal, provider>>
        /\ "reverse" \in Steps
    BY DEF Settle, At, Steps
  <1>2. d.at \notin Unread /\ d.at \notin Staged
    BY <1>1 DEF Unread, Staged, Computing, Posting, Unwinding
  <1>3. PICK c \in Cycles : c = d.cycle /\ Cycle(p) = c
    BY <1>2, KnownBatch
  <1>4. /\ CycleOk(c, d) /\ SameFace(d.copy, batch[c]) /\ d.copy.version = batch[c].version
        /\ batch[c].state = "paid" /\ LeaveOk(d)
    BY <1>1, <1>2, <1>3, KnownBatch DEF CopyOk, SameFace, StepOk
  <1>5. PICK items : items = Batched(c)
    OBVIOUS
  <1>6. SetLines(items, "paid", c)
    BY <1>3, <1>5 DEF Settle, Batched
  <1>7. /\ items \in SUBSET Items /\ \A i \in items : line[i].state # "none"
        /\ \A x \in Cycles \ {c} : items \cap (Batched(x) \cup Settled(x)) = {}
    BY <1>5, LinesApart
  <1>8. /\ Batched(c)' = {} /\ Settled(c)' = Settled(c) \cup Batched(c)
        /\ Applied(c)' = Applied(c)
    <2>1. /\ Batched(c)' = Batched(c) \ items
          /\ Settled(c)' = (Settled(c) \ items) \cup items
          /\ Applied(c)' = Applied(c)
      <3>1. PICK s \in {"batched", "paid", "eligible"} : s = "paid"
        OBVIOUS
      <3>2. PICK k : k = c
        OBVIOUS
      <3>3. k = (IF s = "eligible" THEN NoCycle ELSE c) /\ SetLines(items, s, k)
        BY <1>6, <3>1, <3>2
      <3>4. /\ Batched(c)' = (Batched(c) \ items) \cup (IF s = "batched" THEN items ELSE {})
            /\ Settled(c)' = (Settled(c) \ items) \cup (IF s = "paid" THEN items ELSE {})
            /\ Applied(c)' = Applied(c)
        BY <1>1, <1>7, <3>3, SetLinesEffect DEF PayoutInv, BooksAt, OrderAt
      <3> QED BY <3>1, <3>4
    <2> QED BY <1>5, <2>1
  <1>9. PICK e \in CallType : /\ call' = [call EXCEPT ![p] = e]
                              /\ \/ e = Idle
                                 \/ /\ e.at = "reverse" /\ d.outcome = "reversed"
                                    /\ Alike(e, d) /\ e.copy = d.copy
    <2>1. CASE d.outcome = "reversed"
      BY <1>1, <2>1, Continued DEF Settle
    <2>2. CASE d.outcome # "reversed"
      BY <2>2, IdleTyped DEF Settle, Return
    <2> QED BY <2>1, <2>2
  <1>a. /\ batch[c].carry = 0 /\ ~Pinned(c) /\ ~Pinned(c)' /\ Live(c) /\ Live(c)'
    BY <1>1, <1>4 DEF CycleOk, FaceOk, Live, Pinned, Carriers
  <1>b. GoneOf(c)' = GoneOf(c) /\ BackingOf(c) = {} /\ BackingOf(c)' = {}
    BY <1>1, <1>4, <1>8, <1>a DEF GoneOf, BackingOf, Negative
  <1>c. e.at \notin Staged
    BY <1>9, IdleCalm DEF Staged, Computing, Posting, Unwinding
  <1>d. CycleOk(c, e)'
    <2>1. FaceOk(c)'
      BY <1>1, <1>4 DEF CycleOk, FaceOk, Whole
    <2>2. LinesOk(c, e)'
      <3>1. Whole(c)' => Filled(c)'
        <4>1. Batched(c)' \cup Settled(c)' = Batched(c) \cup Settled(c)
          BY <1>8
        <4>2. Whole(c)' => Filled(c)
          BY <1>1, <1>2, <1>4, CalmOn DEF CycleOk, LinesOk, Whole
        <4> QED BY <1>1, <1>8, <4>1, <4>2 DEF Filled
      <3> QED BY <1>1, <1>4, <1>a, <3>1 DEF LinesOk
    <2>3. JournalOk(c, e)'
      BY <1>1, <1>2, <1>4, <1>c, CalmOn DEF CycleOk, JournalOk, Standing, Live
    <2> QED BY <2>1, <2>2, <2>3 DEF CycleOk
  <1>e. StepOk(e)'
    <2>1. CASE e = Idle
      BY <2>1, AtHomeNext
    <2>2. CASE e # Idle
      <3>1. ReadOk(e)'
        BY <1>1, <1>3, <1>4, <1>9, <2>2 DEF ReadOk, Alike, SameFace, SameSums
      <3>2. LeaveOk(e)'
        BY <1>1, <1>3, <1>4, <1>9, <2>2 DEF LeaveOk, Alike
      <3>3. ItemsOk(e)' /\ ComputeOk(e)'
        BY <1>9, <2>2 DEF ItemsOk, ComputeOk, Computing
      <3> QED BY <3>1, <3>2, <3>3 DEF StepOk
    <2> QED BY <2>1, <2>2
  <1>f. GapOf(d) = 0 /\ GapOf(e)' = 0 /\ Slack(d) = 0 /\ Slack(e)' = 0
        /\ \A x : SameStage(d, e, x)
    BY <1>2, <1>c, Calm, CalmStage
  <1>g. GapOf(e)' = GapOf(d) + Worth(GoneOf(c)') - Worth(GoneOf(c))
    <2>1. Worth(GoneOf(c)) \in Int /\ Worth(GoneOf(c)') = Worth(GoneOf(c))
      BY <1>b, GoneParts, WorthSum DEF PayoutInv, BooksAt, OrderAt
    <2> QED BY <1>f, <2>1
  <1>h. Cardinality(BackingOf(c)) + Slack(d) <= Cardinality(BackingOf(c)') + Slack(e)'
    BY <1>b, <1>f, FS_EmptySet
  <1>i. BooksAt(e)'
    BY <1>1, <1>6, <1>7, <1>d, <1>e, <1>f, <1>g, <1>h, LinesStep DEF PayoutInv
  <1>j. e.at # "idle" \/ e = Idle
    BY <1>9
  <1> QED BY <1>9, <1>i, <1>j DEF GoesOn

LEMMA RestoreBooks ==
    ASSUME PayoutInv, PayoutInv', NEW p \in Procs, NEW d, d = call[p], BooksAt(d),
           Restore(p)
    PROVE  GoesOn(p)
  <1>1. d.at = "restore" /\ UNCHANGED <<batch, adjusted, journal, provider>>
        /\ Continue(p, "preserve") /\ "preserve" \in Steps
    BY DEF Restore, At, Steps
  <1>2. d.at \notin Unread
    BY <1>1 DEF Unread, Computing
  <1>3. PICK c \in Cycles : c = d.cycle /\ Cycle(p) = c
    BY <1>2, KnownBatch
  <1>4. /\ CycleOk(c, d) /\ SameFace(d.copy, batch[c]) /\ d.copy.version = batch[c].version
        /\ batch[c].state = "reversed" /\ batch[c].carry = 0 /\ Applied(c) = {}
    BY <1>1, <1>2, <1>3, KnownBatch DEF StepOk, LeaveOk
  <1>5. PICK items : items = Batched(c) \cup Settled(c)
    OBVIOUS
  <1>6. SetLines(items, "eligible", NoCycle)
    <2>1. LinesOf(c, {"batched", "paid"}) = Batched(c) \cup Settled(c)
      BY DEF LinesOf, Batched, Settled
    <2> QED BY <1>3, <1>5, <2>1 DEF Restore
  <1>7. /\ items \in SUBSET Items /\ \A i \in items : line[i].state # "none"
        /\ \A x \in Cycles \ {c} : items \cap (Batched(x) \cup Settled(x)) = {}
    BY <1>5, LinesApart
  <1>8. Batched(c)' = {} /\ Settled(c)' = {} /\ Applied(c)' = {}
    <2>1. /\ Batched(c)' = Batched(c) \ items /\ Settled(c)' = Settled(c) \ items
          /\ Applied(c)' = Applied(c)
      <3>1. PICK s \in {"batched", "paid", "eligible"} : s = "eligible"
        OBVIOUS
      <3>2. PICK k : k = NoCycle
        OBVIOUS
      <3>3. k = (IF s = "eligible" THEN NoCycle ELSE c) /\ SetLines(items, s, k)
        BY <1>6, <3>1, <3>2
      <3>4. /\ Batched(c)' = (Batched(c) \ items) \cup (IF s = "batched" THEN items ELSE {})
            /\ Settled(c)' = (Settled(c) \ items) \cup (IF s = "paid" THEN items ELSE {})
            /\ Applied(c)' = Applied(c)
        BY <1>1, <1>7, <3>3, SetLinesEffect DEF PayoutInv, BooksAt, OrderAt
      <3> QED BY <3>1, <3>4
    <2> QED BY <1>4, <1>5, <2>1
  <1>9. PICK e \in CallType : /\ call' = [call EXCEPT ![p] = e] /\ e.at = "preserve"
                              /\ Alike(e, d) /\ e.copy = d.copy
    BY <1>1, Continued
  <1>a. e.cycle = c
    BY <1>3, <1>9 DEF Alike
  <1>b. Pinned(c) /\ Pinned(c)' /\ ~Live(c) /\ ~Live(c)'
    BY <1>1, <1>4 DEF Pinned, Live
  <1>c. GoneOf(c) = Settled(c) /\ GoneOf(c)' = {} /\ BackingOf(c) = {} /\ BackingOf(c)' = {}
    BY <1>1, <1>4, <1>8, <1>b DEF GoneOf, BackingOf, Negative
  <1>d. CycleOk(c, e)'
    <2>1. FaceOk(c)'
      BY <1>1, <1>4 DEF CycleOk, FaceOk, Whole
    <2>2. LinesOk(c, e)'
      BY <1>1, <1>4 DEF LinesOk, Whole, Current
    <2>3. JournalOk(c, e)'
      <3>1. \A steps \in {Posting, Unwinding} : ~On(d, c, steps) /\ ~On(e, c, steps)
        BY <1>1, <1>9 DEF On, Posting, Unwinding
      <3> QED BY <1>1, <1>4, <1>b, <3>1 DEF CycleOk, JournalOk, Standing, Unsent
    <2> QED BY <2>1, <2>2, <2>3 DEF CycleOk
  <1>e. StepOk(e)'
    <2>1. ReadOk(e)'
      BY <1>1, <1>4, <1>9, <1>a DEF ReadOk, SameFace, SameSums
    <2>2. LeaveOk(e)'
      BY <1>1, <1>4, <1>8, <1>9, <1>a DEF LeaveOk
    <2>3. ItemsOk(e)' /\ ComputeOk(e)'
      BY <1>9 DEF ItemsOk, ComputeOk, Computing
    <2> QED BY <2>1, <2>2, <2>3 DEF StepOk
  <1>f. GapOf(d) = Worth(Settled(c)) /\ GapOf(e)' = 0 /\ Slack(d) = 0 /\ Slack(e)' = 0
    BY <1>1, <1>3, <1>9 DEF GapOf, Posting, Slack, Unbacked
  <1>g. \A x : SameStage(d, e, x)
    BY <1>1, <1>9 DEF SameStage, On, Computing, Posting, Unwinding
  <1>h. GapOf(e)' = GapOf(d) + Worth(GoneOf(c)') - Worth(GoneOf(c))
    <2>1. Worth(Settled(c)) \in Int /\ Worth(GoneOf(c)') = 0
      BY <1>c, BooksSets, WorthSum, WorthNone
    <2> QED BY <1>c, <1>f, <2>1
  <1>i. Cardinality(BackingOf(c)) + Slack(d) <= Cardinality(BackingOf(c)') + Slack(e)'
    BY <1>c, <1>f, FS_EmptySet
  <1>j. BooksAt(e)'
    BY <1>1, <1>6, <1>7, <1>d, <1>e, <1>f, <1>g, <1>h, <1>i, LinesStep DEF PayoutInv
  <1> QED BY <1>9, <1>j DEF GoesOn

LEMMA ReleaseBooks ==
    ASSUME PayoutInv, PayoutInv', NEW p \in Procs, NEW d, d = call[p], BooksAt(d),
           Release(p)
    PROVE  GoesOn(p)
  <1>1. d.at = "release" /\ UNCHANGED <<batch, adjusted, journal, provider>>
        /\ Continue(p, "unapply") /\ "unapply" \in Steps
    BY DEF Release, At, Steps
  <1>2. d.at \notin Unread /\ d.at \notin Staged
    BY <1>1 DEF Unread, Staged, Computing, Posting, Unwinding
  <1>3. PICK c \in Cycles : c = d.cycle /\ Cycle(p) = c /\ Copy(p) = d.copy
    BY <1>2, KnownBatch
  <1>4. /\ CycleOk(c, d) /\ SameFace(d.copy, batch[c]) /\ d.copy.version = batch[c].version
        /\ d.copy.carry = batch[c].carry
        /\ batch[c].state \in {"cancelled", "failed"} /\ (batch[c].carry # 0 => Applied(c) = {})
    BY <1>1, <1>2, <1>3, KnownBatch DEF StepOk, LeaveOk, SameFace, SameSums
  <1>5. PICK items : items = Batched(c)
    OBVIOUS
  <1>6. PICK s \in {"paid", "eligible"} : s = IF batch[c].carry # 0 THEN "paid" ELSE "eligible"
    OBVIOUS
  <1>k. PICK k : k = IF s = "eligible" THEN NoCycle ELSE c
    OBVIOUS
  <1>l. SetLines(items, s, k)
    BY <1>3, <1>4, <1>5, <1>6, <1>k DEF Release, Batched
  <1>7. /\ items \in SUBSET Items /\ \A i \in items : line[i].state # "none"
        /\ \A x \in Cycles \ {c} : items \cap (Batched(x) \cup Settled(x)) = {}
    BY <1>5, LinesApart
  <1>8. /\ Batched(c)' = {} /\ Applied(c)' = Applied(c)
        /\ Settled(c)' = IF batch[c].carry # 0 THEN Settled(c) \cup Batched(c) ELSE Settled(c)
    <2>1. /\ Batched(c)' = Batched(c) \ items
          /\ Settled(c)' = (Settled(c) \ items) \cup (IF s = "paid" THEN items ELSE {})
          /\ Applied(c)' = Applied(c)
      BY <1>1, <1>k, <1>l, <1>6, <1>7, SetLinesEffect DEF PayoutInv, BooksAt, OrderAt
    <2>2. Settled(c) \cap Batched(c) = {}
      BY DEF Settled, Batched, LinesOf
    <2> QED BY <1>5, <1>6, <2>1, <2>2
  <1>9. PICK e \in CallType : /\ call' = [call EXCEPT ![p] = e] /\ e.at = "unapply"
                              /\ Alike(e, d) /\ e.copy = d.copy
    BY <1>1, Continued
  <1>a. e.cycle = c
    BY <1>3, <1>9 DEF Alike
  <1>b. ~Live(c) /\ ~Live(c)' /\ (Pinned(c) <=> batch[c].carry = 0) /\ (Pinned(c)' <=> batch[c].carry = 0)
    BY <1>1, <1>4 DEF Pinned, Live
  <1>c. GoneOf(c) = GoneOf(c)' /\ BackingOf(c) = BackingOf(c)'
    <2>1. CASE batch[c].carry = 0
      BY <1>1, <1>8, <1>b, <2>1 DEF GoneOf, BackingOf, Negative
    <2>2. CASE batch[c].carry # 0
      <3>1. batch[c].state = "failed" => Batched(c) = {}
        BY <1>4, <2>2 DEF CycleOk, LinesOk
      <3>2. BackingOf(c) = BackingOf(c)'
        BY <1>1, <1>4, <1>8, <2>2, <3>1 DEF BackingOf, Negative
      <3>3. GoneOf(c) = GoneOf(c)'
        BY <1>8, <1>b, <2>2 DEF GoneOf
      <3> QED BY <3>2, <3>3
    <2> QED BY <2>1, <2>2
  <1>e. e.at \notin Staged
    BY <1>9 DEF Staged, Computing, Posting, Unwinding
  <1>d. CycleOk(c, e)'
    <2>1. FaceOk(c)'
      BY <1>1, <1>4 DEF CycleOk, FaceOk, Whole
    <2>2. LinesOk(c, e)'
      BY <1>1, <1>4, <1>8 DEF LinesOk, Whole, Current
    <2>3. JournalOk(c, e)'
      BY <1>1, <1>2, <1>4, <1>e, CalmOn DEF CycleOk, JournalOk, Standing, Live
    <2> QED BY <2>1, <2>2, <2>3 DEF CycleOk
  <1>f. StepOk(e)'
    <2>1. ReadOk(e)'
      BY <1>1, <1>4, <1>9, <1>a DEF ReadOk, SameFace, SameSums
    <2>2. LeaveOk(e)'
      BY <1>1, <1>4, <1>8, <1>9, <1>a DEF LeaveOk
    <2>3. ItemsOk(e)' /\ ComputeOk(e)'
      BY <1>9 DEF ItemsOk, ComputeOk, Computing
    <2> QED BY <2>1, <2>2, <2>3 DEF StepOk
  <1>g. GapOf(d) = 0 /\ GapOf(e)' = 0 /\ Slack(d) = 0 /\ Slack(e)' = 0
        /\ \A x : SameStage(d, e, x)
    BY <1>2, <1>e, Calm, CalmStage
  <1>h. GapOf(e)' = GapOf(d) + Worth(GoneOf(c)') - Worth(GoneOf(c))
    <2>1. Worth(GoneOf(c)) \in Int /\ Worth(GoneOf(c)') = Worth(GoneOf(c))
      BY <1>c, GoneParts, WorthSum DEF PayoutInv, BooksAt, OrderAt
    <2> QED BY <1>g, <2>1
  <1>i. Cardinality(BackingOf(c)) + Slack(d) <= Cardinality(BackingOf(c)') + Slack(e)'
    <2>1. BackingOf(c) \in SUBSET Items
      BY GoneParts DEF PayoutInv, BooksAt, OrderAt
    <2>2. Cardinality(BackingOf(c)) \in Nat /\ Cardinality(BackingOf(c)') = Cardinality(BackingOf(c))
      BY <1>c, <2>1, SetsFinite
    <2> QED BY <1>g, <2>2
  <1>j. BooksAt(e)'
    BY <1>1, <1>6, <1>k, <1>l, <1>7, <1>d, <1>f, <1>g, <1>h, <1>i, LinesStep DEF PayoutInv
  <1> QED BY <1>9, <1>j DEF GoesOn

-----------------------------------------------------------------------------
(* Steps that move adjustments, and the balance that is carried again. *)

LEMMA AdjustStep ==
    ASSUME PayoutInv, TypeOK', NEW d, NEW e, BooksAt(d), NEW c \in Cycles,
           UNCHANGED <<line, batch, journal, provider>>, Placed',
           \A a \in Adjustments : adjusted'[a].added = adjusted[a].added,
           \A x \in Cycles \ {c} : Applied(x)' = Applied(x) /\ SameStage(d, e, x),
           StepOk(e)', CycleOk(c, e)', Slack(d) = 0, Slack(e)' = 0,
           GapOf(e)' = GapOf(d) + Cardinality(UsedOf(c)') - Cardinality(UsedOf(c))
    PROVE  BooksAt(e)'
  <1>1. Placed /\ TypeOK
    BY DEF BooksAt, OrderAt, PayoutInv
  <1>2. \A x : Batched(x)' = Batched(x) /\ Settled(x)' = Settled(x)
    BY DEF Batched, Settled, LinesOf
  <1>3. \A x \in Cycles \ {c} : Keeps(x)
    BY <1>2, FaceSame DEF Keeps, Holds
  <1>4. /\ GoneOf(c)' = GoneOf(c) /\ Entry(c)' = Entry(c) /\ Borrowed(c)' = Borrowed(c)
        /\ BackingOf(c)' = BackingOf(c)
    <2>1. Pinned(c)' <=> Pinned(c)
      BY DEF Pinned, Live
    <2> QED BY <1>2, <2>1 DEF GoneOf, Entry, Borrowed, Standing, BackingOf, Negative
  <1>5. /\ Share(c)' = Share(c) + Cardinality(UsedOf(c)') - Cardinality(UsedOf(c))
        /\ Share(c) \in Int /\ Cardinality(UsedOf(c)) \in Nat /\ Cardinality(UsedOf(c)') \in Nat
    <2>1. GoneOf(c) \in SUBSET Items /\ UsedOf(c) \in SUBSET Adjustments
          /\ UsedOf(c)' \in SUBSET Adjustments
      BY <1>1, GoneParts, GonePartsNext
    <2>2. /\ Worth(GoneOf(c)) \in Int
          /\ Cardinality(UsedOf(c)) \in Nat /\ Cardinality(UsedOf(c)') \in Nat
      BY <2>1, WorthSum, SetsFinite
    <2>3. Entry(c) \in Int
      BY <1>1, BooksInts
    <2>4. Worth(GoneOf(c)') = Worth(GoneOf(c))
      BY <1>4
    <2> QED BY <1>4, <2>2, <2>3, <2>4 DEF Share
  <1>6. GapOf(d) \in Int
    BY <1>1, <1>3, GapMoves DEF BooksAt
  <1>7. GapOf(e)' = GapOf(d) + Share(c)' - Share(c)
    BY <1>5, <1>6
  <1>8. Borrowed(c)' + Cardinality(BackingOf(c)) + Slack(d)
            <= Borrowed(c) + Cardinality(BackingOf(c)') + Slack(e)'
    <2>1. BackingOf(c) \in SUBSET Items
      BY <1>1, GoneParts
    <2>2. Cardinality(BackingOf(c)) \in Nat /\ Cardinality(BackingOf(c)') = Cardinality(BackingOf(c))
      BY <1>4, <2>1, SetsFinite
    <2>3. Borrowed(c) \in Nat
      BY <1>1, BooksInts
    <2> QED BY <1>4, <2>2, <2>3
  <1>9. (c \in Sent => batch'[c].net = batch[c].net) /\ Slack(d) \in Int /\ Slack(e)' \in Int
    OBVIOUS
  <1> QED BY <1>1, <1>3, <1>7, <1>8, <1>9, BooksStep

LEMMA UnapplyBooks ==
    ASSUME PayoutInv, PayoutInv', NEW p \in Procs, NEW d, d = call[p], BooksAt(d),
           Unapply(p)
    PROVE  GoesOn(p)
  <1>1. d.at = "unapply" /\ UNCHANGED <<line, batch, journal, provider>>
        /\ Continue(p, "preserve") /\ "preserve" \in Steps
    BY DEF Unapply, At, Steps
  <1>2. d.at \notin Unread /\ d.at \notin Staged
    BY <1>1 DEF Unread, Staged, Computing, Posting, Unwinding
  <1>3. PICK c \in Cycles : c = d.cycle /\ Cycle(p) = c
    BY <1>2, KnownBatch
  <1>4. /\ CycleOk(c, d) /\ SameFace(d.copy, batch[c]) /\ d.copy.version = batch[c].version
        /\ batch[c].state \in {"cancelled", "failed"} /\ (batch[c].carry # 0 => Applied(c) = {})
        /\ (batch[c].carry = 0 => Batched(c) = {})
    BY <1>1, <1>2, <1>3, KnownBatch DEF StepOk, LeaveOk
  <1>5. PICK e \in CallType : /\ call' = [call EXCEPT ![p] = e] /\ e.at = "preserve"
                              /\ Alike(e, d) /\ e.copy = d.copy
    BY <1>1, Continued
  <1>6. e.cycle = c /\ e.at \notin Staged
    BY <1>3, <1>5 DEF Alike, Staged, Computing, Posting, Unwinding
  <1>7. /\ \A a \in Adjustments : /\ adjusted'[a].added = adjusted[a].added
                                  /\ adjusted'[a].cycle = IF adjusted[a].cycle = c THEN NoCycle
                                                          ELSE adjusted[a].cycle
    <2>1. \A a \in Adjustments : adjusted[a] \in [added : BOOLEAN, cycle : Cycles \cup {NoCycle}]
      BY DEF PayoutInv, TypeOK
    <2> QED BY <1>3, <2>1 DEF Unapply
  <1>8. NoCycle \notin Cycles
    BY PayoutAssumption DEF NoCycle
  <1>9. Applied(c)' = {} /\ \A x \in Cycles \ {c} : Applied(x)' = Applied(x)
    <2>1. Applied(c)' = {}
      BY <1>7, <1>8 DEF Applied
    <2>2. ASSUME NEW x \in Cycles \ {c} PROVE Applied(x)' = Applied(x)
      <3>1. x # NoCycle /\ x # c
        BY <1>8
      <3> QED BY <1>7, <3>1 DEF Applied
    <2> QED BY <2>1, <2>2
  <1>a. Placed'
    BY <1>1, <1>7 DEF BooksAt, OrderAt, Placed
  <1>b. UsedOf(c)' = UsedOf(c)
    BY <1>1, <1>4, <1>9 DEF UsedOf, Pinned, Live
  <1>c. Batched(c)' = Batched(c) /\ Settled(c)' = Settled(c)
    BY <1>1 DEF Batched, Settled, LinesOf
  <1>d. CycleOk(c, e)'
    <2>1. FaceOk(c)'
      BY <1>1, <1>4 DEF CycleOk, FaceOk, Whole
    <2>2. LinesOk(c, e)'
      BY <1>1, <1>4, <1>c DEF CycleOk, LinesOk, Whole, Current
    <2>3. JournalOk(c, e)'
      BY <1>1, <1>2, <1>4, <1>6, CalmOn DEF CycleOk, JournalOk, Standing, Live
    <2> QED BY <2>1, <2>2, <2>3 DEF CycleOk
  <1>e. StepOk(e)'
    <2>1. ReadOk(e)'
      BY <1>1, <1>4, <1>5, <1>6 DEF ReadOk, SameFace, SameSums
    <2>2. LeaveOk(e)'
      BY <1>1, <1>4, <1>5, <1>6, <1>9, <1>c DEF LeaveOk
    <2>3. ItemsOk(e)' /\ ComputeOk(e)'
      BY <1>5 DEF ItemsOk, ComputeOk, Computing
    <2> QED BY <2>1, <2>2, <2>3 DEF StepOk
  <1>f. GapOf(d) = 0 /\ GapOf(e)' = 0 /\ Slack(d) = 0 /\ Slack(e)' = 0
        /\ \A x : SameStage(d, e, x)
    BY <1>2, <1>6, Calm, CalmStage
  <1>g. GapOf(e)' = GapOf(d) + Cardinality(UsedOf(c)') - Cardinality(UsedOf(c))
    <2>1. UsedOf(c) \in SUBSET Adjustments
      BY GoneParts DEF PayoutInv, BooksAt, OrderAt
    <2>2. Cardinality(UsedOf(c)) \in Nat /\ Cardinality(UsedOf(c)') = Cardinality(UsedOf(c))
      BY <1>b, <2>1, SetsFinite
    <2> QED BY <1>f, <2>2
  <1>h. BooksAt(e)'
    BY <1>1, <1>7, <1>9, <1>a, <1>d, <1>e, <1>f, <1>g, AdjustStep DEF PayoutInv
  <1> QED BY <1>5, <1>h DEF GoesOn

\* A balance that was absorbed is carried again: its share and what was borrowed stay.
LEMMA PreserveBooks ==
    ASSUME PayoutInv, PayoutInv', NEW p \in Procs, NEW d, d = call[p], BooksAt(d),
           Preserve(p)
    PROVE  GoesOn(p)
  <1>1. d.at = "preserve" /\ UNCHANGED <<Book, provider>> /\ Return(p)
    BY DEF Preserve, At
  <1>2. d.at \notin Unread /\ d.at \notin Staged
    BY <1>1 DEF Unread, Staged, Computing, Posting, Unwinding
  <1>3. PICK c \in Cycles : c = d.cycle /\ Cycle(p) = c /\ Copy(p) = d.copy
    BY <1>2, KnownBatch
  <1>4. /\ CycleOk(c, d) /\ d.copy.opening = batch[c].opening /\ d.copy.carry = batch[c].carry
        /\ batch[c].state \in {"cancelled", "failed", "reversed"}
        /\ batch[c].carry = 0 => Batched(c) = {} /\ Applied(c) = {}
        /\ batch[c] \in BatchType /\ batch[c].carry \in Int /\ batch[c].opening \in Int
        /\ journal[c].drained \in Int
    BY <1>1, <1>2, <1>3, KnownBatch DEF StepOk, LeaveOk, SameFace, SameSums
  <1>5. CASE ~(d.copy.opening # 0 /\ d.copy.carry = 0)
    <2>1. batch' = batch
      BY <1>3, <1>5 DEF Preserve
    <2> QED BY <1>1, <1>2, <2>1, FaceSame, HomeBooks
  <1>6. CASE d.copy.opening # 0 /\ d.copy.carry = 0
    <2>1. PICK n : n = batch[c].opening
      OBVIOUS
    <2>2. PICK b : b = [batch[c] EXCEPT !.carry = n, !.opening = 0]
      OBVIOUS
    <2>3. batch' = [batch EXCEPT ![c] = b]
      <3>1. batch' = [batch EXCEPT ![c].carry = n, ![c].opening = 0]
        BY <1>3, <1>4, <1>6, <2>1 DEF Preserve
      <3> QED BY <2>2, <3>1
    <2>4. batch'[c] = b /\ \A x \in Cycles \ {c} : batch'[x] = batch[x]
      BY <2>3 DEF PayoutInv, TypeOK
    <2>5. /\ b.carry = n /\ b.opening = 0 /\ b.state = batch[c].state /\ b.net = batch[c].net
          /\ b.lines = batch[c].lines
      BY <1>4, <2>2 DEF BatchType
    <2>6. /\ Batched(c)' = {} /\ Batched(c) = {} /\ Settled(c)' = Settled(c)
          /\ Applied(c)' = {} /\ Applied(c) = {} /\ journal'[c] = journal[c]
      BY <1>1, <1>4, <1>6, BookHolds DEF Holds
    <2>7. /\ batch[c].carry = 0 /\ n # 0 /\ n \in Int /\ ~Live(c) /\ ~Live(c)'
          /\ Pinned(c) /\ ~Pinned(c)' /\ ~Whole(c)'
      BY <1>4, <1>6, <2>1, <2>4, <2>5 DEF Live, Pinned, Whole, Current
    <2>8. PICK t : t = IF Standing(c) THEN journal[c].drained ELSE 0
      OBVIOUS
    <2>9. t \in Int /\ t = IF Standing(c)' THEN journal'[c].drained ELSE 0
      BY <1>4, <2>6, <2>8 DEF Standing
    <2>a. Share(c)' = Share(c) /\ Share(c) \in Int
      <3>1. GoneOf(c)' = Settled(c) /\ GoneOf(c) = Settled(c) /\ UsedOf(c)' = {} /\ UsedOf(c) = {}
        BY <2>6, <2>7 DEF GoneOf, UsedOf
      <3>2. Entry(c) = n + t /\ Entry(c)' = n + t
        BY <2>1, <2>4, <2>5, <2>7, <2>8, <2>9 DEF Entry
      <3>3. Worth(GoneOf(c)') = Worth(Settled(c)) /\ Worth(GoneOf(c)) = Worth(Settled(c))
            /\ Worth(Settled(c)) \in Int
        BY <3>1, BooksSets, WorthSum
      <3>4. Cardinality(UsedOf(c)') = 0 /\ Cardinality(UsedOf(c)) = 0
        BY <3>1, FS_EmptySet
      <3> QED BY <2>7, <2>9, <3>2, <3>3, <3>4 DEF Share
    <2>b. Borrowed(c)' = Borrowed(c) /\ Borrowed(c) \in Nat
      BY <2>1, <2>4, <2>5, <2>7, BooksInts DEF Borrowed, PayoutInv
    <2>c. BackingOf(c)' = BackingOf(c)
      BY <2>4, <2>5, <2>6, <2>7 DEF BackingOf, Negative
    <2>d. CycleOk(c, Idle)'
      <3>1. FaceOk(c)'
        BY <1>4, <2>4, <2>5, <2>7 DEF CycleOk, FaceOk, Asked, Current, Carriers
      <3>2. LinesOk(c, Idle)'
        BY <1>4, <2>4, <2>5, <2>6, <2>7 DEF LinesOk
      <3>3. JournalOk(c, Idle)'
        <4>1. ~Standing(c)
          BY <1>2, <1>4, <2>7, CalmOn DEF CycleOk, JournalOk
        <4> QED BY <1>1, <1>2, <1>4, <2>4, <2>5, <2>6, <2>7, <4>1, IdleCalm, CalmOn
               DEF CycleOk, JournalOk, Standing, Unsent
      <3> QED BY <3>1, <3>2, <3>3 DEF CycleOk
    <2>e. GapOf(d) = 0 /\ GapOf(Idle)' = 0 /\ Slack(d) = 0 /\ Slack(Idle)' = 0
          /\ \A x : SameStage(d, Idle, x)
      BY <1>2, IdleCalm, Calm, CalmStage
    <2>f. \A x \in Cycles \ {c} : Keeps(x) /\ SameStage(d, Idle, x)
      BY <1>1, <2>4, <2>e, BookHolds, FaceSame DEF Keeps
    <2>g. Placed' /\ \A a \in Adjustments : adjusted'[a].added = adjusted[a].added
      BY <1>1, BookHolds DEF BooksAt, OrderAt
    <2>h. GapOf(Idle)' = GapOf(d) + Share(c)' - Share(c)
      BY <2>a, <2>e
    <2>i. Borrowed(c)' + Cardinality(BackingOf(c)) + Slack(d)
              <= Borrowed(c) + Cardinality(BackingOf(c)') + Slack(Idle)'
      <3>1. BackingOf(c) \in SUBSET Items
        BY GoneParts DEF PayoutInv, BooksAt, OrderAt
      <3>2. Cardinality(BackingOf(c)) \in Nat /\ Cardinality(BackingOf(c)') = Cardinality(BackingOf(c))
        BY <2>c, <3>1, SetsFinite
      <3> QED BY <2>b, <2>e, <3>2
    <2>j. (c \in Sent => batch'[c].net = batch[c].net) /\ Slack(d) \in Int /\ Slack(Idle)' \in Int
          /\ TypeOK /\ TypeOK' /\ provider' = provider
      BY <1>1, <2>4, <2>5, <2>e DEF PayoutInv
    <2>k. BooksAt(Idle)'
      BY <2>d, <2>f, <2>g, <2>h, <2>i, <2>j, AtHomeNext, BooksStep
    <2> QED BY <1>1, <2>k, IdleTyped DEF GoesOn, Return
  <1> QED BY <1>5, <1>6

-----------------------------------------------------------------------------
(* Steps that compose a batch. *)

\* What is known of the batch that is composed.
LEMMA KnownDraft ==
    ASSUME PayoutInv, NEW p \in Procs, NEW d, d = call[p], BooksAt(d), d.at \in Computing
    PROVE  /\ d.cycle \in Cycles /\ Cycle(p) = d.cycle /\ d \in CallType
           /\ d.items \in SUBSET Items /\ d.adjs \in SUBSET Adjustments
           /\ d.from # NoCycle => d.from \in Cycles
           /\ CycleOk(d.cycle, d) /\ ItemsOk(d) /\ ComputeOk(d)
           /\ batch[d.cycle].state = "draft"
           /\ batch[d.cycle].lines \in Int /\ batch[d.cycle].net \in Int
           /\ batch[d.cycle].carry \in Int /\ batch[d.cycle].opening \in Int
  <1>1. d.at \notin Loose
    BY DEF Computing, Loose
  <1>2. /\ d.cycle \in Cycles /\ Cycle(p) = d.cycle /\ d \in CallType
    BY <1>1, OwnCycle
  <1>3. CycleOk(d.cycle, d) /\ ItemsOk(d) /\ ComputeOk(d)
    BY <1>2 DEF BooksAt, OrderAt, StepOk
  <1>4. batch[d.cycle].state = "draft"
    BY <1>3 DEF ComputeOk
  <1>5. /\ d.items \in SUBSET Items /\ d.adjs \in SUBSET Adjustments
        /\ d.from # NoCycle => d.from \in Cycles
    BY <1>2, CallParts
  <1> QED BY <1>2, <1>3, <1>4, <1>5, BooksInts DEF PayoutInv

LEMMA ComputeCreateBooks ==
    ASSUME PayoutInv, PayoutInv', NEW p \in Procs, NEW d, d = call[p], BooksAt(d),
           ComputeCreate(p)
    PROVE  GoesOn(p)
  <1>1. d.at = "create" /\ d \in CallType /\ d.copy \in BatchType /\ UNCHANGED <<Book, provider>>
        /\ d.cycle \in Cycles /\ Cycle(p) = d.cycle /\ Copy(p) = d.copy
        /\ "absorb" \in Steps /\ "pin" \in Steps
    BY OwnCycle DEF ComputeCreate, At, Loose, Steps
  <1>2. d.at \notin Staged
    BY <1>1 DEF Staged, Computing, Posting, Unwinding
  <1>3. PICK c \in Cycles : c = d.cycle
    BY <1>1
  <1>4. CASE batch[c] # NoBatch
    BY <1>1, <1>2, <1>3, <1>4, FaceSame, HomeBooks DEF ComputeCreate
  <1>5. CASE batch[c] = NoBatch
    <2>1. PICK st \in {"absorb", "pin"} : st = IF d.from # NoCycle THEN "absorb" ELSE "pin"
      OBVIOUS
    <2>2. PICK e \in CallType : /\ call' = [call EXCEPT ![p] = e] /\ e.at = st
                                /\ Alike(e, d) /\ e.copy = d.copy
      BY <1>1, <1>3, <1>5, <2>1, Continued DEF ComputeCreate
    <2>3. /\ e.cycle = c /\ e.items = d.items /\ e.adjs = d.adjs /\ e.from = d.from
          /\ d.items \in SUBSET Items /\ d.adjs \in SUBSET Adjustments
          /\ d.from # NoCycle => d.from \in Cycles
      BY <1>1, <1>3, <2>2, CallParts DEF Alike
    <2>4. /\ ItemsOk(d) /\ ComputeOk(d) /\ CycleOk(c, d)
      BY <1>3 DEF BooksAt, OrderAt, StepOk
    <2>5. PICK n : n = Worth(d.items) + Cardinality(d.adjs)
      OBVIOUS
    <2>6. PICK o : o = d.copy.opening
      OBVIOUS
    <2>7. /\ Worth(d.items) \in Int /\ Cardinality(d.adjs) \in Nat /\ n \in Int /\ o \in Int
      BY <1>1, <2>3, <2>5, <2>6, WorthSum, SetsFinite, BatchParts
    <2>8. PICK b : b = Computed(p)
      OBVIOUS
    <2>9. batch' = [batch EXCEPT ![c] = b]
      BY <1>1, <1>3, <1>5, <2>8 DEF ComputeCreate
    <2>a. batch'[c] = b /\ \A x \in Cycles \ {c} : batch'[x] = batch[x]
      BY <2>9 DEF PayoutInv, TypeOK
    <2>b. PICK carries \in BOOLEAN : carries <=> (n + o < 0 \/ n + o < MinPayout)
      OBVIOUS
    <2>c. /\ b.state = "draft" /\ b.lines = n /\ b.opening = o
          /\ b.net = (IF carries THEN 0 ELSE n + o)
          /\ b.carry = (IF carries THEN n + o ELSE 0)
      BY <1>1, <2>5, <2>6, <2>8, <2>b DEF Computed, NoBatch
    <2>d. b.net >= 0 /\ b.net \in Int /\ b.carry \in Int
          /\ (b.net > 0 => b.carry = 0 /\ b.net = n + o)
          /\ (b.carry # 0 => b.carry = n + o /\ b.net = 0)
      <3>1. MinPayout \in Nat
        BY PayoutAssumption
      <3>2. CASE carries
        BY <2>7, <2>c, <3>2
      <3>3. CASE ~carries
        BY <2>7, <2>b, <2>c, <3>1, <3>3
      <3> QED BY <3>2, <3>3
    <2>e. /\ batch[c].state = "none" /\ batch[c].carry = 0 /\ batch[c].opening = 0
          /\ batch[c].net = 0
      BY <1>5 DEF NoBatch
    <2>f. /\ Batched(c) = {} /\ Settled(c) = {} /\ Applied(c) = {}
          /\ ~Standing(c) /\ ~journal[c].posted /\ (journal[c].unwound => journal[c].posted)
          /\ provider[c] \notin {"moving", "moved"}
      BY <1>2, <2>4, <2>e, CalmOn DEF CycleOk, LinesOk, JournalOk, Live, Unsent
    <2>g. /\ Batched(c)' = {} /\ Settled(c)' = {} /\ Applied(c)' = {} /\ journal'[c] = journal[c]
      BY <1>1, <2>f, BookHolds DEF Holds
    <2>h. Share(c) = 0 /\ Borrowed(c) = 0 /\ BackingOf(c) = {}
      <3>1. GoneOf(c) = {} /\ UsedOf(c) = {} /\ Entry(c) = 0
        BY <2>e, <2>f DEF GoneOf, UsedOf, Entry
      <3> QED BY <2>e, <2>f, <3>1, WorthNone, FS_EmptySet DEF Share, Borrowed, Deficit, BackingOf, Negative
    <2>i. /\ Share(c)' = - (b.carry + (IF b.carry = 0 THEN o ELSE 0))
          /\ Borrowed(c)' = (IF b.carry = 0 THEN Deficit(o) ELSE Deficit(b.carry))
          /\ BackingOf(c)' = {}
      <3>1. GoneOf(c)' = {} /\ UsedOf(c)' = {}
        BY <2>g DEF GoneOf, UsedOf
      <3>2. Entry(c)' = b.carry + (IF b.carry = 0 THEN o ELSE 0)
        <4>1. Pinned(c)' <=> b.carry = 0
          BY <2>a, <2>c DEF Pinned, Live
        <4>2. ~Standing(c)'
          BY <2>f, <2>g DEF Standing
        <4> QED BY <2>7, <2>a, <2>c, <2>d, <4>1, <4>2 DEF Entry
      <3>3. Worth(GoneOf(c)') = 0 /\ Cardinality(UsedOf(c)') = 0
        BY <3>1, WorthNone, FS_EmptySet
      <3>4. Share(c)' = - (b.carry + (IF b.carry = 0 THEN o ELSE 0))
        BY <2>7, <2>d, <3>2, <3>3 DEF Share
      <3> QED BY <2>a, <2>c, <2>g, <3>4 DEF Borrowed, Deficit, BackingOf, Negative
    <2>j. On(e, c, Computing) /\ ~On(e, c, Posting) /\ ~On(e, c, Unwinding)
      BY <2>1, <2>2, <2>3 DEF On, Computing, Posting, Unwinding
    <2>k. CycleOk(c, e)'
      <3>1. FaceOk(c)'
        BY <2>a, <2>c, <2>d DEF FaceOk, Asked, Current, Carriers, Whole
      <3>2. LinesOk(c, e)'
        BY <2>a, <2>c, <2>g, <2>j DEF LinesOk
      <3>3. JournalOk(c, e)'
        BY <1>1, <2>a, <2>c, <2>f, <2>g, <2>j DEF JournalOk, Standing, Live
      <3> QED BY <3>1, <3>2, <3>3 DEF CycleOk
    <2>l. d.from = NoCycle => o = 0
      BY <1>1, <2>4, <2>6 DEF ComputeOk
    <2>m. d.from # NoCycle => /\ d.from # c /\ d.from \in Cycles /\ o = batch[d.from].carry /\ o # 0
                              /\ batch'[d.from] = batch[d.from]
      BY <1>1, <2>3, <2>4, <2>6, <2>a, <2>e DEF ComputeOk
    <2>n. StepOk(e)'
      <3>1. ReadOk(e)' /\ LeaveOk(e)'
        BY <2>1, <2>2 DEF ReadOk, LeaveOk, Unread, Computing
      <3>2. ItemsOk(e)'
        BY <1>1, <2>1, <2>2, <2>3, <2>4 DEF ItemsOk, Book
      <3>3. ComputeOk(e)'
        <4>1. e.adjs \subseteq Pending'
          <5>1. Pending' = Pending
            BY <1>1 DEF Pending, Book
          <5> QED BY <1>1, <2>3, <2>4, <5>1 DEF ComputeOk
        <4>2. batch'[c].lines = Worth(e.items) + Cardinality(e.adjs)
          BY <2>3, <2>5, <2>a, <2>c
        <4>3. batch'[c].carry # 0 => batch'[c].carry = batch'[c].lines + batch'[c].opening
          BY <2>a, <2>c, <2>d
        <4>4. e.from = NoCycle => batch'[c].opening = 0
          BY <2>3, <2>a, <2>c, <2>l
        <4>5. e.at = "absorb" => /\ e.from \notin {NoCycle, c}
                                 /\ batch'[c].opening = batch'[e.from].carry
                                 /\ batch'[c].opening # 0
          BY <2>1, <2>2, <2>3, <2>a, <2>c, <2>m
        <4>6. e.at \in {"absorb", "pin"}
          BY <2>1, <2>2
        <4>7. batch'[c].state = "draft"
          BY <2>a, <2>c
        <4> QED BY <2>3, <2>g, <4>1, <4>2, <4>3, <4>4, <4>5, <4>6, <4>7 DEF ComputeOk
      <3> QED BY <3>1, <3>2, <3>3 DEF StepOk
    <2>o. GapOf(e)' = GapOf(d) + Share(c)' - Share(c)
      <3>1. GapOf(d) = 0
        BY <1>2, Calm
      <3>2. CASE d.from # NoCycle
        <4>1. GapOf(e)' = IF b.carry = 0 THEN - o ELSE - b.carry
          BY <2>1, <2>2, <2>3, <2>a, <2>c, <3>2 DEF GapOf, Posting
        <4> QED BY <2>7, <2>d, <2>h, <2>i, <3>1, <4>1
      <3>3. CASE d.from = NoCycle
        <4>1. GapOf(e)' = IF b.carry = 0 THEN 0 ELSE - n
          BY <2>1, <2>2, <2>3, <2>a, <2>c, <3>3 DEF GapOf, Posting
        <4>2. b.carry # 0 => b.carry = n
          BY <2>7, <2>d, <2>l, <3>3
        <4> QED BY <2>7, <2>d, <2>h, <2>i, <2>l, <3>1, <3>3, <4>1, <4>2
      <3> QED BY <3>2, <3>3
    <2>p. PICK neg : neg = Cardinality(Negative(d.items))
      OBVIOUS
    <2>q. neg \in Nat /\ n + neg >= 0
      <3>1. /\ Worth(d.items) = Cardinality(Positive(d.items)) - neg
            /\ Cardinality(Positive(d.items)) \in Nat /\ neg \in Nat
        BY <2>3, <2>p, WorthSigned
      <3> QED BY <2>5, <2>7, <3>1
    <2>r. Slack(e)' = (IF b.carry # 0 THEN neg ELSE 0)
                        + (IF d.from # NoCycle THEN Deficit(o) ELSE 0)
      <3>1. Unbacked(e)' = IF b.carry # 0 THEN neg ELSE 0
        BY <2>1, <2>2, <2>3, <2>a, <2>p DEF Unbacked
      <3>2. CASE d.from # NoCycle
        <4>1. e.at = "absorb" /\ batch'[e.from].carry = o
          BY <2>1, <2>2, <2>3, <2>m, <3>2
        <4> QED BY <3>1, <3>2, <4>1 DEF Slack, Deficit
      <3>3. CASE d.from = NoCycle
        <4>1. e.at = "pin"
          BY <2>1, <2>2, <3>3
        <4> QED BY <3>1, <3>3, <4>1 DEF Slack
      <3> QED BY <3>2, <3>3
    <2>s. /\ Slack(d) = 0 /\ Slack(e)' \in Int
          /\ Borrowed(c)' + Cardinality(BackingOf(c)) + Slack(d)
               <= Borrowed(c) + Cardinality(BackingOf(c)') + Slack(e)'
      <3>1. Slack(d) = 0
        BY <1>2, Calm
      <3>2. Deficit(o) \in Nat /\ (o = 0 => Deficit(o) = 0) /\ Deficit(o) + o >= 0
        BY <2>7 DEF Deficit
      <3>3. Cardinality(BackingOf(c)) = 0 /\ Cardinality(BackingOf(c)') = 0
        BY <2>h, <2>i, FS_EmptySet
      <3>4. CASE b.carry = 0
        BY <2>h, <2>i, <2>l, <2>r, <3>1, <3>2, <3>3, <3>4
      <3>5. CASE b.carry # 0
        <4>1. Borrowed(c)' = Deficit(n + o)
          BY <2>d, <2>i, <3>5
        <4>2. Deficit(n + o) \in Nat /\ Deficit(n + o) <= neg + Deficit(o)
          BY <2>7, <2>q, <3>2 DEF Deficit
        <4>3. Slack(e)' = neg + Deficit(o)
          BY <2>l, <2>q, <2>r, <3>2, <3>5
        <4> QED BY <2>h, <2>q, <3>1, <3>2, <3>3, <4>1, <4>2, <4>3
      <3> QED BY <3>4, <3>5
    <2>t. \A x \in Cycles \ {c} : Keeps(x) /\ SameStage(d, e, x)
      <3>1. \A x \in Cycles \ {c} : SameStage(d, e, x)
        BY <1>3, <2>3 DEF SameStage, On
      <3> QED BY <1>1, <2>a, <3>1, BookHolds, FaceSame DEF Keeps
    <2>u. Placed' /\ \A a \in Adjustments : adjusted'[a].added = adjusted[a].added
      BY <1>1, BookHolds DEF BooksAt, OrderAt
    <2>v. /\ c \notin Sent /\ Slack(d) \in Int /\ TypeOK /\ TypeOK' /\ provider' = provider
      BY <1>1, <2>f, <2>s DEF PayoutInv, Sent
    <2>w. BooksAt(e)'
      BY <2>k, <2>n, <2>o, <2>s, <2>t, <2>u, <2>v, BooksStep
    <2>x. e.at # "idle"
      BY <2>1, <2>2
    <2> QED BY <2>2, <2>w, <2>x DEF GoesOn
  <1> QED BY <1>4, <1>5

LEMMA ComputeAbsorbBooks ==
    ASSUME PayoutInv, PayoutInv', NEW p \in Procs, NEW d, d = call[p], BooksAt(d),
           ComputeAbsorb(p), detours' \subseteq {"revived"}
    PROVE  GoesOn(p)
  <1>1. d.at = "absorb" /\ UNCHANGED <<Book, provider>> /\ Continue(p, "consume")
        /\ "consume" \in Steps /\ d.at \in Computing
    BY DEF ComputeAbsorb, At, Steps, Computing
  <1>2. PICK c \in Cycles : c = d.cycle
    BY <1>1, KnownDraft
  <1>3. PICK from \in Cycles : from = d.from /\ from # c
    BY <1>1, <1>2, KnownDraft DEF ComputeOk
  <1>4. PICK e \in CallType : /\ call' = [call EXCEPT ![p] = e] /\ e.at = "consume"
                              /\ Alike(e, d) /\ e.copy = d.copy
    BY <1>1, Continued
  <1>5. /\ e.cycle = c /\ e.items = d.items /\ e.adjs = d.adjs /\ e.from = from
    BY <1>2, <1>3, <1>4 DEF Alike
  <1>6. /\ CycleOk(c, d) /\ CycleOk(from, d) /\ ItemsOk(d) /\ ComputeOk(d)
        /\ batch[c].carry \in Int /\ batch[c].opening \in Int /\ batch[c].lines \in Int
        /\ batch[from] \in BatchType /\ batch[from].net \in Int
    BY <1>1, <1>2, KnownDraft DEF BooksAt, OrderAt, PayoutInv, TypeOK, BatchType
  <1>7. PICK b : b = [batch[from] EXCEPT !.carry = 0]
    OBVIOUS
  <1>8. batch' = [batch EXCEPT ![from] = b]
    <2>1. batch' = [batch EXCEPT ![from].carry = 0]
      BY <1>3 DEF ComputeAbsorb
    <2> QED BY <1>7, <2>1
  <1>9. batch'[from] = b /\ \A x \in Cycles \ {from} : batch'[x] = batch[x]
    BY <1>8 DEF PayoutInv, TypeOK
  <1>a. /\ b.carry = 0 /\ b.state = batch[from].state /\ b.net = batch[from].net
        /\ b.opening = batch[from].opening /\ b.lines = batch[from].lines
    BY <1>6, <1>7 DEF BatchType
  <1>b. PICK o : o = batch[c].opening
    OBVIOUS
  <1>c. /\ batch[from].carry = o /\ o # 0 /\ o \in Int
        /\ batch[from].opening = 0 /\ Applied(from) = {}
        /\ batch[from].state \in Carriers
    <2>1. batch[from].carry = o /\ o # 0
      BY <1>1, <1>2, <1>3, <1>6, <1>b DEF ComputeOk
    <2>2. ~Nested(from)
      BY <1>3 DEF ComputeAbsorb
    <2>3. batch[from].opening = 0 /\ Applied(from) = {}
      BY <2>2 DEF Nested, Applied
    <2> QED BY <1>6, <1>b, <2>1, <2>3 DEF CycleOk, FaceOk
  <1>d. /\ ~Live(from) /\ ~Live(from)' /\ ~Pinned(from) /\ Pinned(from)'
        /\ ~Whole(from) /\ ~Whole(from)'
    <2>1. ~Live(from) /\ ~Live(from)'
      BY <1>9, <1>a, <1>c DEF Live, Carriers
    <2>2. ~Whole(from)
      BY <1>6, <1>c DEF CycleOk, FaceOk
    <2>3. ~Whole(from)'
      BY <1>9, <1>a, <2>2 DEF Whole
    <2> QED BY <1>9, <1>a, <1>c, <2>1, <2>2, <2>3 DEF Pinned
  <1>e. \A x : /\ Batched(x)' = Batched(x) /\ Settled(x)' = Settled(x) /\ Applied(x)' = Applied(x)
               /\ journal'[x] = journal[x]
    BY <1>1, BookHolds DEF Holds
  <1>f. ~Standing(from) /\ ~Standing(from)'
    <2>1. ~On(d, from, Unwinding)
      BY <1>1 DEF On, Unwinding
    <2>2. ~Standing(from)
      BY <1>6, <1>d, <2>1 DEF CycleOk, JournalOk
    <2> QED BY <1>e, <2>2 DEF Standing
  <1>g. PICK w : w = Worth(Batched(from))
    OBVIOUS
  <1>h. /\ Share(from) = Worth(Settled(from)) + w - o
        /\ Share(from)' = Worth(Settled(from))
        /\ Worth(Settled(from)) \in Int /\ w \in Int
    <2>1. Settled(from) \cap Batched(from) = {}
      BY DEF Settled, Batched, LinesOf
    <2>2. /\ Worth(Settled(from) \cup Batched(from)) = Worth(Settled(from)) + w
          /\ Worth(Settled(from)) \in Int /\ w \in Int
      BY <1>g, <2>1, BooksSets, WorthUnion
    <2>3. GoneOf(from) = Settled(from) \cup Batched(from) /\ UsedOf(from) = {} /\ Entry(from) = o
      BY <1>c, <1>d, <1>f DEF GoneOf, UsedOf, Entry
    <2>4. GoneOf(from)' = Settled(from) /\ UsedOf(from)' = {} /\ Entry(from)' = 0
      BY <1>9, <1>a, <1>c, <1>d, <1>e, <1>f DEF GoneOf, UsedOf, Entry
    <2>5. Worth(GoneOf(from)') = Worth(Settled(from)) /\ Cardinality(UsedOf(from)') = 0
      BY <2>4, FS_EmptySet
    <2>6. Worth(GoneOf(from)) = Worth(Settled(from)) + w /\ Cardinality(UsedOf(from)) = 0
      BY <2>2, <2>3, FS_EmptySet
    <2> QED BY <1>c, <2>2, <2>3, <2>4, <2>5, <2>6 DEF Share
  <1>i. GapOf(e)' = GapOf(d) + Share(from)' - Share(from)
    <2>1. GapOf(d) = IF batch[c].carry = 0 THEN - o ELSE - batch[c].carry
      BY <1>1, <1>2, <1>b DEF GapOf, Posting
    <2>2. GapOf(e)' = (IF batch[c].carry = 0 THEN 0 ELSE - batch[c].lines) - w
      <3>1. Worth(Batched(from)') = w /\ batch'[c] = batch[c]
        BY <1>3, <1>9, <1>e, <1>g
      <3> QED BY <1>4, <1>5, <3>1 DEF GapOf, Posting
    <2>3. batch[c].carry # 0 => batch[c].carry = batch[c].lines + o
      BY <1>1, <1>2, <1>6, <1>b DEF ComputeOk
    <2> QED BY <1>6, <1>c, <1>h, <2>1, <2>2, <2>3
  <1>j. PICK u : u = Unbacked(d)
    OBVIOUS
  <1>k. /\ u \in Nat /\ Unbacked(e)' = u
    <2>1. batch'[c] = batch[c]
      BY <1>3, <1>9
    <2>2. Unbacked(e)' = Unbacked(d)
      BY <1>1, <1>2, <1>4, <1>5, <2>1 DEF Unbacked
    <2>3. Negative(d.items) \in SUBSET Items
      BY <1>1, KnownDraft DEF Negative
    <2>4. Cardinality(Negative(d.items)) \in Nat
      BY <2>3, SetsFinite
    <2>5. Unbacked(d) \in Nat
      BY <2>4 DEF Unbacked
    <2> QED BY <1>j, <2>2, <2>5
  <1>l. PICK m : m = Cardinality(Negative(Batched(from)))
    OBVIOUS
  <1>m. Slack(d) = u + Deficit(o) /\ Slack(e)' = u + m
    <2>1. Slack(d) = u + Deficit(o)
      BY <1>1, <1>3, <1>c, <1>j DEF Slack, Deficit
    <2>2. Cardinality(Negative(Batched(from)')) = m
      BY <1>e, <1>l
    <2>3. Slack(e)' = u + m
      BY <1>4, <1>5, <1>k, <2>2 DEF Slack, Negative
    <2> QED BY <2>1, <2>3
  <1>n. Borrowed(from) = Deficit(o) /\ Borrowed(from)' = 0 /\ Deficit(o) \in Nat
    BY <1>9, <1>a, <1>c DEF Borrowed, Deficit
  <1>o. /\ Cardinality(BackingOf(from)) <= Cardinality(BackingOf(from)') + m /\ m \in Nat
        /\ Cardinality(BackingOf(from)) \in Nat /\ Cardinality(BackingOf(from)') \in Nat
    <2>1. PICK A : A = BackingOf(from)'
      OBVIOUS
    <2>2. A = Negative(IF batch[from].state \in {"draft", "cancelled"} THEN Settled(from) ELSE {})
      BY <1>9, <1>a, <1>e, <2>1 DEF BackingOf, Negative
    <2>3. BackingOf(from) = A \cup Negative(Batched(from))
      BY <1>c, <2>2 DEF BackingOf, Negative
    <2>4. A \cap Negative(Batched(from)) = {}
      BY <2>2 DEF Negative, Batched, Settled, LinesOf
    <2>5. A \in SUBSET Items /\ Negative(Batched(from)) \in SUBSET Items
      BY <2>2 DEF Negative, Batched, Settled, LinesOf
    <2>6. IsFiniteSet(A) /\ IsFiniteSet(Negative(Batched(from)))
      BY <2>5, SetsFinite
    <2>7. /\ Cardinality(BackingOf(from)) = Cardinality(A) + m
          /\ Cardinality(A) \in Nat /\ m \in Nat
      BY <1>l, <2>3, <2>4, <2>6, CountApart
    <2> QED BY <2>1, <2>7
  <1>p. Borrowed(from)' + Cardinality(BackingOf(from)) + Slack(d)
            <= Borrowed(from) + Cardinality(BackingOf(from)') + Slack(e)'
    BY <1>k, <1>m, <1>n, <1>o
  <1>q. Slack(d) \in Int /\ Slack(e)' \in Int
    BY <1>k, <1>m, <1>n, <1>o
  <1>r. \A x : SameStage(d, e, x)
    BY <1>1, <1>2, <1>4, <1>5 DEF SameStage, On, Computing, Posting, Unwinding
  <1>s. \A x \in Cycles \ {from} : Keeps(x) /\ SameStage(d, e, x)
    BY <1>1, <1>9, <1>r, BookHolds, FaceSame DEF Keeps
  <1>t. CycleOk(from, e)'
    <2>1. FaceOk(from)'
      BY <1>6, <1>9, <1>a, <1>d DEF CycleOk, FaceOk
    <2>2. LinesOk(from, e)'
      BY <1>6, <1>9, <1>a, <1>d, <1>e DEF CycleOk, LinesOk
    <2>3. JournalOk(from, e)'
      <3>1. ~On(d, from, Posting) /\ ~On(d, from, Unwinding)
            /\ ~On(e, from, Posting) /\ ~On(e, from, Unwinding)
        BY <1>1, <1>4 DEF On, Posting, Unwinding
      <3> QED BY <1>1, <1>6, <1>9, <1>a, <1>d, <1>e, <1>f, <3>1 DEF CycleOk, JournalOk
    <2> QED BY <2>1, <2>2, <2>3 DEF CycleOk
  <1>u. StepOk(e)'
    <2>1. ReadOk(e)' /\ LeaveOk(e)'
      BY <1>4 DEF ReadOk, LeaveOk, Unread, Computing
    <2>2. ItemsOk(e)'
      BY <1>1, <1>4, <1>5, <1>6 DEF ItemsOk, Book
    <2>3. ComputeOk(e)'
      <3>1. Pending' = Pending
        BY <1>1 DEF Pending, Book
      <3>2. batch'[c] = batch[c]
        BY <1>3, <1>9
      <3>3. batch[from].state \in {"failed", "reversed"} => Batched(from) = {}
        BY <1>6, <1>c DEF CycleOk, LinesOk
      <3>4. /\ d.adjs \subseteq Pending
            /\ batch[c].state = "draft" /\ batch[c].lines = Worth(d.items) + Cardinality(d.adjs)
            /\ batch[c].carry # 0 => batch[c].carry = batch[c].lines + batch[c].opening
            /\ Settled(c) = {} /\ Applied(c) = {} /\ Batched(c) = {}
        BY <1>1, <1>2, <1>6 DEF ComputeOk
      <3>5. from # NoCycle
        BY PayoutAssumption DEF NoCycle
      <3> QED BY <1>3, <1>4, <1>5, <1>9, <1>a, <1>c, <1>d, <1>e, <3>1, <3>2, <3>3, <3>4, <3>5
             DEF ComputeOk
    <2> QED BY <2>1, <2>2, <2>3 DEF StepOk
  <1>v. Placed' /\ \A a \in Adjustments : adjusted'[a].added = adjusted[a].added
    BY <1>1, BookHolds DEF BooksAt, OrderAt
  <1>w. (from \in Sent => batch'[from].net = batch[from].net) /\ TypeOK /\ TypeOK'
        /\ provider' = provider
    BY <1>1, <1>9, <1>a DEF PayoutInv
  <1>x. BooksAt(e)'
    BY <1>i, <1>p, <1>q, <1>s, <1>t, <1>u, <1>v, <1>w, BooksStep
  <1>y. e.at # "idle"
    BY <1>4
  <1> QED BY <1>4, <1>x, <1>y DEF GoesOn

\* The lines behind a balance that was absorbed are consumed.
LEMMA ComputeConsumeBooks ==
    ASSUME PayoutInv, PayoutInv', NEW p \in Procs, NEW d, d = call[p], BooksAt(d),
           ComputeConsume(p)
    PROVE  GoesOn(p)
  <1>1. d.at = "consume" /\ UNCHANGED <<batch, adjusted, journal, provider>> /\ Continue(p, "pin")
        /\ "pin" \in Steps /\ d.at \in Computing
    BY DEF ComputeConsume, At, Steps, Computing
  <1>2. PICK c \in Cycles : c = d.cycle
    BY <1>1, KnownDraft
  <1>3. PICK from \in Cycles : from = d.from /\ from # c
    BY <1>1, <1>2, KnownDraft DEF ComputeOk
  <1>4. PICK e \in CallType : /\ call' = [call EXCEPT ![p] = e] /\ e.at = "pin"
                              /\ Alike(e, d) /\ e.copy = d.copy
    BY <1>1, Continued
  <1>5. /\ e.cycle = c /\ e.items = d.items /\ e.adjs = d.adjs /\ e.from = from
    BY <1>2, <1>3, <1>4 DEF Alike
  <1>6. /\ CycleOk(c, d) /\ CycleOk(from, d) /\ ItemsOk(d) /\ ComputeOk(d)
        /\ batch[c].carry \in Int /\ batch[c].opening \in Int /\ batch[c].lines \in Int
        /\ d.items \in SUBSET Items
    BY <1>1, <1>2, KnownDraft DEF BooksAt, OrderAt
  <1>7. /\ batch[from].carry = 0 /\ batch[from].state \in Carriers
        /\ ~Whole(from) /\ Applied(from) = {}
        /\ batch[from].state \in {"failed", "reversed"} => Batched(from) = {}
    BY <1>1, <1>3, <1>6 DEF ComputeOk
  <1>8. PICK items : items = Batched(from)
    OBVIOUS
  <1>9. SetLines(items, "paid", from)
    BY <1>3, <1>8 DEF ComputeConsume, Batched
  <1>a. /\ items \in SUBSET Items /\ \A i \in items : line[i].state # "none"
        /\ \A x \in Cycles \ {from} : items \cap (Batched(x) \cup Settled(x)) = {}
    BY <1>8, LinesApart
  <1>b. PICK s \in {"batched", "paid", "eligible"} : s = "paid"
    OBVIOUS
  <1>c. PICK k : k = from
    OBVIOUS
  <1>d. k = (IF s = "eligible" THEN NoCycle ELSE from) /\ SetLines(items, s, k)
    BY <1>9, <1>b, <1>c
  <1>e. /\ Batched(from)' = {} /\ Settled(from)' = Settled(from) \cup Batched(from)
        /\ Batched(c)' = Batched(c) /\ Settled(c)' = Settled(c)
        /\ \A x : Applied(x)' = Applied(x)
    <2>1. /\ Batched(from)' = (Batched(from) \ items) \cup (IF s = "batched" THEN items ELSE {})
          /\ Settled(from)' = (Settled(from) \ items) \cup (IF s = "paid" THEN items ELSE {})
          /\ \A x \in Cycles \ {from} : Batched(x)' = Batched(x) /\ Settled(x)' = Settled(x)
          /\ \A x : Applied(x)' = Applied(x)
      BY <1>1, <1>a, <1>d, SetLinesEffect DEF PayoutInv, BooksAt, OrderAt
    <2> QED BY <1>3, <1>8, <1>b, <2>1
  <1>f. /\ ~Live(from) /\ ~Live(from)' /\ Pinned(from) /\ Pinned(from)' /\ ~Whole(from)'
    BY <1>1, <1>7 DEF Live, Pinned, Carriers, Whole
  <1>g. PICK w : w = Worth(Batched(from))
    OBVIOUS
  <1>h. /\ Worth(GoneOf(from)) = Worth(Settled(from)) /\ Worth(GoneOf(from)') = Worth(Settled(from)) + w
        /\ Worth(Settled(from)) \in Int /\ w \in Int
    <2>1. Settled(from) \cap Batched(from) = {}
      BY DEF Settled, Batched, LinesOf
    <2>2. /\ Worth(Settled(from) \cup Batched(from)) = Worth(Settled(from)) + w
          /\ Worth(Settled(from)) \in Int /\ w \in Int
      BY <1>g, <2>1, BooksSets, WorthUnion
    <2>3. GoneOf(from) = Settled(from) /\ GoneOf(from)' = Settled(from) \cup Batched(from)
      BY <1>e, <1>f DEF GoneOf
    <2> QED BY <2>2, <2>3
  <1>i. GapOf(e)' = GapOf(d) + Worth(GoneOf(from)') - Worth(GoneOf(from))
    <2>1. GapOf(d) = (IF batch[c].carry = 0 THEN 0 ELSE - batch[c].lines) - w
      BY <1>1, <1>2, <1>3, <1>g DEF GapOf, Posting
    <2>2. GapOf(e)' = (IF batch[c].carry = 0 THEN 0 ELSE - batch[c].lines)
      BY <1>1, <1>4, <1>5 DEF GapOf, Posting
    <2> QED BY <1>6, <1>h, <2>1, <2>2
  <1>j. PICK u : u = Unbacked(d)
    OBVIOUS
  <1>k. /\ u \in Nat /\ Unbacked(e)' = u
    <2>1. Unbacked(e)' = Unbacked(d)
      BY <1>1, <1>2, <1>4, <1>5 DEF Unbacked
    <2>2. Negative(d.items) \in SUBSET Items
      BY <1>6 DEF Negative
    <2>3. Cardinality(Negative(d.items)) \in Nat
      BY <2>2, SetsFinite
    <2> QED BY <1>j, <2>1, <2>3 DEF Unbacked
  <1>l. PICK m : m = Cardinality(Negative(Batched(from)))
    OBVIOUS
  <1>m. Slack(d) = u + m /\ Slack(e)' = u
    <2>1. Slack(d) = u + m
      BY <1>1, <1>3, <1>j, <1>l DEF Slack
    <2>2. Slack(e)' = u
      BY <1>4, <1>k DEF Slack
    <2> QED BY <2>1, <2>2
  <1>n. /\ Cardinality(BackingOf(from)') = Cardinality(BackingOf(from)) + m
        /\ Cardinality(BackingOf(from)) \in Nat /\ m \in Nat
    <2>1. PICK A : A = BackingOf(from)
      OBVIOUS
    <2>2. A = Negative(IF batch[from].state \in {"draft", "cancelled"} THEN Settled(from) ELSE {})
      BY <1>7, <2>1 DEF BackingOf, Negative
    <2>3. BackingOf(from)' = A \cup Negative(Batched(from))
      <3>1. CASE batch[from].state \in {"draft", "cancelled"}
        BY <1>1, <1>7, <1>e, <2>2, <3>1 DEF BackingOf, Negative
      <3>2. CASE batch[from].state \in {"failed", "reversed"}
        BY <1>1, <1>7, <1>e, <2>2, <3>2 DEF BackingOf, Negative
      <3> QED BY <1>7, <3>1, <3>2 DEF Carriers
    <2>4. A \cap Negative(Batched(from)) = {}
      BY <2>2 DEF Negative, Batched, Settled, LinesOf
    <2>5. A \in SUBSET Items /\ Negative(Batched(from)) \in SUBSET Items
      BY <2>2 DEF Negative, Batched, Settled, LinesOf
    <2>6. IsFiniteSet(A) /\ IsFiniteSet(Negative(Batched(from)))
      BY <2>5, SetsFinite
    <2>7. /\ Cardinality(A \cup Negative(Batched(from))) = Cardinality(A) + m
          /\ Cardinality(A) \in Nat /\ m \in Nat
      BY <1>l, <2>4, <2>6, CountApart
    <2> QED BY <2>1, <2>3, <2>7
  <1>o. /\ Cardinality(BackingOf(from)) + Slack(d) <= Cardinality(BackingOf(from)') + Slack(e)'
        /\ Slack(d) \in Int /\ Slack(e)' \in Int
    BY <1>k, <1>m, <1>n
  <1>p. \A x : SameStage(d, e, x)
    BY <1>1, <1>2, <1>4, <1>5 DEF SameStage, On, Computing, Posting, Unwinding
  <1>q. CycleOk(from, e)'
    <2>1. FaceOk(from)'
      BY <1>1, <1>6, <1>f DEF CycleOk, FaceOk
    <2>2. LinesOk(from, e)'
      BY <1>1, <1>7, <1>f DEF LinesOk, Carriers
    <2>3. JournalOk(from, e)'
      <3>1. ~On(d, from, Posting) /\ ~On(d, from, Unwinding)
            /\ ~On(e, from, Posting) /\ ~On(e, from, Unwinding)
        BY <1>1, <1>4 DEF On, Posting, Unwinding
      <3> QED BY <1>1, <1>6, <1>f, <3>1 DEF CycleOk, JournalOk, Standing
    <2> QED BY <2>1, <2>2, <2>3 DEF CycleOk
  <1>r. StepOk(e)'
    <2>1. ReadOk(e)' /\ LeaveOk(e)'
      BY <1>4 DEF ReadOk, LeaveOk, Unread, Computing
    <2>2. ItemsOk(e)'
      <3>1. \A i \in d.items : line[i].state = "eligible"
        BY <1>1, <1>6 DEF ItemsOk
      <3>2. \A i \in d.items : line'[i] = line[i]
        BY <1>6, <1>8, <1>9, <3>1 DEF SetLines, Batched, LinesOf
      <3> QED BY <1>4, <1>5, <3>1, <3>2 DEF ItemsOk
    <2>3. ComputeOk(e)'
      <3>1. Pending' = Pending
        BY <1>1 DEF Pending
      <3>2. /\ d.adjs \subseteq Pending
            /\ batch[c].state = "draft" /\ batch[c].lines = Worth(d.items) + Cardinality(d.adjs)
            /\ batch[c].carry # 0 => batch[c].carry = batch[c].lines + batch[c].opening
            /\ Settled(c) = {} /\ Applied(c) = {} /\ Batched(c) = {}
        BY <1>1, <1>2, <1>6 DEF ComputeOk
      <3>3. from # NoCycle
        BY PayoutAssumption DEF NoCycle
      <3> QED BY <1>1, <1>4, <1>5, <1>e, <3>1, <3>2, <3>3 DEF ComputeOk
    <2> QED BY <2>1, <2>2, <2>3 DEF StepOk
  <1>s. BooksAt(e)'
    BY <1>1, <1>a, <1>d, <1>i, <1>o, <1>p, <1>q, <1>r, LinesStep DEF PayoutInv
  <1>t. e.at # "idle"
    BY <1>4
  <1> QED BY <1>4, <1>s, <1>t DEF GoesOn

\* The lines that were counted are pinned to the new batch.
LEMMA ComputePinBooks ==
    ASSUME PayoutInv, PayoutInv', NEW p \in Procs, NEW d, d = call[p], BooksAt(d),
           ComputePin(p)
    PROVE  GoesOn(p)
  <1>1. d.at = "pin" /\ UNCHANGED <<batch, adjusted, journal, provider>> /\ Continue(p, "apply")
        /\ "apply" \in Steps /\ d.at \in Computing
    BY DEF ComputePin, At, Steps, Computing
  <1>2. PICK c \in Cycles : c = d.cycle /\ Cycle(p) = c
    BY <1>1, KnownDraft
  <1>4. PICK e \in CallType : /\ call' = [call EXCEPT ![p] = e] /\ e.at = "apply"
                              /\ Alike(e, d) /\ e.copy = d.copy
    BY <1>1, Continued
  <1>5. /\ e.cycle = c /\ e.items = d.items /\ e.adjs = d.adjs /\ e.from = d.from
    BY <1>2, <1>4 DEF Alike
  <1>6. /\ CycleOk(c, d) /\ ItemsOk(d) /\ ComputeOk(d)
        /\ batch[c].carry \in Int /\ batch[c].opening \in Int /\ batch[c].lines \in Int
        /\ d.items \in SUBSET Items /\ d.adjs \in SUBSET Adjustments
    BY <1>1, <1>2, KnownDraft
  <1>7. /\ d.adjs \subseteq Pending
        /\ batch[c].state = "draft" /\ batch[c].lines = Worth(d.items) + Cardinality(d.adjs)
        /\ batch[c].carry # 0 => batch[c].carry = batch[c].lines + batch[c].opening
        /\ Settled(c) = {} /\ Applied(c) = {} /\ Batched(c) = {}
        /\ d.from = NoCycle => batch[c].opening = 0
    BY <1>1, <1>2, <1>6 DEF ComputeOk
  <1>8. PICK items : items = d.items
    OBVIOUS
  <1>9. SetLines(items, "batched", c)
    BY <1>2, <1>8 DEF ComputePin
  <1>a. /\ items \in SUBSET Items /\ \A i \in items : line[i].state = "eligible"
    BY <1>1, <1>6, <1>8 DEF ItemsOk
  <1>b. /\ \A i \in items : line[i].state # "none"
        /\ \A x \in Cycles \ {c} : items \cap (Batched(x) \cup Settled(x)) = {}
    BY <1>a DEF Batched, Settled, LinesOf
  <1>c. PICK s \in {"batched", "paid", "eligible"} : s = "batched"
    OBVIOUS
  <1>d. PICK k : k = c
    OBVIOUS
  <1>e. k = (IF s = "eligible" THEN NoCycle ELSE c) /\ SetLines(items, s, k)
    BY <1>9, <1>c, <1>d
  <1>f. /\ Batched(c)' = items /\ Settled(c)' = {} /\ Applied(c)' = {}
    <2>1. /\ Batched(c)' = (Batched(c) \ items) \cup (IF s = "batched" THEN items ELSE {})
          /\ Settled(c)' = (Settled(c) \ items) \cup (IF s = "paid" THEN items ELSE {})
          /\ \A x : Applied(x)' = Applied(x)
      BY <1>1, <1>a, <1>b, <1>e, SetLinesEffect DEF PayoutInv, BooksAt, OrderAt
    <2>2. Batched(c)' = items
      BY <1>7, <1>c, <2>1
    <2>3. Settled(c)' = {}
      BY <1>7, <1>c, <2>1
    <2> QED BY <1>7, <2>1, <2>2, <2>3
  <1>g. /\ ~Live(c) /\ ~Live(c)' /\ (Pinned(c) <=> batch[c].carry = 0)
        /\ (Pinned(c)' <=> batch[c].carry = 0)
    BY <1>1, <1>7 DEF Live, Pinned
  <1>h. PICK w : w = Worth(items)
    OBVIOUS
  <1>i. PICK n : n = Cardinality(d.adjs)
    OBVIOUS
  <1>j. PICK m : m = Cardinality(Negative(items))
    OBVIOUS
  <1>k. w \in Int /\ n \in Nat /\ m \in Nat /\ batch[c].lines = w + n
    <2>1. Negative(items) \in SUBSET Items
      BY <1>a DEF Negative
    <2> QED BY <1>6, <1>7, <1>8, <1>a, <1>h, <1>i, <1>j, <2>1, WorthSum, SetsFinite
  <1>l. /\ Worth(GoneOf(c)) = 0
        /\ Worth(GoneOf(c)') = IF batch[c].carry = 0 THEN 0 ELSE w
    <2>1. GoneOf(c) = {}
      BY <1>7 DEF GoneOf
    <2>2. GoneOf(c)' = IF batch[c].carry = 0 THEN {} ELSE items
      BY <1>f, <1>g DEF GoneOf
    <2> QED BY <1>h, <2>1, <2>2, WorthNone
  <1>m. GapOf(e)' = GapOf(d) + Worth(GoneOf(c)') - Worth(GoneOf(c))
    <2>1. GapOf(d) = IF batch[c].carry = 0 THEN 0 ELSE - batch[c].lines
      BY <1>1, <1>2 DEF GapOf, Posting
    <2>2. GapOf(e)' = IF batch[c].carry = 0 THEN 0 ELSE - n
      BY <1>1, <1>4, <1>5, <1>i DEF GapOf, Posting
    <2> QED BY <1>k, <1>l, <2>1, <2>2
  <1>n. /\ Slack(d) = (IF batch[c].carry # 0 THEN m ELSE 0) /\ Slack(e)' = 0
    <2>1. Slack(d) = IF batch[c].carry # 0 THEN m ELSE 0
      BY <1>1, <1>2, <1>8, <1>j, <1>k DEF Slack, Unbacked
    <2>2. Slack(e)' = 0
      BY <1>4 DEF Slack, Unbacked
    <2> QED BY <2>1, <2>2
  <1>o. /\ Cardinality(BackingOf(c)) = 0
        /\ Cardinality(BackingOf(c)') = IF batch[c].carry # 0 THEN m ELSE 0
    <2>1. BackingOf(c) = {}
      BY <1>7 DEF BackingOf, Negative
    <2>2. BackingOf(c)' = IF batch[c].carry # 0 THEN Negative(items) ELSE {}
      BY <1>1, <1>f DEF BackingOf, Negative
    <2> QED BY <1>j, <2>1, <2>2, FS_EmptySet
  <1>p. /\ Cardinality(BackingOf(c)) + Slack(d) <= Cardinality(BackingOf(c)') + Slack(e)'
        /\ Slack(d) \in Int /\ Slack(e)' \in Int
    BY <1>k, <1>n, <1>o
  <1>q. \A x : SameStage(d, e, x)
    BY <1>1, <1>2, <1>4, <1>5 DEF SameStage, On, Computing, Posting, Unwinding
  <1>r. CycleOk(c, e)'
    <2>1. FaceOk(c)'
      BY <1>1, <1>6 DEF CycleOk, FaceOk, Whole
    <2>2. LinesOk(c, e)'
      <3>1. On(e, c, Computing)
        BY <1>4, <1>5 DEF On, Computing
      <3> QED BY <1>1, <1>7, <1>f, <3>1 DEF LinesOk
    <2>3. JournalOk(c, e)'
      <3>1. ~On(d, c, Posting) /\ ~On(d, c, Unwinding)
            /\ ~On(e, c, Posting) /\ ~On(e, c, Unwinding)
        BY <1>1, <1>4 DEF On, Posting, Unwinding
      <3> QED BY <1>1, <1>6, <1>g, <3>1 DEF CycleOk, JournalOk, Standing
    <2> QED BY <2>1, <2>2, <2>3 DEF CycleOk
  <1>s. StepOk(e)'
    <2>1. ReadOk(e)' /\ LeaveOk(e)'
      BY <1>4 DEF ReadOk, LeaveOk, Unread, Computing
    <2>2. ItemsOk(e)'
      BY <1>4 DEF ItemsOk
    <2>3. ComputeOk(e)'
      <3>1. Pending' = Pending
        BY <1>1 DEF Pending
      <3> QED BY <1>1, <1>4, <1>5, <1>7, <1>8, <1>f, <3>1 DEF ComputeOk
    <2> QED BY <2>1, <2>2, <2>3 DEF StepOk
  <1>t. BooksAt(e)'
    BY <1>1, <1>a, <1>b, <1>e, <1>m, <1>p, <1>q, <1>r, <1>s, LinesStep DEF PayoutInv
  <1>u. e.at # "idle"
    BY <1>4
  <1> QED BY <1>4, <1>t, <1>u DEF GoesOn

\* The adjustments that were counted are applied; the batch is complete.
LEMMA ComputeApplyBooks ==
    ASSUME PayoutInv, PayoutInv', NEW p \in Procs, NEW d, d = call[p], BooksAt(d),
           ComputeApply(p)
    PROVE  GoesOn(p)
  <1>1. d.at = "apply" /\ UNCHANGED <<line, batch, journal, provider>> /\ Return(p)
        /\ d.at \in Computing
    BY DEF ComputeApply, At, Computing
  <1>2. PICK c \in Cycles : c = d.cycle /\ Cycle(p) = c
    BY <1>1, KnownDraft
  <1>6. /\ CycleOk(c, d) /\ ComputeOk(d)
        /\ batch[c].carry \in Int /\ batch[c].lines \in Int
        /\ d.items \in SUBSET Items /\ d.adjs \in SUBSET Adjustments
    BY <1>1, <1>2, KnownDraft
  <1>7. /\ d.adjs \subseteq Pending
        /\ batch[c].state = "draft" /\ batch[c].lines = Worth(d.items) + Cardinality(d.adjs)
        /\ Settled(c) = {} /\ Applied(c) = {} /\ Batched(c) = d.items
    BY <1>1, <1>2, <1>6 DEF ComputeOk
  <1>8. /\ \A a \in Adjustments : /\ adjusted'[a].added = adjusted[a].added
                                  /\ adjusted'[a].cycle = IF a \in d.adjs THEN c
                                                          ELSE adjusted[a].cycle
    <2>1. \A a \in Adjustments : adjusted[a] \in [added : BOOLEAN, cycle : Cycles \cup {NoCycle}]
      BY DEF PayoutInv, TypeOK
    <2> QED BY <1>2, <2>1 DEF ComputeApply
  <1>9. NoCycle \notin Cycles
    BY PayoutAssumption DEF NoCycle
  <1>a. \A a \in d.adjs : adjusted[a].added /\ adjusted[a].cycle = NoCycle
    BY <1>7 DEF Pending
  <1>b. Applied(c)' = d.adjs /\ \A x \in Cycles \ {c} : Applied(x)' = Applied(x)
    <2>1. Applied(c)' = d.adjs
      BY <1>6, <1>7, <1>8 DEF Applied
    <2>2. ASSUME NEW x \in Cycles \ {c} PROVE Applied(x)' = Applied(x)
      <3>1. x # NoCycle /\ x # c
        BY <1>9
      <3> QED BY <1>8, <1>a, <3>1 DEF Applied
    <2> QED BY <2>1, <2>2
  <1>c. Placed'
    <2>1. \A a \in Adjustments : adjusted'[a].cycle # NoCycle => adjusted'[a].added
      BY <1>8, <1>a DEF BooksAt, OrderAt, Placed
    <2> QED BY <1>1, <2>1 DEF BooksAt, OrderAt, Placed
  <1>d. Batched(c)' = d.items /\ Settled(c)' = {}
    BY <1>1, <1>7 DEF Batched, Settled, LinesOf
  <1>e. /\ ~Live(c) /\ ~Live(c)' /\ (Pinned(c) <=> batch[c].carry = 0)
        /\ (Pinned(c)' <=> batch[c].carry = 0)
    BY <1>1, <1>7 DEF Live, Pinned
  <1>f. PICK n : n = Cardinality(d.adjs)
    OBVIOUS
  <1>g. n \in Nat
    BY <1>6, <1>f, SetsFinite
  <1>h. /\ Cardinality(UsedOf(c)) = 0
        /\ Cardinality(UsedOf(c)') = IF batch[c].carry = 0 THEN 0 ELSE n
    <2>1. UsedOf(c) = {} /\ UsedOf(c)' = IF batch[c].carry = 0 THEN {} ELSE d.adjs
      BY <1>7, <1>b, <1>e DEF UsedOf
    <2> QED BY <1>f, <2>1, FS_EmptySet
  <1>i. GapOf(Idle)' = GapOf(d) + Cardinality(UsedOf(c)') - Cardinality(UsedOf(c))
    <2>1. GapOf(d) = IF batch[c].carry = 0 THEN 0 ELSE - n
      BY <1>1, <1>2, <1>f DEF GapOf, Posting
    <2> QED BY <1>g, <1>h, <2>1, AtHomeNext
  <1>j. Slack(d) = 0 /\ Slack(Idle)' = 0 /\ StepOk(Idle)'
    BY <1>1, AtHomeNext DEF Slack, Unbacked
  <1>k. /\ ~On(d, c, Posting) /\ ~On(d, c, Unwinding)
        /\ \A x : ~On(Idle, x, Computing) /\ ~On(Idle, x, Posting) /\ ~On(Idle, x, Unwinding)
        /\ \A x \in Cycles \ {c} : SameStage(d, Idle, x)
    <2>1. ~On(d, c, Posting) /\ ~On(d, c, Unwinding)
      BY <1>1 DEF On, Posting, Unwinding
    <2>2. \A x : ~On(Idle, x, Computing) /\ ~On(Idle, x, Posting) /\ ~On(Idle, x, Unwinding)
      BY IdleCalm, Calm
    <2>3. \A x \in Cycles \ {c} : SameStage(d, Idle, x)
      BY <1>2, <2>2 DEF SameStage, On
    <2> QED BY <2>1, <2>2, <2>3
  <1>l. CycleOk(c, Idle)'
    <2>1. FaceOk(c)'
      BY <1>1, <1>6 DEF CycleOk, FaceOk, Whole
    <2>2. LinesOk(c, Idle)'
      <3>1. Filled(c)'
        <4>1. Batched(c)' \cup Settled(c)' = d.items
          BY <1>d
        <4> QED BY <1>1, <1>7, <1>b, <4>1 DEF Filled
      <3> QED BY <1>1, <1>7, <1>d, <3>1 DEF LinesOk
    <2>3. JournalOk(c, Idle)'
      BY <1>1, <1>6, <1>e, <1>k DEF CycleOk, JournalOk, Standing
    <2> QED BY <2>1, <2>2, <2>3 DEF CycleOk
  <1>m. BooksAt(Idle)'
    BY <1>1, <1>8, <1>b, <1>c, <1>i, <1>j, <1>k, <1>l, AdjustStep DEF PayoutInv
  <1> QED BY <1>1, <1>m, IdleTyped DEF GoesOn, Return

-----------------------------------------------------------------------------
(* Steps of lines and adjustments that no batch holds, and of the provider. *)

LEMMA LooseLines ==
    ASSUME PayoutInv, TypeOK', NEW d, NEW e, BooksAt(d), d.at \notin Staged, e.at \notin Staged,
           UNCHANGED <<batch, adjusted, journal, provider>>, StepOk(e)',
           \A i \in Items : \/ line'[i] = line[i]
                            \/ /\ line[i].state \notin {"batched", "paid"}
                               /\ line'[i].state \notin {"batched", "paid"},
           \A l \in Lines : /\ line'[<<l, 1>>].state # "none"
                            /\ line'[<<l, 1>>].state = "reversed" => line'[<<l, -1>>].state = "none"
                            /\ line'[<<l, -1>>].state # "reversed"
    PROVE  BooksAt(e)'
  <1>1. \A c : Batched(c)' = Batched(c) /\ Settled(c)' = Settled(c) /\ Applied(c)' = Applied(c)
    BY DEF Batched, Settled, LinesOf, Applied
  <1>2. \A c \in Cycles : Keeps(c)
    BY <1>1, FaceSame DEF Keeps, Holds
  <1>3. Placed'
    BY DEF BooksAt, OrderAt, Placed
  <1>4. Granted' \in Int /\ Granted <= Granted'
    BY GrantedInt
  <1>5. /\ GapOf(e)' = GapOf(d) /\ Slack(e)' = Slack(d)
        /\ \A c : SameStage(d, e, c)
    BY Calm, CalmStage
  <1> QED BY <1>2, <1>3, <1>4, <1>5, BooksQuiet DEF PayoutInv

LEMMA EligibleSaveBooks ==
    ASSUME PayoutInv, PayoutInv', NEW p \in Procs, NEW d, d = call[p], BooksAt(d),
           EligibleSave(p)
    PROVE  GoesOn(p)
  <1>1. d.at = "promote" /\ UNCHANGED <<batch, adjusted, journal, provider>> /\ Return(p)
    BY DEF EligibleSave, At
  <1>2. d.at \notin Staged /\ d \in CallType
    BY <1>1 DEF Staged, Computing, Posting, Unwinding, PayoutInv, TypeOK
  <1>3. \A i \in d.items : line[i].state = "accrued"
    BY <1>1 DEF BooksAt, OrderAt, StepOk, ItemsOk
  <1>4. /\ \A i \in Items \ d.items : line'[i] = line[i]
        /\ \A i \in Items : i \in d.items => line'[i].state = "eligible"
    <2>1. \A i \in Items : line[i] \in LineType
      BY DEF PayoutInv, TypeOK
    <2> QED BY <2>1 DEF EligibleSave, LineType
  <1>5. \A i \in Items : \/ line'[i] = line[i]
                         \/ /\ line[i].state \notin {"batched", "paid"}
                            /\ line'[i].state \notin {"batched", "paid"}
    BY <1>3, <1>4
  <1>6. \A l \in Lines : /\ line'[<<l, 1>>].state # "none"
                         /\ line'[<<l, 1>>].state = "reversed" => line'[<<l, -1>>].state = "none"
                         /\ line'[<<l, -1>>].state # "reversed"
    <2> TAKE l \in Lines
    <2>1. <<l, 1>> \in Items /\ <<l, -1>> \in Items
      BY DEF Items
    <2>2. /\ line[<<l, 1>>].state # "none"
          /\ line[<<l, 1>>].state = "reversed" => line[<<l, -1>>].state = "none"
          /\ line[<<l, -1>>].state # "reversed"
      BY DEF BooksAt, OrderAt, Placed
    <2> QED BY <1>3, <1>4, <2>1, <2>2
  <1>7. BooksAt(Idle)'
    BY <1>1, <1>2, <1>5, <1>6, AtHomeNext, IdleCalm, LooseLines DEF PayoutInv
  <1> QED BY <1>1, <1>7, IdleTyped DEF GoesOn, Return

LEMMA RefundSaveBooks ==
    ASSUME PayoutInv, PayoutInv', NEW p \in Procs, NEW d, d = call[p], BooksAt(d),
           RefundSave(p)
    PROVE  GoesOn(p)
  <1>1. d.at = "refund" /\ UNCHANGED <<batch, adjusted, journal, provider>> /\ Return(p)
    BY DEF RefundSave, At
  <1>2. d.at \notin Staged /\ d \in CallType
    BY <1>1 DEF Staged, Computing, Posting, Unwinding, PayoutInv, TypeOK
  <1>3. PICK l \in Lines : /\ d.items = {<<l, 1>>} /\ line[<<l, -1>>].state = "none"
                           /\ d.outcome = line[<<l, 1>>].state /\ d.outcome # "reversed"
    BY <1>1 DEF BooksAt, OrderAt, StepOk, ItemsOk
  <1>4. <<l, 1>> \in Items /\ <<l, -1>> \in Items /\ <<l, 1>> # <<l, -1>>
    BY DEF Items
  <1>5. \A x \in Items : line[x] \in LineType
    BY DEF PayoutInv, TypeOK
  <1>6. \/ /\ line[<<l, 1>>].state \notin {"batched", "paid"}
           /\ line'[<<l, 1>>].state = "reversed" /\ line'[<<l, -1>>].state = "none"
           /\ \A x \in Items \ {<<l, 1>>} : line'[x] = line[x]
        \/ /\ line'[<<l, -1>>].state = "eligible" /\ line'[<<l, 1>>] = line[<<l, 1>>]
           /\ \A x \in Items \ {<<l, -1>>} : line'[x] = line[x]
    <2>1. CASE d.outcome \in {"accrued", "eligible", "held"}
      <3>1. line' = [line EXCEPT ![<<l, 1>>].state = "reversed"]
        BY <1>3, <2>1 DEF RefundSave
      <3> QED BY <1>3, <1>4, <1>5, <2>1, <3>1 DEF PayoutInv, TypeOK, LineType
    <2>2. CASE d.outcome \notin {"accrued", "eligible", "held"}
      <3>0. PICK i \in d.items :
               line' = IF d.outcome \in {"accrued", "eligible", "held"}
                       THEN [line EXCEPT ![i].state = "reversed"]
                       ELSE [line EXCEPT ![<<i[1], -1>>].state = "eligible"]
        BY DEF RefundSave
      <3>a. i[1] = l
        BY <1>3, <3>0
      <3>1. line' = [line EXCEPT ![<<l, -1>>].state = "eligible"]
        BY <2>2, <3>0, <3>a
      <3> QED BY <1>3, <1>4, <1>5, <2>2, <3>1 DEF PayoutInv, TypeOK, LineType
    <2> QED BY <2>1, <2>2
  <1>7. \A i \in Items : \/ line'[i] = line[i]
                         \/ /\ line[i].state \notin {"batched", "paid"}
                            /\ line'[i].state \notin {"batched", "paid"}
    BY <1>3, <1>6
  <1>8. \A x \in Lines : /\ line'[<<x, 1>>].state # "none"
                         /\ line'[<<x, 1>>].state = "reversed" => line'[<<x, -1>>].state = "none"
                         /\ line'[<<x, -1>>].state # "reversed"
    <2> TAKE x \in Lines
    <2>1. <<x, 1>> \in Items /\ <<x, -1>> \in Items /\ <<x, 1>> # <<l, -1>> /\ <<x, -1>> # <<l, 1>>
      BY DEF Items
    <2>2. /\ line[<<x, 1>>].state # "none"
          /\ line[<<x, 1>>].state = "reversed" => line[<<x, -1>>].state = "none"
          /\ line[<<x, -1>>].state # "reversed"
      BY DEF BooksAt, OrderAt, Placed
    <2>3. CASE x = l
      BY <1>3, <1>6, <2>2, <2>3
    <2>4. CASE x # l
      BY <1>6, <2>1, <2>2, <2>4
    <2> QED BY <2>3, <2>4
  <1>9. BooksAt(Idle)'
    BY <1>1, <1>2, <1>7, <1>8, AtHomeNext, IdleCalm, LooseLines DEF PayoutInv
  <1> QED BY <1>1, <1>9, IdleTyped DEF GoesOn, Return

\* A line that no batch holds is put on hold, were it refunded, or taken off it.
LEMMA OneLineBooks ==
    ASSUME PayoutInv, PayoutInv', BooksAt(Idle), NEW i \in Items, NEW s \in {"held", "eligible"},
           line' = [line EXCEPT ![i].state = s],
           line[i].state \notin {"none", "batched", "paid"},
           UNCHANGED <<batch, adjusted, journal, provider>>
    PROVE  BooksAt(Idle)'
  <1>1. line[i] \in LineType /\ line \in [Items -> LineType]
    BY DEF PayoutInv, TypeOK
  <1>2. line'[i].state = s /\ \A x \in Items \ {i} : line'[x] = line[x]
    BY <1>1 DEF LineType
  <1>3. \A x \in Items : \/ line'[x] = line[x]
                         \/ /\ line[x].state \notin {"batched", "paid"}
                            /\ line'[x].state \notin {"batched", "paid"}
    BY <1>2
  <1>4. \A l \in Lines : /\ line'[<<l, 1>>].state # "none"
                         /\ line'[<<l, 1>>].state = "reversed" => line'[<<l, -1>>].state = "none"
                         /\ line'[<<l, -1>>].state # "reversed"
    <2> TAKE l \in Lines
    <2>1. <<l, 1>> \in Items /\ <<l, -1>> \in Items
      BY DEF Items
    <2>2. /\ line[<<l, 1>>].state # "none"
          /\ line[<<l, 1>>].state = "reversed" => line[<<l, -1>>].state = "none"
          /\ line[<<l, -1>>].state # "reversed"
      BY DEF BooksAt, OrderAt, Placed
    <2> QED BY <1>2, <2>1, <2>2
  <1> QED BY <1>3, <1>4, AtHomeNext, IdleCalm, LooseLines DEF PayoutInv

LEMMA HoldLineBooks ==
    ASSUME PayoutInv, PayoutInv', BooksAt(Idle), NEW i \in Items, HoldLine(i), detours' \subseteq {"revived"}
    PROVE  BooksAt(Idle)'
  <1>1. line[i].state \notin {"batched", "paid"}
    BY DEF HoldLine, Arrive
  <1>2. /\ line' = [line EXCEPT ![i].state = "held"] /\ line[i].state # "none"
        /\ UNCHANGED <<batch, adjusted, journal, provider>>
    BY DEF HoldLine
  <1> QED BY <1>1, <1>2, OneLineBooks

LEMMA ReleaseLineBooks ==
    ASSUME PayoutInv, PayoutInv', BooksAt(Idle), NEW i \in Items, ReleaseLine(i)
    PROVE  BooksAt(Idle)'
  <1>1. /\ line' = [line EXCEPT ![i].state = "eligible"] /\ line[i].state = "held"
        /\ UNCHANGED <<batch, adjusted, journal, provider>>
    BY DEF ReleaseLine
  <1> QED BY <1>1, OneLineBooks

LEMMA AddAdjustmentBooks ==
    ASSUME PayoutInv, PayoutInv', BooksAt(Idle), NEW a \in Adjustments, AddAdjustment(a)
    PROVE  BooksAt(Idle)'
  <1>1. /\ adjusted' = [adjusted EXCEPT ![a].added = TRUE]
        /\ UNCHANGED <<line, batch, journal, provider>>
    BY DEF AddAdjustment
  <1>2. \A x \in Adjustments : /\ adjusted'[x].cycle = adjusted[x].cycle
                               /\ adjusted[x].added => adjusted'[x].added
    <2>1. \A x \in Adjustments : adjusted[x] \in [added : BOOLEAN, cycle : Cycles \cup {NoCycle}]
      BY DEF PayoutInv, TypeOK
    <2>2. adjusted \in [Adjustments -> [added : BOOLEAN, cycle : Cycles \cup {NoCycle}]]
      BY DEF PayoutInv, TypeOK
    <2> QED BY <1>1, <2>1, <2>2
  <1>3. \A c : Batched(c)' = Batched(c) /\ Settled(c)' = Settled(c) /\ Applied(c)' = Applied(c)
    BY <1>1, <1>2 DEF Batched, Settled, LinesOf, Applied
  <1>4. \A c \in Cycles : Keeps(c)
    BY <1>1, <1>3, FaceSame DEF Keeps, Holds
  <1>5. Placed'
    BY <1>1, <1>2 DEF BooksAt, OrderAt, Placed
  <1>6. Granted' \in Int /\ Granted <= Granted'
    <2> DEFINE A == {x \in Adjustments : adjusted[x].added}
               B == {x \in Adjustments : adjusted'[x].added}
    <2>1. A \subseteq B /\ A \in SUBSET Adjustments /\ B \in SUBSET Adjustments
      BY <1>2
    <2>2. IsFiniteSet(B) /\ Cardinality(A) \in Nat /\ Cardinality(B) \in Nat
      BY <2>1, SetsFinite
    <2>3. Cardinality(A) <= Cardinality(B)
      BY <2>1, <2>2, FS_Subset
    <2>4. Cardinality(Lines) \in Nat
      BY PayoutAssumption, FS_CardinalityType
    <2>5. Granted = Cardinality(Lines) + Cardinality(A)
          /\ Granted' = Cardinality(Lines) + Cardinality(B)
      BY DEF Granted
    <2> HIDE DEF A, B
    <2> QED BY <2>2, <2>3, <2>4, <2>5
  <1>7. /\ GapOf(Idle)' = GapOf(Idle) /\ Slack(Idle)' = Slack(Idle) /\ StepOk(Idle)'
        /\ \A c : SameStage(Idle, Idle, c)
    BY AtHome, AtHomeNext DEF SameStage
  <1> QED BY <1>1, <1>4, <1>5, <1>6, <1>7, BooksQuiet DEF PayoutInv

\* Nothing happens, or only to the money at the provider.
LEMMA MoneyOnly ==
    ASSUME PayoutInv, PayoutInv', NEW d, BooksAt(d), d = Idle \/ \E p \in Procs : d = call[p],
           UNCHANGED <<line, batch, adjusted, journal>>,
           \A x \in Cycles : provider[x] = "bounced" => provider'[x] = "bounced",
           \A x \in Cycles : provider'[x] \in {"moving", "moved"} => provider[x] \in {"moving", "moved"}
    PROVE  BooksAt(d)'
  <1>3. \A x : Batched(x)' = Batched(x) /\ Settled(x)' = Settled(x) /\ Applied(x)' = Applied(x)
    BY DEF Batched, Settled, LinesOf, Applied
  <1>4. \A x \in Cycles : Keeps(x) /\ SameStage(d, d, x)
    BY <1>3, FaceSame DEF Keeps, Holds, SameStage
  <1>5. Placed'
    BY DEF BooksAt, OrderAt, Placed
  <1>6. Granted' \in Int /\ Granted <= Granted'
    BY GrantedInt
  <1>7. GapOf(d)' = GapOf(d)
    <2>1. \A x : Worth(Batched(x)') = Worth(Batched(x)) /\ Worth(Settled(x)') = Worth(Settled(x))
      BY <1>3
    <2> QED BY <2>1 DEF GapOf
  <1>8. Slack(d)' = Slack(d)
    <2>1. \A x : Negative(Batched(x)') = Negative(Batched(x))
      BY <1>3
    <2>2. Unbacked(d)' = Unbacked(d)
      BY DEF Unbacked
    <2>3. \A x : Negative(Batched(x))' = Negative(Batched(x))
      BY <1>3 DEF Negative
    <2> QED BY <2>1, <2>2, <2>3 DEF Slack
  <1>9. StepOk(d)'
    <2>1. StepOk(d)
      BY DEF BooksAt, OrderAt
    <2>2. ReadOk(d)'
      BY <2>1 DEF StepOk, ReadOk, SameFace, SameSums
    <2>3. ItemsOk(d)'
      BY <2>1 DEF StepOk, ItemsOk
    <2>4. ComputeOk(d)'
      BY <2>1 DEF StepOk, ComputeOk, Batched, Settled, Applied, LinesOf, Pending, Whole
    <2>5. LeaveOk(d)'
      <3>1. d.at \in {"paid", "settle", "reverse"} => d.cycle \in Cycles
        BY OwnCycle DEF Idle, Loose
      <3>2. Filled(d.cycle)' <=> Filled(d.cycle)
        BY DEF Filled, Batched, Settled, Applied, LinesOf
      <3> QED BY <1>3, <2>1, <3>1, <3>2 DEF StepOk, LeaveOk
    <2> QED BY <2>2, <2>3, <2>4, <2>5 DEF StepOk
  <1> QED BY <1>4, <1>5, <1>6, <1>7, <1>8, <1>9, BooksQuiet DEF PayoutInv

LEMMA ProviderStepBooks ==
    ASSUME PayoutInv, PayoutInv', NEW c \in Cycles, ProviderStep(c), NEW d, BooksAt(d),
           d = Idle \/ \E p \in Procs : d = call[p]
    PROVE  BooksAt(d)'
  <1>1. /\ UNCHANGED <<line, batch, adjusted, journal>>
        /\ \E money \in {"moved", "failed", "bounced"} :
              provider' = [provider EXCEPT ![c] = money]
        /\ provider[c] \in {"moving", "moved"}
    BY DEF ProviderStep
  <1>2. /\ \A x \in Cycles : provider[x] = "bounced" => provider'[x] = "bounced"
        /\ \A x \in Cycles : provider'[x] \in {"moving", "moved"} => provider[x] \in {"moving", "moved"}
    BY <1>1 DEF PayoutInv, TypeOK
  <1> QED BY <1>1, <1>2, MoneyOnly

-----------------------------------------------------------------------------
(* What is sent to the provider was sold or granted. *)

\* A batch sends no more than it entered in the books and borrowed.
LEMMA EntryCovers ==
    ASSUME TypeOK, NEW c \in Cycles, NEW d, d.at \notin Staged, CycleOk(c, d)
    PROVE  /\ Entry(c) + Borrowed(c) >= 0
           /\ Live(c) => Entry(c) + Borrowed(c) >= batch[c].net
  <1>1. /\ Entry(c) \in Int /\ Borrowed(c) \in Nat
        /\ batch[c].lines \in Int /\ batch[c].net \in Int /\ batch[c].carry \in Int
        /\ batch[c].opening \in Int /\ journal[c].drained \in Int
    BY BooksInts
  <1>2. /\ Standing(c) <=> Live(c)
        /\ Standing(c) => journal[c].drained = batch[c].lines + batch[c].opening
    BY CalmOn DEF CycleOk, JournalOk
  <1>3. CASE Live(c)
    <2>1. Whole(c)
      BY <1>1, <1>3 DEF Live, CycleOk, FaceOk, Whole, Asked, Current
    <2>2. batch[c].carry = 0 /\ batch[c].net = batch[c].lines + batch[c].opening /\ batch[c].net >= 0
      BY <2>1 DEF CycleOk, FaceOk
    <2>3. ~Pinned(c)
      BY <1>3 DEF Pinned
    <2>4. Entry(c) = batch[c].net
      BY <1>1, <1>2, <1>3, <2>2, <2>3 DEF Entry
    <2> QED BY <1>1, <2>2, <2>4
  <1>4. CASE ~Live(c)
    <2>1. Entry(c) = IF batch[c].carry = 0 THEN batch[c].opening ELSE batch[c].carry
      BY <1>1, <1>2, <1>4 DEF Entry, Pinned
    <2> QED BY <1>1, <1>4, <2>1 DEF Borrowed, Deficit
  <1> QED BY <1>3, <1>4

\* What backs a balance below zero are negative lines that are gone themselves.
LEMMA GoneCovers ==
    ASSUME TypeOK, Placed
    PROVE  /\ Worth(Gone) + Cardinality(Used) + Cardinality(Backing) <= Granted
           /\ Worth(Gone) \in Int /\ Cardinality(Used) \in Nat /\ Cardinality(Backing) \in Nat
           /\ Granted \in Int
  <1>1. /\ Worth(Gone) = Cardinality(Positive(Gone)) - Cardinality(Negative(Gone))
        /\ Cardinality(Positive(Gone)) \in Nat /\ Cardinality(Negative(Gone)) \in Nat
    BY BooksSets, WorthSigned
  <1>2. Cardinality(Backing) <= Cardinality(Negative(Gone)) /\ Cardinality(Backing) \in Nat
    <2>1. Backing \subseteq Negative(Gone)
      BY DEF Backing, Negative, Gone, Pinned
    <2>2. Negative(Gone) \in SUBSET Items /\ Backing \in SUBSET Items
      BY BooksSets DEF Negative
    <2>3. IsFiniteSet(Negative(Gone)) /\ Cardinality(Backing) \in Nat
      BY <2>2, SetsFinite
    <2> QED BY <2>1, <2>3, FS_Subset
  <1>3. Cardinality(Positive(Gone)) <= Cardinality(Lines) /\ Cardinality(Lines) \in Nat
    <2>1. IsFiniteSet(Lines) /\ IsFiniteSet({1}) /\ Cardinality({1}) = 1
      BY PayoutAssumption, FS_Singleton
    <2>2. IsFiniteSet(Lines \X {1}) /\ Cardinality(Lines \X {1}) = Cardinality(Lines) * Cardinality({1})
      BY <2>1, FS_Product
    <2>3. Cardinality(Lines) \in Nat
      BY <2>1, FS_CardinalityType
    <2>4. Positive(Gone) \subseteq Lines \X {1}
      BY DEF Positive, Gone, Items
    <2>5. Cardinality(Positive(Gone)) <= Cardinality(Lines \X {1})
      BY <2>2, <2>4, FS_Subset
    <2>6. Cardinality(Lines \X {1}) = Cardinality(Lines)
      BY <2>1, <2>2, <2>3
    <2> QED BY <2>3, <2>5, <2>6
  <1>4. PICK A : A = {a \in Adjustments : adjusted[a].added}
    OBVIOUS
  <1>5. Cardinality(Used) <= Cardinality(A) /\ Cardinality(Used) \in Nat /\ Cardinality(A) \in Nat
    <2>1. Used \subseteq A /\ Used \in SUBSET Adjustments /\ A \in SUBSET Adjustments
      BY <1>4 DEF Used, Placed
    <2>2. IsFiniteSet(A) /\ Cardinality(Used) \in Nat /\ Cardinality(A) \in Nat
      BY <2>1, SetsFinite
    <2> QED BY <2>1, <2>2, FS_Subset
  <1>6. Granted = Cardinality(Lines) + Cardinality(A)
    BY <1>4 DEF Granted
  <1> QED BY <1>1, <1>2, <1>3, <1>5, <1>6

\* So the batches under way or paid never send more than was sold and granted.
LEMMA NotTooMuch ==
    ASSUME TypeOK, NEW d, OrderAt(d), d.at \notin Staged, Gap = 0,
           Borrowings <= Cardinality(Backing), NEW S \in SUBSET Cycles, \A c \in S : Live(c)
    PROVE  SumFunction([c \in S |-> batch[c].net]) <= Granted
  <1> DEFINE f == [c \in S |-> batch[c].net]
             F == [c \in Cycles |-> IF c \in S THEN batch[c].net ELSE 0]
             E == [c \in Cycles |-> Entry(c)]
             B == [c \in Cycles |-> Borrowed(c)]
             H == [c \in Cycles |-> Entry(c) + Borrowed(c)]
  <1>1. IsFiniteSet(Cycles)
    BY PayoutAssumption
  <1>2. \A c \in Cycles : /\ batch[c].net \in Int /\ Entry(c) \in Int /\ Borrowed(c) \in Nat
                          /\ Entry(c) + Borrowed(c) >= 0
                          /\ Live(c) => Entry(c) + Borrowed(c) >= batch[c].net
    BY BooksInts, EntryCovers DEF OrderAt
  <1>3. /\ SumFunction(f) = SumFunctionOnSet(f, S)
        /\ Borrowings = SumFunctionOnSet(B, Cycles)
        /\ Gap = Worth(Gone) + Cardinality(Used) - SumFunctionOnSet(E, Cycles)
    BY DEF SumFunction, Borrowings, Gap
  <1>4. /\ \A c \in S : f[c] \in Int /\ F[c] = f[c]
        /\ \A c \in Cycles \ S : F[c] = 0
        /\ \A c \in Cycles : F[c] \in Int /\ H[c] \in Int /\ F[c] <= H[c]
        /\ \A c \in Cycles : E[c] \in Int /\ B[c] \in Int /\ H[c] = E[c] + B[c]
    BY <1>2
  <1> HIDE DEF f, F, E, B, H
  <1>5. SumFunctionOnSet(f, S) = SumFunctionOnSet(F, Cycles)
    BY <1>1, <1>4, SumWithin
  <1>6. SumFunctionOnSet(F, Cycles) <= SumFunctionOnSet(H, Cycles)
    BY <1>1, <1>4, SumAtMost
  <1>7. SumFunctionOnSet(H, Cycles) = SumFunctionOnSet(E, Cycles) + SumFunctionOnSet(B, Cycles)
    BY <1>1, <1>4, SumPlus
  <1>8. /\ SumFunctionOnSet(E, Cycles) \in Int /\ SumFunctionOnSet(B, Cycles) \in Int
        /\ SumFunctionOnSet(F, Cycles) \in Int
    BY <1>1, <1>4, SumInt
  <1>9. /\ Worth(Gone) + Cardinality(Used) + Cardinality(Backing) <= Granted
        /\ Worth(Gone) \in Int /\ Cardinality(Used) \in Nat /\ Cardinality(Backing) \in Nat
        /\ Granted \in Int
    BY GoneCovers DEF OrderAt
  <1>a. SumFunctionOnSet(f, S) <= Granted
    BY <1>3, <1>5, <1>6, <1>7, <1>8, <1>9
  <1> QED BY <1>3, <1>a DEF f

\* The provider is told to pay.
LEMMA InstructBooks ==
    ASSUME PayoutInv, PayoutInv', NEW p \in Procs, NEW d, d = call[p], BooksAt(d),
           Instruct(p)
    PROVE  GoesOn(p)
  <1>1. d.at = "instruct" /\ UNCHANGED <<line, batch, adjusted, journal>>
    BY DEF Instruct, At
  <1>2. d.at \notin Unread /\ d.at \notin Staged
    BY <1>1 DEF Unread, Staged, Computing, Posting, Unwinding
  <1>3. PICK c \in Cycles : c = d.cycle /\ Cycle(p) = c
    BY <1>2, KnownBatch
  <1>4. /\ CycleOk(c, d) /\ SameFace(d.copy, batch[c]) /\ d.copy.version = batch[c].version
        /\ batch[c].state = "processing" /\ d \in CallType
    <2>1. d.copy.state = "processing"
      BY <1>1, <1>2, KnownBatch DEF CopyOk, InFlight
    <2> QED BY <1>1, <1>2, <1>3, <2>1, KnownBatch DEF SameFace
  <1>5. PICK money : \E outcome \in {"ambiguous", CASE money = "none"  -> "failed"
                                                   [] money = "moved" -> "paid"
                                                   [] OTHER           -> "accepted"} :
                        /\ provider' = [provider EXCEPT ![c] = money]
                        /\ call' = [call EXCEPT ![p].outcome = outcome, ![p].at = "answer"]
    BY <1>3 DEF Instruct
  <1>6. PICK outcome : /\ provider' = [provider EXCEPT ![c] = money]
                       /\ call' = [call EXCEPT ![p].outcome = outcome, ![p].at = "answer"]
    BY <1>5
  <1>7. PICK e : e = [d EXCEPT !.outcome = outcome, !.at = "answer"]
    OBVIOUS
  <1>8. call' = [call EXCEPT ![p] = e]
    BY <1>6, <1>7
  <1>9. /\ e \in CallType /\ e.at = "answer" /\ e.cycle = c /\ e.copy = d.copy
    <2>1. e = call'[p]
      BY <1>8 DEF PayoutInv, TypeOK
    <2>2. e \in CallType
      BY <2>1 DEF PayoutInv, TypeOK
    <2> QED BY <1>3, <1>4, <1>7, <2>2 DEF CallType
  <1>a. e.at \notin Staged
    BY <1>9 DEF Staged, Computing, Posting, Unwinding
  <1>b. \A x \in Cycles \ {c} : provider'[x] = provider[x]
    BY <1>6 DEF PayoutInv, TypeOK
  <1>c. \A x : /\ Batched(x)' = Batched(x) /\ Settled(x)' = Settled(x)
               /\ Applied(x)' = Applied(x) /\ journal'[x] = journal[x]
    BY <1>1 DEF Batched, Settled, LinesOf, Applied
  <1>d. \A x \in Cycles : Keeps(x)
    BY <1>1, <1>c, FaceSame DEF Keeps, Holds
  <1>e. GapOf(d) = 0 /\ GapOf(e)' = 0 /\ Slack(d) = 0 /\ Slack(e)' = 0
        /\ \A x : SameStage(d, e, x)
    BY <1>2, <1>a, Calm, CalmStage
  <1>f. CycleOk(c, e)'
    <2>1. FaceOk(c)'
      BY <1>1, <1>4 DEF CycleOk, FaceOk, Whole
    <2>2. LinesOk(c, e)'
      <3>1. Filled(c)' <=> Filled(c)
        BY <1>1, <1>c DEF Filled
      <3> QED BY <1>1, <1>2, <1>4, <1>c, <3>1, CalmOn DEF CycleOk, LinesOk, Whole
    <2>3. JournalOk(c, e)'
      BY <1>1, <1>2, <1>4, <1>a, CalmOn DEF CycleOk, JournalOk, Standing, Live
    <2> QED BY <2>1, <2>2, <2>3 DEF CycleOk
  <1>g. \A x \in Cycles : CycleOk(x, e)'
    <2>1. ASSUME NEW x \in Cycles \ {c} PROVE CycleOk(x, e)'
      BY <1>b, <1>d, <1>e, CycleKept DEF BooksAt, OrderAt
    <2> QED BY <1>f, <2>1
  <1>h. StepOk(e)'
    <2>1. ReadOk(e)'
      BY <1>1, <1>4, <1>9 DEF ReadOk, SameFace, SameSums
    <2>2. ItemsOk(e)' /\ ComputeOk(e)' /\ LeaveOk(e)'
      BY <1>9 DEF ItemsOk, ComputeOk, LeaveOk, Computing
    <2> QED BY <2>1, <2>2 DEF StepOk
  <1>i. OrderAt(e)'
    <2>1. Placed'
      BY <1>1 DEF BooksAt, OrderAt, Placed
    <2> QED BY <1>g, <1>h, <2>1 DEF OrderAt
  <1>j. Gone' = Gone /\ Used' = Used /\ Backing' = Backing
    BY <1>1 DEF Gone, Used, Backing, Negative, Pinned, Live
  <1>k. \A x \in Cycles : Entry(x)' = Entry(x) /\ Borrowed(x)' = Borrowed(x)
    BY <1>d, ShareKept
  <1>l. Gap' = GapOf(e)'
    <2>1. Gap' = Gap
      BY <1>j, <1>k, GapKept DEF PayoutInv
    <2> QED BY <1>e, <2>1 DEF BooksAt
  <1>m. Borrowings' <= Cardinality(Backing') + Slack(e)'
    <2>1. Borrowings' = Borrowings /\ Borrowings <= Cardinality(Backing) + Slack(d)
      BY <1>j, <1>k, BorrowingsKept DEF BooksAt, PayoutInv
    <2> QED BY <1>e, <1>j, <2>1
  <1>n. Outgoing' <= Granted'
    <2>1. PICK S : S = Sent'
      OBVIOUS
    <2>2. \A x \in S : x \in Cycles /\ Live(x)
      <3>1. \A x \in S : x \in Cycles /\ (x # c => x \in Sent)
        BY <1>b, <2>1 DEF Sent
      <3>2. Live(c)
        BY <1>4 DEF Live
      <3>3. \A x \in Sent : Live(x)
        BY DEF Sent, BooksAt, OrderAt, CycleOk, JournalOk
      <3> QED BY <3>1, <3>2, <3>3
    <2>3. Gap = 0 /\ Borrowings <= Cardinality(Backing)
      <3>1. Borrowings \in Int /\ Cardinality(Backing) \in Nat
        BY <1>j, <1>k, BorrowingsKept DEF PayoutInv
      <3> QED BY <1>e, <3>1 DEF BooksAt
    <2>4. SumFunction([x \in S |-> batch[x].net]) <= Granted
      BY <1>2, <2>2, <2>3, NotTooMuch DEF PayoutInv, BooksAt
    <2>5. Outgoing' = SumFunction([x \in S |-> batch[x].net])
      BY <1>1, <2>1 DEF Outgoing
    <2>6. Granted' = Granted
      BY <1>1, GrantedInt
    <2> QED BY <2>4, <2>5, <2>6
  <1>o. BooksAt(e)'
    BY <1>i, <1>l, <1>m, <1>n DEF BooksAt
  <1> QED BY <1>8, <1>9, <1>o DEF GoesOn

-----------------------------------------------------------------------------
(* The invariant. *)

LEMMA InitBooks == Init => BooksInv
  <1> SUFFICES ASSUME Init PROVE Alone /\ \E d \in {Now} : BooksAt(d)
    BY DEF BooksInv
  <1>1. Running = {} /\ Alone /\ Now = Idle
    BY DEF Init, Running, Idle, Alone, Now
  <1>2. NoCycle \notin Cycles /\ IsFiniteSet(Cycles)
    BY PayoutAssumption DEF NoCycle
  <1>3. /\ \A l \in Lines : line[<<l, 1>>].state = "accrued" /\ line[<<l, -1>>].state = "none"
        /\ \A i \in Items : line[i].state \in {"accrued", "none"}
    BY DEF Init, Items
  <1>4. /\ \A a \in Adjustments : adjusted[a].cycle = NoCycle
        /\ \A c \in Cycles : batch[c] = NoBatch /\ journal[c] = NoJournal /\ provider[c] = "none"
    BY DEF Init
  <1>5. Placed
    BY <1>3, <1>4 DEF Placed
  <1>6. ASSUME NEW c \in Cycles
        PROVE  CycleOk(c, Idle) /\ Entry(c) = 0 /\ Borrowed(c) = 0 /\ c \notin Sent
    <2>1. Batched(c) = {} /\ Settled(c) = {} /\ Applied(c) = {}
      BY <1>2, <1>3, <1>4 DEF Batched, Settled, Applied, LinesOf
    <2>2. /\ batch[c].state = "none" /\ batch[c].net = 0 /\ batch[c].carry = 0
          /\ batch[c].opening = 0 /\ ~journal[c].posted /\ ~journal[c].unwound
          /\ provider[c] = "none"
      BY <1>4 DEF NoBatch, NoJournal
    <2>3. ~Standing(c) /\ ~Live(c) /\ ~Whole(c)
      BY <2>2 DEF Standing, Live, Whole
    <2>4. FaceOk(c) /\ LinesOk(c, Idle)
      BY <2>1, <2>2, <2>3 DEF FaceOk, LinesOk, Asked, Current
    <2>5. JournalOk(c, Idle)
      BY <2>2, <2>3, IdleCalm, CalmOn DEF JournalOk
    <2> QED BY <2>2, <2>3, <2>4, <2>5 DEF CycleOk, Entry, Borrowed, Deficit, Sent
  <1>7. Gap = GapOf(Idle)
    <2>1. Gone = {} /\ Used = {}
      BY <1>3, <1>4 DEF Gone, Used
    <2>2. SumFunction([c \in Cycles |-> Entry(c)]) = 0
      <3> DEFINE f == [c \in Cycles |-> Entry(c)]
      <3>1. (\A c \in Cycles : f[c] = 0) /\ SumFunction(f) = SumFunctionOnSet(f, Cycles)
        BY <1>6 DEF SumFunction
      <3> HIDE DEF f
      <3>2. SumFunctionOnSet(f, {}) = SumFunctionOnSet(f, Cycles)
        BY <1>2, <3>1, SumWithin
      <3>3. SumFunctionOnSet(f, Cycles) = 0
        BY <3>2, SumOfNone
      <3>4. SumFunction(f) = 0
        BY <3>1, <3>3
      <3> QED BY <3>4 DEF f
    <2>3. Worth(Gone) = 0 /\ Cardinality(Used) = 0
      BY <2>1, WorthNone, FS_EmptySet
    <2> QED BY <2>2, <2>3, AtHome DEF Gap
  <1>8. Borrowings <= Cardinality(Backing) + Slack(Idle)
    <2>1. Borrowings = 0
      <3> DEFINE f == [c \in Cycles |-> Borrowed(c)]
      <3>1. (\A c \in Cycles : f[c] = 0) /\ Borrowings = SumFunctionOnSet(f, Cycles)
        BY <1>6 DEF SumFunction, Borrowings
      <3> HIDE DEF f
      <3>2. SumFunctionOnSet(f, {}) = SumFunctionOnSet(f, Cycles)
        BY <1>2, <3>1, SumWithin
      <3>3. SumFunctionOnSet(f, Cycles) = 0
        BY <3>2, SumOfNone
      <3> QED BY <3>1, <3>3
    <2>2. Cardinality(Backing) \in Nat
      BY BooksSets, SetsFinite
    <2> QED BY <2>1, <2>2, AtHome
  <1>9. Outgoing <= Granted
    <2>1. Sent = {}
      BY <1>6 DEF Sent
    <2>2. Outgoing = 0
      BY <2>1, SumOfNone DEF Outgoing, SumFunction
    <2>3. {a \in Adjustments : adjusted[a].added} \in SUBSET Adjustments
      OBVIOUS
    <2>4. Cardinality({a \in Adjustments : adjusted[a].added}) \in Nat
      BY <2>3, SetsFinite
    <2>5. Cardinality(Lines) \in Nat
      BY PayoutAssumption, FS_CardinalityType
    <2> QED BY <2>2, <2>4, <2>5 DEF Granted
  <1>a. BooksAt(Idle)
    BY <1>5, <1>6, <1>7, <1>8, <1>9, AtHome DEF BooksAt, OrderAt
  <1> QED BY <1>1, <1>a

\* A request is taken on alone, or the ghost tells.
LEMMA ArriveAlone ==
    ASSUME NEW more, Arrive(more), detours' \subseteq {"revived"}
    PROVE  Running = {} /\ detours \subseteq {"revived"}
  BY DEF Arrive

LEMMA AskBooks ==
    ASSUME PayoutInv, PayoutInv', NEW p \in Procs, Ask(p) \/ Sweep(p), BooksAt(Idle),
           detours' \subseteq {"revived"}
    PROVE  GoesOn(p)
  <1>1. ASSUME NEW i \in Items, EligibleFind(p, i) PROVE GoesOn(p)
    BY <1>1, EligibleFindBooks
  <1>2. ASSUME NEW l \in Lines, RefundFind(p, l) PROVE GoesOn(p)
    BY <1>2, RefundFindBooks
  <1>3. ASSUME NEW c \in Cycles, NEW window, ComputeFind(p, c, window) PROVE GoesOn(p)
    BY <1>3, ComputeFindBooks
  <1>4. ASSUME NEW c \in Cycles, AskFind(p, c) \/ RejectFind(p, c) \/ SweepFind(p, c)
        PROVE  GoesOn(p)
    BY <1>4, AskFindBooks, RejectFindBooks, SweepFindBooks
  <1>5. ASSUME NEW c \in Cycles, CancelFind(p, c) \/ SubmitFind(p, c) PROVE GoesOn(p)
    BY <1>5, CancelFindBooks, SubmitFindBooks
  <1>6. ASSUME NEW c \in Cycles, NEW u \in Approvers, ApproveFind(p, c, u) PROVE GoesOn(p)
    BY <1>6, ApproveFindBooks
  <1>7. ASSUME NEW c \in Cycles, Webhook(p, c) PROVE GoesOn(p)
    BY <1>7, WebhookBooks
  <1> QED BY <1>1, <1>2, <1>3, <1>4, <1>5, <1>6, <1>7 DEF Ask, Sweep

LEMMA AskAlone ==
    ASSUME NEW p \in Procs, Ask(p) \/ Sweep(p), detours' \subseteq {"revived"}
    PROVE  Running = {} /\ detours \subseteq {"revived"}
  <1>1. ASSUME NEW i \in Items, EligibleFind(p, i) PROVE Running = {} /\ detours \subseteq {"revived"}
    BY <1>1, ArriveAlone DEF EligibleFind, Begin
  <1>2. ASSUME NEW l \in Lines, RefundFind(p, l) PROVE Running = {} /\ detours \subseteq {"revived"}
    BY <1>2, ArriveAlone DEF RefundFind, Begin
  <1>3. ASSUME NEW c \in Cycles, NEW window, ComputeFind(p, c, window)
        PROVE  Running = {} /\ detours \subseteq {"revived"}
    BY <1>3, ArriveAlone DEF ComputeFind, Begin
  <1>4. ASSUME NEW c \in Cycles, AskFind(p, c) \/ RejectFind(p, c) \/ SweepFind(p, c)
        PROVE  Running = {} /\ detours \subseteq {"revived"}
    BY <1>4, ArriveAlone DEF AskFind, RejectFind, SweepFind, BeginOn, Begin
  <1>5. ASSUME NEW c \in Cycles, CancelFind(p, c) PROVE Running = {} /\ detours \subseteq {"revived"}
    BY <1>5 DEF CancelFind, Arrive
  <1>6. ASSUME NEW c \in Cycles, SubmitFind(p, c) PROVE Running = {} /\ detours \subseteq {"revived"}
    BY <1>6 DEF SubmitFind, Arrive
  <1>7. ASSUME NEW c \in Cycles, NEW u \in Approvers, ApproveFind(p, c, u)
        PROVE  Running = {} /\ detours \subseteq {"revived"}
    BY <1>7, ArriveAlone DEF ApproveFind, Begin
  <1>8. ASSUME NEW c \in Cycles, Webhook(p, c) PROVE Running = {} /\ detours \subseteq {"revived"}
    BY <1>8, ArriveAlone DEF Webhook, Begin
  <1> QED BY <1>1, <1>2, <1>3, <1>4, <1>5, <1>6, <1>7, <1>8 DEF Ask, Sweep

LEMMA AdvanceBooks ==
    ASSUME PayoutInv, PayoutInv', NEW p \in Procs, NEW d, d = call[p], BooksAt(d),
           Advance(p), detours' \subseteq {"revived"}
    PROVE  GoesOn(p)
  <1>1. CASE EligibleSave(p) \/ RefundSave(p)
    BY <1>1, EligibleSaveBooks, RefundSaveBooks
  <1>2. CASE ComputeCarry(p) \/ ComputeCreate(p) \/ ComputeAbsorb(p) \/ ComputeConsume(p)
    BY <1>2, ComputeCarryBooks, ComputeCreateBooks, ComputeAbsorbBooks, ComputeConsumeBooks
  <1>3. CASE ComputePin(p) \/ ComputeApply(p)
    BY <1>3, ComputePinBooks, ComputeApplyBooks
  <1>4. CASE AskSave(p) \/ ApprovePush(p) \/ ApproveSave(p) \/ RejectSave(p)
    BY <1>4, AskSaveBooks, ApprovePushBooks, ApproveSaveBooks, RejectSaveBooks
  <1>5. CASE CancelSave(p) \/ Release(p) \/ Unapply(p) \/ Preserve(p)
    BY <1>5, CancelSaveBooks, ReleaseBooks, UnapplyBooks, PreserveBooks
  <1>6. CASE SubmitQueue(p) \/ SubmitProcess(p) \/ SubmitStamp(p) \/ SubmitPost(p) \/ SubmitIds(p)
    BY <1>6, SubmitQueueBooks, SubmitProcessBooks, SubmitStampBooks, SubmitPostBooks,
       SubmitIdsBooks
  <1>7. CASE Instruct(p) \/ Answer(p) \/ SweepFetch(p)
    BY <1>7, InstructBooks, AnswerBooks, SweepFetchBooks
  <1>8. CASE MarkPaid(p) \/ Settle(p) \/ MarkFailed(p) \/ MarkReversed(p)
    BY <1>8, MarkPaidBooks, SettleBooks, MarkFailedBooks, MarkReversedBooks
  <1>9. CASE Unwind(p) \/ UnwindIds(p) \/ Restore(p)
    BY <1>9, UnwindBooks, UnwindIdsBooks, RestoreBooks
  <1> QED BY <1>1, <1>2, <1>3, <1>4, <1>5, <1>6, <1>7, <1>8, <1>9 DEF Advance

\* A step of a handler under way forgets no detour.
LEMMA AdvanceAlone ==
    ASSUME NEW p \in Procs, Advance(p)
    PROVE  detours \subseteq detours' /\ ~At(p, "idle")
  <1>1. CASE EligibleSave(p) \/ RefundSave(p)
    BY <1>1 DEF EligibleSave, RefundSave, Ghosts, At
  <1>2. CASE ComputeCarry(p) \/ ComputeCreate(p) \/ ComputeAbsorb(p) \/ ComputeConsume(p)
    BY <1>2 DEF ComputeCarry, ComputeCreate, ComputeAbsorb, ComputeConsume, Ghosts, At
  <1>3. CASE ComputePin(p) \/ ComputeApply(p)
    BY <1>3 DEF ComputePin, ComputeApply, Ghosts, At
  <1>4. CASE AskSave(p) \/ ApprovePush(p) \/ ApproveSave(p) \/ RejectSave(p)
    BY <1>4 DEF AskSave, ApprovePush, ApproveSave, RejectSave, Belated, Ghosts, At
  <1>5. CASE CancelSave(p) \/ Release(p) \/ Unapply(p) \/ Preserve(p)
    BY <1>5 DEF CancelSave, Release, Unapply, Preserve, Ghosts, At
  <1>6. CASE SubmitQueue(p) \/ SubmitProcess(p) \/ SubmitStamp(p) \/ SubmitPost(p) \/ SubmitIds(p)
    BY <1>6 DEF SubmitQueue, SubmitProcess, SubmitStamp, SubmitPost, SubmitIds, SaveIds, Ghosts, At
  <1>7. CASE Instruct(p) \/ Answer(p) \/ SweepFetch(p)
    BY <1>7 DEF Instruct, Answer, SweepFetch, Ghosts, At
  <1>8. CASE MarkPaid(p) \/ Settle(p) \/ MarkFailed(p) \/ MarkReversed(p)
    BY <1>8 DEF MarkPaid, Settle, MarkFailed, MarkReversed, Ghosts, At
  <1>9. CASE Unwind(p) \/ UnwindIds(p) \/ Restore(p)
    BY <1>9 DEF Unwind, UnwindIds, SaveIds, Restore, Ghosts, At
  <1> QED BY <1>1, <1>2, <1>3, <1>4, <1>5, <1>6, <1>7, <1>8, <1>9 DEF Advance

LEMMA GoneOn ==
    ASSUME TypeOK, NEW p \in Procs, Running \subseteq {p}, GoesOn(p)
    PROVE  Alone' /\ \E d \in {Now'} : BooksAt(d)'
  <1>1. PICK e \in CallType : /\ call' = [call EXCEPT ![p] = e]
                              /\ e.at # "idle" \/ e = Idle
                              /\ BooksAt(e)'
    BY DEF GoesOn
  <1>2. Alone' /\ Now' = e
    BY <1>1, NowStep
  <1> QED BY <1>1, <1>2

LEMMA NowKept ==
    ASSUME UNCHANGED call
    PROVE  (Alone => Alone') /\ Now' = Now /\ Running' = Running
  BY DEF Alone, Now, Running

LEMMA NextBooks == PayoutInv /\ PayoutInv' /\ BooksInv /\ [Next]_vars => BooksInv'
  <1> SUFFICES ASSUME PayoutInv, PayoutInv', BooksInv, [Next]_vars, detours' \subseteq {"revived"}
               PROVE  Alone' /\ \E d \in {Now'} : BooksAt(d)'
    BY DEF BooksInv
  <1>0. TypeOK
    BY DEF PayoutInv
  <1>1. detours \subseteq {"revived"} => Alone /\ \E d \in {Now} : BooksAt(d)
    BY DEF BooksInv
  <1>2. detours \subseteq {"revived"} /\ Running = {} => BooksAt(Idle)
    BY <1>1 DEF Now
  <1>3. ASSUME NEW p \in Procs, Ask(p) \/ Sweep(p)
        PROVE  Alone' /\ \E d \in {Now'} : BooksAt(d)'
    <2>1. Running = {} /\ detours \subseteq {"revived"}
      BY <1>3, AskAlone
    <2>2. GoesOn(p)
      BY <1>2, <1>3, <2>1, AskBooks
    <2> QED BY <1>0, <2>1, <2>2, GoneOn
  <1>4. ASSUME NEW p \in Procs, Advance(p)
        PROVE  Alone' /\ \E d \in {Now'} : BooksAt(d)'
    <2>1. detours \subseteq {"revived"} /\ ~At(p, "idle")
      BY <1>4, AdvanceAlone
    <2>2. Running = {p} /\ Now = call[p]
      BY <1>1, <2>1, NowAlone
    <2>3. PICK d : d = call[p] /\ BooksAt(d)
      BY <1>1, <2>1, <2>2
    <2>4. GoesOn(p)
      BY <1>4, <2>3, AdvanceBooks
    <2> QED BY <1>0, <2>2, <2>4, GoneOn
  <1>5. ASSUME NEW p \in Procs, Crash(p) PROVE FALSE
    BY <1>5 DEF Crash
  <1>6. ASSUME UNCHANGED <<call, detours>>,
               \A d : BooksAt(d) /\ (d = Idle \/ \E p \in Procs : d = call[p]) => BooksAt(d)'
        PROVE  Alone' /\ \E d \in {Now'} : BooksAt(d)'
    <2>1. PICK d : d = Now /\ BooksAt(d)
      BY <1>1, <1>6
    <2>2. d = Idle \/ \E p \in Procs : d = call[p]
      BY <2>1 DEF Now, Running
    <2>3. BooksAt(d)'
      BY <1>6, <2>1, <2>2
    <2>4. Alone' /\ Now' = Now
      BY <1>1, <1>6, NowKept
    <2> QED BY <2>1, <2>3, <2>4
  <1>7. ASSUME NEW c \in Cycles, ProviderStep(c)
        PROVE  Alone' /\ \E d \in {Now'} : BooksAt(d)'
    <2>1. UNCHANGED <<call, detours>>
      BY <1>7 DEF ProviderStep, Ghosts
    <2> QED BY <1>6, <1>7, <2>1, ProviderStepBooks
  <1>8. CASE UNCHANGED vars
    <2>1. UNCHANGED <<line, batch, adjusted, journal, provider, call, detours>>
      BY <1>8 DEF vars
    <2> QED BY <1>6, <2>1, MoneyOnly
  <1>9. ASSUME UNCHANGED call, Running = {}, BooksAt(Idle)'
        PROVE  Alone' /\ \E d \in {Now'} : BooksAt(d)'
    <2>1. Running' = {}
      BY <1>9, NowKept
    <2>2. Alone' /\ Now' = Idle
      BY <2>1 DEF Alone, Now
    <2> QED BY <1>9, <2>2
  <1>a. ASSUME NEW i \in Items, HoldLine(i)
        PROVE  Alone' /\ \E d \in {Now'} : BooksAt(d)'
    <2>1. Running = {} /\ detours \subseteq {"revived"} /\ UNCHANGED call
      BY <1>a DEF HoldLine, Arrive
    <2>2. BooksAt(Idle)'
      BY <1>2, <1>a, <2>1, HoldLineBooks
    <2> QED BY <1>9, <2>1, <2>2
  <1>b. ASSUME NEW i \in Items, ReleaseLine(i)
        PROVE  Alone' /\ \E d \in {Now'} : BooksAt(d)'
    <2>1. Running = {} /\ detours \subseteq {"revived"} /\ UNCHANGED call
      BY <1>b, ArriveAlone DEF ReleaseLine
    <2>2. BooksAt(Idle)'
      BY <1>2, <1>b, <2>1, ReleaseLineBooks
    <2> QED BY <1>9, <2>1, <2>2
  <1>c. ASSUME NEW a \in Adjustments, AddAdjustment(a)
        PROVE  Alone' /\ \E d \in {Now'} : BooksAt(d)'
    <2>1. Running = {} /\ detours \subseteq {"revived"} /\ UNCHANGED call
      BY <1>c, ArriveAlone DEF AddAdjustment
    <2>2. BooksAt(Idle)'
      BY <1>2, <1>c, <2>1, AddAdjustmentBooks
    <2> QED BY <1>9, <2>1, <2>2
  <1> QED BY <1>3, <1>4, <1>5, <1>7, <1>8, <1>a, <1>b, <1>c DEF Next

\* While calls come one at a time and take no detour, or only that of a refunded line
\* that is held and released, what left the lines is in the balances and journals.
THEOREM PayoutBooksInvariant == Spec => []BooksInv
  <1>1. Spec => []PayoutInv
    BY PayoutInvariant
  <1>2. PayoutInv /\ PayoutInv' /\ BooksInv /\ [Next]_vars => BooksInv'
    BY NextBooks
  <1>3. Init => BooksInv
    BY InitBooks
  <1> QED BY <1>1, <1>2, <1>3, PTL DEF Spec

-----------------------------------------------------------------------------
(* What is owed is what the books hold. *)

LEMMA AliveWorth ==
    ASSUME Placed
    PROVE  /\ Worth({i \in Items : line[i].state \notin {"none", "reversed"}})
                = Cardinality(Lines) - Cardinality(Refunded)
           /\ Cardinality(Lines) \in Nat /\ Cardinality(Refunded) \in Nat
  <1>1. PICK A : A = {i \in Items : line[i].state \notin {"none", "reversed"}}
    OBVIOUS
  <1>2. PICK R : R = {l \in Lines : line[<<l, 1>>].state = "reversed"}
    OBVIOUS
  <1>3. PICK T : T = {l \in Lines : line[<<l, -1>>].state # "none"}
    OBVIOUS
  <1>4. R \cap T = {} /\ R \cup T = Refunded /\ R \subseteq Lines /\ T \subseteq Lines
        /\ (Lines \ R) \cap R = {} /\ (Lines \ R) \cup R = Lines
    BY <1>2, <1>3 DEF Placed, Refunded
  <1>5. IsFiniteSet(R) /\ IsFiniteSet(T) /\ IsFiniteSet(Lines \ R) /\ IsFiniteSet(Lines)
    BY <1>4, PayoutAssumption, FS_Subset
  <1>6. Positive(A) = (Lines \ R) \X {1}
    <2>1. ASSUME NEW i \in Positive(A) PROVE i \in (Lines \ R) \X {1}
      <3>1. PICK l \in Lines, s \in {1, -1} : i = <<l, s>>
        BY <1>1 DEF Positive, Items
      <3> QED BY <1>1, <1>2, <3>1 DEF Positive
    <2>2. ASSUME NEW i \in (Lines \ R) \X {1} PROVE i \in Positive(A)
      <3>1. PICK l \in Lines \ R : i = <<l, 1>>
        OBVIOUS
      <3> QED BY <1>1, <1>2, <3>1 DEF Positive, Items, Placed
    <2> QED BY <2>1, <2>2
  <1>7. Negative(A) = T \X {-1}
    <2>1. ASSUME NEW i \in Negative(A) PROVE i \in T \X {-1}
      <3>1. PICK l \in Lines, s \in {1, -1} : i = <<l, s>>
        BY <1>1 DEF Negative, Items
      <3> QED BY <1>1, <1>3, <3>1 DEF Negative
    <2>2. ASSUME NEW i \in T \X {-1} PROVE i \in Negative(A)
      <3>1. PICK l \in T : i = <<l, -1>>
        OBVIOUS
      <3> QED BY <1>1, <1>3, <3>1 DEF Negative, Items, Placed
    <2> QED BY <2>1, <2>2
  <1>8. /\ Cardinality(R) \in Nat /\ Cardinality(T) \in Nat
        /\ Cardinality(Lines \ R) \in Nat /\ Cardinality(Lines) \in Nat
    BY <1>5, FS_CardinalityType
  <1>9. IsFiniteSet({1}) /\ IsFiniteSet({-1}) /\ Cardinality({1}) = 1 /\ Cardinality({-1}) = 1
    BY FS_Singleton
  <1>a. Cardinality(Positive(A)) = Cardinality(Lines \ R)
    <2>1. Cardinality((Lines \ R) \X {1}) = Cardinality(Lines \ R) * Cardinality({1})
      BY <1>5, <1>9, FS_Product
    <2> QED BY <1>6, <1>8, <1>9, <2>1
  <1>b. Cardinality(Negative(A)) = Cardinality(T)
    <2>1. Cardinality(T \X {-1}) = Cardinality(T) * Cardinality({-1})
      BY <1>5, <1>9, FS_Product
    <2> QED BY <1>7, <1>8, <1>9, <2>1
  <1>c. Worth(A) = Cardinality(Positive(A)) - Cardinality(Negative(A))
    BY <1>1, WorthSigned
  <1>d. Cardinality(Refunded) = Cardinality(R) + Cardinality(T)
    BY <1>4, <1>5, CountApart
  <1>e. Cardinality(Lines) = Cardinality(Lines \ R) + Cardinality(R)
    BY <1>4, <1>5, CountApart
  <1>f. Worth(A) = Cardinality(Lines) - Cardinality(Refunded)
    BY <1>8, <1>a, <1>b, <1>c, <1>d, <1>e
  <1> QED BY <1>1, <1>8, <1>d, <1>f

LEMMA EntryParts ==
    ASSUME TypeOK
    PROVE  /\ SumFunction([c \in Cycles |-> Entry(c)])
                = SumFunction([c \in Cycles |-> batch[c].carry])
                  + SumFunction([c \in {d \in Cycles : Pinned(d)} |-> batch[c].opening])
                  + SumFunction([c \in {d \in Cycles : Standing(d)} |-> journal[c].drained])
           /\ SumFunction([c \in Cycles |-> batch[c].carry]) \in Int
           /\ SumFunction([c \in {d \in Cycles : Pinned(d)} |-> batch[c].opening]) \in Int
           /\ SumFunction([c \in {d \in Cycles : Standing(d)} |-> journal[c].drained]) \in Int
  <1>1. PICK P : P = {d \in Cycles : Pinned(d)}
    OBVIOUS
  <1>2. PICK S : S = {d \in Cycles : Standing(d)}
    OBVIOUS
  <1> DEFINE e == [c \in Cycles |-> Entry(c)]
             f == [c \in Cycles |-> batch[c].carry]
             g == [c \in P |-> batch[c].opening]
             h == [c \in S |-> journal[c].drained]
             G == [c \in Cycles |-> IF c \in P THEN batch[c].opening ELSE 0]
             H == [c \in Cycles |-> IF c \in S THEN journal[c].drained ELSE 0]
             I == [c \in Cycles |-> f[c] + G[c]]
  <1>3. IsFiniteSet(Cycles) /\ P \in SUBSET Cycles /\ S \in SUBSET Cycles
    BY <1>1, <1>2, PayoutAssumption
  <1>4. \A c \in Cycles : /\ batch[c].carry \in Int /\ batch[c].opening \in Int
                          /\ journal[c].drained \in Int
    BY BooksInts
  <1>5. /\ \A c \in Cycles : /\ f[c] \in Int /\ G[c] \in Int /\ H[c] \in Int /\ I[c] \in Int
                             /\ I[c] = f[c] + G[c] /\ e[c] = I[c] + H[c]
        /\ \A c \in P : g[c] \in Int /\ G[c] = g[c]
        /\ \A c \in Cycles \ P : G[c] = 0
        /\ \A c \in S : h[c] \in Int /\ H[c] = h[c]
        /\ \A c \in Cycles \ S : H[c] = 0
    BY <1>1, <1>2, <1>3, <1>4 DEF Entry
  <1>6. /\ SumFunction(e) = SumFunctionOnSet(e, Cycles) /\ SumFunction(f) = SumFunctionOnSet(f, Cycles)
        /\ SumFunction(g) = SumFunctionOnSet(g, P) /\ SumFunction(h) = SumFunctionOnSet(h, S)
    BY DEF SumFunction
  <1> HIDE DEF e, f, g, h, G, H, I
  <1>7. SumFunctionOnSet(g, P) = SumFunctionOnSet(G, Cycles)
    BY <1>3, <1>5, SumWithin
  <1>8. SumFunctionOnSet(h, S) = SumFunctionOnSet(H, Cycles)
    BY <1>3, <1>5, SumWithin
  <1>9. SumFunctionOnSet(I, Cycles) = SumFunctionOnSet(f, Cycles) + SumFunctionOnSet(G, Cycles)
    BY <1>3, <1>5, SumPlus
  <1>a. SumFunctionOnSet(e, Cycles) = SumFunctionOnSet(I, Cycles) + SumFunctionOnSet(H, Cycles)
    BY <1>3, <1>5, SumPlus
  <1>b. /\ SumFunctionOnSet(f, Cycles) \in Int /\ SumFunctionOnSet(G, Cycles) \in Int
        /\ SumFunctionOnSet(H, Cycles) \in Int
    BY <1>3, <1>5, SumInt
  <1>c. /\ SumFunction(e) = SumFunction(f) + SumFunction(g) + SumFunction(h)
        /\ SumFunction(f) \in Int /\ SumFunction(g) \in Int /\ SumFunction(h) \in Int
    BY <1>6, <1>7, <1>8, <1>9, <1>a, <1>b
  <1> QED BY <1>1, <1>2, <1>c DEF e, f, g, h

LEMMA OwedIsPayable ==
    ASSUME TypeOK, Placed, Gap = 0
    PROVE  Owed = Payable
  <1>1. PICK open : open = {i \in Items :
                   \/ line[i].state \in {"accrued", "eligible", "held"}
                   \/ line[i].state = "batched" /\ Pinned(line[i].cycle)}
    OBVIOUS
  <1>2. PICK adjustments : adjustments = {a \in Adjustments :
                   adjusted[a].added /\ (adjusted[a].cycle = NoCycle \/ Pinned(adjusted[a].cycle))}
    OBVIOUS
  <1>3. PICK added : added = {a \in Adjustments : adjusted[a].added}
    OBVIOUS
  <1>4. PICK A : A = {i \in Items : line[i].state \notin {"none", "reversed"}}
    OBVIOUS
  <1>5. open \cup Gone = A /\ open \cap Gone = {}
    <2>1. \A i \in Items : line[i].state \in LineStates
      BY DEF TypeOK, LineType
    <2> QED BY <1>1, <1>4, <2>1 DEF Gone, LineStates
  <1>6. adjustments \cup Used = added /\ adjustments \cap Used = {}
    BY <1>2, <1>3 DEF Used, Placed
  <1>7. Worth(A) = Worth(open) + Worth(Gone) /\ Worth(open) \in Int /\ Worth(Gone) \in Int
    <2>1. open \in SUBSET Items /\ Gone \in SUBSET Items
      BY <1>1, BooksSets
    <2> QED BY <1>5, <2>1, WorthUnion
  <1>8. /\ Cardinality(added) = Cardinality(adjustments) + Cardinality(Used)
        /\ Cardinality(adjustments) \in Nat /\ Cardinality(Used) \in Nat
    <2>1. adjustments \in SUBSET Adjustments /\ Used \in SUBSET Adjustments
      BY <1>2, BooksSets
    <2>2. IsFiniteSet(adjustments) /\ IsFiniteSet(Used)
      BY <2>1, SetsFinite
    <2> QED BY <1>6, <2>2, CountApart
  <1>9. /\ Worth(A) = Cardinality(Lines) - Cardinality(Refunded)
        /\ Cardinality(Lines) \in Nat /\ Cardinality(Refunded) \in Nat
    BY <1>4, AliveWorth
  <1>a. PICK carried : carried = SumFunction([c \in Cycles |-> batch[c].carry])
    OBVIOUS
  <1>b. PICK opened : opened = SumFunction([c \in {d \in Cycles : Pinned(d)} |-> batch[c].opening])
    OBVIOUS
  <1>c. PICK drained :
           drained = SumFunction([c \in {d \in Cycles : Standing(d)} |-> journal[c].drained])
    OBVIOUS
  <1>d. Owed = Worth(open) + Cardinality(adjustments) + carried + opened
    BY <1>1, <1>2, <1>a, <1>b DEF Owed
  <1>e. Payable = Cardinality(Lines) - Cardinality(Refunded) + Cardinality(added) - drained
    BY <1>3, <1>c DEF Payable
  <1>f. /\ Worth(Gone) + Cardinality(Used) - (carried + opened + drained) = 0
        /\ carried \in Int /\ opened \in Int /\ drained \in Int
    BY <1>a, <1>b, <1>c, EntryParts DEF Gap
  <1> QED BY <1>7, <1>8, <1>9, <1>d, <1>e, <1>f

LEMMA PaidOutSent ==
    ASSUME TypeOK, \A c \in Cycles : batch[c].net >= 0
    PROVE  PaidOut <= Outgoing /\ PaidOut \in Int /\ Outgoing \in Int
  <1>1. PICK M : M = {d \in Cycles : provider[d] = "moved"}
    OBVIOUS
  <1>2. PICK S : S = Sent
    OBVIOUS
  <1> DEFINE f == [c \in M |-> batch[c].net]
             g == [c \in S |-> batch[c].net]
             F == [c \in Cycles |-> IF c \in M THEN batch[c].net ELSE 0]
             G == [c \in Cycles |-> IF c \in S THEN batch[c].net ELSE 0]
  <1>3. M \in SUBSET Cycles /\ S \in SUBSET Cycles /\ M \subseteq S /\ IsFiniteSet(Cycles)
    BY <1>1, <1>2, PayoutAssumption DEF Sent
  <1>4. \A c \in Cycles : batch[c].net \in Int
    BY BooksInts
  <1>5. PaidOut = SumFunctionOnSet(f, M) /\ Outgoing = SumFunctionOnSet(g, S)
    BY <1>1, <1>2 DEF PaidOut, Outgoing, SumFunction
  <1>6. /\ \A c \in M : f[c] \in Int /\ F[c] = f[c]
        /\ \A c \in Cycles \ M : F[c] = 0
        /\ \A c \in S : g[c] \in Int /\ G[c] = g[c]
        /\ \A c \in Cycles \ S : G[c] = 0
        /\ \A c \in Cycles : F[c] \in Int /\ G[c] \in Int /\ F[c] <= G[c]
    BY <1>3, <1>4
  <1> HIDE DEF f, g, F, G
  <1>7. SumFunctionOnSet(f, M) = SumFunctionOnSet(F, Cycles)
    BY <1>3, <1>6, SumWithin
  <1>8. SumFunctionOnSet(g, S) = SumFunctionOnSet(G, Cycles)
    BY <1>3, <1>6, SumWithin
  <1>9. SumFunctionOnSet(F, Cycles) <= SumFunctionOnSet(G, Cycles)
    BY <1>3, <1>6, SumAtMost
  <1>a. SumFunctionOnSet(F, Cycles) \in Int /\ SumFunctionOnSet(G, Cycles) \in Int
    BY <1>3, <1>6, SumInt
  <1> QED BY <1>5, <1>7, <1>8, <1>9, <1>a

\* Between calls, as long as they came one at a time and took no detour, what
\* the lines, adjustments and balances say is owed to the vendor is what the
\* ledger holds as payable, to the last unit: whatever was carried, opened,
\* clawed back, failed, cancelled or reversed before (reconcileVendor).
THEOREM PayoutBooksMatchLines == Spec => []BooksMatchLines
  <1>1. PayoutInv /\ BooksInv => BooksMatchLines
    <2> SUFFICES ASSUME PayoutInv, BooksInv, detours = {}, Running = {} PROVE Owed = Payable
      BY DEF BooksMatchLines
    <2>1. BooksAt(Idle)
      BY DEF BooksInv, Now
    <2>2. Placed /\ Gap = 0
      BY <2>1, AtHome DEF BooksAt, OrderAt
    <2> QED BY <2>2, OwedIsPayable DEF PayoutInv
  <1> QED BY <1>1, PayoutInvariant, PayoutBooksInvariant, PTL

\* As long as calls come one at a time and take no detour but the return of refunded
\* lines, the money that left never exceeds what the vendor sold and was granted, at no step of a handler
\* and whatever the provider does meanwhile (submit, markReversed).
THEOREM PayoutNeverOverpaid == Spec => []NeverOverpaidAlone
  <1>1. PayoutInv /\ BooksInv => NeverOverpaidAlone
    <2> SUFFICES ASSUME PayoutInv, BooksInv, detours \subseteq {"revived"} PROVE PaidOut <= Granted
      BY DEF NeverOverpaidAlone, NeverOverpaid
    <2>1. PICK d : BooksAt(d)
      BY DEF BooksInv
    <2>2. \A c \in Cycles : batch[c].net >= 0
      BY <2>1 DEF BooksAt, OrderAt, CycleOk, FaceOk
    <2>3. PaidOut <= Outgoing /\ PaidOut \in Int /\ Outgoing \in Int
      BY <2>2, PaidOutSent DEF PayoutInv
    <2>4. Outgoing <= Granted /\ Granted \in Int
      BY <2>1, GrantedInt DEF BooksAt
    <2> QED BY <2>3, <2>4
  <1> QED BY <1>1, PayoutInvariant, PayoutBooksInvariant, PTL
=============================================================================
