-------------------------------- MODULE Payout --------------------------------
(***************************************************************************)
(* Paying one vendor: services/payout.service.js with the state machine of *)
(* utils/payoutStateMachine.js and the provider of payoutProvider.         *)
(*                                                                         *)
(* Sale lines accrue, become eligible and are pinned to the batch of a     *)
(* cycle; a refund cancels an unpaid line or books a negative one.  The    *)
(* batch is approved, submitted to the provider, and settled by its        *)
(* answer, its webhooks or the reconciliation sweep.  Every handler works  *)
(* on its own copy of the batch: a save writes the fields it changed, and  *)
(* only a save of the journal ids compares mongoose's version.             *)
(*                                                                         *)
(* A line is worth one unit, and so is an adjustment.  Commission and      *)
(* taxes are left out, so the cash and the ledger view of a batch agree.   *)
(***************************************************************************)
EXTENDS Integers, FiniteSets, FiniteSetsExt, SequencesExt

CONSTANTS
    Lines,        \* order items of the vendor
    Cycles,       \* payout cycles, numbered in time: at most one batch each
    Adjustments,  \* manual adjustments an admin may add
    Approvers,
    Procs,        \* requests, webhooks and sweep runs in flight
    MinPayout,    \* policy.minPayoutPaise
    DualAt,       \* policy.dualApprovalPaise
    MaxOverlaps,  \* bound on the calls started while another is running
    MaxCrashes,   \* bound on the calls that die half way
    MaxFailures   \* bound on the failed submissions of one batch

ASSUME PayoutAssumption ==
    /\ Cycles \subseteq Nat \ {0}
    /\ IsFiniteSet(Cycles) /\ IsFiniteSet(Lines) /\ IsFiniteSet(Adjustments)
    /\ {MinPayout, DualAt, MaxOverlaps, MaxCrashes, MaxFailures} \subseteq Nat

NoCycle == 0

VARIABLES
    line,       \* payoutlineitems: sale lines and the offsets of refunded ones
    batch,      \* payoutbatches, by cycle
    adjusted,   \* payoutadjustments: none, pending, or the cycle that applied it
    journal,    \* ledgerjournals of a batch: what was drained, and if it was unwound
    provider,   \* what became of the money at the provider, by idempotency key
    call,       \* per process: the next step, its copy of the batch, what it read
    sent,       \* ghost: instructions sent and failures recorded, by batch
    detours,    \* ghost: what happened that a single caller in a row would not do
    bounds      \* overlaps and crashes, for the bounds

vars == <<line, batch, adjusted, journal, provider, call, sent, detours, bounds>>

\* A sale line and the negative line a refund of it books.
Items == Lines \X {1, -1}
Worth(items) == SumFunction([i \in items |-> i[2]])

LineStates == {"none", "accrued", "eligible", "held", "batched", "paid", "reversed"}

States == {"none", "draft", "pending", "approved", "rejected", "cancelled",
           "queued", "processing", "paid", "failed", "reversed"}

\* utils/payoutStateMachine.js
Successors ==
    [s \in States |->
        CASE s = "draft"      -> {"pending", "cancelled"}
          [] s = "pending"    -> {"approved", "rejected", "cancelled"}
          [] s = "approved"   -> {"queued", "cancelled"}
          [] s = "queued"     -> {"processing", "cancelled"}
          [] s = "processing" -> {"paid", "failed"}
          [] s = "paid"       -> {"reversed"}
          [] s = "failed"     -> {"queued", "cancelled"}
          [] s = "rejected"   -> {"draft"}
          [] OTHER            -> {}]

Steps ==
    {"idle", "promote", "refund", "carry", "create", "absorb", "consume", "pin", "apply",
     "ask", "approve", "approved", "reject", "cancel", "release", "unapply", "preserve",
     "queue", "process", "stamp", "post", "ids", "instruct", "answer", "fetch",
     "paid", "settle", "failed", "reverse", "unwind", "unwound", "restore"}

\* What a call remembers of an answer, or of the line it read.
Outcomes == LineStates \cup {"cancelled", "ambiguous", "accepted", "failed"}

LineType == [state : LineStates, cycle : Cycles \cup {NoCycle}]
BatchType == [state : States, lines : Int, net : Int, carry : Int, opening : Int,
              approvals : Seq(Approvers), version : Nat, chase : BOOLEAN]
JournalType == [posted : BOOLEAN, drained : Int, unwound : BOOLEAN]
CallType == [at : Steps, cycle : Cycles \cup {NoCycle}, copy : BatchType,
             items : SUBSET Items, adjs : SUBSET Adjustments, from : Cycles \cup {NoCycle},
             who : SUBSET Approvers, outcome : Outcomes]

NoBatch == [state |-> "none", lines |-> 0, net |-> 0, carry |-> 0, opening |-> 0,
            approvals |-> <<>>, version |-> 0, chase |-> FALSE]
NoJournal == [posted |-> FALSE, drained |-> 0, unwound |-> FALSE]

Idle == [at |-> "idle", cycle |-> NoCycle, copy |-> NoBatch, items |-> {}, adjs |-> {},
         from |-> NoCycle, who |-> {}, outcome |-> "none"]

Init ==
    /\ line = [i \in Items |-> [state |-> IF i[2] = 1 THEN "accrued" ELSE "none",
                                cycle |-> NoCycle]]
    /\ batch = [c \in Cycles |-> NoBatch]
    /\ adjusted = [a \in Adjustments |-> [added |-> FALSE, cycle |-> NoCycle]]
    /\ journal = [c \in Cycles |-> NoJournal]
    /\ provider = [c \in Cycles |-> "none"]
    /\ call = [p \in Procs |-> Idle]
    /\ sent = [c \in Cycles |-> [instructions |-> 0, failures |-> 0]]
    /\ detours = {}
    /\ bounds = [overlaps |-> 0, crashes |-> 0]

Running == {p \in Procs : call[p].at # "idle"}
At(p, step) == call[p].at = step
Cycle(p) == call[p].cycle
Copy(p) == call[p].copy
Book == <<line, adjusted, journal>>   \* what only the later steps of a handler touch
Ghosts == <<sent, detours, bounds>>

\* A request comes in, perhaps while others are running.
Arrive(more) ==
    /\ Running # {} => bounds.overlaps < MaxOverlaps
    /\ bounds' = IF Running = {} THEN bounds ELSE [bounds EXCEPT !.overlaps = @ + 1]
    /\ detours' = detours \cup more \cup IF Running = {} THEN {} ELSE {"overlap"}

\* A call begins with what it reads first.
Begin(p, c) ==
    /\ At(p, "idle") /\ Arrive({})
    /\ call' = [call EXCEPT ![p] = c]

BeginOn(p, c, step) == Begin(p, [Idle EXCEPT !.at = step, !.cycle = c, !.copy = batch[c]])

Continue(p, step) == call' = [call EXCEPT ![p].at = step]
Return(p) == call' = [call EXCEPT ![p] = Idle]

\* transition: validated on the copy, then the new state is saved over whatever
\* state the batch has by now.
Transition(p, state, step) ==
    IF state \in Successors[Copy(p).state]
    THEN /\ batch' = [batch EXCEPT ![Cycle(p)].state = state]
         /\ call' = [call EXCEPT ![p] = IF step = "idle" THEN Idle
                                        ELSE [@ EXCEPT !.copy.state = state, !.at = step]]
    ELSE Return(p) /\ UNCHANGED batch

-----------------------------------------------------------------------------
(* Lines have accrued; eligibility, refunds, holds and adjustments *)

\* markEligible reads lines whose window closed and whose money arrived, and
\* saves the new state later.
EligibleFind(p, i) ==
    /\ line[i].state = "accrued"
    /\ Begin(p, [Idle EXCEPT !.at = "promote", !.items = {i}])
    /\ UNCHANGED <<line, batch, adjusted, journal, provider, sent>>

EligibleSave(p) ==
    /\ At(p, "promote")
    /\ line' = [i \in Items |-> IF i \in call[p].items
                                THEN [line[i] EXCEPT !.state = "eligible"] ELSE line[i]]
    /\ Return(p)
    /\ UNCHANGED <<batch, adjusted, journal, provider, Ghosts>>

\* reverseForRefund of a whole line, once; it decides on the state it read.
RefundFind(p, l) ==
    /\ line[<<l, 1>>].state # "reversed" /\ line[<<l, -1>>].state = "none"
    /\ \A q \in Procs : At(q, "refund") => <<l, 1>> \notin call[q].items
    /\ Begin(p, [Idle EXCEPT !.at = "refund", !.items = {<<l, 1>>},
                             !.outcome = line[<<l, 1>>].state])
    /\ UNCHANGED <<line, batch, adjusted, journal, provider, sent>>

\* An unpaid line is cancelled; for any other a negative line offsets the next
\* cycle.
RefundSave(p) ==
    /\ At(p, "refund")
    /\ \E i \in call[p].items :
         line' = IF call[p].outcome \in {"accrued", "eligible", "held"}
                 THEN [line EXCEPT ![i].state = "reversed"]
                 ELSE [line EXCEPT ![<<i[1], -1>>].state = "eligible"]
    /\ Return(p)
    /\ UNCHANGED <<batch, adjusted, journal, provider, Ghosts>>

\* holdLines with line ids asks for no state: it takes a line that is in a batch or
\* paid, and one that was refunded, which the ghost marks.  With a vendor id it takes
\* unpaid ones only.  releaseLines makes a held line eligible, whatever it was before.
HoldLine(i) ==
    /\ line[i].state \notin {"none", "held"}
    /\ line' = [line EXCEPT ![i].state = "held"]
    /\ Arrive(CASE line[i].state \in {"batched", "paid"} -> {"hold"}
                [] line[i].state = "reversed"          -> {"revived"}
                [] OTHER                               -> {})
    /\ UNCHANGED <<batch, adjusted, journal, provider, call, sent>>

ReleaseLine(i) ==
    /\ line[i].state = "held"
    /\ line' = [line EXCEPT ![i].state = "eligible"]
    /\ Arrive({})
    /\ UNCHANGED <<batch, adjusted, journal, provider, call, sent>>

AddAdjustment(a) ==
    /\ ~adjusted[a].added
    /\ adjusted' = [adjusted EXCEPT ![a].added = TRUE]
    /\ Arrive({})
    /\ UNCHANGED <<line, batch, journal, provider, call, sent>>

-----------------------------------------------------------------------------
(* computeCycleForVendor *)

\* The unapplied adjustments, and the batches that carry a balance.
Pending == {a \in Adjustments : adjusted[a].added /\ adjusted[a].cycle = NoCycle}
Carrying == {c \in Cycles : batch[c].carry # 0}

\* The window of a cycle picks any of the eligible lines; a cycle with nothing
\* to pay changes nothing and is left out.
ComputeFind(p, c, window) ==
    /\ batch[c] = NoBatch
    /\ window \subseteq {i \in Items : line[i].state = "eligible"}
    /\ window # {} \/ Pending # {} \/ Carrying # {}
    /\ Begin(p, [Idle EXCEPT !.at = "carry", !.cycle = c, !.items = window])
    /\ UNCHANGED <<line, batch, adjusted, journal, provider, sent>>

\* Then the adjustments and the latest batch that carries.
ComputeCarry(p) ==
    /\ At(p, "carry")
    /\ LET from == IF Carrying = {} THEN NoCycle ELSE Max(Carrying)
           opening == IF from = NoCycle THEN 0 ELSE batch[from].carry IN
       IF call[p].items = {} /\ Pending = {} /\ opening = 0
       THEN Return(p)
       ELSE call' = [call EXCEPT ![p].adjs = Pending, ![p].from = from,
                                 ![p].copy.opening = opening, ![p].at = "create"]
    /\ UNCHANGED <<line, batch, adjusted, journal, provider, Ghosts>>

\* Below zero or below the floor nothing is paid and the balance is carried.
\* The idempotency key is unique: a second batch of the cycle is refused.
Computed(p) ==
    LET lines == Worth(call[p].items) + Cardinality(call[p].adjs)
        raw == lines + Copy(p).opening
        carries == raw < 0 \/ raw < MinPayout IN
    [NoBatch EXCEPT !.state = "draft", !.lines = lines, !.opening = Copy(p).opening,
                    !.net = IF carries THEN 0 ELSE raw,
                    !.carry = IF carries THEN raw ELSE 0]
ComputeCreate(p) ==
    /\ At(p, "create")
    /\ IF batch[Cycle(p)] = NoBatch
       THEN /\ batch' = [batch EXCEPT ![Cycle(p)] = Computed(p)]
            /\ Continue(p, IF call[p].from # NoCycle THEN "absorb" ELSE "pin")
       ELSE Return(p) /\ UNCHANGED batch
    /\ UNCHANGED <<Book, provider, Ghosts>>

\* The balance moves into the opening of the new batch ...  The ghost marks
\* one that holds adjustments or an opening of its own.
Nested(c) == batch[c].opening # 0 \/ \E a \in Adjustments : adjusted[a].cycle = c
ComputeAbsorb(p) ==
    /\ At(p, "absorb")
    /\ LET from == call[p].from IN
       /\ batch' = [batch EXCEPT ![from].carry = 0]
       /\ detours' = IF Nested(from) THEN detours \cup {"nested"} ELSE detours
    /\ Continue(p, "consume")
    /\ UNCHANGED <<Book, provider, sent, bounds>>

LinesOf(c, states) == {i \in Items : line[i].cycle = c /\ line[i].state \in states}
SetLines(items, state, c) ==
    line' = [i \in Items |-> IF i \in items THEN [state |-> state, cycle |-> c] ELSE line[i]]

\* ... and the lines behind it, already counted, are consumed.
ComputeConsume(p) ==
    /\ At(p, "consume")
    /\ SetLines(LinesOf(call[p].from, {"batched"}), "paid", call[p].from)
    /\ Continue(p, "pin")
    /\ UNCHANGED <<batch, adjusted, journal, provider, Ghosts>>

\* The lines are pinned by their ids, whatever state they are in by now.
ComputePin(p) ==
    /\ At(p, "pin")
    /\ SetLines(call[p].items, "batched", Cycle(p))
    /\ Continue(p, "apply")
    /\ UNCHANGED <<batch, adjusted, journal, provider, Ghosts>>

ComputeApply(p) ==
    /\ At(p, "apply")
    /\ adjusted' = [a \in Adjustments |-> IF a \in call[p].adjs
                                          THEN [adjusted[a] EXCEPT !.cycle = Cycle(p)]
                                          ELSE adjusted[a]]
    /\ Return(p)
    /\ UNCHANGED <<line, batch, journal, provider, Ghosts>>

-----------------------------------------------------------------------------
(* Approval *)

\* The ghost marks an approval step saved over a batch that has moved on.
Belated(p) == IF batch[Cycle(p)].state = Copy(p).state THEN detours ELSE detours \cup {"belated"}

\* submitForApproval: nothing to pay is refused, then one transition.
AskFind(p, c) ==
    /\ batch[c].state = "draft" /\ batch[c].net > 0
    /\ BeginOn(p, c, "ask")
    /\ UNCHANGED <<line, batch, adjusted, journal, provider, sent>>
AskSave(p) ==
    /\ At(p, "ask")
    /\ Transition(p, "pending", "idle")
    /\ detours' = Belated(p)
    /\ UNCHANGED <<Book, provider, sent, bounds>>

ApprovedBy(b) == {b.approvals[n] : n \in DOMAIN b.approvals}
Dual(b) == b.net >= DualAt

\* Mutant: the same person may approve again.
ApproveFindAgain(p, c, u) ==
    /\ batch[c].state = "pending"
    /\ Begin(p, [Idle EXCEPT !.at = "approve", !.cycle = c, !.copy = batch[c], !.who = {u}])
    /\ UNCHANGED <<line, batch, adjusted, journal, provider, sent>>

\* approve: not twice by one person, and only a pending batch.
ApproveFind(p, c, u) ==
    /\ u \notin ApprovedBy(batch[c]) /\ batch[c].state = "pending"
    /\ Begin(p, [Idle EXCEPT !.at = "approve", !.cycle = c, !.copy = batch[c], !.who = {u}])
    /\ UNCHANGED <<line, batch, adjusted, journal, provider, sent>>

\* The approval is pushed onto the list the batch has by now; the count is of
\* the copy's list.
ApprovePush(p) ==
    /\ At(p, "approve")
    /\ LET c == Cycle(p)
           u == CHOOSE w \in call[p].who : TRUE
           own == Append(Copy(p).approvals, u)
           enough == Len(own) >= IF Dual(Copy(p)) THEN 2 ELSE 1 IN
       /\ batch' = [batch EXCEPT ![c].approvals = Append(@, u), ![c].version = @ + 1]
       /\ IF enough
          THEN call' = [call EXCEPT ![p].copy.approvals = own, ![p].at = "approved"]
          ELSE Return(p)
    /\ UNCHANGED <<Book, provider, Ghosts>>

ApproveSave(p) ==
    /\ At(p, "approved")
    /\ Transition(p, "approved", "idle")
    /\ detours' = Belated(p)
    /\ UNCHANGED <<Book, provider, sent, bounds>>

\* reject: the lines stay pinned.
RejectFind(p, c) ==
    /\ batch[c].state = "pending"
    /\ BeginOn(p, c, "reject")
    /\ UNCHANGED <<line, batch, adjusted, journal, provider, sent>>
RejectSave(p) ==
    /\ At(p, "reject")
    /\ Transition(p, "rejected", "idle")
    /\ UNCHANGED <<Book, provider, Ghosts>>

\* cancel: not once the provider has it.  The ghost marks the cancelling of a
\* batch whose adjustments stay in the balance it carries.
CancelFind(p, c) ==
    /\ "cancelled" \in Successors[batch[c].state]
    /\ At(p, "idle")
    /\ Arrive(IF batch[c].carry # 0 /\ \E a \in Adjustments : adjusted[a].cycle = c
              THEN {"nested"} ELSE {})
    /\ call' = [call EXCEPT ![p] = [Idle EXCEPT !.at = "cancel", !.cycle = c, !.copy = batch[c],
                                                !.outcome = "cancelled"]]
    /\ UNCHANGED <<line, batch, adjusted, journal, provider, sent>>
CancelSave(p) ==
    /\ At(p, "cancel")
    /\ Transition(p, "cancelled", "release")
    /\ UNCHANGED <<Book, provider, Ghosts>>

\* Mutant: releaseBatchLines returns the lines of a batch that carried.
ReleaseAll(p) ==
    /\ At(p, "release")
    /\ SetLines(LinesOf(Cycle(p), {"batched"}), "eligible", NoCycle)
    /\ Continue(p, "unapply")
    /\ UNCHANGED <<batch, adjusted, journal, provider, Ghosts>>

\* releaseBatchLines: what was carried is consumed, anything else returns.
Release(p) ==
    /\ At(p, "release")
    /\ LET lines == LinesOf(Cycle(p), {"batched"}) IN
       IF Copy(p).carry # 0
       THEN SetLines(lines, "paid", Cycle(p))
       ELSE SetLines(lines, "eligible", NoCycle)
    /\ Continue(p, "unapply")
    /\ UNCHANGED <<batch, adjusted, journal, provider, Ghosts>>
Unapply(p) ==
    /\ At(p, "unapply")
    /\ adjusted' = [a \in Adjustments |-> IF adjusted[a].cycle = Cycle(p)
                                          THEN [adjusted[a] EXCEPT !.cycle = NoCycle]
                                          ELSE adjusted[a]]
    /\ Continue(p, "preserve")
    /\ UNCHANGED <<line, batch, journal, provider, Ghosts>>

\* preserveOpeningOnExit: an absorbed balance is carried again.
Preserve(p) ==
    /\ At(p, "preserve")
    /\ batch' = IF Copy(p).opening # 0 /\ Copy(p).carry = 0
                THEN [batch EXCEPT ![Cycle(p)].carry = Copy(p).opening,
                                   ![Cycle(p)].opening = 0]
                ELSE batch
    /\ Return(p)
    /\ UNCHANGED <<Book, provider, Ghosts>>

-----------------------------------------------------------------------------
(* submit *)

\* An approved batch, or one the provider has refused.
SubmitFind(p, c) ==
    /\ batch[c].state \in {"approved", "failed"}
    /\ sent[c].failures < MaxFailures
    /\ At(p, "idle")
    /\ Arrive(IF batch[c].state = "failed" THEN {"resubmit"} ELSE {})
    /\ call' = [call EXCEPT ![p] = [Idle EXCEPT !.at = "queue", !.cycle = c, !.copy = batch[c]]]
    /\ UNCHANGED <<line, batch, adjusted, journal, provider, sent>>
SubmitQueue(p) ==
    /\ At(p, "queue")
    /\ Transition(p, "queued", "process")
    /\ UNCHANGED <<Book, provider, Ghosts>>
SubmitProcess(p) ==
    /\ At(p, "process")
    /\ Transition(p, "processing", "stamp")
    /\ UNCHANGED <<Book, provider, Ghosts>>

\* submittedAt: from here the sweep finds the batch once it is old enough.
SubmitStamp(p) ==
    /\ At(p, "stamp")
    /\ batch' = [batch EXCEPT ![Cycle(p)].chase = TRUE]
    /\ Continue(p, "post")
    /\ UNCHANGED <<Book, provider, Ghosts>>

\* postPayoutJournal drains the lines, adjustments and opening of the copy; a
\* journal of that key is posted once.
SubmitPost(p) ==
    /\ At(p, "post")
    /\ journal' = [journal EXCEPT ![Cycle(p)] =
                      IF @.posted THEN @
                      ELSE [@ EXCEPT !.posted = TRUE,
                                     !.drained = Copy(p).lines + Copy(p).opening]]
    /\ Continue(p, "ids")
    /\ UNCHANGED <<line, batch, adjusted, provider, Ghosts>>

\* A save of the journal ids sets the whole array, so it compares the version;
\* the handler that lost ends here.
SaveIds(p, step) ==
    /\ IF batch[Cycle(p)].version = Copy(p).version
       THEN /\ batch' = [batch EXCEPT ![Cycle(p)].version = @ + 1]
            /\ call' = [call EXCEPT ![p].copy.version = @ + 1, ![p].at = step]
       ELSE Return(p) /\ UNCHANGED batch
    /\ UNCHANGED <<Book, provider, Ghosts>>

\* Mutant: the journal ids are pushed, which compares nothing.
SubmitIdsBlind(p) ==
    /\ At(p, "ids")
    /\ batch' = [batch EXCEPT ![Cycle(p)].version = @ + 1]
    /\ call' = [call EXCEPT ![p].copy.version = @ + 1, ![p].at = "instruct"]
    /\ UNCHANGED <<Book, provider, Ghosts>>
SubmitIds(p) == At(p, "ids") /\ SaveIds(p, "instruct")

-----------------------------------------------------------------------------
(* The provider, and its answers *)

\* The provider keeps one payout per idempotency key.  An answer may be lost.
Instruct(p) ==
    /\ At(p, "instruct")
    /\ LET c == Cycle(p) IN
       /\ sent' = [sent EXCEPT ![c].instructions = @ + 1]
       /\ \E money \in IF provider[c] = "none" THEN {"none", "moving", "moved"}
                                               ELSE {provider[c]} :
          \E outcome \in {"ambiguous", CASE money = "none"  -> "failed"
                                         [] money = "moved" -> "paid"
                                         [] OTHER           -> "accepted"} :
            /\ provider' = [provider EXCEPT ![c] = money]
            /\ call' = [call EXCEPT ![p].outcome = outcome, ![p].at = "answer"]
    /\ UNCHANGED <<line, batch, adjusted, journal, detours, bounds>>

\* Mutant: an ambiguous answer is taken for a refusal.
AnswerAmbiguousFails(p) ==
    /\ At(p, "answer")
    /\ batch' = batch
    /\ CASE call[p].outcome = "paid"     -> Continue(p, "paid")
         [] call[p].outcome = "accepted" -> Return(p)
         [] OTHER -> call' = [call EXCEPT ![p].outcome = "failed", ![p].at = "failed"]
    /\ UNCHANGED <<Book, provider, Ghosts>>

\* An ambiguous answer leaves the batch to the sweep.
Answer(p) ==
    /\ At(p, "answer")
    /\ LET outcome == call[p].outcome IN
       /\ batch' = [batch EXCEPT ![Cycle(p)].chase = @ \/ outcome = "ambiguous"]
       /\ IF outcome \in {"paid", "failed"} THEN Continue(p, outcome) ELSE Return(p)
    /\ UNCHANGED <<Book, provider, Ghosts>>

\* A payout under way moves or fails; the bank may return a moved one.
ProviderStep(c) ==
    /\ \E money \in CASE provider[c] = "moving" -> {"moved", "failed"}
                      [] provider[c] = "moved"  -> {"bounced"}
                      [] OTHER                  -> {} :
         provider' = [provider EXCEPT ![c] = money]
    /\ UNCHANGED <<line, batch, adjusted, journal, call, Ghosts>>

Outcome(money) ==
    CASE money = "moved" -> "paid" [] money = "failed" -> "failed" [] OTHER -> "reversed"

\* applyProviderEvent: late, repeated or never; what the batch refuses changes
\* nothing.  A reversal of a payout not yet known as paid marks it paid first.
Webhook(p, c) ==
    /\ \E outcome \in CASE provider[c] = "moved"   -> {"paid"}
                        [] provider[c] = "failed"  -> {"failed"}
                        [] provider[c] = "bounced" -> {"paid", "reversed"}
                        [] OTHER                   -> {} :
         /\ batch[c].state = "processing" \/ (batch[c].state = "paid" /\ outcome = "reversed")
         /\ Begin(p, [Idle EXCEPT !.cycle = c, !.copy = batch[c], !.outcome = outcome,
                         !.at = IF outcome # "reversed" THEN outcome
                                ELSE IF batch[c].state = "processing" THEN "paid" ELSE "reverse"])
    /\ UNCHANGED <<line, batch, adjusted, journal, provider, sent>>

\* reconcileInFlight: a batch in flight is found, then the provider is asked.
\* A sweep that learns nothing changes nothing and is left out.
SweepFind(p, c) ==
    /\ batch[c].state = "processing" /\ batch[c].chase
    /\ provider[c] \in {"moved", "failed", "bounced"}
    /\ BeginOn(p, c, "fetch")
    /\ UNCHANGED <<line, batch, adjusted, journal, provider, sent>>

\* Mutant: a reversal reported to the sweep is recorded without the payment.
SweepFetchReversed(p) ==
    /\ At(p, "fetch")
    /\ LET outcome == Outcome(provider[Cycle(p)]) IN
       call' = [call EXCEPT ![p].outcome = outcome,
                            ![p].at = IF outcome = "reversed" THEN "reverse" ELSE outcome]
    /\ UNCHANGED <<line, batch, adjusted, journal, provider, Ghosts>>

SweepFetch(p) ==
    /\ At(p, "fetch")
    /\ LET outcome == Outcome(provider[Cycle(p)]) IN
       call' = [call EXCEPT ![p].outcome = outcome,
                            ![p].at = IF outcome = "reversed" THEN "paid" ELSE outcome]
    /\ UNCHANGED <<line, batch, adjusted, journal, provider, Ghosts>>

-----------------------------------------------------------------------------
(* markPaid, markFailed, markReversed *)

\* markPaid: a reversal that outran the success goes on to markReversed.
MarkPaid(p) ==
    /\ At(p, "paid")
    /\ Transition(p, "paid", "settle")
    /\ UNCHANGED <<Book, provider, Ghosts>>
Settle(p) ==
    /\ At(p, "settle")
    /\ SetLines(LinesOf(Cycle(p), {"batched"}), "paid", Cycle(p))
    /\ IF call[p].outcome = "reversed" THEN Continue(p, "reverse") ELSE Return(p)
    /\ UNCHANGED <<batch, adjusted, journal, provider, Ghosts>>

MarkFailed(p) ==
    /\ At(p, "failed")
    /\ Transition(p, "failed", "unwind")
    /\ sent' = IF "failed" \in Successors[Copy(p).state]
               THEN [sent EXCEPT ![Cycle(p)].failures = @ + 1] ELSE sent
    /\ UNCHANGED <<Book, provider, detours, bounds>>

\* The ghost marks the reversal of a batch with adjustments: they stay applied.
MarkReversed(p) ==
    /\ At(p, "reverse")
    /\ Transition(p, "reversed", "unwind")
    /\ detours' = IF \E a \in Adjustments : adjusted[a].cycle = Cycle(p)
                  THEN detours \cup {"reversal"} ELSE detours
    /\ UNCHANGED <<Book, provider, sent, bounds>>

\* unwindPayoutJournal: the mirror of the journal, if there is one, once; then
\* the journal ids are saved.
AfterUnwind(p) == IF call[p].outcome = "reversed" THEN "restore" ELSE "release"

\* Mutant: the journal of a failed payout stands.
UnwindNothing(p) ==
    /\ At(p, "unwind")
    /\ Continue(p, AfterUnwind(p))
    /\ UNCHANGED <<batch, Book, provider, Ghosts>>

Unwind(p) ==
    /\ At(p, "unwind")
    /\ LET j == journal[Cycle(p)]
           created == j.posted /\ ~j.unwound IN
       /\ journal' = [journal EXCEPT ![Cycle(p)].unwound = @ \/ created]
       /\ Continue(p, IF created THEN "unwound" ELSE AfterUnwind(p))
    /\ UNCHANGED <<line, batch, adjusted, provider, Ghosts>>
UnwindIds(p) == At(p, "unwound") /\ SaveIds(p, AfterUnwind(p))

\* After a bank reversal paid lines become eligible again, too.
Restore(p) ==
    /\ At(p, "restore")
    /\ SetLines(LinesOf(Cycle(p), {"batched", "paid"}), "eligible", NoCycle)
    /\ Continue(p, "preserve")
    /\ UNCHANGED <<batch, adjusted, journal, provider, Ghosts>>

Crash(p) ==
    /\ ~At(p, "idle") /\ bounds.crashes < MaxCrashes
    /\ Return(p)
    /\ detours' = detours \cup {"crash"}
    /\ bounds' = [bounds EXCEPT !.crashes = @ + 1]
    /\ UNCHANGED <<line, batch, adjusted, journal, provider, sent>>

-----------------------------------------------------------------------------

Ask(p) ==
    \/ \E i \in Items : EligibleFind(p, i)
    \/ \E l \in Lines : RefundFind(p, l)
    \/ \E c \in Cycles :
         \/ \E window \in SUBSET {i \in Items : line[i].state = "eligible"} :
              ComputeFind(p, c, window)
         \/ AskFind(p, c) \/ RejectFind(p, c) \/ CancelFind(p, c) \/ SubmitFind(p, c)
         \/ \E u \in Approvers : ApproveFind(p, c, u)
         \/ Webhook(p, c)

Advance(p) ==
    \/ EligibleSave(p) \/ RefundSave(p)
    \/ ComputeCarry(p) \/ ComputeCreate(p) \/ ComputeAbsorb(p) \/ ComputeConsume(p)
    \/ ComputePin(p) \/ ComputeApply(p)
    \/ AskSave(p) \/ ApprovePush(p) \/ ApproveSave(p) \/ RejectSave(p)
    \/ CancelSave(p) \/ Release(p) \/ Unapply(p) \/ Preserve(p)
    \/ SubmitQueue(p) \/ SubmitProcess(p) \/ SubmitStamp(p) \/ SubmitPost(p) \/ SubmitIds(p)
    \/ Instruct(p) \/ Answer(p) \/ SweepFetch(p)
    \/ MarkPaid(p) \/ Settle(p) \/ MarkFailed(p) \/ MarkReversed(p)
    \/ Unwind(p) \/ UnwindIds(p) \/ Restore(p)

Sweep(p) == \E c \in Cycles : SweepFind(p, c)

Next ==
    \/ \E i \in Items : HoldLine(i) \/ ReleaseLine(i)
    \/ \E a \in Adjustments : AddAdjustment(a)
    \/ \E c \in Cycles : ProviderStep(c)
    \/ \E p \in Procs : Ask(p) \/ Advance(p) \/ Sweep(p) \/ Crash(p)

\* A handler under way goes on, and the worker keeps running the sweep.
Fairness ==
    /\ \A p \in Procs : WF_vars(Advance(p))
    /\ WF_vars(\E p \in Procs : Sweep(p))

Spec == Init /\ [][Next]_vars /\ Fairness

-----------------------------------------------------------------------------
(* Properties *)

TypeOK ==
    /\ line \in [Items -> LineType]
    /\ batch \in [Cycles -> BatchType]
    /\ adjusted \in [Adjustments -> [added : BOOLEAN, cycle : Cycles \cup {NoCycle}]]
    /\ journal \in [Cycles -> JournalType]
    /\ provider \in [Cycles -> {"none", "moving", "moved", "failed", "bounced"}]
    /\ call \in [Procs -> CallType]
    /\ sent \in [Cycles -> [instructions : Nat, failures : Nat]]
    /\ detours \subseteq {"overlap", "crash", "hold", "revived", "nested", "belated", "resubmit",
                          "reversal"}
    /\ bounds \in [overlaps : Nat, crashes : Nat]

\* Dual approval: however approvals race, a batch above the threshold that left
\* the approval stage was approved by two different people (approve).
DualApproval ==
    \A c \in Cycles :
        batch[c].state \in {"approved", "queued", "processing", "paid", "failed", "reversed"} =>
            Cardinality(ApprovedBy(batch[c])) >= IF Dual(batch[c]) THEN 2 ELSE 1

\* The provider is instructed once, and once more only after a failure was
\* recorded: two submissions at once meet at the version of the ids.  Only an
\* approval step saved belatedly can reopen a batch in flight (submit).
InstructedOnce ==
    "belated" \notin detours =>
        \A c \in Cycles : sent[c].instructions <= 1 + sent[c].failures

\* What the batch says of the money is what became of it: nothing is PAID that
\* did not move, and nothing FAILED that did (submit, reconcileInFlight).  A
\* batch that a belated approval has reopened may be sent again while the
\* failure of its first submission is still to be recorded.
StateMatchesProvider ==
    \A c \in Cycles :
        /\ batch[c].state \in {"paid", "reversed"} => provider[c] \in {"moved", "bounced"}
        /\ batch[c].state = "failed" /\ "belated" \notin detours =>
               provider[c] \notin {"moving", "moved"}

\* reconcileVendor: what the payable account of the vendor should hold.
Live(c) == batch[c].state \in {"processing", "paid"}
Pinned(c) == ~Live(c) /\ batch[c].carry = 0
Owed ==
    LET open == {i \in Items :
                   \/ line[i].state \in {"accrued", "eligible", "held"}
                   \/ line[i].state = "batched" /\ Pinned(line[i].cycle)}
        adjustments == {a \in Adjustments :
                   adjusted[a].added /\ (adjusted[a].cycle = NoCycle \/ Pinned(adjusted[a].cycle))}
    IN  Worth(open) + Cardinality(adjustments)
        + SumFunction([c \in Cycles |-> batch[c].carry])
        + SumFunction([c \in {d \in Cycles : Pinned(d)} |-> batch[c].opening])

\* What it does hold: sales, refunds and adjustments, less the payout journals.  The
\* refunded lines are told by their state, as long as no hold has taken one back.
Refunded == {l \in Lines : line[<<l, 1>>].state = "reversed" \/ line[<<l, -1>>].state # "none"}
Standing(c) == journal[c].posted /\ ~journal[c].unwound
Payable ==
    Cardinality(Lines) - Cardinality(Refunded) + Cardinality({a \in Adjustments : adjusted[a].added})
    - SumFunction([c \in {d \in Cycles : Standing(d)} |-> journal[c].drained])

\* Between calls, as long as they came one at a time, the books and the lines
\* agree to the last unit: carries, openings, clawbacks and reversals included
\* (reconcileVendor).  The detours are the known ways out, a line held in a batch,
\* after its payment or after its refund among them.
BooksMatchLines == detours = {} /\ Running = {} => Owed = Payable

\* A line refunded before it was paid "flips to REVERSED and never enters a batch"
\* (payout.service.js:361).  Broken: held by its id and released it is eligible.
RefundedStaysOut ==
    \A l \in Lines :
        [](line[<<l, 1>>].state = "reversed" => [](line[<<l, 1>>].state # "batched"))

\* The money that left never exceeds all the vendor ever sold and was granted, not
\* even if refunded lines come back.
PaidOut == SumFunction([c \in {d \in Cycles : provider[d] = "moved"} |-> batch[c].net])
Granted == Cardinality(Lines) + Cardinality({a \in Adjustments : adjusted[a].added})
NeverOverpaid == PaidOut <= Granted
NeverOverpaidAlone == detours \subseteq {"revived"} => NeverOverpaid

\* A batch in flight whose fate the provider knows does not stay in flight
\* (reconcileInFlight, "the ONLY exit from an ambiguous submission").
AmbiguousResolved ==
    \A c \in Cycles :
        (batch[c].state = "processing" /\ batch[c].chase
            /\ provider[c] \in {"moved", "failed", "bounced"}) ~> batch[c].state # "processing"
=============================================================================
