----------------------------- MODULE GlassShell -----------------------------
(***************************************************************************)
(* The Glass shell (Shell in crates/horizon/src/main.rs, over glass/aura.rs *)
(* and glass/model.rs) and the Aura executor it confirms plans with         *)
(* (aura/src/lib.rs).                                                       *)
(*                                                                         *)
(* One thread runs the compositor's loop and with it the shell: a click, a  *)
(* key or a tick is handled to its end before the next.  A second thread    *)
(* plans, one ask after the other.  Other processes write the audit log     *)
(* the shell polls.  The shell decides from its broker's memory, and each   *)
(* of its own entries extends the log that memory was read from, so it      *)
(* takes the place of what others wrote since (see WeaveBroker).            *)
(*                                                                         *)
(* What is typed is the command it resolves to; a plan is the capabilities  *)
(* each of its steps needs.  Clients that are launched run on their own.    *)
(***************************************************************************)
EXTENDS Integers, Sequences, FiniteSets, SequencesExt

CONSTANTS
    Need,         \* capabilities a step may need
    Plans,        \* plans the planner may answer with: sequences of sets of needs
    MaxGrants,    \* bound on the grants; ids are drawn in this order
    Absent,       \* no ask, proposal, plan, run or grant
    ShellFaults,  \* the faults that may happen, of "log_fails" and "model_fails"
    MaxAsks       \* bound on the asks

ASSUME ShellAssumption ==
    /\ Plans \subseteq Seq(SUBSET Need)
    /\ \A plan \in Plans : IsFiniteSet(UNION Range(plan))
    /\ Absent \notin Nat /\ Absent \notin [need : Need, live : BOOLEAN]
    /\ Absent \notin [of : Nat, missing : SUBSET Need]
    /\ ShellFaults \subseteq {"log_fails", "model_fails"}
    /\ MaxAsks \in Nat /\ MaxGrants \in Nat

VARIABLES
    line,      \* Palette.input
    proposal,  \* Palette.proposal, with the ask it answers
    pending,   \* Shell.pending, likewise
    planning,  \* Shell.planning: the epoch awaited
    asks,      \* Shell.plan_epoch
    requests,  \* plan_tx to the worker: epochs
    worker,    \* the epoch it plans
    results,   \* the worker to plan_rx
    logged,    \* the grants a reader of the audit log would find
    own,       \* likewise of the log up to the head the shell's broker holds
    unlogged,  \* grants its memory has as revoked though own does not
    shown,     \* Shell.model: the live channels on the screen
    outdated,  \* history: whether the last attempt to build it anew failed
    run        \* approve_and_execute under way

paletteVars == <<line, proposal>>
plannerVars == <<requests, worker, results>>
grantVars   == <<logged, own, unlogged, shown, outdated>>
shellVars   == <<paletteVars, pending, planning, asks, plannerVars, grantVars, run>>

Line == {"empty", "ask", "command"}
Grants == 1 .. MaxGrants
Table == [Grants -> {Absent} \cup [need : Need, live : BOOLEAN]]
Epoch == 1 .. MaxAsks
Answer == [epoch : Epoch, plan : Plans \cup {Absent}]

\* Needs still to grant, steps still to run, needs brokered for the next one,
\* handles in the wallet; and what the user saw as missing.
Run == [grant : SUBSET Need, steps : Seq(SUBSET Need), brokered : SUBSET Need,
        wallet : SUBSET Grants, seen : SUBSET Need]

ShellTypeOK ==
    /\ line \in Line
    /\ proposal \in {Absent} \cup [of : Epoch, missing : SUBSET Need]
    /\ pending \in {Absent} \cup [of : Epoch, plan : Plans]
    /\ planning \in {Absent} \cup Epoch
    /\ asks \in 0 .. MaxAsks
    /\ requests \in Seq(Epoch) /\ worker \in {Absent} \cup Epoch
    /\ results \in Seq(Answer)
    /\ logged \in Table /\ own \in Table
    /\ unlogged \subseteq Grants /\ shown \subseteq Grants /\ outdated \in BOOLEAN
    /\ run \in {Absent} \cup Run

EmptyGrants == [g \in Grants |-> Absent]

ShellInit ==
    /\ line = "empty" /\ proposal = Absent
    /\ pending = Absent /\ planning = Absent /\ asks = 0
    /\ requests = << >> /\ worker = Absent /\ results = << >>
    /\ logged = EmptyGrants /\ own = EmptyGrants
    /\ unlogged = {} /\ shown = {} /\ outdated = FALSE
    /\ run = Absent

-----------------------------------------------------------------------------
(* The grants: the log, the broker's memory, the model on the screen.      *)

Channels(table) == {g \in Grants : table[g] # Absent /\ table[g].live}

\* The grants that are live in the broker's memory.
Live == Channels(own) \ unlogged

SeverAll(table, severed) ==
    [g \in Grants |-> IF g \in severed THEN [table[g] EXCEPT !.live = FALSE] ELSE table[g]]

\* Broker::log by the shell: the log is now what its broker holds.
Log(table) == own' = table /\ logged' = table

\* Ids never drawn, of which the next is taken.
Undrawn == {g \in Grants : own[g] = Absent /\ logged[g] = Absent}
Draw == CHOOSE g \in Undrawn : \A h \in Undrawn : g <= h

\* Ids for n grants, beside those a run has still to make.
Room(n) ==
    n + (IF run = Absent THEN 0 ELSE Cardinality(run.grant)) <= Cardinality(Undrawn)

\* Another process grants, or revokes, and the shell does not know.
OtherGrants(need) ==
    /\ Room(1)
    /\ logged' = [logged EXCEPT ![Draw] = [need |-> need, live |-> TRUE]]
    /\ UNCHANGED <<paletteVars, pending, planning, asks, plannerVars, own, unlogged,
                   shown, outdated, run>>

OtherRevokes(g) ==
    /\ g \in Channels(logged)
    /\ logged' = SeverAll(logged, {g})
    /\ UNCHANGED <<paletteVars, pending, planning, asks, plannerVars, own, unlogged,
                   shown, outdated, run>>

-----------------------------------------------------------------------------
(* Keys and clicks.                                                        *)

Resting == run = Absent

NoAsk == planning' = Absent /\ proposal' = Absent /\ pending' = Absent

\* A key that edits the line.  It abandons a proposal and keeps the line, and
\* is ignored while an ask is being planned.
Edit(typed) ==
    /\ Resting /\ planning = Absent
    /\ line' = typed
    /\ NoAsk
    /\ UNCHANGED <<asks, plannerVars, grantVars, run>>

\* Escape: cancel_planning, dismiss_proposal, or an emptied line.
Escape ==
    /\ Resting
    /\ line' = "empty"
    /\ NoAsk
    /\ UNCHANGED <<asks, plannerVars, grantVars, run>>

CanExecute(command) == Resting /\ planning = Absent /\ proposal = Absent /\ line = command

\* Enter on an ask: propose.
Propose ==
    /\ CanExecute("ask") /\ asks < MaxAsks
    /\ asks' = asks + 1
    /\ planning' = asks + 1
    /\ requests' = Append(requests, asks + 1)
    /\ pending' = Absent
    /\ UNCHANGED <<paletteVars, worker, results, grantVars, run>>

\* Enter on a launch, whether the client starts or not, or on a filter.
Launch ==
    /\ CanExecute("command")
    /\ line' \in {"empty", line}
    /\ UNCHANGED <<proposal, pending, planning, asks, plannerVars, grantVars, run>>

\* Broker::revoke of some grants, of which some cannot be logged: those are
\* revoked in memory alone.  One that is revoked there already is not logged.
Revokes(severed, failed) ==
    LET written == (severed \cap Live) \ failed
    IN  /\ unlogged' = unlogged \cup (severed \cap Live \cap failed)
        /\ IF written = {} THEN UNCHANGED <<own, logged>> ELSE Log(SeverAll(own, written))

\* reload_model: what was shown stays if the log cannot be read for the model.
ReloadModel(channels) ==
    \/ shown' = channels /\ outdated' = FALSE
    \/ "model_fails" \in ShellFaults /\ outdated' = TRUE /\ UNCHANGED shown

Failing == IF "log_fails" \in ShellFaults THEN SUBSET shown ELSE {{}}

\* Enter on a line that severs the channels shown that match it.
SeverLine ==
    /\ CanExecute("command")
    /\ line' = "empty"
    /\ \E severed \in SUBSET shown, failed \in Failing : Revokes(severed, failed)
    /\ ReloadModel(Live')
    /\ UNCHANGED <<proposal, pending, planning, asks, plannerVars, run>>

\* A click on a channel's button.  If it cannot be logged the model stays.
SeverClick(g) ==
    /\ Resting /\ g \in shown
    /\ \E failed \in Failing :
          /\ Revokes({g}, failed)
          /\ IF g \in Live /\ g \in failed THEN UNCHANGED <<shown, outdated>>
             ELSE ReloadModel(Live')
    /\ UNCHANGED <<paletteVars, pending, planning, asks, plannerVars, run>>

-----------------------------------------------------------------------------
(* The planner thread.                                                     *)

WorkerTakes ==
    /\ worker = Absent /\ requests # << >>
    /\ worker' = Head(requests)
    /\ requests' = Tail(requests)
    /\ UNCHANGED <<paletteVars, pending, planning, asks, results, grantVars, run>>

\* Wrong: an error is not answered.
WorkerAnswersPlans ==
    /\ worker # Absent
    /\ \E plan \in Plans \cup {Absent} :
          results' = IF plan = Absent THEN results
                     ELSE Append(results, [epoch |-> worker, plan |-> plan])
    /\ worker' = Absent
    /\ UNCHANGED <<paletteVars, pending, planning, asks, requests, grantVars, run>>

\* planner_worker answers every request: a plan, or that it has none.
WorkerAnswers ==
    /\ worker # Absent
    /\ \E plan \in Plans \cup {Absent} :
          results' = Append(results, [epoch |-> worker, plan |-> plan])
    /\ worker' = Absent
    /\ UNCHANGED <<paletteVars, pending, planning, asks, requests, grantVars, run>>

-----------------------------------------------------------------------------
(* The tick: poll_planner, then poll_store.                                *)

NeedsOf(plan) == UNION Range(plan)

\* finish_plan.  The executor that previews has an empty wallet, so all that
\* the plan needs is missing.
FinishPlan(answer) ==
    IF answer.plan = Absent
    THEN /\ proposal' = [of |-> answer.epoch, missing |-> {}]
         /\ pending' = Absent
    ELSE /\ proposal' = [of |-> answer.epoch, missing |-> NeedsOf(answer.plan)]
         /\ pending' = [of |-> answer.epoch, plan |-> answer.plan]

\* Wrong: whatever is planned is taken for what is awaited.
AwaitedAny == DOMAIN results

\* Where the answer awaited is in what the worker has sent.
Awaited == {i \in DOMAIN results : results[i].epoch = planning}

PollPlanner ==
    \/ /\ planning # Absent /\ Awaited # {}
       /\ LET i == CHOOSE j \in Awaited : \A k \in Awaited : j <= k
          IN  /\ FinishPlan(results[i])
              /\ results' = SubSeq(results, i + 1, Len(results))
       /\ planning' = Absent
    \/ /\ planning = Absent \/ Awaited = {}
       /\ results' = << >>
       /\ UNCHANGED <<proposal, pending, planning>>

\* Wrong: the broker is reloaded and the model is not.
ReloadUnseen == own' = logged /\ unlogged' = {} /\ UNCHANGED <<shown, outdated>>

\* poll_store once SHELL_POLL has passed: the broker is reloaded if the log is
\* not at its head, and then the model built anew.  If only that fails the broker
\* is at the head all the same, and no later poll sees news.
PollStore ==
    \/ /\ logged # own
       /\ own' = logged /\ unlogged' = {}
       /\ ReloadModel(Channels(logged))
    \/ logged = own /\ UNCHANGED <<own, unlogged, shown, outdated>>

Tick ==
    /\ Resting
    /\ PollPlanner
    /\ PollStore \/ UNCHANGED <<own, unlogged, shown, outdated>>
    /\ UNCHANGED <<line, asks, requests, worker, logged, run>>

-----------------------------------------------------------------------------
(* Enter on a proposal: confirm, approve_and_execute.                      *)

CanConfirm == Resting /\ planning = Absent /\ proposal # Absent

\* Nothing to run: the proposal of a failed plan is dismissed.
ConfirmFailed ==
    /\ CanConfirm /\ pending = Absent
    /\ line' = "empty" /\ NoAsk
    /\ UNCHANGED <<asks, plannerVars, grantVars, run>>

Running(plan) ==
    [grant |-> NeedsOf(plan), steps |-> plan, brokered |-> {}, wallet |-> {},
     seen |-> proposal.missing]

\* Wrong: what runs is planned again.
ConfirmReplanned ==
    /\ CanConfirm /\ pending # Absent
    /\ \E plan \in Plans : Room(Cardinality(NeedsOf(plan))) /\ run' = Running(plan)
    /\ line' = "empty" /\ NoAsk
    /\ UNCHANGED <<asks, plannerVars, grantVars>>

Confirm ==
    /\ CanConfirm /\ pending # Absent
    /\ Room(Cardinality(NeedsOf(pending.plan)))
    /\ run' = Running(pending.plan)
    /\ line' = "empty" /\ NoAsk
    /\ UNCHANGED <<asks, plannerVars, grantVars>>

UnchangedInRun ==
    UNCHANGED <<paletteVars, pending, planning, asks, plannerVars, unlogged, shown,
              outdated>>

\* grant_missing: one grant for each missing need.
GrantMissing ==
    /\ run # Absent
    /\ \E need \in run.grant :
          /\ Log([own EXCEPT ![Draw] = [need |-> need, live |-> TRUE]])
          /\ run' = [run EXCEPT !.grant = @ \ {need}, !.wallet = @ \cup {Draw}]
    /\ UnchangedInRun

\* A grant fails: the confirm ends, and the model is not built anew.
GrantFails ==
    /\ run # Absent /\ run.grant # {} /\ "log_fails" \in ShellFaults
    /\ run' = Absent
    /\ UNCHANGED <<own, logged>>
    /\ UnchangedInRun

InStep == run # Absent /\ run.grant = {} /\ run.steps # << >>

\* run_step brokers each need of the next step: a use is logged, of a grant
\* in the wallet.
BrokerNeed ==
    /\ InStep
    /\ \E need \in Head(run.steps) \ run.brokered :
          /\ \E g \in run.wallet \cap Live : own[g].need = need
          /\ run' = [run EXCEPT !.brokered = @ \cup {need}]
    /\ Log(own)
    /\ UnchangedInRun

\* The tool runs once every need of its step is brokered.  A need that is not,
\* for its use could not be logged, blocks that step, and the plan goes on.
EndStep ==
    /\ InStep
    /\ run.brokered = Head(run.steps) \/ "log_fails" \in ShellFaults
    /\ run' = [run EXCEPT !.steps = Tail(@), !.brokered = {}]
    /\ UNCHANGED <<own, logged>>
    /\ UnchangedInRun

\* The report is there, and the model is built anew.
EndRun ==
    /\ run # Absent /\ run.grant = {} /\ run.steps = << >>
    /\ run' = Absent
    /\ ReloadModel(Live)
    /\ UNCHANGED <<paletteVars, pending, planning, asks, plannerVars, logged, own, unlogged>>

-----------------------------------------------------------------------------

RunStep == GrantMissing \/ GrantFails \/ BrokerNeed \/ EndStep \/ EndRun

ShellNext ==
    \/ \E g \in Grants : OtherRevokes(g) \/ SeverClick(g)
    \/ \E need \in Need : OtherGrants(need)
    \/ \E typed \in Line : Edit(typed)
    \/ Escape \/ Propose \/ Launch \/ SeverLine
    \/ WorkerTakes \/ WorkerAnswers
    \/ Tick
    \/ ConfirmFailed \/ Confirm \/ RunStep

ShellSpec == ShellInit /\ [][ShellNext]_shellVars

\* The loop ticks and polls, a confirm runs to its end, the planner answers.
ShellFair ==
    /\ WF_shellVars(WorkerTakes)
    /\ WF_shellVars(WorkerAnswers)
    /\ WF_shellVars(RunStep)
    /\ WF_shellVars(Tick /\ PollStore)

-----------------------------------------------------------------------------

\* "A stale result, from an ask since cancelled or replaced, is dropped": what
\* is proposed, and the plan an Enter would run, answer the last ask, which
\* was not cancelled; and a plan is either still being made or proposed.
ProposalIsLastAsk ==
    /\ proposal # Absent => proposal.of = asks /\ planning = Absent
    /\ pending # Absent =>
          /\ proposal # Absent /\ proposal.of = pending.of
          /\ proposal.missing = NeedsOf(pending.plan)

\* "Confirming grants that missing set": a run grants, and brokers a use of,
\* nothing that the user did not see as missing in the proposal he pressed
\* Enter on, whatever was asked, answered and granted by others meanwhile.
GrantsDisclosed ==
    run # Absent =>
        /\ run.grant \subseteq run.seen
        /\ \A g \in run.wallet : own[g].need \in run.seen
        /\ NeedsOf(run.steps) \subseteq run.seen

\* An ask is answered, however many asks were cancelled before it.
AskAnswered == planning # Absent ~> planning = Absent

\* A channel that the log says is severed, by whomever, leaves the screen,
\* unless the shell's own next entry takes the severing's place in the log, or
\* the model could not be built anew.  It is then built by the shell's next
\* sever or confirm, or once the log has changed again.
SeveredLeavesScreen ==
    \A g \in Grants :
        logged[g] # Absent /\ g \notin Channels(logged)
            ~> g \notin shown \/ g \in Channels(logged) \/ outdated
=============================================================================
