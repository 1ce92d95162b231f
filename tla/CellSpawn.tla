----------------------------- MODULE CellSpawn -----------------------------
(***************************************************************************)
(* One Cell (crates/cells/src/linux.rs) and the portal its payload asks the *)
(* broker through (portal.rs): the supervisor forks the init child A, which *)
(* makes the namespaces and forks the payload child B, which builds the     *)
(* world and runs the payload.                                              *)
(*                                                                         *)
(* What became of B travels over two pipes: B writes the step that failed   *)
(* to the error pipe, or closes it; A reads that to its end, waits for B,   *)
(* and writes one report, which the supervisor reads.  A reader of a pipe   *)
(* or socket waits until there is something to read or nobody holds the     *)
(* other end any more, and every fork hands all that is open to the child.  *)
(* Any child may be killed at any step.                                     *)
(***************************************************************************)
EXTENDS Integers, Sequences

CONSTANTS
    WorldSteps,  \* the steps by which B builds a world, in order
    OptionSteps  \* those of them a cell may do without

StepName == {WorldSteps[i] : i \in DOMAIN WorldSteps} \cup {"namespaces", "fork", "exec"}

ASSUME CellAssumption ==
    /\ WorldSteps \in Seq(STRING)
    /\ OptionSteps \subseteq {WorldSteps[i] : i \in DOMAIN WorldSteps}
    /\ StepName \cap {"none", "empty", "exited", "signaled", "died"} = {}

VARIABLES
    sup,      \* the supervisor: what it does with the cell it spawned
    initA,    \* A
    payloadB, \* B: its stage, the world steps it has done, how it ended
    errPipe,  \* B to A: the step that failed
    errRead,  \* what A has read from it
    report,   \* A to the supervisor
    portal,   \* the socket between payload and supervisor
    verdict   \* what wait or try_wait returned

cellVars == <<sup, initA, payloadB, errPipe, errRead, report, portal, verdict>>

\* "died" is a report that never came.
Outcome == {"none", "exited", "signaled", "died"} \cup StepName

\* A: making the namespaces, forked with its end of the error pipe to close,
\* reading that pipe, waiting for B; "ended" until it is reaped.
AStage == {"none", "setup", "forked", "reading", "waiting", "ended"}

\* B: forked with its copy of the report pipe, building, to start the payload,
\* in it, in it waiting for the broker's reply.
BStage == {"none", "forked", "building", "payload", "asking", "ended"}

CellTypeOK ==
    /\ sup \in {"free", "serving", "waiting", "polling", "told"}
    /\ initA \in AStage
    /\ payloadB \in [stage : BStage, done : 0 .. Len(WorldSteps), skips : SUBSET OptionSteps,
                     ran : BOOLEAN, end : {"none", "exited", "signaled"}]
    /\ errPipe \in {"empty"} \cup StepName
    /\ errRead \in {"empty"} \cup StepName
    /\ report \in Outcome
    /\ portal \in {"empty", "request", "ok", "err"}
    /\ verdict \in Outcome

NoPayload == [stage |-> "none", done |-> 0, skips |-> {}, ran |-> FALSE, end |-> "none"]

CellInit ==
    /\ sup = "free" /\ initA = "none" /\ payloadB = NoPayload
    /\ errPipe = "empty" /\ errRead = "empty" /\ report = "none"
    /\ portal = "empty" /\ verdict = "none"

-----------------------------------------------------------------------------
(* Who holds which end.                                                    *)

InitAlive == initA \notin {"none", "ended"}
BAlive == payloadB.stage \notin {"none", "ended"}

ReportWriters ==
    {p \in {"A", "B"} : IF p = "A" THEN InitAlive ELSE payloadB.stage = "forked"}

\* Wrong: A reads with its own end still open.
ErrWritersWhileReading ==
    {p \in {"A", "B"} : IF p = "A" THEN initA \in {"forked", "reading"}
                                   ELSE payloadB.stage \in {"forked", "building"}}

ErrWriters ==
    {p \in {"A", "B"} : IF p = "A" THEN initA = "forked"
                                   ELSE payloadB.stage \in {"forked", "building"}}

\* A holds the payload's end of the portal as long as it lives, too.
PortalWriters == {p \in {"A", "B"} : IF p = "A" THEN InitAlive ELSE BAlive}

-----------------------------------------------------------------------------
(* The supervisor.                                                         *)

\* linux::spawn.  What it does next with the child: serve one request (as the
\* demo does), wait (cell run), or poll (the shell).
SpawnCell ==
    /\ sup \in {"free", "told"} /\ ~ BAlive
    /\ sup' \in {"serving", "waiting", "polling"}
    /\ initA' = "setup"
    /\ \E skips \in SUBSET OptionSteps : payloadB' = [NoPayload EXCEPT !.skips = skips]
    /\ errPipe' = "empty" /\ errRead' = "empty" /\ report' = "none"
    /\ portal' = "empty" /\ verdict' = "none"

\* serve_once: the request is read, or the end of the socket; access and
\* materialize decide, and what they say is sent.
ServeOnce ==
    /\ sup = "serving"
    /\ \/ portal = "request" /\ portal' \in {"ok", "err"}
       \/ portal = "empty" /\ PortalWriters = {} /\ UNCHANGED portal
    /\ sup' = "waiting"
    /\ UNCHANGED <<initA, payloadB, errPipe, errRead, report, verdict>>

Reported == report # "none" \/ ReportWriters = {}

TellReport ==
    /\ verdict' = IF report = "none" THEN "died" ELSE report
    /\ sup' = "told"
    /\ initA' = "none"
    /\ UNCHANGED <<payloadB, errPipe, errRead, report, portal>>

\* wait: the report is read to its end, then A is reaped.
WaitCell == sup = "waiting" /\ Reported /\ initA = "ended" /\ TellReport

\* try_wait, once A can be reaped: the report is read then, which must not
\* block.
TryWait == sup = "polling" /\ initA = "ended" /\ Reported /\ TellReport

-----------------------------------------------------------------------------
(* A.                                                                      *)

ReportAndExit(outcome) == report' = outcome /\ initA' = "ended"

\* unshare and write_maps, which may fail, and the fork of B.
MakeNamespaces ==
    /\ initA = "setup"
    /\ \/ /\ initA' = "forked"
          /\ payloadB' = [payloadB EXCEPT !.stage = "forked"]
          /\ UNCHANGED report
       \/ /\ \E step \in {"namespaces", "fork"} : ReportAndExit(step)
          /\ UNCHANGED payloadB
    /\ UNCHANGED <<sup, errPipe, errRead, portal, verdict>>

CloseErr ==
    /\ initA = "forked"
    /\ initA' = "reading"
    /\ UNCHANGED <<sup, payloadB, errPipe, errRead, report, portal, verdict>>

\* bridge, up to waitpid: what B emitted, or that it never will.
ReadErr ==
    /\ initA = "reading"
    /\ errPipe # "empty" \/ ErrWriters = {}
    /\ errRead' = errPipe
    /\ initA' = "waiting"
    /\ UNCHANGED <<sup, payloadB, errPipe, report, portal, verdict>>

\* Wrong: the wait status alone is reported.
BridgeStatus ==
    /\ initA = "waiting" /\ payloadB.stage = "ended"
    /\ ReportAndExit(payloadB.end)
    /\ UNCHANGED <<sup, payloadB, errPipe, errRead, portal, verdict>>

\* bridge, once B has been waited for; nothing interrupts that wait.
Bridge ==
    /\ initA = "waiting" /\ payloadB.stage = "ended"
    /\ ReportAndExit(IF errRead # "empty" THEN errRead ELSE payloadB.end)
    /\ UNCHANGED <<sup, payloadB, errPipe, errRead, portal, verdict>>

-----------------------------------------------------------------------------
(* B.                                                                      *)

End(how) == payloadB' = [payloadB EXCEPT !.stage = "ended", !.end = how]

CloseReport ==
    /\ payloadB.stage = "forked"
    /\ payloadB' = [payloadB EXCEPT !.stage = "building"]
    /\ UNCHANGED <<sup, initA, errPipe, errRead, report, portal, verdict>>

\* emit_exit.  With nobody to read it, the write is refused.
EmitExit(step) ==
    /\ errPipe' = IF InitAlive THEN step ELSE errPipe
    /\ End("exited")

\* build_world_and_run: the next step is done, skipped, or fails.
BuildWorld ==
    /\ payloadB.stage = "building" /\ payloadB.done < Len(WorldSteps)
    /\ LET step == WorldSteps[payloadB.done + 1]
       IN  \/ payloadB' = [payloadB EXCEPT !.done = @ + 1] /\ UNCHANGED errPipe
           \/ step \notin payloadB.skips /\ EmitExit(step)
    /\ UNCHANGED <<sup, initA, errRead, report, portal, verdict>>

\* The payload starts: the error pipe is closed by B or by execve, or execve
\* fails.
StartPayload ==
    /\ payloadB.stage = "building" /\ payloadB.done = Len(WorldSteps)
    /\ \/ /\ payloadB' = [payloadB EXCEPT !.stage = "payload", !.ran = TRUE]
          /\ UNCHANGED errPipe
       \/ EmitExit("exec")
    /\ UNCHANGED <<sup, initA, errRead, report, portal, verdict>>

\* portal::request.
AskBroker ==
    /\ payloadB.stage = "payload" /\ portal = "empty" /\ sup = "serving"
    /\ portal' = "request"
    /\ payloadB' = [payloadB EXCEPT !.stage = "asking"]
    /\ UNCHANGED <<sup, initA, errPipe, errRead, report, verdict>>

GetReply ==
    /\ payloadB.stage = "asking" /\ portal \in {"ok", "err"}
    /\ payloadB' = [payloadB EXCEPT !.stage = "payload"]
    /\ UNCHANGED <<sup, initA, errPipe, errRead, report, portal, verdict>>

PayloadExits ==
    /\ payloadB.stage = "payload"
    /\ End("exited")
    /\ UNCHANGED <<sup, initA, errPipe, errRead, report, portal, verdict>>

-----------------------------------------------------------------------------

\* A signal from outside.  B, of its own pid namespace, outlives A.
KillInit ==
    /\ InitAlive
    /\ initA' = "ended"
    /\ UNCHANGED <<sup, payloadB, errPipe, errRead, report, portal, verdict>>

KillPayload ==
    /\ BAlive
    /\ End("signaled")
    /\ UNCHANGED <<sup, initA, errPipe, errRead, report, portal, verdict>>

InitSteps == MakeNamespaces \/ CloseErr \/ ReadErr \/ Bridge
WorldBuilding == CloseReport \/ BuildWorld \/ StartPayload \/ GetReply
SupervisorSteps == ServeOnce \/ WaitCell \/ TryWait

CellNext ==
    \/ SpawnCell \/ SupervisorSteps \/ InitSteps \/ WorldBuilding
    \/ AskBroker \/ PayloadExits \/ KillInit \/ KillPayload

CellSpec == CellInit /\ [][CellNext]_cellVars

\* Every process runs; nothing makes a payload ask or end.
CellFair ==
    /\ WF_cellVars(InitSteps)
    /\ WF_cellVars(WorldBuilding)
    /\ WF_cellVars(SupervisorSteps)

-----------------------------------------------------------------------------

\* "Every failure comes back as a typed Error instead of a bare nonzero exit":
\* told of an exit, the payload ran and exited; told of a step, it never ran;
\* told of a signal, B was killed.
ReportTruthful ==
    /\ verdict = "exited" => payloadB.ran /\ payloadB.end = "exited"
    /\ verdict \in StepName => ~ payloadB.ran
    /\ verdict = "signaled" => payloadB.end = "signaled"

\* A supervisor is told of a cell that has ended, and no read of it blocks for
\* ever: not of a pipe whose other end a process that lives on has inherited.
CellOver ==
    \/ payloadB.stage = "ended"
    \/ initA = "ended" /\ (sup # "serving" \/ payloadB.stage = "none")

CellCollected == (sup \notin {"free", "told"} /\ CellOver) ~> sup = "told"
=============================================================================
