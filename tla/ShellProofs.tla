---------------------------- MODULE ShellProofs ----------------------------
(***************************************************************************)
(* Proofs about one Cell, for any steps of building its world; about the    *)
(* Glass shell, for any plans and any grants; and about the compositor's     *)
(* outputs, for any devices, connectors and widths.                          *)
(***************************************************************************)
EXTENDS CellSpawn, GlassShell, Scanout, FiniteSetTheorems, SequenceTheorems,
        WellFoundedInduction, TLAPS

-----------------------------------------------------------------------------
(* The Cell.                                                               *)

\* How far B is: it has an end when it ended, and ran the payload or did not.
PayloadStages ==
    /\ payloadB.stage = "ended" <=> payloadB.end # "none"
    /\ payloadB.stage \in {"payload", "asking"} => payloadB.ran
    /\ payloadB.stage \in {"none", "forked", "building"} => ~ payloadB.ran
    /\ initA \in {"forked", "reading"} => payloadB.stage # "none"
    /\ initA = "setup" =>
          payloadB.stage = "none" /\ errPipe = "empty" /\ errRead = "empty" /\ report = "none"

\* What is in the error pipe tells of a B that ended before it ran the payload,
\* and of every one that ended so by itself while A was there; A goes on once
\* nothing can come.
PipeTells ==
    /\ errPipe # "empty" => payloadB.end = "exited" /\ ~ payloadB.ran
    /\ payloadB.end = "exited" /\ ~ payloadB.ran =>
          errPipe # "empty" \/ initA \in {"none", "ended"}
    /\ initA = "waiting" =>
          errRead = errPipe /\ payloadB.stage \in {"payload", "asking", "ended"}

\* A report tells how B ended, and a verdict is that report.
ReportTells ==
    /\ report # "none" =>
          initA \in {"none", "ended"} /\ payloadB.stage \in {"none", "ended"}
    /\ report = "exited" => payloadB.ran /\ payloadB.end = "exited"
    /\ report \in StepName => ~ payloadB.ran
    /\ report = "signaled" => payloadB.end = "signaled"
    /\ verdict \in {"none", "died", report}
    /\ verdict # "none" => initA = "none"

CellInv == CellTypeOK /\ PayloadStages /\ PipeTells /\ ReportTells

Payload == [stage : BStage, done : 0 .. Len(WorldSteps), skips : SUBSET OptionSteps,
            ran : BOOLEAN, end : {"none", "exited", "signaled"}]

\* The fields of B.
LEMMA PayloadFields ==
    ASSUME NEW b \in Payload
    PROVE  b.stage \in BStage /\ b.ran \in BOOLEAN /\ b.end \in {"none", "exited", "signaled"}
BY DEF Payload

\* A B that has not been forked.
LEMMA PayloadNew ==
    /\ NoPayload \in Payload /\ NoPayload.stage = "none" /\ ~ NoPayload.ran
    /\ NoPayload.end = "none"
<1>1. 0 \in 0 .. Len(WorldSteps)
  BY CellAssumption
<1>2. PICK no \in BOOLEAN : ~ no
  OBVIOUS
<1>3. no = FALSE
  BY <1>2
<1>4. NoPayload = [stage |-> "none", done |-> 0, skips |-> {}, ran |-> no, end |-> "none"]
  BY <1>3, Zenon DEF NoPayload
<1>5. QED
  BY <1>1, <1>2, <1>4 DEF Payload, BStage

\* One that may skip some steps.
LEMMA PayloadSkips ==
    ASSUME NEW b \in Payload, NEW skips \in SUBSET OptionSteps,
           NEW c, c = [b EXCEPT !.skips = skips]
    PROVE  c \in Payload /\ c.stage = b.stage /\ c.ran = b.ran /\ c.end = b.end
BY DEF Payload

\* B goes on.
LEMMA PayloadStage ==
    ASSUME NEW b \in Payload, NEW stage \in BStage, NEW c, c = [b EXCEPT !.stage = stage]
    PROVE  c \in Payload /\ c.stage = stage /\ c.ran = b.ran /\ c.end = b.end
BY DEF Payload

\* B starts the payload.
LEMMA PayloadStarts ==
    ASSUME NEW b \in Payload, NEW c, c = [b EXCEPT !.stage = "payload", !.ran = TRUE]
    PROVE  c \in Payload /\ c.stage = "payload" /\ c.ran /\ c.end = b.end
<1>1. PICK yes \in BOOLEAN : yes
  OBVIOUS
<1>2. c = [b EXCEPT !.stage = "payload", !.ran = yes]
  BY <1>1, Zenon
<1>3. c \in Payload /\ c.stage = "payload" /\ c.ran = yes /\ c.end = b.end
  BY <1>2 DEF Payload, BStage
<1>4. QED
  BY <1>1, <1>3

\* B ends.
LEMMA PayloadEnds ==
    ASSUME NEW b \in Payload, NEW how \in {"exited", "signaled"},
           NEW c, c = [b EXCEPT !.stage = "ended", !.end = how]
    PROVE  c \in Payload /\ c.stage = "ended" /\ c.ran = b.ran /\ c.end = how
BY DEF Payload, BStage

\* B has done a step of its world.
LEMMA PayloadBuilds ==
    ASSUME NEW b \in Payload, b.done < Len(WorldSteps),
           NEW c, c = [b EXCEPT !.done = @ + 1]
    PROVE  c \in Payload /\ c.stage = b.stage /\ c.ran = b.ran /\ c.end = b.end
<1>1. Len(WorldSteps) \in Nat
  BY CellAssumption
<1>2. b.done + 1 \in 0 .. Len(WorldSteps)
  BY <1>1 DEF Payload
<1>3. QED
  BY <1>2 DEF Payload

\* What B's next step is called.
LEMMA StepNames ==
    /\ {"namespaces", "fork", "exec"} \subseteq StepName
    /\ \A b \in Payload : b.done < Len(WorldSteps) => WorldSteps[b.done + 1] \in StepName
<1>1. WorldSteps \in Seq(STRING) /\ Len(WorldSteps) \in Nat
  BY CellAssumption
<1>2. ASSUME NEW b \in Payload, b.done < Len(WorldSteps)
      PROVE  WorldSteps[b.done + 1] \in StepName
  <2>1. b.done + 1 \in DOMAIN WorldSteps
    BY <1>1, <1>2 DEF Payload
  <2>2. QED
    BY <2>1 DEF StepName
<1>3. QED
  BY <1>2 DEF StepName

\* B reports a failure, from the midst of building.
LEMMA EmitExitStep ==
    ASSUME CellInv, payloadB.stage = "building", NEW step \in StepName, EmitExit(step),
           UNCHANGED <<sup, initA, errRead, report, portal, verdict>>
    PROVE  CellInv'
<1>0. payloadB \in Payload
  BY DEF CellInv, CellTypeOK, Payload
<1>1. payloadB' \in Payload /\ payloadB'.stage = "ended" /\ payloadB'.ran = payloadB.ran
  BY <1>0, PayloadEnds DEF EmitExit, End
<1>2. step # "empty"
  BY CellAssumption
<1>3. \/ InitAlive /\ errPipe' = step /\ payloadB'.end = "exited"
      \/ ~ InitAlive /\ errPipe' = errPipe /\ payloadB'.end = "exited"
         /\ initA \in {"none", "ended"}
  BY <1>0, PayloadEnds DEF EmitExit, End, InitAlive
<1>4. CellTypeOK'
  BY <1>1, <1>3 DEF CellInv, CellTypeOK, Payload
<1>5. ~ payloadB.ran /\ payloadB.end = "none" /\ initA # "waiting" /\ errPipe = "empty"
  BY DEF CellInv, PayloadStages, PipeTells
<1>6. QED
  BY <1>1, <1>2, <1>3, <1>4, <1>5 DEF CellInv, PayloadStages, PipeTells, ReportTells, InitAlive

\* Every step of the Cell.
LEMMA CellStep ==
    ASSUME CellInv, [CellNext]_cellVars
    PROVE  CellInv'
<1> USE DEF CellInv
<1>1. payloadB \in Payload /\ CellTypeOK
  BY DEF CellTypeOK, Payload
<1>2. ASSUME payloadB' \in Payload
      PROVE  CellTypeOK' <=>
                /\ sup' \in {"free", "serving", "waiting", "polling", "told"}
                /\ initA' \in AStage
                /\ errPipe' \in {"empty"} \cup StepName
                /\ errRead' \in {"empty"} \cup StepName
                /\ report' \in Outcome
                /\ portal' \in {"empty", "request", "ok", "err"}
                /\ verdict' \in Outcome
  BY <1>2 DEF CellTypeOK, Payload
<1>3. CASE SpawnCell
  <2>1. PICK skips \in SUBSET OptionSteps : payloadB' = [NoPayload EXCEPT !.skips = skips]
    BY <1>3 DEF SpawnCell
  <2>2. /\ payloadB' \in Payload
        /\ payloadB'.stage = "none" /\ ~ payloadB'.ran /\ payloadB'.end = "none"
    BY <2>1, PayloadNew, PayloadSkips
  <2>3. QED
    BY <1>2, <1>3, <2>2, CellAssumption DEF SpawnCell, AStage, Outcome, PayloadStages, PipeTells, ReportTells
<1>4. CASE ServeOnce
  BY <1>1, <1>2, <1>4 DEF ServeOnce, CellTypeOK, PayloadStages, PipeTells, ReportTells
<1>5. CASE WaitCell \/ TryWait
  <2>1. /\ initA = "ended" /\ initA' = "none" /\ sup' = "told"
        /\ UNCHANGED <<payloadB, errPipe, errRead, report, portal>>
        /\ verdict' = IF report = "none" THEN "died" ELSE report
    BY <1>5 DEF WaitCell, TryWait, TellReport
  <2>2. CellTypeOK'
    BY <1>1, <1>2, <2>1 DEF CellTypeOK, AStage, Outcome
  <2>3. QED
    BY <2>1, <2>2 DEF PayloadStages, PipeTells, ReportTells
<1>6. CASE MakeNamespaces
  <2>1. CASE initA' = "forked" /\ payloadB' = [payloadB EXCEPT !.stage = "forked"]
             /\ UNCHANGED report
    <3>1. payloadB' \in Payload /\ payloadB'.stage = "forked"
          /\ payloadB'.ran = payloadB.ran /\ payloadB'.end = payloadB.end
      BY <1>1, <2>1, PayloadStage DEF BStage
    <3>2. CellTypeOK'
      BY <1>1, <1>2, <1>6, <2>1, <3>1 DEF MakeNamespaces, CellTypeOK, AStage
    <3>3. QED
      BY <1>6, <2>1, <3>1, <3>2 DEF MakeNamespaces, PayloadStages, PipeTells, ReportTells
  <2>2. ASSUME NEW step \in {"namespaces", "fork"}, ReportAndExit(step), UNCHANGED payloadB
        PROVE  CellInv'
    <3>1. step \in StepName /\ step \notin {"none", "exited", "signaled", "died"}
      BY StepNames, CellAssumption
    <3>2. CellTypeOK'
      BY <1>1, <1>2, <1>6, <2>2, <3>1 DEF MakeNamespaces, ReportAndExit, CellTypeOK, AStage, Outcome
    <3>3. verdict = "none"
      BY <1>6 DEF MakeNamespaces, ReportTells
    <3>4. QED
      BY <1>6, <2>2, <3>1, <3>2, <3>3
         DEF MakeNamespaces, ReportAndExit, PayloadStages, PipeTells, ReportTells
  <2>3. QED
    BY <1>6, <2>1, <2>2 DEF MakeNamespaces
<1>7. CASE CloseErr
  BY <1>1, <1>2, <1>7 DEF CloseErr, CellTypeOK, AStage, PayloadStages, PipeTells, ReportTells
<1>8. CASE ReadErr
  <2>1. /\ initA = "reading" /\ initA' = "waiting" /\ errRead' = errPipe
        /\ UNCHANGED <<sup, payloadB, errPipe, report, portal, verdict>>
    BY <1>8 DEF ReadErr
  <2>2. CellTypeOK'
    BY <1>1, <1>2, <2>1 DEF CellTypeOK, AStage
  <2>3. payloadB.stage \in {"payload", "asking", "ended"}
    <3>1. CASE errPipe # "empty"
      BY <3>1 DEF PipeTells, PayloadStages
    <3>2. CASE ErrWriters = {}
      <4>1. payloadB.stage \notin {"forked", "building"}
        BY <3>2 DEF ErrWriters
      <4>2. payloadB.stage \in BStage /\ payloadB.stage # "none"
        BY <1>1, <2>1, PayloadFields DEF PayloadStages
      <4>3. QED
        BY <4>1, <4>2 DEF BStage
    <3>3. QED
      BY <1>8, <3>1, <3>2 DEF ReadErr
  <2>4. QED
    BY <2>1, <2>2, <2>3 DEF PayloadStages, PipeTells, ReportTells
<1>9. CASE Bridge
  <2>1. PICK outcome : outcome = IF errRead # "empty" THEN errRead ELSE payloadB.end
    OBVIOUS
  <2>2. /\ initA = "waiting" /\ payloadB.stage = "ended" /\ initA' = "ended"
        /\ report' = outcome /\ UNCHANGED <<sup, payloadB, errPipe, errRead, portal, verdict>>
    BY <1>9, <2>1 DEF Bridge, ReportAndExit
  <2>3. payloadB.end \in {"exited", "signaled"} /\ errRead = errPipe
        /\ errRead \in {"empty"} \cup StepName /\ verdict = "none"
    BY <1>1, <2>2, PayloadFields DEF PayloadStages, PipeTells, ReportTells, CellTypeOK
  <2>4. \/ /\ outcome \in StepName /\ outcome \notin {"none", "exited", "signaled"}
           /\ ~ payloadB.ran
        \/ outcome = "exited" /\ payloadB.ran /\ payloadB.end = "exited"
        \/ outcome = "signaled" /\ payloadB.end = "signaled"
    BY <2>1, <2>2, <2>3, CellAssumption DEF PipeTells
  <2>5. "exited" \notin StepName /\ "signaled" \notin StepName
    BY CellAssumption
  <2>6. CellTypeOK'
    BY <1>1, <1>2, <2>2, <2>4 DEF CellTypeOK, AStage, Outcome
  <2>7. QED
    BY <2>2, <2>3, <2>4, <2>5, <2>6 DEF PayloadStages, PipeTells, ReportTells
<1>10. CASE CloseReport
  <2>1. payloadB' \in Payload /\ payloadB'.stage = "building"
        /\ payloadB'.ran = payloadB.ran /\ payloadB'.end = payloadB.end
    BY <1>1, <1>10, PayloadStage DEF CloseReport, BStage
  <2>2. CellTypeOK'
    BY <1>1, <1>2, <1>10, <2>1 DEF CloseReport, CellTypeOK
  <2>3. QED
    BY <1>10, <2>1, <2>2 DEF CloseReport, PayloadStages, PipeTells, ReportTells
<1>11. CASE BuildWorld
  <2>1. CASE payloadB' = [payloadB EXCEPT !.done = @ + 1] /\ UNCHANGED errPipe
    <3>1. payloadB' \in Payload /\ payloadB'.stage = payloadB.stage
          /\ payloadB'.ran = payloadB.ran /\ payloadB'.end = payloadB.end
      BY <1>1, <1>11, <2>1, PayloadBuilds DEF BuildWorld
    <3>2. CellTypeOK'
      BY <1>1, <1>2, <1>11, <2>1, <3>1 DEF BuildWorld, CellTypeOK
    <3>3. QED
      BY <1>11, <2>1, <3>1, <3>2 DEF BuildWorld, PayloadStages, PipeTells, ReportTells
  <2>2. CASE EmitExit(WorldSteps[payloadB.done + 1])
    BY <1>1, <1>11, <2>2, EmitExitStep, StepNames DEF BuildWorld
  <2>3. QED
    BY <1>11, <2>1, <2>2 DEF BuildWorld
<1>12. CASE StartPayload
  <2>1. CASE payloadB' = [payloadB EXCEPT !.stage = "payload", !.ran = TRUE]
             /\ UNCHANGED errPipe
    <3>1. payloadB' \in Payload /\ payloadB'.stage = "payload"
          /\ payloadB'.ran /\ payloadB'.end = payloadB.end
      BY <1>1, <2>1, PayloadStarts
    <3>2. CellTypeOK'
      BY <1>1, <1>2, <1>12, <2>1, <3>1 DEF StartPayload, CellTypeOK
    <3>3. payloadB.stage = "building" /\ payloadB.end = "none" /\ errPipe' = "empty"
      BY <1>12, <2>1 DEF StartPayload, PayloadStages, PipeTells
    <3>4. QED
      <4>1. /\ initA # "setup" /\ initA # "waiting"
            /\ report = "none" /\ UNCHANGED <<initA, errRead, report, verdict>>
        BY <1>12 DEF StartPayload, PayloadStages, PipeTells, ReportTells
      <4>2. PayloadStages'
        BY <3>1, <3>3, <4>1 DEF PayloadStages
      <4>3. PipeTells'
        BY <3>1, <3>3, <4>1 DEF PipeTells
      <4>4. ReportTells'
        BY <3>1, <3>3, <4>1, CellAssumption DEF ReportTells
      <4>5. QED
        BY <3>2, <4>2, <4>3, <4>4
  <2>2. CASE EmitExit("exec")
    BY <1>12, <2>2, EmitExitStep, StepNames DEF StartPayload
  <2>3. QED
    BY <1>12, <2>1, <2>2 DEF StartPayload
<1>13. CASE AskBroker \/ GetReply
  <2>1. PICK stage \in {"payload", "asking"} :
            payloadB' = [payloadB EXCEPT !.stage = stage]
    BY <1>13 DEF AskBroker, GetReply
  <2>2. payloadB' \in Payload /\ payloadB'.stage = stage
        /\ payloadB'.ran = payloadB.ran /\ payloadB'.end = payloadB.end
    BY <1>1, <2>1, PayloadStage DEF BStage
  <2>3. CellTypeOK'
    BY <1>1, <1>2, <1>13, <2>2 DEF AskBroker, GetReply, CellTypeOK
  <2>4. QED
    BY <1>13, <2>2, <2>3 DEF AskBroker, GetReply, PayloadStages, PipeTells, ReportTells
<1>14. CASE PayloadExits \/ KillPayload
  <2>1. PICK how \in {"exited", "signaled"} :
            /\ payloadB' = [payloadB EXCEPT !.stage = "ended", !.end = how]
            /\ how = "exited" => payloadB.stage = "payload"
    BY <1>14 DEF PayloadExits, KillPayload, End
  <2>2. payloadB' \in Payload /\ payloadB'.stage = "ended"
        /\ payloadB'.ran = payloadB.ran /\ payloadB'.end = how
    BY <1>1, <2>1, PayloadEnds
  <2>3. payloadB.stage \notin {"none", "ended"}
        /\ UNCHANGED <<sup, initA, errPipe, errRead, report, portal, verdict>>
    BY <1>14 DEF PayloadExits, KillPayload, BAlive
  <2>4. CellTypeOK'
    BY <1>1, <1>2, <2>2, <2>3 DEF CellTypeOK
  <2>5. QED
    BY <2>1, <2>2, <2>3, <2>4 DEF PayloadStages, PipeTells, ReportTells
<1>15. CASE KillInit
  <2>1. CellTypeOK'
    BY <1>1, <1>2, <1>15 DEF KillInit, CellTypeOK, AStage
  <2>2. QED
    BY <1>15, <2>1 DEF KillInit, InitAlive, PayloadStages, PipeTells, ReportTells
<1>16. CASE UNCHANGED cellVars
  BY <1>1, <1>2, <1>16 DEF cellVars, CellTypeOK, PayloadStages, PipeTells, ReportTells
<1>17. QED
  BY <1>3, <1>4, <1>5, <1>6, <1>7, <1>8, <1>9, <1>10, <1>11, <1>12, <1>13, <1>14, <1>15,
     <1>16 DEF CellNext, SupervisorSteps, InitSteps, WorldBuilding

\* The error pipe, the report and the verdict follow what became of the payload
\* child, whoever of supervisor, init child and payload child runs or is killed.
THEOREM CellInvCorrect == CellSpec => []CellInv
<1>1. CellInit => CellInv
  <2>1. SUFFICES ASSUME CellInit PROVE CellInv
    OBVIOUS
  <2>2. /\ payloadB \in Payload
        /\ payloadB.stage = "none" /\ ~ payloadB.ran /\ payloadB.end = "none"
    BY <2>1, PayloadNew DEF CellInit
  <2>3. CellTypeOK
    <3>1. payloadB \in Payload <=>
            payloadB \in [stage : BStage, done : 0 .. Len(WorldSteps), skips : SUBSET OptionSteps,
                          ran : BOOLEAN, end : {"none", "exited", "signaled"}]
      BY DEF Payload
    <3>2. QED
      BY <2>1, <2>2, <3>1 DEF CellInit, CellTypeOK, AStage, Outcome
  <2>4. QED
    BY <2>1, <2>2, <2>3, CellAssumption DEF CellInit, CellInv, PayloadStages, PipeTells, ReportTells
<1>2. CellInv /\ [CellNext]_cellVars => CellInv'
  BY CellStep
<1>3. QED
  BY <1>1, <1>2, PTL DEF CellSpec

\* The pipes carry what bridge and emit_exit write, and the children are where
\* linux.rs has them.
THEOREM CellTypeCorrect == CellSpec => []CellTypeOK
BY CellInvCorrect, PTL DEF CellInv

\* Told of an exit, the payload ran and exited; told of a step of the world, it
\* never ran; told of a signal, it was killed: whatever wait or try_wait return.
THEOREM VerdictsAreTrue == CellSpec => []ReportTruthful
<1>1. CellInv => ReportTruthful
  BY CellAssumption DEF CellInv, ReportTells, ReportTruthful, PayloadStages
<1>2. QED
  BY <1>1, CellInvCorrect, PTL

-----------------------------------------------------------------------------
(* The Glass shell.                                                        *)

\* What is awaited is the last ask, and so is what is proposed.
AsksInOrder ==
    /\ planning # Absent => planning = asks /\ proposal = Absent
    /\ ProposalIsLastAsk

\* What a run has still to grant, has granted and will broker was shown, and
\* there are ids for what it has still to grant.
RunDisclosed ==
    run # Absent =>
        /\ run.grant \subseteq run.seen /\ NeedsOf(run.steps) \subseteq run.seen
        /\ \A g \in run.wallet : own[g] # Absent /\ own[g].need \in run.seen
        /\ IsFiniteSet(run.grant) /\ Cardinality(run.grant) <= Cardinality(Undrawn)

ShellInv == ShellTypeOK /\ AsksInOrder /\ RunDisclosed

\* Among some numbers one is the least.
LEMMA LeastOf ==
    ASSUME NEW S, S \subseteq Nat, S # {}
    PROVE  \E m \in S : \A k \in S : m <= k
<1> DEFINE Less == OpToRel(<, Nat)
<1>1. IsWellFoundedOn(Less, Nat)
  BY NatLessThanWellFounded
<1>2. \A a, b \in Nat : a < b => <<a, b>> \in Less
  BY DEF OpToRel
<1> HIDE DEF Less
<1>3. PICK m \in S : \A k \in S : ~ (<<k, m>> \in Less)
  BY <1>1, WFMin
<1>4. ASSUME NEW k \in S
      PROVE  m <= k
  <2>1. k \in Nat /\ m \in Nat
    OBVIOUS
  <2>2. ~ (k < m)
    BY <1>2, <1>3, <2>1
  <2>3. QED
    BY <2>1, <2>2
<1>5. QED
  BY <1>4

Channel == [need : Need, live : BOOLEAN]

\* A grant that is made.
LEMMA GrantMade ==
    ASSUME NEW need \in Need, NEW grant, grant = [need |-> need, live |-> TRUE]
    PROVE  grant \in Channel /\ grant.need = need /\ grant # Absent
<1>1. PICK yes \in BOOLEAN : yes
  OBVIOUS
<1>2. grant = [need |-> need, live |-> yes]
  BY <1>1, Zenon
<1>3. grant \in Channel /\ grant.need = need
  BY <1>2 DEF Channel
<1>4. QED
  BY <1>3, ShellAssumption DEF Channel

\* Severing channels leaves a table of grants, and makes none.
LEMMA TableSevered ==
    ASSUME NEW table \in Table, NEW severed, severed \subseteq Channels(table)
    PROVE  /\ SeverAll(table, severed) \in Table
           /\ \A g \in Grants : table[g] = Absent => SeverAll(table, severed)[g] = Absent
<1>1. PICK no \in BOOLEAN : no = FALSE
  OBVIOUS
<1>2. SeverAll(table, severed) =
        [g \in Grants |-> IF g \in severed THEN [table[g] EXCEPT !.live = no] ELSE table[g]]
  BY <1>1, Zenon DEF SeverAll
<1>3. ASSUME NEW grant \in Channel
      PROVE  [grant EXCEPT !.live = no] \in Channel
  BY DEF Channel
<1>4. ASSUME NEW g \in Grants
      PROVE  /\ SeverAll(table, severed)[g] \in {Absent} \cup Channel
             /\ table[g] = Absent => SeverAll(table, severed)[g] = Absent
  <2>1. table[g] \in {Absent} \cup Channel
    BY DEF Table, Channel
  <2>2. CASE g \in severed
    <3>1. table[g] # Absent
      BY <2>2 DEF Channels
    <3>2. QED
      BY <1>2, <1>3, <2>1, <2>2, <3>1
  <2>3. CASE g \notin severed
    BY <1>2, <2>1, <2>3
  <2>4. QED
    BY <2>2, <2>3
<1>5. QED
  BY <1>2, <1>4 DEF Table, Channel

\* A grant is made under an id that was not drawn, while there is one.
LEMMA DrawIsUndrawn ==
    ASSUME NEW n \in Nat, n # 0, n <= Cardinality(Undrawn)
    PROVE  Draw \in Undrawn
<1>1. Undrawn \subseteq Nat
  BY DEF Undrawn, Grants
<1>2. Undrawn # {}
  BY FS_EmptySet
<1>3. \E g \in Undrawn : \A h \in Undrawn : g <= h
  BY <1>1, <1>2, LeastOf
<1>4. QED
  BY <1>3, Zenon DEF Draw

\* The ids not drawn are finitely many.
LEMMA UndrawnFinite == IsFiniteSet(Undrawn) /\ Cardinality(Undrawn) \in Nat
<1>1. IsFiniteSet(Grants)
  BY FS_Interval, ShellAssumption DEF Grants
<1>2. Undrawn \subseteq Grants
  BY DEF Undrawn
<1>3. QED
  BY <1>1, <1>2, FS_Subset, FS_CardinalityType

\* The ids left when some, or one of them, may have been drawn.
LEMMA DrawnAtMost ==
    ASSUME NEW ids, IsFiniteSet(ids), NEW left, IsFiniteSet(left)
    PROVE  /\ ids \subseteq left => Cardinality(ids) <= Cardinality(left)
           /\ \A g \in ids : ids \ {g} \subseteq left => Cardinality(ids) - 1 <= Cardinality(left)
<1>1. ids \subseteq left => Cardinality(ids) <= Cardinality(left)
  BY FS_Subset
<1>2. ASSUME NEW g \in ids, ids \ {g} \subseteq left
      PROVE  Cardinality(ids) - 1 <= Cardinality(left)
  <2>1. Cardinality(ids \ {g}) = Cardinality(ids) - 1
    BY FS_RemoveElement
  <2>2. QED
    BY <1>2, <2>1, FS_Subset
<1>3. QED
  BY <1>1, <1>2

\* What a plan needs.
LEMMA PlanNeeds ==
    ASSUME NEW plan \in Plans
    PROVE  /\ plan \in Seq(SUBSET Need) /\ NeedsOf(plan) \subseteq Need
           /\ IsFiniteSet(NeedsOf(plan))
<1>1. plan \in Seq(SUBSET Need)
  BY ShellAssumption
<1>2. NeedsOf(plan) \subseteq Need
  BY <1>1 DEF NeedsOf, Range
<1>3. QED
  BY <1>1, <1>2, ShellAssumption DEF NeedsOf

\* What the steps left need, one step being done.
LEMMA NeedsLeft ==
    ASSUME NEW steps \in Seq(SUBSET Need), steps # << >>
    PROVE  Tail(steps) \in Seq(SUBSET Need) /\ NeedsOf(Tail(steps)) \subseteq NeedsOf(steps)
<1>1. /\ Tail(steps) \in Seq(SUBSET Need) /\ Len(Tail(steps)) = Len(steps) - 1
      /\ \A i \in 1 .. Len(steps) - 1 : Tail(steps)[i] = steps[i + 1]
  BY HeadTailProperties
<1>2. PICK n \in Nat : n = Len(steps)
  OBVIOUS
<1>3. DOMAIN steps = 1 .. n /\ DOMAIN Tail(steps) = 1 .. n - 1
  BY <1>1, <1>2
<1>4. \A i \in 1 .. n - 1 : i + 1 \in 1 .. n
  BY <1>2
<1>5. Range(Tail(steps)) \subseteq Range(steps)
  BY <1>1, <1>2, <1>3, <1>4 DEF Range
<1>6. QED
  BY <1>1, <1>5 DEF NeedsOf

\* The answer that is awaited, the first of them, and those after it.
LEMMA AnswerAwaited ==
    ASSUME ShellTypeOK, planning # Absent, Awaited # {}, PollPlanner
    PROVE  /\ planning' = Absent
           /\ \E answer \in Answer : answer.epoch = planning /\ FinishPlan(answer)
           /\ results' \in Seq(Answer)
<1>1. PICK i : i = CHOOSE j \in Awaited : \A k \in Awaited : j <= k
  OBVIOUS
<1>2. results \in Seq(Answer) /\ Len(results) \in Nat
  BY DEF ShellTypeOK
<1>3. Awaited \subseteq 1 .. Len(results)
  BY <1>2 DEF Awaited
<1>4. \E j \in Awaited : \A k \in Awaited : j <= k
  <2>1. Awaited \subseteq Nat
    BY <1>2, <1>3
  <2>2. QED
    BY <2>1, LeastOf
<1>5. i \in Awaited
  BY <1>1, <1>4, Zenon
<1>6. /\ planning' = Absent /\ FinishPlan(results[i])
      /\ results' = SubSeq(results, i + 1, Len(results))
  BY <1>1, Zenon DEF PollPlanner
<1>7. results[i] \in Answer /\ results[i].epoch = planning
  BY <1>2, <1>3, <1>5 DEF Awaited
<1>8. results' \in Seq(Answer)
  <2>1. PICK n \in Nat : n = Len(results)
    BY <1>2
  <2>2. i \in 1 .. n
    BY <1>3, <1>5, <2>1
  <2>3. \A j \in i + 1 .. n : j \in 1 .. n
    BY <2>2
  <2>4. \A j \in i + 1 .. n : results[j] \in Answer
    BY <1>2, <2>1, <2>3
  <2>5. QED
    BY <1>2, <1>6, <2>1, <2>2, <2>4, SubSeqProperties
<1>9. QED
  BY <1>6, <1>7, <1>8

\* A proposal on the screen.
LEMMA ProposalMade ==
    ASSUME NEW epoch \in Epoch, NEW missing \in SUBSET Need,
           NEW p, p = [of |-> epoch, missing |-> missing]
    PROVE  /\ p \in [of : Epoch, missing : SUBSET Need] /\ p # Absent
           /\ p.of = epoch /\ p.missing = missing
<1>1. epoch \in Nat
  BY DEF Epoch
<1>2. p \in [of : Nat, missing : SUBSET Need]
  BY <1>1
<1>3. p # Absent
  BY <1>2, ShellAssumption
<1>4. QED
  BY <1>3

\* What a finished plan makes of the palette.
LEMMA PlanFinished ==
    ASSUME NEW answer \in Answer, FinishPlan(answer)
    PROVE  /\ proposal' \in [of : Epoch, missing : SUBSET Need] /\ proposal' # Absent
           /\ proposal'.of = answer.epoch
           /\ pending' \in {Absent} \cup [of : Epoch, plan : Plans]
           /\ pending' # Absent =>
                 pending'.of = answer.epoch /\ proposal'.missing = NeedsOf(pending'.plan)
<1>1. answer.epoch \in Epoch /\ answer.plan \in Plans \cup {Absent}
  BY DEF Answer
<1>2. CASE answer.plan = Absent
  <2>1. proposal' = [of |-> answer.epoch, missing |-> {}] /\ pending' = Absent
    BY <1>2 DEF FinishPlan
  <2>2. QED
    BY <1>1, <2>1, ProposalMade
<1>3. CASE answer.plan # Absent
  <2>1. PICK plan \in Plans : plan = answer.plan
    BY <1>1, <1>3
  <2>2. NeedsOf(plan) \in SUBSET Need
    BY PlanNeeds
  <2>3. /\ proposal' = [of |-> answer.epoch, missing |-> NeedsOf(plan)]
        /\ pending' = [of |-> answer.epoch, plan |-> plan]
    BY <1>3, <2>1 DEF FinishPlan
  <2>4. /\ proposal' \in [of : Epoch, missing : SUBSET Need] /\ proposal' # Absent
        /\ proposal'.of = answer.epoch /\ proposal'.missing = NeedsOf(plan)
    BY <1>1, <2>2, <2>3, ProposalMade
  <2>5. pending' \in [of : Epoch, plan : Plans] /\ pending'.of = answer.epoch /\ pending'.plan = plan
    BY <1>1, <2>3
  <2>6. QED
    BY <2>4, <2>5
<1>4. QED
  BY <1>2, <1>3

\* The steps a run takes, and what others do, leave the palette alone.
LEMMA RunStepKeeps ==
    ASSUME RunStep
    PROVE  /\ run # Absent
           /\ UNCHANGED <<line, proposal, pending, planning, asks, requests, worker,
                          results, unlogged>>
           /\ UNCHANGED <<shown, outdated>> \/ ReloadModel(Live)
BY DEF RunStep, GrantMissing, GrantFails, BrokerNeed, EndStep, EndRun, InStep,
       UnchangedInRun, paletteVars, plannerVars

\* What a model that is built anew, or cannot be, leaves on the screen.
LEMMA ModelReloaded ==
    ASSUME ShellTypeOK, NEW channels \in SUBSET Grants, ReloadModel(channels)
    PROVE  shown' \subseteq Grants /\ outdated' \in BOOLEAN
BY DEF ShellTypeOK, ReloadModel

\* What revoking leaves of the grants.
LEMMA RevokesTables ==
    ASSUME ShellTypeOK, NEW severed, severed \subseteq Grants, NEW failed, Revokes(severed, failed)
    PROVE  own' \in Table /\ logged' \in Table /\ unlogged' \subseteq Grants
<1>1. PICK written : written = (severed \cap Live) \ failed
  OBVIOUS
<1>2. /\ unlogged' = unlogged \cup (severed \cap Live \cap failed)
      /\ IF written = {} THEN UNCHANGED <<own, logged>> ELSE Log(SeverAll(own, written))
  BY <1>1, Zenon DEF Revokes
<1>3. written \subseteq Channels(own)
  BY <1>1 DEF Live
<1>4. SeverAll(own, written) \in Table
  BY <1>3, TableSevered DEF ShellTypeOK
<1>5. QED
  BY <1>2, <1>4 DEF ShellTypeOK, Log

\* What a run makes of the grants when one is missing.
LEMMA GrantStepGrants ==
    ASSUME ShellTypeOK, GrantMissing
    PROVE  \E need \in run.grant, grant \in Channel :
              /\ grant.need = need /\ grant # Absent
              /\ own' = [own EXCEPT ![Draw] = grant] /\ logged' = own'
              /\ run' = [run EXCEPT !.grant = @ \ {need}, !.wallet = @ \cup {Draw}]
<1>1. PICK need \in run.grant :
          /\ Log([own EXCEPT ![Draw] = [need |-> need, live |-> TRUE]])
          /\ run' = [run EXCEPT !.grant = @ \ {need}, !.wallet = @ \cup {Draw}]
  BY DEF GrantMissing
<1>2. PICK grant : grant = [need |-> need, live |-> TRUE]
  OBVIOUS
<1>3. need \in Need
  BY DEF ShellTypeOK, GrantMissing, Run
<1>4. grant \in Channel /\ grant.need = need /\ grant # Absent
  BY <1>2, <1>3, GrantMade
<1>5. own' = [own EXCEPT ![Draw] = grant] /\ logged' = own'
  BY <1>1, <1>2, Zenon DEF Log
<1>6. QED
  BY <1>1, <1>4, <1>5

\* What a run becomes, but for a grant it makes.
LEMMA RunStepRun ==
    ASSUME ShellTypeOK, RunStep, ~ GrantMissing
    PROVE  \/ run' = Absent
           \/ \E brokered \in SUBSET Need : run' = [run EXCEPT !.brokered = brokered]
           \/ /\ run.steps # << >>
              /\ run' = [run EXCEPT !.steps = Tail(@), !.brokered = {}]
<1>1. run \in Run
  BY RunStepKeeps DEF ShellTypeOK
<1>2. CASE BrokerNeed
  <2>1. PICK need \in Head(run.steps) \ run.brokered :
            run' = [run EXCEPT !.brokered = @ \cup {need}]
    BY <1>2 DEF BrokerNeed
  <2>2. Head(run.steps) \subseteq Need /\ run.brokered \subseteq Need
    BY <1>1, <1>2 DEF BrokerNeed, InStep, Run
  <2>3. run' = [run EXCEPT !.brokered = run.brokered \cup {need}]
    BY <2>1
  <2>4. QED
    BY <2>2, <2>3
<1>3. CASE EndStep
  BY <1>3 DEF EndStep, InStep
<1>4. QED
  BY <1>2, <1>3 DEF RunStep, GrantFails, EndRun

\* Every step keeps the types.
LEMMA ShellTypeStep ==
    ASSUME ShellInv, [ShellNext]_shellVars
    PROVE  ShellTypeOK'
<1> USE DEF ShellInv
<1>1. Live \subseteq Grants /\ Live' \subseteq Grants
  BY DEF Live, Channels
<1>2. ASSUME NEW need \in Need, OtherGrants(need)
      PROVE  ShellTypeOK'
  <2>1. PICK grant : grant = [need |-> need, live |-> TRUE]
    OBVIOUS
  <2>2. logged' = [logged EXCEPT ![Draw] = grant]
    BY <1>2, <2>1, Zenon DEF OtherGrants
  <2>3. grant \in Channel
    BY <2>1, GrantMade
  <2>4. logged' \in Table
    BY <2>2, <2>3 DEF ShellTypeOK, Table, Channel
  <2>5. QED
    BY <1>2, <2>4 DEF OtherGrants, ShellTypeOK, paletteVars, plannerVars
<1>3. ASSUME NEW g \in Grants, OtherRevokes(g)
      PROVE  ShellTypeOK'
  <2>1. logged' \in Table
    BY <1>3, TableSevered DEF OtherRevokes, ShellTypeOK
  <2>2. QED
    BY <1>3, <2>1 DEF OtherRevokes, ShellTypeOK, paletteVars, plannerVars
<1>4. ASSUME NEW g \in Grants, SeverClick(g)
      PROVE  ShellTypeOK'
  <2>1. own' \in Table /\ logged' \in Table /\ unlogged' \subseteq Grants
    BY <1>4, RevokesTables DEF SeverClick
  <2>2. shown' \subseteq Grants /\ outdated' \in BOOLEAN
    BY <1>1, <1>4, ModelReloaded DEF SeverClick, ShellTypeOK
  <2>3. QED
    BY <1>4, <2>1, <2>2 DEF SeverClick, ShellTypeOK, paletteVars, plannerVars
<1>5. CASE SeverLine
  <2>1. own' \in Table /\ logged' \in Table /\ unlogged' \subseteq Grants
    <3>1. PICK severed \in SUBSET shown : \E failed \in Failing : Revokes(severed, failed)
      BY <1>5 DEF SeverLine
    <3>2. severed \subseteq Grants
      BY DEF ShellTypeOK
    <3>3. QED
      BY <3>1, <3>2, RevokesTables
  <2>2. shown' \subseteq Grants /\ outdated' \in BOOLEAN
    BY <1>1, <1>5, ModelReloaded DEF SeverLine
  <2>3. QED
    BY <1>5, <2>1, <2>2 DEF SeverLine, ShellTypeOK, Line, plannerVars
<1>6. ASSUME NEW typed \in Line, Edit(typed) \/ Escape \/ Launch \/ ConfirmFailed
      PROVE  ShellTypeOK'
  BY <1>6 DEF Edit, Escape, Launch, ConfirmFailed, NoAsk, ShellTypeOK, Line,
              plannerVars, grantVars
<1>7. CASE Propose
  <2>1. asks + 1 \in Epoch /\ asks + 1 \in 0 .. MaxAsks
    BY <1>7, ShellAssumption DEF Propose, ShellTypeOK, Epoch
  <2>2. requests' \in Seq(Epoch)
    BY <1>7, <2>1 DEF Propose, ShellTypeOK
  <2>3. QED
    BY <1>7, <2>1, <2>2 DEF Propose, ShellTypeOK, paletteVars, grantVars
<1>8. CASE WorkerTakes
  <2>1. worker' \in Epoch /\ requests' \in Seq(Epoch)
    BY <1>8 DEF WorkerTakes, ShellTypeOK
  <2>2. QED
    BY <1>8, <2>1 DEF WorkerTakes, ShellTypeOK, paletteVars, grantVars
<1>9. CASE WorkerAnswers
  <2>1. PICK plan \in Plans \cup {Absent} :
            results' = Append(results, [epoch |-> worker, plan |-> plan])
    BY <1>9 DEF WorkerAnswers
  <2>2. [epoch |-> worker, plan |-> plan] \in Answer
    BY <1>9 DEF WorkerAnswers, ShellTypeOK, Answer
  <2>3. results' \in Seq(Answer)
    BY <2>1, <2>2 DEF ShellTypeOK
  <2>4. QED
    BY <1>9, <2>3 DEF WorkerAnswers, ShellTypeOK, paletteVars, grantVars
<1>10. CASE Tick
  <2>1. /\ own' \in Table /\ unlogged' \subseteq Grants
        /\ shown' \subseteq Grants /\ outdated' \in BOOLEAN
    <3>1. Channels(logged) \subseteq Grants
      BY DEF Channels
    <3>2. QED
      BY <1>10, <3>1, ModelReloaded DEF Tick, PollStore, ShellTypeOK
  <2>2. /\ proposal' \in {Absent} \cup [of : Epoch, missing : SUBSET Need]
        /\ pending' \in {Absent} \cup [of : Epoch, plan : Plans]
        /\ planning' \in {Absent} \cup Epoch /\ results' \in Seq(Answer)
    <3>1. CASE planning # Absent /\ Awaited # {}
      <4>1. PollPlanner
        BY <1>10 DEF Tick
      <4>2. PICK answer \in Answer : FinishPlan(answer)
        BY <3>1, <4>1, AnswerAwaited
      <4>3. planning' = Absent /\ results' \in Seq(Answer)
        BY <3>1, <4>1, AnswerAwaited
      <4>4. proposal' \in {Absent} \cup [of : Epoch, missing : SUBSET Need]
        BY <4>2, PlanFinished
      <4>5. pending' \in {Absent} \cup [of : Epoch, plan : Plans]
        BY <4>2, PlanFinished
      <4>6. QED
        BY <4>3, <4>4, <4>5, Zenon
    <3>2. CASE planning = Absent \/ Awaited = {}
      <4>1. results' = << >> /\ UNCHANGED <<proposal, pending, planning>>
        BY <1>10, <3>2, Zenon DEF Tick, PollPlanner
      <4>2. << >> \in Seq(Answer)
        OBVIOUS
      <4>3. QED
        BY <4>1, <4>2 DEF ShellTypeOK
    <3>3. QED
      BY <3>1, <3>2
  <2>3. QED
    BY <1>10, <2>1, <2>2 DEF Tick, ShellTypeOK
<1>11. CASE Confirm
  <2>1. pending \in [of : Epoch, plan : Plans]
        /\ proposal \in [of : Epoch, missing : SUBSET Need]
    BY <1>11 DEF Confirm, CanConfirm, ShellTypeOK
  <2>2. PICK plan \in Plans, needs \in SUBSET Need :
            plan = pending.plan /\ needs = NeedsOf(plan)
    BY <2>1, PlanNeeds
  <2>3. run' = [grant |-> needs, steps |-> plan, brokered |-> {}, wallet |-> {},
                seen |-> proposal.missing]
    BY <1>11, <2>2 DEF Confirm, Running
  <2>4. run' \in Run
    BY <2>1, <2>2, <2>3, PlanNeeds DEF Run
  <2>5. QED
    BY <1>11, <2>4 DEF Confirm, NoAsk, ShellTypeOK, Line, plannerVars, grantVars
<1>12. CASE RunStep
  <2>1. run \in Run
    BY <1>12, RunStepKeeps DEF ShellTypeOK
  <2>2. own' \in Table /\ logged' \in Table
    <3>1. \A grant \in Channel : [own EXCEPT ![Draw] = grant] \in Table
      BY DEF ShellTypeOK, Table, Channel
    <3>2. own \in Table /\ logged \in Table
      BY DEF ShellTypeOK
    <3>3. CASE GrantMissing
      <4>1. PICK grant \in Channel : own' = [own EXCEPT ![Draw] = grant] /\ logged' = own'
        BY <3>3, GrantStepGrants
      <4>2. QED
        BY <3>1, <4>1
    <3>4. CASE ~ GrantMissing
      BY <1>12, <3>2, <3>4 DEF RunStep, GrantFails, BrokerNeed, EndStep, EndRun, Log
    <3>5. QED
      BY <3>3, <3>4
  <2>3. run' \in {Absent} \cup Run
    <3>1. CASE GrantMissing
      <4>1. PICK need \in run.grant :
                run' = [run EXCEPT !.grant = @ \ {need}, !.wallet = @ \cup {Draw}]
        BY <3>1 DEF GrantMissing
      <4>2. Cardinality(run.grant) # 0 /\ Cardinality(run.grant) \in Nat
            /\ Cardinality(run.grant) <= Cardinality(Undrawn)
        BY <3>1, <4>1, FS_EmptySet, FS_CardinalityType DEF RunDisclosed, GrantMissing
      <4>3. Draw \in Grants
        BY <4>2, DrawIsUndrawn DEF Undrawn
      <4>4. QED
        BY <2>1, <4>1, <4>3 DEF Run
    <3>2. CASE ~ GrantMissing
      <4>1. run.steps # << >> => Tail(run.steps) \in Seq(SUBSET Need)
        BY <2>1, NeedsLeft DEF Run
      <4>2. CASE \E brokered \in SUBSET Need : run' = [run EXCEPT !.brokered = brokered]
        BY <2>1, <4>2 DEF Run
      <4>3. CASE run.steps # << >> /\ run' = [run EXCEPT !.steps = Tail(@), !.brokered = {}]
        BY <2>1, <4>1, <4>3 DEF Run
      <4>4. QED
        BY <1>12, <3>2, <4>2, <4>3, RunStepRun
    <3>3. QED
      BY <3>1, <3>2
  <2>4. shown' \subseteq Grants /\ outdated' \in BOOLEAN
    BY <1>1, <1>12, RunStepKeeps, ModelReloaded DEF ShellTypeOK
  <2>5. QED
    BY <1>1, <1>12, <2>2, <2>3, <2>4, RunStepKeeps DEF ShellTypeOK
<1>13. CASE UNCHANGED shellVars
  BY <1>13 DEF shellVars, paletteVars, plannerVars, grantVars, ShellTypeOK
<1>14. QED
  BY <1>2, <1>3, <1>4, <1>5, <1>6, <1>7, <1>8, <1>9, <1>10, <1>11, <1>12, <1>13
     DEF ShellNext, Line

\* Every step keeps the palette at the last ask.
LEMMA AsksStep ==
    ASSUME ShellInv, [ShellNext]_shellVars
    PROVE  AsksInOrder'
<1> USE DEF ShellInv
<1>1. CASE UNCHANGED <<proposal, pending, planning, asks>>
  BY <1>1 DEF AsksInOrder, ProposalIsLastAsk
<1>2. CASE NoAsk /\ UNCHANGED asks
  BY <1>2 DEF NoAsk, AsksInOrder, ProposalIsLastAsk
<1>3. CASE Propose
  BY <1>3 DEF Propose, CanExecute, paletteVars, AsksInOrder, ProposalIsLastAsk
<1>4. CASE Tick
  <2>1. PollPlanner /\ UNCHANGED asks
    BY <1>4 DEF Tick
  <2>2. CASE planning # Absent /\ Awaited # {}
    <3>1. PICK answer \in Answer : answer.epoch = planning /\ FinishPlan(answer)
      BY <2>1, <2>2, AnswerAwaited
    <3>2. planning' = Absent /\ planning = asks
      BY <2>1, <2>2, AnswerAwaited DEF AsksInOrder
    <3>3. /\ proposal' # Absent /\ proposal'.of = answer.epoch
          /\ pending' # Absent =>
                pending'.of = answer.epoch /\ proposal'.missing = NeedsOf(pending'.plan)
      BY <3>1, PlanFinished
    <3>4. QED
      BY <2>1, <3>1, <3>2, <3>3 DEF AsksInOrder, ProposalIsLastAsk
  <2>3. CASE planning = Absent \/ Awaited = {}
    BY <1>1, <2>1, <2>3 DEF PollPlanner
  <2>4. QED
    BY <2>2, <2>3
<1>5. CASE RunStep
  BY <1>1, <1>5, RunStepKeeps
<1>6. QED
  BY <1>1, <1>2, <1>3, <1>4, <1>5
     DEF ShellNext, OtherRevokes, SeverClick, OtherGrants, Edit, Escape, Launch, SeverLine,
         WorkerTakes, WorkerAnswers, ConfirmFailed, Confirm, shellVars, paletteVars

\* A run stays within what was shown when ids are left for what it has still to
\* grant.
LEMMA RunKept ==
    ASSUME RunDisclosed, run # Absent, UNCHANGED <<run, own>>,
           Cardinality(run.grant) <= Cardinality(Undrawn')
    PROVE  RunDisclosed'
BY DEF RunDisclosed

\* Every step keeps the run within what was shown.
LEMMA RunDisclosedStep ==
    ASSUME ShellInv, [ShellNext]_shellVars
    PROVE  RunDisclosed'
<1> USE DEF ShellInv
<1>1. /\ IsFiniteSet(Undrawn) /\ Cardinality(Undrawn) \in Nat
      /\ IsFiniteSet(Undrawn') /\ Cardinality(Undrawn') \in Nat
  <2>1. IsFiniteSet(Grants)
    BY FS_Interval, ShellAssumption DEF Grants
  <2>2. Undrawn' \subseteq Grants
    BY DEF Undrawn
  <2>3. QED
    BY <2>1, <2>2, UndrawnFinite, FS_Subset, FS_CardinalityType
<1>2. CASE run' = Absent
  BY <1>2 DEF RunDisclosed
<1>3. run # Absent => Cardinality(run.grant) \in Nat
  BY FS_CardinalityType DEF RunDisclosed
<1>4. CASE UNCHANGED <<run, own, logged>>
  <2>1. Undrawn' = Undrawn
    BY <1>4 DEF Undrawn
  <2>2. QED
    BY <1>4, <2>1 DEF RunDisclosed
<1>5. ASSUME NEW need \in Need, OtherGrants(need), run # Absent
      PROVE  RunDisclosed'
  <2>1. PICK grant : logged' = [logged EXCEPT ![Draw] = grant]
    BY <1>5 DEF OtherGrants
  <2>2. 1 + Cardinality(run.grant) <= Cardinality(Undrawn)
    BY <1>5 DEF OtherGrants, Room
  <2>3. Draw \in Undrawn
    BY <1>1, <1>3, <1>5, <2>2, DrawIsUndrawn
  <2>4. Undrawn \ {Draw} \subseteq Undrawn'
    BY <1>5, <2>1 DEF OtherGrants, Undrawn, ShellTypeOK, Table
  <2>5. Cardinality(Undrawn) - 1 <= Cardinality(Undrawn')
    BY <1>1, <2>3, <2>4, DrawnAtMost
  <2>6. Cardinality(run.grant) <= Cardinality(Undrawn')
    BY <1>1, <1>3, <1>5, <2>2, <2>5
  <2>7. QED
    BY <1>5, <2>6, RunKept DEF OtherGrants
<1>6. ASSUME NEW g \in Grants, OtherRevokes(g), run # Absent
      PROVE  RunDisclosed'
  <2>1. \A h \in Grants : logged[h] = Absent => logged'[h] = Absent
    BY <1>6, TableSevered DEF OtherRevokes, ShellTypeOK
  <2>2. Undrawn \subseteq Undrawn'
    BY <1>6, <2>1 DEF OtherRevokes, Undrawn
  <2>3. Cardinality(Undrawn) <= Cardinality(Undrawn')
    BY <1>1, <2>2, DrawnAtMost
  <2>4. Cardinality(run.grant) <= Cardinality(Undrawn')
    BY <1>1, <1>3, <1>6, <2>3 DEF RunDisclosed
  <2>5. QED
    BY <1>6, <2>4, RunKept DEF OtherRevokes
<1>7. CASE Confirm
  <2>1. pending \in [of : Epoch, plan : Plans]
    BY <1>7 DEF Confirm, ShellTypeOK
  <2>2. PICK plan \in Plans : plan = pending.plan
    BY <2>1
  <2>3. PICK needs : needs = NeedsOf(plan)
    OBVIOUS
  <2>4. proposal.missing = needs
    BY <1>7, <2>2, <2>3 DEF Confirm, AsksInOrder, ProposalIsLastAsk
  <2>5. run' = [grant |-> needs, steps |-> plan, brokered |-> {}, wallet |-> {},
                seen |-> needs]
    BY <1>7, <2>2, <2>3, <2>4 DEF Confirm, Running
  <2>6. /\ run'.grant = needs /\ run'.seen = needs /\ run'.wallet = {}
        /\ NeedsOf(run'.steps) = needs
    BY <2>3, <2>5
  <2>7. IsFiniteSet(needs) /\ Cardinality(needs) \in Nat
    BY <2>3, PlanNeeds, FS_CardinalityType
  <2>8. Cardinality(needs) <= Cardinality(Undrawn)
    BY <1>7, <2>2, <2>3, <2>7 DEF Confirm, CanConfirm, Resting, Room
  <2>9. Undrawn' = Undrawn
    BY <1>7 DEF Confirm, grantVars, Undrawn
  <2>10. QED
    BY <2>6, <2>7, <2>8, <2>9 DEF RunDisclosed
<1>8. CASE RunStep /\ GrantMissing
  <2>1. PICK need \in run.grant, grant \in Channel :
            /\ grant.need = need /\ grant # Absent
            /\ own' = [own EXCEPT ![Draw] = grant] /\ logged' = own'
            /\ run' = [run EXCEPT !.grant = @ \ {need}, !.wallet = @ \cup {Draw}]
    BY <1>8, GrantStepGrants
  <2>2. run \in Run /\ run # Absent
    BY <1>8, RunStepKeeps DEF ShellTypeOK
  <2>3. PICK left, wallet :
            /\ left = run.grant \ {need} /\ wallet = run.wallet \cup {Draw}
            /\ run' = [run EXCEPT !.grant = left, !.wallet = wallet]
    BY <2>1
  <2>4. /\ run'.grant = left /\ run'.wallet = wallet /\ run'.seen = run.seen
        /\ run'.steps = run.steps
    BY <2>2, <2>3 DEF Run
  <2>5. IsFiniteSet(run.grant) /\ Cardinality(run.grant) <= Cardinality(Undrawn)
    BY <2>2 DEF RunDisclosed
  <2>6. IsFiniteSet(left) /\ Cardinality(left) = Cardinality(run.grant) - 1
    BY <2>1, <2>3, <2>5, FS_RemoveElement
  <2>7. Cardinality(run.grant) # 0
    BY <2>1, <2>5, FS_EmptySet
  <2>8. Draw \in Undrawn
    BY <1>3, <2>2, <2>5, <2>7, DrawIsUndrawn
  <2>9. Undrawn \ {Draw} \subseteq Undrawn'
    BY <2>1 DEF Undrawn, ShellTypeOK, Table
  <2>10. Cardinality(Undrawn) - 1 <= Cardinality(Undrawn')
    BY <1>1, <2>8, <2>9, DrawnAtMost
  <2>11. Cardinality(left) <= Cardinality(Undrawn')
    BY <1>1, <1>3, <2>2, <2>5, <2>6, <2>10
  <2>12. ASSUME NEW g \in wallet
         PROVE  own'[g] # Absent /\ own'[g].need \in run.seen
    <3>1. own \in Table /\ run.wallet \subseteq Grants /\ Draw \in Grants /\ own[Draw] = Absent
      BY <2>2, <2>8 DEF ShellTypeOK, Run, Undrawn
    <3>2. CASE g = Draw
      <4>1. own'[g] = grant
        BY <2>1, <3>1, <3>2 DEF Table
      <4>2. need \in run.seen
        BY <2>1, <2>2 DEF RunDisclosed
      <4>3. QED
        BY <2>1, <4>1, <4>2
    <3>3. CASE g # Draw
      <4>1. g \in run.wallet /\ own'[g] = own[g]
        BY <2>1, <2>3, <3>1, <3>3 DEF Table
      <4>2. QED
        BY <2>2, <4>1 DEF RunDisclosed
    <3>4. QED
      BY <3>2, <3>3
  <2>13. left \subseteq run.seen /\ NeedsOf(run.steps) \subseteq run.seen
    BY <2>2, <2>3 DEF RunDisclosed
  <2>14. QED
    BY <2>4, <2>6, <2>11, <2>12, <2>13 DEF RunDisclosed
<1>9. CASE RunStep /\ ~ GrantMissing /\ run' # Absent
  <2>1. run \in Run /\ run # Absent
    BY <1>9, RunStepKeeps DEF ShellTypeOK
  <2>2. /\ run'.grant = run.grant /\ run'.wallet = run.wallet /\ run'.seen = run.seen
        /\ NeedsOf(run'.steps) \subseteq NeedsOf(run.steps)
    <3>1. CASE \E brokered \in SUBSET Need : run' = [run EXCEPT !.brokered = brokered]
      BY <2>1, <3>1 DEF Run
    <3>2. CASE run.steps # << >> /\ run' = [run EXCEPT !.steps = Tail(@), !.brokered = {}]
      <4>1. NeedsOf(Tail(run.steps)) \subseteq NeedsOf(run.steps)
        BY <2>1, <3>2, NeedsLeft DEF Run
      <4>2. /\ run'.grant = run.grant /\ run'.wallet = run.wallet /\ run'.seen = run.seen
            /\ run'.steps = Tail(run.steps)
        BY <2>1, <3>2 DEF Run
      <4>3. QED
        BY <4>1, <4>2
    <3>3. QED
      BY <1>9, <3>1, <3>2, RunStepRun
  <2>3. UNCHANGED own /\ logged' \in {logged, own}
    BY <1>9 DEF RunStep, GrantFails, BrokerNeed, EndStep, EndRun, Log
  <2>4. Undrawn \subseteq Undrawn'
    BY <2>3 DEF Undrawn
  <2>5. Cardinality(Undrawn) <= Cardinality(Undrawn')
    BY <1>1, <2>4, DrawnAtMost
  <2>6. IsFiniteSet(run.grant) /\ Cardinality(run.grant) <= Cardinality(Undrawn')
    BY <1>1, <1>3, <2>1, <2>5 DEF RunDisclosed
  <2>7. QED
    BY <2>1, <2>2, <2>3, <2>6 DEF RunDisclosed
<1>10. CASE UNCHANGED run /\ run = Absent
  BY <1>2, <1>10
<1>11. QED
  BY <1>2, <1>4, <1>5, <1>6, <1>7, <1>8, <1>9, <1>10
     DEF ShellNext, OtherRevokes, SeverClick, OtherGrants, Edit, Escape, Propose, Launch,
         SeverLine, WorkerTakes, WorkerAnswers, Tick, ConfirmFailed, Resting, CanExecute,
         CanConfirm, shellVars, grantVars

\* The palette answers the last ask and a run stays within what was shown,
\* whatever is typed, clicked, planned, and granted or revoked by others.
THEOREM ShellInvCorrect == ShellSpec => []ShellInv
<1>1. ShellInit => ShellInv
  <2>1. SUFFICES ASSUME ShellInit PROVE ShellInv
    OBVIOUS
  <2>2. /\ << >> \in Seq(Epoch) /\ << >> \in Seq(Answer) /\ EmptyGrants \in Table
        /\ 0 \in 0 .. MaxAsks
    BY ShellAssumption DEF EmptyGrants, Table
  <2>3. ShellTypeOK
    BY <2>1, <2>2 DEF ShellInit, ShellTypeOK, Line
  <2>4. QED
    BY <2>1, <2>3 DEF ShellInit, ShellInv, AsksInOrder, ProposalIsLastAsk, RunDisclosed
<1>2. ShellInv /\ [ShellNext]_shellVars => ShellInv'
  BY ShellTypeStep, AsksStep, RunDisclosedStep DEF ShellInv
<1>3. QED
  BY <1>1, <1>2, PTL DEF ShellSpec

\* The palette, the planner's queues, the grants and a run are what main.rs,
\* glass/aura.rs and aura/src/lib.rs hold.
THEOREM ShellTypeCorrect == ShellSpec => []ShellTypeOK
BY ShellInvCorrect, PTL DEF ShellInv

\* What is proposed, and the plan an Enter would run, answer the last ask,
\* however many were cancelled or are still being planned (poll_planner).
THEOREM ProposalsAnswerTheLastAsk == ShellSpec => []ProposalIsLastAsk
<1>1. ShellInv => ProposalIsLastAsk
  BY DEF ShellInv, AsksInOrder
<1>2. QED
  BY <1>1, ShellInvCorrect, PTL

\* A confirmed plan is granted, and uses, nothing that was not shown as missing
\* (grant_missing and run_step), whatever others grant and revoke meanwhile.
THEOREM RunsGrantWhatWasShown == ShellSpec => []GrantsDisclosed
<1>1. ShellInv => GrantsDisclosed
  BY DEF ShellInv, RunDisclosed, GrantsDisclosed
<1>2. QED
  BY <1>1, ShellInvCorrect, PTL

-----------------------------------------------------------------------------
(* The screens.                                                            *)

\* Every CRTC that is lit scans out a connector of its own device, which is
\* there, and no connector is scanned out twice.
LitSoundly ==
    /\ \A c \in Lit : OnGpu[c] \in devices /\ OnGpu[lit[c]] = OnGpu[c]
    /\ \A c, d \in Lit : lit[c] = lit[d] => c = d

ScanInv == ScanTypeOK /\ LitSoundly /\ ClientsSeeScreens

\* What as many things are put in one for each is finite.
LEMMA ImageFinite ==
    ASSUME NEW S, IsFiniteSet(S), NEW f, f \in [S -> {f[x] : x \in S}]
    PROVE  IsFiniteSet({f[x] : x \in S})
<1>1. f \in Surjection(S, {f[x] : x \in S})
  BY DEF Surjection
<1>2. QED
  BY <1>1, FS_Surjection

\* What is lit, with the types of its parts.
LEMMA OutputsFinite ==
    ASSUME ScanTypeOK
    PROVE  IsFiniteSet(Outputs) /\ Outputs \subseteq Output
<1>1. \A c \in Lit : c \in Crtc /\ lit[c] \in Connector
  BY DEF ScanTypeOK, Lit
<1>2. IsFiniteSet(Lit)
  <2>1. Lit \subseteq Crtc
    BY DEF Lit
  <2>2. QED
    BY <2>1, FS_Subset, ScanoutAssumption
<1>3. PICK f : f = [c \in Lit |-> <<lit[c], c>>]
  OBVIOUS
<1>4. Outputs = {f[c] : c \in Lit} /\ f \in [Lit -> {f[c] : c \in Lit}]
  BY <1>3 DEF Outputs
<1>5. QED
  BY <1>1, <1>2, <1>4, ImageFinite DEF Outputs, Output

Wide(o) == Width[o[1]]

\* The columns of one output.
LEMMA ColumnsOfOne ==
    ASSUME NEW o \in Output
    PROVE  /\ Wide(o) \in Nat /\ Wide(o) > 0
           /\ IsFiniteSet({o} \X (1 .. Wide(o))) /\ Cardinality({o} \X (1 .. Wide(o))) = Wide(o)
<1>1. Wide(o) \in Nat /\ Wide(o) > 0
  <2>1. o[1] \in Connector /\ Width \in [Connector -> Nat \ {0}]
    BY ScanoutAssumption DEF Output
  <2>2. QED
    BY <2>1 DEF Wide
<1>2. IsFiniteSet(1 .. Wide(o)) /\ Cardinality(1 .. Wide(o)) = Wide(o)
  BY <1>1, FS_Interval
<1>3. IsFiniteSet({o}) /\ Cardinality({o}) = 1
  BY FS_Singleton
<1>4. IsFiniteSet({o} \X (1 .. Wide(o)))
      /\ Cardinality({o} \X (1 .. Wide(o))) = 1 * Wide(o)
  BY <1>2, <1>3, FS_Product
<1>5. QED
  BY <1>1, <1>4

\* The columns of finitely many outputs are finitely many.
LEMMA ColumnsFinite ==
    ASSUME NEW os, IsFiniteSet(os), os \subseteq Output
    PROVE  IsFiniteSet(Columns(os)) /\ Total(os) \in Nat
<1>1. PICK f : f = [o \in os |-> {o} \X (1 .. Wide(o))]
  OBVIOUS
<1>2. Columns(os) = UNION {f[o] : o \in os} /\ f \in [os -> {f[o] : o \in os}]
  BY <1>1 DEF Columns, Wide
<1>3. IsFiniteSet({f[o] : o \in os})
  BY <1>2, ImageFinite
<1>4. \A o \in os : IsFiniteSet(f[o])
  BY <1>1, ColumnsOfOne
<1>5. IsFiniteSet(UNION {f[o] : o \in os})
  BY <1>3, <1>4, FS_UNION
<1>6. QED
  BY <1>2, <1>5, FS_CardinalityType DEF Total

\* More outputs take no fewer columns.
LEMMA TotalMonotone ==
    ASSUME NEW ps, IsFiniteSet(ps), ps \subseteq Output, NEW os, os \subseteq ps
    PROVE  Total(os) <= Total(ps)
<1>1. Columns(os) \subseteq Columns(ps)
  BY DEF Columns
<1>2. QED
  BY <1>1, ColumnsFinite, FS_Subset DEF Total

\* One more output takes as many more as it is wide.
LEMMA TotalAdd ==
    ASSUME NEW os, IsFiniteSet(os), os \subseteq Output, NEW o \in Output, o \notin os
    PROVE  Total(os \cup {o}) = Total(os) + Wide(o)
<1>1. PICK its : its = {o} \X (1 .. Wide(o))
  OBVIOUS
<1>2. IsFiniteSet(its) /\ Cardinality(its) = Wide(o) /\ Wide(o) \in Nat
  BY <1>1, ColumnsOfOne
<1>3. Columns(os \cup {o}) = Columns(os) \cup its
  BY <1>1 DEF Columns, Wide
<1>4. Columns(os) \cap its = {}
  BY <1>1 DEF Columns
<1>5. IsFiniteSet(Columns(os)) /\ Total(os) \in Nat
  BY ColumnsFinite
<1>6. Cardinality(Columns(os) \cup its) =
        Cardinality(Columns(os)) + Cardinality(its) - Cardinality(Columns(os) \cap its)
  BY <1>2, <1>5, FS_Union
<1>7. Cardinality(Columns(os) \cap its) = 0
  BY <1>4, FS_EmptySet
<1>8. Total(os \cup {o}) = Total(os) + Wide(o) - 0
  BY <1>2, <1>3, <1>6, <1>7 DEF Total
<1>9. QED
  BY <1>2, <1>5, <1>8

\* None takes none.
LEMMA TotalNone == Total({}) = 0
<1>1. Columns({}) = {}
  BY DEF Columns
<1>2. QED
  BY <1>1, FS_EmptySet DEF Total

\* Outputs of different connectors lie one left of the other, in one order.
LEMMA LeftOfOrders ==
    ASSUME ScanTypeOK
    PROVE  /\ \A o \in Output : ~ LeftOf(o, o)
           /\ \A o, p, q \in Output : LeftOf(o, p) /\ LeftOf(p, q) => LeftOf(o, q)
           /\ \A o, p \in Output : o[1] # p[1] => LeftOf(o, p) \/ LeftOf(p, o)
           /\ \A o, p \in Output :
                 LeftOf(p, o) /\ OnGpu[o[1]] = primary => OnGpu[p[1]] = primary
<1>1. \A o \in Output : o[1] \in Nat
  BY ScanoutAssumption DEF Output
<1>2. \A o, p \in Output :
        LeftOf(o, p) <=>
            \/ /\ primary = OnGpu[o[1]] <=> primary = OnGpu[p[1]]
               /\ o[1] < p[1]
            \/ primary = OnGpu[o[1]] /\ ~ (primary = OnGpu[p[1]])
  <2>1. TAKE o \in Output, p \in Output
  <2>2. PICK a \in BOOLEAN, b \in BOOLEAN :
            a = (primary = OnGpu[o[1]]) /\ b = (primary = OnGpu[p[1]])
    OBVIOUS
  <2>3. LeftOf(o, p) <=> IF a = b THEN o[1] < p[1] ELSE a
    BY <2>2, Zenon DEF LeftOf
  <2>4. QED
    BY <2>2, <2>3
<1>3. QED
  BY <1>1, <1>2

\* The outputs left of one.
Before(o) == {p \in Outputs : LeftOf(p, o)}

\* Where each output starts, and where it ends.
LEMMA ArrangedInOrder ==
    ASSUME ScanTypeOK, LitSoundly
    PROVE  /\ Span \in Nat
           /\ \A o \in Outputs :
                 /\ Arranged[o] \in Nat /\ Arranged[o] = Total(Before(o))
                 /\ Wide(o) \in Nat /\ Wide(o) > 0
                 /\ Arranged[o] + Wide(o) = Total(Before(o) \cup {o})
                 /\ Arranged[o] + Wide(o) <= Span
           /\ \A o, p \in Outputs : o # p => LeftOf(o, p) \/ LeftOf(p, o)
           /\ \A o, p \in Outputs : LeftOf(o, p) => Arranged[o] + Wide(o) <= Arranged[p]
<1>1. IsFiniteSet(Outputs) /\ Outputs \subseteq Output
  BY OutputsFinite
<1>2. \A os \in SUBSET Outputs : IsFiniteSet(os) /\ os \subseteq Output
  BY <1>1, FS_Subset
<1>3. ASSUME NEW o \in Outputs
      PROVE  /\ Arranged[o] \in Nat /\ Arranged[o] = Total(Before(o))
             /\ Wide(o) \in Nat /\ Wide(o) > 0
             /\ Arranged[o] + Wide(o) = Total(Before(o) \cup {o})
             /\ Arranged[o] + Wide(o) <= Span
  <2>1. Before(o) \subseteq Outputs /\ o \notin Before(o) /\ o \in Output
    BY <1>1, LeftOfOrders DEF Before
  <2>2. IsFiniteSet(Before(o)) /\ Before(o) \subseteq Output
    BY <1>2, <2>1
  <2>3. Arranged[o] = Total(Before(o))
    BY DEF Arranged, Before
  <2>4. Total(Before(o)) \in Nat
    BY <2>2, ColumnsFinite
  <2>5. Total(Before(o) \cup {o}) = Total(Before(o)) + Wide(o)
    BY <2>1, <2>2, TotalAdd
  <2>6. Wide(o) \in Nat /\ Wide(o) > 0
    BY <2>1, ColumnsOfOne
  <2>7. Total(Before(o) \cup {o}) <= Total(Outputs)
    BY <1>1, <2>1, TotalMonotone
  <2>8. QED
    BY <2>3, <2>4, <2>5, <2>6, <2>7 DEF Span
<1>4. ASSUME NEW o \in Outputs, NEW p \in Outputs, o # p
      PROVE  LeftOf(o, p) \/ LeftOf(p, o)
  <2>1. o[1] # p[1]
    BY <1>4 DEF Outputs, LitSoundly
  <2>2. QED
    BY <1>1, <2>1, LeftOfOrders
<1>5. ASSUME NEW o \in Outputs, NEW p \in Outputs, LeftOf(o, p)
      PROVE  Arranged[o] + Wide(o) <= Arranged[p]
  <2>1. Before(o) \cup {o} \subseteq Before(p) /\ Before(p) \subseteq Outputs
    BY <1>1, <1>5, LeftOfOrders DEF Before
  <2>2. IsFiniteSet(Before(p)) /\ Before(p) \subseteq Output
    BY <1>2, <2>1
  <2>3. Total(Before(o) \cup {o}) <= Total(Before(p))
    BY <2>1, <2>2, TotalMonotone
  <2>4. QED
    BY <1>3, <2>3
<1>6. Span \in Nat
  BY <1>1, ColumnsFinite DEF Span
<1>7. QED
  BY <1>3, <1>4, <1>5, <1>6

\* Among some outputs one starts leftmost, and it is left of the others.
LEMMA Leftmost ==
    ASSUME ScanTypeOK, LitSoundly, NEW os, os \subseteq Outputs, os # {}
    PROVE  \E o \in os : \A p \in os : p # o => LeftOf(o, p)
<1>1. PICK starts : starts = {Arranged[o] : o \in os}
  OBVIOUS
<1>2. PICK o \in os : \A p \in os : Arranged[o] <= Arranged[p]
  <2>1. \A o \in os : Arranged[o] \in Nat
    BY ArrangedInOrder
  <2>2. starts \subseteq Nat /\ starts # {}
    BY <1>1, <2>1
  <2>3. PICK least \in starts : \A start \in starts : least <= start
    BY <2>2, LeastOf
  <2>4. QED
    BY <1>1, <2>3
<1>3. ASSUME NEW p \in os, p # o
      PROVE  LeftOf(o, p)
  <2>1. LeftOf(o, p) \/ LeftOf(p, o)
    BY <1>3, ArrangedInOrder
  <2>2. ASSUME LeftOf(p, o)
        PROVE  FALSE
    <3>1. /\ Arranged[p] + Wide(p) <= Arranged[o]
          /\ Arranged[p] \in Nat /\ Arranged[o] \in Nat /\ Wide(p) \in Nat /\ Wide(p) > 0
      BY <2>2, ArrangedInOrder
    <3>2. Arranged[o] <= Arranged[p]
      BY <1>2
    <3>3. QED
      BY <3>1, <3>2
  <2>3. QED
    BY <2>1, <2>2
<1>4. QED
  BY <1>3

\* The first output starts where the desktop does.
LEMMA FirstAtZero ==
    ASSUME ScanTypeOK, LitSoundly, Outputs # {}
    PROVE  \E o \in Outputs : Arranged[o] = 0
<1>1. PICK o \in Outputs : \A p \in Outputs : p # o => LeftOf(o, p)
  BY Leftmost
<1>2. Before(o) = {}
  BY <1>1, LeftOfOrders, OutputsFinite DEF Before
<1>3. QED
  BY <1>2, ArrangedInOrder, TotalNone

\* Every other output starts where one ends, and the last ends with the desktop.
LEMMA NextAdjacent ==
    ASSUME ScanTypeOK, LitSoundly, NEW o \in Outputs
    PROVE  \/ Arranged[o] + Wide(o) = Span
           \/ \E p \in Outputs : Arranged[p] = Arranged[o] + Wide(o)
<1>1. PICK rest : rest = {p \in Outputs : LeftOf(o, p)}
  OBVIOUS
<1>2. Outputs = Before(o) \cup {o} \cup rest
  BY <1>1, ArrangedInOrder DEF Before
<1>3. CASE rest = {}
  BY <1>2, <1>3, ArrangedInOrder DEF Span
<1>4. CASE rest # {}
  <2>1. PICK p \in rest : \A q \in rest : q # p => LeftOf(p, q)
    BY <1>1, <1>4, Leftmost
  <2>2. Before(p) = Before(o) \cup {o}
    <3>1. ASSUME NEW q \in Before(p)
          PROVE  q \in Before(o) \cup {o}
      <4>1. q \in Outputs /\ LeftOf(q, p)
        BY DEF Before
      <4>2. q \notin rest
        BY <1>1, <2>1, <4>1, LeftOfOrders, OutputsFinite
      <4>3. QED
        BY <1>2, <4>1, <4>2
    <3>2. ASSUME NEW q \in Before(o) \cup {o}
          PROVE  q \in Before(p)
      BY <1>1, <2>1, LeftOfOrders, OutputsFinite DEF Before
    <3>3. QED
      BY <3>1, <3>2
  <2>3. QED
    BY <1>1, <2>2, ArrangedInOrder
<1>5. QED
  BY <1>3, <1>4

\* No column of the desktop is left without an output.
LEMMA Covered ==
    ASSUME ScanTypeOK, LitSoundly, NEW x \in Nat, x < Span
    PROVE  \E o \in Outputs : Arranged[o] <= x /\ x < Arranged[o] + Wide(o)
<1>1. \A o \in Outputs : Arranged[o] \in Nat /\ Wide(o) \in Nat
  BY ArrangedInOrder
<1>2. PICK left : left = {o \in Outputs : Arranged[o] <= x}
  OBVIOUS
<1>3. left # {}
  <2>1. Outputs # {}
    BY TotalNone DEF Span
  <2>2. QED
    BY <1>2, <2>1, FirstAtZero
<1>4. PICK o \in left : \A p \in left : x - Arranged[o] <= x - Arranged[p]
  <2>1. PICK gaps : gaps = {x - Arranged[o] : o \in left}
    OBVIOUS
  <2>2. \A o \in left : x - Arranged[o] \in Nat
    BY <1>1, <1>2
  <2>3. gaps \subseteq Nat /\ gaps # {}
    BY <1>3, <2>1, <2>2
  <2>4. PICK least \in gaps : \A gap \in gaps : least <= gap
    BY <2>3, LeastOf
  <2>5. QED
    BY <2>1, <2>4
<1>5. o \in Outputs /\ Arranged[o] <= x /\ Wide(o) > 0 /\ Span \in Nat
  BY <1>2, ArrangedInOrder
<1>6. CASE x < Arranged[o] + Wide(o)
  BY <1>5, <1>6
<1>7. CASE Arranged[o] + Wide(o) <= x
  <2>1. Arranged[o] + Wide(o) # Span
    BY <1>1, <1>5, <1>7
  <2>2. PICK p \in Outputs : Arranged[p] = Arranged[o] + Wide(o)
    BY <1>5, <2>1, NextAdjacent
  <2>3. p \in left
    BY <1>2, <1>7, <2>2
  <2>4. x - Arranged[o] <= x - Arranged[p]
    BY <1>4, <2>3
  <2>5. QED
    BY <1>1, <1>5, <2>2, <2>4
<1>8. QED
  BY <1>1, <1>5, <1>6, <1>7

\* The outputs lie side by side, without a gap and without an overlap.
LEMMA SideBySide ==
    ASSUME ScanTypeOK, LitSoundly, NEW x \in 0 .. Span
    PROVE  Cardinality({o \in Outputs : x \in Arranged[o] .. Arranged[o] + Wide(o) - 1})
             = (IF x < Span THEN 1 ELSE 0)
<1>1. PICK at : at = {o \in Outputs : x \in Arranged[o] .. Arranged[o] + Wide(o) - 1}
  OBVIOUS
<1>2. /\ Span \in Nat /\ x \in Nat
      /\ \A o \in Outputs : /\ Arranged[o] \in Nat /\ Wide(o) \in Nat
                            /\ Arranged[o] + Wide(o) <= Span
  <2>1. Span \in Nat
    BY ArrangedInOrder
  <2>2. x \in Nat
    BY <2>1
  <2>3. \A o \in Outputs : /\ Arranged[o] \in Nat /\ Wide(o) \in Nat
                            /\ Arranged[o] + Wide(o) <= Span
    BY ArrangedInOrder
  <2>4. QED
    BY <2>1, <2>2, <2>3
<1>3. at = {o \in Outputs : Arranged[o] <= x /\ x < Arranged[o] + Wide(o)}
  BY <1>1, <1>2
<1>4. CASE x < Span
  <2>1. PICK o \in at : TRUE
    BY <1>2, <1>3, <1>4, Covered
  <2>2. ASSUME NEW p \in at, p # o
        PROVE  FALSE
    <3>1. LeftOf(o, p) \/ LeftOf(p, o)
      BY <1>3, <2>2, ArrangedInOrder
    <3>2. Arranged[o] + Wide(o) <= Arranged[p] \/ Arranged[p] + Wide(p) <= Arranged[o]
      BY <1>3, <3>1, ArrangedInOrder
    <3>3. QED
      BY <1>2, <1>3, <3>2
  <2>3. at = {o}
    BY <2>1, <2>2
  <2>4. QED
    BY <1>1, <1>4, <2>3, FS_Singleton
<1>5. CASE ~ (x < Span)
  <2>1. at = {}
    BY <1>2, <1>3, <1>5
  <2>2. QED
    BY <1>1, <1>5, <2>1, FS_EmptySet
<1>6. QED
  BY <1>4, <1>5

Lights == [Crtc -> Connector \cup {Dark}]

\* Lighting outputs anew gives each of them its global, and no other one.
LEMMA RelitGlobals ==
    ASSUME ScanTypeOK, globals = Outputs, NEW new \in Lights, Relit(new)
    PROVE  /\ lit' = new /\ globals' = Outputs'
           /\ awaiting' \subseteq Crtc /\ damage' \subseteq Crtc
<1>1. PICK fresh, gone :
          /\ fresh = {c \in Crtc : new[c] # Dark /\ new[c] # lit[c]}
          /\ gone = {c \in Crtc : lit[c] # Dark /\ new[c] # lit[c]}
  OBVIOUS
<1>2. /\ lit' = new
      /\ globals' = (globals \ {<<lit[c], c>> : c \in gone}) \cup {<<new[c], c>> : c \in fresh}
      /\ awaiting' = awaiting \ (fresh \cup gone)
      /\ damage' = (damage \ gone) \cup fresh
  BY <1>1, Zenon DEF Relit
<1>3. \A o : o \in Outputs <=> \E c \in Crtc : lit[c] # Dark /\ o = <<lit[c], c>>
  BY DEF Outputs, Lit
<1>4. \A o : o \in Outputs' <=> \E c \in Crtc : new[c] # Dark /\ o = <<new[c], c>>
  BY <1>2 DEF Outputs, Lit
<1>5. ASSUME NEW o \in globals'
      PROVE  o \in Outputs'
  <2>1. CASE \E c \in fresh : o = <<new[c], c>>
    BY <1>1, <1>4, <2>1
  <2>2. CASE o \in globals /\ \A c \in gone : o # <<lit[c], c>>
    <3>1. PICK c \in Crtc : lit[c] # Dark /\ o = <<lit[c], c>>
      BY <1>3, <2>2
    <3>2. new[c] = lit[c]
      BY <1>1, <2>2, <3>1
    <3>3. QED
      BY <1>4, <3>1, <3>2
  <2>3. QED
    BY <1>2, <2>1, <2>2
<1>6. ASSUME NEW o \in Outputs'
      PROVE  o \in globals'
  <2>1. PICK c \in Crtc : new[c] # Dark /\ o = <<new[c], c>>
    BY <1>4
  <2>2. CASE new[c] # lit[c]
    BY <1>1, <1>2, <2>1, <2>2
  <2>3. CASE new[c] = lit[c]
    <3>1. o \in globals
      BY <1>3, <2>1, <2>3
    <3>2. \A d \in gone : o # <<lit[d], d>>
      BY <1>1, <2>1, <2>3
    <3>3. QED
      BY <1>2, <3>1, <3>2
  <2>4. QED
    BY <2>2, <2>3
<1>7. QED
  BY <1>1, <1>2, <1>5, <1>6 DEF ScanTypeOK

\* What a scan of a device's connectors lights: one that was not lit, on a CRTC
\* that was free; the rest stay lit or go dark.
LEMMA RescannedLights ==
    ASSUME ScanTypeOK, NEW g \in Gpu, NEW connected, NEW chosen \in Pairings(g, connected),
           connected \subseteq {k \in plugged : OnGpu[k] = g},
           NEW new, new = Rescanned(g, connected, chosen)
    PROVE  /\ new \in Lights
           /\ \A c \in Crtc :
                 \/ new[c] \in {Dark, lit[c]}
                 \/ /\ <<new[c], c>> \in chosen
                    /\ new[c] \in Connector /\ OnGpu[new[c]] = g
                    /\ OnGpu[c] = g /\ \A d \in Crtc : lit[d] # new[c]
           /\ \A c, d \in Crtc :
                 <<new[c], c>> \in chosen /\ <<new[d], d>> \in chosen /\ new[c] = new[d] => c = d
<1>1. /\ chosen \subseteq (connected \ {lit[c] : c \in Lit}) \X {c \in Crtc \ Lit : OnGpu[c] = g}
      /\ \A p, q \in chosen : p[1] = q[1] \/ p[2] = q[2] => p = q
  BY DEF Pairings
<1>2. connected \subseteq Connector /\ Dark \notin Connector /\ \A k \in connected : OnGpu[k] = g
  BY ScanoutAssumption DEF ScanTypeOK
<1>3. ASSUME NEW c \in Crtc
      PROVE  /\ new[c] \in Connector \cup {Dark}
             /\ \/ new[c] \in {Dark, lit[c]}
                \/ /\ <<new[c], c>> \in chosen
                   /\ new[c] \in Connector /\ OnGpu[new[c]] = g
                   /\ OnGpu[c] = g /\ \A d \in Crtc : lit[d] # new[c]
  <2>1. CASE \E k \in connected : <<k, c>> \in chosen
    <3>1. new[c] = CHOOSE k \in connected : <<k, c>> \in chosen
      BY <2>1 DEF Rescanned
    <3>2. new[c] \in connected /\ <<new[c], c>> \in chosen
      BY <2>1, <3>1, Zenon
    <3>3. new[c] \notin {lit[d] : d \in Lit} /\ OnGpu[c] = g
      BY <1>1, <3>2
    <3>4. \A d \in Crtc : lit[d] # new[c]
      BY <1>2, <3>2, <3>3 DEF Lit
    <3>5. QED
      BY <1>2, <3>2, <3>3, <3>4
  <2>2. CASE ~ \E k \in connected : <<k, c>> \in chosen
    BY <2>2 DEF Rescanned, ScanTypeOK
  <2>3. QED
    BY <2>1, <2>2
<1>4. new \in Lights
  BY <1>3 DEF Rescanned, Lights
<1>5. QED
  BY <1>1, <1>3, <1>4

\* A scan of a device that is there leaves every CRTC with a connector of its
\* own.
LEMMA ScanLights ==
    ASSUME ScanTypeOK, LitSoundly, globals = Outputs, NEW g \in Gpu, ScanConnectors(g),
           devices' \in SUBSET Gpu, devices \subseteq devices', g \in devices'
    PROVE  /\ lit' \in Lights /\ LitSoundly' /\ globals' = Outputs'
           /\ awaiting' \subseteq Crtc /\ damage' \subseteq Crtc
           /\ dirty' \in BOOLEAN /\ (~ dirty' => ~ dirty /\ lit' = lit)
<1>1. PICK connected \in SUBSET {k \in plugged : OnGpu[k] = g} :
          \E chosen \in Pairings(g, connected) :
              /\ Relit(Rescanned(g, connected, chosen))
              /\ dirty' = (dirty \/ Rescanned(g, connected, chosen) # lit)
  BY DEF ScanConnectors
<1>2. PICK chosen \in Pairings(g, connected) :
          /\ Relit(Rescanned(g, connected, chosen))
          /\ dirty' = (dirty \/ Rescanned(g, connected, chosen) # lit)
  BY <1>1
<1>3. PICK new : new = Rescanned(g, connected, chosen)
  OBVIOUS
<1>4. Relit(new) /\ dirty' = (dirty \/ new # lit)
  BY <1>2, <1>3
<1>5. /\ new \in Lights
      /\ \A c \in Crtc :
            \/ new[c] \in {Dark, lit[c]}
            \/ /\ <<new[c], c>> \in chosen
               /\ new[c] \in Connector /\ OnGpu[new[c]] = g
               /\ OnGpu[c] = g /\ \A d \in Crtc : lit[d] # new[c]
      /\ \A c, d \in Crtc :
            <<new[c], c>> \in chosen /\ <<new[d], d>> \in chosen /\ new[c] = new[d] => c = d
  BY <1>3, RescannedLights
<1>6. /\ lit' = new /\ globals' = Outputs'
      /\ awaiting' \subseteq Crtc /\ damage' \subseteq Crtc
  BY <1>4, <1>5, RelitGlobals
<1>7. LitSoundly'
  <2>1. \A c \in Lit' : c \in Crtc /\ new[c] # Dark
    BY <1>6 DEF Lit
  <2>2. \A c \in Crtc : lit[c] # Dark => OnGpu[c] \in devices /\ OnGpu[lit[c]] = OnGpu[c]
    BY DEF LitSoundly, Lit
  <2>3. \A c, d \in Crtc : lit[c] # Dark /\ lit[c] = lit[d] => c = d
    BY DEF LitSoundly, Lit
  <2>4. \A c \in Lit' : OnGpu[c] \in devices' /\ OnGpu[new[c]] = OnGpu[c]
    BY <1>5, <2>1, <2>2
  <2>5. \A c, d \in Lit' : new[c] = new[d] => c = d
    BY <1>5, <2>1, <2>3
  <2>6. QED
    BY <1>6, <2>4, <2>5 DEF LitSoundly
<1>8. dirty' \in BOOLEAN /\ (~ dirty' => ~ dirty /\ lit' = lit)
  BY <1>4, <1>6, Zenon DEF ScanTypeOK
<1>9. QED
  BY <1>5, <1>6, <1>7, <1>8

\* What clients see stays right while the layout stays and what is lit does.
LEMMA LayoutKept ==
    ASSUME ScanTypeOK, LitSoundly, ClientsSeeScreens, UNCHANGED <<mapped, roam, placeholder>>,
           globals' = Outputs', ~ dirty' => ~ dirty /\ lit' = lit,
           \/ primary' = primary
           \/ dirty'
           \/ primary = NoGpu /\ primary' \notin devices
    PROVE  ClientsSeeScreens'
<1>1. CASE dirty'
  BY <1>1 DEF ClientsSeeScreens
<1>2. CASE ~ dirty'
  <2>1. Outputs' = Outputs /\ ~ dirty
    BY <1>2 DEF Outputs, Lit
  <2>2. \A o \in Outputs : OnGpu[o[1]] \in devices
    BY DEF LitSoundly, Outputs
  <2>3. \A o, p \in Outputs' :
          OnGpu[o[1]] = primary' /\ mapped[o] > mapped[p] => OnGpu[p[1]] = primary'
    BY <1>2, <2>1, <2>2 DEF ClientsSeeScreens
  <2>4. QED
    BY <2>1, <2>3 DEF ClientsSeeScreens
<1>3. QED
  BY <1>1, <1>2

\* A layout that is made is right.
LEMMA LayoutMade ==
    ASSUME ScanTypeOK, LitSoundly, ClientsSeeScreens, Relayout,
           UNCHANGED <<lit, primary, devices>>
    PROVE  ClientsSeeScreens' /\ ~ dirty' /\ dirty' \in BOOLEAN /\ placeholder' \in BOOLEAN
           /\ globals' = globals
           /\ DOMAIN mapped' \subseteq Output /\ mapped' \in [DOMAIN mapped' -> Nat] /\ roam' \in Nat
<1>1. dirty' = FALSE /\ globals' = globals /\ Outputs' = Outputs
  BY DEF Relayout, Outputs, Lit
<1>2. CASE ~ dirty
  <2>1. UNCHANGED <<mapped, roam, placeholder>>
    BY <1>2, Zenon DEF Relayout, layout
  <2>2. globals' = Outputs'
    BY <1>1 DEF ClientsSeeScreens
  <2>3. ClientsSeeScreens'
    BY <1>1, <1>2, <2>1, <2>2, LayoutKept
  <2>4. QED
    BY <1>1, <2>1, <2>3 DEF ScanTypeOK
<1>3. CASE dirty
  <2>1. /\ mapped' = Arranged /\ roam' = (IF Span = 0 THEN 1 ELSE Span)
        /\ placeholder' = (Outputs = {})
    BY <1>3, Zenon DEF Relayout
  <2>2. DOMAIN mapped' = Outputs /\ mapped' \in [Outputs -> Nat] /\ Outputs \subseteq Output
    BY <2>1, ArrangedInOrder, OutputsFinite DEF Arranged
  <2>3. roam' \in Nat
    BY <2>1, ArrangedInOrder
  <2>4. placeholder' \in BOOLEAN /\ (placeholder' <=> Outputs = {})
    BY <2>1
  <2>5. ASSUME Outputs # {}, NEW x \in 0 .. roam'
        PROVE  Cardinality({o \in Outputs : x \in mapped'[o] .. mapped'[o] + Width[o[1]] - 1})
                 = (IF x < roam' THEN 1 ELSE 0)
    <3>1. roam' = Span
      <4>1. PICK o \in Outputs : TRUE
        BY <2>5
      <4>2. /\ Span \in Nat /\ Arranged[o] \in Nat /\ Wide(o) \in Nat /\ Wide(o) > 0
            /\ Arranged[o] + Wide(o) <= Span
        BY <4>1, ArrangedInOrder
      <4>3. Span # 0
        BY <4>2
      <4>4. QED
        BY <2>1, <4>3
    <3>2. QED
      BY <2>1, <3>1, SideBySide DEF Wide
  <2>6. ASSUME NEW o \in Outputs, NEW p \in Outputs, OnGpu[o[1]] = primary,
               mapped'[o] > mapped'[p]
        PROVE  OnGpu[p[1]] = primary
    <3>1. LeftOf(p, o)
      <4>1. /\ Arranged[o] \in Nat /\ Arranged[p] \in Nat /\ Wide(o) \in Nat
            /\ Arranged[o] > Arranged[p]
        BY <2>1, <2>6, ArrangedInOrder
      <4>2. o # p /\ ~ (Arranged[o] + Wide(o) <= Arranged[p])
        BY <4>1
      <4>3. QED
        BY <4>2, ArrangedInOrder
    <3>2. QED
      BY <2>2, <2>6, <3>1, LeftOfOrders
  <2>7. ClientsSeeScreens'
    BY <1>1, <2>2, <2>4, <2>5, <2>6 DEF ClientsSeeScreens
  <2>8. QED
    BY <1>1, <2>2, <2>3, <2>4, <2>7
<1>4. QED
  BY <1>2, <1>3

\* Every step of the compositor.
LEMMA ScanStep ==
    ASSUME ScanInv, [ScanNext]_scanVars
    PROVE  ScanInv'
<1> USE DEF ScanInv
<1>1. globals = Outputs
  BY DEF ClientsSeeScreens
<1>2. ASSUME UNCHANGED <<lit, devices, primary, scene>>,
             plugged' \subseteq Connector, active' \in BOOLEAN,
             awaiting' \subseteq Crtc, flying' \subseteq Crtc, damage' \subseteq Crtc
      PROVE  ScanInv'
  <2>1. ScanTypeOK'
    BY <1>2 DEF ScanTypeOK, scene, layout, Output
  <2>2. LitSoundly'
    BY <1>2 DEF LitSoundly, Lit
  <2>3. ClientsSeeScreens'
    BY <1>2 DEF ClientsSeeScreens, Outputs, Lit, scene, layout
  <2>4. QED
    BY <2>1, <2>2, <2>3
<1>3. ASSUME NEW k \in Connector, Plug(k)
      PROVE  ScanInv'
  BY <1>2, <1>3 DEF Plug, frames, ScanTypeOK
<1>4. ASSUME NEW g \in Gpu, DeviceAdded(g)
      PROVE  ScanInv'
  <2>1. /\ g \notin devices /\ devices' = devices \cup {g}
        /\ primary' = (IF primary = NoGpu THEN g ELSE primary)
        /\ ScanConnectors(g) /\ UNCHANGED <<plugged, flying, active, layout>>
    BY <1>4 DEF DeviceAdded
  <2>2. devices \subseteq Gpu /\ primary \in Gpu \cup {NoGpu}
    BY DEF ScanTypeOK
  <2>3. devices' \in SUBSET Gpu /\ devices \subseteq devices' /\ g \in devices'
    BY <2>1, <2>2
  <2>4. /\ lit' \in Lights /\ LitSoundly' /\ globals' = Outputs'
        /\ awaiting' \subseteq Crtc /\ damage' \subseteq Crtc
        /\ dirty' \in BOOLEAN /\ (~ dirty' => ~ dirty /\ lit' = lit)
    BY <1>1, <2>1, <2>3, ScanLights
  <2>5. UNCHANGED <<mapped, roam, placeholder>>
    BY <2>1 DEF layout
  <2>6. ClientsSeeScreens'
    <3>1. \/ primary' = primary
          \/ primary = NoGpu /\ primary' \notin devices
      BY <2>1
    <3>2. QED
      BY <2>4, <2>5, <3>1, LayoutKept
  <2>7. globals' \subseteq Output
    BY <2>4 DEF Outputs, Lit, Lights, Output
  <2>8. ScanTypeOK'
    BY <2>1, <2>2, <2>3, <2>4, <2>5, <2>7 DEF ScanTypeOK, Lights
  <2>9. QED
    BY <2>4, <2>6, <2>8
<1>5. ASSUME NEW g \in Gpu, DeviceRemoved(g)
      PROVE  ScanInv'
  <2>1. PICK new : new = [c \in Crtc |-> IF OnGpu[c] = g THEN Dark ELSE lit[c]]
    OBVIOUS
  <2>2. /\ devices' = devices \ {g} /\ Succeed(g) /\ Relit(new) /\ flying' \subseteq flying
        /\ dirty' = TRUE /\ UNCHANGED <<plugged, active, layout>>
    BY <1>5, <2>1 DEF DeviceRemoved
  <2>3. new \in Lights
    BY <2>1 DEF ScanTypeOK, Lights
  <2>4. /\ lit' = new /\ globals' = Outputs'
        /\ awaiting' \subseteq Crtc /\ damage' \subseteq Crtc
    BY <1>1, <2>2, <2>3, RelitGlobals
  <2>5. LitSoundly'
    <3>1. \A c \in Lit' : c \in Lit /\ new[c] = lit[c] /\ OnGpu[c] # g
      BY <2>1, <2>4 DEF Lit
    <3>2. QED
      BY <2>2, <2>4, <3>1 DEF LitSoundly
  <2>6. ClientsSeeScreens'
    BY <2>2, <2>4 DEF ClientsSeeScreens
  <2>7. primary' \in Gpu \cup {NoGpu} /\ devices' \subseteq Gpu
    BY <2>2 DEF Succeed, ScanTypeOK
  <2>8. globals' \subseteq Output
    BY <2>3, <2>4 DEF Outputs, Lit, Lights, Output
  <2>9. UNCHANGED <<mapped, roam, placeholder>>
    BY <2>2 DEF layout
  <2>10. ScanTypeOK'
    BY <2>2, <2>3, <2>4, <2>7, <2>8, <2>9 DEF ScanTypeOK, Lights
  <2>11. QED
    BY <2>5, <2>6, <2>10
<1>6. ASSUME NEW g \in Gpu, DeviceChanged(g)
      PROVE  ScanInv'
  <2>1. CASE UNCHANGED <<lit, globals, awaiting, damage, dirty>>
    BY <1>2, <1>6, <2>1 DEF DeviceChanged, scene, layout, ScanTypeOK
  <2>2. CASE ScanConnectors(g)
    <3>1. /\ g \in devices /\ UNCHANGED <<plugged, devices, primary, flying, active, layout>>
      BY <1>6 DEF DeviceChanged
    <3>2. devices' \in SUBSET Gpu /\ devices \subseteq devices' /\ g \in devices'
      BY <3>1 DEF ScanTypeOK
    <3>3. /\ lit' \in Lights /\ LitSoundly' /\ globals' = Outputs'
          /\ awaiting' \subseteq Crtc /\ damage' \subseteq Crtc
          /\ dirty' \in BOOLEAN /\ (~ dirty' => ~ dirty /\ lit' = lit)
      BY <1>1, <2>2, <3>2, ScanLights
    <3>4. UNCHANGED <<mapped, roam, placeholder>>
      BY <3>1 DEF layout
    <3>5. ClientsSeeScreens'
      BY <3>1, <3>3, <3>4, LayoutKept
    <3>6. globals' \subseteq Output
      BY <3>3 DEF Outputs, Lit, Lights, Output
    <3>7. ScanTypeOK'
      BY <3>1, <3>3, <3>4, <3>6 DEF ScanTypeOK, Lights
    <3>8. QED
      BY <3>3, <3>5, <3>7
  <2>3. QED
    BY <1>6, <2>1, <2>2 DEF DeviceChanged
<1>7. ASSUME NEW c \in Crtc, VBlank(c) \/ Redraw(c)
      PROVE  ScanInv'
  BY <1>2, <1>7 DEF VBlank, Redraw, ScanTypeOK
<1>8. CASE PauseSession \/ ActivateSession
  <2>1. Lit \subseteq Crtc
    BY DEF Lit
  <2>2. active' \in BOOLEAN
    BY <1>8 DEF PauseSession, ActivateSession
  <2>3. QED
    BY <1>2, <1>8, <2>1, <2>2 DEF PauseSession, ActivateSession, ScanTypeOK
<1>9. CASE Iterate
  <2>1. Relayout /\ RenderAll /\ UNCHANGED <<plugged, devices, primary, lit, active>>
    BY <1>9 DEF Iterate
  <2>2. /\ ClientsSeeScreens' /\ dirty' \in BOOLEAN /\ placeholder' \in BOOLEAN
        /\ globals' = globals
        /\ DOMAIN mapped' \subseteq Output /\ mapped' \in [DOMAIN mapped' -> Nat] /\ roam' \in Nat
    BY <2>1, LayoutMade
  <2>3. awaiting' \subseteq Crtc /\ flying' \subseteq Crtc /\ damage' \subseteq Crtc
    BY <2>1 DEF RenderAll, ScanTypeOK, Lit
  <2>4. ScanTypeOK'
    BY <2>1, <2>2, <2>3 DEF ScanTypeOK, Output
  <2>5. LitSoundly'
    BY <2>1 DEF LitSoundly, Lit
  <2>6. QED
    BY <2>2, <2>4, <2>5
<1>10. CASE UNCHANGED scanVars
  BY <1>2, <1>10 DEF scanVars, frames, ScanTypeOK
<1>11. QED
  BY <1>3, <1>4, <1>5, <1>6, <1>7, <1>8, <1>9, <1>10 DEF ScanNext

\* What is lit, where it lies and what clients are told of it agree, whatever
\* monitors, devices and sessions come and go.
THEOREM ScanInvCorrect == ScanSpec => []ScanInv
<1>1. ScanInit => ScanInv
  <2>1. SUFFICES ASSUME ScanInit PROVE ScanInv
    OBVIOUS
  <2>2. PICK none : none = [o \in {} |-> 0]
    OBVIOUS
  <2>3. DOMAIN none = {} /\ none \in [DOMAIN none -> Nat]
    BY <2>2
  <2>4. Lit = {} /\ Outputs = {}
    BY <2>1 DEF ScanInit, Lit, Outputs
  <2>5. ScanTypeOK
    <3>1. mapped = none /\ roam = 1920 /\ primary = Named
      BY <2>1, <2>2, Zenon DEF ScanInit, DefaultWidth
    <3>2. DOMAIN mapped \subseteq Output /\ mapped \in [DOMAIN mapped -> Nat] /\ roam \in Nat
      BY <2>3, <3>1
    <3>3. primary \in Gpu \cup {NoGpu}
      BY <3>1, ScanoutAssumption
    <3>4. lit \in [Crtc -> Connector \cup {Dark}]
      BY <2>1 DEF ScanInit
    <3>5. QED
      BY <2>1, <3>2, <3>3, <3>4 DEF ScanInit, ScanTypeOK
  <2>6. ClientsSeeScreens
    BY <2>1, <2>2, <2>3, <2>4 DEF ScanInit, ClientsSeeScreens
  <2>7. QED
    BY <2>4, <2>5, <2>6 DEF ScanInv, LitSoundly
<1>2. ScanInv /\ [ScanNext]_scanVars => ScanInv'
  BY ScanStep
<1>3. QED
  BY <1>1, <1>2, PTL DEF ScanSpec

\* The devices, their outputs and the layout are what softdrm.rs, drm.rs and
\* server.rs hold.
THEOREM ScanTypeCorrect == ScanSpec => []ScanTypeOK
BY ScanInvCorrect, PTL DEF ScanInv

\* Clients see one global for each lit output, and the outputs laid side by side
\* without a gap, those of the primary device first, once relayout ran: for any
\* devices, connectors, CRTCs and widths, whatever was plugged in between.
THEOREM ScreensAreSideBySide == ScanSpec => []ClientsSeeScreens
BY ScanInvCorrect, PTL DEF ScanInv

=============================================================================
