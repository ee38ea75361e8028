--------------------------- MODULE PlaybooksProofs ---------------------------
(***************************************************************************)
(* Proofs about Playbooks, for every number of users, runs, approvals,     *)
(* requests and steps. The inductive invariant is split into named parts;  *)
(* the four ways a decision ends are first reduced to one description of   *)
(* their effect, from which each part is preserved.                        *)
(***************************************************************************)
EXTENDS Playbooks, TLAPS

RunStatus == {"none", "AWAITING_APPROVAL", "COMPLETED", "FAILED", "REJECTED"}

(* An approval row belongs to an existing real run and was requested by    *)
(* the user who triggered that run; a decided one names another user.      *)
RowsLinked ==
    \A a \in Approval : approval[a].status # "none" =>
        /\ approval[a].run \in Run
        /\ run[approval[a].run].status # "none"
        /\ ~run[approval[a].run].dry_run
        /\ approval[a].requested_by = run[approval[a].run].triggered_by
        /\ approval[a].status # "PENDING_APPROVAL" =>
                /\ approval[a].decided_by \in User
                /\ approval[a].decided_by # approval[a].requested_by

(* A request in flight is about an existing approval of the run it names   *)
(* and comes from a user other than the approval's requester.              *)
RequestsLinked ==
    \A q \in Request : request[q].phase # "idle" =>
        /\ request[q].approval \in Approval
        /\ approval[request[q].approval].status # "none"
        /\ approval[request[q].approval].run = request[q].run
        /\ request[q].user \in User
        /\ request[q].user # approval[request[q].approval].requested_by

GrantsLinked == \A x \in grants : run[x.run].status # "none"

ControlInv == TypeOK /\ RowsLinked /\ RequestsLinked /\ GrantsLinked /\ DualControl

(* What one row of the approvals looks like after request q has committed. *)
Rewritten(q, b, e) ==
    \/ /\ approval[b].status = "none"
       /\ \/ approval'[b] = approval[b]
          \/ approval'[b] = PendingApproval(request[q].run, e,
                                            run[request[q].run].triggered_by)
    \/ /\ approval[b].status # "none"
       /\ approval'[b].run = approval[b].run
       /\ approval'[b].requested_by = approval[b].requested_by
       /\ b # request[q].approval =>
            /\ approval'[b].decided_by = approval[b].decided_by
            /\ \/ approval'[b] = approval[b]
               \/ approval[b].status = "APPROVED" /\ approval'[b].status = "EXECUTED"
       /\ b = request[q].approval =>
            /\ approval'[b].decided_by = request[q].user
            /\ approval'[b].status \in {"APPROVED", "REJECTED", "EXECUTED"}

(* The effect of request q committing with status st after stopping at step e. *)
Effect(q, e, st) ==
    LET r == request[q].run
        s == request[q].step
    IN  /\ request[q].phase = "loaded"
        /\ s <= e
        /\ st \in RunStatus \ {"none"}
        /\ st = "COMPLETED" => e = NumSteps
        /\ run' \in [Run -> RunRow]
        /\ \A x \in Run : x # r => run'[x] = run[x]
        /\ run'[r].triggered_by = run[r].triggered_by
        /\ run'[r].dry_run = run[r].dry_run
        /\ run'[r].current_step = IF e # s THEN e ELSE run[r].current_step
        /\ \/ run'[r].status = st
           \/ run'[r].status = run[r].status /\ st = request[q].status
        /\ approval' \in [Approval -> ApprovalRow]
        /\ \A b \in Approval : Rewritten(q, b, e)
        /\ st = "AWAITING_APPROVAL" =>
              \E b \in Approval : /\ approval[b].status = "none"
                                  /\ approval'[b] = PendingApproval(r, e, run[r].triggered_by)
        /\ done' \in [Run -> [Step -> Nat]]
        /\ \A x \in Run : x # r => done'[x] = done[x]
        /\ \A i \in Step : done'[r][i] = IF s <= i /\ i < e THEN done[r][i] + 1 ELSE done[r][i]
        /\ grants' \subseteq [run : Run, step : Destructive, approver : User \cup {Nobody}]
        /\ \A x \in grants' : x \in grants \/ /\ x.run = r
                                              /\ x.approver \in User
                                              /\ x.approver # run[r].triggered_by
        /\ request' = [request EXCEPT ![q] = Idle]
        /\ overlapped' = overlapped

-----------------------------------------------------------------------------
(* What transaction q sees: rows differ from the committed ones in its own only. *)
LEMMA ViewFacts ==
    ASSUME TypeOK, RequestsLinked, NEW q \in Request, request[q].phase = "loaded"
    PROVE  /\ View(q) \in [Approval -> ApprovalRow]
           /\ \A b \in Approval : b # request[q].approval => View(q)[b] = approval[b]
           /\ LET a == request[q].approval IN
                /\ View(q)[a].status = request[q].decision
                /\ View(q)[a].decided_by = request[q].user
                /\ View(q)[a].run = approval[a].run
                /\ View(q)[a].step = approval[a].step
                /\ View(q)[a].requested_by = approval[a].requested_by
<1> DEFINE a == request[q].approval
<1>1. request[q] \in RequestState /\ a \in Approval
      BY DEF TypeOK, RequestsLinked
<1>2. approval \in [Approval -> ApprovalRow]
      BY DEF TypeOK
<1>3. request[q].decision \in {"APPROVED", "REJECTED"} /\ request[q].user \in User \cup {Nobody}
      BY <1>1 DEF RequestState
<1>4. \A b \in Approval : approval[b] \in ApprovalRow
      BY <1>2
<1>5. View(q) = [b \in Approval |->
                    IF b = a THEN [approval[b] EXCEPT !.status = request[q].decision,
                                                      !.decided_by = request[q].user]
                    ELSE approval[b]]
      BY <1>1, <1>2, <1>4 DEF View, ApprovalRow
<1> DEFINE w == [approval[a] EXCEPT !.status = request[q].decision,
                                 !.decided_by = request[q].user]
<1>6. /\ w \in ApprovalRow
      /\ w.status = request[q].decision
      /\ w.decided_by = request[q].user
      /\ w.run = approval[a].run
      /\ w.step = approval[a].step
      /\ w.requested_by = approval[a].requested_by
      <2>1. approval[a] \in ApprovalRow
            BY <1>1, <1>4
      <2> QED BY <2>1, <1>3 DEF ApprovalRow
<1>7. View(q) = [b \in Approval |-> IF b = a THEN w ELSE approval[b]]
      BY <1>5
<1> HIDE DEF w
<1>8. View(q)[a] = w /\ \A b \in Approval : b # a => View(q)[b] = approval[b]
      BY <1>1, <1>7
<1>9. View(q) \in [Approval -> ApprovalRow]
      BY <1>4, <1>6, <1>7
<1> QED BY <1>6, <1>8, <1>9

(* The rows the engine commits, whichever approvals it consumed. *)
LEMMA CommittedFacts ==
    ASSUME ControlInv, NEW q \in Request, request[q].phase = "loaded",
           request[q].decision = "APPROVED",
           NEW s \in 0..NumSteps, NEW e \in 0..NumSteps,
           NEW g \in [DestructiveIn(s, e) -> Approval],
           \A i \in DestructiveIn(s, e) : g[i] \in Approved(q, i)
    PROVE  /\ Committed(q, s, e, g) \in [Approval -> ApprovalRow]
           /\ \A b \in Approval :
                LET c == Committed(q, s, e, g)[b] IN
                /\ approval[b].status = "none" => c = approval[b]
                /\ c.run = approval[b].run
                /\ c.requested_by = approval[b].requested_by
                /\ b # request[q].approval =>
                    /\ c.decided_by = approval[b].decided_by
                    /\ \/ c = approval[b]
                       \/ approval[b].status = "APPROVED" /\ c.status = "EXECUTED"
                /\ b = request[q].approval =>
                    /\ c.decided_by = request[q].user
                    /\ c.status \in {"APPROVED", "REJECTED", "EXECUTED"}
<1> DEFINE V == View(q)
           C == Committed(q, s, e, g)
           used(b) == \E i \in DestructiveIn(s, e) : g[i] = b
<1>1. /\ V \in [Approval -> ApprovalRow]
      /\ \A b \in Approval : b # request[q].approval => V[b] = approval[b]
      /\ request[q].approval \in Approval
      /\ approval[request[q].approval].status # "none"
      /\ V[request[q].approval].status = request[q].decision
      /\ V[request[q].approval].decided_by = request[q].user
      /\ V[request[q].approval].run = approval[request[q].approval].run
      /\ V[request[q].approval].requested_by = approval[request[q].approval].requested_by
      BY ViewFacts DEF ControlInv, RequestsLinked
<1>2. \A b \in Approval : used(b) => V[b].status = "APPROVED"
      BY DEF Approved, used, V
<1>3. C = [b \in Approval |-> IF used(b) THEN [V[b] EXCEPT !.status = "EXECUTED"] ELSE V[b]]
      BY DEF Committed
<1> HIDE DEF V, C, used
<1>4. ASSUME NEW b \in Approval
      PROVE  /\ C[b] \in ApprovalRow
             /\ C[b].run = V[b].run
             /\ C[b].requested_by = V[b].requested_by
             /\ C[b].decided_by = V[b].decided_by
             /\ \/ C[b] = V[b]
                \/ V[b].status = "APPROVED" /\ C[b].status = "EXECUTED"
      <2>1. V[b] \in ApprovalRow
            BY <1>1
      <2>2. CASE used(b)
            <3>1. C[b] = [V[b] EXCEPT !.status = "EXECUTED"]
                  BY <2>2, <1>3
            <3> QED BY <3>1, <2>1, <2>2, <1>2 DEF ApprovalRow
      <2>3. CASE ~used(b)
            BY <2>1, <2>3, <1>3
      <2> QED BY <2>2, <2>3
<1>5. C \in [Approval -> ApprovalRow]
      BY <1>3, <1>4
<1>6. ASSUME NEW b \in Approval
      PROVE  /\ approval[b].status = "none" => C[b] = approval[b]
             /\ C[b].run = approval[b].run
             /\ C[b].requested_by = approval[b].requested_by
             /\ b # request[q].approval =>
                 /\ C[b].decided_by = approval[b].decided_by
                 /\ \/ C[b] = approval[b]
                    \/ approval[b].status = "APPROVED" /\ C[b].status = "EXECUTED"
             /\ b = request[q].approval =>
                 /\ C[b].decided_by = request[q].user
                 /\ C[b].status \in {"APPROVED", "REJECTED", "EXECUTED"}
      <2>1. CASE b # request[q].approval
            BY <2>1, <1>1, <1>4
      <2>2. CASE b = request[q].approval
            BY <2>2, <1>1, <1>4
      <2> QED BY <2>1, <2>2
<1> QED BY <1>5, <1>6 DEF C

(* What the engine's loop does to the step counts and to the history of grants. *)
LEMMA ConsumesFacts ==
    ASSUME ControlInv, NEW q \in Request, request[q].phase = "loaded",
           request[q].decision = "APPROVED",
           NEW s \in 0..NumSteps, NEW e \in 0..NumSteps,
           NEW g \in [DestructiveIn(s, e) -> Approval],
           Consumes(q, s, e, g)
    PROVE  /\ done' \in [Run -> [Step -> Nat]]
           /\ \A x \in Run : x # request[q].run => done'[x] = done[x]
           /\ \A i \in Step : done'[request[q].run][i] =
                    IF s <= i /\ i < e THEN done[request[q].run][i] + 1
                    ELSE done[request[q].run][i]
           /\ grants' \subseteq [run : Run, step : Destructive, approver : User \cup {Nobody}]
           /\ \A x \in grants' : x \in grants \/
                    /\ x.run = request[q].run
                    /\ x.approver \in User
                    /\ x.approver # run[request[q].run].triggered_by
<1> DEFINE r == request[q].run
<1>1. /\ r \in Run
      /\ request[q].approval \in Approval
      /\ approval[request[q].approval].run = r
      /\ approval[request[q].approval].status # "none"
      /\ approval[request[q].approval].requested_by = run[r].triggered_by
      /\ request[q].user \in User
      /\ request[q].user # run[r].triggered_by
      BY DEF ControlInv, RequestsLinked, RowsLinked
<1>2. /\ done' \in [Run -> [Step -> Nat]]
      /\ \A x \in Run : x # r => done'[x] = done[x]
      /\ \A i \in Step : done'[r][i] = IF s <= i /\ i < e THEN done[r][i] + 1 ELSE done[r][i]
      <2>1. done \in [Run -> [Step -> Nat]]
            BY DEF ControlInv, TypeOK
      <2>2. done' = [done EXCEPT ![r] =
                        [i \in Step |-> IF s <= i /\ i < e THEN done[r][i] + 1 ELSE done[r][i]]]
            BY <1>1, <2>1 DEF Consumes, Executed
      <2>3. [i \in Step |-> IF s <= i /\ i < e THEN done[r][i] + 1 ELSE done[r][i]]
                \in [Step -> Nat]
            BY <1>1, <2>1
      <2> QED BY <1>1, <2>1, <2>2, <2>3
<1>3. ASSUME NEW i \in DestructiveIn(s, e)
      PROVE  /\ View(q)[g[i]].decided_by \in User
             /\ View(q)[g[i]].decided_by # run[r].triggered_by
      <2>1. /\ g[i] \in Approval
            /\ View(q)[g[i]].status = "APPROVED"
            /\ View(q)[g[i]].run = r
            BY DEF Consumes, Approved
      <2>2. CASE g[i] = request[q].approval
            BY <2>2, <1>1, ViewFacts DEF ControlInv
      <2>3. CASE g[i] # request[q].approval
            <3>1. View(q)[g[i]] = approval[g[i]]
                  BY <2>1, <2>3, ViewFacts DEF ControlInv
            <3> QED BY <3>1, <2>1 DEF ControlInv, RowsLinked
      <2> QED BY <2>2, <2>3
<1>4. ASSUME NEW x \in grants', x \notin grants
      PROVE  /\ x \in [run : Run, step : Destructive, approver : User \cup {Nobody}]
             /\ x.run = r /\ x.approver \in User /\ x.approver # run[r].triggered_by
      <2>1. PICK i \in DestructiveIn(s, e) :
                x = [run |-> r, step |-> i, approver |-> View(q)[g[i]].decided_by]
            BY <1>4 DEF Consumes
      <2>2. i \in Destructive
            BY DEF DestructiveIn
      <2> QED BY <2>1, <2>2, <1>1, <1>3
<1>5. grants \subseteq [run : Run, step : Destructive, approver : User \cup {Nobody}]
      BY DEF ControlInv, TypeOK
<1> QED BY <1>2, <1>4, <1>5

(* The columns of the run that a resumed run's commit writes. *)
LEMMA WriteRunFacts ==
    ASSUME ControlInv, NEW q \in Request, request[q].phase = "loaded",
           NEW e \in 0..NumSteps, NEW st \in RunStatus \ {"none"},
           WriteRun(q, st, e)
    PROVE  LET r == request[q].run IN
           /\ run' \in [Run -> RunRow]
           /\ \A x \in Run : x # r => run'[x] = run[x]
           /\ run'[r].triggered_by = run[r].triggered_by
           /\ run'[r].dry_run = run[r].dry_run
           /\ run'[r].current_step = IF e # request[q].step THEN e ELSE run[r].current_step
           /\ \/ run'[r].status = st
              \/ run'[r].status = run[r].status /\ st = request[q].status
<1> DEFINE r == request[q].run
<1>1. r \in Run /\ run \in [Run -> RunRow] /\ run[r] \in RunRow
      BY DEF ControlInv, TypeOK, RequestsLinked, RowsLinked
<1>2. PICK written \in BOOLEAN :
        /\ st # request[q].status => written
        /\ run' = [run EXCEPT ![r].status = IF written THEN st ELSE @,
                              ![r].current_step = IF e # request[q].step THEN e ELSE @]
      BY DEF WriteRun
<1> DEFINE w == [run[r] EXCEPT !.status = IF written THEN st ELSE run[r].status,
                               !.current_step = IF e # request[q].step THEN e
                                                ELSE run[r].current_step]
<1>3. run' = [run EXCEPT ![r] = w]
      BY <1>1, <1>2 DEF RunRow
<1>4. /\ w \in RunRow
      /\ w.triggered_by = run[r].triggered_by
      /\ w.dry_run = run[r].dry_run
      /\ w.current_step = IF e # request[q].step THEN e ELSE run[r].current_step
      /\ w.status = IF written THEN st ELSE run[r].status
      BY <1>1 DEF RunRow, RunStatus
<1> HIDE DEF w
<1>5. run'[r] = w /\ run' \in [Run -> RunRow] /\ \A x \in Run : x # r => run'[x] = run[x]
      BY <1>1, <1>3, <1>4
<1>6. w.status = st \/ (w.status = run[r].status /\ st = request[q].status)
      BY <1>2, <1>4
<1> QED BY <1>4, <1>5, <1>6

(* Each of the four ways a decision can end has an Effect. *)
LEMMA CommitEffect ==
    ASSUME ControlInv, NEW q \in Request,
           Complete(q) \/ Reject(q) \/ \E e \in Step : Fail(q, e) \/ Halt(q, e)
    PROVE  \E e \in 0..NumSteps, st \in RunStatus \ {"none"} : Effect(q, e, st)
<1> DEFINE s == request[q].step
           r == request[q].run
<1>1. /\ request[q].phase = "loaded"
      /\ s \in 0..NumSteps
      /\ r \in Run
      /\ request[q].approval \in Approval
      /\ approval[request[q].approval].status # "none"
      /\ approval \in [Approval -> ApprovalRow]
      BY DEF Complete, Reject, Fail, Halt, ControlInv, TypeOK, RequestState, RequestsLinked,
             RowsLinked
<1>2. NumSteps \in Nat /\ Destructive \subseteq 0..(NumSteps - 1)
      BY PlaybookConstants
<1>3. CASE Complete(q)
      <2>1. PICK g \in [DestructiveIn(s, NumSteps) -> Approval] :
                /\ Consumes(q, s, NumSteps, g)
                /\ approval' = Committed(q, s, NumSteps, g)
            BY <1>3 DEF Complete
      <2>2. WriteRun(q, "COMPLETED", NumSteps) /\ Finish(q) /\ request[q].decision = "APPROVED"
            BY <1>3 DEF Complete
      <2>3. approval' \in [Approval -> ApprovalRow] /\ \A b \in Approval : Rewritten(q, b, NumSteps)
            BY <2>1, <2>2, <1>1, <1>2, CommittedFacts DEF Consumes, Rewritten
      <2>4. NumSteps \in 0..NumSteps /\ "COMPLETED" \in RunStatus \ {"none"} /\ s <= NumSteps
            BY <1>1, <1>2 DEF RunStatus
      <2>5. Effect(q, NumSteps, "COMPLETED")
            BY <2>1, <2>2, <2>3, <2>4, <1>1, WriteRunFacts, ConsumesFacts DEF Effect, Finish
      <2> QED BY <2>4, <2>5
<1>4. CASE \E e \in Step : Fail(q, e)
      <2>1. PICK e \in Step : Fail(q, e)
            BY <1>4
      <2>2. PICK g \in [DestructiveIn(s, e) -> Approval] :
                /\ Consumes(q, s, e, g)
                /\ approval' = Committed(q, s, e, g)
            BY <2>1 DEF Fail
      <2>3. WriteRun(q, "FAILED", e) /\ Finish(q) /\ request[q].decision = "APPROVED"
            BY <2>1 DEF Fail
      <2>4. e \in 0..NumSteps /\ "FAILED" \in RunStatus \ {"none"} /\ s <= e
            BY <2>1, <1>1, <1>2 DEF RunStatus, Step, Fail
      <2>5. approval' \in [Approval -> ApprovalRow] /\ \A b \in Approval : Rewritten(q, b, e)
            BY <2>2, <2>3, <2>4, <1>1, CommittedFacts DEF Consumes, Rewritten
      <2>6. Effect(q, e, "FAILED")
            BY <2>2, <2>3, <2>4, <2>5, <1>1, WriteRunFacts, ConsumesFacts DEF Effect, Finish
      <2> QED BY <2>4, <2>6
<1>5. CASE \E e \in Step : Halt(q, e)
      <2>1. PICK e \in Step : Halt(q, e)
            BY <1>5
      <2>2. PICK g \in [DestructiveIn(s, e) -> Approval], b \in Approval :
                /\ approval[b].status = "none"
                /\ Consumes(q, s, e, g)
                /\ approval' = [Committed(q, s, e, g) EXCEPT
                                    ![b] = PendingApproval(r, e, run[r].triggered_by)]
            BY <2>1 DEF Halt
      <2>3. WriteRun(q, "AWAITING_APPROVAL", e) /\ Finish(q) /\ request[q].decision = "APPROVED"
            BY <2>1 DEF Halt
      <2>4. e \in 0..NumSteps /\ "AWAITING_APPROVAL" \in RunStatus \ {"none"} /\ s <= e
            BY <2>1, <1>1, <1>2 DEF RunStatus, Step, Halt
      <2>5. PendingApproval(r, e, run[r].triggered_by) \in ApprovalRow
            BY <1>1, <2>4 DEF PendingApproval, ApprovalRow, ControlInv, TypeOK, RunRow
      <2>6. Committed(q, s, e, g) \in [Approval -> ApprovalRow]
            BY <2>2, <2>3, <2>4, <1>1, CommittedFacts DEF Consumes
      <2>7. /\ approval' \in [Approval -> ApprovalRow]
            /\ approval'[b] = PendingApproval(r, e, run[r].triggered_by)
            /\ \A c \in Approval : c # b => approval'[c] = Committed(q, s, e, g)[c]
            BY <2>2, <2>5, <2>6
      <2>8. \A c \in Approval : Rewritten(q, c, e)
            <3>1. PICK C : C = Committed(q, s, e, g)
                  OBVIOUS
            <3>2. \A c \in Approval :
                    /\ approval[c].status = "none" => C[c] = approval[c]
                    /\ approval[c].status # "none" =>
                        /\ C[c].run = approval[c].run /\ C[c].requested_by = approval[c].requested_by
                        /\ c # request[q].approval =>
                            /\ C[c].decided_by = approval[c].decided_by
                            /\ \/ C[c] = approval[c]
                               \/ approval[c].status = "APPROVED" /\ C[c].status = "EXECUTED"
                        /\ c = request[q].approval =>
                            /\ C[c].decided_by = request[q].user
                            /\ C[c].status \in {"APPROVED", "REJECTED", "EXECUTED"}
                  BY <2>2, <2>3, <2>4, <1>1, <3>1, CommittedFacts DEF Consumes
            <3>3. Rewritten(q, b, e)
                  BY <2>2, <2>7 DEF Rewritten
            <3>4. ASSUME NEW c \in Approval, c # b PROVE Rewritten(q, c, e)
                  <4>1. approval'[c] = C[c]
                        BY <2>7, <3>1, <3>4
                  <4> QED BY <3>2, <4>1 DEF Rewritten
            <3> QED BY <3>3, <3>4
      <2>9. Effect(q, e, "AWAITING_APPROVAL")
            <3>1. \E c \in Approval : /\ approval[c].status = "none"
                                      /\ approval'[c] = PendingApproval(r, e, run[r].triggered_by)
                  BY <2>2, <2>7
            <3>2. /\ run' \in [Run -> RunRow]
                  /\ \A x \in Run : x # r => run'[x] = run[x]
                  /\ run'[r].triggered_by = run[r].triggered_by
                  /\ run'[r].dry_run = run[r].dry_run
                  /\ run'[r].current_step = IF e # s THEN e ELSE run[r].current_step
                  /\ \/ run'[r].status = "AWAITING_APPROVAL"
                     \/ run'[r].status = run[r].status /\ "AWAITING_APPROVAL" = request[q].status
                  BY <1>1, <2>3, <2>4, WriteRunFacts
            <3>3. /\ done' \in [Run -> [Step -> Nat]]
                  /\ \A x \in Run : x # r => done'[x] = done[x]
                  /\ \A i \in Step : done'[r][i] = IF s <= i /\ i < e THEN done[r][i] + 1 ELSE done[r][i]
                  /\ grants' \subseteq [run : Run, step : Destructive, approver : User \cup {Nobody}]
                  /\ \A x \in grants' : x \in grants \/ /\ x.run = r
                                                        /\ x.approver \in User
                                                        /\ x.approver # run[r].triggered_by
                  BY <1>1, <2>2, <2>3, <2>4, ConsumesFacts
            <3> QED BY <1>1, <2>3, <2>4, <2>7, <2>8, <3>1, <3>2, <3>3 DEF Effect, Finish
      <2> QED BY <2>4, <2>9
<1>6. CASE Reject(q)
      <2>1. /\ request[q].decision = "REJECTED"
            /\ approval' = View(q)
            /\ run' = [run EXCEPT ![r].status = IF request[q].status = "REJECTED" THEN @
                                                ELSE "REJECTED"]
            /\ Finish(q)
            /\ done' = done /\ grants' = grants
            BY <1>6 DEF Reject
      <2>2. approval' \in [Approval -> ApprovalRow] /\ \A b \in Approval : Rewritten(q, b, s)
            BY <2>1, <1>1, ViewFacts DEF ControlInv, Rewritten
      <2>3. /\ run' \in [Run -> RunRow]
            /\ \A x \in Run : x # r => run'[x] = run[x]
            /\ run'[r].triggered_by = run[r].triggered_by
            /\ run'[r].dry_run = run[r].dry_run
            /\ run'[r].current_step = run[r].current_step
            /\ \/ run'[r].status = "REJECTED"
               \/ run'[r].status = run[r].status /\ request[q].status = "REJECTED"
            <3>1. run \in [Run -> RunRow] /\ run[r] \in RunRow
                  BY <1>1 DEF ControlInv, TypeOK
            <3> QED BY <2>1, <1>1, <3>1 DEF RunRow
      <2>4. done \in [Run -> [Step -> Nat]] /\
            grants \subseteq [run : Run, step : Destructive, approver : User \cup {Nobody}]
            BY DEF ControlInv, TypeOK
      <2>5. \A i \in Step : ~(s <= i /\ i < s)
            BY <1>1, <1>2 DEF Step
      <2>6. s <= s /\ "REJECTED" \in RunStatus \ {"none"}
            BY <1>1 DEF RunStatus
      <2>7. Effect(q, s, "REJECTED")
            BY <2>1, <2>2, <2>3, <2>4, <2>5, <2>6, <1>1 DEF Effect, Finish
      <2> QED BY <2>6, <2>7, <1>1
<1> QED BY <1>3, <1>4, <1>5, <1>6

-----------------------------------------------------------------------------
(* The effect of starting run r for user u, stopped at step e with status st. *)
StartEffect(r, u, e, st, dry) ==
    /\ run[r].status = "none"
    /\ st \in RunStatus \ {"none"}
    /\ run' = [run EXCEPT ![r] = [status |-> st, dry_run |-> dry,
                                  triggered_by |-> u, current_step |-> e]]
    /\ dry => e = 0 /\ st # "AWAITING_APPROVAL"
    /\ st = "COMPLETED" /\ ~dry => e = NumSteps
    /\ \/ st # "AWAITING_APPROVAL" /\ approval' = approval
       \/ /\ st = "AWAITING_APPROVAL"
          /\ \E b \in Approval :
                /\ approval[b].status = "none"
                /\ approval' = [approval EXCEPT ![b] = PendingApproval(r, e, u)]
    /\ done' \in [Run -> [Step -> Nat]]
    /\ \A x \in Run : x # r => done'[x] = done[x]
    /\ \A i \in Step : done'[r][i] = IF i < e THEN done[r][i] + 1 ELSE done[r][i]
    /\ UNCHANGED <<request, grants, overlapped>>

(* Starting a run, dry or real, writes one new run. *)
LEMMA StartHasEffect ==
    ASSUME TypeOK, NEW r \in Run, NEW u \in User,
           StartDryRun(r, u) \/ \E e \in 0..NumSteps : StartRun(r, u, e)
    PROVE  \E e \in 0..NumSteps, st \in RunStatus, dry \in BOOLEAN : StartEffect(r, u, e, st, dry)
<1>1. NumSteps \in Nat /\ Step = 0..(NumSteps - 1) /\ done \in [Run -> [Step -> Nat]]
      BY PlaybookConstants DEF Step, TypeOK
<1>2. CASE StartDryRun(r, u)
      <2>1. 0 \in 0..NumSteps /\ "COMPLETED" \in RunStatus /\ \A i \in Step : ~(i < 0)
            BY <1>1 DEF RunStatus
      <2>2. StartEffect(r, u, 0, "COMPLETED", TRUE)
            BY <1>1, <1>2, <2>1 DEF StartDryRun, StartedRun, StartEffect
      <2> QED BY <2>1, <2>2
<1>3. CASE \E e \in 0..NumSteps : StartRun(r, u, e)
      <2>1. PICK e \in 0..NumSteps : StartRun(r, u, e)
            BY <1>3
      <2>2. /\ done' \in [Run -> [Step -> Nat]]
            /\ \A x \in Run : x # r => done'[x] = done[x]
            /\ \A i \in Step : done'[r][i] = IF i < e THEN done[r][i] + 1 ELSE done[r][i]
            <3>1. done' = [done EXCEPT ![r] =
                            [i \in Step |-> IF 0 <= i /\ i < e THEN done[r][i] + 1 ELSE done[r][i]]]
                  BY <2>1, <1>1 DEF StartRun, Executed
            <3>2. [i \in Step |-> IF 0 <= i /\ i < e THEN done[r][i] + 1 ELSE done[r][i]]
                        \in [Step -> Nat]
                  BY <1>1
            <3>3. \A i \in Step : 0 <= i
                  BY <1>1
            <3> QED BY <1>1, <3>1, <3>2, <3>3
      <2>3. \/ StartEffect(r, u, e, "COMPLETED", FALSE)
            \/ StartEffect(r, u, e, "FAILED", FALSE)
            \/ StartEffect(r, u, e, "AWAITING_APPROVAL", FALSE)
            BY <2>1, <2>2 DEF StartRun, StartedRun, StartEffect, RunStatus
      <2>4. {"COMPLETED", "FAILED", "AWAITING_APPROVAL"} \subseteq RunStatus
            BY DEF RunStatus
      <2> QED BY <2>3, <2>4
<1> QED BY <1>2, <1>3

(* Starting a run: the rows and requests that exist are about other runs. *)
LEMMA StartKeepsControl ==
    ASSUME ControlInv, NEW r \in Run, NEW u \in User, NEW e \in 0..NumSteps,
           NEW st \in RunStatus, NEW dry \in BOOLEAN, StartEffect(r, u, e, st, dry)
    PROVE  ControlInv'
<1> DEFINE row == [status |-> st, dry_run |-> dry, triggered_by |-> u, current_step |-> e]
<1>1. /\ run[r].status = "none" /\ st # "none"
      /\ run' = [run EXCEPT ![r] = row]
      /\ dry => st # "AWAITING_APPROVAL"
      /\ UNCHANGED <<request, grants, overlapped>>
      /\ done' \in [Run -> [Step -> Nat]]
      BY DEF StartEffect
<1>2. row \in RunRow /\ row.status = st /\ row.triggered_by = u /\ row.dry_run = dry
      BY DEF RunRow, RunStatus
<1> HIDE DEF row
<1>3. /\ run \in [Run -> RunRow] /\ approval \in [Approval -> ApprovalRow]
      /\ PendingApproval(r, e, u) \in ApprovalRow
      /\ request \in [Request -> RequestState]
      /\ grants \subseteq [run : Run, step : Destructive, approver : User \cup {Nobody}]
      /\ overlapped \subseteq Run
      BY DEF ControlInv, TypeOK, PendingApproval, ApprovalRow
<1>4. /\ run' \in [Run -> RunRow] /\ run'[r] = row
      /\ \A x \in Run : x # r => run'[x] = run[x]
      BY <1>1, <1>2, <1>3
<1>5. approval' \in [Approval -> ApprovalRow]
      BY <1>3 DEF StartEffect
<1>6. \A b \in Approval :
        \/ approval'[b] = approval[b]
        \/ /\ approval[b].status = "none"
           /\ approval'[b] = PendingApproval(r, e, u)
           /\ ~dry
      BY <1>1, <1>3 DEF StartEffect
<1>7. \A b \in Approval : approval[b].status # "none" => approval[b].run \in Run \ {r}
      BY <1>1 DEF ControlInv, RowsLinked
<1>8. TypeOK'
      BY <1>1, <1>3, <1>4, <1>5 DEF TypeOK
<1>9. RowsLinked'
      BY <1>1, <1>2, <1>4, <1>6, <1>7 DEF ControlInv, RowsLinked, PendingApproval
<1>10. RequestsLinked'
      BY <1>1, <1>6 DEF ControlInv, RequestsLinked
<1>11. GrantsLinked' /\ DualControl'
      <2>1. \A x \in grants : x.run \in Run \ {r}
            BY <1>1, <1>3 DEF ControlInv, GrantsLinked
      <2> QED BY <2>1, <1>1, <1>4 DEF ControlInv, GrantsLinked, DualControl
<1> QED BY <1>8, <1>9, <1>10, <1>11 DEF ControlInv

(* Steps of a request that commit nothing. *)
LEMMA RequestStepsKeepControl ==
    ASSUME ControlInv, NEW q \in Request,
           \/ \E u \in User, a \in Approval, d \in {"APPROVED", "REJECTED"} : Decide(q, u, a, d)
           \/ WriteDecision(q) \/ LoadRun(q) \/ Abort(q)
    PROVE  ControlInv' /\ UNCHANGED <<run, approval, done, grants>>
<1>1. UNCHANGED <<run, approval, done, grants>>
      BY DEF Decide, WriteDecision, LoadRun, Abort
<1>2. TypeOK /\ RowsLinked /\ RequestsLinked /\ request[q] \in RequestState
      BY DEF ControlInv, TypeOK
<1>3. RowsLinked' /\ GrantsLinked' /\ DualControl'
      BY <1>1 DEF ControlInv, RowsLinked, GrantsLinked, DualControl
<1>4. CASE \E u \in User, a \in Approval, d \in {"APPROVED", "REJECTED"} : Decide(q, u, a, d)
      <2>1. PICK u \in User, a \in Approval, d \in {"APPROVED", "REJECTED"} : Decide(q, u, a, d)
            BY <1>4
      <2> DEFINE w == NewRequest(u, a, d)
      <2>2. /\ approval[a].status # "none" /\ approval[a].run \in Run
            /\ u # approval[a].requested_by
            /\ request' = [request EXCEPT ![q] = w]
            /\ overlapped' \subseteq overlapped \cup {approval[a].run}
            BY <2>1, <1>2 DEF Decide, RowsLinked
      <2>3. /\ w \in RequestState /\ w.approval = a /\ w.user = u /\ w.run = approval[a].run
            BY <2>2, PlaybookConstants DEF NewRequest, RequestState
      <2> HIDE DEF w
      <2>4. TypeOK'
            BY <1>1, <1>2, <2>2, <2>3 DEF TypeOK
      <2>5. RequestsLinked'
            BY <1>1, <1>2, <2>2, <2>3 DEF TypeOK, RequestsLinked
      <2> QED BY <1>1, <1>3, <2>4, <2>5 DEF ControlInv
<1>5. CASE WriteDecision(q)
      <2>1. request' = [request EXCEPT ![q].phase = "decided"] /\ overlapped' = overlapped
            /\ request[q].phase # "idle"
            BY <1>5 DEF WriteDecision
      <2>2. TypeOK'
            BY <1>1, <1>2, <2>1 DEF TypeOK, RequestState
      <2>3. RequestsLinked'
            BY <1>1, <1>2, <2>1 DEF TypeOK, RequestState, RequestsLinked
      <2> QED BY <1>1, <1>3, <2>2, <2>3 DEF ControlInv
<1>6. CASE LoadRun(q)
      <2> DEFINE w == [request[q] EXCEPT !.phase = "loaded",
                                         !.status = run[request[q].run].status,
                                         !.step = run[request[q].run].current_step]
      <2>1. request' = [request EXCEPT ![q] = w] /\ overlapped' = overlapped
            /\ request[q].phase # "idle"
            BY <1>2, <1>6 DEF LoadRun, RequestState, TypeOK
      <2>2. run[request[q].run] \in RunRow
            BY <1>2, <2>1 DEF TypeOK, RequestsLinked, RowsLinked
      <2>3. /\ w \in RequestState /\ w.approval = request[q].approval
            /\ w.user = request[q].user /\ w.run = request[q].run
            BY <1>2, <2>2 DEF RequestState, RunRow
      <2> HIDE DEF w
      <2>4. TypeOK'
            BY <1>1, <1>2, <2>1, <2>3 DEF TypeOK
      <2>5. RequestsLinked'
            BY <1>1, <1>2, <2>1, <2>3 DEF TypeOK, RequestsLinked
      <2> QED BY <1>1, <1>3, <2>4, <2>5 DEF ControlInv
<1>7. CASE Abort(q)
      <2>1. request' = [request EXCEPT ![q] = Idle] /\ overlapped' = overlapped
            BY <1>7 DEF Abort, Finish
      <2>2. Idle \in RequestState /\ Idle.phase = "idle"
            BY PlaybookConstants DEF Idle, RequestState
      <2>3. TypeOK'
            BY <1>1, <1>2, <2>1, <2>2 DEF TypeOK
      <2>4. RequestsLinked'
            BY <1>1, <1>2, <2>1, <2>2 DEF TypeOK, RequestsLinked
      <2> QED BY <1>1, <1>3, <2>3, <2>4 DEF ControlInv
<1> QED BY <1>4, <1>5, <1>6, <1>7

(* The commit of a request keeps the control invariant. *)
LEMMA CommitKeepsControl ==
    ASSUME ControlInv, NEW q \in Request, NEW e \in 0..NumSteps,
           NEW st \in RunStatus \ {"none"}, Effect(q, e, st)
    PROVE  ControlInv'
<1> DEFINE r == request[q].run
<1>1. r \in Run /\ request[q].approval \in Approval /\ run[r].status # "none" /\ ~run[r].dry_run
      /\ request[q].user \in User
      /\ request[q].user # approval[request[q].approval].requested_by
      BY DEF Effect, ControlInv, RequestsLinked, RowsLinked
<1>2. /\ \A x \in Run : x # r => run'[x] = run[x]
      /\ run'[r].triggered_by = run[r].triggered_by
      /\ run'[r].dry_run = run[r].dry_run
      /\ run'[r].status # "none"
      BY <1>1 DEF Effect
<1>3. /\ request' = [request EXCEPT ![q] = Idle]
      /\ \A b \in Approval : Rewritten(q, b, e)
      BY DEF Effect
<1>4. Idle \in RequestState /\ Idle.phase = "idle"
      BY PlaybookConstants DEF Idle, RequestState
<1>5. TypeOK'
      <2>1. request' \in [Request -> RequestState]
            BY <1>3, <1>4 DEF ControlInv, TypeOK
      <2> QED BY <2>1 DEF Effect, ControlInv, TypeOK
<1>6. RowsLinked'
      <2> SUFFICES ASSUME NEW b \in Approval, approval'[b].status # "none"
                   PROVE  /\ approval'[b].run \in Run
                          /\ run'[approval'[b].run].status # "none"
                          /\ ~run'[approval'[b].run].dry_run
                          /\ approval'[b].requested_by = run'[approval'[b].run].triggered_by
                          /\ approval'[b].status # "PENDING_APPROVAL" =>
                                /\ approval'[b].decided_by \in User
                                /\ approval'[b].decided_by # approval'[b].requested_by
          BY DEF RowsLinked
      <2>1. CASE approval[b].status = "none"
            <3>1. approval'[b] = PendingApproval(r, e, run[r].triggered_by)
                  BY <1>3, <2>1 DEF Rewritten
            <3> QED BY <3>1, <1>1, <1>2 DEF PendingApproval
      <2>2. CASE approval[b].status # "none"
            <3>1. /\ approval[b].run \in Run /\ run[approval[b].run].status # "none"
                  /\ ~run[approval[b].run].dry_run
                  /\ approval[b].requested_by = run[approval[b].run].triggered_by
                  /\ approval[b].status # "PENDING_APPROVAL" =>
                        /\ approval[b].decided_by \in User
                        /\ approval[b].decided_by # approval[b].requested_by
                  BY <2>2 DEF ControlInv, RowsLinked
            <3>2. /\ approval'[b].run = approval[b].run
                  /\ approval'[b].requested_by = approval[b].requested_by
                  /\ approval'[b].status # "PENDING_APPROVAL" =>
                        /\ approval'[b].decided_by \in User
                        /\ approval'[b].decided_by # approval[b].requested_by
                  BY <2>2, <3>1, <1>1, <1>3 DEF Rewritten
            <3> QED BY <3>1, <3>2, <1>2
      <2> QED BY <2>1, <2>2
<1>7. RequestsLinked'
      <2> SUFFICES ASSUME NEW p \in Request, request'[p].phase # "idle"
                   PROVE  /\ request'[p].approval \in Approval
                          /\ approval'[request'[p].approval].status # "none"
                          /\ approval'[request'[p].approval].run = request'[p].run
                          /\ request'[p].user \in User
                          /\ request'[p].user # approval'[request'[p].approval].requested_by
          BY DEF RequestsLinked
      <2>1. request'[p] = request[p]
            BY <1>3, <1>4 DEF ControlInv, TypeOK
      <2>2. /\ request[p].approval \in Approval
            /\ approval[request[p].approval].status # "none"
            /\ approval[request[p].approval].run = request[p].run
            /\ request[p].user \in User
            /\ request[p].user # approval[request[p].approval].requested_by
            BY <2>1 DEF ControlInv, RequestsLinked
      <2> QED BY <2>1, <2>2, <1>3 DEF Rewritten
<1>8. GrantsLinked' /\ DualControl'
      <2>1. \A x \in grants' : x \in grants \/ /\ x.run = r
                                               /\ x.approver \in User
                                               /\ x.approver # run[r].triggered_by
            BY DEF Effect
      <2>2. \A x \in grants : x.run \in Run
            BY DEF ControlInv, TypeOK
      <2> QED BY <2>1, <2>2, <1>1, <1>2 DEF ControlInv, GrantsLinked, DualControl
<1> QED BY <1>5, <1>6, <1>7, <1>8 DEF ControlInv

-----------------------------------------------------------------------------
(* What a step of request q that commits nothing does to the requests. *)
RequestEffect(q) ==
    /\ UNCHANGED <<run, approval, done, grants>>
    /\ overlapped \subseteq overlapped'
    /\ \A p \in Request : p # q => request'[p] = request[p]
    /\ request'[q].phase = "loaded" =>
            /\ request'[q].status = run[request'[q].run].status
            /\ request'[q].step = run[request'[q].run].current_step
    /\ \/ request'[q].phase = "idle"
       \/ /\ request[q].phase # "idle"
          /\ request'[q].run = request[q].run
          /\ request'[q].approval = request[q].approval
       \/ /\ approval[request'[q].approval].status = "PENDING_APPROVAL"
          /\ request'[q].run \in overlapped' \/ InFlight(request'[q].run) = {}

(* The steps of a request on its own row have this effect. *)
LEMMA RequestHasEffect ==
    ASSUME TypeOK, NEW q \in Request,
           \/ \E u \in User, a \in Approval, d \in {"APPROVED", "REJECTED"} : Decide(q, u, a, d)
           \/ WriteDecision(q) \/ LoadRun(q) \/ Abort(q)
    PROVE  RequestEffect(q)
<1>1. request \in [Request -> RequestState] /\ request[q] \in RequestState
      BY DEF TypeOK
<1>2. CASE \E u \in User, a \in Approval, d \in {"APPROVED", "REJECTED"} : Decide(q, u, a, d)
      <2>1. PICK u \in User, a \in Approval, d \in {"APPROVED", "REJECTED"} : Decide(q, u, a, d)
            BY <1>2
      <2>2. /\ request'[q] = NewRequest(u, a, d)
            /\ \A p \in Request : p # q => request'[p] = request[p]
            BY <1>1, <2>1 DEF Decide
      <2>3. /\ NewRequest(u, a, d).phase = "read"
            /\ NewRequest(u, a, d).approval = a
            /\ NewRequest(u, a, d).run = approval[a].run
            BY DEF NewRequest
      <2> QED BY <2>1, <2>2, <2>3 DEF Decide, RequestEffect
<1>3. CASE WriteDecision(q)
      BY <1>1, <1>3 DEF WriteDecision, RequestEffect, RequestState
<1>4. CASE LoadRun(q)
      <2> DEFINE w == [request[q] EXCEPT !.phase = "loaded",
                                         !.status = run[request[q].run].status,
                                         !.step = run[request[q].run].current_step]
      <2>1. request' = [request EXCEPT ![q] = w]
            BY <1>1, <1>4 DEF LoadRun, RequestState
      <2>2. /\ w.phase = "loaded" /\ w.run = request[q].run /\ w.approval = request[q].approval
            /\ w.status = run[request[q].run].status
            /\ w.step = run[request[q].run].current_step
            BY <1>1 DEF RequestState
      <2> HIDE DEF w
      <2>3. request'[q] = w /\ \A p \in Request : p # q => request'[p] = request[p]
            BY <1>1, <2>1
      <2> QED BY <1>4, <2>2, <2>3 DEF LoadRun, RequestEffect
<1>5. CASE Abort(q)
      BY <1>1, <1>5 DEF Abort, Finish, Idle, RequestEffect
<1> QED BY <1>2, <1>3, <1>4, <1>5

(* Every step is one of: a run is started, a request moves on, a request   *)
(* commits, nothing.                                                       *)
LEMMA StepCases ==
    ASSUME ControlInv, [Next]_vars
    PROVE  \/ \E r \in Run, u \in User, e \in 0..NumSteps, st \in RunStatus, dry \in BOOLEAN :
                    StartEffect(r, u, e, st, dry)
           \/ \E q \in Request : ControlInv' /\ RequestEffect(q)
           \/ \E q \in Request, e \in 0..NumSteps, st \in RunStatus \ {"none"} : Effect(q, e, st)
           \/ UNCHANGED vars
<1>1. TypeOK
      BY DEF ControlInv
<1>2. CASE UNCHANGED vars
      BY <1>2
<1>3. ASSUME NEW r \in Run, NEW u \in User,
             StartDryRun(r, u) \/ \E e \in 0..NumSteps : StartRun(r, u, e)
      PROVE  \E e \in 0..NumSteps, st \in RunStatus, dry \in BOOLEAN : StartEffect(r, u, e, st, dry)
      BY <1>1, <1>3, StartHasEffect
<1>4. ASSUME NEW q \in Request,
             \/ \E u \in User, a \in Approval, d \in {"APPROVED", "REJECTED"} : Decide(q, u, a, d)
             \/ WriteDecision(q) \/ LoadRun(q) \/ Abort(q)
      PROVE  ControlInv' /\ RequestEffect(q)
      BY <1>1, <1>4, RequestHasEffect, RequestStepsKeepControl
<1>5. ASSUME NEW q \in Request,
             Complete(q) \/ Reject(q) \/ \E e \in Step : Fail(q, e) \/ Halt(q, e)
      PROVE  \E e \in 0..NumSteps, st \in RunStatus \ {"none"} : Effect(q, e, st)
      BY <1>5, CommitEffect
<1>6. CASE Next
      <2>1. \/ \E r \in Run, u \in User :
                    StartDryRun(r, u) \/ \E e \in 0..NumSteps : StartRun(r, u, e)
            \/ \E q \in Request :
                    \/ \E u \in User, a \in Approval, d \in {"APPROVED", "REJECTED"} :
                            Decide(q, u, a, d)
                    \/ WriteDecision(q) \/ LoadRun(q) \/ Abort(q)
            \/ \E q \in Request :
                    Complete(q) \/ Reject(q) \/ \E e \in Step : Fail(q, e) \/ Halt(q, e)
            BY <1>6, Zenon DEF Next
      <2> QED BY <2>1, <1>3, <1>4, <1>5
<1> QED BY <1>2, <1>6

(* The control invariant is inductive. *)
LEMMA ControlInductive ==
    ASSUME ControlInv, [Next]_vars
    PROVE  ControlInv'
<1>1. CASE UNCHANGED vars
      BY <1>1 DEF vars, ControlInv, TypeOK, RowsLinked, RequestsLinked, GrantsLinked, DualControl
<1> QED BY <1>1, StepCases, StartKeepsControl, CommitKeepsControl

(* It holds before any run was started. *)
LEMMA ControlInitially == Init => ControlInv
<1> SUFFICES ASSUME Init PROVE ControlInv
    OBVIOUS
<1>1. NoRun \in RunRow /\ NoApproval \in ApprovalRow /\ Idle \in RequestState
      BY PlaybookConstants DEF NoRun, NoApproval, Idle, RunRow, ApprovalRow, RequestState
<1>2. NoApproval.status = "none" /\ Idle.phase = "idle"
      BY DEF NoApproval, Idle
<1>3. TypeOK
      BY <1>1 DEF Init, TypeOK
<1> QED BY <1>2, <1>3 DEF Init, ControlInv, RowsLinked, RequestsLinked, GrantsLinked, DualControl

(* Every reachable state is well typed, whatever requests race or abort. *)
THEOREM TypeCorrect == Spec => []TypeOK
<1>1. ControlInv => TypeOK
      BY DEF ControlInv
<1> QED BY <1>1, ControlInitially, ControlInductive, PTL DEF Spec

(* Dual control holds for every playbook and any number of overlapping     *)
(* decisions: approve_action's check, the requester the engine records and *)
(* require_approved's query together keep the triggering user from         *)
(* approving a destructive step of the run.                                *)
THEOREM DualControlHolds == Spec => []DualControl
<1>1. ControlInv => DualControl
      BY DEF ControlInv
<1> QED BY <1>1, ControlInitially, ControlInductive, PTL DEF Spec

-----------------------------------------------------------------------------
(* Steps below the one a request has loaded were executed. *)
LoadedBehind ==
    \A q \in Request : request[q].phase = "loaded" =>
        \A i \in Step : i < request[q].step => done[request[q].run][i] > 0

OrderInv == StepsInOrder /\ LoadedBehind

(* That steps are executed in their order is inductive. *)
LEMMA OrderInductive ==
    ASSUME ControlInv, OrderInv, [Next]_vars
    PROVE  OrderInv'
<1>1. ControlInv' /\ TypeOK /\ TypeOK' /\ NumSteps \in Nat /\ Step = 0..(NumSteps - 1)
      BY ControlInductive, PlaybookConstants DEF ControlInv, Step
<1>2. CASE UNCHANGED vars
      BY <1>2 DEF vars, OrderInv, StepsInOrder, LoadedBehind
<1>3. ASSUME NEW r \in Run, NEW u \in User, NEW e \in 0..NumSteps, NEW st \in RunStatus,
             NEW dry \in BOOLEAN, StartEffect(r, u, e, st, dry)
      PROVE  OrderInv'
      <2> DEFINE row == [status |-> st, dry_run |-> dry, triggered_by |-> u, current_step |-> e]
      <2>1. /\ run'[r] = row /\ \A x \in Run : x # r => run'[x] = run[x]
            /\ row.status = st /\ row.dry_run = dry /\ row.current_step = e
            BY <1>1, <1>3 DEF StartEffect, TypeOK
      <2> HIDE DEF row
      <2>2. \A x \in Run, i \in Step :
                /\ done[x][i] \in Nat
                /\ done'[x][i] = IF x = r /\ i < e THEN done[x][i] + 1 ELSE done[x][i]
            BY <1>1, <1>3 DEF StartEffect, TypeOK
      <2>3. st = "COMPLETED" /\ ~dry => e = NumSteps
            BY <1>3 DEF StartEffect
      <2>4. StepsInOrder'
            BY <1>1, <2>1, <2>2, <2>3, SMTT(30) DEF OrderInv, StepsInOrder
      <2>5. LoadedBehind'
            <3>1. request' = request
                  BY <1>3 DEF StartEffect
            <3>2. \A q \in Request : request[q].phase = "loaded" => request[q].run \in Run
                  BY DEF ControlInv, RequestsLinked, RowsLinked
            <3> QED BY <2>2, <3>1, <3>2 DEF OrderInv, LoadedBehind
      <2> QED BY <2>4, <2>5 DEF OrderInv
<1>4. ASSUME NEW q \in Request, RequestEffect(q)
      PROVE  OrderInv'
      <2>1. StepsInOrder'
            BY <1>4 DEF RequestEffect, OrderInv, StepsInOrder
      <2>2. \A p \in Request : request'[p].phase = "loaded" => request'[p].run \in Run
            BY <1>1 DEF ControlInv, RequestsLinked, RowsLinked
      <2>3. LoadedBehind'
            BY <1>4, <2>2 DEF RequestEffect, OrderInv, StepsInOrder, LoadedBehind
      <2> QED BY <2>1, <2>3 DEF OrderInv
<1>5. ASSUME NEW q \in Request, NEW e \in 0..NumSteps, NEW st \in RunStatus \ {"none"},
             Effect(q, e, st)
      PROVE  OrderInv'
      <2> DEFINE r == request[q].run
                 s == request[q].step
      <2>0. /\ request[q].phase = "loaded"
            /\ s <= e
            /\ st = "COMPLETED" => e = NumSteps
            /\ \A x \in Run : x # r => run'[x] = run[x]
            /\ run'[r].dry_run = run[r].dry_run
            /\ run'[r].current_step = IF e # s THEN e ELSE run[r].current_step
            /\ run'[r].status = st \/ run'[r].status = run[r].status
            /\ \A x \in Run : x # r => done'[x] = done[x]
            /\ \A i \in Step : done'[r][i] = IF s <= i /\ i < e THEN done[r][i] + 1
                                            ELSE done[r][i]
            BY <1>5 DEF Effect
      <2>1. r \in Run /\ s \in 0..NumSteps
            <3>1. r \in Run
                  BY <2>0 DEF ControlInv, RequestsLinked, RowsLinked
            <3>2. request[q] \in RequestState
                  BY <1>1 DEF TypeOK
            <3> QED BY <3>1, <3>2 DEF RequestState
      <2>2. \A x \in Run, i \in Step :
                /\ done[x][i] \in Nat
                /\ done'[x][i] = IF x = r /\ s <= i /\ i < e THEN done[x][i] + 1 ELSE done[x][i]
            <3>1. done \in [Run -> [Step -> Nat]]
                  BY <1>1 DEF TypeOK
            <3> QED BY <2>0, <3>1
      <2>3. \A i \in Step : i < s => done[r][i] > 0
            BY <2>0, <2>1 DEF OrderInv, LoadedBehind
      <2>4. \A i \in Step : i < e => done'[r][i] > 0
            <3> SUFFICES ASSUME NEW i \in Step, i < e PROVE done'[r][i] > 0
                OBVIOUS
            <3>1. /\ done[r][i] \in Nat /\ i \in Int /\ s \in Int
                  /\ done'[r][i] = IF s <= i /\ i < e THEN done[r][i] + 1 ELSE done[r][i]
                  BY <1>1, <2>1, <2>2
            <3>2. i < s => done[r][i] > 0
                  BY <2>3
            <3> HIDE DEF r, s
            <3> QED BY <3>1, <3>2
      <2>5. \A x \in Run, i \in Step : done[x][i] > 0 => done'[x][i] > 0
            BY <2>2
      <2>6. \A i \in Step : done'[r][i] > 0 => done[r][i] > 0 \/ i < e
            BY <2>1, <2>2
      <2>7. StepsInOrder'
            <3> SUFFICES ASSUME NEW x \in Run
                PROVE  /\ \A i \in Step : i < run'[x].current_step => done'[x][i] > 0
                       /\ \A i, j \in Step : i < j /\ done'[x][j] > 0 => done'[x][i] > 0
                       /\ run'[x].status = "COMPLETED" /\ ~run'[x].dry_run
                                => \A i \in Step : done'[x][i] > 0
                BY DEF StepsInOrder
            <3>1. /\ \A i \in Step : i < run[x].current_step => done[x][i] > 0
                  /\ \A i, j \in Step : i < j /\ done[x][j] > 0 => done[x][i] > 0
                  /\ run[x].status = "COMPLETED" /\ ~run[x].dry_run
                                => \A i \in Step : done[x][i] > 0
                  BY DEF OrderInv, StepsInOrder
            <3>2. CASE x # r
                  BY <2>0, <2>1, <2>2, <3>1, <3>2
            <3>3. CASE x = r
                  <4>1. \A i \in Step : i < run'[r].current_step => done'[r][i] > 0
                        BY <2>0, <2>1, <2>4, <2>5, <3>1, <3>3
                  <4>2. \A i, j \in Step : i < j /\ done'[r][j] > 0 => done'[r][i] > 0
                        BY <1>1, <2>4, <2>5, <2>6, <3>1, <3>3
                  <4>3. run'[r].status = "COMPLETED" /\ ~run'[r].dry_run
                                => \A i \in Step : done'[r][i] > 0
                        BY <1>1, <2>0, <2>1, <2>4, <2>5, <3>1, <3>3
                  <4> QED BY <3>3, <4>1, <4>2, <4>3
            <3> QED BY <3>2, <3>3
      <2>8. LoadedBehind'
            <3>1. \A p \in Request : request'[p].phase = "loaded" =>
                        request'[p] = request[p] /\ request[p].run \in Run
                  BY <1>1, <1>5 DEF Effect, TypeOK, Idle, ControlInv, RequestsLinked, RowsLinked
            <3> QED BY <2>5, <3>1 DEF OrderInv, LoadedBehind
      <2> QED BY <2>7, <2>8 DEF OrderInv
<1> QED BY <1>2, <1>3, <1>4, <1>5, StepCases

(* No stale resume ever skips a step, for every playbook and any number of *)
(* overlapping decisions.                                                  *)
THEOREM StepsInOrderHolds == Spec => []StepsInOrder
<1>1. Init => OrderInv
      <2> SUFFICES ASSUME Init PROVE OrderInv
          OBVIOUS
      <2>1. NoRun.status = "none" /\ NoRun.current_step = 0 /\ Idle.phase = "idle"
            BY DEF NoRun, Idle
      <2>2. \A i \in Step : ~(i < 0)
            BY PlaybookConstants DEF Step
      <2> QED BY <2>1, <2>2 DEF Init, OrderInv, StepsInOrder, LoadedBehind
<1>2. OrderInv => StepsInOrder
      BY DEF OrderInv
<1> QED BY <1>1, <1>2, ControlInitially, ControlInductive, OrderInductive, PTL DEF Spec

-----------------------------------------------------------------------------
(* A waiting run has a pending approval that every request about to commit *)
(* a decision on has loaded the run as waiting for: such a commit writes   *)
(* another status or leaves a new pending approval.                        *)
WaitInv ==
    \A r \in Run : run[r].status = "AWAITING_APPROVAL" =>
        \E a \in Approval :
            /\ approval[a].run = r
            /\ approval[a].status = "PENDING_APPROVAL"
            /\ \A q \in Request : request[q].phase = "loaded" /\ request[q].approval = a
                    => request[q].status = "AWAITING_APPROVAL"

(* That a step that needs an approval waits for it is inductive. *)
LEMMA WaitInductive ==
    ASSUME ControlInv, WaitInv, [Next]_vars
    PROVE  WaitInv'
<1>1. ControlInv' /\ TypeOK
      BY ControlInductive DEF ControlInv
<1>2. CASE UNCHANGED vars
      BY <1>2 DEF vars, WaitInv
<1>3. \A q \in Request : request[q].phase = "loaded" =>
            /\ request[q].approval \in Approval
            /\ approval[request[q].approval].status # "none"
            /\ approval[request[q].approval].run = request[q].run
            /\ request[q].run \in Run
      BY DEF ControlInv, RequestsLinked, RowsLinked
<1>4. ASSUME NEW r \in Run, NEW u \in User, NEW e \in 0..NumSteps, NEW st \in RunStatus,
             NEW dry \in BOOLEAN, StartEffect(r, u, e, st, dry)
      PROVE  WaitInv'
      <2> DEFINE row == [status |-> st, dry_run |-> dry, triggered_by |-> u, current_step |-> e]
                 new == PendingApproval(r, e, u)
      <2>1. /\ run'[r] = row /\ \A x \in Run : x # r => run'[x] = run[x]
            /\ row.status = st
            /\ request' = request
            BY <1>1, <1>4 DEF StartEffect, TypeOK
      <2>2. new.status = "PENDING_APPROVAL" /\ new.run = r
            BY DEF PendingApproval
      <2> HIDE DEF row, new
      <2>3. \A b \in Approval : approval[b].status # "none" => approval'[b] = approval[b]
            BY <1>1, <1>4 DEF StartEffect, TypeOK
      <2>4. st = "AWAITING_APPROVAL" => \E b \in Approval : /\ approval[b].status = "none"
                                                           /\ approval'[b] = new
            BY <1>1, <1>4 DEF StartEffect, TypeOK, new
      <2> SUFFICES ASSUME NEW x \in Run, run'[x].status = "AWAITING_APPROVAL"
          PROVE  \E a \in Approval :
                    /\ approval'[a].run = x
                    /\ approval'[a].status = "PENDING_APPROVAL"
                    /\ \A q \in Request : request'[q].phase = "loaded" /\ request'[q].approval = a
                            => request'[q].status = "AWAITING_APPROVAL"
          BY DEF WaitInv
      <2>5. CASE x # r
            BY <2>1, <2>3, <2>5 DEF WaitInv
      <2>6. CASE x = r
            BY <2>1, <2>2, <2>4, <2>6, <1>3
      <2> QED BY <2>5, <2>6
<1>5. ASSUME NEW q \in Request, RequestEffect(q)
      PROVE  WaitInv'
      <2>1. /\ run' = run /\ approval' = approval
            /\ \A p \in Request : p # q => request'[p] = request[p]
            /\ request'[q].phase = "loaded" =>
                    request'[q].status = run[request'[q].run].status
            BY <1>5 DEF RequestEffect
      <2>2. request'[q].phase = "loaded" => approval[request'[q].approval].run = request'[q].run
            BY <1>1, <2>1 DEF ControlInv, RequestsLinked
      <2> QED BY <2>1, <2>2 DEF WaitInv
<1>6. ASSUME NEW q \in Request, NEW e \in 0..NumSteps, NEW st \in RunStatus \ {"none"},
             Effect(q, e, st)
      PROVE  WaitInv'
      <2> DEFINE r == request[q].run
                 new == PendingApproval(r, e, run[r].triggered_by)
      <2>1. /\ request[q].phase = "loaded"
            /\ \A x \in Run : x # r => run'[x] = run[x]
            /\ \/ run'[r].status = st
               \/ run'[r].status = run[r].status /\ st = request[q].status
            /\ st = "AWAITING_APPROVAL" => \E b \in Approval : /\ approval[b].status = "none"
                                                             /\ approval'[b] = new
            /\ \A b \in Approval : Rewritten(q, b, e)
            BY <1>6 DEF Effect
      <2>2. \A p \in Request : request'[p].phase = "loaded" => request'[p] = request[p]
            BY <1>1, <1>6 DEF Effect, TypeOK, Idle
      <2>3. new.status = "PENDING_APPROVAL" /\ new.run = r
            BY DEF PendingApproval
      <2>4. \A b \in Approval : /\ b # request[q].approval
                                /\ approval[b].status = "PENDING_APPROVAL"
                => approval'[b].status = "PENDING_APPROVAL" /\ approval'[b].run = approval[b].run
            BY <2>1 DEF Rewritten
      <2> HIDE DEF new
      <2> SUFFICES ASSUME NEW x \in Run, run'[x].status = "AWAITING_APPROVAL"
          PROVE  \E a \in Approval :
                    /\ approval'[a].run = x
                    /\ approval'[a].status = "PENDING_APPROVAL"
                    /\ \A p \in Request : request'[p].phase = "loaded" /\ request'[p].approval = a
                            => request'[p].status = "AWAITING_APPROVAL"
          BY DEF WaitInv
      <2>5. CASE x # r
            <3>1. PICK a \in Approval :
                    /\ approval[a].run = x
                    /\ approval[a].status = "PENDING_APPROVAL"
                    /\ \A p \in Request : request[p].phase = "loaded" /\ request[p].approval = a
                            => request[p].status = "AWAITING_APPROVAL"
                  BY <2>1, <2>5 DEF WaitInv
            <3>2. a # request[q].approval
                  BY <1>3, <2>1, <2>5, <3>1
            <3> QED BY <2>2, <2>4, <3>1, <3>2
      <2>6. CASE x = r /\ st = "AWAITING_APPROVAL"
            <3>1. PICK b \in Approval : approval[b].status = "none" /\ approval'[b] = new
                  BY <2>1, <2>6
            <3>2. \A p \in Request : request'[p].phase = "loaded" => request'[p].approval # b
                  BY <1>3, <2>2, <3>1
            <3> QED BY <2>3, <2>6, <3>1, <3>2
      <2>7. CASE x = r /\ st # "AWAITING_APPROVAL"
            <3>1. run[r].status = "AWAITING_APPROVAL" /\ st = request[q].status
                  BY <2>1, <2>7
            <3>2. PICK a \in Approval :
                    /\ approval[a].run = x
                    /\ approval[a].status = "PENDING_APPROVAL"
                    /\ \A p \in Request : request[p].phase = "loaded" /\ request[p].approval = a
                            => request[p].status = "AWAITING_APPROVAL"
                  BY <2>7, <3>1 DEF WaitInv
            <3>3. a # request[q].approval
                  BY <2>1, <2>7, <3>1, <3>2
            <3> QED BY <2>2, <2>4, <3>2, <3>3
      <2> QED BY <2>5, <2>6, <2>7
<1> QED BY <1>2, <1>4, <1>5, <1>6, StepCases

(* No race of approvals, rejections and rollbacks strands a run: one that  *)
(* says AWAITING_APPROVAL has an approval left to decide.                  *)
THEOREM NoStrandedRunHolds == Spec => []NoStrandedRun
<1>1. Init => WaitInv
      BY DEF Init, WaitInv, NoRun
<1>2. WaitInv => NoStrandedRun
      BY DEF WaitInv, NoStrandedRun
<1> QED BY <1>1, <1>2, ControlInitially, ControlInductive, WaitInductive, PTL DEF Spec

-----------------------------------------------------------------------------
(* Of a run whose decisions never overlapped, exactly the steps below the  *)
(* current one were executed, once, and the one request in flight has an   *)
(* up-to-date view of the run and of its approval.                         *)
ExactlyBelow ==
    \A r \in Run \ overlapped, i \in Step :
        done[r][i] = IF i < run[r].current_step THEN 1 ELSE 0

UnstartedUntouched ==
    \A r \in Run : run[r].status = "none" => \A i \in Step : done[r][i] = 0

OneInFlight ==
    \A p, q \in Request : /\ p # q
                          /\ request[p].phase # "idle" /\ request[q].phase # "idle"
                          /\ request[p].run = request[q].run
        => request[p].run \in overlapped

FreshView ==
    \A q \in Request : request[q].phase # "idle" /\ request[q].run \notin overlapped =>
        /\ approval[request[q].approval].status = "PENDING_APPROVAL"
        /\ request[q].phase = "loaded" => request[q].step = run[request[q].run].current_step

AloneInv == ExactlyBelow /\ UnstartedUntouched /\ OneInFlight /\ FreshView

(* That unraced runs execute no step twice is inductive. *)
LEMMA AloneInductive ==
    ASSUME ControlInv, AloneInv, [Next]_vars
    PROVE  AloneInv'
<1>1. ControlInv' /\ TypeOK /\ NumSteps \in Nat /\ Step = 0..(NumSteps - 1)
      BY ControlInductive, PlaybookConstants DEF ControlInv, Step
<1>2. CASE UNCHANGED vars
      BY <1>2 DEF vars, AloneInv, ExactlyBelow, UnstartedUntouched, OneInFlight, FreshView
<1>3. \A q \in Request : request[q].phase # "idle" =>
            /\ request[q].approval \in Approval
            /\ approval[request[q].approval].status # "none"
            /\ approval[request[q].approval].run = request[q].run
            /\ request[q].run \in Run
            /\ run[request[q].run].status # "none"
      BY DEF ControlInv, RequestsLinked, RowsLinked
<1>4. ASSUME NEW r \in Run, NEW u \in User, NEW e \in 0..NumSteps, NEW st \in RunStatus,
             NEW dry \in BOOLEAN, StartEffect(r, u, e, st, dry)
      PROVE  AloneInv'
      <2> DEFINE row == [status |-> st, dry_run |-> dry, triggered_by |-> u, current_step |-> e]
      <2>1. /\ run'[r] = row /\ \A x \in Run : x # r => run'[x] = run[x]
            /\ row.status = st /\ row.current_step = e /\ st # "none" /\ run[r].status = "none"
            /\ request' = request /\ overlapped' = overlapped
            BY <1>1, <1>4 DEF StartEffect, TypeOK
      <2> HIDE DEF row
      <2>2. /\ \A x \in Run : x # r => done'[x] = done[x]
            /\ \A i \in Step : done'[r][i] = IF i < e THEN done[r][i] + 1 ELSE done[r][i]
            BY <1>4 DEF StartEffect
      <2>3. \A b \in Approval : approval[b].status # "none" => approval'[b] = approval[b]
            BY <1>1, <1>4 DEF StartEffect, TypeOK
      <2>4. \A i \in Step : done'[r][i] = IF i < e THEN 1 ELSE 0
            BY <2>1, <2>2 DEF AloneInv, UnstartedUntouched
      <2>5. ExactlyBelow'
            BY <2>1, <2>2, <2>4 DEF AloneInv, ExactlyBelow
      <2>6. UnstartedUntouched'
            BY <2>1, <2>2 DEF AloneInv, UnstartedUntouched
      <2>7. OneInFlight'
            BY <2>1 DEF AloneInv, OneInFlight
      <2>8. FreshView'
            BY <1>3, <2>1, <2>3 DEF AloneInv, FreshView
      <2> QED BY <2>5, <2>6, <2>7, <2>8 DEF AloneInv
<1>5. ASSUME NEW q \in Request, RequestEffect(q)
      PROVE  AloneInv'
      <2>1. /\ run' = run /\ approval' = approval /\ done' = done
            /\ overlapped \subseteq overlapped'
            /\ \A p \in Request : p # q => request'[p] = request[p]
            BY <1>5 DEF RequestEffect
      <2>2. ExactlyBelow' /\ UnstartedUntouched'
            BY <2>1 DEF AloneInv, ExactlyBelow, UnstartedUntouched
      <2>3. \A p \in Request : /\ p # q /\ request[p].phase # "idle" /\ request'[q].phase # "idle"
                               /\ request[p].run = request'[q].run
                => request[p].run \in overlapped'
            BY <1>5, <2>1 DEF RequestEffect, AloneInv, OneInFlight, InFlight
      <2>4. OneInFlight'
            BY <2>1, <2>3 DEF AloneInv, OneInFlight
      <2>5. request'[q].phase # "idle" /\ request'[q].run \notin overlapped' =>
                /\ approval[request'[q].approval].status = "PENDING_APPROVAL"
                /\ request'[q].phase = "loaded" =>
                        request'[q].step = run[request'[q].run].current_step
            BY <1>5, <2>1 DEF RequestEffect, AloneInv, FreshView
      <2>6. FreshView'
            BY <2>1, <2>5 DEF AloneInv, FreshView
      <2> QED BY <2>2, <2>4, <2>6 DEF AloneInv
<1>6. ASSUME NEW q \in Request, NEW e \in 0..NumSteps, NEW st \in RunStatus \ {"none"},
             Effect(q, e, st)
      PROVE  AloneInv'
      <2> DEFINE r == request[q].run
                 s == request[q].step
      <2>1. /\ request[q].phase = "loaded"
            /\ s <= e
            /\ \A x \in Run : x # r => run'[x] = run[x]
            /\ run'[r].current_step = IF e # s THEN e ELSE run[r].current_step
            /\ run'[r].status = st \/ run'[r].status = run[r].status
            /\ \A x \in Run : x # r => done'[x] = done[x]
            /\ \A i \in Step : done'[r][i] = IF s <= i /\ i < e THEN done[r][i] + 1
                                            ELSE done[r][i]
            /\ \A b \in Approval : Rewritten(q, b, e)
            /\ overlapped' = overlapped
            BY <1>6 DEF Effect
      <2>2. /\ r \in Run /\ run[r].status # "none"
            /\ s \in 0..NumSteps
            <3>1. request[q] \in RequestState
                  BY <1>1 DEF TypeOK
            <3> QED BY <1>3, <2>1, <3>1 DEF RequestState
      <2>3. \A p \in Request : request'[p].phase # "idle" => request'[p] = request[p] /\ p # q
            BY <1>1, <1>6 DEF Effect, TypeOK, Idle
      <2>4. r \notin overlapped => s = run[r].current_step
            BY <2>1 DEF AloneInv, FreshView
      <2>5. ASSUME r \notin overlapped, NEW i \in Step
            PROVE  done'[r][i] = IF i < run'[r].current_step THEN 1 ELSE 0
            <3>1. done[r][i] = IF i < s THEN 1 ELSE 0
                  BY <2>2, <2>4, <2>5 DEF AloneInv, ExactlyBelow
            <3>2. run'[r].current_step = e
                  BY <2>1, <2>4, <2>5
            <3>3. done'[r][i] = IF s <= i /\ i < e THEN done[r][i] + 1 ELSE done[r][i]
                  BY <2>1
            <3>4. i \in Int /\ s \in Int /\ e \in Int /\ s <= e
                  BY <1>1, <2>1, <2>2
            <3> HIDE DEF r, s
            <3> QED BY <3>1, <3>2, <3>3, <3>4
      <2>6. ExactlyBelow'
            BY <2>1, <2>5 DEF AloneInv, ExactlyBelow
      <2>7. UnstartedUntouched'
            BY <2>1, <2>2 DEF AloneInv, UnstartedUntouched
      <2>8. OneInFlight'
            BY <2>1, <2>3 DEF AloneInv, OneInFlight
      <2>9. FreshView'
            <3> SUFFICES ASSUME NEW p \in Request, request'[p].phase # "idle",
                                request'[p].run \notin overlapped'
                         PROVE  /\ approval'[request'[p].approval].status = "PENDING_APPROVAL"
                                /\ request'[p].phase = "loaded" =>
                                        request'[p].step = run'[request'[p].run].current_step
                BY DEF FreshView
            <3>1. /\ request'[p] = request[p] /\ p # q
                  /\ request[p].phase # "idle" /\ request[p].run \notin overlapped
                  BY <2>1, <2>3
            <3>2. request[p].run # r
                  BY <2>1, <3>1 DEF AloneInv, OneInFlight
            <3>3. /\ request[p].approval \in Approval
                  /\ request[p].approval # request[q].approval
                  /\ request[p].run \in Run
                  BY <1>3, <2>1, <3>1, <3>2
            <3>4. /\ approval[request[p].approval].status = "PENDING_APPROVAL"
                  /\ request[p].phase = "loaded" =>
                        request[p].step = run[request[p].run].current_step
                  BY <3>1 DEF AloneInv, FreshView
            <3>5. approval'[request[p].approval].status = "PENDING_APPROVAL"
                  BY <2>1, <3>3, <3>4 DEF Rewritten
            <3> QED BY <2>1, <3>1, <3>2, <3>3, <3>4, <3>5
      <2> QED BY <2>6, <2>7, <2>8, <2>9 DEF AloneInv
<1> QED BY <1>2, <1>4, <1>5, <1>6, StepCases

(* It holds before any run was started. *)
LEMMA AloneInitially == Init => AloneInv
<1> SUFFICES ASSUME Init PROVE AloneInv
    OBVIOUS
<1>1. NoRun.current_step = 0 /\ Idle.phase = "idle" /\ \A i \in Step : ~(i < 0)
      BY PlaybookConstants DEF NoRun, Idle, Step
<1> QED BY <1>1 DEF Init, AloneInv, ExactlyBelow, UnstartedUntouched, OneInFlight, FreshView

(* "A halted run resumes, it does not replay" (engine.py:12-16) is true of *)
(* every run whose decisions came one at a time.                           *)
THEOREM ResumesNotReplaysAloneHolds == Spec => []ResumesNotReplaysAlone
<1>1. AloneInv => ResumesNotReplaysAlone
      BY DEF AloneInv, ExactlyBelow, ResumesNotReplaysAlone
<1> QED BY <1>1, AloneInitially, AloneInductive, ControlInitially, ControlInductive, PTL DEF Spec

(* Approvals follow PENDING_APPROVAL -> APPROVED/REJECTED -> EXECUTED      *)
(* (ARCHITECTURE.md:40) on every run whose decisions came one at a time.   *)
THEOREM DecisionsAreFinalAloneHolds == Spec => DecisionsAreFinalAlone
<1> DEFINE Final == \A a \in Approval : approval[a].run \in Run \ overlapped' =>
                        /\ approval[a].status \in {"REJECTED", "EXECUTED"} =>
                                approval'[a] = approval[a]
                        /\ approval[a].status = "APPROVED" =>
                                approval'[a].status \in {"APPROVED", "EXECUTED"}
<1>1. ControlInv /\ AloneInv /\ [Next]_vars => [Final]_vars
      <2> SUFFICES ASSUME ControlInv, AloneInv, [Next]_vars PROVE [Final]_vars
          OBVIOUS
      <2>1. ASSUME NEW r \in Run, NEW u \in User, NEW e \in 0..NumSteps, NEW st \in RunStatus,
                   NEW dry \in BOOLEAN, StartEffect(r, u, e, st, dry)
            PROVE  Final
            BY <2>1 DEF StartEffect, ControlInv, TypeOK
      <2>2. ASSUME NEW q \in Request, RequestEffect(q)
            PROVE  Final
            BY <2>2 DEF RequestEffect
      <2>3. ASSUME NEW q \in Request, NEW e \in 0..NumSteps, NEW st \in RunStatus \ {"none"},
                   Effect(q, e, st)
            PROVE  Final
            <3> SUFFICES ASSUME NEW a \in Approval, approval[a].run \in Run \ overlapped'
                PROVE  /\ approval[a].status \in {"REJECTED", "EXECUTED"} =>
                                approval'[a] = approval[a]
                       /\ approval[a].status = "APPROVED" =>
                                approval'[a].status \in {"APPROVED", "EXECUTED"}
                OBVIOUS
            <3>1. /\ Rewritten(q, a, e) /\ overlapped' = overlapped
                  /\ request[q].phase # "idle"
                  BY <2>3 DEF Effect
            <3>2. approval[request[q].approval].run = request[q].run
                  BY <3>1 DEF ControlInv, RequestsLinked
            <3>3. a = request[q].approval => approval[a].status = "PENDING_APPROVAL"
                  BY <3>1, <3>2 DEF AloneInv, FreshView
            <3> QED BY <3>1, <3>3 DEF Rewritten
      <2> QED BY <2>1, <2>2, <2>3, StepCases
<1> QED BY <1>1, AloneInitially, AloneInductive, ControlInitially, ControlInductive, PTL
        DEF Spec, DecisionsAreFinalAlone
=============================================================================
