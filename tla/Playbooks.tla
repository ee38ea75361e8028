------------------------------ MODULE Playbooks ------------------------------
(***************************************************************************)
(* Response playbooks: runs of a playbook, the approvals their destructive *)
(* steps wait for, and the API requests that start runs and decide         *)
(* approvals (backend/app/playbooks/engine.py, services/playbooks.py,      *)
(* api/playbooks.py).                                                      *)
(*                                                                         *)
(* Every request is one PostgreSQL transaction, READ COMMITTED, committed  *)
(* by the API handler. A decision has four steps that other requests may   *)
(* come between: it reads the approval, writes it (an UPDATE by primary    *)
(* key: it waits for the row's lock and then overwrites whatever is there),*)
(* reads the run, and works and commits. Working and committing are one    *)
(* step: the engine's first query flushes status RUNNING to the run and so *)
(* holds the run's row lock until the commit.                              *)
(***************************************************************************)
EXTENDS Integers, FiniteSets

CONSTANTS
    User,          \* the analysts, identified by user id
    Run,           \* bound: the ids runs may get
    Approval,      \* bound: the ids approvals may get
    Request,       \* bound: decisions in flight at once
    NumSteps,      \* steps of the playbook
    Destructive,   \* the steps whose action is a DestructiveAction
    Nobody         \* NULL in a user column

ASSUME PlaybookConstants ==
    /\ NumSteps \in Nat
    /\ Destructive \subseteq 0..(NumSteps - 1)
    /\ Nobody \notin User

VARIABLES
    run,           \* committed rows of playbook_runs
    approval,      \* committed rows of playbook_action_approvals
    request,       \* decisions in flight, with what they hold in memory
    done,          \* how often each step of each run has been executed
    grants,        \* history: destructive executions and who approved them
    overlapped     \* history: runs two decisions were ever in flight on at once

vars == <<run, approval, request, done, grants, overlapped>>

Step == 0..(NumSteps - 1)

RunRow == [status : {"none", "AWAITING_APPROVAL", "COMPLETED", "FAILED", "REJECTED"},
           dry_run : BOOLEAN,
           triggered_by : User \cup {Nobody},
           current_step : 0..NumSteps]

ApprovalRow == [status : {"none", "PENDING_APPROVAL", "APPROVED", "REJECTED", "EXECUTED"},
                run : Run \cup {Nobody},
                step : 0..NumSteps,
                requested_by : User \cup {Nobody},
                decided_by : User \cup {Nobody}]

RequestState == [phase : {"idle", "read", "decided", "loaded"},
                 decision : {"APPROVED", "REJECTED"},
                 user : User \cup {Nobody},
                 approval : Approval \cup {Nobody},
                 run : Run \cup {Nobody},
                 status : {"none", "AWAITING_APPROVAL", "COMPLETED", "FAILED", "REJECTED"},
                 step : 0..NumSteps]

NoRun == [status |-> "none", dry_run |-> FALSE, triggered_by |-> Nobody, current_step |-> 0]

NoApproval == [status |-> "none", run |-> Nobody, step |-> 0,
               requested_by |-> Nobody, decided_by |-> Nobody]

Idle == [phase |-> "idle", decision |-> "REJECTED", user |-> Nobody, approval |-> Nobody,
         run |-> Nobody, status |-> "none", step |-> 0]

TypeOK ==
    /\ run \in [Run -> RunRow]
    /\ approval \in [Approval -> ApprovalRow]
    /\ request \in [Request -> RequestState]
    /\ done \in [Run -> [Step -> Nat]]
    /\ grants \subseteq [run : Run, step : Destructive, approver : User \cup {Nobody}]
    /\ overlapped \subseteq Run

Init ==
    /\ run = [r \in Run |-> NoRun]
    /\ approval = [a \in Approval |-> NoApproval]
    /\ request = [q \in Request |-> Idle]
    /\ done = [r \in Run |-> [i \in Step |-> 0]]
    /\ grants = {}
    /\ overlapped = {}

-----------------------------------------------------------------------------
(* _create_pending_approval: the row a halted run waits for. *)
PendingApproval(r, i, requester) ==
    [status |-> "PENDING_APPROVAL", run |-> r, step |-> i,
     requested_by |-> requester, decided_by |-> Nobody]

StartedRun(r, u, dry, status, e) ==
    run' = [run EXCEPT ![r] = [status |-> status, dry_run |-> dry,
                               triggered_by |-> u, current_step |-> e]]

(* The steps from s up to, not including, e were executed for run r. *)
Executed(r, s, e) ==
    done' = [done EXCEPT ![r] = [i \in Step |-> IF s <= i /\ i < e THEN @[i] + 1 ELSE @[i]]]

(* start_run with dry_run: every step is previewed, nothing else happens.  *)
(* A preview without a target raises and the request is rolled back.       *)
StartDryRun(r, u) ==
    /\ run[r].status = "none"
    /\ StartedRun(r, u, TRUE, "COMPLETED", 0)
    /\ UNCHANGED <<approval, request, done, grants, overlapped>>

(* start_run: the engine runs the new run's steps from 0 and ends before   *)
(* step e. Nobody else sees the run before the commit.                     *)
StartRun(r, u, e) ==
    /\ run[r].status = "none"
    /\ \A i \in 0..(e - 1) : i \notin Destructive
    /\ \/ /\ e = NumSteps
          /\ StartedRun(r, u, FALSE, "COMPLETED", e)
          /\ UNCHANGED approval
       \/ /\ e < NumSteps             \* ActionTargetNotFound at step e
          /\ StartedRun(r, u, FALSE, "FAILED", e)
          /\ UNCHANGED approval
       \/ /\ e \in Destructive
          /\ StartedRun(r, u, FALSE, "AWAITING_APPROVAL", e)
          /\ \E b \in Approval :
                /\ approval[b].status = "none"
                /\ approval' = [approval EXCEPT ![b] = PendingApproval(r, e, u)]
    /\ Executed(r, 0, e)
    /\ UNCHANGED <<request, grants, overlapped>>

-----------------------------------------------------------------------------
InFlight(r) == {q \in Request : request[q].phase # "idle" /\ request[q].run = r}

NewRequest(u, a, decision) ==
    [phase |-> "read", decision |-> decision, user |-> u, approval |-> a,
     run |-> approval[a].run, status |-> "none", step |-> 0]

(* Mutant of Decide: the approval's status is not tested. *)
DecideAnyStatus(q, u, a, decision) ==
    /\ request[q].phase = "idle"
    /\ approval[a].status # "none"
    /\ u # approval[a].requested_by
    /\ request' = [request EXCEPT ![q] = NewRequest(u, a, decision)]
    /\ overlapped' = IF InFlight(approval[a].run) = {} THEN overlapped
                     ELSE overlapped \cup {approval[a].run}
    /\ UNCHANGED <<run, approval, done, grants>>

(* approve_action and reject_action up to their checks: the approval is    *)
(* read without a lock, must be pending and must not be the user's own.    *)
Decide(q, u, a, decision) ==
    /\ request[q].phase = "idle"
    /\ approval[a].status = "PENDING_APPROVAL"
    /\ u # approval[a].requested_by
    /\ request' = [request EXCEPT ![q] = NewRequest(u, a, decision)]
    /\ overlapped' = IF InFlight(approval[a].run) = {} THEN overlapped
                     ELSE overlapped \cup {approval[a].run}
    /\ UNCHANGED <<run, approval, done, grants>>

(* Another transaction holds the row lock of approval a. *)
Locked(q, a) == \E p \in Request \ {q} : /\ request[p].phase \in {"decided", "loaded"}
                                         /\ request[p].approval = a

(* The decision is flushed, once the row is free. What the row says by     *)
(* then is not looked at again.                                            *)
WriteDecision(q) ==
    /\ request[q].phase = "read"
    /\ ~Locked(q, request[q].approval)
    /\ request' = [request EXCEPT ![q].phase = "decided"]
    /\ UNCHANGED <<run, approval, done, grants, overlapped>>

(* Mutant of LoadRun: a resumed run starts over. *)
LoadRunFromStart(q) ==
    /\ request[q].phase = "decided"
    /\ request' = [request EXCEPT ![q].phase = "loaded",
                                  ![q].status = run[request[q].run].status,
                                  ![q].step = 0]
    /\ UNCHANGED <<run, approval, done, grants, overlapped>>

(* get_run, also without a lock. The run's status is not looked at. *)
LoadRun(q) ==
    /\ request[q].phase = "decided"
    /\ request' = [request EXCEPT ![q].phase = "loaded",
                                  ![q].status = run[request[q].run].status,
                                  ![q].step = run[request[q].run].current_step]
    /\ UNCHANGED <<run, approval, done, grants, overlapped>>

-----------------------------------------------------------------------------
(* The approvals as transaction q sees them: committed rows and its own write. *)
View(q) == [approval EXCEPT ![request[q].approval].status = request[q].decision,
                            ![request[q].approval].decided_by = request[q].user]

(* require_approved: the rows that permit the step; _verify_grant then     *)
(* finds the same row still approved.                                      *)
Approved(q, i) ==
    {b \in Approval : /\ View(q)[b].status = "APPROVED"
                      /\ View(q)[b].run = request[q].run
                      /\ View(q)[b].step = i}

DestructiveIn(s, e) == {i \in Destructive : s <= i /\ i < e}

(* The loop of run_playbook executes the steps from s up to e, consuming   *)
(* approval g[i] at each destructive step i.                               *)
Consumes(q, s, e, g) ==
    /\ \A i \in DestructiveIn(s, e) : g[i] \in Approved(q, i) /\ ~Locked(q, g[i])
    /\ Executed(request[q].run, s, e)
    /\ grants' = grants \cup {[run |-> request[q].run, step |-> i,
                               approver |-> View(q)[g[i]].decided_by] :
                                    i \in DestructiveIn(s, e)}

(* The approvals the transaction commits. *)
Committed(q, s, e, g) ==
    [b \in Approval |-> IF \E i \in DestructiveIn(s, e) : g[i] = b
                        THEN [View(q)[b] EXCEPT !.status = "EXECUTED"]
                        ELSE View(q)[b]]

(* Mutant of WriteRun: the step the engine stopped at counts as executed. *)
WriteRunPastStep(q, status, e) ==
    run' = [run EXCEPT ![request[q].run].status = status,
                       ![request[q].run].current_step = e + 1]

(* The run's columns the transaction writes: SQLAlchemy's UPDATE names a   *)
(* column only when its value differs from the one that was loaded. The    *)
(* status does differ when the intermediate RUNNING was flushed, which     *)
(* some first steps do not cause.                                          *)
WriteRun(q, status, e) ==
    LET r == request[q].run
        flushed == request[q].step \in Destructive
    IN  \E written \in BOOLEAN :
            /\ (flushed \/ status # request[q].status) => written
            /\ run' = [run EXCEPT ![r].status = IF written THEN status ELSE @,
                                  ![r].current_step = IF e # request[q].step THEN e ELSE @]

Finish(q) ==
    /\ request' = [request EXCEPT ![q] = Idle]
    /\ UNCHANGED overlapped

(* approve_action resumes the run from the step it loaded; every step up   *)
(* to the last is executed.                                                *)
Complete(q) ==
    /\ request[q].phase = "loaded" /\ request[q].decision = "APPROVED"
    /\ \E g \in [DestructiveIn(request[q].step, NumSteps) -> Approval] :
        /\ Consumes(q, request[q].step, NumSteps, g)
        /\ approval' = Committed(q, request[q].step, NumSteps, g)
    /\ WriteRun(q, "COMPLETED", NumSteps)
    /\ Finish(q)

(* Step e finds no target (ActionTargetNotFound), as preview or execution: *)
(* the run fails there; an approval of step e stays unused.                *)
Fail(q, e) ==
    /\ request[q].phase = "loaded" /\ request[q].decision = "APPROVED"
    /\ request[q].step <= e /\ e < NumSteps
    /\ \E g \in [DestructiveIn(request[q].step, e) -> Approval] :
        /\ Consumes(q, request[q].step, e, g)
        /\ approval' = Committed(q, request[q].step, e, g)
    /\ WriteRun(q, "FAILED", e)
    /\ Finish(q)

(* Mutant of Halt: the approver becomes the requester of the next approval. *)
HaltAsApprover(q, e) ==
    /\ request[q].phase = "loaded" /\ request[q].decision = "APPROVED"
    /\ request[q].step <= e /\ e \in Destructive
    /\ Approved(q, e) = {}
    /\ \E g \in [DestructiveIn(request[q].step, e) -> Approval], b \in Approval :
        /\ approval[b].status = "none"
        /\ Consumes(q, request[q].step, e, g)
        /\ approval' = [Committed(q, request[q].step, e, g) EXCEPT
                            ![b] = PendingApproval(request[q].run, e, request[q].user)]
    /\ WriteRun(q, "AWAITING_APPROVAL", e)
    /\ Finish(q)

(* Mutant of Halt: a step is not asked for twice, however its earlier request ended. *)
HaltAsksOnce(q, e) ==
    /\ request[q].phase = "loaded" /\ request[q].decision = "APPROVED"
    /\ request[q].step <= e /\ e \in Destructive
    /\ Approved(q, e) = {}
    /\ \E g \in [DestructiveIn(request[q].step, e) -> Approval], b \in Approval :
        /\ approval[b].status = "none"
        /\ Consumes(q, request[q].step, e, g)
        /\ approval' =
            IF \E c \in Approval : approval[c].run = request[q].run /\ approval[c].step = e
            THEN Committed(q, request[q].step, e, g)
            ELSE [Committed(q, request[q].step, e, g) EXCEPT
                    ![b] = PendingApproval(request[q].run, e,
                                           run[request[q].run].triggered_by)]
    /\ WriteRun(q, "AWAITING_APPROVAL", e)
    /\ Finish(q)

(* Step e is destructive and has no approval: the run halts there and asks *)
(* for one, in the name of whoever triggered the run.                      *)
Halt(q, e) ==
    /\ request[q].phase = "loaded" /\ request[q].decision = "APPROVED"
    /\ request[q].step <= e /\ e \in Destructive
    /\ Approved(q, e) = {}
    /\ \E g \in [DestructiveIn(request[q].step, e) -> Approval], b \in Approval :
        /\ approval[b].status = "none"
        /\ Consumes(q, request[q].step, e, g)
        /\ approval' = [Committed(q, request[q].step, e, g) EXCEPT
                            ![b] = PendingApproval(request[q].run, e,
                                                   run[request[q].run].triggered_by)]
    /\ WriteRun(q, "AWAITING_APPROVAL", e)
    /\ Finish(q)

(* reject_action's end: no step runs, the run is marked rejected. *)
Reject(q) ==
    /\ request[q].phase = "loaded" /\ request[q].decision = "REJECTED"
    /\ approval' = View(q)
    /\ run' = [run EXCEPT ![request[q].run].status =
                    IF request[q].status = "REJECTED" THEN @ ELSE "REJECTED"]
    /\ Finish(q)
    /\ UNCHANGED <<done, grants>>

(* The transaction is rolled back: an error, a lost connection, a crash of *)
(* the API process, or PostgreSQL breaking a deadlock.                     *)
Abort(q) ==
    /\ request[q].phase # "idle"
    /\ Finish(q)
    /\ UNCHANGED <<run, approval, done, grants>>

Next ==
    \/ \E r \in Run, u \in User : StartDryRun(r, u)
    \/ \E r \in Run, u \in User, e \in 0..NumSteps : StartRun(r, u, e)
    \/ \E q \in Request, u \in User, a \in Approval, d \in {"APPROVED", "REJECTED"} :
            Decide(q, u, a, d)
    \/ \E q \in Request : \/ WriteDecision(q)
                          \/ LoadRun(q)
                          \/ Complete(q)
                          \/ Reject(q)
                          \/ Abort(q)
    \/ \E q \in Request, e \in Step : Fail(q, e) \/ Halt(q, e)

Spec == Init /\ [][Next]_vars

-----------------------------------------------------------------------------
(* Dual control (models/playbooks.py:116-124): whatever decisions overlap  *)
(* and whoever resumes the run, a destructive step is only ever executed   *)
(* on the approval of someone other than the user who triggered the run.   *)
DualControl ==
    \A x \in grants : x.approver \in User /\ x.approver # run[x.run].triggered_by

(* Steps are never skipped: below a run's current step, and below any step *)
(* that was executed, every step was executed; a completed run executed    *)
(* them all, on whatever stale reads it was resumed.                       *)
StepsInOrder ==
    \A r \in Run :
        /\ \A i \in Step : i < run[r].current_step => done[r][i] > 0
        /\ \A i, j \in Step : i < j /\ done[r][j] > 0 => done[r][i] > 0
        /\ run[r].status = "COMPLETED" /\ ~run[r].dry_run
                => \A i \in Step : done[r][i] > 0

(* A run that says it awaits approval has an approval somebody can still   *)
(* decide: no race of decisions leaves it waiting for nothing.             *)
NoStrandedRun ==
    \A r \in Run : run[r].status = "AWAITING_APPROVAL" =>
        \E a \in Approval : approval[a].run = r /\ approval[a].status = "PENDING_APPROVAL"

(* "A halted run resumes, it does not replay ... side effects only ever    *)
(* happen once per run" (engine.py:12-16). Decisions of one approval wait  *)
(* for each other at its row; decisions of two approvals of one step do    *)
(* not, and a late decision can make the run ask for a step twice.         *)
ResumesNotReplays == \A r \in Run, i \in Step : done[r][i] <= 1

(* The same, for runs whose decisions came one at a time. *)
ResumesNotReplaysAlone ==
    \A r \in Run \ overlapped, i \in Step : done[r][i] <= 1

(* PENDING_APPROVAL -> APPROVED/REJECTED -> EXECUTED (ARCHITECTURE.md:40): *)
(* without overlapping decisions a rejected or used approval never changes *)
(* again, and an approved one is only ever used.                           *)
DecisionsAreFinalAlone ==
    [][\A a \in Approval : approval[a].run \in Run \ overlapped' =>
        /\ approval[a].status \in {"REJECTED", "EXECUTED"} => approval'[a] = approval[a]
        /\ approval[a].status = "APPROVED" =>
                approval'[a].status \in {"APPROVED", "EXECUTED"}]_vars
=============================================================================
