------------------------------- MODULE Saga -------------------------------
(***************************************************************************)
(* The saga coordinator (saga.rs) behind the HTTP gateway (server.rs): one *)
(* business transaction of several branches, run in order or in the layers *)
(* of a dependency graph, undone in reverse order when a branch fails, and *)
(* taken up again by clients, by requests to compensate and by the         *)
(* reconciler thread.  One mutex is held from the start of a call to its   *)
(* end, so a saga has one thread at a time; different sagas share nothing  *)
(* but that mutex, so one is enough.                                       *)
(*                                                                         *)
(* The branches run at business nodes behind HttpStep: an answer may be a  *)
(* refusal, get lost after the work was done, or come too late, in which   *)
(* case the work may still be done at any later time.                      *)
(***************************************************************************)
EXTENDS Naturals, Sequences, FiniteSets, SequencesExt, FiniteSetsExt

CONSTANTS
    Step,       \* the branches, in the order of the request
    Graphs,     \* the dependency graphs (depends_on) requests come with
    MaxFaults   \* bound: refusals, lost answers, failed saves and crashes

ASSUME StepAssumption == IsFiniteSet(Step) /\ Step \subseteq Nat
ASSUME GraphsAssumption == Graphs \subseteq [Step -> SUBSET Step]
ASSUME FaultsAssumption == MaxFaults \in Nat

VARIABLES
    deps,       \* deps[s]: the branches s waits for
    saga,       \* the state in memory, which persist keeps equal to the file
    work,       \* the call that holds the coordinator
    cached,     \* branches defined in the steps cache of the server
    effect,     \* what the business nodes have done
    late,       \* forward calls given up that are still under way
    \* history
    doubt,      \* branches whose forward call ended without a recorded answer, until
                \* a later one is recorded and none is under way
    overlooked, \* branches that succeeded beside a sibling that failed
    faults

sagaVars == <<deps, saga, work, cached, effect, late, doubt, overlooked, faults>>

SagaStatus == {"none", "Init", "Executing", "Succeeded", "Failed", "Compensating", "Compensated"}
is_terminal == saga.status \in {"Succeeded", "Compensated"}

SagaState == [status : SagaStatus, executed : Seq(Step), undone : SUBSET Step]

\* "forward": about to call a layer; "register": the answers of the branches
\* in answered are to be recorded, of which those in ok succeeded;
\* "compensate": about to set Compensating; "undo", "undone": one branch.
Work == [doing : {"nothing", "forward", "register", "compensate", "undo", "undone"},
         answered : SUBSET Step, ok : SUBSET Step, executed : Seq(Step), defs : SUBSET Step]
Idle == [doing |-> "nothing", answered |-> {}, ok |-> {}, executed |-> <<>>, defs |-> {}]

---------------------------------------------------------------------------
(* The plan (topo_layers): Reached[i] has the branches of the first i      *)
(* layers, those whose dependencies are in the layers before.              *)
Rounds == Cardinality(Step)

Reached ==
    LET reached[i \in 0..Rounds] ==
            IF i = 0 THEN {} ELSE {s \in Step : deps[s] \subseteq reached[i - 1]}
    IN  reached

has_deps == \E s \in Step : deps[s] # {}
Cyclic == Reached[Rounds] # Step

\* run_parallel takes the branches by layers, run one by one.
Layer(s) == IF has_deps THEN Min({i \in 0..Rounds : s \in Reached[i]}) ELSE s

(* The order in a layer: the queue gets a branch with the last of its      *)
(* dependencies in the layer before, and those of one dependency, like     *)
(* those without any, in the order of the request.                         *)
Before ==
    LET before[i \in 1..Rounds] ==
            LET layer == {s \in Step : Layer(s) = i}
                last(s) == {u \in deps[s] : Layer(u) = i - 1}
                later(s, t) == \E u \in last(s) : \A v \in last(t) : <<v, u>> \in before[i - 1]
            IN  {p \in layer \X layer :
                    later(p[2], p[1]) \/ (~later(p[1], p[2]) /\ p[1] < p[2])}
    IN  before

\* The branch of S whose answer is looked at first.
IsFirst(s, S) == s \in S /\ (has_deps => \A t \in S \ {s} : <<s, t>> \in Before[Layer(s)])

\* Recorded and undone branches are skipped; the first layer that has others
\* is run next.
Left(executed) == Step \ (ToSet(executed) \cup saga.undone)

Pending(executed) ==
    {s \in Left(executed) : \A t \in Left(executed) : Layer(s) <= Layer(t)}

---------------------------------------------------------------------------
SagaInit ==
    /\ deps \in Graphs
    /\ saga = [status |-> "none", executed |-> <<>>, undone |-> {}]
    /\ work = Idle
    /\ cached = {} /\ late = {} /\ doubt = {} /\ overlooked = {} /\ faults = 0
    /\ effect = [s \in Step |-> "none"]

nodeVars == <<effect, late>>
Fault == faults < MaxFaults /\ faults' = faults + 1

\* persist: file and memory.
Save(status) == saga' = [saga EXCEPT !.status = status]

\* SagaCoordinator::compensate in a call that brings the definitions D.
Compensates(D) == work' = [Idle EXCEPT !.doing = "compensate", !.defs = D]

(* Mutant: a saga that has ended is run once more. *)
handle_saga_startAgain ==
    /\ work = Idle
    /\ cached' = Step
    /\ work' = IF Cyclic THEN Idle
               ELSE [Idle EXCEPT !.doing = "forward", !.executed = saga.executed, !.defs = Step]
    /\ UNCHANGED <<deps, saga, nodeVars, doubt, overlooked, faults>>

(* POST /saga/start: the definitions are cached first; a new saga is       *)
(* registered before its graph is looked at, which may fail to be saved; a *)
(* saga that is known goes on from where its state says.                   *)
handle_saga_start ==
    /\ work = Idle
    /\ cached' = Step
    /\ \/ /\ saga.status \in {"none", "Init", "Executing"}
          /\ IF saga.status = "none" THEN Save("Init") ELSE UNCHANGED saga
          /\ work' = IF Cyclic THEN Idle
                     ELSE [Idle EXCEPT !.doing = "forward", !.executed = saga.executed,
                                       !.defs = Step]
          /\ UNCHANGED faults
       \/ saga.status = "none" /\ Fault /\ UNCHANGED <<saga, work>>
       \/ /\ saga.status \in {"Failed", "Compensating"}
          /\ IF Cyclic THEN UNCHANGED work ELSE Compensates(Step)
          /\ UNCHANGED <<saga, faults>>
       \/ is_terminal /\ UNCHANGED <<saga, work, faults>>
    /\ UNCHANGED <<deps, nodeVars, doubt, overlooked>>

(* The forward calls of the next layer, side by side: done, refused, done  *)
(* but the answer is lost, or given up and still under way.                *)
Forward ==
    /\ work.doing = "forward"
    /\ LET layer == Pending(work.executed) IN
       /\ layer # {}
       /\ \E ok, lost, given_up \in SUBSET layer :
            /\ ok \cap lost = {} /\ (ok \cup lost) \cap given_up = {}
            /\ effect' = [s \in Step |-> IF s \in ok \cup lost THEN "done" ELSE effect[s]]
            /\ late' = late \cup given_up
            /\ doubt' = doubt \cup lost \cup given_up
            /\ faults' = faults + Cardinality(layer \ ok)
            /\ faults' <= MaxFaults
            /\ work' = [work EXCEPT !.doing = "register", !.answered = layer, !.ok = ok]
    /\ UNCHANGED <<deps, saga, cached, overlooked>>

\* A forward call that was given up reaches its node.
LateForward(s) ==
    /\ s \in late
    /\ late' = late \ {s}
    /\ effect' = [effect EXCEPT ![s] = "done"]
    /\ UNCHANGED <<deps, saga, work, cached, doubt, overlooked, faults>>

(* The answers are recorded in order, each with a save of its own.  The    *)
(* first failure ends the forward run: the answers behind it are dropped.  *)
Register ==
    /\ work.doing = "register"
    /\ \E s \in Step :
       /\ IsFirst(s, work.answered)
       /\ \/ /\ s \in work.ok
             /\ saga' = [saga EXCEPT !.status = "Executing",
                                     !.executed = Append(work.executed, s)]
             /\ work' = [work EXCEPT !.answered = @ \ {s}, !.ok = @ \ {s},
                           !.executed = Append(@, s),
                           !.doing = IF work.answered = {s} THEN "forward" ELSE @]
             /\ doubt' = doubt \ ({s} \ late)
             /\ UNCHANGED overlooked
          \/ /\ s \notin work.ok
             /\ Save("Failed")
             /\ overlooked' = overlooked \cup work.ok
             /\ Compensates(work.defs)
             /\ UNCHANGED doubt
    /\ UNCHANGED <<deps, cached, nodeVars, faults>>

\* Nothing is left of the plan.
Succeed ==
    /\ work.doing = "forward"
    /\ Left(work.executed) = {}
    /\ Save("Succeeded")
    /\ work' = Idle
    /\ UNCHANGED <<deps, cached, nodeVars, doubt, overlooked, faults>>

---------------------------------------------------------------------------
(* compensate: nothing in a terminal state, otherwise Compensating.        *)
BeginCompensate ==
    /\ work.doing = "compensate"
    /\ \/ /\ ~is_terminal
          /\ Save("Compensating")
          /\ work' = [work EXCEPT !.doing = "undo"]
       \/ is_terminal /\ work' = Idle /\ UNCHANGED saga
    /\ UNCHANGED <<deps, cached, nodeVars, doubt, overlooked, faults>>

\* The recorded branches that are not undone yet, by their places; the last
\* is undone next.
ToUndo == {i \in DOMAIN saga.executed : saga.executed[i] \notin saga.undone}

(* Mutant: in the order of execution. *)
UndoingFirst == saga.executed[Min(ToUndo)]

Undoing == saga.executed[Max(ToUndo)]

(* Mutant: a branch without a definition is taken to be undone. *)
UndoMissing ==
    /\ work.doing = "undo"
    /\ ToUndo # {}
    /\ effect' = [effect EXCEPT ![Undoing] = IF Undoing \in work.defs THEN "undone" ELSE @]
    /\ work' = [work EXCEPT !.doing = "undone"]
    /\ UNCHANGED <<deps, saga, cached, late, doubt, overlooked, faults>>

(* One branch is undone.  A refusal, a lost answer or a missing definition *)
(* leaves the saga Compensating for a later call.                          *)
Undo ==
    /\ work.doing = "undo"
    /\ ToUndo # {}
    /\ LET s == Undoing IN
       \/ /\ s \in work.defs
          /\ effect' = [effect EXCEPT ![s] = "undone"]
          /\ \/ work' = [work EXCEPT !.doing = "undone"] /\ UNCHANGED faults
             \/ work' = Idle /\ Fault
       \/ s \in work.defs /\ Fault /\ work' = Idle /\ UNCHANGED effect
       \/ s \notin work.defs /\ work' = Idle /\ UNCHANGED <<effect, faults>>
    /\ UNCHANGED <<deps, saga, cached, late, doubt, overlooked>>

RecordUndone ==
    /\ work.doing = "undone"
    /\ saga' = [saga EXCEPT !.undone = @ \cup {Undoing}]
    /\ work' = [work EXCEPT !.doing = "undo"]
    /\ UNCHANGED <<deps, cached, nodeVars, doubt, overlooked, faults>>

Compensated ==
    /\ work.doing = "undo"
    /\ ToUndo = {}
    /\ Save("Compensated")
    /\ work' = Idle
    /\ UNCHANGED <<deps, cached, nodeVars, doubt, overlooked, faults>>

\* POST /saga/compensate with some definitions (without any it only answers).
\* For a saga nobody has started it panics, and the server dies.
handle_saga_compensate(D) ==
    /\ work = Idle
    /\ IF saga.status = "none" THEN cached' = {} /\ UNCHANGED work
       ELSE Compensates(D) /\ UNCHANGED cached
    /\ UNCHANGED <<deps, saga, nodeVars, doubt, overlooked, faults>>

(* Mutant: only a saga that is Compensating is taken up. *)
retry_pendingCompensating ==
    /\ work = Idle
    /\ saga.status = "Compensating"
    /\ IF cached = {} THEN UNCHANGED work ELSE Compensates(cached)
    /\ UNCHANGED <<deps, saga, cached, nodeVars, doubt, overlooked, faults>>

(* The reconciler: a forward run that stands still is declared Failed (the *)
(* mutex is free, so nobody is running it), and a failed or half undone    *)
(* saga is compensated if the server knows its definitions.  The back-off  *)
(* only delays.                                                            *)
retry_pending ==
    /\ work = Idle
    /\ saga.status \in {"Executing", "Failed", "Compensating"}
    /\ IF saga.status = "Executing" THEN Save("Failed") ELSE UNCHANGED saga
    /\ IF cached = {} THEN UNCHANGED work ELSE Compensates(cached)
    /\ UNCHANGED <<deps, cached, nodeVars, doubt, overlooked, faults>>

(* The answers not recorded yet are forgotten when a call ends half way.   *)
Forgets == doubt' = doubt \cup work.ok

\* A call is about to save the state.
Saving ==
    \/ work.doing \in {"register", "undone"}
    \/ work.doing = "compensate" /\ ~is_terminal
    \/ work.doing = "forward" /\ Left(work.executed) = {}
    \/ work.doing = "undo" /\ ToUndo = {}

\* A save fails: the call ends with an error and the state as it was.
SaveFails ==
    /\ Saving
    /\ Fault
    /\ work' = Idle
    /\ Forgets
    /\ UNCHANGED <<deps, saga, cached, nodeVars, overlooked>>

\* The server dies; open loads the files, the steps cache is empty.
Crash ==
    /\ Fault
    /\ work' = Idle
    /\ cached' = {}
    /\ Forgets
    /\ UNCHANGED <<deps, saga, nodeVars, overlooked>>

SagaNext ==
    \/ handle_saga_start
    \/ Forward \/ Register \/ Succeed
    \/ BeginCompensate \/ Undo \/ RecordUndone \/ Compensated
    \/ \E D \in SUBSET Step \ {{}} : handle_saga_compensate(D)
    \/ retry_pending
    \/ \E s \in Step : LateForward(s)
    \/ SaveFails \/ Crash

SagaSpec == SagaInit /\ [][SagaNext]_sagaVars

(* A call runs on; the reconciler wakes up every minute and gets the mutex *)
(* in the end although clients take it in between.                         *)
Fairness ==
    /\ WF_sagaVars(Forward) /\ WF_sagaVars(Register) /\ WF_sagaVars(Succeed)
    /\ WF_sagaVars(BeginCompensate) /\ WF_sagaVars(Undo) /\ WF_sagaVars(RecordUndone)
    /\ WF_sagaVars(Compensated)
    /\ SF_sagaVars(retry_pending)
FairSpec == SagaSpec /\ Fairness

---------------------------------------------------------------------------
SagaTypeOK ==
    /\ deps \in Graphs
    /\ saga \in SagaState
    /\ work \in Work
    /\ cached \in SUBSET Step /\ late \in SUBSET Step
    /\ doubt \in SUBSET Step /\ overlooked \in SUBSET Step
    /\ effect \in [Step -> {"none", "done", "undone"}]
    /\ faults \in 0..MaxFaults

(* A saga ends with all branches done or none (run, compensate): of a      *)
(* compensated saga nothing stays done except where the coordinator never  *)
(* recorded the answer.  That a restart repeats forward calls and          *)
(* compensations does not change it.                                       *)
InEffect == {s \in Step : effect[s] = "done"}
AllOrNothing ==
    /\ saga.status = "Succeeded" => InEffect = Step
    /\ saga.status = "Compensated" => InEffect \subseteq doubt \cup overlooked

(* A branch is undone only after everything that was built on it           *)
(* (compensate in reverse order, run_parallel in topological order), over  *)
(* all interruptions, crashes and partial requests.                        *)
Follows(t, s) == IF has_deps THEN s \in deps[t] ELSE s < t
DependentsFirst ==
    \A s, t \in Step : Follows(t, s) /\ effect[s] = "undone" =>
        effect[t] # "done" \/ t \in doubt \cup overlooked

(* The coordinator never calls a branch forward again once it has ended a  *)
(* saga or compensated the branch (run: terminal states, the barrier).     *)
NoForwardAfterUndo ==
    [][\A s \in Step :
        (is_terminal \/ s \in saga.undone) /\ effect[s] # "done" /\ s \notin late
            => effect'[s] # "done"]_sagaVars

(* As long as the server keeps the definitions, a saga whose state says    *)
(* that it has run or failed ends: the reconciler takes up what clients    *)
(* leave half way.  (One whose first answers were never recorded is still  *)
(* Init, which the reconciler passes over.)                                *)
Settles ==
    saga.status \in {"Executing", "Failed", "Compensating"} /\ cached = Step
        ~> is_terminal \/ cached = {}

(* What run_parallel says of a failing layer: its branches that ran are    *)
(* recorded and undone.                                                    *)
NoneOverlooked ==
    saga.status = "Compensated" => InEffect \subseteq doubt
===========================================================================
