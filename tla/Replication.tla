--------------------------- MODULE Replication ----------------------------
(***************************************************************************)
(* Replication from a master to its slaves (replication.rs) over the       *)
(* internal RPC (rpc.rs): the master appends every write to a log file and *)
(* sends the whole log to each slave in turn; when all have answered, it   *)
(* cuts the log at the largest number acknowledged.                        *)
(*                                                                         *)
(* A client keeps one connection to a slave.  Answers carry no number of   *)
(* the request, and the client outlives a call that timed out: the answer  *)
(* of that call is what the next one reads.  A thread of the slave serves  *)
(* a connection in order; what a dead master has sent stays to be served.  *)
(* An entry is a write of one document; `no` counts the writes.            *)
(***************************************************************************)
EXTENDS Naturals, Sequences, FiniteSets, SequencesExt, FiniteSetsExt

CONSTANTS
    Doc,        \* documents
    Slave,      \* slaves
    Settings,   \* the slaves in their order, sync_mode, and which faults occur
    MaxWrites,  \* bound: writes
    MaxFaults   \* bound: calls that time out or fail, restarts

Fault == {"timeout", "file", "slave", "master", "apply"}
ASSUME SettingsAssumption ==
    Settings \subseteq [slaves : Seq(Slave), sync : BOOLEAN, faults : SUBSET Fault]
ASSUME BoundsAssumption == MaxWrites \in Nat /\ MaxFaults \in Nat

VARIABLES
    setting,
    log,        \* the entries in memory
    disk,       \* replication.log
    pushed,     \* pushed_seq
    push,       \* the push_pending under way
    epoch,      \* the incarnation of the master: its connections
    client,     \* client[s]: the master's connection to s: none, up or broken
    requests,   \* requests[s][e]: what s has yet to read of connection e
    answers,    \* answers[s]: what the master has yet to read of its connection
    data,       \* data[s][d]: the write of d that s holds
    \* history
    newest,     \* newest[d]: the last write of d that the master recorded
    kept,       \* writes whose append succeeded
    applied,    \* applied[s]: writes that s has ever applied
    promised,   \* writes that `record` has reported done in sync mode
    writes, faults

masterVars == <<log, disk, pushed, push, epoch>>
wireVars == <<client, requests, answers>>
slaveVars == <<data, applied>>
histVars == <<newest, kept, promised, writes>>
vars == <<setting, masterVars, wireVars, slaveVars, histVars, faults>>

Write == 1..MaxWrites
Entry == [seq : Write, doc : Doc, no : Write]
Epoch == 0..MaxFaults
Failed == 0    \* an answer that is an error; numbers begin with 1
Idle == [at |-> "idle", left |-> <<>>, batch |-> <<>>, acked |-> 0, of |-> 0]

Tail_seq(entries) == IF entries = <<>> THEN 0 ELSE Last(entries).seq
Slaves == ToSet(setting.slaves)
Nos(entries) == {e.no : e \in ToSet(entries)}

Init ==
    /\ setting \in Settings
    /\ log = <<>> /\ disk = <<>> /\ pushed = 0 /\ push = Idle /\ epoch = 0
    /\ client = [s \in Slave |-> "none"]
    /\ requests = [s \in Slave |-> [e \in Epoch |-> <<>>]]
    /\ answers = [s \in Slave |-> <<>>]
    /\ data = [s \in Slave |-> [d \in Doc |-> 0]]
    /\ newest = [d \in Doc |-> 0]
    /\ kept = {} /\ applied = [s \in Slave |-> {}] /\ promised = {}
    /\ writes = 0 /\ faults = 0

Happens(fault) ==
    /\ fault \in setting.faults
    /\ faults < MaxFaults /\ faults' = faults + 1

---------------------------------------------------------------------------
(* The master *)

\* Mutant of Pushing: only what is after pushed_seq, as `pending` says.
PushingNew(entries, of) ==
    LET new == SelectSeq(entries, LAMBDA e : e.seq > pushed)
    IN  IF new = <<>> \/ setting.slaves = <<>> THEN Idle
        ELSE [at |-> "call", left |-> setting.slaves, batch |-> new, acked |-> 0, of |-> of]

Pushing(entries, of) ==
    IF entries = <<>> \/ setting.slaves = <<>> THEN Idle
    ELSE [at |-> "call", left |-> setting.slaves, batch |-> entries, acked |-> 0, of |-> of]

\* record: the number after the last one in the log, and in sync mode a push.
\* An append whose file fails leaves the entry in memory and reports an error.
record(d) ==
    /\ push = Idle
    /\ writes < MaxWrites /\ writes' = writes + 1
    /\ newest' = [newest EXCEPT ![d] = writes']
    /\ LET entry == [seq |-> Tail_seq(log) + 1, doc |-> d, no |-> writes']
       IN  /\ log' = Append(log, entry)
           /\ \/ /\ disk' = log'
                 /\ kept' = kept \cup {entry.no}
                 /\ push' = IF setting.sync THEN Pushing(log', entry.no) ELSE Idle
                 /\ UNCHANGED faults
              \/ /\ Happens("file")
                 /\ UNCHANGED <<disk, kept, push>>
    /\ UNCHANGED <<setting, pushed, epoch, wireVars, slaveVars, promised>>

\* push_pending of the background thread.
push_pending ==
    /\ push = Idle /\ log # <<>>
    /\ push' = Pushing(log, 0)
    /\ UNCHANGED <<setting, log, disk, pushed, epoch, wireVars, slaveVars, histVars, faults>>

Callee == Head(push.left)

\* client, call: the whole log to the next slave, over a connection made once;
\* none can be made, or the one there is has ended, at the latest seen by the
\* read that follows.
call ==
    /\ push.at = "call"
    /\ \/ /\ client[Callee] # "broken"
          /\ client' = [client EXCEPT ![Callee] = "up"]
          /\ requests' = [requests EXCEPT ![Callee][epoch] = Append(@, push.batch)]
          /\ push' = [push EXCEPT !.at = "wait"]
          /\ UNCHANGED faults
       \/ /\ client[Callee] = "broken"
          /\ push' \in {Idle, [push EXCEPT !.at = "wait"]}
          /\ UNCHANGED <<client, requests, faults>>
       \/ /\ client[Callee] = "none" /\ Happens("slave")
          /\ push' = Idle
          /\ UNCHANGED <<client, requests>>
    /\ UNCHANGED <<setting, log, disk, pushed, epoch, answers, slaveVars, histVars>>

\* retain: numbers ascend in the log, so its end is what stays.
After(to) ==
    SubSeq(log, Max({0} \cup {i \in DOMAIN log : log[i].seq <= to}) + 1, Len(log))

\* Mutant of advance: cuts the entry after the acknowledged one as well.
AdvanceCutsNext(to) ==
    IF to <= pushed THEN UNCHANGED <<log, disk, pushed, faults>>
    ELSE /\ pushed' = to
         /\ log' = After(to + 1)
         /\ disk' = log' /\ UNCHANGED faults

\* advance: never backwards; the file is written, or not, without a word.
advance(to) ==
    IF to <= pushed THEN UNCHANGED <<log, disk, pushed, faults>>
    ELSE /\ pushed' = to
         /\ log' = After(to)
         /\ \/ disk' = log' /\ UNCHANGED faults
            \/ Happens("file") /\ UNCHANGED disk

\* read_frame: the next answer, whichever call it belongs to.  After the last
\* slave the log is cut at the largest acknowledgement.
Read ==
    /\ push.at = "wait" /\ answers[Callee] # <<>>
    /\ answers' = [answers EXCEPT ![Callee] = Tail(@)]
    /\ LET answer == Head(answers[Callee])
       IN  IF answer = Failed
           THEN push' = Idle /\ UNCHANGED <<log, disk, pushed, promised, faults>>
           ELSE LET most == Max({push.acked, answer})
                IN  IF Len(push.left) > 1
                    THEN /\ push' = [push EXCEPT !.at = "call", !.left = Tail(@), !.acked = most]
                         /\ UNCHANGED <<log, disk, pushed, promised, faults>>
                    ELSE /\ advance(most)
                         /\ push' = Idle
                         /\ promised' = promised \cup ({push.of} \cap Write)
    /\ UNCHANGED <<setting, epoch, client, requests, slaveVars, newest, kept, writes>>

\* No answer within ack_timeout_ms, or none to come: the push ends, the
\* client stays.
GivesUp ==
    /\ push.at = "wait" /\ answers[Callee] = <<>>
    /\ \/ client[Callee] = "broken" /\ UNCHANGED faults
       \/ Happens("timeout")
    /\ push' = Idle
    /\ UNCHANGED <<setting, log, disk, pushed, epoch, wireVars, slaveVars, histVars>>

\* open, new: the log's file, no connection, and the last number counts as
\* acknowledged.
MasterRestarts ==
    /\ Happens("master")
    /\ log' = disk /\ pushed' = Tail_seq(disk) /\ push' = Idle
    /\ epoch' = epoch + 1
    /\ client' = [s \in Slave |-> "none"]
    /\ answers' = [s \in Slave |-> <<>>]
    /\ UNCHANGED <<setting, disk, requests, slaveVars, histVars>>

---------------------------------------------------------------------------
(* The slaves *)

\* Mutant of Applied: the first entry of a document in a batch wins.
AppliedFirst(state, entries) ==
    [d \in Doc |-> LET of == {i \in DOMAIN entries : entries[i].doc = d}
                   IN  IF of = {} THEN state[d] ELSE entries[Min(of)].no]

Applied(state, entries) ==
    [d \in Doc |-> LET of == {i \in DOMAIN entries : entries[i].doc = d}
                   IN  IF of = {} THEN state[d] ELSE entries[Max(of)].no]

Answer(s, e, answer) ==
    answers' = IF e = epoch THEN [answers EXCEPT ![s] = Append(@, answer)] ELSE answers

Does(s, entries) ==
    /\ data' = [data EXCEPT ![s] = Applied(@, entries)]
    /\ applied' = [applied EXCEPT ![s] = @ \cup Nos(entries)]

\* repl.apply, under the engine's mutex: every entry in order, then the last
\* number; an engine error ends it in the middle.
apply(s, e) ==
    /\ requests[s][e] # <<>>
    /\ requests' = [requests EXCEPT ![s][e] = Tail(@)]
    /\ LET batch == Head(requests[s][e])
       IN  \/ Does(s, batch) /\ Answer(s, e, Tail_seq(batch)) /\ UNCHANGED faults
          \/ \E n \in 0..Len(batch) - 1 :
                /\ Does(s, SubSeq(batch, 1, n)) /\ Answer(s, e, Failed)
                /\ Happens("apply")
    /\ UNCHANGED <<setting, masterVars, client, histVars>>

\* A slave restarts, perhaps in the middle of a batch: unread requests are
\* gone, answers already sent are not.
SlaveRestarts(s) ==
    /\ Happens("slave")
    /\ \/ UNCHANGED slaveVars
       \/ \E e \in Epoch :
            /\ requests[s][e] # <<>>
            /\ \E n \in DOMAIN Head(requests[s][e]) :
                 Does(s, SubSeq(Head(requests[s][e]), 1, n))
    /\ requests' = [requests EXCEPT ![s] = [e \in Epoch |-> <<>>]]
    /\ client' = [client EXCEPT ![s] = IF @ = "up" THEN "broken" ELSE @]
    /\ UNCHANGED <<setting, masterVars, answers, histVars>>

Next ==
    \/ \E d \in Doc : record(d)
    \/ push_pending \/ call \/ Read \/ GivesUp \/ MasterRestarts
    \/ \E s \in Slave : SlaveRestarts(s) \/ \E e \in Epoch : apply(s, e)

Spec == Init /\ [][Next]_vars

(* In async mode, and only there, the background pushes again and again; a *)
(* call ends, and a slave serves what it has been sent.                    *)
FairSpec ==
    /\ Spec
    /\ WF_vars(~setting.sync /\ push_pending) /\ WF_vars(call) /\ WF_vars(Read) /\ WF_vars(GivesUp)
    /\ \A s \in Slave, e \in Epoch : WF_vars(apply(s, e))

---------------------------------------------------------------------------
(* Properties *)

\* The types of the log, the connections and the slaves (replication.rs).
TypeOK ==
    /\ setting \in Settings
    /\ log \in Seq(Entry) /\ disk \in Seq(Entry)
    /\ pushed \in 0..MaxWrites /\ epoch \in Epoch
    /\ push \in [at : {"idle", "call", "wait"}, left : Seq(Slave), batch : Seq(Entry),
                 acked : 0..MaxWrites, of : 0..MaxWrites]
    /\ client \in [Slave -> {"none", "up", "broken"}]
    /\ requests \in [Slave -> [Epoch -> Seq(Seq(Entry))]]
    /\ answers \in [Slave -> Seq(Write \cup {Failed})]
    /\ data \in [Slave -> [Doc -> 0..MaxWrites]]
    /\ newest \in [Doc -> 0..MaxWrites]
    /\ kept \subseteq Write /\ promised \subseteq kept
    /\ applied \in [Slave -> SUBSET Write]
    /\ writes \in 0..MaxWrites /\ faults \in 0..MaxFaults

(* A call to one of several slaves may read the answer of an earlier one:  *)
(* the largest acknowledgement then is no bound for that slave.            *)
Trusted == Cardinality(Slaves) = 1 \/ "timeout" \notin setting.faults

\* A write leaves the log only when every slave has applied it, although the
\* numbers start again when the log is empty, old answers are read as new
\* ones, files fail and both sides restart (advance); with several slaves
\* only as long as no call has timed out.
NothingDropped ==
    Trusted => \A s \in Slaves : kept \subseteq applied[s] \cup Nos(log)

Settled ==
    /\ log = <<>> /\ push = Idle
    /\ \A s \in Slaves, e \in Epoch : requests[s][e] = <<>>

(* What is sent again may end in the middle, or come from before a restart *)
(* of the master; both leave an older write over a newer one.              *)
InOrder ==
    /\ "master" \notin setting.faults
    /\ "timeout" \in setting.faults => setting.faults \cap {"apply", "slave"} = {}

\* When the log is empty and nothing is on the way, every slave holds the last
\* write of every document, although whole logs are sent and applied again
\* (push_pending, repl.apply).
CaughtUp ==
    Trusted /\ InOrder /\ Settled => \A s \in Slaves : data[s] = newest

\* In async mode every write in the log reaches every slave: the background
\* sends what is left as often as it takes, through timeouts, failed files,
\* errors of the engine and restarts of the master; a connection that ends is
\* never replaced, so not when a slave restarts (push_pending, client).
Reaches ==
    \A w \in Write, s \in Slave :
        (~setting.sync /\ w \in kept /\ s \in Slaves /\ Trusted /\ "slave" \notin setting.faults)
            ~> (w \in applied[s])
===========================================================================
