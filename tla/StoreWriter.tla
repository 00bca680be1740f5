---------------------------- MODULE StoreWriter ----------------------------
(***************************************************************************)
(* The store: callers that hand their writes to one writer goroutine over   *)
(* a bounded queue, each waiting for the answer on a channel of its own for *)
(* a limited time; the writer; and Close, which cancels the context, waits  *)
(* for the writer for a limited time and closes the database.  The timeouts *)
(* of ten and thirty seconds may expire whenever they are waited for.       *)
(* The database is reduced to the step rows and the cached copy of one      *)
(* issue and the number of records only ever added.  Times are numbers, 0   *)
(* an issue without an update time; a nonzero time is replaced by the       *)
(* synchronisation's older one only when it cannot be read.                 *)
(***************************************************************************)
EXTENDS Naturals, Sequences, FiniteSets

CONSTANTS
    Caller,     \* goroutines that write
    Calls,      \* bound: writes of each
    Total,      \* bound: writes of all of them
    Writes,     \* what they write
    Capacity,   \* of the job channel
    MaxTime,    \* bound: update times
    MaxFaults,  \* bound: statements and reads that fail in an open database
    Idle        \* no job, no caller

ASSUME StoreAssumption ==
    /\ Calls \in Nat /\ Capacity \in Nat \ {0}
    /\ MaxTime \in Nat \ {0} /\ MaxFaults \in Nat

Job == Caller \X (1..Calls)

ASSUME IdleAssumption == Idle \notin Job /\ Idle \notin Caller

\* The writes: step rows, the issue cache, and records nothing here reads.
Kinds == {"insert", "finish", "delete", "add", "save", "sync"}

ASSUME WritesAssumption == Writes \subseteq [kind : Kinds, time : 0..MaxTime]

\* The write of a call not begun, and one that has been executed.
Nothing == [kind |-> "add", row |-> 0, time |-> 0]

VARIABLES
    closer,      \* Close: not called, waiting for the writer, or finished
    writer,      \* startWriter: in its loop, in its last loop, or gone
    job,         \* the job it executes, or Idle
    queue,       \* s.jobCh
    phase,       \* what each caller is at
    called,      \* writes each caller has begun
    write,       \* what each job writes
    result,      \* each job's result channel
    value,       \* the row number in it
    told,        \* what the caller of each job was told
    own,         \* the row each caller was told of last
    rows,        \* task_steps: who inserted and who ended each row
    cached,      \* updated_at of the cached issue, or "absent"
    effect,      \* jobs whose statement was executed
    late,        \* jobs that entered the queue when the writer was gone
    faults       \* bound

tables   == <<rows, cached>>
callVars == <<phase, called, write, told, own>>
vars == <<closer, writer, job, queue, callVars, result, value, tables, effect, late, faults>>

cancelled == closer # "idle"
open == closer # "done"

None == "none"
Answers == {None, "ok", "error"}
Absent == MaxTime + 1

TypeOK ==
    /\ closer \in {"idle", "waiting", "done"}
    /\ writer \in {"serving", "draining", "gone"}
    /\ job \in Job \cup {Idle}
    /\ queue \in Seq(Job) /\ Len(queue) <= Capacity
    /\ phase \in [Caller -> {"idle", "enqueueing", "waiting"}]
    /\ called \in [Caller -> 0..Calls]
    /\ result \in [Job -> Answers] /\ told \in [Job -> Answers]
    /\ effect \subseteq Job /\ late \subseteq Job

Init ==
    /\ closer = "idle"
    /\ writer = "serving" /\ job = Idle /\ queue = <<>>
    /\ phase = [c \in Caller |-> "idle"] /\ called = [c \in Caller |-> 0]
    /\ write = [j \in Job |-> Nothing]
    /\ result = [j \in Job |-> None] /\ value = [j \in Job |-> 0]
    /\ told = [j \in Job |-> None] /\ own = [c \in Caller |-> 0]
    /\ rows = <<>> /\ cached = Absent
    /\ effect = {} /\ late = {} /\ faults = 0

-----------------------------------------------------------------------------
(* Callers: submitWriteWithResult.                                         *)

\* The call a caller is in.
Current(c) == <<c, called[c]>>

\* A caller ends only rows it was told of.
Begin(c, w) ==
    /\ phase[c] = "idle" /\ called[c] < Calls
    /\ Cardinality({j \in Job : j[2] <= called[j[1]]}) < Total
    /\ w.kind = "finish" => own[c] # 0
    /\ called' = [called EXCEPT ![c] = @ + 1]
    /\ phase' = [phase EXCEPT ![c] = "enqueueing"]
    /\ write' = [write EXCEPT ![<<c, called[c] + 1>>] =
           [kind |-> w.kind, time |-> w.time, row |-> IF w.kind = "finish" THEN own[c] ELSE 0]]
    /\ UNCHANGED <<closer, writer, job, queue, told, own, result, value, tables, effect, late, faults>>

\* Faulty: one job more than the channel holds.
RoomForOneMore == Len(queue) <= Capacity

Room == Len(queue) < Capacity

\* The select takes any ready case: a job may enter after Close, too.
Enqueue(c) ==
    /\ phase[c] = "enqueueing" /\ Room
    /\ queue' = Append(queue, Current(c))
    /\ phase' = [phase EXCEPT ![c] = "waiting"]
    /\ late' = IF writer = "gone" THEN late \cup {Current(c)} ELSE late
    /\ UNCHANGED <<closer, writer, job, called, write, told, own, result, value, tables, effect, faults>>

Tell(c, answer) ==
    /\ told' = [told EXCEPT ![Current(c)] = answer]
    /\ phase' = [phase EXCEPT ![c] = "idle"]
    /\ UNCHANGED <<closer, writer, job, queue, called, result, value, tables, effect, late, faults>>

GiveUp(c) ==
    /\ Tell(c, "error")
    /\ write' = [write EXCEPT ![Current(c)] = Nothing]
    /\ UNCHANGED own

RefuseClosed(c) ==
    /\ phase[c] = "enqueueing" /\ cancelled
    /\ GiveUp(c)

EnqueueTimesOut(c) ==
    /\ phase[c] = "enqueueing"
    /\ GiveUp(c)

\* Faulty: the number of the row inserted last, whoever did.
RowToldLatest(j) == Len(rows)

RowTold(j) == value[j]

Receive(c) ==
    /\ phase[c] = "waiting" /\ result[Current(c)] # None
    /\ Tell(c, result[Current(c)]) /\ UNCHANGED write
    /\ own' = IF result[Current(c)] = "ok" /\ value[Current(c)] # 0
              THEN [own EXCEPT ![c] = RowTold(Current(c))] ELSE own

AfterTimeout(c) == Tell(c, "error") /\ UNCHANGED write

\* Faulty: the answer is waited for without a limit.
WaitsForEver(c) == FALSE /\ UNCHANGED vars

WaitTimesOut(c) ==
    /\ phase[c] = "waiting"
    /\ AfterTimeout(c) /\ UNCHANGED own

-----------------------------------------------------------------------------
(* The writer goroutine: startWriter, executeJob.                          *)

\* The job channel and the cancelled context may both be ready: either is taken.
Take ==
    /\ writer # "gone" /\ job = Idle /\ queue # <<>>
    /\ job' = Head(queue) /\ queue' = Tail(queue)
    /\ UNCHANGED <<closer, writer, callVars, result, value, tables, effect, late, faults>>

\* Faulty: the writer ends as soon as the context is cancelled.
NoticedAtOnce == "gone"

Noticed == "draining"

NoticeCancel ==
    /\ writer = "serving" /\ job = Idle /\ cancelled
    /\ writer' = Noticed
    /\ UNCHANGED <<closer, job, queue, callVars, result, value, tables, effect, late, faults>>

Leave ==
    /\ writer = "draining" /\ job = Idle /\ queue = <<>>
    /\ writer' = "gone"
    /\ UNCHANGED <<closer, job, queue, callVars, result, value, tables, effect, late, faults>>

\* Faulty: the comparison the wrong way round.
StaleReversed(w) ==
    w.kind = "sync" /\ cached \in 1..MaxTime /\ w.time # 0 /\ cached < w.time

\* The synchronisation's copy of an issue is older than the cached one.
Stale(w) ==
    w.kind = "sync" /\ cached \in 1..MaxTime /\ w.time # 0 /\ cached > w.time

InsertStep(c) ==
    /\ rows' = Append(rows, [by |-> c, ended |-> Idle, there |-> TRUE])
    /\ UNCHANGED cached

\* FinishStep and FailStep alike; a row that is gone is not an error.
EndStep(c, i) ==
    /\ rows' = IF rows[i].there THEN [rows EXCEPT ![i].ended = c] ELSE rows
    /\ UNCHANGED cached

\* Row numbers are not used again.
DeleteSteps ==
    /\ rows' = [i \in DOMAIN rows |-> [rows[i] EXCEPT !.there = FALSE]]
    /\ UNCHANGED cached

SaveIssueCache(w) ==
    /\ cached' = IF Stale(w) THEN cached ELSE w.time
    /\ UNCHANGED rows

\* Reading the cached copy fails: any error counts as no copy.
SaveUnread(w) ==
    /\ w.kind = "sync" /\ cached # Absent
    /\ faults < MaxFaults /\ faults' = faults + 1
    /\ cached' = w.time
    /\ UNCHANGED rows

\* SaveStageMetric, SaveStageChange: records nothing reads here.
AddRecord == UNCHANGED tables

Run(c, w) ==
    \/ /\ UNCHANGED faults
       /\ \/ w.kind = "insert" /\ InsertStep(c)
          \/ w.kind = "finish" /\ EndStep(c, w.row)
          \/ w.kind = "delete" /\ DeleteSteps
          \/ w.kind = "add" /\ AddRecord
          \/ w.kind \in {"save", "sync"} /\ SaveIssueCache(w)
    \/ SaveUnread(w)

\* The result channel has room for the one answer it gets; of a caller that
\* has left it keeps nothing.
Answer(j, answer, row) ==
    IF told[j] = None
    THEN result' = [result EXCEPT ![j] = answer] /\ value' = [value EXCEPT ![j] = row]
    ELSE UNCHANGED <<result, value>>

Execute ==
    /\ job # Idle /\ open
    /\ Run(job[1], write[job])
    /\ effect' = effect \cup {job}
    /\ Answer(job, "ok", IF write[job].kind = "insert" THEN Len(rows') ELSE 0)
    /\ write' = [write EXCEPT ![job] = Nothing]
    /\ job' = Idle
    /\ UNCHANGED <<closer, writer, queue, phase, called, told, own, late>>

\* Faulty: the error of a statement is dropped.
FailureDropped == "ok"

Failure == "error"

\* A statement fails by itself, or because the database is closed.
ExecuteFails ==
    /\ job # Idle
    /\ open => faults < MaxFaults
    /\ faults' = IF open THEN faults + 1 ELSE faults
    /\ Answer(job, Failure, 0)
    /\ write' = [write EXCEPT ![job] = Nothing]
    /\ job' = Idle
    /\ UNCHANGED <<closer, writer, queue, phase, called, told, own, tables, effect, late>>

-----------------------------------------------------------------------------
(* Close.                                                                  *)

Cancel ==
    /\ closer = "idle"
    /\ closer' = "waiting"
    /\ UNCHANGED <<writer, job, queue, callVars, result, value, tables, effect, late, faults>>

CloseDB ==
    /\ closer' = "done"
    /\ UNCHANGED <<writer, job, queue, callVars, result, value, tables, effect, late, faults>>

CloseAfterWriter == closer = "waiting" /\ writer = "gone" /\ CloseDB

CloseTimesOut == closer = "waiting" /\ CloseDB

CallerStep(c) ==
    \/ \E w \in Writes : Begin(c, w)
    \/ Enqueue(c) \/ RefuseClosed(c) \/ EnqueueTimesOut(c)
    \/ Receive(c) \/ WaitTimesOut(c)

WriterStep == Take \/ NoticeCancel \/ Leave \/ Execute \/ ExecuteFails

CloseStep == Cancel \/ CloseAfterWriter \/ CloseTimesOut

Next == (\E c \in Caller : CallerStep(c)) \/ WriterStep \/ CloseStep

Spec == Init /\ [][Next]_vars

\* The goroutines that were started run, and the timers they wait for fire.
Fairness ==
    /\ WF_vars(WriterStep)
    /\ WF_vars(CloseAfterWriter \/ CloseTimesOut)
    /\ \A c \in Caller : WF_vars(EnqueueTimesOut(c)) /\ WF_vars(WaitTimesOut(c) \/ Receive(c))

FairSpec == Spec /\ Fairness

-----------------------------------------------------------------------------
(* Properties.                                                             *)

\* The store keeps the promise AtomicStore states, although callers time
\* out while their job waits, is executed or is answered, and although
\* Close may come at any moment.  (submitWriteWithResult, executeJob)
Atomic == INSTANCE AtomicStore

KeepsPromise == Atomic!ASpec

\* A step row is ended by the caller that inserted it: answers do not mix,
\* and numbers of deleted rows do not come back.  (InsertStep, FinishStep)
RowsEndedByOwner ==
    \A i \in DOMAIN rows : rows[i].ended \in {Idle, rows[i].by}

\* The synchronisation replaces a cached issue by an older copy only when
\* the cached one could not be read, whatever was saved between its call and
\* the write.  (SaveIssueCache, getIssueCacheInternal)
CacheForward ==
    [][\A w \in {write[j] : j \in effect' \ effect} :
           w.kind = "sync" /\ w.time # 0 /\ cached \in 1..MaxTime /\ faults' = faults
               => cached' >= cached]_vars

\* What entered the queue while the writer was there was executed before it
\* left: Close loses no accepted write.  (startWriter's last loop)
NothingAcceptedIsLost ==
    writer = "gone" => \A i \in DOMAIN queue : queue[i] \in late

\* Every call returns, and Close does.  (the timeouts of
\* submitWriteWithResult and Close)
CallsReturn ==
    /\ \A c \in Caller : phase[c] # "idle" ~> phase[c] = "idle"
    /\ closer = "waiting" ~> closer = "done"
=============================================================================
