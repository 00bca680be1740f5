---------------------------- MODULE StoreProofs ----------------------------
(***************************************************************************)
(* The store keeps the promise of AtomicStore, for every set of callers,    *)
(* number of writes, capacity of the queue and number of failing            *)
(* statements, whatever times out and whenever Close comes.                 *)
(***************************************************************************)
EXTENDS StoreWriter, TLAPS

(* A job waits in the queue, or with the writer, or has had its effect:     *)
(* only one of the three, and in this order the jobs of a caller grow older.*)
Waiting(j) == \E i \in 1..Len(queue) : queue[i] = j

InOrder ==
    /\ \A i, k \in 1..Len(queue) :
           i < k /\ queue[i][1] = queue[k][1] => queue[i][2] < queue[k][2]
    /\ \A i \in 1..Len(queue) :
           job # Idle /\ job[1] = queue[i][1] => job[2] < queue[i][2]
    /\ \A e \in effect :
           /\ \A i \in 1..Len(queue) : e[1] = queue[i][1] => e[2] < queue[i][2]
           /\ job # Idle /\ e[1] = job[1] => e[2] < job[2]

(* The job of a call that is still enqueueing is nowhere yet.               *)
Handed(j) ==
    /\ j[2] <= called[j[1]]
    /\ phase[j[1]] = "enqueueing" => j[2] < called[j[1]]

OnlyHanded ==
    /\ \A i \in 1..Len(queue) : Handed(queue[i])
    /\ job # Idle => Handed(job)
    /\ \A e \in effect : Handed(e)

(* The calls of a caller: all but the current one have returned.            *)
OneCallAtATime ==
    /\ \A c \in Caller : phase[c] # "idle" => called[c] > 0 /\ told[<<c, called[c]>>] = None
    /\ \A c \in Caller : phase[c] = "idle" /\ called[c] > 0 => told[<<c, called[c]>>] # None
    /\ \A c \in Caller, n \in 1..Calls : n > called[c] => told[<<c, n>>] = None

OkIsEffect == \A j \in Job : result[j] = "ok" \/ told[j] = "ok" => j \in effect

StoreInv == TypeOK /\ InOrder /\ OnlyHanded /\ OneCallAtATime /\ OkIsEffect

-----------------------------------------------------------------------------
LEMMA StoreInit == Init => StoreInv
  BY StoreAssumption DEF Init, StoreInv, TypeOK, InOrder, OnlyHanded, OneCallAtATime, OkIsEffect,
     None, Answers, Job

(* The call a caller is in is a job.                                        *)
LEMMA CurrentIsJob ==
    ASSUME StoreInv, NEW c \in Caller, phase[c] # "idle"
    PROVE  /\ Current(c) \in Job /\ Current(c)[1] = c /\ Current(c)[2] = called[c]
           /\ called[c] \in 1..Calls
  BY StoreAssumption DEF StoreInv, TypeOK, OneCallAtATime, Current, Job

LEMMA BeginKeeps ==
    ASSUME StoreInv, NEW c \in Caller, NEW w, Begin(c, w)
    PROVE  StoreInv'
  <1> USE StoreAssumption
  <1>1. called[c] \in Nat /\ called[c] + 1 \in 1..Calls /\ phase[c] = "idle"
    BY DEF StoreInv, TypeOK, Begin
  <1>2. TypeOK'
    BY <1>1 DEF StoreInv, TypeOK, Begin, tables
  <1>3. InOrder'
    BY DEF StoreInv, InOrder, Begin, tables
  <1>4. \A j \in Job : Handed(j) => Handed(j)'
    BY <1>1 DEF StoreInv, TypeOK, Handed, Begin, Job
  <1>5. OnlyHanded'
    BY <1>4 DEF StoreInv, TypeOK, OnlyHanded, Begin
  <1>6. OneCallAtATime'
    BY <1>1 DEF StoreInv, TypeOK, OneCallAtATime, Begin, None
  <1>7. OkIsEffect'
    BY DEF StoreInv, OkIsEffect, Begin
  <1> QED
    BY <1>2, <1>3, <1>5, <1>6, <1>7 DEF StoreInv

LEMMA EnqueueKeeps ==
    ASSUME StoreInv, NEW c \in Caller, Enqueue(c)
    PROVE  StoreInv'
  <1> USE StoreAssumption
  <1>0. PICK j \in Job : j = Current(c)
    BY CurrentIsJob DEF Enqueue
  <1>1. /\ j[1] = c /\ j[2] = called[c] /\ called[c] \in 1..Calls
        /\ phase[c] = "enqueueing" /\ phase' = [phase EXCEPT ![c] = "waiting"]
    BY <1>0, CurrentIsJob DEF Enqueue
  <1>2. /\ queue \in Seq(Job) /\ queue' = Append(queue, j)
        /\ Len(queue') = Len(queue) + 1 /\ queue'[Len(queue) + 1] = j
        /\ \A i \in 1..Len(queue) : queue'[i] = queue[i]
        /\ Len(queue) \in Nat
    BY <1>0, <1>1 DEF StoreInv, TypeOK, Enqueue
  <1>3. UNCHANGED <<job, effect, called, told, result, closer, writer>>
    BY DEF Enqueue
  <1>4. TypeOK'
    <2>1. queue' \in Seq(Job) /\ Len(queue') <= Capacity
      BY <1>1, <1>2 DEF Enqueue, Room
    <2>2. late' \subseteq Job
      BY <1>0, <1>1 DEF StoreInv, TypeOK, Enqueue
    <2> QED
      BY <2>1, <2>2, <1>1, <1>3 DEF StoreInv, TypeOK
  <1>5. InOrder'
    <2>1. \A i \in 1..Len(queue) : queue[i][1] = c => queue[i][2] < called[c]
      BY <1>1 DEF StoreInv, OnlyHanded, Handed
    <2>2. job # Idle /\ job[1] = c => job[2] < called[c]
      BY <1>1 DEF StoreInv, OnlyHanded, Handed
    <2>3. \A e \in effect : e[1] = c => e[2] < called[c]
      BY <1>1 DEF StoreInv, OnlyHanded, Handed
    <2>4. \A i \in 1..Len(queue') : i \in 1..Len(queue) \/ i = Len(queue) + 1
      BY <1>2
    <2>5. \A i, k \in 1..Len(queue') :
             i < k /\ queue'[i][1] = queue'[k][1] => queue'[i][2] < queue'[k][2]
      BY <2>1, <2>4, <1>1, <1>2 DEF StoreInv, InOrder
    <2>6. \A i \in 1..Len(queue') : job # Idle /\ job[1] = queue'[i][1] => job[2] < queue'[i][2]
      BY <2>2, <2>4, <1>1, <1>2 DEF StoreInv, InOrder
    <2>7. \A e \in effect : \A i \in 1..Len(queue') : e[1] = queue'[i][1] => e[2] < queue'[i][2]
      BY <2>3, <2>4, <1>1, <1>2 DEF StoreInv, InOrder
    <2> QED
      BY <2>5, <2>6, <2>7, <1>3 DEF StoreInv, InOrder
  <1>6. OnlyHanded'
    <2>1. \A x \in Job : Handed(x) => Handed(x)'
      BY <1>1, <1>3 DEF StoreInv, TypeOK, Handed, Job
    <2>2. Handed(j)'
      BY <1>1, <1>3 DEF StoreInv, TypeOK, Handed
    <2>3. \A i \in 1..Len(queue) : \E x \in Job : queue[i] = x /\ Handed(x)'
      BY <2>1 DEF StoreInv, TypeOK, OnlyHanded
    <2>4. \A i \in 1..Len(queue') : i \in 1..Len(queue) \/ i = Len(queue) + 1
      BY <1>2
    <2>5. (\A i \in 1..Len(queue) : Handed(queue[i]))'
      BY <2>2, <2>3, <2>4, <1>2 DEF Handed
    <2> QED
      BY <2>1, <2>5, <1>3 DEF StoreInv, TypeOK, OnlyHanded, Handed
  <1>7. OneCallAtATime'
    BY <1>1, <1>3 DEF StoreInv, TypeOK, OneCallAtATime
  <1>8. OkIsEffect'
    BY <1>3 DEF StoreInv, OkIsEffect
  <1> QED
    BY <1>4, <1>5, <1>6, <1>7, <1>8 DEF StoreInv

(* A call returns, with success only when its job has had its effect.       *)
LEMMA TellKeeps ==
    ASSUME StoreInv, NEW c \in Caller, NEW a \in {"ok", "error"}, Tell(c, a),
           phase[c] # "idle", a = "ok" => Current(c) \in effect
    PROVE  StoreInv'
  <1> USE StoreAssumption
  <1>1. /\ Current(c) \in Job /\ called[c] \in 1..Calls
        /\ told' = [told EXCEPT ![Current(c)] = a]
        /\ phase' = [phase EXCEPT ![c] = "idle"]
        /\ UNCHANGED <<closer, writer, job, queue, called, result, effect, late>>
    BY CurrentIsJob DEF Tell
  <1>2. TypeOK'
    BY <1>1 DEF StoreInv, TypeOK, Answers
  <1>3. InOrder'
    BY <1>1 DEF StoreInv, InOrder
  <1>4. \A x \in Job : Handed(x) => Handed(x)'
    BY <1>1 DEF StoreInv, TypeOK, Handed, Job
  <1>5. OnlyHanded'
    BY <1>1, <1>4 DEF StoreInv, TypeOK, OnlyHanded
  <1>6. OneCallAtATime'
    BY <1>1 DEF StoreInv, TypeOK, OneCallAtATime, Current, None, Job
  <1>7. OkIsEffect'
    BY <1>1 DEF StoreInv, TypeOK, OkIsEffect
  <1> QED
    BY <1>2, <1>3, <1>5, <1>6, <1>7 DEF StoreInv

LEMMA CallerKeeps ==
    ASSUME StoreInv, NEW c \in Caller, CallerStep(c)
    PROVE  StoreInv'
  <1>1. CASE \E w \in Writes : Begin(c, w)
    BY <1>1, BeginKeeps
  <1>2. CASE Enqueue(c)
    BY <1>2, EnqueueKeeps
  <1>3. CASE RefuseClosed(c) \/ EnqueueTimesOut(c) \/ WaitTimesOut(c)
    BY <1>3, TellKeeps DEF RefuseClosed, EnqueueTimesOut, WaitTimesOut, GiveUp, AfterTimeout
  <1>4. CASE Receive(c)
    <2>1. /\ result[Current(c)] \in {"ok", "error"}
          /\ result[Current(c)] = "ok" => Current(c) \in effect
      BY <1>4, CurrentIsJob DEF Receive, StoreInv, TypeOK, Answers, OkIsEffect
    <2> QED
      BY <1>4, <2>1, TellKeeps DEF Receive
  <1> QED
    BY <1>1, <1>2, <1>3, <1>4 DEF CallerStep

-----------------------------------------------------------------------------
LEMMA TakeKeeps ==
    ASSUME StoreInv, Take
    PROVE  StoreInv'
  <1>1. /\ queue \in Seq(Job) /\ Len(queue) \in Nat /\ Len(queue) > 0
        /\ job' = queue[1] /\ job' \in Job /\ queue' \in Seq(Job)
        /\ Len(queue') = Len(queue) - 1
        /\ \A i \in 1..Len(queue') : queue'[i] = queue[i + 1]
    BY DEF StoreInv, TypeOK, Take
  <1>2. /\ job = Idle
        /\ UNCHANGED <<closer, writer, phase, called, told, result, effect, late>>
    BY DEF Take, callVars
  <1>3. TypeOK'
    BY <1>1, <1>2, StoreAssumption DEF StoreInv, TypeOK
  <1>4. InOrder'
    <2>1. \A i \in 1..Len(queue') : i + 1 \in 1..Len(queue) /\ 1 < i + 1
      BY <1>1
    <2>2. \A i, k \in 1..Len(queue') :
             i < k /\ queue'[i][1] = queue'[k][1] => queue'[i][2] < queue'[k][2]
      <3> TAKE i, k \in 1..Len(queue')
      <3>1. i < k => i + 1 < k + 1
        OBVIOUS
      <3> QED
        BY <3>1, <2>1, <1>1 DEF StoreInv, InOrder
    <2>3. \A i \in 1..Len(queue') : job'[1] = queue'[i][1] => job'[2] < queue'[i][2]
      <3>1. 1 \in 1..Len(queue)
        BY <1>1
      <3> QED
        BY <3>1, <2>1, <1>1 DEF StoreInv, InOrder
    <2>4. \A e \in effect :
             /\ \A i \in 1..Len(queue') : e[1] = queue'[i][1] => e[2] < queue'[i][2]
             /\ e[1] = job'[1] => e[2] < job'[2]
      <3>1. 1 \in 1..Len(queue)
        BY <1>1
      <3> QED
        BY <3>1, <2>1, <1>1 DEF StoreInv, InOrder
    <2> QED
      BY <2>2, <2>3, <2>4, <1>2 DEF InOrder
  <1>5. OnlyHanded'
    <2>1. \A i \in 1..Len(queue) : Handed(queue[i])
      BY DEF StoreInv, OnlyHanded
    <2>2. \A x : Handed(x)' <=> Handed(x)
      BY <1>2 DEF Handed
    <2>3. \A i \in 1..Len(queue') : i + 1 \in 1..Len(queue)
      BY <1>1
    <2>4. \A i \in 1..Len(queue') : Handed(queue'[i])
      BY <2>1, <2>3, <1>1
    <2>5. Handed(job')
      BY <2>1, <1>1
    <2> QED
      BY <2>2, <2>4, <2>5, <1>2 DEF StoreInv, OnlyHanded, Handed
  <1>6. OneCallAtATime' /\ OkIsEffect'
    BY <1>2 DEF StoreInv, OneCallAtATime, OkIsEffect
  <1> QED
    BY <1>3, <1>4, <1>5, <1>6 DEF StoreInv

(* The result of a job, or none when its caller has left.                   *)
LEMMA Answering ==
    ASSUME StoreInv, job # Idle, NEW a \in {"ok", "error"}, NEW n, Answer(job, a, n)
    PROVE  /\ job \in Job /\ result' \in [Job -> Answers]
           /\ \A j \in Job : result'[j] = result[j] \/ (j = job /\ result'[j] = a)
  BY DEF StoreInv, TypeOK, Answer, Answers

LEMMA ExecuteKeeps ==
    ASSUME StoreInv, Execute
    PROVE  StoreInv'
  <1>1. /\ job \in Job /\ job # Idle /\ job' = Idle /\ effect' = effect \cup {job}
        /\ result' \in [Job -> Answers]
        /\ \A j \in Job : result'[j] = result[j] \/ j = job
        /\ UNCHANGED <<closer, writer, queue, phase, called, told, late>>
    BY Answering DEF Execute
  <1>2. TypeOK'
    BY <1>1 DEF StoreInv, TypeOK
  <1>3. InOrder'
    BY <1>1 DEF StoreInv, InOrder
  <1>4. OnlyHanded'
    BY <1>1 DEF StoreInv, OnlyHanded, Handed
  <1>5. OneCallAtATime'
    BY <1>1 DEF StoreInv, OneCallAtATime
  <1>6. OkIsEffect'
    BY <1>1 DEF StoreInv, OkIsEffect
  <1> QED
    BY <1>2, <1>3, <1>4, <1>5, <1>6 DEF StoreInv

LEMMA ExecuteFailsKeeps ==
    ASSUME StoreInv, ExecuteFails
    PROVE  StoreInv'
  <1>1. /\ job # Idle /\ job' = Idle
        /\ result' \in [Job -> Answers]
        /\ \A j \in Job : result'[j] = result[j] \/ result'[j] = "error"
        /\ UNCHANGED <<closer, writer, queue, phase, called, told, effect, late>>
    BY Answering DEF ExecuteFails, Failure
  <1>2. TypeOK'
    BY <1>1 DEF StoreInv, TypeOK
  <1>3. InOrder' /\ OnlyHanded' /\ OneCallAtATime'
    BY <1>1 DEF StoreInv, InOrder, OnlyHanded, Handed, OneCallAtATime
  <1>4. OkIsEffect'
    BY <1>1 DEF StoreInv, OkIsEffect
  <1> QED
    BY <1>2, <1>3, <1>4 DEF StoreInv

(* Steps of the writer and of Close that touch no job, and stuttering.      *)
LEMMA QuietKeeps ==
    ASSUME StoreInv, closer' \in {"idle", "waiting", "done"},
           writer' \in {"serving", "draining", "gone"},
           UNCHANGED <<job, queue, phase, called, told, result, effect, late>>
    PROVE  StoreInv'
  BY DEF StoreInv, TypeOK, InOrder, OnlyHanded, Handed, OneCallAtATime, OkIsEffect

LEMMA StoreStep == StoreInv /\ [Next]_vars => StoreInv'
  <1> SUFFICES ASSUME StoreInv, [Next]_vars PROVE StoreInv'
    OBVIOUS
  <1>1. CASE \E c \in Caller : CallerStep(c)
    BY <1>1, CallerKeeps
  <1>2. CASE Take \/ Execute \/ ExecuteFails
    BY <1>2, TakeKeeps, ExecuteKeeps, ExecuteFailsKeeps
  <1>3. CASE NoticeCancel \/ Leave
    BY <1>3, QuietKeeps DEF NoticeCancel, Leave, Noticed, callVars, StoreInv, TypeOK
  <1>4. CASE CloseStep
    BY <1>4, QuietKeeps DEF CloseStep, Cancel, CloseAfterWriter, CloseTimesOut, CloseDB, callVars, StoreInv, TypeOK
  <1>5. CASE UNCHANGED vars
    BY <1>5, QuietKeeps DEF vars, callVars, StoreInv, TypeOK
  <1> QED
    BY <1>1, <1>2, <1>3, <1>4, <1>5 DEF Next, WriterStep

LEMMA StoreSafe == Spec => []StoreInv
  BY StoreInit, StoreStep, PTL DEF Spec

(* Every variable keeps its range.  (the whole of db.go's write path)       *)
THEOREM StoreTypeCorrect == Spec => []TypeOK
  <1>1. StoreInv => TypeOK
    BY DEF StoreInv
  <1> QED
    BY <1>1, StoreSafe, PTL

(* Close loses no write that entered the queue before the writer left.      *)
(* (startWriter, Close)                                                     *)
LEMMA LeavesEmpty ==
    ASSUME StoreInv, NothingAcceptedIsLost, [Next]_vars
    PROVE  NothingAcceptedIsLost'
  <1> SUFFICES ASSUME writer' = "gone", NEW i \in DOMAIN queue' PROVE queue'[i] \in late'
    BY DEF NothingAcceptedIsLost
  <1>0. queue \in Seq(Job)
    BY DEF StoreInv, TypeOK
  <1>1. CASE \E c \in Caller : Enqueue(c)
    <2>1. PICK c \in Caller : Enqueue(c)
      BY <1>1
    <2>2. PICK x \in Job : x = Current(c)
      BY <2>1, CurrentIsJob DEF Enqueue
    <2>3. /\ writer = "gone" /\ queue' = Append(queue, x) /\ late' = late \cup {x}
      BY <2>1, <2>2 DEF Enqueue
    <2>4. \A k \in 1..Len(queue) : queue[k] \in late
      BY <1>0, <2>3 DEF NothingAcceptedIsLost
    <2> QED
      BY <1>0, <2>3, <2>4
  <1>2. CASE Leave
    BY <1>2 DEF Leave
  <1>3. CASE Take
    BY <1>3 DEF Take
  <1>4. CASE NoticeCancel
    BY <1>4 DEF NoticeCancel, Noticed
  <1>5. CASE UNCHANGED <<writer, queue, late>>
    BY <1>5 DEF NothingAcceptedIsLost
  <1>6. ASSUME NEW c \in Caller, CallerStep(c), ~Enqueue(c)
        PROVE  UNCHANGED <<writer, queue, late>>
    BY <1>6 DEF CallerStep, Begin, RefuseClosed, EnqueueTimesOut, GiveUp, Receive, WaitTimesOut,
       AfterTimeout, Tell
  <1>7. CASE Execute \/ ExecuteFails \/ CloseStep \/ UNCHANGED vars
    BY <1>5, <1>7 DEF Execute, ExecuteFails, CloseStep, Cancel, CloseAfterWriter, CloseTimesOut,
       CloseDB, vars
  <1> QED
    BY <1>1, <1>2, <1>3, <1>4, <1>5, <1>6, <1>7 DEF Next, WriterStep

(* What entered the queue while the writer was there is executed before it   *)
(* leaves.  (startWriter's last loop)                                       *)
THEOREM CloseLosesNothing == Spec => []NothingAcceptedIsLost
  <1>1. Init => NothingAcceptedIsLost
    BY DEF Init, NothingAcceptedIsLost
  <1> QED
    BY <1>1, LeavesEmpty, StoreSafe, PTL DEF Spec

-----------------------------------------------------------------------------
(* Every step of the store is a step of AtomicStore, or none: a call        *)
(* begins, a statement takes effect, or a call returns.                     *)
LEMMA CallerImplements ==
    ASSUME StoreInv, NEW c \in Caller, CallerStep(c)
    PROVE  [Atomic!ANext]_(Atomic!avars)
  <1>1. ASSUME NEW w \in Writes, Begin(c, w)
        PROVE  Atomic!Call(c)
    BY <1>1 DEF Begin, Atomic!Call, StoreInv, OneCallAtATime, TypeOK, None
  <1>2. CASE Enqueue(c)
    BY <1>2 DEF Enqueue, Atomic!avars
  <1>3. ASSUME NEW a \in {"ok", "error"}, Tell(c, a), phase[c] # "idle",
               a = "ok" => Current(c) \in effect
        PROVE  \E j \in Job : Atomic!Return(j, a)
    <2>1. PICK j \in Job : j = Current(c) /\ j[1] = c /\ j[2] = called[c]
      BY <1>3, CurrentIsJob
    <2>2. told[j] = "none"
      BY <2>1, <1>3 DEF StoreInv, OneCallAtATime, Current, None
    <2>3. j[2] <= called[j[1]]
      BY <2>1 DEF StoreInv, TypeOK
    <2> QED
      BY <2>1, <2>2, <2>3, <1>3 DEF Tell, Atomic!Return
  <1>4. CASE RefuseClosed(c) \/ EnqueueTimesOut(c) \/ WaitTimesOut(c)
    <2>1. Tell(c, "error") /\ phase[c] # "idle"
      BY <1>4 DEF RefuseClosed, EnqueueTimesOut, WaitTimesOut, GiveUp, AfterTimeout
    <2>2. \E j \in Job : Atomic!Return(j, "error")
      BY <2>1, <1>3
    <2> QED
      BY <2>2 DEF Atomic!ANext, Atomic!Job, Job
  <1>5. CASE Receive(c)
    <2>1. /\ result[Current(c)] \in {"ok", "error"} /\ phase[c] # "idle"
          /\ result[Current(c)] = "ok" => Current(c) \in effect
          /\ Tell(c, result[Current(c)])
      BY <1>5, CurrentIsJob DEF Receive, StoreInv, TypeOK, Answers, OkIsEffect
    <2>2. \E a \in {"ok", "error"}, j \in Job : Atomic!Return(j, a)
      BY <2>1, <1>3
    <2> QED
      BY <2>2 DEF Atomic!ANext, Atomic!Job, Job
  <1> QED
    BY <1>1, <1>2, <1>4, <1>5 DEF CallerStep, Atomic!ANext

LEMMA WriterImplements ==
    ASSUME StoreInv, WriterStep
    PROVE  [Atomic!ANext]_(Atomic!avars)
  <1>1. CASE Execute
    <2>1. /\ job \in Job /\ job # Idle /\ effect' = effect \cup {job}
          /\ UNCHANGED <<called, told>>
      BY <1>1 DEF Execute, StoreInv, TypeOK
    <2>2. /\ job[2] <= called[job[1]]
          /\ \A e \in effect : e[1] = job[1] => e[2] < job[2]
      BY <2>1 DEF StoreInv, OnlyHanded, Handed, InOrder
    <2>3. job \notin effect
      <3>1. job[1] \in Caller /\ job[2] \in Nat
        BY <2>1, StoreAssumption DEF Job
      <3> QED
        BY <2>2, <3>1
    <2>4. told[job] # "ok"
      BY <2>1, <2>3 DEF StoreInv, OkIsEffect
    <2>5. \A n \in 1..Calls : <<job[1], n>> \in effect => n < job[2]
      BY <2>2
    <2>6. Atomic!TakeEffect(job)
      BY <2>1, <2>2, <2>3, <2>4, <2>5 DEF Atomic!TakeEffect
    <2> QED
      BY <2>1, <2>6 DEF Atomic!ANext, Atomic!Job, Job
  <1>2. CASE Take \/ NoticeCancel \/ Leave \/ ExecuteFails
    BY <1>2 DEF Take, NoticeCancel, Leave, ExecuteFails, callVars, Atomic!avars
  <1> QED
    BY <1>1, <1>2 DEF WriterStep

(* The store implements AtomicStore: a caller told of success can rely on   *)
(* its write, nothing takes effect twice, and the writes of a caller take   *)
(* effect in the order of its calls.  (submitWriteWithResult, executeJob)   *)
THEOREM StoreImplementsAtomicStore == Spec => KeepsPromise
  <1>1. Init => Atomic!AInit
    BY DEF Init, Atomic!AInit, None, Job, Atomic!Job
  <1>2. StoreInv /\ [Next]_vars => [Atomic!ANext]_(Atomic!avars)
    <2> SUFFICES ASSUME StoreInv, [Next]_vars PROVE [Atomic!ANext]_(Atomic!avars)
      OBVIOUS
    <2>1. CASE \E c \in Caller : CallerStep(c)
      BY <2>1, CallerImplements
    <2>2. CASE WriterStep
      BY <2>2, WriterImplements
    <2>3. CASE CloseStep \/ UNCHANGED vars
      BY <2>3 DEF CloseStep, Cancel, CloseAfterWriter, CloseTimesOut, CloseDB, callVars, vars, Atomic!avars
    <2> QED
      BY <2>1, <2>2, <2>3 DEF Next
  <1> QED
    BY <1>1, <1>2, StoreSafe, PTL DEF Spec, KeepsPromise, Atomic!ASpec

-----------------------------------------------------------------------------
(* A number a caller is told, keeps or writes to is that of a row it has      *)
(* inserted.                                                                *)
Rows == [by : Caller, ended : Caller \cup {Idle}, there : BOOLEAN]

OwnRow(r, i, c) == i \in 1..Len(r) /\ r[i].by = c

RowInv ==
    /\ rows \in Seq(Rows)
    /\ write \in [Job -> [kind : Kinds, time : 0..MaxTime, row : Nat]]
    /\ DOMAIN own = Caller /\ DOMAIN value = Job
    /\ \A c \in Caller : own[c] = 0 \/ OwnRow(rows, own[c], c)
    /\ \A j \in Job : value[j] = 0 \/ OwnRow(rows, value[j], j[1])
    /\ \A j \in Job : write[j].kind = "finish" => OwnRow(rows, write[j].row, j[1])
    /\ \A i \in 1..Len(rows) : rows[i].ended \in {Idle, rows[i].by}

LEMMA NothingIsWrite ==
    Nothing \in [kind : Kinds, time : 0..MaxTime, row : Nat] /\ Nothing.kind # "finish"
  BY StoreAssumption DEF Nothing, Kinds

LEMMA RowInit == Init => RowInv
  <1> SUFFICES ASSUME Init PROVE RowInv
    OBVIOUS
  <1>1. write = [j \in Job |-> Nothing] /\ rows = <<>>
        /\ own = [c \in Caller |-> 0] /\ value = [j \in Job |-> 0]
    BY DEF Init
  <1> QED
    BY <1>1, NothingIsWrite DEF RowInv

LEMMA CallerKeepsRows ==
    ASSUME StoreInv, RowInv, NEW c \in Caller, CallerStep(c)
    PROVE  RowInv'
  <1>1. UNCHANGED <<rows, value>>
    BY DEF CallerStep, Begin, Enqueue, RefuseClosed, EnqueueTimesOut, GiveUp, Receive,
       WaitTimesOut, AfterTimeout, Tell, tables
  <1>2. CASE \E w \in Writes : Begin(c, w)
    <2>1. PICK w \in Writes : Begin(c, w)
      BY <1>2
    <2> DEFINE new == [kind |-> w.kind, time |-> w.time,
                       row |-> IF w.kind = "finish" THEN own[c] ELSE 0]
    <2> DEFINE j == <<c, called[c] + 1>>
    <2>2. j \in Job /\ j[1] = c
      BY <2>1, StoreAssumption DEF StoreInv, TypeOK, Begin, Job
    <2>3. w.kind = "finish" => OwnRow(rows, own[c], c)
      BY <2>1 DEF RowInv, Begin
    <2>4. w.kind \in Kinds /\ w.time \in 0..MaxTime
      BY WritesAssumption
    <2>5. new \in [kind : Kinds, time : 0..MaxTime, row : Nat]
      BY <2>3, <2>4 DEF OwnRow
    <2>6. new.kind = "finish" => OwnRow(rows, new.row, c)
      BY <2>3
    <2>7. write' = [write EXCEPT ![j] = new] /\ own' = own
      BY <2>1 DEF Begin
    <2> QED
      BY <1>1, <2>2, <2>5, <2>6, <2>7 DEF RowInv, OwnRow
  <1>3. CASE Enqueue(c) \/ WaitTimesOut(c)
    <2>1. UNCHANGED <<write, own>>
      BY <1>3 DEF Enqueue, WaitTimesOut, AfterTimeout
    <2> QED
      BY <1>1, <2>1 DEF RowInv, OwnRow
  <1>4. CASE RefuseClosed(c) \/ EnqueueTimesOut(c)
    <2>1. write' = [write EXCEPT ![Current(c)] = Nothing] /\ own' = own
      BY <1>4 DEF RefuseClosed, EnqueueTimesOut, GiveUp
    <2> QED
      BY <1>1, <2>1, NothingIsWrite DEF RowInv, OwnRow
  <1>5. CASE Receive(c)
    <2>1. PICK j \in Job : j = Current(c) /\ j[1] = c
      BY <1>5, CurrentIsJob DEF Receive
    <2>2. /\ write' = write
          /\ own' = own \/ (value[j] # 0 /\ own' = [own EXCEPT ![c] = value[j]])
      BY <1>5, <2>1 DEF Receive, RowTold
    <2> QED
      BY <1>1, <2>1, <2>2 DEF RowInv, OwnRow
  <1> QED
    BY <1>2, <1>3, <1>4, <1>5 DEF CallerStep

(* The answer to the job of a caller is a row of its own, or none.          *)
LEMMA AnswerKeepsRows ==
    ASSUME StoreInv, RowInv, job # Idle, NEW a, NEW n, Answer(job, a, n),
           write' = [write EXCEPT ![job] = Nothing], own' = own,
           rows' \in Seq(Rows),
           \A i \in 1..Len(rows) : i \in 1..Len(rows') /\ rows'[i].by = rows[i].by,
           \A i \in 1..Len(rows') : rows'[i].ended \in {Idle, rows'[i].by},
           n # 0 => OwnRow(rows', n, job[1])
    PROVE  RowInv'
  <1>1. job \in Job
    BY DEF StoreInv, TypeOK
  <1>2. \A i, c : OwnRow(rows, i, c) => OwnRow(rows', i, c)
    BY DEF OwnRow
  <1>3. value' = [value EXCEPT ![job] = n] \/ value' = value
    BY DEF Answer
  <1>4. DOMAIN value' = Job /\ \A j \in Job : value'[j] = 0 \/ OwnRow(rows', value'[j], j[1])
    <2>1. CASE value' = value
      BY <2>1, <1>2 DEF RowInv
    <2>2. CASE value' = [value EXCEPT ![job] = n]
      BY <2>2, <1>1, <1>2 DEF RowInv
    <2> QED
      BY <1>3, <2>1, <2>2
  <1>5. /\ write' \in [Job -> [kind : Kinds, time : 0..MaxTime, row : Nat]]
        /\ \A j \in Job : write'[j].kind = "finish" => OwnRow(rows', write'[j].row, j[1])
    BY <1>1, <1>2, NothingIsWrite DEF RowInv
  <1>6. DOMAIN own' = Caller /\ \A c \in Caller : own'[c] = 0 \/ OwnRow(rows', own'[c], c)
    BY <1>2 DEF RowInv
  <1> QED
    BY <1>4, <1>5, <1>6 DEF RowInv

LEMMA ExecuteKeepsRows ==
    ASSUME StoreInv, RowInv, Execute
    PROVE  RowInv'
  <1> DEFINE c == job[1]
  <1> DEFINE w == write[job]
  <1> DEFINE n == IF w.kind = "insert" THEN Len(rows') ELSE 0
  <1>1. job # Idle /\ job \in Job /\ c \in Caller /\ Answer(job, "ok", n)
        /\ write' = [write EXCEPT ![job] = Nothing] /\ own' = own /\ Run(c, w)
    BY DEF StoreInv, TypeOK, Execute, Job
  <1>2. Len(rows) \in Nat /\ DOMAIN rows = 1..Len(rows) /\ \A i \in 1..Len(rows) : rows[i] \in Rows
    BY DEF RowInv
  <1>3. CASE w.kind = "insert"
    <2> DEFINE new == [by |-> c, ended |-> Idle, there |-> TRUE]
    <2>1. rows' = Append(rows, new) /\ new \in Rows
      BY <1>1, <1>3 DEF Run, InsertStep, SaveUnread, Rows
    <2>2. /\ rows' \in Seq(Rows) /\ Len(rows') = Len(rows) + 1
          /\ \A i \in 1..Len(rows) : rows'[i] = rows[i]
          /\ rows'[Len(rows) + 1] = new
      BY <2>1 DEF RowInv
    <2>3. \A i \in 1..Len(rows') : i \in 1..Len(rows) \/ i = Len(rows) + 1
      BY <1>2, <2>2
    <2>4. ASSUME NEW i \in 1..Len(rows') PROVE rows'[i].ended \in {Idle, rows'[i].by}
      <3>1. CASE i \in 1..Len(rows)
        <4>1. rows'[i] = rows[i]
          BY <2>2, <3>1
        <4>2. rows[i].ended \in {Idle, rows[i].by}
          BY <3>1 DEF RowInv
        <4> QED
          BY <4>1, <4>2
      <3>2. CASE i = Len(rows) + 1
        <4>1. rows'[i] = new
          BY <2>2, <3>2
        <4> QED
          BY <4>1
      <3> QED
        BY <2>3, <3>1, <3>2
    <2>5. OwnRow(rows', n, c)
      BY <1>1, <1>2, <1>3, <2>2 DEF OwnRow
    <2>6. \A i \in 1..Len(rows) : i \in 1..Len(rows') /\ rows'[i].by = rows[i].by
      BY <1>2, <2>2
    <2> QED
      BY <1>1, <2>2, <2>4, <2>5, <2>6, AnswerKeepsRows
  <1>4. CASE w.kind = "finish"
    <2>1. w.row \in 1..Len(rows) /\ rows[w.row].by = c
      BY <1>1, <1>4 DEF RowInv, OwnRow
    <2>2. rows' = IF rows[w.row].there THEN [rows EXCEPT ![w.row].ended = c] ELSE rows
      BY <1>1, <1>4 DEF Run, EndStep, SaveUnread
    <2>3. [rows[w.row] EXCEPT !.ended = c] \in Rows
      BY <1>1, <1>2, <2>1 DEF Rows
    <2>4. rows' \in Seq(Rows) /\ Len(rows') = Len(rows)
      BY <2>1, <2>2, <2>3 DEF RowInv
    <2>5. \A i \in 1..Len(rows) : rows'[i].by = rows[i].by /\ rows'[i].ended \in {Idle, rows[i].by}
      BY <1>2, <2>1, <2>2 DEF RowInv, Rows
    <2> QED
      BY <1>1, <1>4, <2>4, <2>5, AnswerKeepsRows
  <1>5. CASE w.kind = "delete"
    <2>1. rows' = [i \in 1..Len(rows) |-> [rows[i] EXCEPT !.there = FALSE]]
      BY <1>1, <1>2, <1>5 DEF Run, DeleteSteps, SaveUnread
    <2>2. \A i \in 1..Len(rows) : [rows[i] EXCEPT !.there = FALSE] \in Rows
      BY <1>2 DEF Rows
    <2>3. rows' \in Seq(Rows) /\ Len(rows') = Len(rows)
      BY <1>2, <2>1, <2>2
    <2>4. \A i \in 1..Len(rows) : rows'[i].by = rows[i].by /\ rows'[i].ended = rows[i].ended
      BY <1>2, <2>1 DEF Rows
    <2>5. \A i \in 1..Len(rows) : rows'[i].ended \in {Idle, rows'[i].by}
      BY <2>4 DEF RowInv
    <2> QED
      BY <1>1, <1>5, <2>3, <2>4, <2>5, AnswerKeepsRows
  <1>6. CASE w.kind \in {"add", "save", "sync"}
    <2>1. rows' = rows
      BY <1>1, <1>6 DEF Run, AddRecord, SaveIssueCache, SaveUnread, tables
    <2>2. rows' \in Seq(Rows) /\ \A i \in 1..Len(rows') : rows'[i].ended \in {Idle, rows'[i].by}
      BY <2>1 DEF RowInv
    <2> QED
      BY <1>1, <1>6, <2>1, <2>2, AnswerKeepsRows
  <1>7. w.kind \in Kinds
    BY <1>1 DEF RowInv
  <1> QED
    BY <1>3, <1>4, <1>5, <1>6, <1>7 DEF Kinds

LEMMA RowStep == StoreInv /\ RowInv /\ [Next]_vars => RowInv'
  <1> SUFFICES ASSUME StoreInv, RowInv, [Next]_vars PROVE RowInv'
    OBVIOUS
  <1>1. CASE \E c \in Caller : CallerStep(c)
    BY <1>1, CallerKeepsRows
  <1>2. CASE Execute
    BY <1>2, ExecuteKeepsRows
  <1>3. CASE ExecuteFails
    <2>1. rows' = rows /\ rows \in Seq(Rows)
      BY <1>3 DEF ExecuteFails, tables, RowInv
    <2>2. \A i \in 1..Len(rows) : rows[i].ended \in {Idle, rows[i].by}
      BY DEF RowInv
    <2>3. /\ job # Idle /\ Answer(job, Failure, 0) /\ own' = own
          /\ write' = [write EXCEPT ![job] = Nothing]
      BY <1>3 DEF ExecuteFails
    <2> QED
      BY <2>1, <2>2, <2>3, AnswerKeepsRows
  <1>4. CASE Take \/ NoticeCancel \/ Leave \/ CloseStep \/ UNCHANGED vars
    <2>1. UNCHANGED <<rows, write, own, value>>
      BY <1>4 DEF Take, NoticeCancel, Leave, CloseStep, Cancel, CloseAfterWriter, CloseTimesOut,
         CloseDB, callVars, tables, vars
    <2> QED
      BY <2>1 DEF RowInv, OwnRow
  <1> QED
    BY <1>1, <1>2, <1>3, <1>4 DEF Next, WriterStep

(* A row is ended by the caller that inserted it, whatever was answered late, *)
(* not at all, or to the next call.  (InsertStep, FinishStep)               *)
THEOREM RowsStayTheirOwners == Spec => []RowsEndedByOwner
  <1>1. RowInv => RowsEndedByOwner
    BY DEF RowInv, RowsEndedByOwner
  <1> QED
    BY <1>1, StoreInit, StoreStep, RowInit, RowStep, PTL DEF Spec

(* Only the job the writer executes has an effect.                          *)
LEMMA EffectOfJob ==
    ASSUME StoreInv, [Next]_vars, NEW j \in effect' \ effect
    PROVE  Execute /\ j = job
  <1>1. CASE Execute
    BY <1>1 DEF Execute
  <1>2. ASSUME NEW c \in Caller, CallerStep(c) PROVE effect' = effect
    BY <1>2 DEF CallerStep, Begin, Enqueue, RefuseClosed, EnqueueTimesOut, GiveUp, Receive,
       WaitTimesOut, AfterTimeout, Tell
  <1>3. CASE Take \/ NoticeCancel \/ Leave \/ ExecuteFails \/ CloseStep \/ UNCHANGED vars
    BY <1>3 DEF Take, NoticeCancel, Leave, ExecuteFails, CloseStep, Cancel, CloseAfterWriter,
       CloseTimesOut, CloseDB, vars
  <1> QED
    BY <1>1, <1>2, <1>3 DEF Next, WriterStep

(* Failing statements and reads are counted.                                *)
FaultsCounted == faults \in Nat

LEMMA FaultsInit == Init => FaultsCounted
  BY DEF Init, FaultsCounted

LEMMA FaultsStep == FaultsCounted /\ [Next]_vars => FaultsCounted'
  <1> SUFFICES ASSUME FaultsCounted, [Next]_vars PROVE FaultsCounted'
    OBVIOUS
  <1>1. ASSUME NEW c \in Caller, CallerStep(c) PROVE faults' = faults
    BY <1>1 DEF CallerStep, Begin, Enqueue, RefuseClosed, EnqueueTimesOut, GiveUp, Receive,
       WaitTimesOut, AfterTimeout, Tell
  <1>2. CASE Execute
    <2>1. faults' = faults \/ faults' = faults + 1
      BY <1>2 DEF Execute, Run, SaveUnread
    <2> QED
      BY <2>1 DEF FaultsCounted
  <1>3. CASE ExecuteFails
    BY <1>3 DEF ExecuteFails, FaultsCounted
  <1>4. CASE Take \/ NoticeCancel \/ Leave \/ CloseStep \/ UNCHANGED vars
    BY <1>4 DEF Take, NoticeCancel, Leave, CloseStep, Cancel, CloseAfterWriter, CloseTimesOut,
       CloseDB, vars, FaultsCounted
  <1> QED
    BY <1>1, <1>2, <1>3, <1>4 DEF Next, WriterStep, FaultsCounted

(* The synchronisation's copy replaces a newer one only when that cannot be   *)
(* read, whatever was saved between its call and the write.                  *)
(* (SaveIssueCache, getIssueCacheInternal)                                  *)
THEOREM CacheGoesBackOnlyUnread == Spec => CacheForward
  <1> DEFINE Forward ==
        \A w \in {write[j] : j \in effect' \ effect} :
            w.kind = "sync" /\ w.time # 0 /\ cached \in 1..MaxTime /\ faults' = faults
                => cached' >= cached
  <1>1. StoreInv /\ RowInv /\ FaultsCounted /\ [Next]_vars => Forward
    <2> SUFFICES ASSUME StoreInv, RowInv, FaultsCounted, [Next]_vars, NEW j \in effect' \ effect,
                        write[j].kind = "sync", write[j].time # 0, cached \in 1..MaxTime,
                        faults' = faults
                 PROVE  cached' >= cached
      OBVIOUS
    <2>1. Execute /\ j = job /\ job \in Job
      BY EffectOfJob DEF Execute, StoreInv, TypeOK
    <2>2. faults' # faults + 1
      BY DEF FaultsCounted
    <2>3. cached' = IF Stale(write[j]) THEN cached ELSE write[j].time
      BY <2>1, <2>2 DEF Execute, Run, SaveIssueCache, SaveUnread
    <2>4. write[j].time \in Nat /\ cached \in Nat
      BY <2>1, StoreAssumption DEF RowInv
    <2> QED
      BY <2>3, <2>4 DEF Stale
  <1>2. StoreInv /\ RowInv /\ FaultsCounted /\ [Next]_vars => [Forward]_vars
    BY <1>1
  <1> QED
    BY <1>2, StoreInit, StoreStep, RowInit, RowStep, FaultsInit, FaultsStep, PTL
    DEF Spec, CacheForward
=============================================================================
