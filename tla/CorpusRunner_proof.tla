------------------------- MODULE CorpusRunner_proof -------------------------
(***************************************************************************)
(* Proofs about benchmark/run_corpus.py, for every value of the constants. *)
(* One lemma for each action shows that it preserves IInv; from IInv follow*)
(* the properties that the runs check, and the refinement of the ledger.   *)
(***************************************************************************)
EXTENDS CorpusRunner, TLAPS

(* A worker that moves on inside run_pair keeps its pair: no pair changes  *)
(* hands, enters or leaves the queue.                                      *)
LEMMA StaysInHand ==
  ASSUME IInv, NEW w \in Workers, pc[w] \in Busy, NEW l \in Busy, Goto(w, l),
         UNCHANGED <<task, queue, phase>>
  PROVE  /\ OneThreadPerPair'
         /\ \A p : Queued(p)' <=> Queued(p)
         /\ \A p : Held(p)' <=> Held(p)
<1>1. \A v \in Workers : pc'[v] \in Busy <=> pc[v] \in Busy
  BY DEF IInv, TypeOK, Goto
<1>2. \A p : Queued(p)' <=> Queued(p)
  BY DEF Queued
<1>3. \A p : Held(p)' <=> Held(p)
  BY <1>1 DEF Held
<1>4. OneThreadPerPair'
  BY <1>1, <1>2 DEF IInv, OneThreadPerPair, Queued
<1> QED
  BY <1>2, <1>3, <1>4

(* A worker that moves on without touching the state file or `failures`    *)
(* leaves the account of the pairs as it is.                               *)
LEMMA StaysSettled ==
  ASSUME IInv, NEW w \in Workers, pc[w] \in Busy, NEW l \in Busy, Goto(w, l),
         UNCHANGED <<task, queue, phase, raised, stateFile, invocation>>
  PROVE  Settled'
<1>1. /\ \A p : Queued(p)' <=> Queued(p)
      /\ \A p : Held(p)' <=> Held(p)
  BY StaysInHand
<1> QED
  BY <1>1 DEF IInv, Settled

(* A worker that leaves run_pair (benchmark/run_corpus.py:117-189) lets go *)
(* of its pair, which nobody holds and no queue lists from then on.        *)
LEMMA Leaves ==
  ASSUME IInv, NEW w \in Workers, pc[w] \in Busy, Goto(w, "idle"),
         UNCHANGED <<task, queue, phase>>
  PROVE  /\ OneThreadPerPair'
         /\ \A p : Queued(p)' <=> Queued(p)
         /\ \A p : Held(p)' <=> Held(p) /\ p # task[w]
         /\ ~Queued(task[w])
<1>1. \A v \in Workers : pc'[v] \in Busy <=> pc[v] \in Busy /\ v # w
  BY DEF IInv, TypeOK, Goto, Busy, Updating, Studying
<1>2. \A p : Queued(p)' <=> Queued(p)
  BY DEF Queued
<1>3. \A p : Held(p)' <=> Held(p) /\ p # task[w]
  BY <1>1 DEF Held, IInv, OneThreadPerPair
<1>4. OneThreadPerPair'
  BY <1>1, <1>2 DEF IInv, OneThreadPerPair, Queued
<1>5. ~Queued(task[w])
  BY DEF IInv, OneThreadPerPair
<1> QED
  BY <1>2, <1>3, <1>4, <1>5

(* Taking STATE_MUTEX (run_corpus.py:49) makes the thread its only holder. *)
LEMMA AcquireInvariant ==
  ASSUME IInv, NEW w \in Workers, Acquire(w)
  PROVE  IInv'
<1> USE DEF disk, main, environment
<1>a. pc[w] = "lock" /\ pc[w] \in Busy /\ "read" \in Busy
  BY DEF Acquire, Busy, Updating
<1>b. /\ Goto(w, "read") /\ mutex = NoThread /\ mutex' = w
      /\ UNCHANGED <<disk, main, raised, task, values, snapshot, environment>>
  BY DEF Acquire
<1>1. TypeOK'
  BY <1>a, <1>b DEF IInv, TypeOK, Goto
<1>2. OneThreadPerPair' /\ Settled'
  BY <1>a, <1>b, StaysInHand, StaysSettled
<1>3. MutualExclusion'
  BY <1>b, RunnerAssumption DEF IInv, TypeOK, MutualExclusion, Goto
<1>4. SnapshotCurrent'
  BY <1>b DEF IInv, TypeOK, SnapshotCurrent, Goto
<1>5. PostsAreTrue'
  BY <1>a, <1>b DEF IInv, TypeOK, PostsAreTrue, Goto, Updating, Studying
<1>6. Certified'
  BY <1>b DEF IInv, Certified
<1> QED
  BY <1>1, <1>2, <1>3, <1>4, <1>5, <1>6 DEF IInv

(* Truncating the temporary file disturbs no other holder, since there is  *)
(* none.                                                                   *)
LEMMA OpenTemporaryInvariant ==
  ASSUME IInv, NEW w \in Workers, OpenTemporary(w)
  PROVE  IInv'
<1> USE DEF main, environment
<1>a. pc[w] = "open" /\ pc[w] \in Busy /\ "write" \in Busy
  BY DEF OpenTemporary, Busy, Updating
<1>b. /\ Goto(w, "write")
      /\ UNCHANGED <<stateFile, certificate, main, raised, mutex, task, values,
                     snapshot, environment>>
  BY DEF OpenTemporary
<1>1. TypeOK'
  BY <1>a, <1>b DEF IInv, TypeOK, Goto
<1>2. OneThreadPerPair' /\ Settled'
  BY <1>a, <1>b, StaysInHand, StaysSettled
<1>3. MutualExclusion'
  BY <1>a, <1>b DEF IInv, TypeOK, MutualExclusion, Goto, Holding
<1>c. \A v \in Workers : pc'[v] # "replace"
  BY <1>a, <1>b, RunnerAssumption DEF IInv, TypeOK, MutualExclusion, Goto,
     Holding
<1>4. SnapshotCurrent'
  BY <1>a, <1>b, <1>c DEF IInv, TypeOK, SnapshotCurrent, Goto
<1>5. PostsAreTrue'
  BY <1>a, <1>b DEF IInv, TypeOK, PostsAreTrue, Goto, Updating, Studying
<1>6. Certified'
  BY <1>b DEF IInv, Certified
<1> QED
  BY <1>1, <1>2, <1>3, <1>4, <1>5, <1>6 DEF IInv

(* The temporary file now holds what the thread read, with its own entry   *)
(* changed.                                                                *)
LEMMA WriteTemporaryInvariant ==
  ASSUME IInv, NEW w \in Workers, WriteTemporary(w)
  PROVE  IInv'
<1> USE DEF main, environment
<1>a. pc[w] = "write" /\ pc[w] \in Busy /\ "replace" \in Busy
  BY DEF WriteTemporary, Busy, Updating
<1>b. /\ Goto(w, "replace")
      /\ temporary' = File([snapshot[w] EXCEPT ![task[w]] = values[w]])
      /\ UNCHANGED <<stateFile, certificate, main, raised, mutex, task, values,
                     snapshot, environment>>
  BY DEF WriteTemporary
<1>1. TypeOK'
  BY <1>a, <1>b DEF IInv, TypeOK, Goto
<1>2. OneThreadPerPair' /\ Settled'
  BY <1>a, <1>b, StaysInHand, StaysSettled
<1>3. MutualExclusion'
  BY <1>a, <1>b DEF IInv, TypeOK, MutualExclusion, Goto, Holding
<1>c. \A v \in Workers : pc'[v] = "replace" => v = w
  BY <1>a, <1>b, RunnerAssumption DEF IInv, TypeOK, MutualExclusion, Goto,
     Holding
<1>4. SnapshotCurrent'
  BY <1>a, <1>b, <1>c DEF IInv, TypeOK, SnapshotCurrent, Goto
<1>5. PostsAreTrue'
  BY <1>a, <1>b DEF IInv, TypeOK, PostsAreTrue, Goto, Updating, Studying
<1>6. Certified'
  BY <1>b DEF IInv, Certified
<1> QED
  BY <1>1, <1>2, <1>3, <1>4, <1>5, <1>6 DEF IInv

(* A study that fails posts a failure over the start that run_pair         *)
(* recorded before it ran the study.                                       *)
LEMMA StudyFailsInvariant ==
  ASSUME IInv, NEW w \in Workers, StudyFails(w)
  PROVE  IInv'
<1> USE DEF disk, main
<1>a. /\ pc[w] \in Studying /\ pc[w] \in Busy /\ "lock" \in Busy
      /\ stateFile.pairs[task[w]].status = "running"
  BY DEF StudyFails, Busy, Studying, Updating, IInv, PostsAreTrue
<1>b. /\ Goto(w, "lock")
      /\ values' = [values EXCEPT ![w] = Entry("failed", NoCertificate)]
      /\ studyFailures' = studyFailures + 1
      /\ UNCHANGED <<disk, main, raised, mutex, task, snapshot, invocation, crashes>>
  BY DEF StudyFails, StudyFailed, Post
<1>1. TypeOK'
  BY <1>a, <1>b DEF IInv, TypeOK, Goto, Entries, Entry, NoCertificate
<1>2. OneThreadPerPair' /\ Settled'
  BY <1>a, <1>b, StaysInHand, StaysSettled
<1>3. MutualExclusion' /\ SnapshotCurrent'
  BY <1>b DEF IInv, TypeOK, MutualExclusion, SnapshotCurrent, Goto, Holding
<1>4. PostsAreTrue'
  BY <1>a, <1>b DEF IInv, TypeOK, PostsAreTrue, Goto, Updating, Studying
<1>5. Certified'
  BY <1>b DEF IInv, Certified
<1> QED
  BY <1>1, <1>2, <1>3, <1>4, <1>5 DEF IInv

(* The certificate of a pair is rewritten only while its entry says        *)
(* running, so no complete entry loses its certificate.                    *)
LEMMA StudyCertifiesInvariant ==
  ASSUME IInv, NEW w \in Workers, StudyCertifies(w)
  PROVE  IInv'
<1> USE DEF main, environment
<1>a. /\ pc[w] = "certificate" /\ pc[w] \in Busy /\ "report" \in Busy
      /\ task[w] \in Pairs /\ stateFile.pairs[task[w]].status = "running"
  BY DEF StudyCertifies, Busy, Studying, IInv, OneThreadPerPair, PostsAreTrue
<1>b. /\ Goto(w, "report")
      /\ certificate' = [certificate EXCEPT ![task[w]] = invocation]
      /\ UNCHANGED <<stateFile, temporary, main, raised, mutex, task, values,
                     snapshot, environment>>
  BY DEF StudyCertifies
<1>1. TypeOK'
  <2>1. certificate \in [Pairs -> Int] /\ invocation \in Int
    BY DEF IInv, TypeOK
  <2>2. certificate' \in [Pairs -> Int]
    BY <1>b, <2>1
  <2> QED
    BY <1>a, <1>b, <2>2 DEF IInv, TypeOK, Goto
<1>2. OneThreadPerPair' /\ Settled'
  BY <1>a, <1>b, StaysInHand, StaysSettled
<1>3. MutualExclusion' /\ SnapshotCurrent'
  BY <1>b DEF IInv, TypeOK, MutualExclusion, SnapshotCurrent, Goto, Holding
<1>4. PostsAreTrue'
  BY <1>a, <1>b DEF IInv, TypeOK, PostsAreTrue, OneThreadPerPair, Goto,
     Updating, Studying, Busy
<1>5. Certified'
  BY <1>a, <1>b DEF IInv, TypeOK, Certified
<1> QED
  BY <1>1, <1>2, <1>3, <1>4, <1>5 DEF IInv

(* The child's exit hands the pair to the audit.                           *)
LEMMA StudyExitsInvariant ==
  ASSUME IInv, NEW w \in Workers, StudyExits(w)
  PROVE  IInv'
<1> USE DEF disk, main, environment
<1>a. pc[w] = "report" /\ pc[w] \in Busy /\ "audit" \in Busy
  BY DEF StudyExits, Busy, Studying
<1>b. /\ Goto(w, "audit")
      /\ UNCHANGED <<disk, main, raised, mutex, task, values, snapshot, environment>>
  BY DEF StudyExits
<1>1. TypeOK'
  BY <1>a, <1>b DEF IInv, TypeOK, Goto
<1>2. OneThreadPerPair' /\ Settled'
  BY <1>a, <1>b, StaysInHand, StaysSettled
<1>3. MutualExclusion' /\ SnapshotCurrent'
  BY <1>b DEF IInv, TypeOK, MutualExclusion, SnapshotCurrent, Goto, Holding
<1>4. PostsAreTrue'
  BY <1>b DEF IInv, TypeOK, PostsAreTrue, Goto, Updating, Studying
<1>5. Certified'
  BY <1>b DEF IInv, Certified
<1> QED
  BY <1>1, <1>2, <1>3, <1>4, <1>5 DEF IInv

(* When the pool is drained no pair is queued or held, and nothing else    *)
(* changes.                                                                *)
LEMMA FinishInvariant ==
  ASSUME IInv, Finish
  PROVE  IInv'
<1> USE DEF IInv, Finish, main, disk, threads, environment
<1>1. TypeOK'
  BY DEF TypeOK
<1>2. OneThreadPerPair'
  BY DEF OneThreadPerPair, Queued, Busy, Updating, Studying
<1>3. MutualExclusion'
  BY DEF MutualExclusion
<1>4. SnapshotCurrent'
  BY DEF SnapshotCurrent
<1>5. PostsAreTrue'
  BY DEF PostsAreTrue
<1>6. Certified'
  BY DEF Certified
<1>7. Settled'
  BY DEF Settled, Queued, Held
<1> QED
  BY <1>1, <1>2, <1>3, <1>4, <1>5, <1>6, <1>7

(* A crash forgets the threads and keeps the disk, on which no invariant   *)
(* but Certified depends.                                                  *)
LEMMA CrashInvariant ==
  ASSUME IInv, Crash
  PROVE  IInv'
<1>1. TypeOK'
  BY DEF IInv, TypeOK, Crash, Entries, Entry, NoState, NoCertificate, disk
<1>2. OneThreadPerPair'
  BY DEF IInv, OneThreadPerPair, Crash, Queued, Busy, Updating, Studying
<1>3. MutualExclusion'
  BY DEF MutualExclusion, Crash, Holding
<1>4. SnapshotCurrent'
  BY DEF SnapshotCurrent, Crash
<1>5. PostsAreTrue'
  BY DEF PostsAreTrue, Crash, Updating, Studying
<1>6. Certified'
  BY DEF IInv, Certified, Crash, disk
<1>7. Settled'
  BY DEF Settled, Crash
<1> QED
  BY <1>1, <1>2, <1>3, <1>4, <1>5, <1>6, <1>7 DEF IInv

(* A new invocation queues every pair once and forgets the failures of the *)
(* last.                                                                   *)
LEMMA InvokeInvariant ==
  ASSUME IInv, Invoke
  PROVE  IInv'
<1> USE DEF Invoke, disk, threads
<1>a. \A v \in Workers : pc[v] \notin Busy
  BY DEF IInv, OneThreadPerPair
<1>b. invocation' \in Nat /\ invocation' > 0 /\ rerun' \in BOOLEAN
  <2>1. invocation \in Nat /\ MaxInvocations \in Nat \ {0}
    BY RunnerAssumption DEF IInv, TypeOK
  <2>2. CASE invocation < MaxInvocations
    BY <2>1, <2>2
  <2>3. CASE ~(invocation < MaxInvocations)
    BY <2>1, <2>3
  <2> QED
    BY <2>2, <2>3
<1>c. \A p \in Pairs : Queued(p)'
  BY RunnerAssumption DEF Queued
<1>1. TypeOK'
  BY <1>b, RunnerAssumption DEF IInv, TypeOK
<1>2. OneThreadPerPair'
  BY <1>a, RunnerAssumption DEF OneThreadPerPair
<1>3. MutualExclusion'
  BY DEF IInv, MutualExclusion
<1>4. SnapshotCurrent'
  BY DEF IInv, SnapshotCurrent
<1>5. PostsAreTrue'
  BY DEF IInv, PostsAreTrue
<1>6. Certified'
  BY DEF IInv, Certified
<1>7. Settled'
  BY <1>b, <1>c DEF Settled
<1> QED
  BY <1>1, <1>2, <1>3, <1>4, <1>5, <1>6, <1>7 DEF IInv

(* A worker takes the head of the queue: the pair leaves the queue and     *)
(* enters that worker's hands, and no one else's.                          *)
LEMMA TakeInvariant ==
  ASSUME IInv, NEW w \in Workers, Take(w)
  PROVE  IInv'
<1> DEFINE h == Head(queue)
<1>a. /\ h \in Pairs /\ h = queue[1]
      /\ Len(queue) \in Nat /\ Len(queue) > 0
      /\ queue' \in Seq(Pairs) /\ Len(queue') = Len(queue) - 1
      /\ \A i \in 1..Len(queue') : queue'[i] = queue[i + 1]
  BY DEF IInv, TypeOK, Take
<1> HIDE DEF h
<1>b. /\ task' = [task EXCEPT ![w] = h]
      /\ \/ pc' = [pc EXCEPT ![w] = "audit"] /\ values' = values
         \/ /\ pc' = [pc EXCEPT ![w] = "lock"]
            /\ values' = [values EXCEPT ![w] = Entry("running", NoCertificate)]
      /\ pc[w] = "idle" /\ phase = "running"
      /\ UNCHANGED <<disk, phase, rerun, raised, mutex, snapshot, environment>>
  BY DEF Take, Goto, Post, h
<1>c. \A p : Queued(p)' <=> Queued(p) /\ p # h
  <2>1. ASSUME NEW p, Queued(p), p # h
        PROVE  Queued(p)'
    <3>1. PICK i \in 1..Len(queue) : queue[i] = p
      BY <2>1 DEF Queued
    <3>2. i - 1 \in 1..Len(queue') /\ queue'[i - 1] = p
      BY <1>a, <2>1, <3>1
    <3> QED
      BY <3>2 DEF Queued
  <2>2. ASSUME NEW p, Queued(p)'
        PROVE  Queued(p) /\ p # h
    <3>1. PICK i \in 1..Len(queue') : queue'[i] = p
      BY <2>2 DEF Queued
    <3>2. 1 \in 1..Len(queue) /\ i + 1 \in 1..Len(queue) /\ queue[i + 1] = p /\ i + 1 # 1
      BY <1>a, <3>1
    <3>3. p # h
      BY <1>a, <3>2 DEF IInv, OneThreadPerPair
    <3> QED
      BY <3>2, <3>3 DEF Queued
  <2> QED
    BY <2>1, <2>2
<1>d. /\ \A v \in Workers : pc'[v] \in Busy <=> pc[v] \in Busy \/ v = w
      /\ \A v \in Workers : task'[v] = IF v = w THEN h ELSE task[v]
      /\ pc[w] \notin Busy /\ Queued(h)
  BY <1>a, <1>b DEF IInv, TypeOK, Busy, Updating, Studying, Queued
<1>e. \A p : Held(p)' <=> Held(p) \/ p = h
  BY <1>d DEF Held
<1>1. TypeOK'
  <2>1. values' \in [Workers -> Entries]
    <3>1. Entry("running", NoCertificate) \in Entries
      BY DEF Entry, Entries, NoCertificate
    <3> QED
      BY <1>b, <3>1 DEF IInv, TypeOK
  <2>2. pc' \in [Workers -> Busy \cup {"idle"}]
    BY <1>b DEF IInv, TypeOK, Busy, Updating
  <2> QED
    BY <1>a, <1>b, <2>1, <2>2 DEF IInv, TypeOK, disk, environment
<1>2. OneThreadPerPair'
  <2>1. \A v \in Workers : pc'[v] \in Busy =>
          task'[v] \in Pairs /\ ~Queued(task[v])' /\ phase' = "running"
    BY <1>a, <1>b, <1>c, <1>d DEF IInv, OneThreadPerPair
  <2>2. \A u, v \in Workers :
          pc'[u] \in Busy /\ pc'[v] \in Busy /\ task'[u] = task'[v] => u = v
    BY <1>d DEF IInv, OneThreadPerPair
  <2>3. \A i, j \in 1..Len(queue') : queue'[i] = queue'[j] => i = j
    BY <1>a DEF IInv, OneThreadPerPair
  <2> QED
    BY <2>1, <2>2, <2>3 DEF OneThreadPerPair
<1>3. MutualExclusion'
  BY <1>b DEF IInv, TypeOK, MutualExclusion, Holding
<1>4. SnapshotCurrent'
  BY <1>b DEF IInv, TypeOK, SnapshotCurrent, disk
<1>5. PostsAreTrue'
  BY <1>b DEF IInv, TypeOK, PostsAreTrue, Updating, Studying, disk
<1>6. Certified'
  BY <1>b DEF IInv, Certified, disk
<1>7. Settled'
  BY <1>b, <1>c, <1>d, <1>e DEF IInv, Settled, disk, environment
<1> QED
  BY <1>1, <1>2, <1>3, <1>4, <1>5, <1>6, <1>7 DEF IInv

(* The audit either posts the certificate it found, or raises; the pair is *)
(* then accounted for in `failures`, for its entry is not complete.        *)
LEMMA AuditInvariant ==
  ASSUME IInv, NEW w \in Workers, Audit(w)
  PROVE  IInv'
<1> USE DEF disk, main, environment
<1>a. pc[w] = "audit" /\ pc[w] \in Busy /\ task[w] \in Pairs
  BY DEF Audit, Busy, IInv, OneThreadPerPair
<1>b. UNCHANGED <<disk, main, mutex, task, snapshot, environment>>
  BY DEF Audit
<1>c. Certified'
  BY <1>b DEF IInv, Certified
<1>1. CASE certificate[task[w]] > 0
  <2>a. /\ Goto(w, "lock") /\ raised' = raised
        /\ values' = [values EXCEPT ![w] = Entry("complete", certificate[task[w]])]
    BY <1>1 DEF Audit, Post
  <2>1. TypeOK'
    BY <1>a, <1>b, <2>a DEF IInv, TypeOK, Goto, Busy, Updating, Entries, Entry
  <2>2. OneThreadPerPair' /\ Settled'
    BY <1>a, <1>b, <2>a, StaysInHand, StaysSettled, "lock" \in Busy DEF Busy,
       Updating
  <2>3. MutualExclusion' /\ SnapshotCurrent'
    BY <1>b, <2>a DEF IInv, TypeOK, MutualExclusion, SnapshotCurrent, Goto,
       Holding
  <2>4. PostsAreTrue'
    BY <1>1, <1>b, <2>a DEF IInv, TypeOK, PostsAreTrue, Goto, Updating, Studying
  <2> QED
    BY <1>c, <2>1, <2>2, <2>3, <2>4 DEF IInv
<1>2. CASE ~(certificate[task[w]] > 0)
  <2>a. Raise(w) /\ values' = values
    BY <1>2 DEF Audit
  <2>1. TypeOK'
    BY <1>a, <1>b, <2>a DEF IInv, TypeOK, Raise, Goto
  <2>2. OneThreadPerPair'
    BY <1>a, <1>b, <2>a, Leaves DEF Raise
  <2>3. MutualExclusion' /\ SnapshotCurrent'
    BY <1>b, <2>a DEF IInv, TypeOK, MutualExclusion, SnapshotCurrent, Raise,
       Goto, Holding
  <2>4. PostsAreTrue'
    BY <1>b, <2>a DEF IInv, TypeOK, PostsAreTrue, Raise, Goto, Updating,
       Studying
  <2>5. Settled'
    BY <1>2, <1>a, <1>b, <2>a, Leaves DEF IInv, Settled, Certified, Raise
  <2> QED
    BY <1>c, <2>1, <2>2, <2>3, <2>4, <2>5 DEF IInv
<1> QED
  BY <1>1, <1>2

(* The holder of the mutex reads a whole file, whose contents stay current *)
(* until it writes.                                                        *)
LEMMA ReadStateInvariant ==
  ASSUME IInv, NEW w \in Workers, ReadState(w)
  PROVE  IInv'
<1> USE DEF disk, main, environment
<1>a. pc[w] = "read" /\ pc[w] \in Busy /\ "open" \in Busy
  BY DEF ReadState, Busy, Updating
<1>b. /\ snapshot' = [snapshot EXCEPT ![w] = stateFile.pairs]
      /\ Goto(w, "open")
      /\ UNCHANGED <<disk, main, mutex, raised, task, values, environment>>
  BY DEF IInv, TypeOK, File, ReadState
<1>1. TypeOK'
  BY <1>b DEF IInv, TypeOK, Goto, Busy, Updating
<1>2. OneThreadPerPair' /\ Settled'
  BY <1>a, <1>b, StaysInHand, StaysSettled
<1>3. MutualExclusion'
  BY <1>a, <1>b DEF IInv, TypeOK, MutualExclusion, Goto, Holding
<1>4. SnapshotCurrent'
  BY <1>b DEF IInv, TypeOK, SnapshotCurrent, Goto
<1>5. PostsAreTrue'
  BY <1>a, <1>b DEF IInv, TypeOK, PostsAreTrue, Goto, Updating, Studying
<1>6. Certified'
  BY <1>b DEF IInv, Certified
<1> QED
  BY <1>1, <1>2, <1>3, <1>4, <1>5, <1>6 DEF IInv

(* The heart of update_state (run_corpus.py:49-66): os.replace changes one *)
(* entry of the state file, that of the thread's own pair, into what the   *)
(* thread posted, which is still true.                                     *)
LEMMA RecordsEntry ==
  ASSUME IInv, NEW w \in Workers, ReplaceState(w)
  PROVE  /\ task[w] \in Pairs
         /\ stateFile' = File([stateFile.pairs EXCEPT ![task[w]] = values[w]])
         /\ stateFile.pairs \in [Pairs -> Entries]
         /\ stateFile'.pairs \in [Pairs -> Entries]
         /\ stateFile' = File(stateFile'.pairs)
         /\ \A p \in Pairs :
              stateFile'.pairs[p] = IF p = task[w] THEN values[w] ELSE stateFile.pairs[p]
         /\ \/ values[w] = Entry("running", NoCertificate)
            \/ /\ values[w] = Entry("failed", NoCertificate)
               /\ stateFile.pairs[task[w]].status = "running"
            \/ /\ values[w] = Entry("complete", certificate[task[w]])
               /\ certificate[task[w]] > 0
<1>1. pc[w] = "replace" /\ pc[w] \in Busy /\ pc[w] \in Updating
  BY DEF ReplaceState, Busy, Updating
<1>2. task[w] \in Pairs /\ values[w] \in Entries /\ stateFile.pairs \in [Pairs -> Entries]
  BY <1>1 DEF IInv, TypeOK, OneThreadPerPair
<1>3. stateFile' = File([stateFile.pairs EXCEPT ![task[w]] = values[w]])
  BY <1>1 DEF IInv, SnapshotCurrent, ReplaceState
<1>4. stateFile'.pairs = [stateFile.pairs EXCEPT ![task[w]] = values[w]]
  BY <1>3 DEF File
<1>5. stateFile' = File(stateFile'.pairs)
  BY <1>3, <1>4
<1>6. \/ values[w] = Entry("running", NoCertificate)
      \/ /\ values[w] = Entry("failed", NoCertificate)
         /\ stateFile.pairs[task[w]].status = "running"
      \/ /\ values[w] = Entry("complete", certificate[task[w]])
         /\ certificate[task[w]] > 0
  BY <1>1 DEF IInv, PostsAreTrue
<1> QED
  BY <1>2, <1>3, <1>4, <1>5, <1>6

(* Recording an entry keeps every other thread's view true: none of them   *)
(* is between its read and its replacement, and none works on the same     *)
(* pair.                                                                   *)
LEMMA ReplaceStateInvariant ==
  ASSUME IInv, NEW w \in Workers, ReplaceState(w)
  PROVE  IInv'
<1> USE DEF main, environment
<1>a. pc[w] = "replace" /\ pc[w] \in Busy /\ mutex = w
  BY DEF ReplaceState, Busy, Updating, Holding, IInv, MutualExclusion
<1>b. /\ mutex' = NoThread
      /\ UNCHANGED <<certificate, main, task, values, snapshot, environment>>
  BY DEF ReplaceState
<1>c. /\ task[w] \in Pairs
      /\ stateFile.pairs \in [Pairs -> Entries]
      /\ stateFile'.pairs \in [Pairs -> Entries]
      /\ stateFile' = File(stateFile'.pairs)
      /\ \A p \in Pairs :
           stateFile'.pairs[p] = IF p = task[w] THEN values[w] ELSE stateFile.pairs[p]
  BY RecordsEntry
<1>d. \/ /\ values[w] = Entry("running", NoCertificate)
         /\ Goto(w, "study") /\ raised' = raised
      \/ /\ values[w] = Entry("failed", NoCertificate)
         /\ Raise(w)
      \/ /\ values[w] = Entry("complete", certificate[task[w]])
         /\ certificate[task[w]] > 0
         /\ Goto(w, "idle") /\ raised' = raised
  <2>1. CASE values[w] = Entry("running", NoCertificate)
    BY <2>1 DEF ReplaceState, Entry
  <2>2. CASE values[w] = Entry("failed", NoCertificate)
    BY <2>2 DEF ReplaceState, Entry
  <2>3. CASE /\ values[w] = Entry("complete", certificate[task[w]])
             /\ certificate[task[w]] > 0
    BY <2>3 DEF ReplaceState, Entry
  <2> QED
    BY <2>1, <2>2, <2>3, RecordsEntry
<1>e. \A v \in Workers : v # w => pc'[v] = pc[v] /\ pc[v] \notin Holding
  BY <1>a, <1>d DEF IInv, TypeOK, MutualExclusion, Goto, Raise
<1>f. \A v \in Workers : v # w /\ pc[v] \in Busy =>
        /\ task[v] \in Pairs
        /\ stateFile'.pairs[task[v]] = stateFile.pairs[task[v]]
  BY <1>a, <1>c DEF IInv, OneThreadPerPair
<1>g. pc'[w] \in {"study", "idle"}
  BY <1>d DEF IInv, TypeOK, Goto, Raise
<1>1. TypeOK'
  BY <1>b, <1>c, <1>d DEF IInv, TypeOK, Goto, Raise, Busy, Studying
<1>2. OneThreadPerPair'
  <2>1. CASE Goto(w, "study")
    BY <2>1, <1>a, <1>b, StaysInHand DEF Busy, Studying
  <2>2. CASE Goto(w, "idle")
    BY <2>2, <1>a, <1>b, Leaves
  <2> QED
    BY <1>d, <2>1, <2>2 DEF Raise
<1>3. MutualExclusion'
  BY <1>e, <1>g DEF MutualExclusion, Holding
<1>4. SnapshotCurrent'
  BY <1>e, <1>g DEF SnapshotCurrent, Holding
<1>5. PostsAreTrue'
  <2> SUFFICES ASSUME NEW v \in Workers
               PROVE  /\ pc'[v] \in Studying =>
                           stateFile'.pairs[task'[v]].status = "running"
                      /\ pc'[v] \in Updating =>
                         \/ values'[v] = Entry("running", NoCertificate)
                         \/ /\ values'[v] = Entry("failed", NoCertificate)
                            /\ stateFile'.pairs[task'[v]].status = "running"
                         \/ /\ values'[v] = Entry("complete", certificate'[task'[v]])
                            /\ certificate'[task'[v]] > 0
    BY DEF PostsAreTrue
  <2>1. CASE v # w
    BY <2>1, <1>b, <1>e, <1>f DEF IInv, PostsAreTrue, Busy
  <2>2. CASE v = w
    <3>1. pc'[w] \in Studying => values[w] = Entry("running", NoCertificate)
      BY <1>d DEF IInv, TypeOK, Goto, Raise, Studying
    <3> QED
      BY <2>2, <3>1, <1>b, <1>c, <1>g DEF Updating, Entry
  <2> QED
    BY <2>1, <2>2
<1>6. Certified'
  BY <1>b, <1>c, <1>d DEF IInv, Certified, Entry
<1>7. Settled'
  <2>1. CASE Goto(w, "study")
    <3>1. raised' = raised
      BY <2>1, <1>d DEF IInv, TypeOK, Goto, Raise
    <3>2. /\ \A p : Queued(p)' <=> Queued(p)
          /\ \A p : Held(p)' <=> Held(p)
      BY <2>1, <1>a, <1>b, StaysInHand DEF Busy, Studying
    <3>3. Held(task[w])
      BY <1>a DEF Held
    <3> QED
      BY <3>1, <3>2, <3>3, <1>b, <1>c DEF IInv, Settled
  <2>2. CASE Goto(w, "idle")
    <3>1. \/ values[w].status # "complete" /\ raised' = raised \cup {task[w]}
          \/ values[w].status = "complete" /\ raised' = raised
      BY <2>2, <1>d DEF IInv, TypeOK, Goto, Raise, Entry
    <3>2. /\ \A p : Queued(p)' <=> Queued(p)
          /\ \A p : Held(p)' <=> Held(p) /\ p # task[w]
          /\ ~Queued(task[w])
      BY <2>2, <1>a, <1>b, Leaves
    <3>3. Held(task[w])
      BY <1>a DEF Held
    <3> QED
      BY <3>1, <3>2, <3>3, <1>b, <1>c DEF IInv, Settled
  <2> QED
    BY <1>d, <2>1, <2>2 DEF Raise
<1> QED
  BY <1>1, <1>2, <1>3, <1>4, <1>5, <1>6, <1>7 DEF IInv

(* A study truncates the certificate of its pair while the entry says      *)
(* running; on a torn one it posts a failure.                              *)
LEMMA StudySolvesInvariant ==
  ASSUME IInv, NEW w \in Workers, StudySolves(w)
  PROVE  IInv'
<1> USE DEF main, environment
<1>a. /\ pc[w] = "study" /\ pc[w] \in Busy /\ task[w] \in Pairs
      /\ stateFile.pairs[task[w]].status = "running"
  BY DEF StudySolves, Busy, Studying, IInv, OneThreadPerPair, PostsAreTrue
<1>b. UNCHANGED <<stateFile, temporary, main, raised, mutex, task, snapshot, environment>>
  BY DEF StudySolves
<1>1. CASE certificate[task[w]] = TornCertificate
  <2>a. /\ Goto(w, "lock") /\ certificate' = certificate
        /\ values' = [values EXCEPT ![w] = Entry("failed", NoCertificate)]
    BY <1>1 DEF StudySolves, StudyFailed, Post
  <2>1. TypeOK'
    BY <1>b, <2>a DEF IInv, TypeOK, Goto, Busy, Updating, Entries, Entry,
       NoCertificate
  <2>2. OneThreadPerPair' /\ Settled'
    BY <1>a, <1>b, <2>a, StaysInHand, StaysSettled, "lock" \in Busy DEF Busy,
       Updating
  <2>3. MutualExclusion' /\ SnapshotCurrent'
    BY <1>b, <2>a DEF IInv, TypeOK, MutualExclusion, SnapshotCurrent, Goto,
       Holding
  <2>4. PostsAreTrue'
    BY <1>a, <1>b, <2>a DEF IInv, TypeOK, PostsAreTrue, Goto, Updating, Studying
  <2>5. Certified'
    BY <1>b, <2>a DEF IInv, Certified
  <2> QED
    BY <2>1, <2>2, <2>3, <2>4, <2>5 DEF IInv
<1>2. CASE certificate[task[w]] # TornCertificate
  <2>a. /\ Goto(w, "certificate") /\ values' = values
        /\ certificate' = [certificate EXCEPT ![task[w]] = TornCertificate]
    BY <1>2 DEF StudySolves
  <2>1. TypeOK'
    <3>a. certificate \in [Pairs -> Int] /\ TornCertificate \in Int
      BY DEF IInv, TypeOK, TornCertificate
    <3>1. certificate' \in [Pairs -> Int]
      BY <2>a, <3>a
    <3> QED
      BY <1>b, <2>a, <3>1 DEF IInv, TypeOK, Goto, Busy, Studying
  <2>2. OneThreadPerPair' /\ Settled'
    BY <1>a, <1>b, <2>a, StaysInHand, StaysSettled, "certificate" \in Busy
       DEF Busy, Studying
  <2>3. MutualExclusion' /\ SnapshotCurrent'
    BY <1>b, <2>a DEF IInv, TypeOK, MutualExclusion, SnapshotCurrent, Goto,
       Holding
  <2>4. PostsAreTrue'
    BY <1>a, <1>b, <2>a DEF IInv, TypeOK, PostsAreTrue, OneThreadPerPair, Goto,
       Updating, Studying, Busy
  <2>5. Certified'
    BY <1>a, <1>b, <2>a DEF IInv, TypeOK, Certified
  <2> QED
    BY <2>1, <2>2, <2>3, <2>4, <2>5 DEF IInv
<1> QED
  BY <1>1, <1>2

(* The invariant holds before the first invocation, whatever outdated      *)
(* certificates the disk has.                                              *)
LEMMA InitInvariant == Init => IInv
<1> SUFFICES ASSUME Init
             PROVE  IInv
  OBVIOUS
<1> USE DEF Init, Idle, Busy, Updating, Studying
<1>a. NoState \in [Pairs -> Entries] /\ Entry("absent", NoCertificate) \in Entries
  BY DEF NoState, Entry, Entries, NoCertificate
<1>1. TypeOK
  <2>1. certificate \in [Pairs -> Int]
    BY DEF NoCertificate, OutdatedCertificate
  <2>2. stateFile = File(stateFile.pairs) /\ stateFile.pairs \in [Pairs -> Entries]
    BY <1>a DEF File
  <2>3. /\ queue \in Seq(Pairs) /\ raised \subseteq Pairs
        /\ mutex \in Workers \cup {NoThread}
    OBVIOUS
  <2>4. /\ pc \in [Workers -> Busy \cup {"idle"}]
        /\ task \in [Workers -> Pairs \cup {NoPair}]
        /\ values \in [Workers -> Entries]
        /\ snapshot \in [Workers -> [Pairs -> Entries]]
    BY <1>a
  <2>5. /\ phase \in {"down", "running", "finished"} /\ rerun \in BOOLEAN
        /\ invocation \in Nat /\ crashes \in Nat /\ studyFailures \in Nat
    OBVIOUS
  <2> QED
    BY <2>1, <2>2, <2>3, <2>4, <2>5 DEF TypeOK
<1>2. OneThreadPerPair
  BY DEF OneThreadPerPair
<1>3. MutualExclusion /\ SnapshotCurrent /\ PostsAreTrue
  BY DEF MutualExclusion, Holding, SnapshotCurrent, PostsAreTrue
<1>4. Certified
  BY DEF Certified, File, NoState, Entry
<1>5. Settled
  BY DEF Settled
<1> QED
  BY <1>1, <1>2, <1>3, <1>4, <1>5 DEF IInv

(* The invariant is about the variables of the specification only.         *)
LEMMA StutterInvariant ==
  ASSUME IInv, UNCHANGED vars
  PROVE  IInv'
<1> USE DEF vars, disk, main, threads, environment
<1>1. TypeOK'
  BY DEF IInv, TypeOK
<1>2. OneThreadPerPair'
  BY DEF IInv, OneThreadPerPair, Queued
<1>3. MutualExclusion' /\ SnapshotCurrent'
  BY DEF IInv, MutualExclusion, SnapshotCurrent
<1>4. PostsAreTrue' /\ Certified'
  BY DEF IInv, PostsAreTrue, Certified
<1>5. Settled'
  BY DEF IInv, Settled, Queued, Held
<1> QED
  BY <1>1, <1>2, <1>3, <1>4, <1>5 DEF IInv

(* The inductive invariant holds in every behaviour, for every corpus,     *)
(* number of workers, of crashes and of failures.                          *)
THEOREM Invariant == Spec => []IInv
<1>1. IInv /\ [Next]_vars => IInv'
  <2> SUFFICES ASSUME IInv, [Next]_vars
               PROVE  IInv'
    OBVIOUS
  <2>1. CASE Invoke
    BY <2>1, InvokeInvariant
  <2>2. CASE Finish
    BY <2>2, FinishInvariant
  <2>3. CASE Crash
    BY <2>3, CrashInvariant
  <2>4. ASSUME NEW w \in Workers, Progress(w) \/ StudyFails(w)
        PROVE  IInv'
    BY <2>4, TakeInvariant, AuditInvariant, AcquireInvariant,
       ReadStateInvariant,
       OpenTemporaryInvariant, WriteTemporaryInvariant, ReplaceStateInvariant,
       StudySolvesInvariant, StudyCertifiesInvariant, StudyExitsInvariant,
       StudyFailsInvariant DEF Progress
  <2>5. CASE UNCHANGED vars
    BY <2>5, StutterInvariant
  <2> QED
    BY <2>1, <2>2, <2>3, <2>4, <2>5 DEF Next
<1> QED
  BY InitInvariant, <1>1, PTL DEF Spec

(* Every variable keeps its type; in particular no reader of the state     *)
(* file ever finds it half written (run_corpus.py:49-66).                  *)
THEOREM TypeCorrect == Spec => []TypeOK
<1>1. IInv => TypeOK
  BY DEF IInv
<1> QED
  BY <1>1, Invariant, PTL

(* A pair recorded as complete has on disk the very certificate that was   *)
(* audited (run_corpus.py:117-120, 178-189), whatever crashed or failed in *)
(* between.                                                                *)
THEOREM CertificatesHold == Spec => []CompleteIsCertified
<1>1. IInv => CompleteIsCertified
  BY DEF IInv, Certified, CompleteIsCertified
<1> QED
  BY <1>1, Invariant, PTL

(* When main ends, the failures it reports are exactly the pairs that the  *)
(* state file does not record as complete (run_corpus.py:241-264).         *)
THEOREM FailuresAccounted == Spec => []Accounted
<1>1. IInv => Accounted
  <2> SUFFICES ASSUME IInv, phase = "finished"
               PROVE  raised = {p \in Pairs : stateFile.pairs[p].status # "complete"}
    BY DEF Accounted
  <2>1. \A p : ~Queued(p)
    BY DEF IInv, Settled, Queued
  <2>2. \A p : ~Held(p)
    BY DEF IInv, OneThreadPerPair, Held
  <2>3. raised \subseteq Pairs
    BY DEF IInv, TypeOK
  <2> QED
    BY <2>1, <2>2, <2>3 DEF IInv, Settled
<1> QED
  BY <1>1, Invariant, PTL

(* The state file is always whole, so the ledger is what it records.       *)
LEMMA RecordedIsLedger == IInv => Recorded = stateFile.pairs
  BY DEF IInv, TypeOK, File, Recorded

(* The replacement of the state file is one step of the ledger: a start, a *)
(* failure over a start, or a completion with the certificate on disk.     *)
LEMMA ReplaceRefines ==
  ASSUME IInv, IInv', NEW w \in Workers, ReplaceState(w)
  PROVE  L!Next
<1>1. Recorded = stateFile.pairs /\ Recorded' = stateFile'.pairs
  BY RecordedIsLedger DEF IInv, TypeOK, File, Recorded
<1>2. /\ task[w] \in Pairs
      /\ stateFile'.pairs = [stateFile.pairs EXCEPT ![task[w]] = values[w]]
  BY RecordsEntry DEF File
<1>3. CASE values[w] = Entry("running", NoCertificate)
  <2>1. L!Start(task[w])
    BY <1>1, <1>2, <1>3 DEF L!Start, L!Entry, Entry, NoCertificate
  <2> QED
    BY <1>2, <2>1 DEF L!Next
<1>4. CASE /\ values[w] = Entry("failed", NoCertificate)
           /\ stateFile.pairs[task[w]].status = "running"
  <2>1. L!Fail(task[w])
    BY <1>1, <1>2, <1>4 DEF L!Fail, L!Entry, Entry, NoCertificate
  <2> QED
    BY <1>2, <2>1 DEF L!Next
<1>5. CASE /\ values[w] = Entry("complete", certificate[task[w]])
           /\ certificate[task[w]] > 0
  <2>1. L!Complete(task[w])
    BY <1>1, <1>2, <1>5 DEF L!Complete, L!Entry, Entry
  <2> QED
    BY <1>2, <2>1 DEF L!Next
<1> QED
  BY <1>3, <1>4, <1>5, RecordsEntry

(* The runner implements the ledger: of all its steps only the replacement *)
(* of the state file changes what the file records, and that one as the    *)
(* ledger allows.                                                          *)
THEOREM Refinement == Spec => ImplementsLedger
<1>1. Init => L!Init
  BY DEF Init, L!Init, L!Absent, L!Entry, Recorded, File, NoState, Entry,
     NoCertificate
<1>2. IInv /\ IInv' /\ [Next]_vars => [L!Next]_Recorded
  <2> SUFFICES ASSUME IInv, IInv', [Next]_vars, stateFile' # stateFile
               PROVE  L!Next
    BY DEF Recorded
  <2> USE DEF disk, threads, main, environment
  <2>1. \E w \in Workers : Progress(w) \/ StudyFails(w)
    BY DEF Next, Invoke, Finish, Crash, vars
  <2>2. PICK w \in Workers : Progress(w) \/ StudyFails(w)
    BY <2>1
  <2>3. ReplaceState(w)
    BY <2>2 DEF Progress, Take, Audit, Acquire, ReadState, OpenTemporary,
       WriteTemporary,
       StudySolves, StudyCertifies, StudyExits, StudyFails
  <2> QED
    BY <2>3, ReplaceRefines
<1>3. L!Init /\ [][L!Next]_Recorded <=> ImplementsLedger
  BY DEF ImplementsLedger, L!Spec
<1> QED
  BY <1>1, <1>2, <1>3, Invariant, PTL DEF Spec
=============================================================================
