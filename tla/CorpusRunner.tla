---------------------------- MODULE CorpusRunner ----------------------------
(***************************************************************************)
(* benchmark/run_corpus.py: worker threads take the pairs of the frozen    *)
(* corpus from a queue, run the study of a pair in a child process, audit  *)
(* its certificate and record the outcome in one state file that they all  *)
(* share.  The run may be killed at any instant, and is then invoked again *)
(* over whatever the disk holds.                                           *)
(***************************************************************************)
EXTENDS Integers, Sequences, FiniteSets

CONSTANTS
  Pairs,           \* the pairs of the lock file
  Order,           \* the same pairs as a sequence, the order of submission
  Workers,         \* the threads of the pool, --workers of them
  NoPair, NoThread,
  MaxInvocations,  \* invocations that the environment makes without need
  MaxCrashes,      \* times that the environment kills a run
  MaxFailures      \* times that a study fails of its own accord

ASSUME RunnerAssumption ==
  /\ Order \in Seq(Pairs)
  /\ \A p \in Pairs : \E i \in 1..Len(Order) : Order[i] = p
  /\ \A i, j \in 1..Len(Order) : Order[i] = Order[j] => i = j
  /\ NoPair \notin Pairs /\ NoThread \notin Workers
  /\ MaxInvocations \in Nat \ {0}
  /\ MaxCrashes \in Nat /\ MaxFailures \in Nat

VARIABLES
  stateFile,    \* STATE on disk
  temporary,    \* its .json.tmp, which os.replace moves over it
  certificate,  \* certificate.json of each pair on disk
  phase,        \* "down", "running" or "finished"
  rerun,        \* the --rerun flag of this invocation
  queue,        \* pairs no worker has taken yet
  raised,       \* `failures`: pairs whose future raised
  mutex,        \* STATE_MUTEX: the thread that holds it, or none
  pc, task,     \* where a worker is, and in which pair
  values,       \* the argument of its call of update_state
  snapshot,     \* the state it read in that call
  invocation, crashes, studyFailures   \* counters of the environment

disk == <<stateFile, temporary, certificate>>
main == <<phase, rerun, queue>>
threads == <<mutex, pc, task, values, snapshot>>
environment == <<invocation, crashes, studyFailures>>
vars == <<disk, main, raised, threads, environment>>

(* A certificate is the number of the invocation whose study wrote it; a   *)
(* pair has at most one study in an invocation.                            *)
NoCertificate == 0
TornCertificate == -1       \* truncated, and not yet written to the end
OutdatedCertificate == -2   \* of a format that audit_certificate refuses

Entry(status, audited) == [status |-> status, audited |-> audited]

(* A file that is not whole is one that json.loads refuses.                *)
File(pairs) == [whole |-> TRUE, pairs |-> pairs]
TornFile == [whole |-> FALSE, pairs |-> <<>>]

NoState == [p \in Pairs |-> Entry("absent", NoCertificate)]

Idle ==
  /\ pc = [w \in Workers |-> "idle"]
  /\ task = [w \in Workers |-> NoPair]
  /\ values = [w \in Workers |-> Entry("absent", NoCertificate)]
  /\ snapshot = [w \in Workers |-> NoState]
  /\ mutex = NoThread

Init ==
  /\ stateFile = File(NoState)
  /\ temporary = TornFile
  /\ certificate \in [Pairs -> {NoCertificate, OutdatedCertificate}]
  /\ phase = "down"
  /\ rerun = FALSE
  /\ queue = <<>>
  /\ raised = {}
  /\ Idle
  /\ invocation = 0 /\ crashes = 0 /\ studyFailures = 0
-----------------------------------------------------------------------------
(* The main thread.                                                        *)

AllComplete == \A p \in Pairs : stateFile.pairs[p].status = "complete"

(* main up to executor.submit.  Whoever runs the corpus invokes it again   *)
(* as long as pairs are missing, and up to MaxInvocations times anyway.    *)
Invoke ==
  /\ phase # "running"
  /\ invocation < MaxInvocations \/ ~AllComplete
  /\ phase' = "running"
  /\ rerun' \in (IF invocation < MaxInvocations THEN BOOLEAN ELSE {FALSE})
  /\ queue' = Order
  /\ raised' = {}
  /\ invocation' = IF invocation < MaxInvocations THEN invocation + 1 ELSE invocation
  /\ UNCHANGED <<disk, threads, crashes, studyFailures>>

(* The pool is drained; main exits with the pairs in `failures`.           *)
Finish ==
  /\ phase = "running"
  /\ queue = <<>>
  /\ \A w \in Workers : pc[w] = "idle"
  /\ phase' = "finished"
  /\ UNCHANGED <<disk, rerun, queue, raised, threads, environment>>

(* The run and its children are killed; the disk stays as it is.           *)
Crash ==
  /\ phase = "running"
  /\ crashes < MaxCrashes
  /\ crashes' = crashes + 1
  /\ phase' = "down"
  /\ pc' = [w \in Workers |-> "idle"]
  /\ task' = [w \in Workers |-> NoPair]
  /\ values' = [w \in Workers |-> Entry("absent", NoCertificate)]
  /\ snapshot' = [w \in Workers |-> NoState]
  /\ mutex' = NoThread
  /\ UNCHANGED <<disk, rerun, queue, raised, invocation, studyFailures>>
-----------------------------------------------------------------------------
(* A worker in run_pair.                                                   *)

Goto(w, label) == pc' = [pc EXCEPT ![w] = label]

(* The call update_state(pair_id, entry).                                  *)
Post(w, entry) ==
  /\ Goto(w, "lock")
  /\ values' = [values EXCEPT ![w] = entry]

(* An exception leaves run_pair and becomes the result of the future.      *)
Raise(w) ==
  /\ Goto(w, "idle")
  /\ raised' = raised \cup {task[w]}

(* Slip: a pair that is run again is not recorded as running first.        *)
TakeUnrecorded(w) ==
  /\ phase = "running"
  /\ pc[w] = "idle"
  /\ queue # <<>>
  /\ LET p == Head(queue)
     IN  /\ task' = [task EXCEPT ![w] = p]
         /\ CASE certificate[p] # NoCertificate /\ ~rerun ->
                   Goto(w, "audit") /\ UNCHANGED values
              [] certificate[p] # NoCertificate /\ rerun ->
                   Goto(w, "study") /\ UNCHANGED values
              [] certificate[p] = NoCertificate ->
                   Post(w, Entry("running", NoCertificate))
  /\ queue' = Tail(queue)
  /\ UNCHANGED <<disk, phase, rerun, raised, mutex, snapshot, environment>>

Take(w) ==
  /\ phase = "running"
  /\ pc[w] = "idle"
  /\ queue # <<>>
  /\ LET p == Head(queue)
     IN  /\ task' = [task EXCEPT ![w] = p]
         /\ IF certificate[p] # NoCertificate /\ ~rerun
            THEN Goto(w, "audit") /\ UNCHANGED values
            ELSE Post(w, Entry("running", NoCertificate))
  /\ queue' = Tail(queue)
  /\ UNCHANGED <<disk, phase, rerun, raised, mutex, snapshot, environment>>

(* Slip: the exception ends the run, not only the pair.                    *)
AuditAborting(w) ==
  /\ pc[w] = "audit"
  /\ IF certificate[task[w]] > 0
     THEN /\ Post(w, Entry("complete", certificate[task[w]]))
          /\ UNCHANGED <<raised, queue>>
     ELSE /\ Raise(w)
          /\ queue' = <<>>
          /\ UNCHANGED values
  /\ UNCHANGED <<disk, phase, rerun, mutex, task, snapshot, environment>>

(* audit_certificate, of a certificate found or of one just written.       *)
Audit(w) ==
  /\ pc[w] = "audit"
  /\ IF certificate[task[w]] > 0
     THEN /\ Post(w, Entry("complete", certificate[task[w]]))
          /\ UNCHANGED raised
     ELSE /\ Raise(w)
          /\ UNCHANGED values
  /\ UNCHANGED <<disk, main, mutex, task, snapshot, environment>>

(* update_state: the mutex, the read, the two halves of writing the        *)
(* temporary file, and its move over the state file.                       *)
AcquireUnlocked(w) ==   \* Slip: there is no mutex
  /\ pc[w] = "lock"
  /\ mutex' = w
  /\ Goto(w, "read")
  /\ UNCHANGED <<disk, main, raised, task, values, snapshot, environment>>

Acquire(w) ==
  /\ pc[w] = "lock"
  /\ mutex = NoThread
  /\ mutex' = w
  /\ Goto(w, "read")
  /\ UNCHANGED <<disk, main, raised, task, values, snapshot, environment>>

ReadState(w) ==
  /\ pc[w] = "read"
  /\ IF stateFile.whole
     THEN /\ snapshot' = [snapshot EXCEPT ![w] = stateFile.pairs]
          /\ Goto(w, "open")
          /\ UNCHANGED <<mutex, raised>>
     ELSE /\ Raise(w)
          /\ mutex' = NoThread
          /\ UNCHANGED snapshot
  /\ UNCHANGED <<disk, main, task, values, environment>>

OpenTemporary(w) ==
  /\ pc[w] = "open"
  /\ temporary' = TornFile
  /\ Goto(w, "write")
  /\ UNCHANGED <<stateFile, certificate, main, raised, mutex, task, values,
                 snapshot, environment>>

(* Slip: the mutex guards the read and the write, not the move.            *)
WriteTemporaryReleasing(w) ==
  /\ pc[w] = "write"
  /\ temporary' = File([snapshot[w] EXCEPT ![task[w]] = values[w]])
  /\ Goto(w, "replace")
  /\ mutex' = NoThread
  /\ UNCHANGED <<stateFile, certificate, main, raised, task, values, snapshot,
                 environment>>

WriteTemporary(w) ==
  /\ pc[w] = "write"
  /\ temporary' = File([snapshot[w] EXCEPT ![task[w]] = values[w]])
  /\ Goto(w, "replace")
  /\ UNCHANGED <<stateFile, certificate, main, raised, mutex, task, values,
                 snapshot, environment>>

(* Slip: run_pair returns normally after it recorded a failure.            *)
ReplaceStateSilently(w) ==
  /\ pc[w] = "replace"
  /\ stateFile' = temporary
  /\ temporary' = TornFile
  /\ mutex' = NoThread
  /\ Goto(w, IF values[w].status = "running" THEN "study" ELSE "idle")
  /\ UNCHANGED <<certificate, main, raised, task, values, snapshot, environment>>

(* os.replace, the release of the mutex, and what run_pair does next.      *)
ReplaceState(w) ==
  /\ pc[w] = "replace"
  /\ stateFile' = temporary
  /\ temporary' = TornFile
  /\ mutex' = NoThread
  /\ CASE values[w].status = "running"  -> Goto(w, "study") /\ UNCHANGED raised
       [] values[w].status = "complete" -> Goto(w, "idle") /\ UNCHANGED raised
       [] values[w].status = "failed"   -> Raise(w)
  /\ UNCHANGED <<certificate, main, task, values, snapshot, environment>>
-----------------------------------------------------------------------------
(* The child process: study.run_study, as far as the runner can tell.      *)

StudyFailed(w) == Post(w, Entry("failed", NoCertificate))

(* The child exits with an error before, while or after it writes the      *)
(* certificate: a decoder that disagrees, a full disk.                     *)
StudyFails(w) ==
  /\ pc[w] \in {"study", "certificate", "report"}
  /\ studyFailures < MaxFailures
  /\ studyFailures' = studyFailures + 1
  /\ StudyFailed(w)
  /\ UNCHANGED <<disk, main, raised, mutex, task, snapshot, invocation, crashes>>

(* run_study reads the certificate of an earlier study for its sweep, and  *)
(* raises if that is not JSON; it ends by opening the file for writing.    *)
StudySolves(w) ==
  /\ pc[w] = "study"
  /\ IF certificate[task[w]] = TornCertificate
     THEN /\ StudyFailed(w)
          /\ UNCHANGED certificate
     ELSE /\ Goto(w, "certificate")
          /\ certificate' = [certificate EXCEPT ![task[w]] = TornCertificate]
          /\ UNCHANGED values
  /\ UNCHANGED <<stateFile, temporary, main, raised, mutex, task, snapshot,
                 environment>>

StudyCertifies(w) ==
  /\ pc[w] = "certificate"
  /\ certificate' = [certificate EXCEPT ![task[w]] = invocation]
  /\ Goto(w, "report")
  /\ UNCHANGED <<stateFile, temporary, main, raised, mutex, task, values,
                 snapshot, environment>>

StudyExits(w) ==
  /\ pc[w] = "report"
  /\ Goto(w, "audit")
  /\ UNCHANGED <<disk, main, raised, mutex, task, values, snapshot, environment>>
-----------------------------------------------------------------------------
Progress(w) ==
  \/ Take(w)
  \/ Audit(w)
  \/ Acquire(w)
  \/ ReadState(w)
  \/ OpenTemporary(w)
  \/ WriteTemporary(w)
  \/ ReplaceState(w)
  \/ StudySolves(w)
  \/ StudyCertifies(w)
  \/ StudyExits(w)

Next ==
  \/ Invoke
  \/ Finish
  \/ Crash
  \/ \E w \in Workers : Progress(w) \/ StudyFails(w)

Fairness ==
  /\ WF_vars(Invoke)
  /\ WF_vars(Finish)
  /\ \A w \in Workers : WF_vars(Progress(w))

Spec == Init /\ [][Next]_vars /\ Fairness
-----------------------------------------------------------------------------
(* The state file is a ledger (benchmark/run_corpus.py:49-66): no reader   *)
(* ever finds it half written, no worker's update is lost to another's, a  *)
(* failure is recorded only over a start, and an entry says complete only  *)
(* with the certificate that is on disk at that instant.                   *)
Recorded == IF stateFile.whole THEN stateFile.pairs ELSE <<>>

L == INSTANCE Ledger WITH ledger <- Recorded

ImplementsLedger == L!Spec

(* The exit code tells the truth (lines 241-264): when main ends, the pairs *)
(* it reports as failed are those that the state file does not record as    *)
(* complete.                                                                *)
Accounted ==
  phase = "finished" =>
    raised = {p \in Pairs : stateFile.pairs[p].status # "complete"}

(* A pair recorded as complete (lines 117-120, 178-189) has, intact on disk,*)
(* the very certificate that was audited, even between invocations and      *)
(* after a crash.                                                           *)
CompleteIsCertified ==
  \A p \in Pairs :
    stateFile.pairs[p].status = "complete" =>
      certificate[p] = stateFile.pairs[p].audited

(* A pair that a run finds with a certificate it can neither read nor       *)
(* replace needs a human: torn by a crash or by a study that failed while   *)
(* it wrote, or outdated.                                                   *)
Obstructed(p) ==
  \/ certificate[p] = OutdatedCertificate
  \/ /\ certificate[p] = TornCertificate
     /\ \A w \in Workers : ~(task[w] = p /\ pc[w] = "certificate")

(* Whatever crashes, fails or is obstructed elsewhere, a pair that is not   *)
(* itself obstructed is recorded as complete in the end and stays so:       *)
(* "continue to preserve all independent runs" (line 260).                  *)
Independent ==
  \A p \in Pairs :
    []~Obstructed(p) => <>[](stateFile.pairs[p].status = "complete")

(* The docstring of run_corpus.py (line 2) says that it runs the corpus     *)
(* "resumably": with no outdated certificate in its way, a run that is      *)
(* killed and invoked again completes every pair in the end.                *)
Resumable ==
  (\A p \in Pairs : certificate[p] = NoCertificate) => <>[]AllComplete
-----------------------------------------------------------------------------
(* What is true at every step between the calls, and makes the rest true.  *)
Entries ==
  [status : {"absent", "running", "failed", "complete"}, audited : Int]

Updating == {"lock", "read", "open", "write", "replace"}
Holding == {"read", "open", "write", "replace"}
Studying == {"study", "certificate", "report"}
Busy == Updating \cup Studying \cup {"audit"}

TypeOK ==
  /\ stateFile = File(stateFile.pairs)
  /\ stateFile.pairs \in [Pairs -> Entries]
  /\ certificate \in [Pairs -> Int]
  /\ phase \in {"down", "running", "finished"}
  /\ rerun \in BOOLEAN
  /\ queue \in Seq(Pairs)
  /\ raised \subseteq Pairs
  /\ mutex \in Workers \cup {NoThread}
  /\ pc \in [Workers -> Busy \cup {"idle"}]
  /\ task \in [Workers -> Pairs \cup {NoPair}]
  /\ values \in [Workers -> Entries]
  /\ snapshot \in [Workers -> [Pairs -> Entries]]
  /\ invocation \in Nat /\ crashes \in Nat /\ studyFailures \in Nat

Queued(p) == \E i \in 1..Len(queue) : queue[i] = p
Held(p) == \E w \in Workers : pc[w] \in Busy /\ task[w] = p

(* A pair is queued once, or in the hands of one thread, or done with.     *)
OneThreadPerPair ==
  /\ \A w \in Workers :
       pc[w] \in Busy => task[w] \in Pairs /\ ~Queued(task[w]) /\ phase = "running"
  /\ \A v, w \in Workers :
       pc[v] \in Busy /\ pc[w] \in Busy /\ task[v] = task[w] => v = w
  /\ \A i, j \in 1..Len(queue) : queue[i] = queue[j] => i = j

(* STATE_MUTEX is held from the read of the state file to its replacement, *)
(* so what a thread has read is what it replaces (lines 49-66).            *)
MutualExclusion == \A w \in Workers : pc[w] \in Holding => mutex = w

SnapshotCurrent ==
  \A w \in Workers :
    /\ pc[w] \in {"open", "write", "replace"} => snapshot[w] = stateFile.pairs
    /\ pc[w] = "replace" =>
         temporary = File([snapshot[w] EXCEPT ![task[w]] = values[w]])

(* What a thread is about to record is still true: the start comes before  *)
(* the study, and nobody rewrites the certificate that was audited.        *)
PostsAreTrue ==
  \A w \in Workers :
    /\ pc[w] \in Studying => stateFile.pairs[task[w]].status = "running"
    /\ pc[w] \in Updating =>
         \/ values[w] = Entry("running", NoCertificate)
         \/ /\ values[w] = Entry("failed", NoCertificate)
            /\ stateFile.pairs[task[w]].status = "running"
         \/ /\ values[w] = Entry("complete", certificate[task[w]])
            /\ certificate[task[w]] > 0

Certified ==
  \A p \in Pairs :
    stateFile.pairs[p].status = "complete" =>
      /\ certificate[p] = stateFile.pairs[p].audited
      /\ certificate[p] > 0

(* A pair that is done with in this invocation is complete or has raised.  *)
Settled ==
  /\ phase = "finished" => queue = <<>>
  /\ phase = "running" => invocation > 0
  /\ phase # "down" =>
       \A p \in Pairs :
         IF Queued(p) \/ Held(p) THEN p \notin raised
         ELSE p \in raised <=> stateFile.pairs[p].status # "complete"

(* The inductive invariant.  The holder of the mutex is the only thread     *)
(* between the read of the state file and its replacement, and a pair is in *)
(* the hands of at most one thread, so what a thread posts is still true    *)
(* when it is recorded (lines 49-66, 114-189).                              *)
IInv ==
  /\ TypeOK
  /\ OneThreadPerPair
  /\ MutualExclusion
  /\ SnapshotCurrent
  /\ PostsAreTrue
  /\ Certified
  /\ Settled
=============================================================================
