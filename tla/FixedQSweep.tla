---------------------------- MODULE FixedQSweep ----------------------------
(***************************************************************************)
(* The composite certificate of benchmark_android: a sweep of jobs, one    *)
(* for each number of slots q, leaves lower bounds and attained results on *)
(* disk (run_fixed_q_sweep.py, run_fixed_q_integer_dual.py); a verifier    *)
(* replays the bounds into a ledger (verify_fixed_q_bound_sweep.py); and   *)
(* finalize_integer_dual_pair.py concludes that the patch at the largest q *)
(* is the smallest of all, or refuses.  The trace may be prepared anew at  *)
(* any time, a sweep may be killed, and nothing on disk is ever cleaned up.*)
(***************************************************************************)
EXTENDS Integers, Sequences, FiniteSets, Varint

CONSTANTS
  Last,           \* 93, the q whose patch is to be certified
  Anchor,         \* 80, the smallest q with a bound of its own
  Header,         \* the length of the file header at each q
  DeltaConstant,  \* the bytes of a window besides its instructions
  WindowPrefix,
  Traces, Optima, \* traces, and the optimal instruction bytes at each q
  Workers, Sweeps,    \* threads, and the ranges and flags of the invocations
  MaxSweeps, MaxChanges, MaxFailures

(* A table of q slots can be had with q + 1 (finalize_integer_dual_pair.py *)
(* line 290), so the optimum does not increase with q; the selection models*)
(* of GlobalSelection are checked for it.                                  *)
ASSUME SweepAssumption ==
  /\ Last \in Nat /\ Anchor \in 1..(Last - 1)
  /\ Header \in [0..Last -> Nat] /\ DeltaConstant \in Nat /\ WindowPrefix \in Nat
  /\ Optima \subseteq [0..Last -> Nat]
  /\ \A f \in Optima : \A q \in 1..(Last - 1) : f[q] >= f[q + 1]
  /\ Sweeps \subseteq [qs : SUBSET (1..Last), boundOnly : BOOLEAN, replay : BOOLEAN]

VARIABLES
  trace, optimum,          \* the trace that is on disk; its optima, by trace
  bounds, results,         \* lower-bound.json and result.json, by q
  proofs, witnesses,       \* bound-call-000 and call-000 of their proof directories
  sweep,                   \* the flags of the sweep that runs, or NoSweep
  queue, job,              \* its q that wait, and what each thread is at
  outcomes, reported,      \* how its jobs ended; the jobs of sweep-status.json
  ledger, certificate,
  swapped,                 \* history: the trace was replaced while a job was at it
  sweeps, changes, failures

disk == <<bounds, results, proofs, witnesses>>
running == <<sweep, queue, job, outcomes, reported>>
counters == <<sweeps, changes, failures>>
vars == <<trace, optimum, disk, running, ledger, certificate, swapped, counters>>

Absent == [is |-> "absent"]
Torn == [is |-> "torn"]
(* A proof is of the model of a trace: its fingerprint tells which.  What a*)
(* document says of its trace is the hash of the file at the end of a job. *)
Proof(of, value) == [is |-> "proof", of |-> of, value |-> value]

(* fixed_q_patch_lower_bound, and the length of an emitted patch.          *)
PatchBytes(q, instructions) ==
  LET delta == DeltaConstant + VarintSize(instructions) + instructions
  IN  Header[q] + WindowPrefix + delta + VarintSize(delta)

Bound(label, of, q, value) ==
  [is |-> "bound", label |-> label, of |-> of, value |-> value,
   patch |-> PatchBytes(q, value)]
Result(kind, label, of, value) ==
  [is |-> kind, label |-> label, of |-> of, value |-> value]

NoSweep == [qs |-> {}, boundOnly |-> FALSE, replay |-> FALSE]
(* A job reads the trace, proves a bound, and may attain it.               *)
Job(q, of, stage, value) == [q |-> q, of |-> of, stage |-> stage, value |-> value]
NoJob == [q |-> 0]

Init ==
  /\ trace \in Traces
  /\ optimum \in [Traces -> Optima]
  /\ bounds = [q \in 1..Last |-> Absent]
  /\ proofs = [q \in 1..Last |-> Absent]
  /\ witnesses = [q \in 1..Last |-> Absent]
  /\ results = [q \in 1..Last |-> Absent]
  /\ sweep = NoSweep /\ queue = {} /\ job = [w \in Workers |-> NoJob]
  /\ outcomes = [q \in {} |-> "none"] /\ reported = {}
  /\ ledger = Absent /\ certificate = Absent /\ swapped = FALSE
  /\ sweeps = 0 /\ changes = 0 /\ failures = 0
-----------------------------------------------------------------------------
(* The sweep.                                                              *)

Running == sweep # NoSweep
Idle(w) == job[w].q = 0

StartSweep(s) ==
  /\ ~Running
  /\ sweeps < MaxSweeps /\ sweeps' = sweeps + 1
  /\ sweep' = s /\ queue' = s.qs
  /\ outcomes' = [q \in {} |-> "none"] /\ reported' = {}
  /\ UNCHANGED <<trace, optimum, disk, job, ledger, certificate, swapped, changes, failures>>

(* An exception leaves the loop over as_completed: no status is recorded   *)
(* from then on, but the pool goes on until every job is done.             *)
Aborted == \E q \in DOMAIN outcomes : outcomes[q] = "raised"

SettleReportingAll(q, outcome) ==   \* Slip: the loop survives the exception
  /\ outcomes' = [p \in DOMAIN outcomes \cup {q} |-> IF p = q THEN outcome ELSE outcomes[p]]
  /\ reported' = reported \cup {q}

Settle(q, outcome) ==
  /\ outcomes' = [p \in DOMAIN outcomes \cup {q} |-> IF p = q THEN outcome ELSE outcomes[p]]
  /\ reported' = IF outcome = "raised" \/ Aborted THEN reported ELSE reported \cup {q}

(* What run_one finds before it starts a job.  A bound counts as done in a *)
(* bound-only sweep, an attained result in any, whatever their trace; a    *)
(* file that is not JSON raises.                                           *)
OnDisk(q) ==
  LET bound == IF sweep.boundOnly THEN bounds[q] ELSE Absent IN
  CASE bound = Torn \/ (bound = Absent /\ results[q] = Torn)           -> "raised"
    [] bound.is = "bound" \/ (bound = Absent /\ results[q].is = "dual") -> "skipped_existing"
    [] OTHER                                                           -> "none"

TakeLosingOthers(w) ==   \* Slip: the pool does not outlive the exception
  LET q == CHOOSE x \in queue : \A y \in queue : x >= y IN
  /\ Running /\ Idle(w) /\ queue # {}
  /\ queue' = IF OnDisk(q) = "raised" THEN {} ELSE queue \ {q}
  /\ IF OnDisk(q) = "none"
     THEN /\ job' = [job EXCEPT ![w] = Job(q, trace, "read", 0)]
          /\ UNCHANGED <<outcomes, reported>>
     ELSE Settle(q, OnDisk(q)) /\ UNCHANGED job
  /\ UNCHANGED <<trace, optimum, disk, sweep, ledger, certificate, swapped, counters>>

(* The largest q goes first; its job reads the trace.                      *)
Take(w) ==
  LET q == CHOOSE x \in queue : \A y \in queue : x >= y IN
  /\ Running /\ Idle(w) /\ queue # {}
  /\ queue' = queue \ {q}
  /\ IF OnDisk(q) = "none"
     THEN /\ job' = [job EXCEPT ![w] = Job(q, trace, "read", 0)]
          /\ UNCHANGED <<outcomes, reported>>
     ELSE Settle(q, OnDisk(q)) /\ UNCHANGED job
  /\ UNCHANGED <<trace, optimum, disk, sweep, ledger, certificate, swapped, counters>>

(* How run_one reads the outcome of a job that exited with 0: by the files *)
(* that are there, a result first.                                         *)
Done(w) ==
  LET q == job[w].q IN
  /\ job' = [job EXCEPT ![w] = NoJob]
  /\ Settle(q, IF results'[q] # Absent THEN "exact" ELSE "exact_lower_bound")
  /\ UNCHANGED <<trace, optimum, sweep, queue, ledger, certificate, swapped, counters>>

(* The dual values that a job may come to: the optimum, or less.           *)
Values(of, q) == {v \in {optimum[of][q] - 1, optimum[of][q]} : v >= 0}

At(w, stage) == ~Idle(w) /\ job[w].stage = stage

(* The stored proof is replayed, or a new one found, stored and replayed.  *)
FindBound(w) ==
  LET q == job[w].q  of == job[w].of IN
  /\ At(w, "read")
  /\ \E v \in Values(of, q) :
       /\ sweep.replay => proofs[q] = Proof(of, v)
       /\ proofs' = [proofs EXCEPT ![q] = Proof(of, v)]
       /\ job' = [job EXCEPT ![w] = Job(q, of, "proved", v)]
  /\ UNCHANGED <<trace, optimum, bounds, results, witnesses, sweep, queue,
                 outcomes, reported, ledger, certificate, swapped, counters>>

(* That is all that a bound-only job, or one without a witness, can show.  *)
WriteBound(w) ==
  LET q == job[w].q IN
  /\ At(w, "proved")
  /\ bounds' = [bounds EXCEPT ![q] = Bound(trace, job[w].of, q, job[w].value)]
  /\ UNCHANGED <<results, proofs, witnesses>>
  /\ Done(w)

(* A witness attains the bound, which therefore was the optimum.           *)
AttainBound(w) ==
  LET q == job[w].q  of == job[w].of IN
  /\ At(w, "proved") /\ ~sweep.boundOnly
  /\ job[w].value = optimum[of][q]
  /\ witnesses' = [witnesses EXCEPT ![q] = Proof(of, job[w].value)]
  /\ job' = [job EXCEPT ![w].stage = "attained"]
  /\ UNCHANGED <<trace, optimum, bounds, results, proofs, sweep, queue,
                 outcomes, reported, ledger, certificate, swapped, counters>>

(* The patch made from it decodes.                                         *)
WriteResult(w) ==
  LET q == job[w].q IN
  /\ At(w, "attained")
  /\ results' = [results EXCEPT ![q] = Result("dual", trace, job[w].of, job[w].value)]
  /\ UNCHANGED <<bounds, proofs, witnesses>>
  /\ Done(w)

(* A deadline that passes before any dual, or a proof of another trace; or *)
(* any other error, before a document is written.                          *)
FailJob(w) ==
  LET q == job[w].q IN
  /\ ~Idle(w)
  /\ \/ /\ At(w, "read") /\ sweep.replay
        /\ proofs[q] # Absent => proofs[q].of # job[w].of
        /\ UNCHANGED failures
     \/ failures < MaxFailures /\ failures' = failures + 1
  /\ job' = [job EXCEPT ![w] = NoJob]
  /\ Settle(q, "failed")
  /\ UNCHANGED <<trace, optimum, disk, sweep, queue, ledger, certificate, swapped,
                 sweeps, changes>>

EndSweep ==
  /\ Running /\ queue = {} /\ \A w \in Workers : Idle(w)
  /\ sweep' = NoSweep
  /\ outcomes' = [q \in {} |-> "none"] /\ reported' = {}
  /\ UNCHANGED <<trace, optimum, disk, queue, job, ledger, certificate, swapped, counters>>

(* The sweep is killed, and with it a job that may have been writing its   *)
(* document.                                                               *)
KillSweep(w) ==
  /\ Running /\ ~Idle(w)
  /\ failures < MaxFailures /\ failures' = failures + 1
  /\ \/ UNCHANGED <<bounds, results>>
     \/ /\ At(w, "proved") /\ bounds' = [bounds EXCEPT ![job[w].q] = Torn]
        /\ UNCHANGED results
     \/ /\ At(w, "attained") /\ results' = [results EXCEPT ![job[w].q] = Torn]
        /\ UNCHANGED bounds
  /\ sweep' = NoSweep /\ queue' = {} /\ job' = [x \in Workers |-> NoJob]
  /\ outcomes' = [q \in {} |-> "none"] /\ reported' = {}
  /\ UNCHANGED <<trace, optimum, proofs, witnesses, ledger, certificate, swapped,
                 sweeps, changes>>
-----------------------------------------------------------------------------
(* The programs that are run by hand.                                      *)

PrepareTrace(t) ==
  /\ changes < MaxChanges /\ changes' = changes + 1
  /\ t # trace /\ trace' = t
  /\ swapped' = (swapped \/ \E w \in Workers : ~Idle(w))
  /\ UNCHANGED <<optimum, disk, running, ledger, certificate, sweeps, failures>>

(* run_fixed_q_strengthened_scip.py, at the largest q, exact or stopped.   *)
SolveLast(kind) ==
  /\ ~Running
  /\ results' = [results EXCEPT ![Last] = Result(kind, trace, trace, optimum[trace][Last])]
  /\ UNCHANGED <<trace, optimum, bounds, proofs, witnesses, running, ledger, certificate,
                 swapped, counters>>

(* materialize_replayed_bound.py: a bound from a stored proof.             *)
Materialize(q) ==
  /\ ~Running
  /\ proofs[q] # Absent /\ proofs[q].of = trace
  /\ bounds' = [bounds EXCEPT ![q] = Bound(trace, trace, q, proofs[q].value)]
  /\ UNCHANGED <<trace, optimum, proofs, results, witnesses, running, ledger, certificate,
                 swapped, counters>>

Direct == Anchor..(Last - 1)

(* verify_one at every q of the range, on the model of the present trace.  *)
VerifyBounds ==
  /\ ~Running
  /\ \A q \in Direct :
       bounds[q].is = "bound" /\ bounds[q].of = trace
         /\ proofs[q] = Proof(trace, bounds[q].value)
  /\ ledger' = [is |-> "ledger", rows |->
                 [q \in Direct |-> [of |-> trace, value |-> bounds[q].value,
                                    patch |-> bounds[q].patch]]]
  /\ UNCHANGED <<trace, optimum, disk, running, certificate, swapped, counters>>

(* What the finalizer asks of the bound at q and of the proof beside it.   *)
BoundAccepted(q) ==
  /\ bounds[q].is = "bound"
  /\ bounds[q].label = trace
  /\ proofs[q] = Proof(bounds[q].of, bounds[q].value)

LedgerAgrees ==
  /\ ledger # Absent
  /\ \A q \in Direct :
       ledger.rows[q] = [of |-> bounds[q].of, value |-> bounds[q].value,
                         patch |-> bounds[q].patch]

(* The result at the largest q is replayed against the model of the trace. *)
ResultAccepted ==
  LET r == results[Last] IN
  /\ r.is \in {"dual", "scip"}
  /\ r.label = trace /\ r.of = trace
  /\ r.is = "dual" => witnesses[Last] = Proof(trace, r.value)

TransferredWhole(q) == bounds[Anchor].patch   \* Slip: header and all

(* The instruction bound of the anchor serves every smaller q.             *)
Transferred(q) == PatchBytes(q, bounds[Anchor].value)

(* A lower bound for every q but the largest.                              *)
Row(q) ==
  CASE q = 0                   -> PatchBytes(0, optimum[trace][0])
    [] q \in 1..(Anchor - 1)   -> Transferred(q)
    [] q \in Direct            -> bounds[q].patch

Finalize ==
  LET incumbent == PatchBytes(Last, results[Last].value) IN
  /\ ~Running
  /\ \A q \in Direct : BoundAccepted(q)
  /\ LedgerAgrees
  /\ ResultAccepted
  /\ \A q \in 0..(Last - 1) : Row(q) >= incumbent
  /\ certificate' = [is |-> "certificate", trace |-> trace, bytes |-> incumbent]
  /\ UNCHANGED <<trace, optimum, disk, running, ledger, swapped, counters>>
-----------------------------------------------------------------------------
Next ==
  \/ \E s \in Sweeps : StartSweep(s)
  \/ \E w \in Workers :
       \/ Take(w) \/ FindBound(w) \/ WriteBound(w) \/ AttainBound(w) \/ WriteResult(w)
       \/ FailJob(w) \/ KillSweep(w)
  \/ EndSweep
  \/ \E t \in Traces : PrepareTrace(t)
  \/ \E kind \in {"scip", "stopped"} : SolveLast(kind)
  \/ \E q \in 1..Last : Materialize(q)
  \/ VerifyBounds
  \/ Finalize

Spec == Init /\ [][Next]_vars
-----------------------------------------------------------------------------
Outcomes == {"exact", "exact_lower_bound", "failed", "skipped_existing", "raised"}

TypeOK ==
  /\ \A q \in 1..Last :
       /\ bounds[q].is \in {"absent", "torn", "bound"}
       /\ results[q].is \in {"absent", "torn", "dual", "scip", "stopped"}
       /\ proofs[q].is \in {"absent", "proof"} /\ witnesses[q].is \in {"absent", "proof"}
  /\ queue \subseteq sweep.qs
  /\ \A q \in DOMAIN outcomes : q \in sweep.qs \ queue /\ outcomes[q] \in Outcomes
  /\ reported \subseteq {q \in DOMAIN outcomes : outcomes[q] # "raised"}

(* A certificate (finalize_integer_dual_pair.py:440-449) names a patch that *)
(* is not longer than the patch of any table of any number of slots, for    *)
(* the trace it names: not only of those whose bounds were computed, and    *)
(* whatever earlier sweeps, of this trace or another, left on disk.  Except *)
(* if the trace was replaced while a job was at it: the document then hashes*)
(* the trace of its end (run_fixed_q_integer_dual.py:135), the proof is of  *)
(* that of its start, and a ledger names no trace by which to tell.         *)
CertificateIsOptimal ==
  certificate # Absent /\ ~swapped =>
    \A q \in 0..Last :
      certificate.bytes <= PatchBytes(q, optimum[certificate.trace][q])

(* When a sweep is at its end (run_fixed_q_sweep.py:148-157) every job was  *)
(* tried, also those behind one that raised; if none raised, each is in     *)
(* sweep-status.json; and where a job is reported as done, its bound or     *)
(* result is there.                                                         *)
SweepAccounts ==
  Running /\ queue = {} /\ (\A w \in Workers : Idle(w)) =>
    /\ DOMAIN outcomes = sweep.qs
    /\ ~Aborted => reported = sweep.qs
    /\ \A q \in sweep.qs :
         outcomes[q] \in {"exact", "exact_lower_bound", "skipped_existing"} =>
           bounds[q].is = "bound" \/ results[q].is = "dual"
=============================================================================
