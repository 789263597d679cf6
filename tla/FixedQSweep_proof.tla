------------------------- MODULE FixedQSweep_proof --------------------------
(***************************************************************************)
(* Proofs about the composite certificate, for every number of slots and   *)
(* anchor, any length of headers and prefixes, any optima that do not      *)
(* increase with q, and any number of sweeps, threads, failures and changes*)
(* of the trace.                                                           *)
(***************************************************************************)
EXTENDS FixedQSweep, FiniteSetTheorems, WellFoundedInduction, TLAPS

(* The lengths.                                                            *)

(* varint_size does not decrease.                                          *)
LEMMA VarintSizeMonotone ==
  ASSUME NEW m \in Nat, NEW n \in Nat, m <= n
  PROVE  /\ VarintSize(m) \in Nat /\ VarintSize(n) \in Nat
         /\ VarintSize(m) <= VarintSize(n)
<1> DEFINE Below(x) == {k \in 1..DigitLimit : x >= Base ^ k}
<1>1. \A k \in 1..DigitLimit : Base ^ k \in Nat
  BY VarintAssumption DEF VarintAssumption
<1>2. Below(m) \subseteq Below(n) /\ Below(n) \subseteq 1..DigitLimit
  <2> SUFFICES ASSUME NEW k \in 1..DigitLimit, m >= Base ^ k PROVE n >= Base ^ k
    OBVIOUS
  <2> QED
    BY <1>1
<1>3. IsFiniteSet(1..DigitLimit)
  BY VarintAssumption, FS_Interval DEF VarintAssumption
<1>4. /\ IsFiniteSet(Below(n)) /\ IsFiniteSet(Below(m))
      /\ Cardinality(Below(m)) <= Cardinality(Below(n))
  BY <1>2, <1>3, FS_Subset
<1>5. Cardinality(Below(m)) \in Nat /\ Cardinality(Below(n)) \in Nat
  BY <1>4, FS_CardinalityType
<1> QED
  BY <1>4, <1>5 DEF VarintSize

(* A patch of as many slots is not shorter if its instructions are not     *)
(* (fixed_q_patch_lower_bound of integer_dual_adapter.py).                 *)
LEMMA PatchBytesMonotone ==
  ASSUME NEW q \in 0..Last, NEW m \in Nat, NEW n \in Nat, m <= n
  PROVE  /\ PatchBytes(q, m) \in Nat /\ PatchBytes(q, n) \in Nat
         /\ PatchBytes(q, m) <= PatchBytes(q, n)
<1> DEFINE delta(x) == DeltaConstant + VarintSize(x) + x
<1>1. /\ Header[q] \in Nat /\ WindowPrefix \in Nat /\ DeltaConstant \in Nat
      /\ VarintSize(m) \in Nat /\ VarintSize(n) \in Nat
      /\ VarintSize(m) <= VarintSize(n)
  BY SweepAssumption, VarintSizeMonotone DEF SweepAssumption
<1>2. delta(m) \in Nat /\ delta(n) \in Nat /\ delta(m) <= delta(n)
  BY <1>1
<1> HIDE DEF delta
<1>3. /\ VarintSize(delta(m)) \in Nat /\ VarintSize(delta(n)) \in Nat
      /\ VarintSize(delta(m)) <= VarintSize(delta(n))
  BY <1>2, VarintSizeMonotone
<1>4. \A x : PatchBytes(q, x) =
               Header[q] + WindowPrefix + delta(x) + VarintSize(delta(x))
  BY DEF PatchBytes, delta
<1> QED
  BY <1>1, <1>2, <1>3, <1>4

(* The naturals are well ordered.                                          *)
LEMMA Least ==
  ASSUME NEW T, T \subseteq Nat, T # {}
  PROVE  \E m \in T : \A n \in T : m <= n
<1> DEFINE less == OpToRel(<, Nat)
<1>1. PICK m \in T : \A n \in T : ~(<<n, m>> \in less)
  BY NatLessThanWellFounded, WFMin, Zenon
<1>2. ASSUME NEW n \in Nat, n < m PROVE <<n, m>> \in less
  BY <1>2 DEF OpToRel
<1> HIDE DEF less
<1>3. ASSUME NEW n \in T PROVE m <= n
  <2>1. ~(n < m)
    BY <1>1, <1>2
  <2> QED
    BY <2>1
<1> QED
  BY <1>3

(* So a set of bounded numbers has a greatest.                             *)
LEMMA Greatest ==
  ASSUME NEW bound \in Nat, NEW T, T \subseteq 0..bound, T # {}
  PROVE  \E m \in T : \A n \in T : m >= n
<1> DEFINE U == {d \in Nat : bound - d \in T}
<1>1. ASSUME NEW n \in T PROVE n \in Nat /\ bound - n \in U
  <2>1. n \in Int /\ n >= 0 /\ n <= bound /\ bound - (bound - n) = n
    OBVIOUS
  <2> QED
    BY <2>1, <1>1
<1>2. U \subseteq Nat /\ U # {}
  BY <1>1
<1>3. PICK u \in U : \A v \in U : u <= v
  <2> HIDE DEF U
  <2> QED
    BY <1>2, Least
<1>4. ASSUME NEW n \in T PROVE bound - u >= n
  <2>1. u <= bound - n /\ n \in Nat /\ u \in Nat
    BY <1>1, <1>3
  <2> QED
    BY <2>1
<1> QED
  BY <1>3, <1>4

(* The bound of the anchor is one for every smaller q                      *)
(* (finalize_integer_dual_pair.py:269-290).                                *)
LEMMA OptimaDescend ==
  ASSUME NEW f \in Optima, NEW q \in 1..Anchor
  PROVE  f[q] \in Nat /\ f[Anchor] \in Nat /\ f[Anchor] <= f[q]
<1>1. /\ Last \in Nat /\ Anchor \in 1..(Last - 1) /\ f \in [0..Last -> Nat]
      /\ \A r \in 1..(Last - 1) : f[r] >= f[r + 1]
  BY SweepAssumption DEF SweepAssumption
<1> DEFINE Lower == {r \in 1..Anchor : f[r] < f[Anchor]}
<1>2. Lower = {}
  <2> SUFFICES ASSUME Lower # {} PROVE FALSE
    OBVIOUS
  <2>1. PICK m \in Lower : \A n \in Lower : m >= n
    <3>1. Anchor \in Nat /\ Lower \subseteq 0..Anchor
      BY <1>1
    <3> HIDE DEF Lower
    <3> QED
      BY <3>1, Greatest
  <2>2. m \in 1..Anchor /\ f[m] < f[Anchor] /\ m # Anchor
    BY <1>1
  <2>3. m + 1 \in 1..Anchor /\ m + 1 \notin Lower
    BY <1>1, <2>1, <2>2
  <2>4. /\ f[m] >= f[m + 1] /\ f[m + 1] >= f[Anchor]
        /\ f[m] \in Nat /\ f[m + 1] \in Nat /\ f[Anchor] \in Nat
    BY <1>1, <2>2, <2>3
  <2> QED
    BY <2>2, <2>4
<1>3. ~(f[q] < f[Anchor])
  BY <1>2
<1>4. q \in 0..Last /\ Anchor \in 0..Last
  BY <1>1
<1> QED
  BY <1>1, <1>3, <1>4
-----------------------------------------------------------------------------
(* What each document holds.                                               *)
ProofHolds(q, p) ==
  \/ p = Absent
  \/ /\ p = Proof(p.of, p.value)
     /\ p.of \in Traces /\ p.value \in Nat /\ p.value <= optimum[p.of][q]
(* A bound names another trace than its proof only if one was replaced     *)
(* under a job.                                                            *)
BoundHolds(q, b) ==
  \/ b \in {Absent, Torn}
  \/ /\ b = Bound(b.label, b.of, q, b.value)
     /\ b.of \in Traces /\ b.value \in Nat /\ b.value <= optimum[b.of][q]
     /\ ~swapped => b.label = b.of
ResultHolds(q, r) ==
  \/ r \in {Absent, Torn}
  \/ /\ r = Result(r.is, r.label, r.of, r.value)
     /\ r.is \in {"dual", "scip", "stopped"}
     /\ r.of \in Traces /\ r.value = optimum[r.of][q]

Documents ==
  /\ trace \in Traces /\ optimum \in [Traces -> Optima] /\ swapped \in BOOLEAN
  /\ proofs = [q \in 1..Last |-> proofs[q]]
  /\ witnesses = [q \in 1..Last |-> witnesses[q]]
  /\ bounds = [q \in 1..Last |-> bounds[q]]
  /\ results = [q \in 1..Last |-> results[q]]
  /\ \A q \in 1..Last :
       /\ ProofHolds(q, proofs[q]) /\ witnesses[q].is \in {"absent", "proof"}
       /\ BoundHolds(q, bounds[q]) /\ ResultHolds(q, results[q])

Jobs == [q : 1..Last, of : Traces, stage : {"read", "proved", "attained"}, value : Nat]

(* What a thread knows of the q that it is at.                             *)
JobHolds(j) ==
  /\ j.stage # "read" => j.value <= optimum[j.of][j.q]
  /\ j.stage = "attained" => j.value = optimum[j.of][j.q]
  /\ ~swapped => j.of = trace

Threads ==
  /\ job \in [Workers -> Jobs \cup {NoJob}]
  /\ \A w \in Workers : ~Idle(w) => JobHolds(job[w])

(* A q of the sweep waits, is at a thread, or has an outcome.              *)
Assigned ==
  /\ sweep \in Sweeps \cup {NoSweep}
  /\ queue \subseteq sweep.qs /\ DOMAIN outcomes \subseteq sweep.qs \ queue
  /\ \A w \in Workers : ~Idle(w) => job[w].q \in sweep.qs \ (queue \cup DOMAIN outcomes)
  /\ \A v, w \in Workers : ~Idle(v) /\ job[v].q = job[w].q => v = w
  /\ \A q \in sweep.qs :
       q \in queue \cup DOMAIN outcomes \/ \E w \in Workers : job[w].q = q

Recorded ==
  /\ \A q \in DOMAIN outcomes :
       /\ outcomes[q] \in Outcomes
       /\ outcomes[q] \in {"exact", "exact_lower_bound", "skipped_existing"} =>
            bounds[q].is = "bound" \/ results[q].is = "dual"
  /\ reported \subseteq {q \in DOMAIN outcomes : outcomes[q] # "raised"}
  /\ ~Aborted => reported = DOMAIN outcomes

(* The certificate is of the optimum, which never changes.                 *)
IInv == Documents /\ Threads /\ Assigned /\ Recorded /\ CertificateIsOptimal
-----------------------------------------------------------------------------
(* What a step leaves alone.                                               *)

LEMMA Busy ==
  ASSUME IInv, NEW w \in Workers, ~Idle(w)
  PROVE  /\ job[w] \in Jobs /\ JobHolds(job[w])
         /\ job[w].q \in 1..Last /\ job[w].of \in Traces
         /\ job[w].q \in sweep.qs \ (queue \cup DOMAIN outcomes) /\ Running
<1>1. job[w] \in Jobs /\ JobHolds(job[w])
  BY DEF IInv, Threads, Idle, NoJob
<1>2. job[w].q \in sweep.qs \ (queue \cup DOMAIN outcomes)
  BY DEF IInv, Assigned
<1> QED
  BY <1>1, <1>2 DEF Jobs, Running, NoSweep

(* The numbers of slots are numbers.                                       *)
LEMMA SlotsAreNumbers ==
  ASSUME IInv
  PROVE  sweep.qs \subseteq 1..Last
BY SweepAssumption DEF SweepAssumption, IInv, Assigned, NoSweep

(* Between two sweeps no thread is at work and nothing is recorded.        *)
LEMMA Quiet ==
  ASSUME IInv, ~Running
  PROVE  /\ sweep.qs = {} /\ queue = {} /\ DOMAIN outcomes = {} /\ reported = {}
         /\ \A w \in Workers : Idle(w)
<1>1. sweep.qs = {}
  BY DEF Running, NoSweep
<1> QED
  BY <1>1 DEF IInv, Assigned, Recorded

(* Documents that a step leaves alone stay true.                           *)
LEMMA DocumentsStay ==
  ASSUME IInv, UNCHANGED <<trace, optimum, disk, swapped>>
  PROVE  Documents'
BY DEF IInv, Documents, disk, ProofHolds, BoundHolds, ResultHolds

(* So does a certificate that it leaves alone.                             *)
LEMMA CertificateStays ==
  ASSUME IInv, UNCHANGED <<optimum, certificate>>, swapped => swapped'
  PROVE  CertificateIsOptimal'
BY DEF IInv, CertificateIsOptimal, PatchBytes

(* So does what is said of the jobs of a sweep.                            *)
LEMMA RecordStays ==
  ASSUME IInv, UNCHANGED <<outcomes, reported>>,
         \A q \in DOMAIN outcomes :
           bounds[q].is = "bound" \/ results[q].is = "dual" =>
             bounds'[q].is = "bound" \/ results'[q].is = "dual"
  PROVE  Recorded'
BY DEF IInv, Recorded, Aborted

(* A thread that moves on in its job.                                      *)
LEMMA JobContinues ==
  ASSUME IInv, NEW w \in Workers, ~Idle(w), NEW j \in Jobs, j.q = job[w].q,
         JobHolds(j), job' = [job EXCEPT ![w] = j],
         UNCHANGED <<trace, optimum, swapped, sweep, queue, outcomes>>
  PROVE  Threads' /\ Assigned'
<1>1. /\ job' \in [Workers -> Jobs \cup {NoJob}] /\ job'[w] = j
      /\ \A v \in Workers \ {w} : job'[v] = job[v]
  BY DEF IInv, Threads
<1>2. \A v \in Workers : job'[v].q = job[v].q /\ (Idle(v)' <=> Idle(v))
  BY <1>1 DEF Idle
<1>3. \A v \in Workers : ~Idle(v)' => JobHolds(job[v])' 
  BY <1>1, <1>2 DEF IInv, Threads, JobHolds
<1>4. Assigned'
  BY <1>2 DEF IInv, Assigned
<1> QED
  BY <1>1, <1>3, <1>4 DEF Threads

(* A thread that is done with its job, whose outcome is settled.           *)
LEMMA JobEnds ==
  ASSUME IInv, NEW w \in Workers, ~Idle(w), job' = [job EXCEPT ![w] = NoJob],
         DOMAIN outcomes' = DOMAIN outcomes \cup {job[w].q},
         UNCHANGED <<trace, optimum, swapped, sweep, queue>>
  PROVE  Threads' /\ Assigned'
<1>1. /\ job' \in [Workers -> Jobs \cup {NoJob}] /\ job'[w] = NoJob /\ Idle(w)'
      /\ \A v \in Workers \ {w} : job'[v] = job[v] /\ (Idle(v)' <=> Idle(v))
  BY DEF IInv, Threads, Idle, NoJob
<1>2. \A v \in Workers : ~Idle(v)' => JobHolds(job[v])'
  BY <1>1 DEF IInv, Threads, JobHolds
<1>3. job[w].q \in sweep.qs \ (queue \cup DOMAIN outcomes)
  BY Busy
<1>4. Assigned'
  <2>1. \A v \in Workers : ~Idle(v)' =>
          job'[v].q \in sweep'.qs \ (queue' \cup DOMAIN outcomes')
    BY <1>1, <1>3 DEF IInv, Assigned
  <2>2. \A u, v \in Workers : ~Idle(u)' /\ job'[u].q = job'[v].q => u = v
    BY <1>1 DEF IInv, Assigned, Idle
  <2>3. \A q \in sweep'.qs :
          q \in queue' \cup DOMAIN outcomes' \/ \E v \in Workers : job'[v].q = q
    <3> SUFFICES ASSUME NEW q \in sweep.qs, q \notin queue \cup DOMAIN outcomes,
                        q # job[w].q
                 PROVE  \E v \in Workers : job'[v].q = q
      OBVIOUS
    <3>1. PICK v \in Workers : job[v].q = q
      BY DEF IInv, Assigned
    <3> QED
      BY <1>1, <3>1
  <2> QED
    BY <1>3, <2>1, <2>2, <2>3 DEF IInv, Assigned
<1> QED
  BY <1>1, <1>2, <1>4 DEF Threads

(* The record of run_fixed_q_sweep.py (lines 148-157): an outcome is added,*)
(* and reported unless one has raised.                                     *)
LEMMA SettleRecords ==
  ASSUME IInv, NEW q, q \notin DOMAIN outcomes, NEW outcome \in Outcomes,
         Settle(q, outcome),
         outcome \in {"exact", "exact_lower_bound", "skipped_existing"} =>
           bounds'[q].is = "bound" \/ results'[q].is = "dual",
         \A p \in DOMAIN outcomes :
           bounds[p].is = "bound" \/ results[p].is = "dual" =>
             bounds'[p].is = "bound" \/ results'[p].is = "dual"
  PROVE  Recorded' /\ DOMAIN outcomes' = DOMAIN outcomes \cup {q}
<1>1. /\ DOMAIN outcomes' = DOMAIN outcomes \cup {q} /\ outcomes'[q] = outcome
      /\ \A p \in DOMAIN outcomes : outcomes'[p] = outcomes[p]
  BY DEF Settle
<1>2. Aborted' <=> Aborted \/ outcome = "raised"
  BY <1>1 DEF Aborted
<1>3. reported' = IF outcome = "raised" \/ Aborted THEN reported ELSE reported \cup {q}
  BY DEF Settle
<1>4. \A p \in DOMAIN outcomes' :
        /\ outcomes'[p] \in Outcomes
        /\ outcomes'[p] \in {"exact", "exact_lower_bound", "skipped_existing"} =>
             bounds'[p].is = "bound" \/ results'[p].is = "dual"
  BY <1>1 DEF IInv, Recorded
<1>5. reported' \subseteq {p \in DOMAIN outcomes' : outcomes'[p] # "raised"}
  BY <1>1, <1>3 DEF IInv, Recorded
<1>6. ~Aborted' => reported' = DOMAIN outcomes'
  BY <1>1, <1>2, <1>3 DEF IInv, Recorded
<1> QED
  BY <1>1, <1>4, <1>5, <1>6 DEF Recorded
-----------------------------------------------------------------------------
(* The sweep: run_fixed_q_sweep.py and its jobs.                           *)

LEMMA StartSweepInvariant ==
  ASSUME IInv, NEW s \in Sweeps, StartSweep(s)
  PROVE  IInv'
<1>1. /\ ~Running /\ sweep' = s /\ queue' = s.qs
      /\ DOMAIN outcomes' = {} /\ reported' = {}
      /\ UNCHANGED <<trace, optimum, disk, job, certificate, swapped>>
  BY DEF StartSweep
<1>2. \A w \in Workers : Idle(w)
  BY <1>1, Quiet
<1>3. Documents' /\ CertificateIsOptimal'
  BY <1>1, DocumentsStay, CertificateStays
<1>4. Threads'
  BY <1>1, <1>2 DEF IInv, Threads, Idle
<1>5. Assigned' /\ Recorded'
  BY <1>1, <1>2 DEF Assigned, Recorded, Idle
<1> QED
  BY <1>3, <1>4, <1>5 DEF IInv

(* The largest q that waits is skipped, raises, or is taken on.            *)
LEMMA TakeInvariant ==
  ASSUME IInv, NEW w \in Workers, Take(w)
  PROVE  IInv'
<1> DEFINE q == CHOOSE x \in queue : \A y \in queue : x >= y
<1>1. /\ Running /\ Idle(w) /\ queue # {} /\ queue' = queue \ {q}
      /\ UNCHANGED <<trace, optimum, disk, sweep, certificate, swapped>>
  BY DEF Take
<1>2. q \in queue
  <2>1. queue \subseteq 0..Last /\ Last \in Nat
    BY SlotsAreNumbers, SweepAssumption DEF IInv, Assigned, SweepAssumption
  <2> QED
    BY <1>1, <2>1, Greatest
<1> HIDE DEF q
<1>3. q \in sweep.qs /\ q \in 1..Last /\ q \notin DOMAIN outcomes
      /\ \A v \in Workers : ~Idle(v) => job[v].q # q
  BY <1>2, SlotsAreNumbers DEF IInv, Assigned
<1>4. Documents' /\ CertificateIsOptimal'
  BY <1>1, DocumentsStay, CertificateStays
<1>5. CASE OnDisk(q) = "none"
  <2> DEFINE j == Job(q, trace, "read", 0)
  <2>1. job' = [job EXCEPT ![w] = j] /\ UNCHANGED <<outcomes, reported>>
    BY <1>5 DEF Take, q
  <2>2. j \in Jobs /\ j.q = q /\ j.stage = "read" /\ j.of = trace
    BY <1>3 DEF Job, Jobs, IInv, Documents
  <2> HIDE DEF j
  <2>3. /\ job' \in [Workers -> Jobs \cup {NoJob}] /\ job'[w] = j /\ ~Idle(w)'
        /\ \A v \in Workers \ {w} : job'[v] = job[v] /\ (Idle(v)' <=> Idle(v))
    BY <1>3, <2>1, <2>2 DEF IInv, Threads, Idle
  <2>4. JobHolds(job[w])'
    BY <1>1, <2>2, <2>3 DEF JobHolds
  <2>5. \A v \in Workers : ~Idle(v)' => JobHolds(job[v])'
    BY <1>1, <2>3, <2>4 DEF IInv, Threads, JobHolds
  <2>6. Assigned'
    <3>1. \A v \in Workers : ~Idle(v)' =>
            job'[v].q \in sweep'.qs \ (queue' \cup DOMAIN outcomes')
      BY <1>1, <1>3, <2>1, <2>2, <2>3 DEF IInv, Assigned
    <3>2. \A u, v \in Workers : ~Idle(u)' /\ job'[u].q = job'[v].q => u = v
      <4> SUFFICES ASSUME NEW u \in Workers, NEW v \in Workers,
                          ~Idle(u)', job'[u].q = job'[v].q, u # v
                   PROVE  FALSE
        OBVIOUS
      <4>1. CASE u = w
        <5>1. job[v].q = q /\ q # 0
          BY <1>3, <2>2, <2>3, <4>1
        <5> QED
          BY <1>3, <5>1 DEF Idle
      <4>2. CASE v = w
        BY <1>3, <2>2, <2>3, <4>2
      <4>3. CASE u # w /\ v # w
        BY <2>3, <4>3 DEF IInv, Assigned
      <4> QED
        BY <4>1, <4>2, <4>3
    <3>3. \A p \in sweep'.qs :
            p \in queue' \cup DOMAIN outcomes' \/ \E v \in Workers : job'[v].q = p
      <4> SUFFICES ASSUME NEW p \in sweep.qs, p \notin queue' \cup DOMAIN outcomes
                   PROVE  \E v \in Workers : job'[v].q = p
        BY <1>1, <2>1
      <4>1. CASE p = q
        BY <2>2, <2>3, <4>1
      <4>2. CASE p # q
        <5>1. PICK v \in Workers : job[v].q = p
          BY <1>1, <4>2 DEF IInv, Assigned
        <5>2. p # 0
          BY SlotsAreNumbers
        <5> QED
          BY <1>1, <2>3, <5>1, <5>2 DEF Idle
      <4> QED
        BY <4>1, <4>2
    <3> QED
      BY <1>1, <2>1, <3>1, <3>2, <3>3 DEF IInv, Assigned
  <2>7. Recorded'
    BY <1>1, <2>1, RecordStays DEF disk
  <2> QED
    BY <1>4, <2>3, <2>5, <2>6, <2>7 DEF IInv, Threads
<1>6. CASE OnDisk(q) # "none"
  <2>1. Settle(q, OnDisk(q)) /\ job' = job
    BY <1>6 DEF Take, q
  <2>2. /\ OnDisk(q) \in Outcomes
        /\ OnDisk(q) \in {"exact", "exact_lower_bound", "skipped_existing"} =>
             bounds[q].is = "bound" \/ results[q].is = "dual"
    BY <1>6 DEF OnDisk, Outcomes, Absent
  <2>3. Recorded' /\ DOMAIN outcomes' = DOMAIN outcomes \cup {q}
    BY <1>1, <1>3, <2>1, <2>2, SettleRecords DEF disk
  <2>4. Threads'
    BY <1>1, <2>1 DEF IInv, Threads, Idle, JobHolds
  <2>5. Assigned'
    BY <1>1, <1>2, <1>3, <2>1, <2>3 DEF IInv, Assigned, Idle
  <2> QED
    BY <1>4, <2>3, <2>4, <2>5 DEF IInv
<1> QED
  BY <1>5, <1>6

(* A dual value is a lower bound of its own trace's optimum.               *)
LEMMA FindBoundInvariant ==
  ASSUME IInv, NEW w \in Workers, FindBound(w)
  PROVE  IInv'
<1> DEFINE q == job[w].q
           of == job[w].of
<1>1. PICK v \in Values(of, q) :
        /\ proofs' = [proofs EXCEPT ![q] = Proof(of, v)]
        /\ job' = [job EXCEPT ![w] = Job(q, of, "proved", v)]
  BY DEF FindBound
<1>2. /\ ~Idle(w)
      /\ UNCHANGED <<trace, optimum, bounds, results, witnesses, sweep, queue,
                     outcomes, reported, certificate, swapped>>
  BY DEF FindBound, At
<1>3. /\ job[w] \in Jobs /\ JobHolds(job[w]) /\ q \in 1..Last /\ of \in Traces
  BY <1>2, Busy
<1>4. optimum[of] \in [0..Last -> Nat] /\ q \in 0..Last
  BY <1>3, SweepAssumption DEF IInv, Documents, SweepAssumption
<1>5. v \in Nat /\ v <= optimum[of][q]
  <2>1. v \in {optimum[of][q] - 1, optimum[of][q]} /\ v >= 0
    BY <1>1 DEF Values
  <2>2. optimum[of][q] \in Nat
    BY <1>4
  <2> QED
    BY <2>1, <2>2
<1> DEFINE j == Job(q, of, "proved", v)
<1>6. j \in Jobs /\ j.q = job[w].q /\ j.of = of /\ j.stage = "proved" /\ j.value = v
  BY <1>3, <1>5 DEF Job, Jobs
<1>7. JobHolds(j)
  BY <1>3, <1>5, <1>6 DEF JobHolds
<1>8. Threads' /\ Assigned'
  <2> HIDE DEF j
  <2> QED
    BY <1>1, <1>2, <1>6, <1>7, JobContinues DEF j
<1>9. Documents'
  <2> HIDE DEF q, of
  <2>1. ProofHolds(q, Proof(of, v))
    BY <1>3, <1>5 DEF ProofHolds, Proof
  <2>2. /\ proofs' = [p \in 1..Last |-> proofs'[p]] /\ proofs'[q] = Proof(of, v)
        /\ \A p \in (1..Last) \ {q} : proofs'[p] = proofs[p]
    BY <1>1, <1>3 DEF IInv, Documents
  <2>3. \A p \in 1..Last : ProofHolds(p, proofs[p])'
    BY <1>2, <1>3, <2>1, <2>2 DEF IInv, Documents, ProofHolds
  <2>4. \A p \in 1..Last :
          /\ witnesses'[p].is \in {"absent", "proof"}
          /\ BoundHolds(p, bounds[p])' /\ ResultHolds(p, results[p])'
    BY <1>2 DEF IInv, Documents, BoundHolds, ResultHolds
  <2> QED
    BY <1>2, <2>2, <2>3, <2>4 DEF IInv, Documents
<1>10. Recorded' /\ CertificateIsOptimal'
  BY <1>2, RecordStays, CertificateStays
<1> QED
  BY <1>8, <1>9, <1>10 DEF IInv

(* lower-bound.json hashes the trace of now, which is that of the job      *)
(* unless it was replaced under the job.                                   *)
LEMMA WriteBoundInvariant ==
  ASSUME IInv, NEW w \in Workers, WriteBound(w)
  PROVE  IInv'
<1> DEFINE q == job[w].q
           of == job[w].of
           b == Bound(trace, of, q, job[w].value)
<1>1. /\ ~Idle(w) /\ job[w].stage = "proved" /\ bounds' = [bounds EXCEPT ![q] = b]
      /\ job' = [job EXCEPT ![w] = NoJob]
      /\ UNCHANGED <<trace, optimum, results, proofs, witnesses, sweep, queue, certificate,
                     swapped>>
  BY DEF WriteBound, At, Done
<1>2. Settle(q, IF results'[q] # Absent THEN "exact" ELSE "exact_lower_bound")
  BY DEF WriteBound, Done
<1>3. /\ job[w] \in Jobs /\ JobHolds(job[w]) /\ q \in 1..Last /\ of \in Traces
      /\ q \notin DOMAIN outcomes
  BY <1>1, Busy
<1>4. BoundHolds(q, b) /\ b.is = "bound"
  BY <1>1, <1>3 DEF BoundHolds, Bound, JobHolds, Jobs, IInv, Documents
<1> HIDE DEF q, of, b
<1>5. /\ bounds' = [p \in 1..Last |-> bounds'[p]] /\ bounds'[q] = b
      /\ \A p \in (1..Last) \ {q} : bounds'[p] = bounds[p]
  BY <1>1, <1>3 DEF IInv, Documents
<1>6. Documents'
  <2>1. \A p \in 1..Last : BoundHolds(p, bounds[p])'
    BY <1>1, <1>4, <1>5 DEF IInv, Documents, BoundHolds, Bound, PatchBytes
  <2>2. \A p \in 1..Last :
          /\ ProofHolds(p, proofs[p])' /\ witnesses'[p].is \in {"absent", "proof"}
          /\ ResultHolds(p, results[p])'
    BY <1>1 DEF IInv, Documents, ProofHolds, ResultHolds
  <2> QED
    BY <1>1, <1>5, <2>1, <2>2 DEF IInv, Documents
<1>7. Recorded' /\ DOMAIN outcomes' = DOMAIN outcomes \cup {q}
  <2>1. \A p \in DOMAIN outcomes : bounds'[p] = bounds[p]
    BY <1>3, <1>5, SlotsAreNumbers DEF IInv, Assigned
  <2> QED
    BY <1>1, <1>2, <1>3, <1>4, <1>5, <2>1, SettleRecords DEF Outcomes
<1>8. Threads' /\ Assigned'
  BY <1>1, <1>7, JobEnds DEF q
<1>9. CertificateIsOptimal'
  BY <1>1, CertificateStays
<1> QED
  BY <1>6, <1>7, <1>8, <1>9 DEF IInv

(* A witness that attains the bound shows that it was the optimum.         *)
LEMMA AttainBoundInvariant ==
  ASSUME IInv, NEW w \in Workers, AttainBound(w)
  PROVE  IInv'
<1> DEFINE j == [job[w] EXCEPT !.stage = "attained"]
<1>1. /\ ~Idle(w) /\ job[w].value = optimum[job[w].of][job[w].q]
      /\ witnesses' = [witnesses EXCEPT ![job[w].q] = Proof(job[w].of, job[w].value)]
      /\ job' = [job EXCEPT ![w] = j]
      /\ UNCHANGED <<trace, optimum, bounds, results, proofs, sweep, queue,
                     outcomes, reported, certificate, swapped>>
  BY DEF AttainBound, At
<1>2. job[w] \in Jobs /\ JobHolds(job[w]) /\ job[w].q \in 1..Last
  BY <1>1, Busy
<1>3. /\ j \in Jobs /\ j.q = job[w].q /\ j.of = job[w].of /\ j.value = job[w].value
      /\ j.stage = "attained"
  BY <1>2 DEF Jobs
<1> HIDE DEF j
<1>4. JobHolds(j)
  <2>1. optimum[job[w].of][job[w].q] \in Nat
    BY <1>2, SweepAssumption DEF Jobs, IInv, Documents, SweepAssumption
  <2> QED
    BY <1>1, <1>2, <1>3, <2>1 DEF JobHolds
<1>5. Threads' /\ Assigned'
  BY <1>1, <1>3, <1>4, JobContinues
<1>6. Documents'
  <2>1. /\ witnesses' = [p \in 1..Last |-> witnesses'[p]]
        /\ \A p \in 1..Last : witnesses'[p].is \in {"absent", "proof"}
    BY <1>1, <1>2 DEF IInv, Documents, Proof
  <2>2. \A p \in 1..Last : /\ ProofHolds(p, proofs[p])' /\ BoundHolds(p, bounds[p])'
                           /\ ResultHolds(p, results[p])'
    BY <1>1 DEF IInv, Documents, ProofHolds, BoundHolds, ResultHolds
  <2> QED
    BY <1>1, <2>1, <2>2 DEF IInv, Documents
<1>7. Recorded' /\ CertificateIsOptimal'
  BY <1>1, RecordStays, CertificateStays
<1> QED
  BY <1>5, <1>6, <1>7 DEF IInv

(* A thread writes the document of its job.                                *)
LEMMA WriteResultInvariant ==
  ASSUME IInv, NEW w \in Workers, WriteResult(w)
  PROVE  IInv'
<1> DEFINE q == job[w].q
           r == Result("dual", trace, job[w].of, job[w].value)
<1>1. /\ ~Idle(w) /\ job[w].stage = "attained" /\ results' = [results EXCEPT ![q] = r]
      /\ job' = [job EXCEPT ![w] = NoJob]
      /\ UNCHANGED <<trace, optimum, bounds, proofs, witnesses, sweep, queue, certificate,
                     swapped>>
  BY DEF WriteResult, At, Done
<1>2. Settle(q, IF results'[q] # Absent THEN "exact" ELSE "exact_lower_bound")
  BY DEF WriteResult, Done
<1>3. /\ job[w] \in Jobs /\ JobHolds(job[w]) /\ q \in 1..Last
      /\ q \notin DOMAIN outcomes
  BY <1>1, Busy
<1>4. ResultHolds(q, r) /\ r.is = "dual"
  BY <1>1, <1>3 DEF ResultHolds, Result, JobHolds, Jobs
<1> HIDE DEF q, r
<1>5. /\ results' = [p \in 1..Last |-> results'[p]] /\ results'[q] = r
      /\ \A p \in (1..Last) \ {q} : results'[p] = results[p]
  BY <1>1, <1>3 DEF IInv, Documents
<1>6. Documents'
  <2>1. \A p \in 1..Last : ResultHolds(p, results[p])'
    BY <1>1, <1>4, <1>5 DEF IInv, Documents, ResultHolds
  <2>2. \A p \in 1..Last :
          /\ ProofHolds(p, proofs[p])' /\ witnesses'[p].is \in {"absent", "proof"}
          /\ BoundHolds(p, bounds[p])'
    BY <1>1 DEF IInv, Documents, ProofHolds, BoundHolds
  <2> QED
    BY <1>1, <1>5, <2>1, <2>2 DEF IInv, Documents
<1>7. Recorded' /\ DOMAIN outcomes' = DOMAIN outcomes \cup {q}
  <2>1. \A p \in DOMAIN outcomes : results'[p] = results[p]
    BY <1>3, <1>5, SlotsAreNumbers DEF IInv, Assigned
  <2> QED
    BY <1>1, <1>2, <1>3, <1>4, <1>5, <2>1, SettleRecords DEF Outcomes
<1>8. Threads' /\ Assigned'
  BY <1>1, <1>7, JobEnds DEF q
<1>9. CertificateIsOptimal'
  BY <1>1, CertificateStays
<1> QED
  BY <1>6, <1>7, <1>8, <1>9 DEF IInv

(* A job raises.                                                           *)
LEMMA FailJobInvariant ==
  ASSUME IInv, NEW w \in Workers, FailJob(w)
  PROVE  IInv'
<1>1. /\ ~Idle(w) /\ job' = [job EXCEPT ![w] = NoJob] /\ Settle(job[w].q, "failed")
      /\ UNCHANGED <<trace, optimum, disk, sweep, queue, certificate, swapped>>
  BY DEF FailJob
<1>2. job[w].q \notin DOMAIN outcomes
  BY <1>1, Busy
<1>3. Recorded' /\ DOMAIN outcomes' = DOMAIN outcomes \cup {job[w].q}
  BY <1>1, <1>2, SettleRecords DEF Outcomes, disk
<1>4. Threads' /\ Assigned'
  BY <1>1, <1>3, JobEnds
<1>5. Documents' /\ CertificateIsOptimal'
  BY <1>1, DocumentsStay, CertificateStays
<1> QED
  BY <1>3, <1>4, <1>5 DEF IInv

(* The sweep ends when no job waits and no thread works.                   *)
LEMMA EndSweepInvariant ==
  ASSUME IInv, EndSweep
  PROVE  IInv'
<1>1. /\ queue = {} /\ sweep' = NoSweep /\ DOMAIN outcomes' = {} /\ reported' = {}
      /\ \A w \in Workers : Idle(w)
      /\ UNCHANGED <<trace, optimum, disk, queue, job, certificate, swapped>>
  BY DEF EndSweep
<1>2. Documents' /\ CertificateIsOptimal'
  BY <1>1, DocumentsStay, CertificateStays
<1>3. Threads'
  BY <1>1 DEF IInv, Threads, Idle
<1>4. Assigned' /\ Recorded'
  BY <1>1 DEF Assigned, Recorded, Idle, NoSweep
<1> QED
  BY <1>2, <1>3, <1>4 DEF IInv

(* The sweep is killed.                                                    *)
LEMMA KillSweepInvariant ==
  ASSUME IInv, NEW w \in Workers, KillSweep(w)
  PROVE  IInv'
<1> DEFINE q == job[w].q
<1>1. /\ ~Idle(w) /\ sweep' = NoSweep /\ queue' = {} /\ job' = [x \in Workers |-> NoJob]
      /\ DOMAIN outcomes' = {} /\ reported' = {}
      /\ UNCHANGED <<trace, optimum, proofs, witnesses, certificate, swapped>>
  BY DEF KillSweep
<1>2. /\ bounds' = bounds \/ bounds' = [bounds EXCEPT ![q] = Torn]
      /\ results' = results \/ results' = [results EXCEPT ![q] = Torn]
  BY DEF KillSweep
<1>3. Documents'
  <2> HIDE DEF q
  <2>1. /\ bounds' = [p \in 1..Last |-> bounds'[p]]
        /\ \A p \in 1..Last : bounds'[p] = bounds[p] \/ bounds'[p] = Torn
    BY <1>2 DEF IInv, Documents
  <2>2. /\ results' = [p \in 1..Last |-> results'[p]]
        /\ \A p \in 1..Last : results'[p] = results[p] \/ results'[p] = Torn
    BY <1>2 DEF IInv, Documents
  <2>3. \A p \in 1..Last : BoundHolds(p, bounds[p])' /\ ResultHolds(p, results[p])'
    BY <1>1, <2>1, <2>2 DEF IInv, Documents, BoundHolds, ResultHolds
  <2>4. \A p \in 1..Last :
          ProofHolds(p, proofs[p])' /\ witnesses'[p].is \in {"absent", "proof"}
    BY <1>1 DEF IInv, Documents, ProofHolds
  <2> QED
    BY <1>1, <2>1, <2>2, <2>3, <2>4 DEF IInv, Documents
<1>4. \A v \in Workers : Idle(v)'
  BY <1>1 DEF Idle, NoJob
<1>5. Threads' /\ Assigned' /\ Recorded'
  BY <1>1, <1>4 DEF Threads, Assigned, Recorded, Idle, NoSweep
<1>6. CertificateIsOptimal'
  BY <1>1, CertificateStays
<1> QED
  BY <1>3, <1>5, <1>6 DEF IInv
-----------------------------------------------------------------------------
(* The programs that are run by hand.                                      *)

(* A trace that is replaced under no job leaves every document with the    *)
(* trace of its proof.                                                     *)
LEMMA PrepareTraceInvariant ==
  ASSUME IInv, NEW t \in Traces, PrepareTrace(t)
  PROVE  IInv'
<1>1. /\ trace' = t /\ swapped' = (swapped \/ \E w \in Workers : ~Idle(w))
      /\ UNCHANGED <<optimum, disk, running, certificate>>
  BY DEF PrepareTrace
<1> USE DEF disk, running
<1>2. Documents'
  <2>1. \A q \in 1..Last : /\ ProofHolds(q, proofs[q])' /\ BoundHolds(q, bounds[q])'
                           /\ ResultHolds(q, results[q])'
    BY <1>1 DEF IInv, Documents, ProofHolds, BoundHolds, ResultHolds
  <2> QED
    BY <1>1, <2>1 DEF IInv, Documents
<1>3. Threads'
  BY <1>1 DEF IInv, Threads, JobHolds, Idle
<1>4. Assigned' /\ Recorded'
  BY <1>1 DEF IInv, Assigned, Recorded, Aborted, Idle
<1>5. CertificateIsOptimal'
  BY <1>1, CertificateStays DEF IInv, Documents
<1> QED
  BY <1>2, <1>3, <1>4, <1>5 DEF IInv

(* A program that is run between two sweeps, and changes one document.     *)
LEMMA BetweenSweeps ==
  ASSUME IInv, ~Running, UNCHANGED <<trace, optimum, running, swapped>>
  PROVE  Threads' /\ Assigned' /\ Recorded'
<1>1. DOMAIN outcomes = {} /\ reported = {} /\ \A w \in Workers : Idle(w)
  BY Quiet
<1> USE DEF running
<1>2. Threads'
  BY <1>1 DEF IInv, Threads, Idle
<1>3. Assigned' /\ Recorded'
  BY <1>1 DEF IInv, Assigned, Recorded, Aborted, Idle
<1> QED
  BY <1>2, <1>3

(* The sizes that no bound rules out are solved one by one.                *)
LEMMA SolveLastInvariant ==
  ASSUME IInv, NEW kind \in {"scip", "stopped"}, SolveLast(kind)
  PROVE  IInv'
<1> DEFINE r == Result(kind, trace, trace, optimum[trace][Last])
<1>1. /\ ~Running /\ results' = [results EXCEPT ![Last] = r]
      /\ UNCHANGED <<trace, optimum, bounds, proofs, witnesses, running, certificate,
                     swapped>>
  BY DEF SolveLast
<1>2. Last \in 1..Last
  BY SweepAssumption DEF SweepAssumption
<1>3. ResultHolds(Last, r)
  BY DEF ResultHolds, Result, IInv, Documents
<1> HIDE DEF r
<1>4. Documents'
  <2>1. /\ results' = [p \in 1..Last |-> results'[p]] /\ results'[Last] = r
        /\ \A p \in (1..Last) \ {Last} : results'[p] = results[p]
    BY <1>1, <1>2 DEF IInv, Documents
  <2>2. \A p \in 1..Last : ResultHolds(p, results[p])'
    BY <1>1, <1>3, <2>1 DEF IInv, Documents, ResultHolds
  <2>3. \A p \in 1..Last :
          /\ ProofHolds(p, proofs[p])' /\ witnesses'[p].is \in {"absent", "proof"}
          /\ BoundHolds(p, bounds[p])'
    BY <1>1 DEF IInv, Documents, ProofHolds, BoundHolds
  <2> QED
    BY <1>1, <2>1, <2>2, <2>3 DEF IInv, Documents
<1>5. Threads' /\ Assigned' /\ Recorded' /\ CertificateIsOptimal'
  BY <1>1, BetweenSweeps, CertificateStays
<1> QED
  BY <1>4, <1>5 DEF IInv

(* A bound from a stored proof is one of the trace of that proof, which    *)
(* materialize_replayed_bound.py replays on the trace of now.              *)
LEMMA MaterializeInvariant ==
  ASSUME IInv, NEW q \in 1..Last, Materialize(q)
  PROVE  IInv'
<1> DEFINE b == Bound(trace, trace, q, proofs[q].value)
<1>1. /\ ~Running /\ proofs[q] # Absent /\ proofs[q].of = trace
      /\ bounds' = [bounds EXCEPT ![q] = b]
      /\ UNCHANGED <<trace, optimum, proofs, results, witnesses, running, certificate,
                     swapped>>
  BY DEF Materialize
<1>2. BoundHolds(q, b)
  <2>1. proofs[q].value \in Nat /\ proofs[q].value <= optimum[trace][q]
    BY <1>1 DEF IInv, Documents, ProofHolds
  <2> QED
    BY <2>1 DEF BoundHolds, Bound, IInv, Documents
<1> HIDE DEF b
<1>3. Documents'
  <2>1. /\ bounds' = [p \in 1..Last |-> bounds'[p]] /\ bounds'[q] = b
        /\ \A p \in (1..Last) \ {q} : bounds'[p] = bounds[p]
    BY <1>1 DEF IInv, Documents
  <2>2. \A p \in 1..Last : BoundHolds(p, bounds[p])'
    BY <1>1, <1>2, <2>1 DEF IInv, Documents, BoundHolds, Bound, PatchBytes
  <2>3. \A p \in 1..Last :
          /\ ProofHolds(p, proofs[p])' /\ witnesses'[p].is \in {"absent", "proof"}
          /\ ResultHolds(p, results[p])'
    BY <1>1 DEF IInv, Documents, ProofHolds, ResultHolds
  <2> QED
    BY <1>1, <2>1, <2>2, <2>3 DEF IInv, Documents
<1>4. Threads' /\ Assigned' /\ Recorded' /\ CertificateIsOptimal'
  BY <1>1, BetweenSweeps, CertificateStays
<1> QED
  BY <1>3, <1>4 DEF IInv

(* The certificate is put together from the bounds.                        *)
LEMMA VerifyBoundsInvariant ==
  ASSUME IInv, VerifyBounds
  PROVE  IInv'
<1>1. ~Running /\ UNCHANGED <<trace, optimum, disk, running, certificate, swapped>>
  BY DEF VerifyBounds
<1> QED
  BY <1>1, BetweenSweeps, DocumentsStay, CertificateStays DEF IInv

(* The bound of an accepted document is one for the present trace, unless  *)
(* the trace was replaced under a job.                                     *)
LEMMA AcceptedBound ==
  ASSUME IInv, ~swapped, NEW q \in Direct, BoundAccepted(q)
  PROVE  /\ bounds[q].value \in Nat /\ optimum[trace][q] \in Nat
         /\ bounds[q].value <= optimum[trace][q]
         /\ bounds[q].patch = PatchBytes(q, bounds[q].value)
<1>1. q \in 1..Last /\ q \in 0..Last
  BY SweepAssumption DEF SweepAssumption, Direct
<1>2. optimum[trace] \in [0..Last -> Nat]
  BY SweepAssumption DEF SweepAssumption, IInv, Documents
<1>3. bounds[q].is = "bound" /\ bounds[q].label = trace
  BY DEF BoundAccepted
<1>4. /\ bounds[q] = Bound(bounds[q].label, bounds[q].of, q, bounds[q].value)
      /\ bounds[q].value \in Nat /\ bounds[q].value <= optimum[bounds[q].of][q]
      /\ bounds[q].label = bounds[q].of
  BY <1>1, <1>3 DEF IInv, Documents, BoundHolds, Absent, Torn
<1>5. bounds[q].patch = PatchBytes(q, bounds[q].value)
  BY <1>4 DEF Bound
<1> QED
  BY <1>1, <1>2, <1>3, <1>4, <1>5

(* Every row is at most the length of the best patch of so many slots: by  *)
(* its own bound, or by that of the anchor, below its own optimum          *)
(* (finalize_integer_dual_pair.py:269-290).                                *)
LEMMA RowIsBound ==
  ASSUME IInv, ~swapped, \A q \in Direct : BoundAccepted(q), NEW q \in 0..(Last - 1)
  PROVE  /\ Row(q) \in Nat /\ PatchBytes(q, optimum[trace][q]) \in Nat
         /\ Row(q) <= PatchBytes(q, optimum[trace][q])
<1>1. /\ Last \in Nat /\ Anchor \in 1..(Last - 1) /\ optimum[trace] \in Optima
      /\ optimum[trace] \in [0..Last -> Nat]
  BY SweepAssumption DEF SweepAssumption, IInv, Documents
<1>2. q \in 0..Last /\ optimum[trace][q] \in Nat
  BY <1>1
<1>3. CASE q = 0
  <2>1. q \notin 1..(Anchor - 1) /\ q \notin Direct
    BY <1>1, <1>3 DEF Direct
  <2>2. Row(q) = PatchBytes(q, optimum[trace][q])
    BY <1>3, <2>1 DEF Row
  <2>3. PatchBytes(q, optimum[trace][q]) \in Nat
    BY <1>2, PatchBytesMonotone
  <2> QED
    BY <2>2, <2>3
<1>4. CASE q \in 1..(Anchor - 1)
  <2>1. Anchor \in Direct /\ q \in 1..Anchor
    BY <1>1, <1>4 DEF Direct
  <2>2. bounds[Anchor].value \in Nat /\ bounds[Anchor].value <= optimum[trace][Anchor]
    BY <2>1, AcceptedBound
  <2>3. /\ optimum[trace][Anchor] \in Nat
        /\ optimum[trace][Anchor] <= optimum[trace][q]
    BY <1>1, <2>1, OptimaDescend
  <2>4. bounds[Anchor].value <= optimum[trace][q]
    BY <1>2, <2>2, <2>3
  <2>5. q # 0 /\ q \notin Direct
    BY <1>1, <1>4 DEF Direct
  <2>6. Row(q) = PatchBytes(q, bounds[Anchor].value)
    BY <1>4, <2>5 DEF Row, Transferred
  <2>7. /\ PatchBytes(q, bounds[Anchor].value) \in Nat
        /\ PatchBytes(q, optimum[trace][q]) \in Nat
        /\ PatchBytes(q, bounds[Anchor].value) <= PatchBytes(q, optimum[trace][q])
    BY <1>2, <2>2, <2>4, PatchBytesMonotone
  <2> QED
    BY <2>6, <2>7
<1>5. CASE q \in Direct
  <2>1. /\ bounds[q].value \in Nat /\ bounds[q].value <= optimum[trace][q]
        /\ bounds[q].patch = PatchBytes(q, bounds[q].value)
    BY <1>5, AcceptedBound
  <2>2. q # 0 /\ q \notin 1..(Anchor - 1)
    BY <1>1, <1>5 DEF Direct
  <2>3. Row(q) = bounds[q].patch
    BY <1>5, <2>2 DEF Row
  <2>4. /\ PatchBytes(q, bounds[q].value) \in Nat /\ PatchBytes(q, optimum[trace][q]) \in Nat
        /\ PatchBytes(q, bounds[q].value) <= PatchBytes(q, optimum[trace][q])
    BY <1>2, <2>1, PatchBytesMonotone
  <2> QED
    BY <2>1, <2>3, <2>4
<1>6. q = 0 \/ q \in 1..(Anchor - 1) \/ q \in Direct
  BY <1>1 DEF Direct
<1> QED
  BY <1>3, <1>4, <1>5, <1>6

(* The incumbent attains the optimum of the largest q.                     *)
LEMMA IncumbentIsOptimum ==
  ASSUME IInv, ResultAccepted
  PROVE  /\ optimum[trace][Last] \in Nat
         /\ results[Last].value = optimum[trace][Last]
<1>1. Last \in 1..Last /\ Last \in 0..Last
  BY SweepAssumption DEF SweepAssumption
<1>2. optimum[trace] \in [0..Last -> Nat]
  BY SweepAssumption DEF SweepAssumption, IInv, Documents
<1>3. results[Last].is \in {"dual", "scip"} /\ results[Last].of = trace
  BY DEF ResultAccepted
<1>4. ResultHolds(Last, results[Last])
  BY <1>1 DEF IInv, Documents
<1> QED
  BY <1>1, <1>2, <1>3, <1>4 DEF ResultHolds, Absent, Torn

(* So no patch of any number of slots is shorter                           *)
(* (finalize_integer_dual_pair.py:235-300).                                *)
LEMMA FinalizeInvariant ==
  ASSUME IInv, Finalize
  PROVE  IInv'
<1> DEFINE incumbent == PatchBytes(Last, results[Last].value)
<1>1. /\ ~Running /\ (\A q \in Direct : BoundAccepted(q)) /\ ResultAccepted
      /\ \A q \in 0..(Last - 1) : Row(q) >= incumbent
      /\ certificate' = [is |-> "certificate", trace |-> trace, bytes |-> incumbent]
      /\ UNCHANGED <<trace, optimum, disk, running, swapped>>
  BY DEF Finalize
<1>2. Documents' /\ Threads' /\ Assigned' /\ Recorded'
  BY <1>1, BetweenSweeps, DocumentsStay
<1>3. incumbent = PatchBytes(Last, optimum[trace][Last]) /\ incumbent \in Nat
  <2>1. Last \in 0..Last
    BY SweepAssumption DEF SweepAssumption
  <2> QED
    BY <1>1, <2>1, IncumbentIsOptimum, PatchBytesMonotone
<1> HIDE DEF incumbent
<1>4. ASSUME ~swapped, NEW q \in 0..Last
      PROVE  incumbent <= PatchBytes(q, optimum[trace][q])
  <2>1. CASE q = Last
    BY <1>3, <2>1
  <2>2. CASE q # Last
    <3>1. q \in 0..(Last - 1)
      BY <2>2, SweepAssumption DEF SweepAssumption
    <3>2. Row(q) >= incumbent
      BY <1>1, <3>1
    <3>3. /\ Row(q) \in Nat /\ PatchBytes(q, optimum[trace][q]) \in Nat
          /\ Row(q) <= PatchBytes(q, optimum[trace][q])
      BY <1>1, <1>4, <3>1, RowIsBound
    <3> QED
      BY <1>3, <3>2, <3>3
  <2> QED
    BY <2>1, <2>2
<1>5. CertificateIsOptimal'
  <2>1. \A q \in 0..Last : ~swapped => incumbent <= PatchBytes(q, optimum[trace][q])
    BY <1>4
  <2> QED
    BY <1>1, <2>1 DEF CertificateIsOptimal, PatchBytes
<1> QED
  BY <1>2, <1>5 DEF IInv
-----------------------------------------------------------------------------
(* The inductive invariant: what is on disk was proved of the trace that it*)
(* names, and every q of a sweep is accounted for                          *)
(* (run_fixed_q_sweep.py:100-157).                                         *)
THEOREM Invariant == Spec => []IInv
<1>1. Init => IInv
  <2> SUFFICES ASSUME Init PROVE IInv
    OBVIOUS
  <2>1. /\ job = [w \in Workers |-> NoJob] /\ \A w \in Workers : Idle(w)
    BY DEF Init, Idle, NoJob
  <2>2. Documents
    BY DEF Init, Documents, ProofHolds, BoundHolds, ResultHolds, Absent
  <2>3. Threads /\ Assigned /\ Recorded
    BY <2>1 DEF Init, Threads, Assigned, Recorded, Idle, NoSweep
  <2>4. CertificateIsOptimal
    BY DEF Init, CertificateIsOptimal
  <2> QED
    BY <2>2, <2>3, <2>4 DEF IInv
<1>2. IInv /\ [Next]_vars => IInv'
  <2> SUFFICES ASSUME IInv, [Next]_vars
               PROVE  IInv'
    OBVIOUS
  <2>1. ASSUME NEW s \in Sweeps, StartSweep(s) PROVE IInv'
    BY <2>1, StartSweepInvariant
  <2>2. ASSUME NEW w \in Workers,
               \/ Take(w) \/ FindBound(w) \/ WriteBound(w) \/ AttainBound(w)
               \/ WriteResult(w) \/ FailJob(w) \/ KillSweep(w)
        PROVE  IInv'
    BY <2>2, TakeInvariant, FindBoundInvariant, WriteBoundInvariant, AttainBoundInvariant,
       WriteResultInvariant, FailJobInvariant, KillSweepInvariant
  <2>3. CASE EndSweep
    BY <2>3, EndSweepInvariant
  <2>4. ASSUME NEW t \in Traces, PrepareTrace(t) PROVE IInv'
    BY <2>4, PrepareTraceInvariant
  <2>5. ASSUME NEW kind \in {"scip", "stopped"}, SolveLast(kind) PROVE IInv'
    BY <2>5, SolveLastInvariant
  <2>6. ASSUME NEW q \in 1..Last, Materialize(q) PROVE IInv'
    BY <2>6, MaterializeInvariant
  <2>7. CASE VerifyBounds
    BY <2>7, VerifyBoundsInvariant
  <2>8. CASE Finalize
    BY <2>8, FinalizeInvariant
  <2>9. CASE UNCHANGED vars
    <3>1. UNCHANGED <<trace, optimum, disk, running, certificate, swapped>>
      BY <2>9 DEF vars
    <3>2. Documents' /\ CertificateIsOptimal'
      BY <3>1, DocumentsStay, CertificateStays
    <3>3. Threads'
      BY <3>1 DEF IInv, Threads, JobHolds, Idle, running
    <3>4. Assigned' /\ Recorded'
      BY <3>1 DEF IInv, Assigned, Recorded, Aborted, Idle, running, disk
    <3> QED
      BY <3>2, <3>3, <3>4 DEF IInv
  <2> QED
    BY <2>1, <2>2, <2>3, <2>4, <2>5, <2>6, <2>7, <2>8, <2>9 DEF Next
<1> QED
  BY <1>1, <1>2, PTL DEF Spec

(* The documents and the record of the sweep keep their types.             *)
THEOREM TypeCorrect == Spec => []TypeOK
<1>1. IInv => TypeOK
  <2> SUFFICES ASSUME IInv PROVE TypeOK
    OBVIOUS
  <2>1. ASSUME NEW q \in 1..Last
        PROVE  /\ bounds[q].is \in {"absent", "torn", "bound"}
               /\ results[q].is \in {"absent", "torn", "dual", "scip", "stopped"}
               /\ proofs[q].is \in {"absent", "proof"}
               /\ witnesses[q].is \in {"absent", "proof"}
    <3>1. bounds[q].is \in {"absent", "torn", "bound"}
      BY DEF IInv, Documents, BoundHolds, Bound, Absent, Torn
    <3>2. results[q].is \in {"absent", "torn", "dual", "scip", "stopped"}
      BY DEF IInv, Documents, ResultHolds, Absent, Torn
    <3>3. proofs[q].is \in {"absent", "proof"}
      BY DEF IInv, Documents, ProofHolds, Proof, Absent
    <3> QED
      BY <3>1, <3>2, <3>3 DEF IInv, Documents
  <2>2. /\ queue \subseteq sweep.qs
        /\ \A q \in DOMAIN outcomes : q \in sweep.qs \ queue /\ outcomes[q] \in Outcomes
        /\ reported \subseteq {q \in DOMAIN outcomes : outcomes[q] # "raised"}
    BY DEF IInv, Assigned, Recorded
  <2> QED
    BY <2>1, <2>2 DEF TypeOK
<1> QED
  BY <1>1, Invariant, PTL

(* The composite certificate is optimal over every q                       *)
(* (finalize_integer_dual_pair.py:440-449).                                *)
THEOREM CompositeIsOptimal == Spec => []CertificateIsOptimal
<1>1. IInv => CertificateIsOptimal
  BY DEF IInv
<1> QED
  BY <1>1, Invariant, PTL

(* A sweep at its end has tried every q, and reported every q unless one   *)
(* raised (run_fixed_q_sweep.py:148-157).                                  *)
THEOREM SweepsAccount == Spec => []SweepAccounts
<1>1. IInv => SweepAccounts
  <2> SUFFICES ASSUME IInv, queue = {}, \A w \in Workers : Idle(w)
               PROVE  /\ DOMAIN outcomes = sweep.qs
                      /\ ~Aborted => reported = sweep.qs
                      /\ \A q \in sweep.qs :
                           outcomes[q] \in {"exact", "exact_lower_bound", "skipped_existing"} =>
                             bounds[q].is = "bound" \/ results[q].is = "dual"
    BY DEF SweepAccounts
  <2>1. DOMAIN outcomes = sweep.qs
    <3>1. \A q \in sweep.qs : q # 0
      BY SlotsAreNumbers
    <3> QED
      BY <3>1 DEF IInv, Assigned, Idle
  <2> QED
    BY <2>1 DEF IInv, Recorded
<1> QED
  BY <1>1, Invariant, PTL
=============================================================================
