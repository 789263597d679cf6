---------------------------- MODULE SerialRunner ----------------------------
(***************************************************************************)
(* The runners that take the pairs one by one: benchmark/run_scip_corpus.py,*)
(* benchmark/run_cpsat_corpus.py and benchmark_android/run_corpus.py.  Each *)
(* runs the study of a pair in a child, which writes certificate.json       *)
(* several times over; two of them give the child a time limit, and kill    *)
(* only /usr/bin/time when it passes: the study itself goes on, unattended. *)
(***************************************************************************)
EXTENDS Integers, Sequences, FiniteSets

CONSTANTS
  Pairs, Order,     \* the pairs of the lock file, and their order in it
  Candidateless,    \* the pairs whose trace has no pattern to put in a table,
  Hopeless,         \* or none that shortens a token, whatever it overwrites,
  Unimproved,       \* or none that does when it overwrites one entry
  NoPair,
  MaxInvocations,   \* invocations with flags of any kind
  Killable,         \* may the runner be killed
  MaxMishaps        \* kills, timeouts and studies that fail of their own accord

ASSUME SerialAssumption ==
  /\ Order \in Seq(Pairs)
  /\ \A p \in Pairs : \E i \in 1..Len(Order) : Order[i] = p
  /\ \A i, j \in 1..Len(Order) : Order[i] = Order[j] => i = j
  /\ Candidateless \subseteq Hopeless /\ Hopeless \subseteq Unimproved
  /\ Unimproved \subseteq Pairs /\ NoPair \notin Pairs
  /\ MaxInvocations \in Nat /\ MaxMishaps \in Nat /\ Killable \in BOOLEAN

VARIABLES
  tool,         \* which of the three runners this is
  entries,      \* the state file; one process writes it, by os.replace
  certificate,  \* certificate.json of each pair
  running,      \* is there a runner
  rerun, persist,  \* --rerun and --continue-after-failure
  schedule,     \* the pairs of this invocation, in order
  position,     \* the one that main is at
  child,        \* the study that the runner waits for, or NoStudy
  studies,      \* every study process that is alive
  orphaned,     \* history: pairs of which a study outlived its runner's wait
  invocations, mishaps  \* counters of the environment

disk == <<entries, certificate>>
runner == <<running, rerun, persist, schedule, position, child>>
environment == <<invocations, mishaps>>
vars == <<tool, disk, runner, studies, orphaned, environment>>

(* The certificate is written as run_study leaves it, and rewritten by the *)
(* scripts around it: by run_scip_study.py or run_cpsat_study.py, and for  *)
(* Android once more by its run_study.py.                                  *)
Formats ==
  IF tool = "android" THEN <<"plain", "proved", "android">> ELSE <<"plain", "proved">>
Final == Formats[Len(Formats)]

(* `calls` counts the solver calls that a certificate lists; `audited` is  *)
(* no part of it but the history of this copy: an entry that names it was  *)
(* recorded.                                                               *)
Document(format, calls) == [format |-> format, calls |-> calls, audited |-> FALSE]
NoCertificate == Document("none", 0)
Torn == Document("torn", 0)

(* A study is in the hands of `at`: 0 before it reads the certificate of an*)
(* earlier study, 2k-1 before it opens the file for its k-th format, 2k    *)
(* while the file is torn, and at Exited when all is written.              *)
Study(p, at, calls) == [pair |-> p, at |-> at, calls |-> calls]
Dead == Study(NoPair, 0, 0)
Exited == 2 * Len(Formats) + 1
Failed == -1
NoStudy == 0
StudyIds == 1..(MaxMishaps + 1)

Alive(s) == studies[s].pair # NoPair /\ studies[s].at \in 0..(Exited - 1)

(* At most one study gets out of hand at a time that something goes wrong. *)
FreeStudy ==
  CHOOSE s \in StudyIds : studies[s] = Dead /\ \A r \in 1..(s - 1) : studies[r] # Dead

Init ==
  /\ tool \in {"scip", "cpsat", "android"}
  /\ entries = [p \in Pairs |-> "absent"]
  /\ certificate = [p \in Pairs |-> NoCertificate]
  /\ running = FALSE /\ rerun = FALSE /\ persist = FALSE
  /\ schedule = <<>> /\ position = 1 /\ child = NoStudy
  /\ studies = [s \in StudyIds |-> Dead]
  /\ orphaned = {}
  /\ invocations = 0 /\ mishaps = 0
-----------------------------------------------------------------------------
(* The study process.                                                      *)

Mishap == mishaps < MaxMishaps /\ mishaps' = mishaps + 1

(* The runner that waits for it sees the exit code, and nobody else does.  *)
Exit(s, code) ==
  studies' = [studies EXCEPT ![s] = IF s = child THEN [@ EXCEPT !.at = code] ELSE Dead]

(* The sweep has one table size (--max-slots 1), which a certificate lists *)
(* wherever its optimum comes from.                                        *)
Evaluations(p) == IF p \in Candidateless THEN 0 ELSE 1

(* Slip: the certificate of every tool is taken for one of run_study.      *)
CompatibleAny(c) == c # NoCertificate

(* Only a certificate as run_study left it lends its sweep.                *)
Compatible(c) == c.format = "plain"

(* The models that no pattern improves are answered without a solver: of   *)
(* one slot (optimizer.py:229), and of every number of them (:458).  Nor is*)
(* one called for a sweep that is taken over.                              *)
SweepCalls(p) == IF p \in Unimproved \/ Compatible(certificate[p]) THEN 0 ELSE 1
GlobalCalls(p) == IF p \in Hopeless THEN 0 ELSE 1

(* run_study reads the earlier certificate, and raises if that is torn.    *)
ReadPrevious(s) ==
  LET p == studies[s].pair IN
  /\ Alive(s) /\ studies[s].at = 0
  /\ IF certificate[p] = Torn
     THEN Exit(s, Failed)
     ELSE studies' = [studies EXCEPT ![s] = Study(p, 1, SweepCalls(p) + GlobalCalls(p))]
  /\ UNCHANGED <<tool, disk, runner, orphaned, environment>>

(* Each later format is a rewriting of what is on disk, and takes it apart *)
(* first: run_scip_study.py asks for adapter.calls[0], and the last script *)
(* keeps the calls it reads.                                               *)
Unreadable(s, k) ==
  LET p == studies[s].pair IN
  k > 1 /\ (certificate[p] = Torn \/ (k = 2 /\ tool # "cpsat" /\ studies[s].calls = 0))

OpenCertificate(s, k) ==
  LET p == studies[s].pair IN
  /\ Alive(s) /\ studies[s].at = 2 * k - 1
  /\ IF Unreadable(s, k)
     THEN Exit(s, Failed) /\ UNCHANGED certificate
     ELSE /\ studies' = [studies EXCEPT ![s] =
               Study(p, 2 * k, IF k = 3 THEN certificate[p].calls ELSE @.calls)]
          /\ certificate' = [certificate EXCEPT ![p] = Torn]
  /\ UNCHANGED <<tool, entries, runner, orphaned, environment>>

WriteCertificate(s, k) ==
  /\ Alive(s) /\ studies[s].at = 2 * k
  /\ certificate' = [certificate EXCEPT ![studies[s].pair] =
       Document(Formats[k], IF k = 1 THEN 0 ELSE studies[s].calls)]
  /\ IF k = Len(Formats)
     THEN Exit(s, Exited)
     ELSE studies' = [studies EXCEPT ![s].at = 2 * k + 1]
  /\ UNCHANGED <<tool, entries, runner, orphaned, environment>>

(* A decoder that disagrees, a solver at its limit, a full disk.           *)
StudyFails(s) ==
  /\ Alive(s)
  /\ Mishap
  /\ Exit(s, Failed)
  /\ UNCHANGED <<tool, disk, runner, orphaned, invocations>>

StudyStep(s) ==
  \/ ReadPrevious(s)
  \/ \E k \in 1..Len(Formats) : OpenCertificate(s, k) \/ WriteCertificate(s, k)
-----------------------------------------------------------------------------
(* The runner.                                                             *)

HasMore == position <= Len(schedule)
Current == schedule[position]

(* Slip: the audit forgets that the proof has a global call.               *)
PassesUncounted(p) ==
  LET c == certificate[p] IN
  c.format = Final /\ (tool = "android" => c.calls > 0) /\ c.calls >= Evaluations(p)

(* The scip and cpsat audits count the calls; the Android one indexes the  *)
(* last of them.                                                           *)
Passes(p) ==
  LET c == certificate[p] IN
  /\ c.format = Final
  /\ IF tool = "android" THEN c.calls > 0 ELSE c.calls = Evaluations(p) + 1

(* main over the pairs of --pair, or all of them.                          *)
Start(pairs, again, goOn) ==
  /\ ~running
  /\ running' = TRUE
  /\ rerun' = again
  /\ persist' = (goOn /\ tool # "cpsat")
  /\ schedule' = pairs /\ position' = 1
  /\ UNCHANGED <<tool, disk, child, studies, orphaned, mishaps>>

Invoke ==
  /\ invocations < MaxInvocations
  /\ invocations' = invocations + 1
  /\ \E again, goOn \in BOOLEAN : Start(Order, again, goOn)

(* Whoever runs the corpus asks again for a pair that is not complete.     *)
Retry(p) ==
  /\ entries[p] # "complete"
  /\ Start(<<p>>, TRUE, FALSE)
  /\ UNCHANGED invocations

GoDown ==
  /\ running' = FALSE /\ rerun' = FALSE /\ persist' = FALSE
  /\ schedule' = <<>> /\ position' = 1

Record(p, entry) ==
  /\ entries' = [entries EXCEPT ![p] = entry]
  /\ certificate' = IF entry = "complete"
                    THEN [certificate EXCEPT ![p].audited = TRUE] ELSE certificate

Stop(p, entry) == Record(p, entry) /\ GoDown
Raise == UNCHANGED disk /\ GoDown

Advance(p, entry) ==
  /\ Record(p, entry)
  /\ position' = position + 1
  /\ UNCHANGED <<running, rerun, persist, schedule>>

(* Slip: only a study that failed stops the run.                           *)
ConcludeTolerant(p, entry) ==
  IF entry # "failed" \/ persist THEN Advance(p, entry) ELSE Stop(p, entry)

(* The outcome of a pair is recorded, and ends a run that does not persist.*)
Conclude(p, entry) ==
  IF entry = "complete" \/ persist THEN Advance(p, entry) ELSE Stop(p, entry)

(* A certificate on disk is audited outside the try: if it does not pass,  *)
(* the exception ends the run, whatever its flags, and records nothing.    *)
Reuse ==
  /\ running /\ HasMore /\ child = NoStudy
  /\ ~rerun /\ certificate[Current] # NoCertificate
  /\ LET p == Current IN
     IF Passes(p) THEN Advance(p, "complete")
                  ELSE Raise
  /\ UNCHANGED <<tool, child, studies, orphaned, environment>>

StartStudyUnrecorded ==   \* Slip: the start is not recorded
  /\ running /\ HasMore /\ child = NoStudy
  /\ rerun \/ certificate[Current] = NoCertificate
  /\ child' = FreeStudy
  /\ studies' = [studies EXCEPT ![child'] = Study(Current, 0, 0)]
  /\ UNCHANGED <<tool, disk, running, rerun, persist, schedule, position, orphaned,
                 environment>>

StartStudy ==
  /\ running /\ HasMore /\ child = NoStudy
  /\ rerun \/ certificate[Current] = NoCertificate
  /\ entries' = [entries EXCEPT ![Current] = "running"]
  /\ child' = FreeStudy
  /\ studies' = [studies EXCEPT ![child'] = Study(Current, 0, 0)]
  /\ UNCHANGED <<tool, certificate, running, rerun, persist, schedule, position,
                 orphaned, environment>>

(* The child has exited.  The result of a success is audited, and a result *)
(* that does not pass is an entry for two runners and an exception, with   *)
(* the entry still "running", for run_cpsat_corpus.py.                     *)
StudyEnded ==
  LET p == Current IN
  /\ running /\ child # NoStudy
  /\ studies[child].at \in {Failed, Exited}
  /\ child' = NoStudy
  /\ studies' = [studies EXCEPT ![child] = Dead]
  /\ CASE studies[child].at = Failed -> Conclude(p, "failed")
       [] studies[child].at = Exited /\ Passes(p) ->
            Conclude(p, "complete")
       [] studies[child].at = Exited /\ ~Passes(p) ->
            IF tool = "cpsat" THEN Raise
            ELSE Conclude(p, "audit_failed")
  /\ UNCHANGED <<tool, orphaned, environment>>

(* Slip: the runner goes on to wait for the study of the last pair.        *)
TimeoutStillWaiting ==
  /\ running /\ child # NoStudy /\ tool # "cpsat"
  /\ Alive(child)
  /\ Mishap
  /\ orphaned' = orphaned \cup {studies[child].pair}
  /\ Conclude(Current, "external_timeout")
  /\ UNCHANGED <<tool, child, studies, invocations>>

(* subprocess.TimeoutExpired after 14,700 seconds.                         *)
Timeout ==
  /\ running /\ child # NoStudy /\ tool # "cpsat"
  /\ Alive(child)
  /\ Mishap
  /\ child' = NoStudy
  /\ orphaned' = orphaned \cup {studies[child].pair}
  /\ Conclude(Current, "external_timeout")
  /\ UNCHANGED <<tool, studies, invocations>>

Finish ==
  /\ running /\ ~HasMore
  /\ GoDown
  /\ UNCHANGED <<tool, disk, child, studies, orphaned, environment>>

(* The runner is killed, with the study it waits for or without it.        *)
Crash(withStudy) ==
  /\ running
  /\ Killable /\ Mishap
  /\ GoDown
  /\ child' = NoStudy
  /\ IF child # NoStudy /\ (withStudy \/ ~Alive(child))
     THEN studies' = [studies EXCEPT ![child] = Dead] /\ UNCHANGED orphaned
     ELSE /\ UNCHANGED studies
          /\ orphaned' = IF child = NoStudy THEN orphaned
                         ELSE orphaned \cup {studies[child].pair}
  /\ UNCHANGED <<tool, disk, invocations>>
-----------------------------------------------------------------------------
RunnerStep == Reuse \/ StartStudy \/ StudyEnded \/ Finish

Next ==
  \/ Invoke
  \/ \E p \in Pairs : Retry(p)
  \/ RunnerStep
  \/ Timeout
  \/ \E withStudy \in BOOLEAN : Crash(withStudy)
  \/ \E s \in StudyIds : StudyStep(s) \/ StudyFails(s)

(* The operating system runs every process that has work; the operator     *)
(* comes back to each pair that is not complete.                           *)
Fairness ==
  /\ WF_vars(RunnerStep)
  /\ \A s \in StudyIds : WF_vars(StudyStep(s))
  /\ \A p \in Pairs : SF_vars(Retry(p))

Spec == Init /\ [][Next]_vars /\ Fairness
-----------------------------------------------------------------------------
Statuses ==
  {"absent", "running", "failed", "external_timeout", "audit_failed", "complete"}
Documents ==
  {NoCertificate, Torn} \cup
  [format : {"plain", "proved", "android"}, calls : 0..2, audited : BOOLEAN]

TypeOK ==
  /\ entries \in [Pairs -> Statuses]
  /\ certificate \in [Pairs -> Documents]
  /\ child \in StudyIds \cup {NoStudy}
  /\ child # NoStudy => HasMore /\ studies[child].pair = Current
  /\ \A s \in StudyIds :
       studies[s] = Dead \/ studies[s] \in [pair : Pairs, at : Failed..Exited, calls : 0..2]
  /\ orphaned \subseteq Pairs

(* A pair recorded as complete has on disk, whole and in its last format,   *)
(* the very certificate that was audited (run_scip_corpus.py:63-128,        *)
(* android run_corpus.py:59-99), whatever ran, failed or was killed since;  *)
(* unless a study of it got out of hand.                                    *)
CompleteIsCertified ==
  \A p \in Pairs \ orphaned :
    entries[p] = "complete" =>
      /\ certificate[p].audited
      /\ certificate[p].format = Final

(* The audits of run_scip_corpus.py:78 and run_cpsat_corpus.py:94 want a    *)
(* call for every entry of the sweep and one more, the Android one wants    *)
(* one call (run_corpus.py:97).                                             *)
Certifiable(p) == p \notin Hopeless /\ (tool = "android" \/ p \notin Unimproved)

(* A pair whose studies never make the calls that the audit of its runner   *)
(* asks for is never recorded as complete, although its studies can end     *)
(* with exit code 0, the calls of its certificates vary with what its       *)
(* studies take over, and stray ones put the certificate of one in the place*)
(* of another's.  Those without a candidate pattern are for                 *)
(* finalize_zero_candidate_pair.py, the others for nobody.                  *)
UncertifiableStayOpen ==
  \A p \in Pairs : entries[p] = "complete" => Certifiable(p)

(* The exit with code 1 (run_scip_corpus.py:241, android run_corpus.py:209) *)
(* and the raise of run_cpsat_corpus.py:295: no study starts after a pair   *)
(* that did not complete, unless --continue-after-failure says so.          *)
FailFast ==
  running /\ ~persist =>
    \A i \in 1..(position - 1) : entries[schedule[i]] = "complete"

(* Whatever is left behind by a kill, a time limit or a failure (a sweep to *)
(* be reused, a certificate of another format, a stray study), a pair that  *)
(* can be certified is complete in the end if it is rerun and stays so, as  *)
(* long as no certificate of it is torn for good.                           *)
TornForGood(p) ==
  /\ certificate[p] = Torn
  /\ \A s \in StudyIds :
       ~(Alive(s) /\ studies[s].pair = p /\ studies[s].at \in {2, 4, 6})

HealsByRerun ==
  \A p \in Pairs \ Hopeless :
    Certifiable(p) /\ []~TornForGood(p) => <>[](entries[p] = "complete")

(* run_scip_corpus.py:2 and android run_corpus.py:2: the corpus is run      *)
(* "serially", so no two studies are at work at the same time.              *)
Serial == Cardinality({s \in StudyIds : Alive(s)}) <= 1
=============================================================================
