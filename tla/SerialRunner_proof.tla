------------------------- MODULE SerialRunner_proof -------------------------
(***************************************************************************)
(* Proofs about the runners that take the pairs one by one, for all three, *)
(* every corpus, and any number of invocations, kills, time limits and     *)
(* studies that fail or get out of hand.                                   *)
(***************************************************************************)
EXTENDS SerialRunner, WellFoundedInduction, TLAPS

(* The naturals are well ordered.                                          *)
LEMMA Least ==
  ASSUME NEW T, T \subseteq Nat, T # {}
  PROVE  \E m \in T : \A n \in T : m <= n
<1> DEFINE less == OpToRel(<, Nat)
<1>1. PICK m \in T : \A n \in T : ~(<<n, m>> \in less)
  BY NatLessThanWellFounded, WFMin, Zenon
<1>2. ASSUME NEW n \in Nat, n < m PROVE <<n, m>> \in less
  BY <1>2 DEF OpToRel
<1> HIDE DEF less
<1>3. ASSUME NEW n \in T PROVE m <= n
  <2>1. ~(n < m)
    BY <1>1, <1>2
  <2> QED
    BY <2>1
<1> QED
  BY <1>3

(* What lies below a bound stays there when the bound rises.               *)
LEMMA Rises ==
  ASSUME NEW m \in Nat, NEW n \in Nat, NEW r \in Nat, m <= n, r <= m + 1
  PROVE  r <= n + 1
OBVIOUS

(* The stages of a study.                                                  *)
LEMMA Stages ==
  ASSUME tool \in {"scip", "cpsat", "android"}
  PROVE  /\ Len(Formats) = IF tool = "android" THEN 3 ELSE 2
         /\ Exited = IF tool = "android" THEN 7 ELSE 5
         /\ Final = IF tool = "android" THEN "android" ELSE "proved"
         /\ Formats[1] = "plain" /\ Formats[2] = "proved"
         /\ tool = "android" => Formats[3] = "android"
BY DEF Formats, Exited, Final
(* Below a number that is below a bound.                                   *)
LEMMA Between ==
  ASSUME NEW m \in Nat, NEW n \in Nat, NEW r \in Nat, n <= r, r <= m + 1
  PROVE  n <= m + 1
OBVIOUS
-----------------------------------------------------------------------------
AtWork == [pair : Pairs, at : Failed..Exited, calls : 0..2]

Types ==
  /\ tool \in {"scip", "cpsat", "android"}
  /\ entries \in [Pairs -> Statuses]
  /\ certificate \in [Pairs -> Documents]
  /\ running \in BOOLEAN /\ rerun \in BOOLEAN /\ persist \in BOOLEAN
  /\ schedule \in Seq(Pairs) /\ position \in Nat \ {0}
  /\ child \in StudyIds \cup {NoStudy}
  /\ studies \in [StudyIds -> AtWork \cup {Dead}]
  /\ orphaned \subseteq Pairs
  /\ mishaps \in 0..MaxMishaps

(* No pair is scheduled twice in an invocation.                            *)
Scheduled ==
  \A i, j \in 1..Len(schedule) : schedule[i] = schedule[j] => i = j

(* A study is the one that the runner waits for, or of an orphaned pair;   *)
(* and there is room for another when the runner waits for none.           *)
Attended ==
  /\ child # NoStudy =>
       /\ running /\ HasMore /\ studies[child] # Dead
       /\ studies[child].pair = Current /\ entries[Current] = "running"
  /\ \A s \in StudyIds :
       studies[s] # Dead =>
         /\ s <= mishaps + 1
         /\ s = child \/ (Alive(s) /\ studies[s].pair \in orphaned)
  /\ child = NoStudy => \E s \in StudyIds : s <= mishaps + 1 /\ studies[s] = Dead

(* No study of a pair that cannot be certified gets to a certificate that  *)
(* passes: it makes a call too few, and with no call at all the first      *)
(* script around run_study fails.                                          *)
Refused == {p \in Pairs : ~Certifiable(p)}
MostCalls(p) == IF p \in Hopeless THEN 0 ELSE 1
Stuck(p) == p \in Hopeless /\ tool # "cpsat"

Fruitless ==
  \A p \in Refused :
    /\ certificate[p].calls <= MostCalls(p)
    /\ Stuck(p) => certificate[p].format \in {"none", "torn", "plain"}
    /\ entries[p] # "complete"
    /\ \A s \in StudyIds :
         studies[s].pair = p =>
           studies[s].calls <= MostCalls(p) /\ (Stuck(p) => studies[s].at <= 3)

IInv == Types /\ Scheduled /\ Attended /\ CompleteIsCertified /\ Fruitless /\ FailFast
-----------------------------------------------------------------------------
(* What a study does.                                                      *)

LEMMA AtWorkIsAlive ==
  ASSUME IInv, NEW s \in StudyIds, Alive(s)
  PROVE  /\ studies[s] \in AtWork /\ studies[s] # Dead
         /\ studies[s].pair \in Pairs /\ studies[s].calls \in 0..2
<1>1. studies[s].pair # NoPair
  BY DEF Alive
<1>2. studies[s] # Dead
  BY <1>1 DEF Dead, Study
<1> QED
  BY <1>2 DEF IInv, Types, AtWork

(* A study that moves on, or ends, disturbs neither the runner nor another *)
(* study.                                                                  *)
LEMMA StudyMoves ==
  ASSUME IInv, NEW s \in StudyIds, Alive(s), NEW j, studies' = [studies EXCEPT ![s] = j],
         \/ /\ j \in AtWork /\ j.pair = studies[s].pair
            /\ j.at \in 0..(Exited - 1) \/ s = child
         \/ j = Dead /\ s # child,
         mishaps' \in 0..MaxMishaps, mishaps <= mishaps',
         UNCHANGED <<tool, entries, runner, orphaned>>
  PROVE  /\ studies' \in [StudyIds -> AtWork \cup {Dead}] /\ mishaps' \in 0..MaxMishaps
         /\ studies'[s] = j /\ \A r \in StudyIds \ {s} : studies'[r] = studies[r]
         /\ Scheduled' /\ Attended' /\ FailFast'
<1>1. /\ studies' \in [StudyIds -> AtWork \cup {Dead}] /\ studies'[s] = j
      /\ \A r \in StudyIds \ {s} : studies'[r] = studies[r]
  BY DEF IInv, Types
<1>2. /\ mishaps \in Nat /\ mishaps' \in Nat /\ MaxMishaps \in Nat
      /\ mishaps <= mishaps' /\ mishaps' <= MaxMishaps /\ mishaps' \in 0..MaxMishaps
  BY SerialAssumption DEF SerialAssumption, IInv, Types
<1>3. Scheduled' /\ FailFast'
  BY DEF IInv, Scheduled, FailFast, runner
<1>4. studies[s] # Dead /\ studies[s].pair \in Pairs
  BY AtWorkIsAlive
<1>5. j \in AtWork => j # Dead
  BY SerialAssumption DEF SerialAssumption, AtWork, Dead, Study
<1>6. Exited' = Exited /\ HasMore' = HasMore /\ Current' = Current
  BY DEF Exited, Formats, HasMore, Current, runner
<1>7. child' # NoStudy =>
        /\ running' /\ HasMore' /\ studies'[child'] # Dead
        /\ studies'[child'].pair = Current' /\ entries'[Current'] = "running"
  <2> SUFFICES ASSUME child # NoStudy
               PROVE  /\ running /\ HasMore /\ studies'[child] # Dead
                      /\ studies'[child].pair = Current /\ entries[Current] = "running"
    BY <1>6 DEF runner
  <2>1. child \in StudyIds
    BY DEF IInv, Types
  <2> QED
    BY <1>1, <1>4, <1>5, <2>1 DEF IInv, Attended
<1>8. ASSUME NEW r \in StudyIds, studies'[r] # Dead
      PROVE  /\ r <= mishaps' + 1
             /\ r = child' \/ (Alive(r)' /\ studies'[r].pair \in orphaned')
  <2>1. CASE r = s
    <3>1. r <= mishaps + 1
      BY <1>4, <2>1 DEF IInv, Attended
    <3>2. r <= mishaps' + 1
      <4>1. r \in Nat
        BY <1>2 DEF StudyIds
      <4> QED
        BY <1>2, <3>1, <4>1, Rises
    <3>3. j \in AtWork /\ j.pair = studies[s].pair
      BY <1>1, <1>8, <2>1
    <3>4. s = child \/ studies[s].pair \in orphaned
      BY <1>4 DEF IInv, Attended
    <3>5. s # child => Alive(s)'
      <4>1. j.pair # NoPair
        BY <1>4, <3>3, SerialAssumption DEF SerialAssumption
      <4>2. s # child => j.at \in 0..(Exited - 1)
        BY <1>5, <3>3
      <4> QED
        BY <1>1, <1>6, <4>1, <4>2 DEF Alive
    <3> QED
      BY <1>1, <2>1, <3>2, <3>3, <3>4, <3>5 DEF runner
  <2>2. CASE r # s
    <3>1. studies'[r] = studies[r]
      BY <1>1, <2>2
    <3>2. r <= mishaps + 1 /\ (r = child \/ (Alive(r) /\ studies[r].pair \in orphaned))
      BY <1>8, <3>1 DEF IInv, Attended
    <3>3. Alive(r)' <=> Alive(r)
      BY <1>6, <3>1 DEF Alive
    <3>4. r <= mishaps' + 1
      <4>1. r \in Nat
        BY <1>2 DEF StudyIds
      <4> QED
        BY <1>2, <3>2, <4>1, Rises
    <3> QED
      BY <3>1, <3>2, <3>3, <3>4 DEF runner
  <2> QED
    BY <2>1, <2>2
<1>9. child' = NoStudy => \E r \in StudyIds : r <= mishaps' + 1 /\ studies'[r] = Dead
  <2> SUFFICES ASSUME child = NoStudy
               PROVE  \E r \in StudyIds : r <= mishaps' + 1 /\ studies'[r] = Dead
    BY DEF runner
  <2>1. PICK r \in StudyIds : r <= mishaps + 1 /\ studies[r] = Dead
    BY DEF IInv, Attended
  <2>2. r \in Nat
    BY <1>2 DEF StudyIds
  <2>3. r <= mishaps' + 1
    BY <1>2, <2>1, <2>2, Rises
  <2> QED
    BY <1>1, <1>4, <2>1, <2>3
<1>10. Attended'
  BY <1>7, <1>8, <1>9 DEF Attended
<1> QED
  BY <1>1, <1>2, <1>3, <1>10

(* A study writes to the certificate of a pair that is not complete, or of *)
(* an orphaned one.                                                        *)
LEMMA CertificateWritten ==
  ASSUME IInv, NEW s \in StudyIds, Alive(s), NEW c \in Documents,
         certificate' = [certificate EXCEPT ![studies[s].pair] = c],
         UNCHANGED <<tool, entries, orphaned>>
  PROVE  /\ certificate' \in [Pairs -> Documents] /\ CompleteIsCertified'
         /\ certificate'[studies[s].pair] = c
         /\ \A p \in Pairs \ {studies[s].pair} : certificate'[p] = certificate[p]
<1>1. studies[s] # Dead /\ studies[s].pair \in Pairs
  BY AtWorkIsAlive
<1>2. /\ certificate' \in [Pairs -> Documents] /\ certificate'[studies[s].pair] = c
      /\ \A p \in Pairs \ {studies[s].pair} : certificate'[p] = certificate[p]
  BY <1>1 DEF IInv, Types
<1>3. entries[studies[s].pair] # "complete" \/ studies[s].pair \in orphaned
  <2>1. CASE s = child
    <3>1. child # NoStudy
      BY <2>1 DEF StudyIds, NoStudy
    <3> QED
      BY <2>1, <3>1 DEF IInv, Attended
  <2>2. CASE s # child
    BY <1>1, <2>2 DEF IInv, Attended
  <2> QED
    BY <2>1, <2>2
<1>4. Final' = Final
  BY DEF Final, Formats
<1> QED
  BY <1>2, <1>3, <1>4 DEF IInv, CompleteIsCertified

(* Exit is a move of the study, or its end.                                *)
LEMMA ExitMoves ==
  ASSUME IInv, NEW s \in StudyIds, Alive(s), NEW code \in {Failed, Exited}, Exit(s, code),
         mishaps' \in 0..MaxMishaps, mishaps <= mishaps',
         UNCHANGED <<tool, entries, runner, orphaned>>
  PROVE  /\ studies' \in [StudyIds -> AtWork \cup {Dead}] /\ mishaps' \in 0..MaxMishaps
         /\ Scheduled' /\ Attended' /\ FailFast'
         /\ \A r \in StudyIds \ {s} : studies'[r] = studies[r]
         /\ studies'[s] = Dead \/ studies'[s] = Study(studies[s].pair, code, studies[s].calls)
<1>1. studies[s] \in AtWork
  BY AtWorkIsAlive
<1>2. Failed \in Failed..Exited /\ Exited \in Failed..Exited
  BY Stages DEF Failed, IInv, Types
<1> DEFINE j == Study(studies[s].pair, code, studies[s].calls)
<1>3. [studies[s] EXCEPT !.at = code] = j
  BY <1>1 DEF AtWork, Study
<1>4. CASE s = child
  <2>1. studies' = [studies EXCEPT ![s] = j]
    BY <1>3, <1>4 DEF Exit, IInv, Types
  <2>2. j \in AtWork /\ j.pair = studies[s].pair
    BY <1>1, <1>2 DEF AtWork, Study
  <2> HIDE DEF j
  <2>3. /\ studies' \in [StudyIds -> AtWork \cup {Dead}] /\ mishaps' \in 0..MaxMishaps
        /\ studies'[s] = j /\ \A r \in StudyIds \ {s} : studies'[r] = studies[r]
        /\ Scheduled' /\ Attended' /\ FailFast'
    BY <1>4, <2>1, <2>2, StudyMoves
  <2> QED
    BY <2>3 DEF j
<1>5. CASE s # child
  <2>1. studies' = [studies EXCEPT ![s] = Dead]
    BY <1>5 DEF Exit
  <2> QED
    BY <1>5, <2>1, StudyMoves
<1> QED
  BY <1>4, <1>5

(* The k-th format is at stages 2k - 1 and 2k.                             *)
LEMMA StageNumbers ==
  ASSUME IInv, NEW k \in 1..Len(Formats)
  PROVE  /\ k \in {1, 2, 3} /\ Exited \in {5, 7} /\ 2 * k <= Exited - 1
         /\ k = Len(Formats) <=> 2 * k = Exited - 1
<1>1. CASE tool = "android"
  <2>1. Len(Formats) = 3 /\ Exited = 7
    BY <1>1, Stages
  <2>2. k \in 1..3
    BY <2>1
  <2> QED
    BY <2>1, <2>2
<1>2. CASE tool # "android"
  <2>1. Len(Formats) = 2 /\ Exited = 5
    BY <1>2, Stages DEF IInv, Types
  <2>2. k \in 1..2
    BY <2>1
  <2> QED
    BY <2>1, <2>2
<1> QED
  BY <1>1, <1>2

(* The tool never changes, and with it the stages.                         *)
LEMMA StudyTypes ==
  ASSUME IInv, studies' \in [StudyIds -> AtWork \cup {Dead}], mishaps' \in 0..MaxMishaps,
         certificate' \in [Pairs -> Documents],
         UNCHANGED <<tool, entries, runner, orphaned>>
  PROVE  Types'
<1>1. AtWork' = AtWork
  BY DEF AtWork, Exited, Formats
<1> QED
  BY <1>1 DEF IInv, Types, runner

(* Which pairs these are depends on the runner and never changes.          *)
LEMMA RefusedStay ==
  ASSUME UNCHANGED tool
  PROVE  Refused' = Refused /\ \A p : Stuck(p)' <=> Stuck(p)
BY DEF Refused, Certifiable, Stuck

(* A study of such a pair that stays within its calls and its stages.      *)
Fits(j) ==
  j.pair \in Refused => j.calls <= MostCalls(j.pair) /\ (Stuck(j.pair) => j.at <= 3)

(* These pairs are where they were if their studies are.                   *)
LEMMA FruitlessStays ==
  ASSUME IInv, UNCHANGED <<tool, disk>>,
         \A r \in StudyIds : studies'[r] = studies[r] \/ Fits(studies'[r])
  PROVE  Fruitless'
<1>1. Refused' = Refused /\ \A p : Stuck(p)' <=> Stuck(p)
  BY RefusedStay
<1> QED
  BY <1>1 DEF IInv, Fruitless, Fits, disk

(* A step that leaves the files alone keeps what the entries say true.     *)
LEMMA CertifiedStays ==
  ASSUME IInv, UNCHANGED <<tool, disk, orphaned>>
  PROVE  CompleteIsCertified'
BY DEF IInv, CompleteIsCertified, Final, Formats, disk

(* A place where no study is belongs to no pair.                           *)
LEMMA DeadHasNoPair ==
  Dead.pair \notin Pairs /\ Dead.pair \notin Refused /\ Fits(Dead)
BY SerialAssumption DEF SerialAssumption, Dead, Study, Refused, Fits

(* A study of a pair that cannot be certified counts few calls.            *)
LEMMA FewCalls ==
  ASSUME IInv, NEW s \in StudyIds
  PROVE  /\ Fits(studies[s])
         /\ studies[s].pair \in Refused =>
              certificate[studies[s].pair].calls <= MostCalls(studies[s].pair)
BY DEF IInv, Fruitless, Fits

(* A study that fails (run_scip_study.py:124-130) leaves everything else.  *)
LEMMA FailureInvariant ==
  ASSUME IInv, NEW s \in StudyIds, Alive(s), Exit(s, Failed),
         mishaps' \in 0..MaxMishaps, mishaps <= mishaps',
         UNCHANGED <<tool, disk, runner, orphaned>>
  PROVE  IInv'
<1>1. /\ studies' \in [StudyIds -> AtWork \cup {Dead}] /\ mishaps' \in 0..MaxMishaps
      /\ Scheduled' /\ Attended' /\ FailFast'
      /\ \A r \in StudyIds \ {s} : studies'[r] = studies[r]
      /\ \/ studies'[s] = Dead
         \/ studies'[s] = Study(studies[s].pair, Failed, studies[s].calls)
  BY ExitMoves DEF disk
<1>2. Fruitless'
  <2>1. CASE studies'[s] = Dead
    BY <1>1, <2>1, DeadHasNoPair, FruitlessStays
  <2>2. CASE studies'[s] = Study(studies[s].pair, Failed, studies[s].calls)
    <3>1. /\ studies'[s].pair = studies[s].pair /\ studies'[s].calls = studies[s].calls
          /\ studies'[s].at <= 3
      BY <2>2 DEF Study, Failed
    <3>2. Fits(studies'[s])
      BY <3>1, FewCalls DEF Fits
    <3> QED
      BY <1>1, <3>2, FruitlessStays
  <2> QED
    BY <1>1, <2>1, <2>2
<1>3. CompleteIsCertified'
  BY CertifiedStays
<1>4. Types'
  BY <1>1, StudyTypes DEF IInv, Types, disk
<1> QED
  BY <1>1, <1>2, <1>3, <1>4 DEF IInv

(* A study that fails of its own accord.                                   *)
LEMMA StudyFailsInvariant ==
  ASSUME IInv, NEW s \in StudyIds, StudyFails(s)
  PROVE  IInv'
<1>1. mishaps' \in 0..MaxMishaps /\ mishaps <= mishaps'
  BY SerialAssumption DEF SerialAssumption, IInv, Types, StudyFails, Mishap
<1> QED
  BY <1>1, FailureInvariant DEF StudyFails

(* run_study reads the certificate of an earlier study (study.py:281).     *)
LEMMA ReadPreviousInvariant ==
  ASSUME IInv, NEW s \in StudyIds, ReadPrevious(s)
  PROVE  IInv'
<1> DEFINE p == studies[s].pair
           calls == SweepCalls(p) + GlobalCalls(p)
<1>1. Alive(s) /\ UNCHANGED <<tool, disk, runner, orphaned, environment>>
  BY DEF ReadPrevious
<1>2. mishaps' \in 0..MaxMishaps /\ mishaps <= mishaps' /\ mishaps' = mishaps
  BY <1>1, SerialAssumption DEF SerialAssumption, IInv, Types, environment
<1>3. CASE certificate[p] = Torn
  BY <1>1, <1>2, <1>3, FailureInvariant DEF ReadPrevious
<1>4. CASE certificate[p] # Torn
  <2> DEFINE j == Study(p, 1, calls)
  <2>1. studies' = [studies EXCEPT ![s] = j]
    BY <1>4 DEF ReadPrevious
  <2>2. p \in Pairs /\ calls \in 0..2 /\ (p \in Refused => calls <= MostCalls(p))
    BY <1>1, AtWorkIsAlive, SerialAssumption
    DEF SerialAssumption, SweepCalls, GlobalCalls, Refused, Certifiable, MostCalls
  <2>3. Exited \in {5, 7}
    BY Stages DEF IInv, Types
  <2>4. j \in AtWork /\ j.pair = p /\ j.at = 1 /\ j.calls = calls
    BY <2>2, <2>3 DEF AtWork, Study, Failed
  <2>5. j.at \in 0..(Exited - 1)
    BY <2>3, <2>4
  <2> HIDE DEF j, calls
  <2>6. /\ studies' \in [StudyIds -> AtWork \cup {Dead}] /\ mishaps' \in 0..MaxMishaps
        /\ studies'[s] = j /\ \A r \in StudyIds \ {s} : studies'[r] = studies[r]
        /\ Scheduled' /\ Attended' /\ FailFast'
    BY <1>1, <1>2, <2>1, <2>4, <2>5, StudyMoves DEF disk
  <2>7. Fruitless'
    <3>1. Fits(studies'[s])
      BY <2>2, <2>4, <2>6 DEF Fits
    <3> QED
      BY <1>1, <2>6, <3>1, FruitlessStays
  <2>8. CompleteIsCertified'
    BY <1>1, CertifiedStays
  <2>9. Types'
    BY <1>1, <2>6, StudyTypes DEF IInv, Types, disk
  <2> QED
    BY <2>6, <2>7, <2>8, <2>9 DEF IInv
<1> QED
  BY <1>3, <1>4

(* The certificates as records.                                            *)
LEMMA DocumentFields ==
  ASSUME NEW c \in Documents
  PROVE  /\ c.calls \in 0..2
         /\ c.format \in {"plain", "proved", "android"} =>
              c \in [format : {"plain", "proved", "android"}, calls : 0..2,
                     audited : BOOLEAN]
BY DEF Documents, NoCertificate, Torn, Document

(* A script opens the certificate to write its format.                     *)
LEMMA OpenCertificateInvariant ==
  ASSUME IInv, NEW s \in StudyIds, NEW k \in 1..Len(Formats), OpenCertificate(s, k)
  PROVE  IInv'
<1> DEFINE p == studies[s].pair
<1>1. /\ Alive(s) /\ studies[s].at = 2 * k - 1
      /\ UNCHANGED <<tool, entries, runner, orphaned, environment>>
  BY DEF OpenCertificate
<1>2. mishaps' \in 0..MaxMishaps /\ mishaps <= mishaps' /\ mishaps' = mishaps
  BY <1>1, SerialAssumption DEF SerialAssumption, IInv, Types, environment
<1>3. CASE Unreadable(s, k)
  BY <1>1, <1>2, <1>3, FailureInvariant DEF OpenCertificate, disk
<1>4. CASE ~Unreadable(s, k)
  <2> DEFINE calls == IF k = 3 THEN certificate[p].calls ELSE studies[s].calls
             j == Study(p, 2 * k, calls)
  <2>1. /\ studies' = [studies EXCEPT ![s] = j]
        /\ certificate' = [certificate EXCEPT ![p] = Torn]
    BY <1>4 DEF OpenCertificate, IInv, Types
  <2>2. p \in Pairs /\ studies[s].calls \in 0..2
    BY <1>1, AtWorkIsAlive
  <2>3. certificate[p].calls \in 0..2
    BY <2>2, DocumentFields DEF IInv, Types
  <2>4. k \in {1, 2, 3} /\ Exited \in {5, 7} /\ 2 * k <= Exited - 1
    BY StageNumbers
  <2>5. j \in AtWork /\ j.pair = p /\ j.at = 2 * k /\ j.calls = calls
    BY <2>2, <2>3, <2>4 DEF AtWork, Study, Failed
  <2>6. j.at \in 0..(Exited - 1)
    BY <2>4, <2>5
  <2>7. p \in Refused => calls <= MostCalls(p) /\ (Stuck(p) => 2 * k <= 3)
    <3> SUFFICES ASSUME p \in Refused
                 PROVE  calls <= MostCalls(p) /\ (Stuck(p) => 2 * k <= 3)
      OBVIOUS
    <3>1. /\ studies[s].calls <= MostCalls(p) /\ certificate[p].calls <= MostCalls(p)
          /\ Stuck(p) => 2 * k - 1 <= 3
      BY <1>1, FewCalls DEF Fits
    <3>2. Stuck(p) => k # 2
      <4>1. Stuck(p) => studies[s].calls = 0 /\ tool # "cpsat"
        BY <2>2, <3>1 DEF Stuck, MostCalls
      <4> QED
        BY <1>4, <4>1 DEF Unreadable
    <3> QED
      BY <2>4, <3>1, <3>2
  <2> HIDE DEF j, calls
  <2>8. /\ studies' \in [StudyIds -> AtWork \cup {Dead}] /\ mishaps' \in 0..MaxMishaps
        /\ studies'[s] = j /\ \A r \in StudyIds \ {s} : studies'[r] = studies[r]
        /\ Scheduled' /\ Attended' /\ FailFast'
    BY <1>1, <1>2, <2>1, <2>5, <2>6, StudyMoves
  <2>9. /\ Torn \in Documents /\ Torn.calls = 0 /\ Torn.format = "torn"
    BY DEF Documents, Torn, Document
  <2>10. /\ certificate' \in [Pairs -> Documents] /\ CompleteIsCertified'
         /\ certificate'[p] = Torn
         /\ \A x \in Pairs \ {p} : certificate'[x] = certificate[x]
    BY <1>1, <2>1, <2>9, CertificateWritten
  <2>11. Fruitless'
    <3>1. \A x \in Refused :
            /\ certificate'[x].calls <= MostCalls(x)
            /\ Stuck(x) => certificate'[x].format \in {"none", "torn", "plain"}
            /\ entries[x] # "complete"
      <4> SUFFICES ASSUME NEW x \in Refused
                   PROVE  /\ certificate'[x].calls <= MostCalls(x)
                          /\ Stuck(x) => certificate'[x].format \in {"none", "torn", "plain"}
                          /\ entries[x] # "complete"
        OBVIOUS
      <4>1. x \in Pairs
        BY DEF Refused
      <4>2. CASE x = p
        BY <2>9, <2>10, <4>2 DEF IInv, Fruitless, MostCalls
      <4>3. CASE x # p
        BY <2>10, <4>1, <4>3 DEF IInv, Fruitless
      <4> QED
        BY <4>2, <4>3
    <3>2. \A r \in StudyIds : Fits(studies'[r])
      <4>1. Fits(j)
        BY <2>5, <2>7 DEF Fits
      <4> QED
        BY <2>8, <4>1, FewCalls
    <3> QED
      BY <1>1, <3>1, <3>2, RefusedStay DEF Fruitless, Fits
  <2>12. Types'
    BY <1>1, <2>8, <2>10, StudyTypes
  <2> QED
    BY <2>8, <2>10, <2>11, <2>12 DEF IInv
<1> QED
  BY <1>3, <1>4

(* A script has written the certificate in its format.                     *)
LEMMA WriteCertificateInvariant ==
  ASSUME IInv, NEW s \in StudyIds, NEW k \in 1..Len(Formats), WriteCertificate(s, k)
  PROVE  IInv'
<1> DEFINE p == studies[s].pair
           c == Document(Formats[k], IF k = 1 THEN 0 ELSE studies[s].calls)
<1>1. /\ Alive(s) /\ studies[s].at = 2 * k /\ certificate' = [certificate EXCEPT ![p] = c]
      /\ UNCHANGED <<tool, entries, runner, orphaned, environment>>
  BY DEF WriteCertificate
<1>2. mishaps' \in 0..MaxMishaps /\ mishaps <= mishaps' /\ mishaps' = mishaps
  BY <1>1, SerialAssumption DEF SerialAssumption, IInv, Types, environment
<1>3. studies[s] \in AtWork /\ p \in Pairs /\ studies[s].calls \in 0..2
  BY <1>1, AtWorkIsAlive
<1>4. /\ k \in {1, 2, 3} /\ Exited \in {5, 7} /\ 2 * k <= Exited - 1
      /\ k = Len(Formats) <=> 2 * k = Exited - 1
  BY StageNumbers
<1>5. c \in Documents /\ c.format = Formats[k] /\ (k = 1 \/ c.calls = studies[s].calls)
      /\ (k = 1 => c.calls = 0)
  <2>1. Formats[k] \in {"plain", "proved", "android"}
    BY <1>4 DEF Formats
  <2> QED
    BY <1>3, <2>1 DEF Documents, Document
<1>6. p \in Refused =>
        c.calls <= MostCalls(p) /\ (Stuck(p) => k = 1 /\ c.format = "plain")
  <2> SUFFICES ASSUME p \in Refused
               PROVE  c.calls <= MostCalls(p) /\ (Stuck(p) => k = 1 /\ c.format = "plain")
    OBVIOUS
  <2>1. studies[s].calls <= MostCalls(p) /\ (Stuck(p) => 2 * k <= 3)
    BY <1>1, FewCalls DEF Fits
  <2>2. Stuck(p) => k = 1
    BY <1>4, <2>1
  <2>3. Formats[1] = "plain"
    BY Stages DEF IInv, Types
  <2>4. 0 <= MostCalls(p)
    BY DEF MostCalls
  <2> HIDE DEF c
  <2> QED
    BY <1>5, <2>1, <2>2, <2>3, <2>4
<1> HIDE DEF c
<1>7. /\ certificate' \in [Pairs -> Documents] /\ CompleteIsCertified'
      /\ certificate'[p] = c
      /\ \A x \in Pairs \ {p} : certificate'[x] = certificate[x]
  BY <1>1, <1>5, CertificateWritten
<1>8. /\ studies' \in [StudyIds -> AtWork \cup {Dead}] /\ mishaps' \in 0..MaxMishaps
      /\ Scheduled' /\ Attended' /\ FailFast'
      /\ \A r \in StudyIds \ {s} : studies'[r] = studies[r]
      /\ \/ studies'[s] = Dead
         \/ /\ studies'[s].pair = p /\ studies'[s].calls = studies[s].calls
            /\ k = 1 => studies'[s].at <= 3
  <2>1. CASE k = Len(Formats)
    <3>1. Exit(s, Exited) /\ k # 1
      <4>1. k # 1
        BY <1>4, <2>1
      <4> QED
        BY <2>1, <4>1 DEF WriteCertificate
    <3>2. /\ studies' \in [StudyIds -> AtWork \cup {Dead}] /\ mishaps' \in 0..MaxMishaps
          /\ Scheduled' /\ Attended' /\ FailFast'
          /\ \A r \in StudyIds \ {s} : studies'[r] = studies[r]
          /\ studies'[s] = Dead \/ studies'[s] = Study(p, Exited, studies[s].calls)
      BY <1>1, <1>2, <3>1, ExitMoves
    <3>3. Study(p, Exited, studies[s].calls).pair = p
          /\ Study(p, Exited, studies[s].calls).calls = studies[s].calls
      BY DEF Study
    <3> QED
      BY <3>1, <3>2, <3>3
  <2>2. CASE k # Len(Formats)
    <3> DEFINE j == Study(p, 2 * k + 1, studies[s].calls)
    <3>1. [studies[s] EXCEPT !.at = 2 * k + 1] = j
      BY <1>3 DEF AtWork, Study
    <3>2. studies' = [studies EXCEPT ![s] = j]
      BY <2>2, <3>1 DEF WriteCertificate, IInv, Types
    <3>3. 2 * k + 1 \in 0..(Exited - 1)
      BY <1>4, <2>2
    <3>4. j \in AtWork /\ j.pair = p /\ j.at = 2 * k + 1 /\ j.calls = studies[s].calls
      BY <1>3, <1>4, <3>3 DEF AtWork, Study, Failed
    <3>5. j.at \in 0..(Exited - 1) /\ (k = 1 => j.at <= 3)
      BY <3>3, <3>4
    <3> HIDE DEF j
    <3>6. /\ studies' \in [StudyIds -> AtWork \cup {Dead}] /\ mishaps' \in 0..MaxMishaps
          /\ studies'[s] = j /\ \A r \in StudyIds \ {s} : studies'[r] = studies[r]
          /\ Scheduled' /\ Attended' /\ FailFast'
      BY <1>1, <1>2, <3>2, <3>4, <3>5, StudyMoves
    <3> QED
      BY <3>4, <3>5, <3>6
  <2> QED
    BY <2>1, <2>2
<1>9. Fruitless'
  <2>1. \A x \in Refused :
          /\ certificate'[x].calls <= MostCalls(x)
          /\ Stuck(x) => certificate'[x].format \in {"none", "torn", "plain"}
          /\ entries[x] # "complete"
    <3> SUFFICES ASSUME NEW x \in Refused
                 PROVE  /\ certificate'[x].calls <= MostCalls(x)
                        /\ Stuck(x) => certificate'[x].format \in {"none", "torn", "plain"}
                        /\ entries[x] # "complete"
      OBVIOUS
    <3>1. x \in Pairs
      BY DEF Refused
    <3>2. CASE x = p
      BY <1>6, <1>7, <3>2 DEF IInv, Fruitless
    <3>3. CASE x # p
      BY <1>7, <3>1, <3>3 DEF IInv, Fruitless
    <3> QED
      BY <3>2, <3>3
  <2>2. ASSUME NEW r \in StudyIds PROVE Fits(studies'[r])
    <3>1. CASE r = s /\ studies'[s] # Dead
      <4>1. studies'[s].pair = p /\ studies'[s].calls = studies[s].calls
            /\ (k = 1 => studies'[s].at <= 3)
        BY <1>8, <3>1
      <4>2. p \in Refused => studies[s].calls <= MostCalls(p)
        BY FewCalls DEF Fits
      <4> QED
        BY <1>6, <3>1, <4>1, <4>2 DEF Fits
    <3>2. CASE r = s /\ studies'[s] = Dead
      BY <3>2, DeadHasNoPair
    <3>3. CASE r # s
      BY <1>8, <3>3, FewCalls
    <3> QED
      BY <3>1, <3>2, <3>3
  <2> QED
    BY <1>1, <2>1, <2>2, RefusedStay DEF Fruitless, Fits
<1>10. Types'
  BY <1>1, <1>7, <1>8, StudyTypes
<1> QED
  BY <1>7, <1>8, <1>9, <1>10 DEF IInv
-----------------------------------------------------------------------------
(* What the runner does.                                                   *)

LEMMA CurrentPair ==
  ASSUME IInv, HasMore
  PROVE  /\ position \in 1..Len(schedule) /\ Current \in Pairs
         /\ Current = schedule[position]
         /\ \A i \in 1..(position - 1) : schedule[i] # Current
<1>1. schedule \in Seq(Pairs) /\ position \in Nat /\ position >= 1
  BY DEF IInv, Types
<1>2. position \in 1..Len(schedule) /\ Len(schedule) \in Nat
  BY <1>1 DEF HasMore
<1>3. ASSUME NEW i \in 1..(position - 1) PROVE schedule[i] # Current
  <2>1. i \in 1..Len(schedule) /\ i # position
    BY <1>1, <1>2
  <2> QED
    BY <1>2, <2>1 DEF IInv, Scheduled, Current
<1> QED
  BY <1>1, <1>2, <1>3 DEF Current

(* An audit that passes is of the last format, and of a pair that can be   *)
(* certified (run_scip_corpus.py:78, run_cpsat_corpus.py:94).              *)
LEMMA PassingAudit ==
  ASSUME IInv, NEW p \in Pairs, Passes(p)
  PROVE  certificate[p].format = Final /\ p \notin Refused
<1>1. certificate[p].format = Final
  BY DEF Passes
<1>2. ASSUME p \in Refused PROVE FALSE
  <2>1. /\ certificate[p].calls <= MostCalls(p) /\ certificate[p].calls \in 0..2
        /\ Stuck(p) => certificate[p].format \in {"none", "torn", "plain"}
    BY <1>2, DocumentFields DEF IInv, Types, Fruitless
  <2>2. p \in Unimproved /\ (p \notin Hopeless => tool # "android" /\ p \notin Candidateless)
    BY <1>2, SerialAssumption DEF SerialAssumption, Refused, Certifiable
  <2>3. CASE tool = "android"
    BY <2>1, <2>2, <2>3 DEF Passes, MostCalls
  <2>4. CASE tool = "scip" /\ p \in Hopeless
    BY <1>1, <2>1, <2>4, Stages DEF Stuck
  <2>5. CASE tool # "android" /\ p \notin Hopeless
    BY <2>1, <2>2, <2>5 DEF Passes, Evaluations, MostCalls
  <2>6. CASE tool = "cpsat" /\ p \in Hopeless
    BY <2>1, <2>6 DEF Passes, Evaluations, MostCalls
  <2> QED
    BY <2>3, <2>4, <2>5, <2>6 DEF IInv, Types
<1> QED
  BY <1>1, <1>2

(* The state file after update (run_scip_corpus.py:51-54).                 *)
LEMMA RecordHolds ==
  ASSUME IInv, NEW p \in Pairs, NEW entry \in Statuses, entry = "complete" => Passes(p),
         Record(p, entry), UNCHANGED tool, orphaned \subseteq orphaned'
  PROVE  /\ entries' \in [Pairs -> Statuses] /\ certificate' \in [Pairs -> Documents]
         /\ CompleteIsCertified' /\ entries'[p] = entry
         /\ \A x \in Pairs \ {p} : entries'[x] = entries[x]
         /\ \A x \in Refused :
              /\ certificate'[x] = certificate[x]
              /\ entries'[x] # "complete"
<1>1. /\ entries' \in [Pairs -> Statuses] /\ entries'[p] = entry
      /\ \A x \in Pairs \ {p} : entries'[x] = entries[x]
  BY DEF IInv, Types, Record
<1>2. Final' = Final
  BY DEF Final, Formats
<1>3. CASE entry = "complete"
  <2> DEFINE c == [certificate[p] EXCEPT !.audited = TRUE]
  <2>1. certificate[p].format = Final /\ p \notin Refused /\ certificate[p] \in Documents
    BY <1>3, PassingAudit DEF IInv, Types
  <2>2. Final \in {"plain", "proved", "android"}
    BY Stages DEF IInv, Types
  <2>3. certificate[p] \in
          [format : {"plain", "proved", "android"}, calls : 0..2, audited : BOOLEAN]
    BY <2>1, <2>2, DocumentFields
  <2>4. c \in Documents /\ c.audited /\ c.format = Final
    BY <2>1, <2>3 DEF Documents
  <2>5. certificate' = [certificate EXCEPT ![p] = c]
    BY <1>3 DEF Record, IInv, Types
  <2> HIDE DEF c
  <2>6. /\ certificate' \in [Pairs -> Documents] /\ certificate'[p] = c
        /\ \A x \in Pairs \ {p} : certificate'[x] = certificate[x]
    BY <2>4, <2>5 DEF IInv, Types
  <2>7. CompleteIsCertified'
    BY <1>1, <1>2, <2>4, <2>6 DEF IInv, CompleteIsCertified
  <2>8. ASSUME NEW x \in Refused
        PROVE  certificate'[x] = certificate[x] /\ entries'[x] # "complete"
    <3>1. x \in Pairs /\ x # p
      BY <2>1 DEF Refused
    <3> QED
      BY <1>1, <2>6, <3>1 DEF IInv, Fruitless
  <2> QED
    BY <1>1, <2>6, <2>7, <2>8
<1>4. CASE entry # "complete"
  <2>1. certificate' = certificate
    BY <1>4 DEF Record
  <2>2. CompleteIsCertified'
    BY <1>1, <1>2, <1>4, <2>1 DEF IInv, CompleteIsCertified
  <2>3. ASSUME NEW x \in Refused PROVE entries'[x] # "complete"
    <3>1. x \in Pairs
      BY DEF Refused
    <3> QED
      BY <1>1, <1>4, <3>1 DEF IInv, Fruitless
  <2> QED
    BY <1>1, <2>1, <2>2, <2>3 DEF IInv, Types
<1> QED
  BY <1>3, <1>4

(* The runner ends, or is killed with nothing to wait for.                 *)
LEMMA DownHolds ==
  ASSUME GoDown
  PROVE  /\ running' = FALSE /\ rerun' = FALSE /\ persist' = FALSE
         /\ schedule' = <<>> /\ schedule' \in Seq(Pairs) /\ position' = 1
         /\ Scheduled' /\ FailFast'
<1>1. /\ running' = FALSE /\ rerun' = FALSE /\ persist' = FALSE
      /\ schedule' = <<>> /\ position' = 1
  BY DEF GoDown
<1>2. Scheduled' /\ FailFast'
  BY <1>1 DEF Scheduled, FailFast
<1>3. <<>> \in Seq(Pairs)
  OBVIOUS
<1> QED
  BY <1>1, <1>2, <1>3

(* The runner goes on to the next pair, or ends.                           *)
LEMMA Concluded ==
  ASSUME IInv, running, HasMore, NEW entry \in Statuses,
         entry = "complete" => Passes(Current),
         \/ Advance(Current, entry) /\ (entry = "complete" \/ persist)
         \/ Stop(Current, entry),
         UNCHANGED tool, orphaned \subseteq orphaned'
  PROVE  /\ entries' \in [Pairs -> Statuses] /\ certificate' \in [Pairs -> Documents]
         /\ running' \in BOOLEAN /\ rerun' \in BOOLEAN /\ persist' \in BOOLEAN
         /\ schedule' \in Seq(Pairs) /\ position' \in Nat \ {0}
         /\ Scheduled' /\ FailFast' /\ CompleteIsCertified'
         /\ \A x \in Refused :
              /\ certificate'[x] = certificate[x]
              /\ entries'[x] # "complete"
<1>1. Record(Current, entry) /\ Current \in Pairs
  BY CurrentPair DEF Advance, Stop
<1>2. /\ entries' \in [Pairs -> Statuses] /\ certificate' \in [Pairs -> Documents]
      /\ CompleteIsCertified' /\ entries'[Current] = entry
      /\ \A x \in Pairs \ {Current} : entries'[x] = entries[x]
      /\ \A x \in Refused :
           /\ certificate'[x] = certificate[x]
           /\ entries'[x] # "complete"
  BY <1>1, RecordHolds
<1>3. CASE Advance(Current, entry) /\ (entry = "complete" \/ persist)
  <2>1. position' = position + 1 /\ UNCHANGED <<running, rerun, persist, schedule>>
    BY <1>3 DEF Advance
  <2>2. Scheduled'
    BY <2>1 DEF IInv, Scheduled
  <2>3. ASSUME ~persist, NEW i \in 1..position PROVE entries'[schedule[i]] = "complete"
    <3>1. /\ position \in 1..Len(schedule) /\ schedule \in Seq(Pairs)
          /\ Current = schedule[position]
          /\ \A n \in 1..(position - 1) : schedule[n] # Current
      BY CurrentPair DEF IInv, Types
    <3>2. CASE i = position
      BY <1>2, <1>3, <2>3, <3>1, <3>2
    <3>3. CASE i # position
      <4>1. i \in 1..(position - 1) /\ i \in 1..Len(schedule)
        BY <3>1, <3>3
      <4>2. schedule[i] \in Pairs /\ schedule[i] # Current
        BY <3>1, <4>1
      <4>3. entries[schedule[i]] = "complete"
        BY <2>3, <4>1 DEF IInv, FailFast
      <4> QED
        BY <1>2, <4>2, <4>3
    <3> QED
      BY <3>2, <3>3
  <2>4. FailFast'
    <3>1. position' - 1 = position
      BY <2>1 DEF IInv, Types
    <3> QED
      BY <2>1, <2>3, <3>1 DEF FailFast
  <2>5. /\ running' \in BOOLEAN /\ rerun' \in BOOLEAN /\ persist' \in BOOLEAN
        /\ schedule' \in Seq(Pairs) /\ position' \in Nat \ {0}
    BY <2>1 DEF IInv, Types
  <2> QED
    BY <1>2, <2>2, <2>4, <2>5
<1>4. CASE Stop(Current, entry)
  <2>1. /\ running' = FALSE /\ rerun' = FALSE /\ persist' = FALSE
        /\ schedule' \in Seq(Pairs) /\ position' = 1
        /\ Scheduled' /\ FailFast'
    BY <1>4, DownHolds DEF Stop
  <2>2. /\ running' \in BOOLEAN /\ rerun' \in BOOLEAN /\ persist' \in BOOLEAN
    BY <2>1, Zenon
  <2>3. position' \in Nat \ {0}
    BY <2>1
  <2> QED
    BY <1>2, <2>1, <2>2, <2>3
<1> QED
  BY <1>3, <1>4

(* Types and the pairs that cannot be certified, after a step of the runner.*)
LEMMA RunnerTypes ==
  ASSUME IInv,
         entries' \in [Pairs -> Statuses], certificate' \in [Pairs -> Documents],
         running' \in BOOLEAN, rerun' \in BOOLEAN, persist' \in BOOLEAN,
         schedule' \in Seq(Pairs), position' \in Nat \ {0},
         child' \in StudyIds \cup {NoStudy},
         studies' \in [StudyIds -> AtWork \cup {Dead}],
         orphaned' \subseteq Pairs, mishaps' \in 0..MaxMishaps, UNCHANGED tool,
         \A x \in Refused :
           /\ certificate'[x] = certificate[x]
           /\ entries'[x] # "complete",
         \A r \in StudyIds :
           studies'[r] = studies[r] \/ Fits(studies'[r])
  PROVE  Types' /\ Fruitless'
<1>1. AtWork' = AtWork
  BY DEF AtWork, Exited, Formats
<1>2. Types'
  BY <1>1 DEF IInv, Types
<1>3. Fruitless'
  BY RefusedStay DEF IInv, Fruitless, Fits
<1> QED
  BY <1>2, <1>3

(* The runner waits for no study, and the studies are as they were.        *)
LEMMA Unattended ==
  ASSUME IInv, child = NoStudy, child' = NoStudy,
         UNCHANGED <<tool, studies, orphaned, mishaps>>
  PROVE  Attended'
<1>1. \A s \in StudyIds : Alive(s)' <=> Alive(s)
  BY DEF Alive, Exited, Formats
<1> QED
  BY <1>1 DEF IInv, Attended

(* The number of mishaps as a number.                                      *)
LEMMA Mishaps ==
  ASSUME IInv
  PROVE  /\ mishaps \in Nat /\ MaxMishaps \in Nat /\ mishaps <= MaxMishaps
         /\ mishaps \in 0..MaxMishaps
BY SerialAssumption DEF SerialAssumption, IInv, Types

(* One more mishap is one more place among the studies.                    *)
LEMMA Room ==
  ASSUME NEW m \in Nat, MaxMishaps \in Nat, m < MaxMishaps
  PROVE  /\ m + 2 \in StudyIds /\ m + 2 <= (m + 1) + 1 /\ ~(m + 2 <= m + 1)
         /\ m + 1 \in 0..MaxMishaps /\ m <= m + 1 /\ m + 1 \in Nat
BY DEF StudyIds

(* A mishap makes room for a study that runs beside the one it lets go.    *)
LEMMA MishapMakesRoom ==
  ASSUME IInv, Mishap
  PROVE  /\ mishaps' \in 0..MaxMishaps /\ mishaps \in Nat /\ mishaps' \in Nat
         /\ mishaps <= mishaps'
         /\ \E s \in StudyIds : s <= mishaps' + 1 /\ studies[s] = Dead
<1>1. /\ mishaps \in Nat /\ MaxMishaps \in Nat /\ mishaps < MaxMishaps
      /\ mishaps' = mishaps + 1
  BY Mishaps DEF Mishap
<1>2. /\ mishaps + 2 \in StudyIds /\ mishaps + 2 <= (mishaps + 1) + 1
      /\ ~(mishaps + 2 <= mishaps + 1)
      /\ mishaps + 1 \in 0..MaxMishaps /\ mishaps <= mishaps + 1 /\ mishaps + 1 \in Nat
  BY <1>1, Room
<1>3. studies[mishaps + 2] = Dead
  BY <1>2 DEF IInv, Attended
<1> QED
  BY <1>1, <1>2, <1>3

(* The runner no longer waits for its study, which lives on.               *)
LEMMA LetGo ==
  ASSUME IInv, Mishap, child' = NoStudy, UNCHANGED <<tool, studies>>,
         \/ child = NoStudy /\ orphaned' = orphaned
         \/ /\ child # NoStudy /\ Alive(child)
            /\ orphaned' = orphaned \cup {studies[child].pair}
  PROVE  /\ Attended' /\ mishaps' \in 0..MaxMishaps
         /\ orphaned' \subseteq Pairs /\ orphaned \subseteq orphaned'
<1>1. /\ mishaps' \in 0..MaxMishaps /\ mishaps \in Nat /\ mishaps' \in Nat
      /\ mishaps <= mishaps'
      /\ \E s \in StudyIds : s <= mishaps' + 1 /\ studies[s] = Dead
  BY MishapMakesRoom
<1>2. orphaned' \subseteq Pairs /\ orphaned \subseteq orphaned'
  <2>1. CASE child = NoStudy
    BY <2>1 DEF IInv, Types
  <2>2. CASE child # NoStudy
    <3>1. child \in StudyIds
      BY <2>2 DEF IInv, Types
    <3>2. studies[child].pair \in Pairs
      BY <2>2, <3>1, AtWorkIsAlive
    <3> QED
      BY <2>2, <3>2 DEF IInv, Types
  <2> QED
    BY <2>1, <2>2
<1>3. ASSUME NEW s \in StudyIds, studies[s] # Dead
      PROVE  s <= mishaps' + 1 /\ Alive(s)' /\ studies[s].pair \in orphaned'
  <2>1. s <= mishaps + 1 /\ (s = child \/ (Alive(s) /\ studies[s].pair \in orphaned))
    BY <1>3 DEF IInv, Attended
  <2>2. s \in Nat
    BY Mishaps DEF StudyIds
  <2>3. s <= mishaps' + 1
    BY <1>1, <2>1, <2>2, Rises
  <2>4. Alive(s) /\ studies[s].pair \in orphaned'
    <3>1. CASE s = child
      <4>1. child # NoStudy
        BY <3>1 DEF StudyIds, NoStudy
      <4> QED
        BY <3>1, <4>1
    <3>2. CASE s # child
      BY <1>2, <2>1, <3>2
    <3> QED
      BY <3>1, <3>2
  <2>5. Alive(s)' <=> Alive(s)
    BY DEF Alive, Exited, Formats
  <2> QED
    BY <2>3, <2>4, <2>5
<1>4. Attended'
  BY <1>1, <1>3 DEF Attended
<1> QED
  BY <1>1, <1>2, <1>4

(* The study that the runner waits for is gone, and so is its place taken. *)
LEMMA ChildGone ==
  ASSUME IInv, child # NoStudy, child' = NoStudy,
         studies' = [studies EXCEPT ![child] = Dead],
         mishaps' \in 0..MaxMishaps, mishaps <= mishaps', UNCHANGED <<tool, orphaned>>
  PROVE  /\ Attended' /\ studies' \in [StudyIds -> AtWork \cup {Dead}]
         /\ \A r \in StudyIds :
              studies'[r] = studies[r] \/ Fits(studies'[r])
<1>1. /\ child \in StudyIds /\ studies' \in [StudyIds -> AtWork \cup {Dead}]
      /\ studies'[child] = Dead
      /\ \A r \in StudyIds \ {child} : studies'[r] = studies[r]
  BY DEF IInv, Types
<1>2. mishaps \in Nat /\ mishaps' \in Nat
  BY Mishaps
<1>3. ASSUME NEW r \in StudyIds, r <= mishaps + 1 PROVE r <= mishaps' + 1
  <2>1. r \in Nat
    BY Mishaps DEF StudyIds
  <2> QED
    BY <1>2, <1>3, <2>1, Rises
<1>4. child <= mishaps' + 1
  <2>1. child <= mishaps + 1
    BY <1>1 DEF IInv, Attended
  <2> QED
    BY <1>1, <1>3, <2>1
<1>5. ASSUME NEW r \in StudyIds, studies'[r] # Dead
      PROVE  r <= mishaps' + 1 /\ Alive(r)' /\ studies'[r].pair \in orphaned'
  <2>1. r # child /\ studies'[r] = studies[r]
    BY <1>1, <1>5
  <2>2. r <= mishaps + 1 /\ Alive(r) /\ studies[r].pair \in orphaned
    BY <1>5, <2>1 DEF IInv, Attended
  <2>3. Alive(r)' <=> Alive(r)
    BY <2>1 DEF Alive, Exited, Formats
  <2> QED
    BY <1>3, <2>1, <2>2, <2>3
<1>6. Attended'
  BY <1>1, <1>4, <1>5 DEF Attended
<1> QED
  BY <1>1, <1>6, DeadHasNoPair

(* A runner starts, with every pair or with one.                           *)
LEMMA StartInvariant ==
  ASSUME IInv, NEW pairs \in Seq(Pairs), NEW again \in BOOLEAN, NEW goOn \in BOOLEAN,
         \A i, j \in 1..Len(pairs) : pairs[i] = pairs[j] => i = j,
         Start(pairs, again, goOn)
  PROVE  IInv'
<1>1. /\ ~running /\ running' = TRUE /\ rerun' = again /\ persist' \in BOOLEAN
      /\ schedule' = pairs /\ position' = 1
      /\ UNCHANGED <<tool, disk, child, studies, orphaned, mishaps>>
  BY DEF Start
<1>2. child = NoStudy
  BY <1>1 DEF IInv, Attended
<1>3. Attended'
  BY <1>1, <1>2, Unattended
<1>4. Scheduled' /\ FailFast'
  BY <1>1 DEF Scheduled, FailFast
<1>5. CompleteIsCertified'
  BY <1>1, CertifiedStays
<1>6. Types' /\ Fruitless'
  BY <1>1, RunnerTypes DEF IInv, Types, Fruitless, disk
<1> QED
  BY <1>3, <1>4, <1>5, <1>6 DEF IInv

(* The corpus is run, with flags of any kind.                              *)
LEMMA InvokeInvariant ==
  ASSUME IInv, Invoke
  PROVE  IInv'
<1>1. PICK again \in BOOLEAN, goOn \in BOOLEAN : Start(Order, again, goOn)
  BY DEF Invoke
<1> QED
  BY <1>1, StartInvariant, SerialAssumption DEF SerialAssumption

(* A pair is asked for again.                                              *)
LEMMA RetryInvariant ==
  ASSUME IInv, NEW p \in Pairs, Retry(p)
  PROVE  IInv'
<1>1. Start(<<p>>, TRUE, FALSE)
  BY DEF Retry
<1>2. <<p>> \in Seq(Pairs) /\ \A i, j \in 1..Len(<<p>>) : <<p>>[i] = <<p>>[j] => i = j
  OBVIOUS
<1> QED
  BY <1>1, <1>2, StartInvariant

(* The last pair is behind the runner.                                     *)
LEMMA FinishInvariant ==
  ASSUME IInv, Finish
  PROVE  IInv'
<1>1. ~HasMore /\ GoDown /\ UNCHANGED <<tool, disk, child, studies, orphaned, environment>>
  BY DEF Finish
<1>2. child = NoStudy
  BY <1>1 DEF IInv, Attended
<1>3. Attended'
  BY <1>1, <1>2, Unattended DEF environment
<1>4. CompleteIsCertified'
  BY <1>1, CertifiedStays
<1>5. Types' /\ Fruitless'
  BY <1>1, DownHolds, RunnerTypes DEF IInv, Types, Fruitless, disk, environment
<1> QED
  BY <1>1, <1>3, <1>4, <1>5, DownHolds DEF IInv

(* A certificate on disk is audited and counted (run_scip_corpus.py:135-150).*)
LEMMA ReuseInvariant ==
  ASSUME IInv, Reuse
  PROVE  IInv'
<1>1. /\ running /\ HasMore /\ child = NoStudy
      /\ UNCHANGED <<tool, child, studies, orphaned, environment>>
  BY DEF Reuse
<1>2. Attended'
  BY <1>1, Unattended DEF environment
<1>3. CASE Passes(Current)
  <2>1. Advance(Current, "complete") /\ "complete" \in Statuses
    BY <1>3 DEF Reuse, Statuses
  <2>2. /\ entries' \in [Pairs -> Statuses] /\ certificate' \in [Pairs -> Documents]
        /\ running' \in BOOLEAN /\ rerun' \in BOOLEAN /\ persist' \in BOOLEAN
        /\ schedule' \in Seq(Pairs) /\ position' \in Nat \ {0}
        /\ Scheduled' /\ FailFast' /\ CompleteIsCertified'
        /\ \A x \in Refused :
             /\ certificate'[x] = certificate[x]
             /\ entries'[x] # "complete"
    BY <1>1, <1>3, <2>1, Concluded
  <2>3. Types' /\ Fruitless'
    BY <1>1, <2>2, RunnerTypes DEF IInv, Types, environment
  <2> QED
    BY <1>2, <2>2, <2>3 DEF IInv
<1>4. CASE ~Passes(Current)
  <2>1. GoDown /\ UNCHANGED disk
    BY <1>4 DEF Reuse, Raise
  <2>2. CompleteIsCertified'
    BY <1>1, <2>1, CertifiedStays
  <2>3. Types' /\ Fruitless'
    BY <1>1, <2>1, DownHolds, RunnerTypes DEF IInv, Types, Fruitless, disk, environment
  <2> QED
    BY <1>2, <2>1, <2>2, <2>3, DownHolds DEF IInv
<1> QED
  BY <1>3, <1>4

(* There is a place for a study when the runner waits for none.            *)
LEMMA FreeStudyIsFree ==
  ASSUME IInv, child = NoStudy
  PROVE  /\ FreeStudy \in StudyIds /\ studies[FreeStudy] = Dead
         /\ FreeStudy <= mishaps + 1
<1> DEFINE Free == {s \in StudyIds : studies[s] = Dead}
<1>1. StudyIds \subseteq Nat
  BY Mishaps DEF StudyIds
<1>2. PICK s \in StudyIds : s <= mishaps + 1 /\ studies[s] = Dead
  BY DEF IInv, Attended
<1>3. PICK m \in Free : \A n \in Free : m <= n
  <2>1. Free \subseteq Nat /\ Free # {}
    BY <1>1, <1>2
  <2> HIDE DEF Free
  <2> QED
    BY <2>1, Least
<1>4. \A r \in 1..(m - 1) : studies[r] # Dead
  <2> SUFFICES ASSUME NEW r \in 1..(m - 1), studies[r] = Dead PROVE FALSE
    OBVIOUS
  <2>1. m \in StudyIds /\ m \in Nat
    BY <1>1
  <2>2. r \in StudyIds /\ r \in Nat /\ ~(m <= r)
    BY <2>1, Mishaps DEF StudyIds
  <2> QED
    BY <1>3, <2>2
<1>5. \E f \in StudyIds : studies[f] = Dead /\ \A r \in 1..(f - 1) : studies[r] # Dead
  BY <1>3, <1>4
<1>6. /\ FreeStudy \in StudyIds /\ studies[FreeStudy] = Dead
      /\ \A r \in 1..(FreeStudy - 1) : studies[r] # Dead
  BY <1>5 DEF FreeStudy
<1>7. FreeStudy <= s
  <2> SUFFICES ASSUME ~(FreeStudy <= s) PROVE FALSE
    OBVIOUS
  <2>1. s \in 1..(FreeStudy - 1)
    BY <1>6, Mishaps DEF StudyIds
  <2> QED
    BY <1>2, <1>6, <2>1
<1>8. FreeStudy <= mishaps + 1
  <2>1. FreeStudy \in Nat /\ s \in Nat /\ mishaps \in Nat
    BY <1>1, <1>6, Mishaps
  <2> QED
    BY <1>2, <1>7, <2>1, Between
<1> QED
  BY <1>6, <1>8

(* A study is started (run_scip_corpus.py:162-178).                        *)
LEMMA StartStudyInvariant ==
  ASSUME IInv, StartStudy
  PROVE  IInv'
<1> DEFINE f == FreeStudy
           j == Study(Current, 0, 0)
<1>1. /\ running /\ HasMore /\ child = NoStudy /\ child' = f
      /\ entries' = [entries EXCEPT ![Current] = "running"]
      /\ studies' = [studies EXCEPT ![f] = j]
      /\ UNCHANGED <<tool, certificate, running, rerun, persist, schedule, position,
                     orphaned, environment>>
  BY DEF StartStudy
<1>2. f \in StudyIds /\ studies[f] = Dead /\ f <= mishaps + 1
  BY <1>1, FreeStudyIsFree
<1>3. Current \in Pairs /\ \A i \in 1..(position - 1) : schedule[i] # Current
  BY <1>1, CurrentPair
<1>4. /\ j \in AtWork /\ j # Dead /\ j.pair = Current /\ j.calls = 0 /\ j.at = 0
      /\ j.at <= 3
  <2>1. Exited \in {5, 7}
    BY Stages DEF IInv, Types
  <2> QED
    BY <1>3, <2>1, SerialAssumption DEF SerialAssumption, AtWork, Study, Failed, Dead
<1> HIDE DEF f, j
<1>5. /\ studies' \in [StudyIds -> AtWork \cup {Dead}] /\ studies'[f] = j
      /\ \A r \in StudyIds \ {f} : studies'[r] = studies[r]
      /\ entries' \in [Pairs -> Statuses] /\ entries'[Current] = "running"
      /\ \A x \in Pairs \ {Current} : entries'[x] = entries[x]
  BY <1>1, <1>2, <1>3, <1>4 DEF IInv, Types, Statuses
<1>6. /\ Current' = Current /\ HasMore' = HasMore /\ mishaps' = mishaps
      /\ UNCHANGED <<tool, certificate, running, rerun, persist, schedule, position,
                     orphaned>>
  BY <1>1 DEF Current, HasMore, environment
<1>7. Scheduled'
  BY <1>6 DEF IInv, Scheduled
<1>8. Attended'
  <2>1. child' # NoStudy
    BY <1>1, <1>2 DEF StudyIds, NoStudy
  <2>2. ASSUME NEW s \in StudyIds, studies'[s] # Dead
        PROVE  /\ s <= mishaps' + 1
               /\ s = child' \/ (Alive(s)' /\ studies'[s].pair \in orphaned')
    <3>1. CASE s = f
      BY <1>1, <1>2, <1>6, <3>1
    <3>2. CASE s # f
      <4>1. studies'[s] = studies[s] /\ s # child
        BY <1>1, <1>5, <3>2 DEF StudyIds, NoStudy
      <4>2. s <= mishaps + 1 /\ Alive(s) /\ studies[s].pair \in orphaned
        BY <2>2, <4>1 DEF IInv, Attended
      <4>3. Alive(s)' <=> Alive(s)
        BY <1>6, <4>1 DEF Alive, Exited, Formats
      <4> QED
        BY <1>6, <4>1, <4>2, <4>3
    <3> QED
      BY <3>1, <3>2
  <2>3. /\ running' /\ HasMore' /\ studies'[child'] # Dead
        /\ studies'[child'].pair = Current' /\ entries'[Current'] = "running"
    BY <1>1, <1>4, <1>5, <1>6
  <2> QED
    BY <2>1, <2>2, <2>3 DEF Attended
<1>9. FailFast'
  <2> SUFFICES ASSUME ~persist, NEW i \in 1..(position - 1)
               PROVE  entries'[schedule[i]] = "complete"
    BY <1>6 DEF FailFast
  <2>1. i \in 1..Len(schedule)
    BY <1>1, CurrentPair DEF IInv, Types
  <2>2. schedule[i] \in Pairs /\ schedule[i] # Current
    BY <1>3, <2>1 DEF IInv, Types
  <2>3. entries[schedule[i]] = "complete"
    BY <1>1 DEF IInv, FailFast
  <2> QED
    BY <1>5, <2>2, <2>3
<1>10. CompleteIsCertified'
  <2>1. Final' = Final
    BY <1>6 DEF Final, Formats
  <2> QED
    BY <1>5, <1>6, <2>1 DEF IInv, CompleteIsCertified
<1>11. Types' /\ Fruitless'
  <2>1. \A x \in Refused : certificate'[x] = certificate[x] /\ entries'[x] # "complete"
    <3> SUFFICES ASSUME NEW x \in Refused PROVE entries'[x] # "complete"
      BY <1>6
    <3>1. x \in Pairs
      BY DEF Refused
    <3> QED
      BY <1>5, <3>1 DEF IInv, Fruitless
  <2>2. \A r \in StudyIds :
          studies'[r] = studies[r] \/ Fits(studies'[r])
    <3>1. Fits(j)
      BY <1>4 DEF Fits, MostCalls
    <3> QED
      BY <1>5, <3>1
  <2>3. /\ certificate' \in [Pairs -> Documents]
        /\ running' \in BOOLEAN /\ rerun' \in BOOLEAN /\ persist' \in BOOLEAN
        /\ schedule' \in Seq(Pairs) /\ position' \in Nat \ {0}
        /\ child' \in StudyIds \cup {NoStudy} /\ orphaned' \subseteq Pairs
        /\ mishaps' \in 0..MaxMishaps /\ UNCHANGED tool
    BY <1>1, <1>2, <1>6 DEF IInv, Types
  <2> QED
    BY <1>5, <2>1, <2>2, <2>3, RunnerTypes
<1> QED
  BY <1>7, <1>8, <1>9, <1>10, <1>11 DEF IInv

(* A study has ended (run_scip_corpus.py:186-226).                         *)
LEMMA StudyEndedInvariant ==
  ASSUME IInv, StudyEnded
  PROVE  IInv'
<1>1. /\ running /\ child # NoStudy /\ child' = NoStudy
      /\ studies[child].at \in {Failed, Exited}
      /\ studies' = [studies EXCEPT ![child] = Dead]
      /\ UNCHANGED <<tool, orphaned, environment>>
  BY DEF StudyEnded
<1>2. HasMore
  BY <1>1 DEF IInv, Attended
<1>3. mishaps' = mishaps /\ mishaps' \in 0..MaxMishaps /\ mishaps <= mishaps'
  BY <1>1, Mishaps DEF environment
<1>4. /\ Attended' /\ studies' \in [StudyIds -> AtWork \cup {Dead}]
      /\ \A r \in StudyIds :
           studies'[r] = studies[r] \/ Fits(studies'[r])
  BY <1>1, <1>3, ChildGone
<1>5. ASSUME NEW entry \in Statuses, Conclude(Current, entry),
             entry = "complete" => Passes(Current)
      PROVE  IInv'
  <2>1. /\ entries' \in [Pairs -> Statuses] /\ certificate' \in [Pairs -> Documents]
        /\ running' \in BOOLEAN /\ rerun' \in BOOLEAN /\ persist' \in BOOLEAN
        /\ schedule' \in Seq(Pairs) /\ position' \in Nat \ {0}
        /\ Scheduled' /\ FailFast' /\ CompleteIsCertified'
        /\ \A x \in Refused :
             /\ certificate'[x] = certificate[x]
             /\ entries'[x] # "complete"
    BY <1>1, <1>2, <1>5, Concluded DEF Conclude
  <2>2. Types' /\ Fruitless'
    BY <1>1, <1>3, <1>4, <2>1, RunnerTypes DEF IInv, Types
  <2> QED
    BY <1>4, <2>1, <2>2 DEF IInv
<1>6. CASE Raise
  <2>1. GoDown /\ UNCHANGED disk
    BY <1>6 DEF Raise
  <2>2. CompleteIsCertified'
    BY <1>1, <2>1, CertifiedStays
  <2>3. Types' /\ Fruitless'
    BY <1>1, <1>3, <1>4, <2>1, DownHolds, RunnerTypes DEF IInv, Types, Fruitless, disk
  <2> QED
    BY <1>4, <2>1, <2>2, <2>3, DownHolds DEF IInv
<1>7. {"failed", "complete", "audit_failed"} \subseteq Statuses
  BY DEF Statuses
<1>8. \/ Conclude(Current, "failed") \/ Conclude(Current, "audit_failed") \/ Raise
      \/ Passes(Current) /\ Conclude(Current, "complete")
  <2>1. Failed # Exited
    BY Stages DEF Failed, IInv, Types
  <2>2. CASE studies[child].at = Failed
    BY <2>1, <2>2 DEF StudyEnded
  <2>3. CASE studies[child].at = Exited /\ Passes(Current)
    BY <2>1, <2>3 DEF StudyEnded
  <2>4. CASE studies[child].at = Exited /\ ~Passes(Current)
    BY <2>1, <2>4 DEF StudyEnded
  <2> QED
    BY <1>1, <2>2, <2>3, <2>4
<1> QED
  BY <1>5, <1>6, <1>7, <1>8

(* The time limit (run_scip_corpus.py:179-185): the study outlives it.     *)
LEMMA TimeoutInvariant ==
  ASSUME IInv, Timeout
  PROVE  IInv'
<1>1. /\ running /\ child # NoStudy /\ Alive(child) /\ Mishap /\ child' = NoStudy
      /\ orphaned' = orphaned \cup {studies[child].pair}
      /\ Conclude(Current, "external_timeout")
      /\ UNCHANGED <<tool, studies>>
  BY DEF Timeout
<1>2. HasMore
  BY <1>1 DEF IInv, Attended
<1>3. /\ Attended' /\ mishaps' \in 0..MaxMishaps
      /\ orphaned' \subseteq Pairs /\ orphaned \subseteq orphaned'
  BY <1>1, LetGo
<1>4. /\ entries' \in [Pairs -> Statuses] /\ certificate' \in [Pairs -> Documents]
      /\ running' \in BOOLEAN /\ rerun' \in BOOLEAN /\ persist' \in BOOLEAN
      /\ schedule' \in Seq(Pairs) /\ position' \in Nat \ {0}
      /\ Scheduled' /\ FailFast' /\ CompleteIsCertified'
      /\ \A x \in Refused :
           /\ certificate'[x] = certificate[x]
           /\ entries'[x] # "complete"
  <2>1. "external_timeout" \in Statuses /\ "external_timeout" # "complete"
    BY DEF Statuses
  <2> QED
    BY <1>1, <1>2, <1>3, <2>1, Concluded DEF Conclude
<1>5. Types' /\ Fruitless'
  BY <1>1, <1>3, <1>4, RunnerTypes DEF IInv, Types
<1> QED
  BY <1>3, <1>4, <1>5 DEF IInv

(* The runner is killed: its study goes with it, or goes on.               *)
LEMMA CrashInvariant ==
  ASSUME IInv, NEW withStudy \in BOOLEAN, Crash(withStudy)
  PROVE  IInv'
<1>1. /\ Mishap /\ GoDown /\ child' = NoStudy /\ UNCHANGED <<tool, disk, invocations>>
  BY DEF Crash
<1>2. /\ Attended' /\ mishaps' \in 0..MaxMishaps
      /\ studies' \in [StudyIds -> AtWork \cup {Dead}]
      /\ orphaned' \subseteq Pairs /\ orphaned \subseteq orphaned'
      /\ \A r \in StudyIds :
           studies'[r] = studies[r] \/ Fits(studies'[r])
  <2>1. CASE child # NoStudy /\ (withStudy \/ ~Alive(child))
    <3>1. studies' = [studies EXCEPT ![child] = Dead] /\ UNCHANGED orphaned
      BY <2>1 DEF Crash
    <3>2. mishaps' \in 0..MaxMishaps /\ mishaps <= mishaps'
      BY <1>1, MishapMakesRoom
    <3> QED
      BY <1>1, <2>1, <3>1, <3>2, ChildGone DEF IInv, Types
  <2>2. CASE ~(child # NoStudy /\ (withStudy \/ ~Alive(child)))
    <3>1. /\ UNCHANGED studies
          /\ \/ child = NoStudy /\ orphaned' = orphaned
             \/ /\ child # NoStudy /\ Alive(child)
                /\ orphaned' = orphaned \cup {studies[child].pair}
      BY <2>2 DEF Crash
    <3> QED
      BY <1>1, <3>1, LetGo DEF IInv, Types
  <2> QED
    BY <2>1, <2>2
<1>3. CompleteIsCertified'
  BY <1>1, <1>2 DEF IInv, CompleteIsCertified, Final, Formats, disk
<1>4. Types' /\ Fruitless'
  BY <1>1, <1>2, DownHolds, RunnerTypes DEF IInv, Types, Fruitless, disk
<1> QED
  BY <1>1, <1>2, <1>3, <1>4, DownHolds DEF IInv
-----------------------------------------------------------------------------
(* No file, no runner and no study.                                        *)
LEMMA InitInvariant ==
  ASSUME Init
  PROVE  IInv
<1>1. Types
  <2>1. NoCertificate \in Documents /\ "absent" \in Statuses /\ <<>> \in Seq(Pairs)
    BY DEF Documents, Statuses
  <2>2. 0 \in 0..MaxMishaps
    BY SerialAssumption DEF SerialAssumption
  <2>3. running \in BOOLEAN /\ rerun \in BOOLEAN /\ persist \in BOOLEAN
    BY Zenon DEF Init
  <2>4. schedule \in Seq(Pairs) /\ position \in Nat \ {0} /\ mishaps \in 0..MaxMishaps
    BY <2>1, <2>2 DEF Init
  <2>5. entries \in [Pairs -> Statuses] /\ certificate \in [Pairs -> Documents]
    BY <2>1 DEF Init
  <2>6. studies \in [StudyIds -> AtWork \cup {Dead}]
    BY DEF Init
  <2> QED
    BY <2>3, <2>4, <2>5, <2>6 DEF Init, Types
<1>2. Scheduled /\ CompleteIsCertified /\ FailFast
  BY DEF Init, Scheduled, CompleteIsCertified, FailFast
<1>3. Attended
  <2>1. 1 \in StudyIds
    BY SerialAssumption DEF SerialAssumption, StudyIds
  <2> QED
    BY <2>1 DEF Init, Attended
<1>4. Fruitless
  BY DeadHasNoPair DEF Init, Fruitless, NoCertificate, Document, Refused, MostCalls
<1> QED
  BY <1>1, <1>2, <1>3, <1>4 DEF IInv

(* Every step, one action at a time.                                       *)
LEMMA NextInvariant ==
  ASSUME IInv, [Next]_vars
  PROVE  IInv'
<1>1. CASE Next
  <2>1. CASE Invoke
    BY <2>1, InvokeInvariant
  <2>2. ASSUME NEW p \in Pairs, Retry(p) PROVE IInv'
    BY <2>2, RetryInvariant
  <2>3. CASE RunnerStep
    BY <2>3, ReuseInvariant, StartStudyInvariant, StudyEndedInvariant, FinishInvariant
    DEF RunnerStep
  <2>4. CASE Timeout
    BY <2>4, TimeoutInvariant
  <2>5. ASSUME NEW withStudy \in BOOLEAN, Crash(withStudy) PROVE IInv'
    BY <2>5, CrashInvariant
  <2>6. ASSUME NEW s \in StudyIds, StudyStep(s) PROVE IInv'
    BY <2>6, ReadPreviousInvariant, OpenCertificateInvariant, WriteCertificateInvariant
    DEF StudyStep
  <2>7. ASSUME NEW s \in StudyIds, StudyFails(s) PROVE IInv'
    BY <2>7, StudyFailsInvariant
  <2> QED
    BY <1>1, <2>1, <2>2, <2>3, <2>4, <2>5, <2>6, <2>7 DEF Next
<1>2. CASE UNCHANGED vars
  <2>1. /\ UNCHANGED <<tool, entries, certificate, running, rerun, persist, schedule,
                       position, child, studies, orphaned, mishaps>>
    BY <1>2 DEF vars, disk, runner, environment
  <2>2. Scheduled' /\ FailFast' /\ CompleteIsCertified'
    BY <2>1 DEF IInv, Scheduled, FailFast, CompleteIsCertified, Final, Formats
  <2>3. Types' /\ Fruitless'
    BY <2>1, RefusedStay DEF IInv, Types, Fruitless, AtWork, Exited, Formats
  <2>4. Attended'
    <3>1. /\ HasMore' = HasMore /\ Current' = Current
          /\ \A s \in StudyIds : Alive(s)' <=> Alive(s)
      BY <2>1 DEF HasMore, Current, Alive, Exited, Formats
    <3> QED
      BY <2>1, <3>1 DEF IInv, Attended
  <2> QED
    BY <2>2, <2>3, <2>4 DEF IInv
<1> QED
  BY <1>1, <1>2

(* The inductive invariant: a study is attended or orphaned, there is room *)
(* for the next one, none of a pair that makes too few calls gets far      *)
(* enough to pass, and what an entry says was so when it was written.      *)
THEOREM Invariant == Spec => []IInv
BY InitInvariant, NextInvariant, PTL DEF Spec

(* Every variable has its type, and a runner that waits has a pair left    *)
(* (run_scip_corpus.py:152-226).                                           *)
THEOREM TypeCorrect == Spec => []TypeOK
<1>1. IInv => TypeOK
  <2> SUFFICES ASSUME IInv PROVE TypeOK
    OBVIOUS
  <2>1. \A s \in StudyIds :
          studies[s] = Dead \/ studies[s] \in [pair : Pairs, at : Failed..Exited, calls : 0..2]
    BY DEF IInv, Types, AtWork
  <2> QED
    BY <2>1 DEF IInv, Types, Attended, TypeOK
<1> QED
  BY <1>1, Invariant, PTL

(* An entry that says "complete" is about the certificate that is on disk, *)
(* whole and audited (run_scip_corpus.py:63-128), for every corpus and any *)
(* number of kills and failures, unless a study of it is left unattended.  *)
THEOREM CertificatesHold == Spec => []CompleteIsCertified
<1>1. IInv => CompleteIsCertified
  BY DEF IInv
<1> QED
  BY <1>1, Invariant, PTL

(* No pair is recorded as complete whose studies make fewer calls than the *)
(* audit of its runner asks for, although they may end with code 0 and     *)
(* stray ones may write at any time (run_scip_corpus.py:78,                *)
(* run_cpsat_corpus.py:94, android run_corpus.py:97).                      *)
THEOREM UncertifiableNeverComplete == Spec => []UncertifiableStayOpen
<1>1. IInv => UncertifiableStayOpen
  BY DEF IInv, Fruitless, UncertifiableStayOpen, Refused
<1> QED
  BY <1>1, Invariant, PTL

(* No study starts after a pair that did not complete, unless the runner   *)
(* was told to go on (run_scip_corpus.py:241, run_cpsat_corpus.py:295).    *)
THEOREM FailsFast == Spec => []FailFast
<1>1. IInv => FailFast
  BY DEF IInv
<1> QED
  BY <1>1, Invariant, PTL
=============================================================================
