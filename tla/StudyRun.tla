------------------------------ MODULE StudyRun ------------------------------
(***************************************************************************)
(* src/vcdiff_opt/study.py: a study of one pair writes seven files into one *)
(* directory, the certificate that names the others last, over whatever an *)
(* earlier study left there.  It may be killed at any step, the inputs or  *)
(* the instrumented xdelta may change between studies or under one, and a  *)
(* study whose runner gave it up may still be at work beside its successor.*)
(* src/vcdiff_opt/verify.py reads the directory back.                      *)
(***************************************************************************)
EXTENDS Integers, FiniteSets

CONSTANTS
  Inputs,       \* versions of the source and target files of the pair
  Locked,       \* the one whose hashes the corpus lock file gives
  Tracers,      \* builds of the instrumented xdelta
  Unfaithful,   \* builds whose trace does not reproduce their own patch
  Fruitless,    \* inputs whose trace has no pattern that is worth a slot,
  Unimproved,   \* and worlds whose trace has none worth the first one
  Studies,      \* study processes that may be at work at one time
  MaxStudies, MaxChanges, MaxKills

ASSUME StudyAssumption ==
  /\ Unfaithful \subseteq Tracers /\ Fruitless \subseteq Inputs /\ Locked \in Inputs
  /\ Unimproved \subseteq [inputs : Inputs, tracer : Tracers]
  /\ MaxStudies \in Nat /\ MaxChanges \in Nat /\ MaxKills \in Nat

VARIABLES
  world,      \* the inputs and the xdelta that are installed now
  files,      \* the contents of each file of the directory
  study,      \* what each study process knows
  disturbed,  \* history: studies that another one or a change ran into
  overlapped, \* history: two studies have been at work at one time
  started, changes, kills

vars == <<world, files, study, disturbed, overlapped, started, changes, kills>>

Worlds == [inputs : Inputs, tracer : Tracers]

(* A trace, and the stock patch that goes with it, is determined by the    *)
(* world it was made in.  The global optimum need not be unique: the table *)
(* of an answer is the default one, at zero slots, or a custom one.        *)
Answers(w) == IF w.inputs \in Fruitless THEN {"default"} ELSE {"default", "custom"}

Artifacts == {"baseline", "trace", "default", "patch", "table", "parse"}
Absent == [is |-> "absent"]
Torn == [is |-> "torn"]
Of(w) == [is |-> "whole", world |-> w]
TraceOf(w, inputs, baseline) ==
  [is |-> "whole", world |-> w, inputs |-> inputs, baseline |-> baseline]
Solved(w, answer) == [is |-> "whole", world |-> w, answer |-> answer]

NoOne == [at |-> "idle"]

Init ==
  /\ world \in Worlds
  /\ files = [f \in Artifacts \cup {"certificate"} |-> Absent]
  /\ study = [s \in Studies |-> NoOne]
  /\ disturbed = {} /\ overlapped = FALSE
  /\ started = 0 /\ changes = 0 /\ kills = 0
-----------------------------------------------------------------------------
Working(s) == study[s].at \notin {"idle", "done", "raised"}
At(s, label) == study[s].at = label

Goto(s, label) == study' = [study EXCEPT ![s].at = label]
Raise(s) == Goto(s, "raised") /\ UNCHANGED files
Write(f, content) == files' = [files EXCEPT ![f] = content]
(* xdelta, a solver or the historical decoder fails the study: an exit code,*)
(* a time limit, a gap, an answer that does not check.                     *)
Over(s) == study' = [study EXCEPT ![s] = NoOne]
Fail(s) == Over(s) /\ UNCHANGED files
Calm == UNCHANGED <<world, disturbed, overlapped, started, changes, kills>>

(* run_scip_study.py around run_study makes the certificate a proved one.  *)
Start(s, wanted) ==
  /\ ~Working(s)
  /\ started < MaxStudies
  /\ started' = started + 1
  /\ study' = [study EXCEPT ![s] =
       [at |-> "trace", wanted |-> wanted, world |-> world,
        answer |-> "none", sweep |-> Absent, calls |-> 0]]
  /\ LET company == \E r \in Studies \ {s} : Working(r) IN
     /\ disturbed' = IF company THEN Studies ELSE Studies \ {s}
     /\ overlapped' = (overlapped \/ company)
  /\ UNCHANGED <<world, files, changes, kills>>

(* run_xdelta_trace: xdelta writes the stock patch and prints the trace.   *)
Trace(s) ==
  /\ At(s, "trace")
  /\ \/ /\ study' = [study EXCEPT ![s].at = "document", ![s].world = world]
        /\ Write("baseline", Of(world))
     \/ Fail(s)
     \/ Over(s) /\ Write("baseline", Torn)
  /\ Calm

(* trace_document hashes the inputs and the stock patch as they are now, if *)
(* xdelta made one window.                                                 *)
WriteTrace(s) ==
  /\ At(s, "document")
  /\ \/ /\ Write("trace", TraceOf(study[s].world, world.inputs, files["baseline"]))
        /\ Goto(s, "default")
     \/ Fail(s)
  /\ Calm

(* The trace must reproduce the target and the stock patch.                *)
WriteDefault(s) ==
  /\ At(s, "default")
  /\ IF /\ study[s].world.inputs = world.inputs
        /\ study[s].world.tracer \notin Unfaithful
        /\ files["baseline"] = Of(study[s].world)
     THEN Write("default", Of(study[s].world)) /\ Goto(s, "previous")
     ELSE Raise(s)
  /\ Calm

CompatibleByName(s) ==   \* Slip: only the format and the inputs are compared
  LET c == files["certificate"] IN
  /\ c.is = "whole" /\ c.format = "plain"
  /\ c.inputs = study[s].world.inputs

(* A sweep is taken over from a certificate of run_study for the same      *)
(* inputs and the trace that is on disk.                                   *)
Compatible(s) ==
  LET c == files["certificate"] IN
  /\ c.is = "whole" /\ c.format = "plain"
  /\ c.inputs = study[s].world.inputs
  /\ c.trace = files["trace"]

ReplaysAlways(s, sweep) == TRUE   \* Slip: the entry is taken on trust

(* An entry of the sweep is encoded again, on this study's trace.          *)
Replays(s, sweep) == sweep = Of(study[s].world)

(* One solver call for the sweep of one table size, unless it is taken over *)
(* or has no pattern to choose, and one for the global optimum, unless that*)
(* has none.                                                               *)
Calls(s) ==
  LET w == study[s].world IN
  IF w.inputs \in Fruitless THEN 0
  ELSE IF w \in Unimproved \/ Compatible(s) THEN 1 ELSE 2

Solve(s) ==
  LET w == study[s].world  c == files["certificate"] IN
  /\ At(s, "previous")
  /\ IF c = Torn \/ (Compatible(s) /\ ~Replays(s, c.sweep))
     THEN Raise(s)
     ELSE \/ /\ \E answer \in Answers(w) :
                  study' = [study EXCEPT ![s] =
                    [@ EXCEPT !.at = "patch", !.answer = answer,
                              !.sweep = IF Compatible(s) THEN c.sweep ELSE Of(w),
                              !.calls = Calls(s)]]
             /\ UNCHANGED files
          \/ Fail(s)
  /\ Calm

(* The artifacts of the answer, one after the other.                       *)
ResultOfNow(s) ==   \* Slip: the inputs are looked at again
  Solved(world, study[s].answer)

Result(s) == Solved(study[s].world, study[s].answer)

WritePatch(s) ==
  /\ At(s, "patch")
  /\ Write("patch", Result(s)) /\ Goto(s, "table")
  /\ Calm

WriteTableOnce(s) ==   \* Slip: a table that is there is left as it is
  /\ At(s, "table")
  /\ Write("table", IF study[s].answer = "default" THEN Absent
                    ELSE IF files["table"] # Absent THEN files["table"] ELSE Result(s))
  /\ Goto(s, "parse")
  /\ Calm

WriteTable(s) ==
  /\ At(s, "table")
  /\ Write("table", IF study[s].answer = "default" THEN Absent ELSE Result(s))
  /\ Goto(s, "parse")
  /\ Calm

WriteParseOnce(s) ==   \* Slip: a parse that is there is left as it is
  /\ At(s, "parse")
  /\ Write("parse", IF files["parse"] # Absent THEN files["parse"] ELSE Result(s))
  /\ Goto(s, "decode")
  /\ Calm

WriteParse(s) ==
  /\ At(s, "parse")
  /\ Write("parse", Result(s)) /\ Goto(s, "decode")
  /\ Calm

(* _verify_with_decoder: the historical decoder on the files of now.       *)
Decode(s) ==
  /\ At(s, "decode")
  /\ \/ IF files["patch"].is = "whole" /\ files["patch"].world.inputs = world.inputs
        THEN Goto(s, "certificate") /\ UNCHANGED files
        ELSE Raise(s)
     \/ Fail(s)
  /\ Calm

(* Trace, stock patch, table and parse are hashed as they are on disk now, *)
(* the two other patches and the inputs as the study has them in memory.   *)
Certificate(s) ==
  [is |-> "whole", format |-> "plain", calls |-> 0,
   inputs |-> study[s].world.inputs, answer |-> study[s].answer,
   trace |-> files["trace"], baseline |-> files["baseline"],
   default |-> Of(study[s].world), patch |-> Result(s),
   table |-> IF study[s].answer = "default" THEN Absent ELSE files["table"],
   parse |-> files["parse"], sweep |-> study[s].sweep]

(* sha256_file of a file that is not there raises.                         *)
WriteCertificate(s) ==
  /\ At(s, "certificate")
  /\ IF study[s].answer # "default" /\ files["table"] = Absent
     THEN Raise(s)
     ELSE /\ Write("certificate", Certificate(s))
          /\ Goto(s, IF study[s].wanted = "plain" THEN "done" ELSE "prove")
  /\ Calm

(* run_scip_study.py checks its calls against the amendment, rewrites the  *)
(* certificate that is on disk, and looks for the version of the solver in *)
(* the first of the calls.                                                 *)
Prove(s) ==
  /\ At(s, "prove")
  /\ \/ IF files["certificate"] = Torn \/ study[s].calls = 0
        THEN Raise(s)
        ELSE /\ Write("certificate", [files["certificate"] EXCEPT
                  !.format = "proved", !.calls = study[s].calls])
             /\ Goto(s, "done")
     \/ study[s].calls > 0 /\ Fail(s)
  /\ Calm

(* Other inputs, or another build of xdelta.                               *)
Change(w) ==
  /\ changes < MaxChanges
  /\ w # world
  /\ world' = w
  /\ changes' = changes + 1
  /\ disturbed' = Studies
  /\ UNCHANGED <<files, study, overlapped, started, kills>>

(* A killed study leaves the file that it was writing as it was, or torn.  *)
FileAt(label) ==
  CASE label = "trace" -> {"baseline"}
    [] label = "document" -> {"trace"}
    [] label \in {"prove", "certificate"} -> {"certificate"}
    [] label \in {"default", "patch", "table", "parse"} -> {label}
    [] OTHER -> {}

Kill(s, torn) ==
  /\ Working(s)
  /\ kills < MaxKills
  /\ kills' = kills + 1
  /\ Over(s)
  /\ \E hit \in SUBSET FileAt(study[s].at) :
       /\ torn = (hit # {})
       /\ files' = [f \in DOMAIN files |-> IF f \in hit THEN Torn ELSE files[f]]
  /\ UNCHANGED <<world, disturbed, overlapped, started, changes>>

Step(s) ==
  \/ Trace(s)
  \/ WriteTrace(s)
  \/ WriteDefault(s)
  \/ Solve(s)
  \/ WritePatch(s)
  \/ WriteTable(s)
  \/ WriteParse(s)
  \/ Decode(s)
  \/ WriteCertificate(s)
  \/ Prove(s)

Next ==
  \/ \E s \in Studies : Step(s)
  \/ \E s \in Studies, wanted \in {"plain", "proved"} : Start(s, wanted)
  \/ \E s \in Studies, torn \in BOOLEAN : Kill(s, torn)
  \/ \E w \in Worlds : Change(w)

Spec == Init /\ [][Next]_vars
-----------------------------------------------------------------------------
(* verify_certificate, on a directory where nothing is at work.            *)

(* Every file it names is there and has the hash it gives; without slots   *)
(* it names no table.                                                      *)
HashesAgree ==
  LET c == files["certificate"] IN
  /\ c.is = "whole" /\ c.inputs = world.inputs
  /\ \A f \in Artifacts \ {"table"} : files[f] = c[f] /\ files[f].is # "absent"
  /\ c.table # Absent => files["table"] = c.table

(* Slip: the parse ledger is not compared with the parse.                  *)
ReplayAgreesButParse ==
  LET c == files["certificate"]  t == files["trace"] IN
  /\ t.is = "whole" /\ t.inputs = c.inputs /\ t.baseline = c.baseline
  /\ Of(t.world) = files["default"] /\ Of(t.world) = files["baseline"]
  /\ IF c.answer = "default" THEN c.table = Absent
     ELSE files["table"] = Solved(t.world, c.answer)
  /\ files["patch"] = Solved(t.world, c.answer)

(* The trace is read from the disk and encoded with the patterns that the  *)
(* certificate names: stock patch, table, patch and parse must come out.   *)
ReplayAgrees ==
  LET c == files["certificate"]  t == files["trace"] IN
  /\ t.is = "whole" /\ t.inputs = c.inputs /\ t.baseline = c.baseline
  /\ Of(t.world) = files["default"] /\ Of(t.world) = files["baseline"]
  /\ IF c.answer = "default" THEN c.table = Absent
     ELSE files["table"] = Solved(t.world, c.answer)
  /\ files["patch"] = Solved(t.world, c.answer)
  /\ files["parse"] = Solved(t.world, c.answer)

(* A plain certificate is solved again, a proved one is believed if it     *)
(* lists a call for the one entry of its sweep and a global one.           *)
BoundAgrees ==
  LET c == files["certificate"] IN c.format = "proved" => c.calls = 2

Verifies == HashesAgree /\ ReplayAgrees /\ BoundAgrees

(* The audits of run_scip_corpus.py and run_cpsat_corpus.py compare hashes *)
(* and replay nothing: those of the inputs with the lock file's, and not   *)
(* with the inputs.  The Android audit hashes no file and says nothing of  *)
(* them.                                                                   *)
Audits ==
  LET c == files["certificate"] IN
  /\ c.is = "whole" /\ c.format = "proved" /\ c.calls = 2
  /\ c.inputs = Locked
  /\ \A f \in Artifacts \ {"table"} : files[f] = c[f] /\ files[f].is # "absent"
  /\ c.table # Absent => files["table"] = c.table
-----------------------------------------------------------------------------
Contents ==
  {"absent", "torn", "whole"}
Labels ==
  {"idle", "trace", "document", "default", "previous", "patch", "table", "parse",
   "decode", "certificate", "prove", "done", "raised"}

TypeOK ==
  /\ world \in Worlds
  /\ \A f \in DOMAIN files : files[f].is \in Contents
  /\ \A f \in {"patch", "table", "parse"} :
       files[f].is = "whole" =>
         files[f].world \in Worlds /\ files[f].answer \in Answers(files[f].world)
  /\ \A s \in Studies : study[s].at \in Labels
  /\ disturbed \subseteq Studies

(* The files of one answer to one trace of these inputs.                   *)
CoherentFor(inputs) ==
  \E w \in Worlds : \E answer \in Answers(w) :
    /\ w.inputs = inputs
    /\ files["baseline"] = Of(w) /\ files["default"] = Of(w)
    /\ files["trace"] = TraceOf(w, w.inputs, Of(w))
    /\ files["patch"] = Solved(w, answer) /\ files["parse"] = Solved(w, answer)
    /\ answer # "default" => files["table"] = Solved(w, answer)
    /\ files["certificate"].answer = answer

(* Whatever was killed, changed or at work at the same time, a directory    *)
(* that verify_certificate accepts (verify.py:107-233) holds the artifacts  *)
(* of one optimal answer to the trace of the present inputs: an old         *)
(* certificate never passes beside newer artifacts (study.py:398-420).      *)
VerifiedIsCoherent == Verifies => CoherentFor(world.inputs)

(* The SCIP and CP-SAT audits compare hashes only (run_scip_corpus.py:71,   *)
(* 98-109, run_cpsat_corpus.py:81, 128-137): what they accept is an answer  *)
(* for the inputs that the lock file names, whether those are still there or*)
(* not, in a directory in which studies ran one at a time, on inputs that   *)
(* did not change and change back: trace.json could then name those in      *)
(* between, which only the replay of verify.py compares with the rest.      *)
AuditedIsCoherent ==
  Audits /\ ~overlapped /\ changes < 2 => CoherentFor(Locked)

(* A study that finished undisturbed leaves a directory that verifies,      *)
(* unless its proof lists fewer calls than the verifier counts: a sweep     *)
(* taken over costs none (study.py:318, verify.py:37).                      *)
FinishedVerifies ==
  \A s \in Studies \ disturbed :
    At(s, "done") /\ (study[s].wanted = "proved" => study[s].calls = 2) =>
      Verifies

(* A study that nothing disturbed and that none of its tools fails (xdelta, *)
(* solver and historical decoder, which end it as Fail says) is stopped by  *)
(* what it finds in the directory or in its own trace for four reasons only:*)
(* the earlier certificate is torn, the trace does not reproduce the stock  *)
(* patch, there was no solver call to report, or two earlier studies        *)
(* overlapped, one of which then gave its sweep out as belonging to the     *)
(* other's trace.json (study.py:503 hashes the file on disk).  Whatever else*)
(* earlier studies left, of whatever trace, whole, torn by a kill or by an  *)
(* xdelta that failed, is no reason (study.py:273, 281-313, 531).           *)
FailuresAreJustified ==
  \A s \in Studies \ disturbed :
    At(s, "raised") =>
      \/ files["certificate"] = Torn
      \/ study[s].world.tracer \in Unfaithful
      \/ study[s].wanted = "proved" /\ study[s].calls = 0
      \/ overlapped

(* The sweep in a certificate was computed for the trace of the study that  *)
(* wrote the certificate, though it may be the work of an earlier one       *)
(* (study.py:293-313), even when another study replaces trace.json between  *)
(* its comparison and its use.                                              *)
SweepIsOfItsTrace ==
  files["certificate"].is = "whole" =>
    files["certificate"].sweep = files["certificate"].default
=============================================================================
