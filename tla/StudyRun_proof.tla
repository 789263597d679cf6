--------------------------- MODULE StudyRun_proof ---------------------------
(***************************************************************************)
(* Proofs about study.py and verify.py, for every set of inputs and tracers*)
(* and any number of studies, kills and changes of the inputs.             *)
(***************************************************************************)
EXTENDS StudyRun, TLAPS

(* What each file can hold, whole.                                         *)
IsPatch(x) ==
  \/ x \in {Absent, Torn}
  \/ \E w \in Worlds : x = Of(w)
IsTrace(x) ==
  \/ x \in {Absent, Torn}
  \/ x = TraceOf(x.world, x.inputs, x.baseline)
IsResult(x) ==
  \/ x \in {Absent, Torn}
  \/ /\ x = Solved(x.world, x.answer)
     /\ x.world \in Worlds /\ x.answer \in Answers(x.world)
Fields ==
  {"is", "format", "calls", "inputs", "answer", "trace", "baseline", "default",
   "patch", "table", "parse", "sweep"}
(* Default patch, sweep and answer of a certificate are of one world, that *)
(* the study had in memory, whatever the files it hashed.                  *)
IsCertificate(x) ==
  \/ x \in {Absent, Torn}
  \/ /\ x = [field \in Fields |-> x[field]] /\ x.is = "whole"
     /\ \E w \in Worlds :
          /\ x.default = Of(w) /\ x.sweep = Of(w)
          /\ x.inputs = w.inputs /\ x.answer \in Answers(w)
          /\ x.patch = Solved(w, x.answer)

FilesTyped ==
  /\ files = [f \in Artifacts \cup {"certificate"} |-> files[f]]
  /\ IsPatch(files["baseline"]) /\ IsPatch(files["default"])
  /\ IsTrace(files["trace"])
  /\ \A f \in {"patch", "table", "parse"} : IsResult(files[f])
  /\ IsCertificate(files["certificate"])

Sweeps == {Absent} \cup {Of(w) : w \in Worlds}
Memories ==
  [at : Labels \ {"idle"}, wanted : {"plain", "proved"}, world : Worlds,
   answer : {"none", "default", "custom"}, sweep : Sweeps, calls : {0, 1, 2}]

(* The labels of a study that is past each of its steps.                   *)
PastProof == {"done"}
PastCertificate == {"prove"} \cup PastProof
PastParse == {"decode", "certificate"} \cup PastCertificate
PastTable == {"parse"} \cup PastParse
PastPatch == {"table"} \cup PastTable
PastSolve == {"patch"} \cup PastPatch
PastDefault == {"previous"} \cup PastSolve
PastDocument == {"default"} \cup PastDefault
PastTrace == {"document"} \cup PastDocument

StudiesTyped ==
  /\ study \in [Studies -> Memories \cup {NoOne}]
  /\ \A s \in Studies : study[s].at \in PastSolve =>
       /\ study[s].answer \in Answers(study[s].world)
       /\ study[s].sweep = Of(study[s].world)
  /\ \A s \in Studies : At(s, "prove") => files["certificate"] # Absent

Types ==
  /\ world \in Worlds /\ disturbed \subseteq Studies
  /\ overlapped \in BOOLEAN /\ changes \in Nat
  /\ FilesTyped /\ StudiesTyped

(* A study at work has disturbed every other.                              *)
Company ==
  \A r, s \in Studies :
    r # s /\ Working(r) => s \in disturbed /\ (Working(s) => overlapped)

(* No step of another study has come between those of this one.            *)
Alone(s) == s \notin disturbed \/ (~overlapped /\ Working(s))

TableOf(w, answer) == IF answer = "default" THEN Absent ELSE Solved(w, answer)

(* A study that is alone finds what it has written.                        *)
Wrote(s) ==
  LET w == study[s].world  answer == study[s].answer
      l == study[s].at  c == files["certificate"] IN
  /\ l \in PastTrace => files["baseline"] = Of(w)
  /\ l \in PastDocument =>
       files["trace"] = TraceOf(w, files["trace"].inputs, Of(w))
  /\ l \in PastDefault => files["default"] = Of(w)
  /\ l \in PastPatch => files["patch"] = Solved(w, answer)
  /\ l \in PastTable => files["table"] = TableOf(w, answer)
  /\ l \in PastParse => files["parse"] = Solved(w, answer)
  /\ l \in PastCertificate =>
       /\ c.is = "whole" /\ c.default = Of(w) /\ c.answer = answer
       /\ \A f \in Artifacts : c[f] = files[f]
  /\ l = "prove" => study[s].wanted = "proved"
  /\ l \in PastProof /\ study[s].wanted = "plain" => c.format = "plain"
  /\ l \in PastProof /\ study[s].wanted = "proved" => c.calls = study[s].calls

(* trace.json names the inputs as they are when it is written, which, if   *)
(* they change but once, are those of the trace, or are there to stay.     *)
NamesInputs(s) ==
  LET w == study[s].world  i == files["trace"].inputs  l == study[s].at IN
  /\ l = "document" /\ changes = 0 => w.inputs = world.inputs
  /\ l = "default" /\ i # w.inputs /\ changes < 2 =>
       changes = 1 /\ world.inputs = i
  /\ l \in PastDefault /\ changes < 2 => i = w.inputs

(* Nothing has changed under an undisturbed study.                         *)
Steady(s) ==
  LET l == study[s].at IN
  /\ l \in PastTrace => study[s].world = world
  /\ l \in PastDocument => files["trace"].inputs = world.inputs

(* A certificate of studies that ran one at a time hashes the files of one *)
(* world.                                                                  *)
Honest ==
  LET c == files["certificate"]  w == c.default.world IN
  c.is = "whole" =>
    /\ c.baseline = Of(w) /\ c.trace = TraceOf(w, c.trace.inputs, Of(w))
    /\ c.parse = Solved(w, c.answer) /\ c.table = TableOf(w, c.answer)
    /\ changes < 2 => c.trace.inputs = w.inputs

IInv ==
  /\ Types
  /\ Company
  /\ \A s \in Studies : Alone(s) => Wrote(s)
  /\ \A s \in Studies : ~overlapped /\ Working(s) => NamesInputs(s)
  /\ \A s \in Studies : s \notin disturbed => Steady(s)
  /\ ~overlapped => Honest
  /\ FailuresAreJustified
-----------------------------------------------------------------------------
(* A study goes on to the step labelled l, and forgets nothing.            *)
GoesOn(s, l) ==
  /\ study[s] \in Memories /\ study'[s] \in Memories
  /\ study' = [study EXCEPT ![s] = study'[s]]
  /\ study'[s].at = l
  /\ study'[s].world = study[s].world /\ study'[s].answer = study[s].answer
  /\ study'[s].sweep = study[s].sweep /\ study'[s].calls = study[s].calls
  /\ study'[s].wanted = study[s].wanted

(* A study that moves on without writing.                                  *)
LEMMA GotoFrame ==
  ASSUME IInv, NEW s \in Studies, Working(s), NEW l \in Labels \ {"idle"}, Goto(s, l)
  PROVE  GoesOn(s, l)
<1>1. study[s] \in Memories /\ study \in [Studies -> Memories \cup {NoOne}]
  BY DEF IInv, Types, StudiesTyped, Working, NoOne
<1> DEFINE m == [study[s] EXCEPT !.at = l]
<1>2. m \in Memories /\ m.at = l /\ study' = [study EXCEPT ![s] = m] /\ study'[s] = m
  BY <1>1 DEF Memories, Goto
<1>3. /\ m.world = study[s].world /\ m.answer = study[s].answer
      /\ m.sweep = study[s].sweep /\ m.calls = study[s].calls
      /\ m.wanted = study[s].wanted
  BY <1>1 DEF Memories
<1> HIDE DEF m
<1> QED
  BY <1>1, <1>2, <1>3 DEF GoesOn

(* A write changes one file (Path.write_text, trace.py:136).               *)
LEMMA WriteFrame ==
  ASSUME FilesTyped, NEW f \in Artifacts \cup {"certificate"}, NEW content,
         Write(f, content)
  PROVE  /\ files'[f] = content
         /\ \A g \in (Artifacts \cup {"certificate"}) \ {f} : files'[g] = files[g]
         /\ files' = [g \in Artifacts \cup {"certificate"} |-> files'[g]]
<1> DEFINE Names == Artifacts \cup {"certificate"}
<1>1. files = [g \in Names |-> files[g]]
  BY DEF FilesTyped
<1>2. files' = [g \in Names |-> IF g = f THEN content ELSE files[g]]
  BY <1>1 DEF Write
<1> QED
  BY <1>2

(* A step of one study leaves the others what they know, and as disturbed  *)
(* as they are.                                                            *)
LEMMA StepFrame ==
  ASSUME IInv, NEW s \in Studies, Working(s), study'[s] \in Memories,
         study' = [study EXCEPT ![s] = study'[s]], UNCHANGED <<disturbed, overlapped>>
  PROVE  /\ study' \in [Studies -> Memories \cup {NoOne}]
         /\ Company'
         /\ \A r \in Studies \ {s} :
              /\ study'[r] = study[r] /\ r \in disturbed
              /\ ~Alone(r)' /\ (Working(r)' => overlapped)
         /\ Alone(s)' => Alone(s)
<1>1. /\ study' \in [Studies -> Memories \cup {NoOne}]
      /\ \A r \in Studies \ {s} : study'[r] = study[r]
  BY DEF IInv, Types, StudiesTyped
<1>2. \A r \in Studies \ {s} : r \in disturbed /\ (Working(r) => overlapped)
  BY DEF IInv, Company
<1>3. \A r \in Studies \ {s} : Working(r)' <=> Working(r)
  BY <1>1 DEF Working
<1>4. Company'
  BY <1>2, <1>3 DEF IInv, Company
<1>5. \A r \in Studies \ {s} : ~Alone(r)'
  BY <1>2, <1>3 DEF Alone
<1> QED
  BY <1>1, <1>2, <1>3, <1>4, <1>5 DEF Alone

Justified(s) ==
  \/ files["certificate"] = Torn
  \/ study[s].world.tracer \in Unfaithful
  \/ study[s].wanted = "proved" /\ study[s].calls = 0
  \/ overlapped

(* So a step of a study preserves the invariant if it does for that study. *)
LEMMA OneStep ==
  ASSUME IInv, NEW s \in Studies, Working(s), study'[s] \in Memories,
         study' = [study EXCEPT ![s] = study'[s]], Calm,
         FilesTyped',
         files["certificate"] # Absent \/ study'[s].at = "prove" =>
           files'["certificate"] # Absent,
         study'[s].at \in PastSolve =>
           /\ study'[s].answer \in Answers(study'[s].world)
           /\ study'[s].sweep = Of(study'[s].world),
         Alone(s) => Wrote(s)',
         ~overlapped => NamesInputs(s)',
         s \notin disturbed => Steady(s)',
         ~overlapped => Honest',
         s \notin disturbed /\ study'[s].at = "raised" => Justified(s)'
  PROVE  IInv'
<1>1. UNCHANGED <<world, disturbed, overlapped, started, changes, kills>>
  BY DEF Calm
<1>2. /\ study' \in [Studies -> Memories \cup {NoOne}]
      /\ Company'
      /\ \A r \in Studies \ {s} :
           /\ study'[r] = study[r] /\ r \in disturbed
           /\ ~Alone(r)' /\ (Working(r)' => overlapped)
      /\ Alone(s)' => Alone(s)
  BY <1>1, StepFrame
<1>3. Types'
  <2>1. world' \in Worlds /\ disturbed' \subseteq Studies
        /\ overlapped' \in BOOLEAN /\ changes' \in Nat
    BY <1>1 DEF IInv, Types
  <2>2. \A r \in Studies : study'[r].at \in PastSolve =>
          /\ study'[r].answer \in Answers(study'[r].world)
          /\ study'[r].sweep = Of(study'[r].world)
    BY <1>2 DEF IInv, Types, StudiesTyped
  <2>3. \A r \in Studies : study'[r].at = "prove" => files'["certificate"] # Absent
    BY <1>2 DEF IInv, Types, StudiesTyped, At
  <2>4. StudiesTyped'
    BY <1>2, <2>2, <2>3 DEF StudiesTyped, At
  <2> QED
    BY <2>1, <2>4 DEF Types
<1>4. \A r \in Studies : Alone(r)' => Wrote(r)'
  BY <1>2
<1>5. \A r \in Studies : ~overlapped' /\ Working(r)' => NamesInputs(r)'
  BY <1>1, <1>2
<1>6. \A r \in Studies : r \notin disturbed' => Steady(r)'
  BY <1>1, <1>2
<1>7. FailuresAreJustified'
  BY <1>1, <1>2 DEF FailuresAreJustified, At, Justified
<1> QED
  BY <1>1, <1>2, <1>3, <1>4, <1>5, <1>6, <1>7 DEF IInv
(* A study that is over is forgotten, and may leave files torn.            *)
LEMMA GoneInvariant ==
  ASSUME IInv, NEW s \in Studies, Working(s), Over(s),
         UNCHANGED <<world, disturbed, overlapped, changes>>,
         files' = [f \in Artifacts \cup {"certificate"} |-> files'[f]],
         \A f \in Artifacts \cup {"certificate"} : files'[f] = files[f] \/ files'[f] = Torn
  PROVE  IInv'
<1>1. /\ Working(s) /\ study' = [study EXCEPT ![s] = NoOne]
      /\ UNCHANGED <<world, disturbed, overlapped, changes>>
  BY DEF Over
<1>2. /\ files' = [f \in Artifacts \cup {"certificate"} |-> files'[f]]
      /\ \A f \in Artifacts \cup {"certificate"} : files'[f] = files[f] \/ files'[f] = Torn
  OBVIOUS
<1>3. /\ study' \in [Studies -> Memories \cup {NoOne}] /\ study'[s] = NoOne
      /\ \A r \in Studies \ {s} : study'[r] = study[r]
  BY <1>1 DEF IInv, Types, StudiesTyped
<1>4. /\ ~Working(s)' /\ NoOne.at = "idle"
      /\ \A r \in Studies \ {s} : Working(r)' <=> Working(r)
  BY <1>3 DEF Working, NoOne
<1>5. \A r \in Studies \ {s} : r \in disturbed /\ (Working(r) => overlapped)
  BY <1>1 DEF IInv, Company
<1>6. FilesTyped'
  <2>1. IsPatch(files'["baseline"]) /\ IsPatch(files'["default"])
    BY <1>2 DEF IInv, Types, FilesTyped, IsPatch, Artifacts
  <2>2. IsTrace(files'["trace"])
    BY <1>2 DEF IInv, Types, FilesTyped, IsTrace, Artifacts
  <2>3. \A f \in {"patch", "table", "parse"} : IsResult(files'[f])
    BY <1>2 DEF IInv, Types, FilesTyped, IsResult, Artifacts
  <2>4. IsCertificate(files'["certificate"])
    BY <1>2 DEF IInv, Types, FilesTyped, IsCertificate
  <2> QED
    BY <1>1, <1>2, <2>1, <2>2, <2>3, <2>4 DEF FilesTyped, IsPatch
<1>7. files'["certificate"] \in {files["certificate"], Torn}
  BY <1>2
<1>8. Types'
  BY <1>1, <1>3, <1>4, <1>6, <1>7
  DEF IInv, Types, StudiesTyped, At, Absent, Torn, PastTrace, PastDocument,
      PastDefault, PastSolve, PastPatch, PastTable, PastParse, PastCertificate, PastProof
<1>9. Company'
  BY <1>1, <1>4 DEF IInv, Company
<1>10. \A r \in Studies \ {s} : ~Alone(r)'
  BY <1>1, <1>4, <1>5 DEF Alone
<1>11. Wrote(s)' /\ Steady(s)'
  BY <1>3, <1>4 DEF Wrote, Steady, PastTrace, PastDocument,
     PastDefault, PastSolve, PastPatch, PastTable, PastParse, PastCertificate, PastProof
<1>12. ~overlapped' => Honest'
  BY <1>1, <1>7 DEF IInv, Honest, Torn
<1>13. FailuresAreJustified'
  BY <1>1, <1>3, <1>4, <1>5 DEF FailuresAreJustified, At
<1> QED
  BY <1>1, <1>4, <1>5, <1>8, <1>9, <1>10, <1>11, <1>12, <1>13 DEF IInv

(* One that xdelta, a solver or the decoder fails leaves the files alone.  *)
LEMMA FailInvariant ==
  ASSUME IInv, NEW s \in Studies, Working(s), Fail(s), Calm
  PROVE  IInv'
<1>1. files' = files /\ Over(s) /\ UNCHANGED <<world, disturbed, overlapped, changes>>
  BY DEF Fail, Calm
<1>2. files = [f \in Artifacts \cup {"certificate"} |-> files[f]]
  BY DEF IInv, Types, FilesTyped
<1>3. /\ files' = [f \in Artifacts \cup {"certificate"} |-> files'[f]]
      /\ \A f \in Artifacts \cup {"certificate"} : files'[f] = files[f]
  BY <1>1, <1>2
<1> QED
  BY <1>1, <1>3, GoneInvariant
-----------------------------------------------------------------------------
(* The stock patch is one of the world that the study has seen.            *)
LEMMA TraceInvariant ==
  ASSUME IInv, NEW s \in Studies, Trace(s)
  PROVE  IInv'
<1> DEFINE m == [study[s] EXCEPT !.at = "document", !.world = world]
           Succeeds == /\ study' = [study EXCEPT ![s].at = "document", ![s].world = world]
                       /\ Write("baseline", Of(world))
<1>1. /\ Working(s) /\ Calm
      /\ study[s] \in Memories /\ study \in [Studies -> Memories \cup {NoOne}]
  BY DEF Trace, At, IInv, Types, StudiesTyped, Working, NoOne
<1>2. CASE Succeeds
  <2>1. m \in Memories /\ m.at = "document" /\ m.world = world
    BY <1>1 DEF Memories, Labels, IInv, Types
  <2>2. study' = [study EXCEPT ![s] = m] /\ study'[s] = m
    BY <1>1, <1>2
  <2> HIDE DEF m
  <2>3. /\ files'["baseline"] = Of(world)
        /\ \A f \in (Artifacts \cup {"certificate"}) \ {"baseline"} : files'[f] = files[f]
        /\ files' = [f \in Artifacts \cup {"certificate"} |-> files'[f]]
    BY <1>2, WriteFrame DEF IInv, Types, Artifacts
  <2>4. Calm
    BY <1>1
  <2>5. FilesTyped'
    BY <2>3, <2>4 DEF IInv, Types, FilesTyped, Artifacts, IsPatch
  <2>6. files'["certificate"] = files["certificate"]
    BY <2>3 DEF Artifacts
  <2>7. Wrote(s)' /\ NamesInputs(s)' /\ Steady(s)'
    BY <2>1, <2>2, <2>3, <2>4 DEF Wrote, NamesInputs, Steady, Calm, PastTrace,
       PastDocument, PastDefault, PastSolve, PastPatch, PastTable, PastParse,
       PastCertificate, PastProof
  <2>8. ~overlapped => Honest'
    BY <2>4, <2>6 DEF IInv, Honest, Calm
  <2> QED
    BY <1>1, <2>1, <2>2, <2>4, <2>5, <2>6, <2>7, <2>8, OneStep DEF PastSolve,
       PastPatch, PastTable, PastParse, PastCertificate, PastProof
<1>3. CASE Fail(s)
  BY <1>1, <1>3, FailInvariant
<1>4. CASE Over(s) /\ Write("baseline", Torn)
  <2>1. /\ files'["baseline"] = Torn
        /\ \A f \in (Artifacts \cup {"certificate"}) \ {"baseline"} : files'[f] = files[f]
        /\ files' = [f \in Artifacts \cup {"certificate"} |-> files'[f]]
    BY <1>4, WriteFrame DEF IInv, Types, Artifacts
  <2> QED
    BY <1>1, <1>4, <2>1, GoneInvariant DEF Calm
<1> QED
  BY <1>2, <1>3, <1>4 DEF Trace

(* trace.json: the inputs that it hashes are those of now (trace.py:120).  *)
LEMMA WriteTraceInvariant ==
  ASSUME IInv, NEW s \in Studies, WriteTrace(s)
  PROVE  IInv'
<1> DEFINE content == TraceOf(study[s].world, world.inputs, files["baseline"])
<1>1. Working(s) /\ study[s].at = "document" /\ Calm
  BY DEF WriteTrace, At, Working
<1>2. CASE Write("trace", content) /\ Goto(s, "default")
  <2>1. Working(s) /\ study[s].at = "document" /\ Goto(s, "default") /\ Calm
    BY <1>1, <1>2
  <2>2. GoesOn(s, "default")
    BY <2>1, GotoFrame DEF Labels
  <2> USE DEF GoesOn
  <2>3. /\ files'["trace"] = content
        /\ \A f \in (Artifacts \cup {"certificate"}) \ {"trace"} : files'[f] = files[f]
        /\ files' = [f \in Artifacts \cup {"certificate"} |-> files'[f]]
    BY <1>2, WriteFrame DEF IInv, Types, Artifacts
  <2>4. IsTrace(content) /\ content.inputs = world.inputs
    BY DEF IsTrace, TraceOf
  <2>5. FilesTyped'
    BY <2>3, <2>4 DEF IInv, Types, FilesTyped, Artifacts
  <2>6. files'["certificate"] = files["certificate"]
    BY <2>3 DEF Artifacts
  <2>7. Alone(s) => Wrote(s)'
    BY <2>1, <2>2, <2>3, <2>4 DEF IInv, Wrote, Artifacts, PastTrace, PastDocument,
       PastDefault, PastSolve, PastPatch, PastTable, PastParse, PastCertificate, PastProof
  <2>8. ~overlapped => NamesInputs(s)'
    BY <2>1, <2>2, <2>3, <2>4 DEF IInv, Types, NamesInputs, Calm, PastDefault,
       PastSolve, PastPatch, PastTable, PastParse, PastCertificate, PastProof
  <2>9. s \notin disturbed => Steady(s)'
    BY <2>1, <2>2, <2>3, <2>4 DEF IInv, Steady, Calm, PastTrace, PastDocument
  <2>10. ~overlapped => Honest'
    BY <2>1, <2>6 DEF IInv, Honest, Calm
  <2> QED
    BY <2>1, <2>2, <2>5, <2>6, <2>7, <2>8, <2>9, <2>10, OneStep DEF PastSolve,
       PastPatch, PastTable, PastParse, PastCertificate, PastProof
<1>3. CASE Fail(s)
  BY <1>1, <1>3, FailInvariant
<1> QED
  BY <1>2, <1>3 DEF WriteTrace

(* A study that gives up changes no file.                                  *)
LEMMA RaiseInvariant ==
  ASSUME IInv, NEW s \in Studies, Working(s), Raise(s), Calm,
         s \notin disturbed => Justified(s)
  PROVE  IInv'
<1>1. GoesOn(s, "raised")
  BY GotoFrame DEF Raise, Labels
<1> USE DEF GoesOn
<1>2. files' = files
  BY DEF Raise
<1>3. FilesTyped'
  BY <1>2 DEF IInv, Types, FilesTyped, IsPatch, IsTrace, IsResult, IsCertificate
<1>4. Wrote(s)' /\ NamesInputs(s)' /\ Steady(s)'
  BY <1>1, <1>2 DEF Wrote, NamesInputs, Steady, PastTrace, PastDocument, PastDefault,
     PastSolve, PastPatch, PastTable, PastParse, PastCertificate, PastProof
<1>5. ~overlapped => Honest'
  BY <1>2 DEF IInv, Honest, Calm
<1>6. s \notin disturbed => Justified(s)'
  BY <1>1, <1>2 DEF Justified, Calm
<1> QED
  BY <1>1, <1>2, <1>3, <1>4, <1>5, <1>6, OneStep DEF PastSolve,
     PastPatch, PastTable, PastParse, PastCertificate, PastProof

(* Under a study that is alone, the trace reproduces the stock patch.      *)
LEMMA WriteDefaultInvariant ==
  ASSUME IInv, NEW s \in Studies, WriteDefault(s)
  PROVE  IInv'
<1> DEFINE w == study[s].world
<1>1. Working(s) /\ study[s].at = "default" /\ Calm
  BY DEF WriteDefault, At, Working
<1>2. CASE ~(/\ w.inputs = world.inputs /\ w.tracer \notin Unfaithful
             /\ files["baseline"] = Of(w))
  <2>1. Raise(s)
    BY <1>2 DEF WriteDefault
  <2>2. s \notin disturbed => w = world /\ files["baseline"] = Of(w)
    BY <1>1 DEF IInv, Alone, Wrote, Steady, PastTrace, PastDocument
  <2> QED
    BY <1>1, <1>2, <2>1, <2>2, RaiseInvariant DEF Justified
<1>3. CASE /\ w.inputs = world.inputs /\ w.tracer \notin Unfaithful
           /\ files["baseline"] = Of(w)
  <2>0. Write("default", Of(w)) /\ Goto(s, "previous")
    BY <1>3 DEF WriteDefault
  <2>1. GoesOn(s, "previous")
    BY <1>1, <2>0, GotoFrame DEF Labels
  <2> USE DEF GoesOn
  <2>2. /\ files'["default"] = Of(w)
        /\ \A f \in (Artifacts \cup {"certificate"}) \ {"default"} : files'[f] = files[f]
        /\ files' = [f \in Artifacts \cup {"certificate"} |-> files'[f]]
    BY <2>0, WriteFrame DEF IInv, Types, Artifacts
  <2>3. w \in Worlds
    BY <2>1 DEF Memories
  <2>4. FilesTyped'
    BY <2>2, <2>3 DEF IInv, Types, FilesTyped, Artifacts, IsPatch
  <2>5. files'["certificate"] = files["certificate"]
    BY <2>2 DEF Artifacts
  <2>6. Alone(s) => Wrote(s)'
    BY <1>1, <2>1, <2>2 DEF IInv, Wrote, Artifacts, PastTrace, PastDocument,
     PastDefault, PastSolve, PastPatch, PastTable, PastParse, PastCertificate, PastProof
  <2>7. ~overlapped => NamesInputs(s)'
    BY <1>1, <1>3, <2>1, <2>2 DEF IInv, Types, NamesInputs, Calm, Artifacts, Working
  <2>8. s \notin disturbed => Steady(s)'
    BY <1>1, <2>1, <2>2 DEF IInv, Steady, Calm, Artifacts, PastTrace, PastDocument,
     PastDefault, PastSolve, PastPatch, PastTable, PastParse, PastCertificate, PastProof
  <2>9. ~overlapped => Honest'
    BY <1>1, <2>5 DEF IInv, Honest, Calm
  <2> QED
    BY <1>1, <2>1, <2>4, <2>5, <2>6, <2>7, <2>8, <2>9, OneStep DEF PastSolve,
       PastPatch, PastTable, PastParse, PastCertificate, PastProof
<1> QED
  BY <1>2, <1>3

(* A sweep that is taken over replays on the trace of this study, so it is *)
(* its own; an undisturbed study refuses none, since a certificate that    *)
(* hashes its trace is of its world (study.py:281-313).                    *)
LEMMA SolveInvariant ==
  ASSUME IInv, NEW s \in Studies, Solve(s)
  PROVE  IInv'
<1> DEFINE w == study[s].world
           c == files["certificate"]
<1>0. Working(s) /\ study[s].at = "previous" /\ Calm
  BY DEF Solve, At, Working
<1>1. Working(s) /\ study[s].at = "previous" /\ Calm /\ study[s] \in Memories
  BY <1>0 DEF Working, IInv, Types, StudiesTyped, NoOne
<1>2. CASE c = Torn \/ (Compatible(s) /\ ~Replays(s, c.sweep))
  <2>1. Compatible(s) /\ s \notin disturbed /\ ~overlapped => Replays(s, c.sweep)
    <3> SUFFICES ASSUME Compatible(s), s \notin disturbed, ~overlapped
                 PROVE  c.sweep = Of(w)
      BY DEF Replays
    <3>1. c.is = "whole" /\ c.trace = files["trace"]
      BY DEF Compatible
    <3>2. PICK v \in Worlds : c.default = Of(v) /\ c.sweep = Of(v)
      BY <3>1 DEF IInv, Types, FilesTyped, IsCertificate, Absent, Torn
    <3>3. c.trace = TraceOf(v, c.trace.inputs, Of(v))
      BY <3>1, <3>2 DEF IInv, Honest, Of
    <3>4. files["trace"] = TraceOf(w, files["trace"].inputs, Of(w))
      BY <1>1 DEF IInv, Alone, Wrote, PastDocument, PastDefault
    <3> QED
      BY <3>1, <3>2, <3>3, <3>4 DEF TraceOf
  <2>2. Raise(s)
    BY <1>2 DEF Solve
  <2> QED
    BY <1>1, <1>2, <2>1, <2>2, RaiseInvariant DEF Justified
<1>3. ASSUME NEW answer \in Answers(w), NEW sweep, NEW calls \in {0, 1, 2},
             sweep = IF Compatible(s) THEN c.sweep ELSE Of(w),
             ~(Compatible(s) /\ ~Replays(s, c.sweep)),
             study' = [study EXCEPT ![s] =
               [@ EXCEPT !.at = "patch", !.answer = answer, !.sweep = sweep,
                         !.calls = calls]],
             UNCHANGED files
      PROVE  IInv'
  <2>1. sweep = Of(w) /\ w \in Worlds /\ answer \in {"none", "default", "custom"}
    BY <1>1, <1>3 DEF Replays, Memories, Answers
  <2> DEFINE m == [study[s] EXCEPT !.at = "patch", !.answer = answer,
                                   !.sweep = sweep, !.calls = calls]
  <2>2. /\ m \in Memories /\ m.at = "patch" /\ m.world = w /\ m.answer = answer
        /\ m.sweep = sweep
    BY <1>1, <2>1 DEF Memories, Labels, Sweeps
  <2>3. study' = [study EXCEPT ![s] = m] /\ study'[s] = m
    BY <1>3 DEF IInv, Types, StudiesTyped
  <2> HIDE DEF m
  <2>4. FilesTyped'
    BY <1>3 DEF IInv, Types, FilesTyped, IsPatch, IsTrace, IsResult, IsCertificate
  <2>5. Alone(s) => Wrote(s)'
    BY <1>1, <1>3, <2>2, <2>3 DEF IInv, Wrote, PastTrace, PastDocument,
     PastDefault, PastSolve, PastPatch, PastTable, PastParse, PastCertificate, PastProof
  <2>6. ~overlapped => NamesInputs(s)'
    BY <1>1, <1>3, <2>2, <2>3 DEF IInv, NamesInputs, Calm, Working, PastTrace, PastDocument,
     PastDefault, PastSolve, PastPatch, PastTable, PastParse, PastCertificate, PastProof
  <2>7. s \notin disturbed => Steady(s)'
    BY <1>1, <1>3, <2>2, <2>3 DEF IInv, Steady, Calm, PastTrace, PastDocument,
     PastDefault, PastSolve, PastPatch, PastTable, PastParse, PastCertificate, PastProof
  <2>8. ~overlapped => Honest'
    BY <1>1, <1>3 DEF IInv, Honest, Calm
  <2> QED
    BY <1>1, <1>3, <2>1, <2>2, <2>3, <2>4, <2>5, <2>6, <2>7, <2>8, OneStep
<1>4. CASE ~(c = Torn \/ (Compatible(s) /\ ~Replays(s, c.sweep))) /\ ~Fail(s)
  <2>1. /\ \E answer \in Answers(w) :
             study' = [study EXCEPT ![s] =
               [@ EXCEPT !.at = "patch", !.answer = answer,
                         !.sweep = IF Compatible(s) THEN c.sweep ELSE Of(w),
                         !.calls = Calls(s)]]
        /\ UNCHANGED files
    BY <1>4 DEF Solve
  <2>2. Calls(s) \in {0, 1, 2}
    BY DEF Calls
  <2> QED
    BY <1>3, <1>4, <2>1, <2>2
<1>5. CASE Fail(s)
  BY <1>1, <1>5, FailInvariant
<1> QED
  BY <1>2, <1>4, <1>5

(* The three artifacts of an answer (study.py:398-420).                    *)
LEMMA WritePatchInvariant ==
  ASSUME IInv, NEW s \in Studies, WritePatch(s)
  PROVE  IInv'
<1>1. Working(s) /\ study[s].at = "patch" /\ Goto(s, "table") /\ Calm
  BY DEF WritePatch, At, Working
<1>2. GoesOn(s, "table")
  BY <1>1, GotoFrame DEF Labels
<1> USE DEF GoesOn
<1>3. /\ files'["patch"] = Result(s)
      /\ \A f \in (Artifacts \cup {"certificate"}) \ {"patch"} : files'[f] = files[f]
      /\ files' = [f \in Artifacts \cup {"certificate"} |-> files'[f]]
  BY WriteFrame DEF WritePatch, IInv, Types, Artifacts
<1>4. /\ study[s].world \in Worlds /\ study[s].answer \in Answers(study[s].world)
      /\ study[s].sweep = Of(study[s].world)
  BY <1>1, <1>2 DEF Memories, IInv, Types, StudiesTyped, PastSolve
<1>5. FilesTyped'
  <2>1. IsResult(Result(s))
    BY <1>4 DEF IsResult, Result, Solved
  <2> QED
    BY <1>3, <2>1 DEF IInv, Types, FilesTyped, Artifacts
<1>6. files'["certificate"] = files["certificate"]
  BY <1>3 DEF Artifacts
<1>7. Alone(s) => Wrote(s)'
  BY <1>1, <1>2, <1>3 DEF IInv, Wrote, Result, Artifacts, PastTrace, PastDocument,
     PastDefault, PastSolve, PastPatch, PastTable, PastParse, PastCertificate, PastProof
<1>8. ~overlapped => NamesInputs(s)'
  BY <1>1, <1>2, <1>3 DEF IInv, NamesInputs, Calm, Artifacts, PastTrace, PastDocument,
     PastDefault, PastSolve, PastPatch, PastTable, PastParse, PastCertificate, PastProof
<1>9. s \notin disturbed => Steady(s)'
  BY <1>1, <1>2, <1>3 DEF IInv, Steady, Calm, Artifacts, PastTrace, PastDocument,
     PastDefault, PastSolve, PastPatch, PastTable, PastParse, PastCertificate, PastProof
<1>10. ~overlapped => Honest'
  BY <1>1, <1>6 DEF IInv, Honest, Calm
<1> QED
  BY <1>1, <1>2, <1>4, <1>5, <1>6, <1>7, <1>8, <1>9, <1>10, OneStep

(* The table is written.                                                   *)
LEMMA WriteTableInvariant ==
  ASSUME IInv, NEW s \in Studies, WriteTable(s)
  PROVE  IInv'
<1> DEFINE content == TableOf(study[s].world, study[s].answer)
<1>1. Working(s) /\ study[s].at = "table" /\ Goto(s, "parse") /\ Calm
  BY DEF WriteTable, At, Working
<1>2. GoesOn(s, "parse")
  BY <1>1, GotoFrame DEF Labels
<1> USE DEF GoesOn
<1>3. /\ files'["table"] = content
      /\ \A f \in (Artifacts \cup {"certificate"}) \ {"table"} : files'[f] = files[f]
      /\ files' = [f \in Artifacts \cup {"certificate"} |-> files'[f]]
  BY WriteFrame DEF WriteTable, IInv, Types, Artifacts, TableOf, Result
<1>4. /\ study[s].world \in Worlds /\ study[s].answer \in Answers(study[s].world)
      /\ study[s].sweep = Of(study[s].world)
  BY <1>1, <1>2 DEF Memories, IInv, Types, StudiesTyped, PastSolve, PastPatch
<1>5. FilesTyped'
  <2>1. IsResult(content)
    BY <1>4 DEF IsResult, TableOf, Solved
  <2> QED
    BY <1>3, <2>1 DEF IInv, Types, FilesTyped, Artifacts
<1>6. files'["certificate"] = files["certificate"]
  BY <1>3 DEF Artifacts
<1>7. Alone(s) => Wrote(s)'
  BY <1>1, <1>2, <1>3 DEF IInv, Wrote, Artifacts, PastTrace, PastDocument,
     PastDefault, PastSolve, PastPatch, PastTable, PastParse, PastCertificate, PastProof
<1>8. ~overlapped => NamesInputs(s)'
  BY <1>1, <1>2, <1>3 DEF IInv, NamesInputs, Calm, Artifacts, PastTrace, PastDocument,
     PastDefault, PastSolve, PastPatch, PastTable, PastParse, PastCertificate, PastProof
<1>9. s \notin disturbed => Steady(s)'
  BY <1>1, <1>2, <1>3 DEF IInv, Steady, Calm, Artifacts, PastTrace, PastDocument,
     PastDefault, PastSolve, PastPatch, PastTable, PastParse, PastCertificate, PastProof
<1>10. ~overlapped => Honest'
  BY <1>1, <1>6 DEF IInv, Honest, Calm
<1> QED
  BY <1>1, <1>2, <1>4, <1>5, <1>6, <1>7, <1>8, <1>9, <1>10, OneStep

(* The parse is written.                                                   *)
LEMMA WriteParseInvariant ==
  ASSUME IInv, NEW s \in Studies, WriteParse(s)
  PROVE  IInv'
<1>1. Working(s) /\ study[s].at = "parse" /\ Goto(s, "decode") /\ Calm
  BY DEF WriteParse, At, Working
<1>2. GoesOn(s, "decode")
  BY <1>1, GotoFrame DEF Labels
<1> USE DEF GoesOn
<1>3. /\ files'["parse"] = Result(s)
      /\ \A f \in (Artifacts \cup {"certificate"}) \ {"parse"} : files'[f] = files[f]
      /\ files' = [f \in Artifacts \cup {"certificate"} |-> files'[f]]
  BY WriteFrame DEF WriteParse, IInv, Types, Artifacts
<1>4. /\ study[s].world \in Worlds /\ study[s].answer \in Answers(study[s].world)
      /\ study[s].sweep = Of(study[s].world)
  BY <1>1, <1>2 DEF Memories, IInv, Types, StudiesTyped, PastSolve, PastPatch, PastTable
<1>5. FilesTyped'
  <2>1. IsResult(Result(s))
    BY <1>4 DEF IsResult, Result, Solved
  <2> QED
    BY <1>3, <2>1 DEF IInv, Types, FilesTyped, Artifacts
<1>6. files'["certificate"] = files["certificate"]
  BY <1>3 DEF Artifacts
<1>7. Alone(s) => Wrote(s)'
  BY <1>1, <1>2, <1>3 DEF IInv, Wrote, Result, Artifacts, PastTrace, PastDocument,
     PastDefault, PastSolve, PastPatch, PastTable, PastParse, PastCertificate, PastProof
<1>8. ~overlapped => NamesInputs(s)'
  BY <1>1, <1>2, <1>3 DEF IInv, NamesInputs, Calm, Artifacts, PastTrace, PastDocument,
     PastDefault, PastSolve, PastPatch, PastTable, PastParse, PastCertificate, PastProof
<1>9. s \notin disturbed => Steady(s)'
  BY <1>1, <1>2, <1>3 DEF IInv, Steady, Calm, Artifacts, PastTrace, PastDocument,
     PastDefault, PastSolve, PastPatch, PastTable, PastParse, PastCertificate, PastProof
<1>10. ~overlapped => Honest'
  BY <1>1, <1>6 DEF IInv, Honest, Calm
<1> QED
  BY <1>1, <1>2, <1>4, <1>5, <1>6, <1>7, <1>8, <1>9, <1>10, OneStep

(* The decoder never refuses the patch of an undisturbed study             *)
(* (study.py:423-436).                                                     *)
LEMMA DecodeInvariant ==
  ASSUME IInv, NEW s \in Studies, Decode(s)
  PROVE  IInv'
<1>1. Working(s) /\ study[s].at = "decode" /\ Calm
  BY DEF Decode, At, Working
<1>2. CASE /\ ~(files["patch"].is = "whole" /\ files["patch"].world.inputs = world.inputs)
           /\ ~Fail(s)
  <2>1. Raise(s)
    BY <1>2 DEF Decode
  <2>2. ASSUME s \notin disturbed PROVE FALSE
    <3>1. study[s].world = world
      BY <1>1, <2>2 DEF IInv, Steady, PastTrace, PastDocument,
     PastDefault, PastSolve, PastPatch, PastTable, PastParse, PastCertificate, PastProof
    <3>2. files["patch"] = Solved(world, study[s].answer)
      BY <1>1, <2>2, <3>1 DEF IInv, Alone, Wrote, PastTrace, PastDocument,
     PastDefault, PastSolve, PastPatch, PastTable, PastParse, PastCertificate, PastProof
    <3> QED
      BY <1>2, <3>2 DEF Solved
  <2> QED
    BY <1>1, <2>1, <2>2, RaiseInvariant
<1>3. CASE /\ files["patch"].is = "whole" /\ files["patch"].world.inputs = world.inputs
           /\ ~Fail(s)
  <2>1. Goto(s, "certificate") /\ files' = files
    BY <1>3 DEF Decode
  <2>2. GoesOn(s, "certificate")
    BY <1>1, <2>1, GotoFrame DEF Labels
  <2> USE DEF GoesOn
  <2>3. FilesTyped'
    BY <2>1 DEF IInv, Types, FilesTyped, IsPatch, IsTrace, IsResult, IsCertificate
  <2>4. /\ study[s].answer \in Answers(study[s].world)
        /\ study[s].sweep = Of(study[s].world)
    BY <1>1, <2>2 DEF IInv, Types, StudiesTyped, PastSolve, PastPatch, PastTable, PastParse
  <2>5. Alone(s) => Wrote(s)'
    BY <1>1, <2>1, <2>2 DEF IInv, Wrote, Artifacts, PastTrace, PastDocument,
     PastDefault, PastSolve, PastPatch, PastTable, PastParse, PastCertificate, PastProof
  <2>6. ~overlapped => NamesInputs(s)'
    BY <1>1, <2>1, <2>2 DEF IInv, NamesInputs, Calm, PastTrace, PastDocument,
     PastDefault, PastSolve, PastPatch, PastTable, PastParse, PastCertificate, PastProof
  <2>7. s \notin disturbed => Steady(s)'
    BY <1>1, <2>1, <2>2 DEF IInv, Steady, Calm, PastTrace, PastDocument,
     PastDefault, PastSolve, PastPatch, PastTable, PastParse, PastCertificate, PastProof
  <2>8. ~overlapped => Honest'
    BY <1>1, <2>1 DEF IInv, Honest, Calm
  <2> QED
    BY <1>1, <2>1, <2>2, <2>3, <2>4, <2>5, <2>6, <2>7, <2>8, OneStep
<1>4. CASE Fail(s)
  BY <1>1, <1>4, FailInvariant
<1> QED
  BY <1>2, <1>3, <1>4

(* The certificate takes its default patch, its sweep and its answer from  *)
(* the memory of the study, the hashes of the rest from the disk, where a  *)
(* study that is alone finds what it has written (study.py:490-537).       *)
LEMMA WriteCertificateInvariant ==
  ASSUME IInv, NEW s \in Studies, WriteCertificate(s)
  PROVE  IInv'
<1> DEFINE w == study[s].world
           answer == study[s].answer
           c == Certificate(s)
<1>1. Working(s) /\ study[s].at = "certificate" /\ Calm /\ study[s] \in Memories
  <2>1. Working(s) /\ study[s].at = "certificate" /\ Calm
    BY DEF WriteCertificate, At, Working
  <2> QED
    BY <2>1 DEF Working, IInv, Types, StudiesTyped, NoOne
<1>2. w \in Worlds /\ answer \in Answers(w) /\ study[s].sweep = Of(w)
  BY <1>1 DEF Memories, IInv, Types, StudiesTyped, PastSolve, PastPatch, PastTable,
     PastParse
<1>3. Alone(s) =>
        /\ files["baseline"] = Of(w) /\ files["default"] = Of(w)
        /\ files["trace"] = TraceOf(w, files["trace"].inputs, Of(w))
        /\ files["patch"] = Solved(w, answer) /\ files["parse"] = Solved(w, answer)
        /\ files["table"] = TableOf(w, answer)
  BY <1>1 DEF IInv, Wrote, PastTrace, PastDocument,
     PastDefault, PastSolve, PastPatch, PastTable, PastParse, PastCertificate, PastProof
<1>4. CASE answer # "default" /\ files["table"] = Absent
  <2>1. Raise(s)
    BY <1>4 DEF WriteCertificate
  <2>2. s \in disturbed
    BY <1>3, <1>4 DEF Alone, TableOf, Solved, Absent
  <2> QED
    BY <1>1, <2>1, <2>2, RaiseInvariant
<1>5. CASE ~(answer # "default" /\ files["table"] = Absent)
  <2> DEFINE l == IF study[s].wanted = "plain" THEN "done" ELSE "prove"
  <2>1. Write("certificate", c) /\ Goto(s, l)
    BY <1>5 DEF WriteCertificate
  <2>2. GoesOn(s, l)
    BY <1>1, <2>1, GotoFrame DEF Labels
  <2>3. /\ l \in PastCertificate /\ (l = "prove" => study[s].wanted = "proved")
        /\ l = "done" => study[s].wanted = "plain"
    BY <1>1 DEF Memories, PastCertificate, PastProof
  <2> HIDE DEF l
  <2> USE DEF GoesOn
  <2>4. /\ files'["certificate"] = c
        /\ \A f \in Artifacts : files'[f] = files[f]
        /\ files' = [f \in Artifacts \cup {"certificate"} |-> files'[f]]
    BY <2>1, WriteFrame DEF IInv, Types, Artifacts
  <2>5. /\ c.is = "whole" /\ c.format = "plain" /\ c.inputs = w.inputs
        /\ c.answer = answer /\ c.trace = files["trace"]
        /\ c.baseline = files["baseline"] /\ c.default = Of(w)
        /\ c.patch = Solved(w, answer) /\ c.parse = files["parse"]
        /\ c.table = (IF answer = "default" THEN Absent ELSE files["table"])
        /\ c.sweep = study[s].sweep
    BY DEF Certificate, Result
  <2>6. IsCertificate(c) /\ c # Absent
    <3>1. c = [field \in Fields |-> c[field]]
      BY DEF Certificate, Fields
    <3> HIDE DEF c
    <3> QED
      BY <3>1, <2>5, <1>2 DEF IsCertificate, Absent
  <2> HIDE DEF c
  <2>7. FilesTyped'
    BY <2>4, <2>6 DEF IInv, Types, FilesTyped, Artifacts, IsPatch
  <2>8. Alone(s) => Wrote(s)'
    <3> SUFFICES ASSUME Alone(s) PROVE Wrote(s)'
      OBVIOUS
    <3>1. \A f \in Artifacts : c[f] = files'[f]
      BY <1>3, <2>4, <2>5 DEF Artifacts, TableOf
    <3> QED
      BY <1>3, <2>2, <2>3, <2>4, <2>5, <3>1 DEF Wrote, Artifacts, PastProof, Memories
  <2>9. ~overlapped => NamesInputs(s)'
    BY <1>1, <2>2, <2>3, <2>4 DEF IInv, NamesInputs, Calm, Artifacts, PastTrace, PastDocument,
     PastDefault, PastSolve, PastPatch, PastTable, PastParse, PastCertificate, PastProof
  <2>10. s \notin disturbed => Steady(s)'
    BY <1>1, <2>2, <2>3, <2>4 DEF IInv, Steady, Calm, Artifacts, PastTrace, PastDocument,
     PastDefault, PastSolve, PastPatch, PastTable, PastParse, PastCertificate, PastProof
  <2>11. ~overlapped => Honest'
    <3> SUFFICES ASSUME ~overlapped PROVE Honest'
      OBVIOUS
    <3>1. changes < 2 => files["trace"].inputs = w.inputs
      BY <1>1 DEF IInv, NamesInputs, PastTrace, PastDocument,
     PastDefault, PastSolve, PastPatch, PastTable, PastParse, PastCertificate, PastProof
    <3>2. c.default.world = w
      BY <2>5 DEF Of
    <3> QED
      BY <1>1, <1>3, <2>4, <2>5, <3>1, <3>2 DEF Alone, Honest, Calm, TableOf
  <2>12. l \in PastSolve /\ l # "raised"
    BY <2>3 DEF PastTrace, PastDocument,
     PastDefault, PastSolve, PastPatch, PastTable, PastParse, PastCertificate, PastProof
  <2> QED
    BY <1>1, <1>2, <2>2, <2>4, <2>6, <2>7, <2>8, <2>9, <2>10, <2>11, <2>12, OneStep
<1> QED
  BY <1>4, <1>5

(* The proof changes the format and the calls, and nothing else            *)
(* (run_scip_study.py:131-171).                                            *)
LEMMA ProveInvariant ==
  ASSUME IInv, NEW s \in Studies, Prove(s)
  PROVE  IInv'
<1> DEFINE w == study[s].world
           old == files["certificate"]
           c == [old EXCEPT !.format = "proved", !.calls = study[s].calls]
<1>1. Working(s) /\ study[s].at = "prove" /\ Calm /\ study[s] \in Memories
  <2>1. Working(s) /\ study[s].at = "prove" /\ Calm
    BY DEF Prove, At, Working
  <2> QED
    BY <2>1 DEF Working, IInv, Types, StudiesTyped, NoOne
<1>2. CASE (old = Torn \/ study[s].calls = 0) /\ ~Fail(s)
  <2>1. Raise(s)
    BY <1>2 DEF Prove
  <2>2. s \notin disturbed => study[s].wanted = "proved"
    BY <1>1 DEF IInv, Alone, Wrote
  <2> QED
    BY <1>1, <1>2, <2>1, <2>2, RaiseInvariant DEF Justified
<1>3. CASE ~(old = Torn \/ study[s].calls = 0) /\ ~Fail(s)
  <2>1. Write("certificate", c) /\ Goto(s, "done")
    BY <1>3 DEF Prove
  <2>2. GoesOn(s, "done")
    BY <1>1, <2>1, GotoFrame DEF Labels
  <2> USE DEF GoesOn
  <2>3. /\ files'["certificate"] = c
        /\ \A f \in Artifacts : files'[f] = files[f]
        /\ files' = [f \in Artifacts \cup {"certificate"} |-> files'[f]]
    BY <2>1, WriteFrame DEF IInv, Types, Artifacts
  <2>4. old # Absent /\ IsCertificate(old)
    BY <1>1 DEF IInv, Types, StudiesTyped, FilesTyped, At
  <2>5. /\ old = [field \in Fields |-> old[field]] /\ old.is = "whole"
        /\ \E v \in Worlds :
             /\ old.default = Of(v) /\ old.sweep = Of(v)
             /\ old.inputs = v.inputs /\ old.answer \in Answers(v)
             /\ old.patch = Solved(v, old.answer)
    BY <1>3, <2>4 DEF IsCertificate
  <2> HIDE DEF old
  <2>6. /\ c = [field \in Fields |-> c[field]]
        /\ c.format = "proved" /\ c.calls = study[s].calls
        /\ \A field \in Fields \ {"format", "calls"} : c[field] = old[field]
    BY <2>5 DEF Fields
  <2> HIDE DEF c
  <2>7. /\ c.is = "whole" /\ c.format = "proved" /\ c.calls = study[s].calls
        /\ c.inputs = old.inputs /\ c.answer = old.answer /\ c.trace = old.trace
        /\ c.baseline = old.baseline /\ c.default = old.default
        /\ c.patch = old.patch /\ c.table = old.table /\ c.parse = old.parse
        /\ c.sweep = old.sweep
    BY <2>5, <2>6 DEF Fields
  <2>8. IsCertificate(c) /\ c # Absent
    BY <2>5, <2>6, <2>7 DEF IsCertificate, Absent
  <2>9. FilesTyped'
    BY <2>3, <2>8 DEF IInv, Types, FilesTyped, Artifacts, IsPatch
  <2>10. Alone(s) => Wrote(s)'
    <3> SUFFICES ASSUME Alone(s) PROVE Wrote(s)'
      OBVIOUS
    <3>1. Wrote(s)
      BY DEF IInv
    <3>2. \A f \in Artifacts : c[f] = old[f]
      BY <2>7 DEF Artifacts
    <3>3. \A f \in Artifacts : c[f] = files'[f]
      BY <1>1, <2>3, <3>1, <3>2 DEF Wrote, PastCertificate, old
    <3> QED
      BY <1>1, <2>2, <2>3, <2>7, <3>1, <3>3 DEF Wrote, Artifacts, old, PastTrace, PastDocument,
     PastDefault, PastSolve, PastPatch, PastTable, PastParse, PastCertificate, PastProof
  <2>11. ~overlapped => NamesInputs(s)'
    BY <1>1, <2>2, <2>3 DEF IInv, NamesInputs, Calm, Artifacts, PastTrace, PastDocument,
     PastDefault, PastSolve, PastPatch, PastTable, PastParse, PastCertificate, PastProof
  <2>12. s \notin disturbed => Steady(s)'
    BY <1>1, <2>2, <2>3 DEF IInv, Steady, Calm, Artifacts, PastTrace, PastDocument,
     PastDefault, PastSolve, PastPatch, PastTable, PastParse, PastCertificate, PastProof
  <2>13. ~overlapped => Honest'
    BY <1>1, <2>3, <2>5, <2>7 DEF IInv, Honest, Calm, old
  <2>14. /\ study[s].answer \in Answers(w) /\ study[s].sweep = Of(w)
    BY <1>1 DEF IInv, Types, StudiesTyped, PastTrace, PastDocument,
     PastDefault, PastSolve, PastPatch, PastTable, PastParse, PastCertificate, PastProof
  <2> QED
    BY <1>1, <2>2, <2>3, <2>8, <2>9, <2>10, <2>11, <2>12, <2>13, <2>14, OneStep
<1>4. CASE Fail(s)
  BY <1>1, <1>4, FailInvariant
<1> QED
  BY <1>2, <1>3, <1>4

(* A study that starts disturbs the others: all, and itself, if it finds   *)
(* one at work.                                                            *)
LEMMA StartInvariant ==
  ASSUME IInv, NEW s \in Studies, NEW wanted \in {"plain", "proved"}, Start(s, wanted)
  PROVE  IInv'
<1> DEFINE m == [at |-> "trace", wanted |-> wanted, world |-> world,
                 answer |-> "none", sweep |-> Absent, calls |-> 0]
           company == \E r \in Studies \ {s} : Working(r)
<1>1. /\ ~Working(s) /\ study' = [study EXCEPT ![s] = m]
      /\ disturbed' = (IF company THEN Studies ELSE Studies \ {s})
      /\ overlapped' = (overlapped \/ company)
      /\ world' = world /\ files' = files /\ changes' = changes
  BY DEF Start
<1>2. m \in Memories /\ m.at = "trace"
  BY DEF Memories, Labels, Sweeps, IInv, Types
<1> HIDE DEF m
<1>3. /\ study' \in [Studies -> Memories \cup {NoOne}] /\ study'[s] = m
      /\ \A r \in Studies \ {s} : study'[r] = study[r]
  BY <1>1, <1>2 DEF IInv, Types, StudiesTyped
<1>4. \A r \in Studies \ {s} : r \in disturbed' /\ (Working(r)' <=> Working(r))
  BY <1>1, <1>3 DEF Working
<1>5. Types'
  <2>1. FilesTyped'
    BY <1>1 DEF IInv, Types, FilesTyped, IsPatch, IsTrace, IsResult, IsCertificate
  <2>2. StudiesTyped'
    BY <1>1, <1>2, <1>3 DEF IInv, Types, StudiesTyped, At, PastTrace, PastDocument,
     PastDefault, PastSolve, PastPatch, PastTable, PastParse, PastCertificate, PastProof
  <2> QED
    BY <1>1, <2>1, <2>2 DEF IInv, Types
<1>6. Company'
  <2> SUFFICES ASSUME NEW r \in Studies, NEW v \in Studies, r # v, Working(r)'
               PROVE  v \in disturbed' /\ (Working(v)' => overlapped')
    BY DEF Company
  <2>1. CASE r = s
    BY <1>1, <1>4, <2>1
  <2>2. CASE r # s
    BY <1>1, <1>4, <2>2
  <2> QED
    BY <2>1, <2>2
<1>7. \A r \in Studies \ {s} : Alone(r)' => Alone(r) /\ Working(r) /\ ~company
  BY <1>1, <1>4 DEF Alone
<1>8. \A r \in Studies : Alone(r)' => Wrote(r)'
  <2>1. Wrote(s)'
    BY <1>2, <1>3 DEF Wrote, PastTrace, PastDocument,
     PastDefault, PastSolve, PastPatch, PastTable, PastParse, PastCertificate, PastProof
  <2> QED
    BY <1>7, <2>1
<1>9. \A r \in Studies : ~overlapped' /\ Working(r)' => NamesInputs(r)'
  <2>1. NamesInputs(s)'
    BY <1>2, <1>3 DEF NamesInputs, PastTrace, PastDocument,
     PastDefault, PastSolve, PastPatch, PastTable, PastParse, PastCertificate, PastProof
  <2> QED
    BY <1>1, <1>4, <2>1
<1>10. \A r \in Studies : r \notin disturbed' => Steady(r)'
  <2>1. Steady(s)'
    BY <1>2, <1>3 DEF Steady, PastTrace, PastDocument,
     PastDefault, PastSolve, PastPatch, PastTable, PastParse, PastCertificate, PastProof
  <2> QED
    BY <1>4, <2>1
<1>11. ~overlapped' => Honest'
  BY <1>1 DEF IInv, Honest
<1>12. FailuresAreJustified'
  BY <1>2, <1>3, <1>4 DEF FailuresAreJustified, At
<1> QED
  BY <1>5, <1>6, <1>8, <1>9, <1>10, <1>11, <1>12 DEF IInv

(* A killed study leaves the file that it was writing torn.                *)
LEMMA KillInvariant ==
  ASSUME IInv, NEW s \in Studies, NEW torn \in BOOLEAN, Kill(s, torn)
  PROVE  IInv'
<1> DEFINE Names == Artifacts \cup {"certificate"}
<1>1. PICK hit : files' = [f \in DOMAIN files |-> IF f \in hit THEN Torn ELSE files[f]]
  BY DEF Kill
<1>2. Working(s) /\ Over(s) /\ UNCHANGED <<world, disturbed, overlapped, changes>>
  BY DEF Kill
<1>3. /\ files' = [f \in Names |-> files'[f]]
      /\ \A f \in Names : files'[f] = files[f] \/ files'[f] = Torn
  <2>1. files = [f \in Names |-> files[f]]
    BY DEF IInv, Types, FilesTyped
  <2> HIDE DEF Names
  <2>2. files' = [f \in Names |-> IF f \in hit THEN Torn ELSE files[f]]
    BY <1>1, <2>1
  <2> QED
    BY <2>2
<1> QED
  BY <1>2, <1>3, GoneInvariant

(* A change disturbs every study.                                          *)
LEMMA ChangeInvariant ==
  ASSUME IInv, NEW w \in Worlds, Change(w)
  PROVE  IInv'
<1>1. /\ world' = w /\ changes' = changes + 1 /\ disturbed' = Studies
      /\ files' = files /\ study' = study /\ overlapped' = overlapped
  BY DEF Change
<1>2. changes \in Nat
  BY DEF IInv, Types
<1>3. \A r \in Studies : Working(r)' <=> Working(r)
  BY <1>1 DEF Working
<1>4. Types'
  <2>1. FilesTyped' /\ StudiesTyped'
    BY <1>1 DEF IInv, Types, FilesTyped, StudiesTyped, IsPatch, IsTrace, IsResult,
       IsCertificate, At
  <2> QED
    BY <1>1, <1>2, <2>1 DEF IInv, Types
<1>5. Company'
  BY <1>1, <1>3 DEF IInv, Company
<1>6. \A r \in Studies : Alone(r)' => Wrote(r)'
  BY <1>1, <1>3 DEF IInv, Alone, Wrote
<1>7. \A r \in Studies : ~overlapped' /\ Working(r)' => NamesInputs(r)'
  BY <1>1, <1>2, <1>3 DEF IInv, NamesInputs
<1>8. ~overlapped' => Honest'
  BY <1>1, <1>2 DEF IInv, Honest
<1>9. FailuresAreJustified'
  BY <1>1 DEF FailuresAreJustified
<1> QED
  BY <1>1, <1>4, <1>5, <1>6, <1>7, <1>8, <1>9 DEF IInv

(* The inductive invariant: every action preserves it (study.py:216-540).  *)
THEOREM Invariant == Spec => []IInv
<1>1. Init => IInv
  <2> SUFFICES ASSUME Init PROVE IInv
    OBVIOUS
  <2>1. \A f \in Artifacts \cup {"certificate"} : files[f] = Absent
    BY DEF Init
  <2>2. \A s \in Studies : study[s] = NoOne /\ study[s].at = "idle"
    BY DEF Init, NoOne
  <2>3. FilesTyped
    BY <2>1 DEF Init, FilesTyped, IsPatch, IsTrace, IsResult, IsCertificate, Artifacts
  <2>4. Types
    BY <2>2, <2>3 DEF Init, Types, StudiesTyped, At, PastTrace, PastDocument,
     PastDefault, PastSolve, PastPatch, PastTable, PastParse, PastCertificate, PastProof
  <2>5. Company
    BY <2>2 DEF Company, Working
  <2>6. \A s \in Studies : Wrote(s) /\ Steady(s) /\ NamesInputs(s)
    BY <2>2 DEF Wrote, Steady, NamesInputs, PastTrace, PastDocument,
     PastDefault, PastSolve, PastPatch, PastTable, PastParse, PastCertificate, PastProof
  <2>7. Honest
    BY <2>1 DEF Honest, Absent
  <2>8. FailuresAreJustified
    BY <2>2 DEF FailuresAreJustified, At
  <2> QED
    BY <2>4, <2>5, <2>6, <2>7, <2>8 DEF IInv
<1>2. IInv /\ [Next]_vars => IInv'
  <2> SUFFICES ASSUME IInv, [Next]_vars
               PROVE  IInv'
    OBVIOUS
  <2>1. ASSUME NEW s \in Studies, Step(s)
        PROVE  IInv'
    BY <2>1, TraceInvariant, WriteTraceInvariant, WriteDefaultInvariant, SolveInvariant,
       WritePatchInvariant, WriteTableInvariant, WriteParseInvariant, DecodeInvariant,
       WriteCertificateInvariant, ProveInvariant DEF Step
  <2>2. ASSUME NEW s \in Studies, NEW wanted \in {"plain", "proved"}, Start(s, wanted)
        PROVE  IInv'
    BY <2>2, StartInvariant
  <2>3. ASSUME NEW s \in Studies, NEW torn \in BOOLEAN, Kill(s, torn)
        PROVE  IInv'
    BY <2>3, KillInvariant
  <2>4. ASSUME NEW w \in Worlds, Change(w)
        PROVE  IInv'
    BY <2>4, ChangeInvariant
  <2>5. CASE UNCHANGED vars
    <3>1. Types'
      BY <2>5 DEF vars, IInv, Types, FilesTyped, StudiesTyped, IsPatch, IsTrace,
         IsResult, IsCertificate, At
    <3>2. Company' /\ FailuresAreJustified'
      BY <2>5 DEF vars, IInv, Company, Working, FailuresAreJustified, At
    <3>3. \A s \in Studies : Alone(s)' => Wrote(s)'
      BY <2>5 DEF vars, IInv, Alone, Wrote, Working
    <3>4. \A s \in Studies : ~overlapped' /\ Working(s)' => NamesInputs(s)'
      BY <2>5 DEF vars, IInv, NamesInputs, Working
    <3>5. \A s \in Studies : s \notin disturbed' => Steady(s)'
      BY <2>5 DEF vars, IInv, Steady
    <3>6. ~overlapped' => Honest'
      BY <2>5 DEF vars, IInv, Honest
    <3> QED
      BY <3>1, <3>2, <3>3, <3>4, <3>5, <3>6 DEF IInv
  <2> QED
    BY <2>1, <2>2, <2>3, <2>4, <2>5 DEF Next
<1> QED
  BY <1>1, <1>2, PTL DEF Spec
-----------------------------------------------------------------------------
(* Every variable keeps its type.                                          *)
THEOREM TypeCorrect == Spec => []TypeOK
<1>1. IInv => TypeOK
  <2> SUFFICES ASSUME IInv PROVE TypeOK
    OBVIOUS
  <2>1. \A f \in DOMAIN files : files[f].is \in Contents
    <3>1. DOMAIN files = Artifacts \cup {"certificate"}
      BY DEF IInv, Types, FilesTyped
    <3>2. files["baseline"].is \in Contents /\ files["default"].is \in Contents
      <4>1. ASSUME NEW x, IsPatch(x) PROVE x.is \in Contents
        BY <4>1 DEF IsPatch, Of, Absent, Torn, Contents
      <4> QED
        BY <4>1 DEF IInv, Types, FilesTyped
    <3>3. files["trace"].is \in Contents
      BY DEF IInv, Types, FilesTyped, IsTrace, TraceOf, Absent, Torn, Contents
    <3>4. \A f \in {"patch", "table", "parse"} : files[f].is \in Contents
      BY DEF IInv, Types, FilesTyped, IsResult, Solved, Absent, Torn, Contents
    <3>5. files["certificate"].is \in Contents
      BY DEF IInv, Types, FilesTyped, IsCertificate, Absent, Torn, Contents
    <3> QED
      BY <3>1, <3>2, <3>3, <3>4, <3>5 DEF Artifacts
  <2>2. \A f \in {"patch", "table", "parse"} :
          files[f].is = "whole" =>
            files[f].world \in Worlds /\ files[f].answer \in Answers(files[f].world)
    BY DEF IInv, Types, FilesTyped, IsResult, Absent, Torn
  <2>3. \A s \in Studies : study[s].at \in Labels
    BY DEF IInv, Types, StudiesTyped, Memories, NoOne, Labels
  <2> QED
    BY <2>1, <2>2, <2>3 DEF IInv, Types, TypeOK
<1> QED
  BY <1>1, Invariant, PTL

(* The sweep of a certificate belongs to its trace: an entry that was taken*)
(* over was encoded again on it (study.py:293-313).                        *)
THEOREM SweepBelongs == Spec => []SweepIsOfItsTrace
<1>1. IInv => SweepIsOfItsTrace
  BY DEF IInv, Types, FilesTyped, IsCertificate, Absent, Torn, SweepIsOfItsTrace
<1> QED
  BY <1>1, Invariant, PTL

(* What verify_certificate accepts is coherent, whatever overlapped, was   *)
(* killed or changed: the certificate's default patch ties the trace on    *)
(* disk to one world, and the replay ties the rest to the trace.           *)
THEOREM VerificationIsSound == Spec => []VerifiedIsCoherent
<1>1. IInv => VerifiedIsCoherent
  <2> DEFINE c == files["certificate"]
             t == files["trace"]
  <2> SUFFICES ASSUME IInv, Verifies PROVE CoherentFor(world.inputs)
    BY DEF VerifiedIsCoherent
  <2>1. /\ c.is = "whole" /\ c.inputs = world.inputs
        /\ files["default"] = c.default
    BY DEF Verifies, HashesAgree, Artifacts
  <2>2. PICK w \in Worlds : /\ c.default = Of(w) /\ c.inputs = w.inputs
                            /\ c.answer \in Answers(w)
    BY <2>1 DEF IInv, Types, FilesTyped, IsCertificate, Absent, Torn
  <2>3. t.world = w
    BY <2>1, <2>2 DEF Verifies, ReplayAgrees, Of
  <2>4. t = TraceOf(w, w.inputs, Of(w)) /\ files["baseline"] = Of(w)
    <3>1. /\ t.is = "whole" /\ t.inputs = c.inputs /\ t.baseline = c.baseline
          /\ Of(t.world) = files["baseline"] /\ c.baseline = files["baseline"]
      BY DEF Verifies, ReplayAgrees, HashesAgree, Artifacts
    <3>2. t = TraceOf(t.world, t.inputs, t.baseline)
      BY <3>1 DEF IInv, Types, FilesTyped, IsTrace, Absent, Torn
    <3> QED
      BY <2>2, <2>3, <3>1, <3>2
  <2>5. /\ files["patch"] = Solved(w, c.answer) /\ files["parse"] = Solved(w, c.answer)
        /\ c.answer # "default" => files["table"] = Solved(w, c.answer)
    BY <2>3 DEF Verifies, ReplayAgrees
  <2> QED
    BY <2>1, <2>2, <2>4, <2>5 DEF CoherentFor
<1> QED
  BY <1>1, Invariant, PTL

(* The hashes alone are enough for an answer for the inputs that the lock  *)
(* file names, where studies ran one at a time, on inputs that changed once*)
(* at most (run_scip_corpus.py:71, 98-109, run_cpsat_corpus.py:81).        *)
THEOREM AuditIsSound == Spec => []AuditedIsCoherent
<1>1. IInv => AuditedIsCoherent
  <2> DEFINE c == files["certificate"]
  <2> SUFFICES ASSUME IInv, Audits, ~overlapped, changes < 2
               PROVE  CoherentFor(Locked)
    BY DEF AuditedIsCoherent
  <2>1. /\ c.is = "whole" /\ c.inputs = Locked
        /\ \A f \in Artifacts \ {"table"} : files[f] = c[f]
        /\ c.table # Absent => files["table"] = c.table
    BY DEF Audits
  <2>2. PICK w \in Worlds : /\ c.default = Of(w) /\ c.inputs = w.inputs
                            /\ c.answer \in Answers(w) /\ c.patch = Solved(w, c.answer)
    BY <2>1 DEF IInv, Types, FilesTyped, IsCertificate, Absent, Torn
  <2>3. c.default.world = w
    BY <2>2 DEF Of
  <2>4. /\ c.baseline = Of(w) /\ c.trace = TraceOf(w, w.inputs, Of(w))
        /\ c.parse = Solved(w, c.answer) /\ c.table = TableOf(w, c.answer)
    BY <2>1, <2>3 DEF IInv, Honest
  <2>5. c.answer # "default" => files["table"] = Solved(w, c.answer)
    BY <2>1, <2>4 DEF TableOf, Solved, Absent
  <2>6. /\ files["baseline"] = Of(w) /\ files["default"] = Of(w)
        /\ files["trace"] = TraceOf(w, w.inputs, Of(w))
        /\ files["patch"] = Solved(w, c.answer) /\ files["parse"] = Solved(w, c.answer)
    BY <2>1, <2>2, <2>4 DEF Artifacts
  <2> QED
    BY <2>1, <2>2, <2>5, <2>6 DEF CoherentFor
<1> QED
  BY <1>1, Invariant, PTL

(* What a study that nothing disturbed leaves verifies, if its proof lists *)
(* the two calls that the verifier counts.                                 *)
THEOREM StudiesVerify == Spec => []FinishedVerifies
<1>1. IInv => FinishedVerifies
  <2> SUFFICES ASSUME IInv, NEW s \in Studies \ disturbed, study[s].at = "done",
                      study[s].wanted = "proved" => study[s].calls = 2
               PROVE  Verifies
    BY DEF FinishedVerifies, At
  <2> DEFINE c == files["certificate"]
             answer == study[s].answer
  <2>1. study[s].world = world /\ files["trace"].inputs = world.inputs
    BY DEF IInv, Steady, PastTrace, PastDocument,
     PastDefault, PastSolve, PastPatch, PastTable, PastParse, PastCertificate, PastProof
  <2>2. /\ files["baseline"] = Of(world) /\ files["default"] = Of(world)
        /\ files["trace"] = TraceOf(world, world.inputs, Of(world))
        /\ files["patch"] = Solved(world, answer) /\ files["parse"] = Solved(world, answer)
        /\ files["table"] = TableOf(world, answer)
        /\ c.is = "whole" /\ c.default = Of(world) /\ c.answer = answer
        /\ \A f \in Artifacts : c[f] = files[f]
    BY <2>1 DEF IInv, Alone, Wrote, PastTrace, PastDocument,
     PastDefault, PastSolve, PastPatch, PastTable, PastParse, PastCertificate, PastProof
  <2>3. c.inputs = world.inputs
    <3>1. PICK v \in Worlds : c.default = Of(v) /\ c.inputs = v.inputs
      BY <2>2 DEF IInv, Types, FilesTyped, IsCertificate, Absent, Torn
    <3>2. Of(v) = Of(world)
      BY <2>2, <3>1
    <3> QED
      BY <3>1, <3>2 DEF Of
  <2>4. HashesAgree
    BY <2>2, <2>3 DEF HashesAgree, Artifacts, Of, TraceOf, Solved
  <2>5. ReplayAgrees
    BY <2>2, <2>3 DEF ReplayAgrees, Artifacts, Of, TraceOf, TableOf
  <2>6. BoundAgrees
    <3>1. study[s].wanted \in {"plain", "proved"}
      BY DEF IInv, Types, StudiesTyped, Memories, NoOne
    <3> QED
      BY <3>1 DEF IInv, Alone, Wrote, PastProof, BoundAgrees
  <2> QED
    BY <2>4, <2>5, <2>6 DEF Verifies
<1> QED
  BY <1>1, Invariant, PTL

(* A study that nothing disturbed and no tool failed raises for the reasons*)
(* listed only, whatever earlier studies left (study.py:273, 281-313, 531).*)
THEOREM StudiesFailJustly == Spec => []FailuresAreJustified
<1>1. IInv => FailuresAreJustified
  BY DEF IInv
<1> QED
  BY <1>1, Invariant, PTL
=============================================================================
