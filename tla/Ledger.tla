------------------------------- MODULE Ledger -------------------------------
(***************************************************************************)
(* What the state file of a corpus run promises its readers: one entry for *)
(* each pair, each changed on its own and at once.  A study is recorded as *)
(* started before it is recorded as failed; a pair is recorded as complete *)
(* with the certificate that was audited.                                  *)
(***************************************************************************)
EXTENDS Integers

CONSTANT Pairs

VARIABLES
  ledger,       \* the entry of each pair
  certificate   \* the certificate of each pair on disk

Statuses == {"absent", "running", "failed", "complete"}

(* The entry names the certificate it was completed with, 0 when none.     *)
Entry(status, audited) == [status |-> status, audited |-> audited]

Absent == Entry("absent", 0)

Init == ledger = [p \in Pairs |-> Absent]

Start(p) == ledger' = [ledger EXCEPT ![p] = Entry("running", 0)]

Fail(p) ==
  /\ ledger[p].status = "running"
  /\ ledger' = [ledger EXCEPT ![p] = Entry("failed", 0)]

Complete(p) ==
  /\ certificate[p] > 0
  /\ ledger' = [ledger EXCEPT ![p] = Entry("complete", certificate[p])]

Next == \E p \in Pairs : Start(p) \/ Fail(p) \/ Complete(p)

Spec == Init /\ [][Next]_ledger
=============================================================================
