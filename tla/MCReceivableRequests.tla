------------------------ MODULE MCReceivableRequests ------------------------
(* Small instances of ReceivableRequests for TLC. *)
EXTENDS ReceivableRequests, TLC

Symmetry == Permutations(Payment) \cup Permutations(Entry) \cup Permutations(Request)

\* Bound: requests overlap only while deposits are unmatched, matched by hand or settled, and
\* payments are linked (the split handlers read an unlinked one for its hash only), with a
\* hash if recorded in crypto and only then.
Bounded ==
  \/ \A r \in Request : req[r] = Idle
  \/ /\ \A d \in Deposit : dep[d].status \notin {"auto_matched", "ignored"}
     /\ \A e \in Entry : entry[e].kind # "contra"
     /\ \A p \in Payment :
          /\ pay[p].kind # "absent" => pay[p].invoice # None
          /\ pay[p].kind = "bank" => pay[p].hash = None
          /\ pay[p].kind = "crypto" => pay[p].verified \/ pay[p].hash # None
=============================================================================
