------------------------------ MODULE WorkList ------------------------------
(***************************************************************************)
(* What a background job over a list of entries promises, whichever worker *)
(* serves it and however often the worker is run again: an entry gets one  *)
(* result and keeps it, the list is not called finished while entries are  *)
(* open but for those that are excused, and a list that was cancelled or   *)
(* deleted stays so.                                                       *)
(***************************************************************************)
EXTENDS Integers, FiniteSets

CONSTANT Entries     \* what is to be worked through

VARIABLES status,    \* where the list stands
          results,   \* results[e]: the entry's, "open" while it has none
          excused    \* how many entries may be open in a finished list

Results == {"done", "failed", "skipped"}
Running == {"pending", "processing"}
Finished == {"done", "failed"}
OpenEntries == {e \in Entries : results[e] = "open"}

vars == <<status, results, excused>>

Init == status = "absent" /\ results = [e \in Entries |-> "open"] /\ excused \in Nat

Create == status = "absent" /\ status' = "pending" /\ UNCHANGED <<results, excused>>

\* an attempt begins or goes on; one that did not see its predecessor finish
\* takes the list up again
Work == /\ status \in Running \cup Finished /\ status' = "processing"
        /\ UNCHANGED <<results, excused>>

\* results may still arrive after a cancellation
Settle(e, how) == /\ status # "absent" /\ results[e] = "open"
                  /\ results' = [results EXCEPT ![e] = how]
                  /\ UNCHANGED <<status, excused>>

Finish(how) == /\ status \in Running \cup Finished
               /\ Cardinality(OpenEntries) <= excused
               /\ status' = how /\ UNCHANGED <<results, excused>>

Cancel == status \in Running /\ status' = "cancelled" /\ UNCHANGED <<results, excused>>

Delete == /\ status # "absent" /\ status' = "gone"
          /\ results' = [e \in Entries |-> "gone"] /\ UNCHANGED excused

\* a statement is lost, or an entry's subject goes
Excuse == excused' >= excused /\ UNCHANGED <<status, results>>

Next == \/ Create \/ Work \/ Cancel \/ Delete \/ Excuse
        \/ \E how \in Finished : Finish(how)
        \/ \E e \in Entries, how \in Results : Settle(e, how)

Spec == Init /\ [][Next]_vars
=============================================================================
