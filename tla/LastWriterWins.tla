--------------------------- MODULE LastWriterWins ---------------------------
(***************************************************************************)
(* What synchronisation promises about one field of every row: whatever    *)
(* order timestamped writes arrive in, and however often, the field holds  *)
(* the value of the newest one.                                            *)
(***************************************************************************)
EXTENDS Integers

CONSTANTS Books,   \* the rows
          Never,   \* the value of a field that was never written
          Writes   \* the writes that may arrive: [book, ts, val]

VARIABLES reg,     \* reg[b]: the value of row b's field and its timestamp
          arrived  \* the writes that reached the server

Latest(ws, b) == IF \E w \in ws : w.book = b
                 THEN LET w == CHOOSE v \in ws : /\ v.book = b
                                                 /\ \A u \in ws : u.book = b => u.ts <= v.ts
                      IN  [ts |-> w.ts, val |-> w.val]
                 ELSE [ts |-> 0, val |-> Never]

Init == arrived = {} /\ reg = [b \in Books |-> [ts |-> 0, val |-> Never]]

Arrive(w) == /\ arrived' = arrived \cup {w}
             /\ reg' = [reg EXCEPT ![w.book] = Latest(arrived', w.book)]

Next == \E w \in Writes : Arrive(w)

Spec == Init /\ [][Next]_<<reg, arrived>>
=============================================================================
