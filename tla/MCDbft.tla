------------------------------- MODULE MCDbft -------------------------------
(* Instances of Dbft for TLC. *)
EXTENDS Dbft

\* Every answer is the good one; proposals still differ.
AllGood == {e \in Answer : e.reqOk /\ e.have /\ e.blockOk /\ e.stored}

\* A request may be refused, its transactions may be missing, or its block
\* may be rejected, one of these in a handler.
OneBad ==
    {e \in Answer : e.stored /\ Cardinality({f \in {"reqOk", "have", "blockOk"} : ~e[f]}) <= 1}

\* The transactions may be missing or the block rejected.
Unready == {e \in OneBad : e.reqOk}

=============================================================================
