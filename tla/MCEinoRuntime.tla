----------------------------- MODULE MCEinoRuntime -----------------------------
(***************************************************************************)
(* A model of EinoRuntime: the plan with the most points and the default   *)
(* plan, two views, and a reply for each way an answer can turn out.       *)
(***************************************************************************)
EXTENDS EinoRuntime, TLC

\* Which id is which makes no difference.
MCSymmetry == Permutations(Ids)

NoRange == [kind |-> "none", duration |-> 0]
MCPlans == {Plan(<<"cpu">>, Absent, Absent, NoRange, Absent),
            Plan(<<"cpu", "load">>, Given(83 * Minute), Given(5), NoRange, Absent)}

MCIdentities == {[known |-> TRUE, permitted |-> p] : p \in BOOLEAN}

Row(finite, other) == [readable |-> TRUE, finite |-> finite, other |-> other, wide |-> FALSE]
Body(rows) == [kind |-> "body", rows |-> rows]
MCReplies ==
    {[kind |-> k, rows |-> <<>>] : k \in {"timeout", "status", "oversized"}}
    \cup {Body(<<>>), Body(<<Row(2, 0), Row(0, 1)>>), Body(<<[Row(1, 0) EXCEPT !.readable = FALSE]>>),
          Body(<<Row(1, 0), [Row(1, 0) EXCEPT !.wide = TRUE]>>),
          Body(<<Row(2, 0), Row(1, 1)>>), Body(<<Row(1, 0), Row(1, 0), Row(1, 0)>>)}
=============================================================================
