------------------------------ MODULE MCLinuxd ------------------------------
(* Small instances of Linuxd for TLC. *)
EXTENDS Linuxd, TLC
CONSTANTS v1, v2

Plan(a, b, c) == v1 :> <<a, b>> @@ v2 :> <<c, <<>>>>

MCPlans == {Plan(<<"read">>, <<"read">>, <<>>),
            Plan(<<"open">>, <<>>, <<"call">>),
            Plan(<<"write", "call">>, <<>>, <<>>)}

\* Both VMs make a call that is put together from parts.
SamePlans == {Plan(<<"open">>, <<>>, <<"open">>), Plan(<<"open">>, <<>>, <<"stat">>)}
=============================================================================
