----------------------------- MODULE MCPipeline -----------------------------
(***************************************************************************)
(* Instances of Pipeline for TLC.                                          *)
(***************************************************************************)
EXTENDS Pipeline, TLC

CONSTANTS a, b    \* two ids

\* Where the tenant is: in one field, in several that agree or not, broken, nowhere.
TenantFields ==
    {RawOnly(a), RawOnly(b), RawOnly(Bad),
     [label |-> b, kwarg |-> Absent, raw |-> a],
     [label |-> Absent, kwarg |-> b, raw |-> a],
     [label |-> b, kwarg |-> Bad, raw |-> a],
     [label |-> a, kwarg |-> Absent, raw |-> Absent],
     [label |-> Absent, kwarg |-> Absent, raw |-> Absent]}

\* The id of the row: as dispatched, behind a broken label, nowhere.
ExecutionFields ==
    {RawOnly(a), [label |-> Bad, kwarg |-> Absent, raw |-> b], RawOnly(Absent)}

SomeMessages == [tenant : TenantFields, execution : ExecutionFields]

\* Deliveries are interchangeable.
DeliverySymmetry == Permutations(Delivery)
=============================================================================
