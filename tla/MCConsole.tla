----------------------------- MODULE MCConsole ------------------------------
(* One gym in the stream and another one in the list; two more             *)
(* publications, or two ratings, or one rating and a user who leaves the   *)
(* listings and comes back.  Fifty episodes cost ten times as much as      *)
(* five.                                                                   *)
EXTENDS Console

OneGym == <<"cart">>
OtherGym == <<"maze">>
Mixes == {[publications |-> 2, ratings |-> 0, inputs |-> 0],
          [publications |-> 0, ratings |-> 2, inputs |-> 1],
          [publications |-> 0, ratings |-> 1, inputs |-> 3]}
EstimateCost == [e \in Episodes |-> 2 * e]
TwoTasks == <<"second", "first">>
=============================================================================
