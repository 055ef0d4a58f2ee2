---------------------------- MODULE MCGymBuilder ----------------------------
(* A step entry, a request and a router that can be wired into a cycle of  *)
(* branches, and a reward.  The user has drawn a gym with such a cycle,    *)
(* saved it again without one and with code by hand, and taken the first   *)
(* version from the gym hub, too.                                          *)
EXTENDS GymBuilder

Kind == [n \in NodeIds |-> CASE n = "step" -> "OnStep" [] n = "https" -> "HttpsRequest"
                             [] n = "router" -> "RouterSwitch" [] OTHER -> "Other"]

Wire(s, h, t) == [source |-> s, handle |-> h, target |-> t]

Chain == [nodes |-> {"step", "reward"}, edges |-> {Wire("step", "exec-out", "reward")},
          conditions |-> [n \in NodeIds |-> {}]]

Branches == [nodes |-> {"step", "https", "router", "reward"},
             edges |-> {Wire("step", "exec-out", "https"), Wire("step", "exec-out", "reward"),
                        Wire("https", "success-out", "router"),
                        Wire("router", "c1", "https")},
             conditions |-> [n \in NodeIds |-> IF n = "router" THEN {"c1"} ELSE {}]]

Stored == << [graph |-> Branches, code |-> [meta |-> NoGraph, text |-> "class"]],
             [graph |-> Chain, code |-> [meta |-> NoGraph, text |-> "unparsed"]] >>
Earlier == << [root |-> 2, versions |-> <<1, 2>>, ensLabel |-> NoLabel],
              [root |-> 1, versions |-> << >>, ensLabel |-> NoLabel] >>
Drawn == {Branches}
Unnamed == [l \in Labels |-> {}]
=============================================================================
