------------------------------- MODULE MCLab -------------------------------
(* Three labs: one in the shape of lab/topology.yaml and two in that of     *)
(* topology_multivendor.yaml, the routers of one and the VPCS of the other. *)
(* One of the routers' two versions has R1's address and gateway changed;   *)
(* no check reaches R2, as none reaches JSW2 there.                         *)
EXTENDS Lab

MCSingle ==
  [project |-> "Switch automation",
   nodes |-> <<"S1", "Host", "Cloud">>, builtin |-> {"Cloud"},
   adapters |-> [n \in Names |-> IF n = "Host" THEN 2 ELSE 0],
   links |-> <<{<<"Host", 0>>, <<"S1", 0>>}, {<<"Host", 1>>, <<"Cloud", 0>>}>>,
   host |-> "Host", switch |-> "S1", devices |-> <<>>, pair |-> <<>>,
   platform |-> [n \in Names |-> "ios"],
   config |-> [n \in Names |-> <<"hostname", "login-local", "address">>],
   pings |-> <<[from |-> "Host", path |-> {"Host", "Cloud"}, needs |-> {"sshd"}],
               [from |-> "Host", path |-> {"Host", "S1"}, needs |-> {}]>>]

MCRouters ==
  [project |-> "Network Automation",
   nodes |-> <<"Host", "R1", "R2">>, builtin |-> {},
   adapters |-> [n \in Names |-> IF n = "Host" THEN 2 ELSE 0],
   links |-> <<{<<"R1", 0>>, <<"Host", 0>>}, {<<"R2", 0>>, <<"Host", 1>>}>>,
   host |-> "Host", switch |-> "", devices |-> <<"R1", "R2">>, pair |-> <<"R1", "R2">>,
   platform |-> [n \in Names |-> IF n = "R2" THEN "junos" ELSE "ios"],
   config |-> [n \in Names |-> IF n = "R2" THEN <<"hostname", "address">>
                               ELSE <<"hostname", "login-local", "address", "gateway">>],
   pings |-> <<[from |-> "R1", path |-> {"R1", "Host"}, needs |-> {}],
               [from |-> "Host", path |-> {"Host", "R1"}, needs |-> {}]>>]

MCRoutersEdited ==
  [MCRouters EXCEPT !.config = [@ EXCEPT
     !["R1"] = <<"hostname", "login-local", "address 2", "gateway 2">>]]

MCDesk ==
  [project |-> "Desk",
   nodes |-> <<"PC", "Host">>, builtin |-> {"PC"},
   adapters |-> [n \in Names |-> 0],
   links |-> <<{<<"PC", 0>>, <<"Host", 0>>}>>,
   host |-> "Host", switch |-> "", devices |-> <<"PC">>, pair |-> <<>>,
   platform |-> [n \in Names |-> "vpcs"],
   config |-> [n \in Names |-> <<"address", "save">>],
   pings |-> <<[from |-> "PC", path |-> {"PC", "Host"}, needs |-> {}]>>]

MCTopologies == {MCSingle, MCRouters, MCRoutersEdited, MCDesk}
MCOriginals == {MCSingle, MCRouters, MCDesk}
MCNames == {"S1", "Host", "Cloud", "R1", "R2", "PC"}
MCSets(line) == CASE line = "address 2" -> "address" [] line = "gateway 2" -> "gateway"
                  [] OTHER -> line
=============================================================================
