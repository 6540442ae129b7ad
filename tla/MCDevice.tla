------------------------------ MODULE MCDevice ------------------------------
\* What a configuration is made of on the switch: the board algorithms and the
\* lossless profile.  They share no state, so each is explored in a lane of its
\* own: the other one stands still.
EXTENDS BoardHal, RoceCommissioning

CONSTANTS c1, c2, v1, v2
VARIABLE lane

\* Board: two groups of one module, one of the other, two fan curves.
MCGroups == {<<1,0>>, <<1,2>>, <<2,1>>}
MCSettings == {[mode |-> "100g", ports |-> {0}], [mode |-> "split", ports |-> {1,3}]}
Up == [mode |-> "100g", ports |-> {0}]
Two == [mode |-> "split", ports |-> {1,3}]
C(a,b,d,f) == [group |-> [g \in MCGroups |-> CASE g = <<1,0>> -> a [] g = <<1,2>> -> b [] g = <<2,1>> -> d], fan |-> f]
MCConfigs == {C(Up,Up,Up,c1), C(Two,Up,Up,c1), C(Up,Two,Two,c2)}
MCDefault == C(Up,Up,Up,c1)

\* Lossless profile: two selected ports and one that is not; the page offers
\* what each rule of the checks can stumble over.
MCPorts == 1..3
MCDscps == {0, 26, 34, 48}
Identity == [p \in 0..7 |-> p]
Reserved == [p \in 0..7 |-> CASE p = 7 -> 6 [] p = 6 -> 7 [] OTHER -> p]
Crowded == [p \in 0..7 |-> CASE p \in {0, 1} -> 3 [] p = 2 -> 7 [] OTHER -> p]
Equal == [tc \in 0..7 |-> 1]
Skewed == [tc \in 0..7 |-> CASE tc = 3 -> 255 [] tc = 7 -> 9 [] OTHER -> tc + 1]
Trunk == [enabled |-> TRUE, lldp |-> TRUE, mode |-> "trunk", pvid |-> {}, tagged |-> {v1},
          ingress |-> 0, egress |-> 0, mtu |-> 1518]
Off == [Trunk EXCEPT !.enabled = FALSE, !.tagged = {}]
Plain == [ enabled |-> FALSE, ports |-> {1, 2}, classification |-> "pcp", dscp |-> 26, cnp |-> 48,
  dcbx |-> "off", detect |-> 0, recovery |-> 100, cooldown |-> 30000, cable |-> 10, response |-> 3000,
  trust |-> "none", default |-> 0, map |-> Identity, strict |-> FALSE, weights |-> Equal, lldp |-> TRUE,
  speed |-> [n \in 1..3 |-> 100], lag |-> {}, port |-> [n \in 1..3 |-> IF n = 3 THEN Off ELSE Trunk] ]
MCBases == {Plain, [Plain EXCEPT !.enabled = TRUE],
  [Plain EXCEPT !.enabled = TRUE, !.classification = "dscp", !.dcbx = "ieee", !.map = Reserved, !.detect = 5000]}
MCOffers == [ enabled |-> BOOLEAN, ports |-> {{1, 2}, {1}, {2, 3}, {1, 2, 3}}, classification |-> {"pcp", "dscp"},
  dscp |-> {34, 48}, dcbx |-> {"off", "ieee"}, detect |-> {0, 5000, 60000}, response |-> {3000, 10000},
  trust |-> {"none", "ieee-802.1p"}, default |-> {0, 3, 6}, map |-> {Identity, Reserved, Crowded},
  strict |-> BOOLEAN, weights |-> {Equal, Skewed}, lldp |-> BOOLEAN,
  speed |-> {[n \in 1..3 |-> IF n = 3 THEN 0 ELSE 100], [n \in 1..3 |-> IF n = 2 THEN 40 ELSE 100]}, lag |-> {{}, {2}, {1, 2}} ]
MCPortOffers == [enabled |-> BOOLEAN, lldp |-> BOOLEAN, mode |-> {"access", "trunk"}, pvid |-> {{}, {v2}},
  tagged |-> {{}, {v1}, {v1, v2}}, ingress |-> {0, 20000, 50000}, egress |-> {0, 50000}, mtu |-> {1518, 9216}]

Init ==
  /\ lane \in {"board", "roce"}
  /\ BoardInit /\ RoceInit
  /\ lane = "board" => config = Plain
Next ==
  \/ lane = "board" /\ BoardNext /\ UNCHANGED <<lane, roceVars>>
  \/ lane = "roce" /\ RoceNext /\ UNCHANGED <<lane, boardVars>>
Spec == Init /\ [][Next]_<<lane, boardVars, roceVars>>
=============================================================================
