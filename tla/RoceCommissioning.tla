------------------------- MODULE RoceCommissioning -------------------------
(***************************************************************************)
(* Lossless Ethernet from the draft to the read-back: the checks and the   *)
(* suggestions of roce.py, the validation of models.py, what netlab_codec  *)
(* sends, and what roce.decode_operational and dcbx.decode conclude from   *)
(* what the switch says it runs.                                           *)
(*                                                                         *)
(* A commit reaches the switch register group by register group, and may   *)
(* stop half way: a group then still holds what an earlier configuration   *)
(* gave it.  The daemons that program the groups are external; the codec   *)
(* is modelled as the value of each group when they do what they are told. *)
(***************************************************************************)
EXTENDS Integers, FiniteSets, FiniteSetsExt

CONSTANTS
  Ports,        \* logical ports, each a fixed slot of the board
  Vlans,
  Dscps,        \* code points that occur in a draft, and one that does not
  Bases,        \* configurations the switch may start with
  Offers,      \* values the page offers for each field of the draft, by field
  PortOffers,  \* and for each field of a port
  MaxEdits, MaxCommits      \* bounds: edits of one draft, commits

VARIABLES
  draft,        \* what the page edits
  edits,        \* fields edited since the last commit
  config,       \* the confirmed configuration
  device,       \* what each register group of the switch holds
  leased,       \* ports whose reception the PFC watchdog has released for a moment
  commits

roceVars == <<draft, edits, config, device, leased, commits>>

Tcs == 0..7
Priorities == 0..15
CnpPriority == 6
CnpTc == 7
Speeds == {10, 25, 40, 100}

(***************************************************************************)
(* A draft holds the fields of Roce (enabled, ports, classification, dscp, *)
(* cnp, dcbx, detect, recovery, cooldown, cable, response), of Qos (trust, *)
(* default, map, strict, weights) and of Lldp (lldp), the speed of each    *)
(* slot (0: not active in this port mode), the members of a link aggregate *)
(* (lag) and a PortConfig for each slot (port).                            *)
(***************************************************************************)
\* What models.py lets them hold; a detection time of 0 is a disabled watchdog.
Field == [
  enabled |-> BOOLEAN, ports |-> SUBSET Ports, classification |-> {"pcp", "dscp"}, dscp |-> Dscps,
  cnp |-> Dscps, dcbx |-> {"off", "ieee"}, detect |-> Nat, recovery |-> Nat, cooldown |-> Nat,
  cable |-> Nat, response |-> Nat, trust |-> {"none", "ieee-802.1p"}, default |-> 0..7,
  map |-> [0..7 -> 0..7], strict |-> BOOLEAN, weights |-> [Tcs -> Nat \ {0}], lldp |-> BOOLEAN,
  speed |-> [Ports -> Nat], lag |-> SUBSET Ports ]
PortField == [
  enabled |-> BOOLEAN, lldp |-> BOOLEAN, mode |-> {"access", "trunk"}, pvid |-> SUBSET Vlans,
  tagged |-> SUBSET Vlans, ingress |-> Nat, egress |-> Nat, mtu |-> Nat ]
Holds(r, type) == \A f \in DOMAIN type : f \in DOMAIN r /\ r[f] \in type[f]
IsDraft(c) ==
  /\ Holds(c, Field) /\ DOMAIN c = DOMAIN Field \cup {"port"} /\ DOMAIN c.port = Ports
  /\ \A n \in Ports : Holds(c.port[n], PortField) /\ DOMAIN c.port[n] = DOMAIN PortField

Selected(c) == IF c.enabled THEN c.ports ELSE {}
DscpMode(c) == Selected(c) # {} /\ c.classification = "dscp"
Ieee(c) == c.enabled /\ c.dcbx = "ieee"
Active(c) == {n \in Ports : c.speed[n] # 0}

\* dscp_map, and the entries the codec writes: all of them, so that a code
\* point the profile no longer names loses its class.
DscpMap(c) ==
  [d \in Dscps |-> IF ~DscpMode(c) THEN 0
                   ELSE IF d = c.dscp THEN 3 ELSE IF d = c.cnp THEN CnpPriority ELSE 0]

\* port_vlans
PortVlans(p, classification) ==
  IF classification = "pcp"
    THEN IF p.mode = "trunk" THEN p.tagged ELSE {}
    ELSE p.tagged \cup p.pvid

(***************************************************************************)
(* dcbx_policy: one percent for each ETS class, the rest by weight, what   *)
(* rounding leaves to the largest fractions.                               *)
(***************************************************************************)
EtsClasses(c) == IF c.classification = "dscp" THEN Tcs \ {CnpTc} ELSE Tcs

\* A sum over classes.
Over8(f) == f[0] + f[1] + f[2] + f[3] + f[4] + f[5] + f[6] + f[7]
Among(classes, f) == Over8([tc \in Tcs |-> IF tc \in classes THEN f[tc] ELSE 0])

\* Whose fraction is larger, or the same and the number lower.
Earlier(classes, fraction, tc) ==
  {o \in classes : fraction[o] > fraction[tc] \/ (fraction[o] = fraction[tc] /\ o < tc)}

\* Mutant: what rounding leaves is given to nobody.
SharesRounded(classes, weights) ==
  LET total == Among(classes, weights)
  IN [tc \in Tcs |-> IF tc \notin classes THEN 0
        ELSE 1 + ((100 - Cardinality(classes)) * weights[tc]) \div total]
Shares(classes, weights) ==
  LET total == Among(classes, weights)
      scaled == [tc \in Tcs |-> (100 - Cardinality(classes)) * weights[tc]]
      whole == [tc \in Tcs |-> 1 + scaled[tc] \div total]
      fraction == [tc \in Tcs |-> scaled[tc] % total]
      left == 100 - Among(classes, whole)
  IN [tc \in Tcs |-> IF tc \notin classes THEN 0
        ELSE whole[tc] + IF Cardinality(Earlier(classes, fraction, tc)) < left THEN 1 ELSE 0]

DcbxPolicy(c) ==
  [ mask |-> {3}, map |-> c.map, bandwidth |-> Shares(EtsClasses(c), c.weights),
    ets |-> EtsClasses(c),
    applications |-> IF c.classification = "dscp" THEN {<<"dscp", c.dscp, 3>>, <<"dscp", c.cnp, 6>>}
                     ELSE {<<"udp", 4791, 3>>} ]

(***************************************************************************)
(* headroom_bytes, buffer_budget: what a paused port may still receive.    *)
(***************************************************************************)
Frame(mtu) == ((mtu + 25) \div 4) * 4
Segments(bytes) == ((bytes + 191) \div 192) * 192
PauseBuffer == 49152
Headroom(speed, mtu, cable, response) ==
  Segments((speed * (response + 10 * cable) + 7) \div 8 + 2 * Frame(mtu) + 1500)
Remaining(mtu) == ((24576 - 256) \div 2) * 192 - Segments(30 * Frame(mtu)) - 30 * PauseBuffer
LargestMtu(c) == Max({c.port[n].mtu : n \in Ports})

(***************************************************************************)
(* configuration_issues: the paths it names.  <<0, f>> is a field of the   *)
(* draft and <<n, f>> a field of port n.                                   *)
(***************************************************************************)
When(condition, n, field) == IF condition THEN {<<n, field>>} ELSE {}
KeepsTo(map, priority, tc) ==      \* that priority, and no other, has the class
  map[priority] = tc /\ \A p \in 0..7 \ {priority} : map[p] # tc

PortIssues(c, n) ==
  LET p == c.port[n]
  IN UNION {
       When(n \notin Active(c) \/ n \in c.lag, 0, "ports"),
       When(~p.enabled \/ c.speed[n] \notin Speeds, n, "enabled"),
       When(PortVlans(p, c.classification) = {}, n, "tagged"),
       When(c.dcbx = "ieee" /\ ~p.lldp, n, "lldp"),
       When(c.classification = "dscp" /\ p.egress > 0, n, "egress"),
       When(p.ingress > 0, n, "ingress"),
       When(Headroom(c.speed[n], p.mtu, c.cable, c.response) > PauseBuffer, 0, "response") }

Issues(c) ==
  IF ~c.enabled THEN {} ELSE UNION {
    When(Cardinality(c.ports) < 2, 0, "ports"),
    When(~KeepsTo(c.map, 3, 3), 0, "map"),
    When(c.default = 3, 0, "default"),
    When(c.classification = "dscp" /\ ~KeepsTo(c.map, CnpPriority, CnpTc), 0, "map"),
    When(c.classification = "dscp" /\ c.default = CnpPriority, 0, "default"),
    When(c.dcbx = "ieee" /\ ~c.lldp, 0, "lldp"),
    When(c.trust # "none" /\ \E n \in Ports \ c.ports : c.port[n].enabled, 0, "trust"),
    UNION {PortIssues(c, n) : n \in c.ports},
    When({v \in UNION {PortVlans(c.port[n], c.classification) : n \in c.ports} :
            \A n \in c.ports : v \in PortVlans(c.port[n], c.classification)} = {}, 0, "ports"),
    When(Remaining(LargestMtu(c)) <= 192, 0, "enabled") }

(***************************************************************************)
(* models.py: the other rules a draft meets.  BaseValid is the validation  *)
(* preflight runs with lossless Ethernet switched off.                     *)
(***************************************************************************)
MinimumRate == 22000          \* STORM_MIN_RATE_KBPS
References(c, n) ==           \* why an inactive slot cannot be left as it is
  LET p == c.port[n]
  IN p.enabled \/ p.pvid # {} \/ p.tagged # {} \/ p.ingress > 0 \/ p.egress > 0 \/ n \in c.lag

ValidPort(c, n) ==
  LET p == c.port[n]
  IN /\ ~(p.ingress \in 1..(MinimumRate - 1))
     /\ p.mode = "access" => p.tagged = {}
     /\ p.pvid \cap p.tagged = {}
     /\ n \notin Active(c) => ~References(c, n)
     /\ p.enabled => p.pvid \cup p.tagged # {}
     /\ p.ingress <= c.speed[n] * 1000000 /\ p.egress <= c.speed[n] * 1000000

Profile(c, n) ==
  <<c.speed[n], c.port[n].mtu, c.port[n].mode, c.port[n].pvid, c.port[n].tagged>>

BaseValid(c) ==
  /\ c.classification = "dscp" => c.dscp # c.cnp
  /\ c.cooldown >= c.detect                     \* PfcWatchdog.interval_order
  /\ \A n \in Ports : ValidPort(c, n)
  /\ c.lag \subseteq Active(c)
  /\ \A n, m \in c.lag : Profile(c, n) = Profile(c, m)
ValidConfig(c) ==
  /\ BaseValid(c) /\ Issues(c) = {}
  /\ \A n \in Selected(c) : n \in Active(c)

(***************************************************************************)
(* preflight: the draft with every suggestion applied.                     *)
(***************************************************************************)
Eligible(c, n) == n \in Active(c) \ c.lag /\ c.speed[n] \in Speeds

\* Mutant: other priorities in TC7 move away before 6 is given it, 7 included.
SuggestedMapKeepsSeven(c) ==
  [p \in 0..7 |-> IF p = 3 THEN 3
                  ELSE IF c.classification = "dscp" /\ p = CnpPriority THEN CnpTc
                  ELSE IF c.map[p] = 3 THEN 0 ELSE c.map[p]]
SuggestedMap(c) ==
  [p \in 0..7 |->
     IF p = 3 THEN 3
     ELSE IF c.classification = "dscp" /\ p = CnpPriority THEN CnpTc
     ELSE IF c.map[p] = 3 THEN 0
     ELSE IF c.classification = "dscp" /\ c.map[p] = CnpTc THEN IF p = 7 THEN 6 ELSE 0
     ELSE c.map[p]]

SuggestedPort(c, n) ==
  IF ~(n \in c.ports /\ Eligible(c, n)) THEN c.port[n]
  ELSE [c.port[n] EXCEPT !.enabled = TRUE, !.ingress = 0,
          !.egress = IF c.classification = "dscp" THEN 0 ELSE @,
          !.lldp = @ \/ c.dcbx = "ieee"]

Suggested(c) ==
  IF ~c.enabled \/ ~BaseValid(c) THEN c
  ELSE [c EXCEPT
          !.port = [n \in Ports |-> SuggestedPort(c, n)],
          !.map = SuggestedMap(c),
          !.default = IF @ = 3 \/ (c.classification = "dscp" /\ @ = CnpPriority) THEN 0 ELSE @,
          !.lldp = @ \/ c.dcbx = "ieee",
          !.trust = IF <<0, "trust">> \in Issues(c) THEN "none" ELSE @]

(***************************************************************************)
(* netlab_codec: what a configuration makes of each register group.        *)
(***************************************************************************)
Whole == {"dscp", "partition", "forwarding", "buffers"}
RegisterGroups == (Whole \X {0}) \cup ({"pfc", "scheduler", "dcbx"} \X Ports)

\* Internal priorities use the map as well; 11 must not inherit the SDK's
\* modulo-eight mapping into the lossless class, nor 15 into the CNP class.
\* Mutant: the internal priorities are left to the SDK.
ForwardingOfSdk(c) ==
  [p \in Priorities |-> IF p < 8 THEN c.map[p] ELSE p % 8]
Forwarding(c) ==
  [p \in Priorities |->
     IF p < 8 THEN c.map[p]
     ELSE IF Selected(c) # {} /\ (p = 11 \/ (DscpMode(c) /\ p = 15)) THEN 0
     ELSE p % 8]

Pfc(c, n) ==
  IF n \in Selected(c)
    THEN [ rx |-> {3}, tx |-> {3}, lossless |-> {1}, shared |-> {1}, pc3 |-> 1,
           trust |-> IF DscpMode(c) THEN "dscp" ELSE "ieee-802.1p",
           watchdog |-> <<c.detect, c.recovery, c.cooldown>> ]
    ELSE [ rx |-> {}, tx |-> {}, lossless |-> {}, shared |-> {}, pc3 |-> 2,
           trust |-> c.trust, watchdog |-> <<0, 100, 30000>> ]

\* IES takes byte quanta: two frames for each unit of weight.
Quantum(c, n, tc) ==
  2 * Frame(c.port[n].mtu) *
    (IF n \in Selected(c) /\ Ieee(c) THEN Max({1, DcbxPolicy(c).bandwidth[tc]}) ELSE c.weights[tc])
Scheduler(c, n) ==
  [tc \in Tcs |->
     [ strict |-> IF n \in Selected(c) THEN tc = CnpTc /\ DscpMode(c) ELSE c.strict,
       quantum |-> Quantum(c, n, tc),
       shaping |-> IF c.port[n].egress > 0 THEN "port" ELSE "class" ]]

NoPolicy == [mask |-> {}, map |-> [p \in 0..7 |-> 0], bandwidth |-> [tc \in Tcs |-> 0],
             ets |-> {}, applications |-> {}]
Dcbx(c, n) ==
  IF Ieee(c) /\ n \in Selected(c)
    THEN [seen |-> TRUE, lldp |-> c.lldp /\ c.port[n].lldp, policy |-> DcbxPolicy(c)]
    ELSE [seen |-> FALSE, lldp |-> c.lldp /\ c.port[n].lldp, policy |-> NoPolicy]

Compiled(c) ==
  [g \in RegisterGroups |->
     CASE g[1] = "dscp" -> DscpMap(c)
       [] g[1] = "partition" -> [tc \in Tcs |-> IF Selected(c) # {} /\ tc = 3 THEN 1 ELSE 0]
       [] g[1] = "forwarding" -> Forwarding(c)
       [] g[1] = "buffers" -> [ready |-> Selected(c) # {}, mac |-> Selected(c) # {}]
       [] g[1] = "pfc" -> Pfc(c, g[2])
       [] g[1] = "scheduler" -> Scheduler(c, g[2])
       [] g[1] = "dcbx" -> Dcbx(c, g[2])]

(***************************************************************************)
(* decode_operational: does the read-back match the configuration?         *)
(***************************************************************************)
WatchdogOn(c) == c.detect > 0       \* the codec sends 0 for a disabled watchdog

\* The watchdog may have released reception for a moment; only an enabled one
\* that runs the configured times has that excuse.
Lease(c, n) ==
  LET pfc == device[<<"pfc", n>>]
  IN /\ n \in leased /\ n \in Selected(c) /\ WatchdogOn(c) /\ pfc.rx = {3}
     /\ pfc.watchdog = <<c.detect, c.recovery, c.cooldown>>

PfcMatches(c, n) ==
  LET pfc == device[<<"pfc", n>>]
      want == Pfc(c, n)
  IN /\ (pfc.rx = want.rx /\ n \notin leased) \/ Lease(c, n)
     /\ pfc.lossless = want.lossless /\ pfc.shared = want.shared /\ pfc.pc3 = want.pc3
     /\ pfc.watchdog = want.watchdog
     /\ n \in Selected(c) => pfc.tx = want.tx /\ pfc.trust = want.trust

\* Mutant: the scheduler of a selected port is not read back.
SchedulerUnread(c, n) == TRUE
SchedulerMatches(c, n) ==
  n \in Selected(c) =>
    \A tc \in Tcs :
      LET group == device[<<"scheduler", n>>][tc]
      IN /\ group.strict = (DscpMode(c) /\ tc = CnpTc)
         /\ group.quantum = 2 * Frame(c.port[n].mtu) *
              (IF Ieee(c) THEN Max({1, DcbxPolicy(c).bandwidth[tc]}) ELSE c.weights[tc])
         /\ c.port[n].egress = 0 => group.shaping = "class"

\* dcbx.decode: every selected port, and no other, advertises the policy.
DcbxMatches(c) ==
  LET expected == IF Ieee(c) THEN c.ports ELSE {}
      seen == {n \in Ports : device[<<"dcbx", n>>].seen}
  IN /\ expected = seen
     /\ \A n \in seen : /\ device[<<"dcbx", n>>].lldp
                        /\ device[<<"dcbx", n>>].policy = DcbxPolicy(c)

Applied(c) ==
  LET forwarding == device[<<"forwarding", 0>>]
  IN /\ \A tc \in Tcs : device[<<"partition", 0>>][tc] = IF Selected(c) # {} /\ tc = 3 THEN 1 ELSE 0
     /\ \A p \in 0..7 : forwarding[p] = c.map[p]
     /\ device[<<"dscp", 0>>] = DscpMap(c)
     /\ Selected(c) # {} =>
          /\ \A p \in 8..15 :
               forwarding[p] = IF p = 11 \/ (DscpMode(c) /\ p = 15) THEN 0 ELSE p % 8
          /\ device[<<"buffers", 0>>].mac /\ device[<<"buffers", 0>>].ready
     /\ \A n \in Active(c) : PfcMatches(c, n) /\ SchedulerMatches(c, n)
     /\ DcbxMatches(c)

(***************************************************************************)
(* Steps.                                                                  *)
(***************************************************************************)
ASSUME RoceAssumption ==
  /\ Ports \subseteq Nat \ {0}
  /\ \A c \in Bases : IsDraft(c) /\ ValidConfig(c)
  /\ \A f \in DOMAIN Offers : f \in DOMAIN Field /\ Offers[f] \subseteq Field[f]
  /\ \A f \in DOMAIN PortOffers : f \in DOMAIN PortField /\ PortOffers[f] \subseteq PortField[f]

RoceInit ==
  /\ config \in Bases /\ draft = config
  /\ device = Compiled(config)
  /\ edits = 0 /\ leased = {} /\ commits = 0

Edit ==
  /\ edits < MaxEdits /\ commits < MaxCommits
  /\ edits' = edits + 1
  /\ \/ \E f \in DOMAIN Offers : \E v \in Offers[f] : draft' = [draft EXCEPT ![f] = v]
     \/ \E n \in Ports, f \in DOMAIN PortOffers : \E v \in PortOffers[f] :
          draft' = [draft EXCEPT !.port[n][f] = v]
  /\ UNCHANGED <<config, device, leased, commits>>

ApplySuggestions ==
  /\ draft' = Suggested(draft)
  /\ UNCHANGED <<edits, config, device, leased, commits>>

\* The validated draft becomes the configuration the switch is to run.
Commit ==
  /\ commits < MaxCommits /\ draft # config /\ ValidConfig(draft)
  /\ config' = draft /\ edits' = 0 /\ commits' = commits + 1
  /\ UNCHANGED <<draft, device, leased>>

\* A daemon (external) programs one register group as it was told.
Program ==
  /\ \E g \in RegisterGroups :
       /\ device[g] # Compiled(config)[g]
       /\ device' = [device EXCEPT ![g] = Compiled(config)[g]]
       /\ leased' = IF g[1] = "pfc" THEN leased \ {g[2]} ELSE leased
  /\ UNCHANGED <<draft, edits, config, commits>>

\* The watchdog of a port (external) releases reception, and restores it.
Release ==
  /\ \E n \in Ports \ leased :
       /\ device[<<"pfc", n>>].rx # {} /\ device[<<"pfc", n>>].watchdog[1] > 0
       /\ leased' = leased \cup {n}
  /\ UNCHANGED <<draft, edits, config, device, commits>>
Resume ==
  /\ \E n \in leased : leased' = leased \ {n}
  /\ UNCHANGED <<draft, edits, config, device, commits>>

RoceNext == Edit \/ ApplySuggestions \/ Commit \/ Program \/ Release \/ Resume

RoceSpec == RoceInit /\ [][RoceNext]_roceVars

(***************************************************************************)
(* Properties.                                                             *)
(***************************************************************************)

\* When every group holds what the codec sent, the read-back says that the
\* configuration is applied: codec and decoder, written apart, agree on every
\* draft that passes the checks (netlab_codec.py, roce.py, dcbx.py).
FaithfulIsApplied == device = Compiled(config) => Applied(config)

\* What the read-back calls applied is lossless for the data class alone: no
\* register group an earlier configuration left behind is overlooked.  Only
\* priority 3, and no internal one, reaches TC3, the only class of the
\* lossless partition; in DSCP mode only the two code points are classified
\* and only priority 6 reaches TC7; only the selected ports pause, and class
\* 3 only; no other class is strict; and the advertised ETS shares are the
\* quanta the scheduler runs.
AppliedIsLossless ==
  Applied(config) /\ config.enabled =>
    LET forwarding == device[<<"forwarding", 0>>]
        code == device[<<"dscp", 0>>]
        dscp == config.classification = "dscp"
    IN /\ {p \in Priorities : forwarding[p] = 3} = {3}
       /\ {tc \in Tcs : device[<<"partition", 0>>][tc] = 1} = {3}
       /\ {d \in Dscps : code[d] = 3} = IF dscp THEN {config.dscp} ELSE {}
       /\ dscp => /\ {d \in Dscps : code[d] = 6} = {config.cnp}
                  /\ {p \in Priorities : forwarding[p] = CnpTc} = {CnpPriority}
       /\ \A n \in Active(config) :
            LET pfc == device[<<"pfc", n>>]
                group == device[<<"scheduler", n>>]
            IN IF n \notin config.ports THEN pfc.rx = {} /\ pfc.lossless = {}
               ELSE /\ pfc.tx = {3} /\ pfc.lossless = {1} /\ pfc.shared = {1}
                    /\ pfc.rx = {3}
                    /\ n \in leased => pfc.watchdog[1] > 0
                    /\ {tc \in Tcs : group[tc].strict} = IF dscp THEN {CnpTc} ELSE {}
                    /\ device[<<"dcbx", n>>].seen =>
                         \A tc \in device[<<"dcbx", n>>].policy.ets :
                           group[tc].quantum = 2 * Frame(config.port[n].mtu) *
                             device[<<"dcbx", n>>].policy.bandwidth[tc]

\* If every issue the page shows stands at a field it suggests a change for,
\* then the draft with the suggestions applied can be committed.
Changed(c, d) ==
  {<<0, f>> : f \in {g \in DOMAIN c \ {"port"} : c[g] # d[g]}} \cup
  {q \in Ports \X {"enabled", "lldp", "egress", "ingress"} : c.port[q[1]][q[2]] # d.port[q[1]][q[2]]}
SuggestionsSuffice ==
  BaseValid(draft) /\ Issues(draft) \subseteq Changed(draft, Suggested(draft))
    => ValidConfig(Suggested(draft))

\* The advertised shares are percentages: at least one for each ETS class,
\* none for the strict class, a hundred together, and never less for a class
\* that weighs more.
SharesAreWhole ==
  LET classes == EtsClasses(draft)
      share == Shares(classes, draft.weights)
  IN /\ Over8(share) = 100
     /\ \A tc \in Tcs : (share[tc] > 0) <=> (tc \in classes)
     /\ \A a, b \in classes : draft.weights[a] > draft.weights[b] => share[a] >= share[b]
=============================================================================
