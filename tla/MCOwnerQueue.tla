---------------------------- MODULE MCOwnerQueue ----------------------------
\* Two web requests (priority 0, no key), two samplers under the telemetry key
\* (priority 10) and an optics refresh (priority 20), over a queue of two.
EXTENDS OwnerQueue

CONSTANTS web1, web2, sample1, sample2, optics, telemetryKey, opticsKey, k1, k2

MCClients == {web1, web2, sample1, sample2, optics}
MCPriority == [c \in MCClients |-> CASE c \in {web1, web2} -> 0
                                     [] c \in {sample1, sample2} -> 10
                                     [] OTHER -> 20]
MCKey == [c \in MCClients |-> CASE c \in {web1, web2} -> NoKey
                                [] c \in {sample1, sample2} -> telemetryKey
                                [] OTHER -> opticsKey]
MCClosers == {k1, k2}
=============================================================================
