------------------------------ MODULE XdpFilter ------------------------------
(***************************************************************************)
(* The packet filter of the log receiver: xdp_filter.c, which runs in the  *)
(* kernel on every CPU that receives packets, and the tables it shares     *)
(* with xdp_manager.py, which rewrites two of them while packets pass and  *)
(* reads the third.                                                        *)
(*                                                                         *)
(* Modelled are the packets the filter looks up and counts, TCP and UDP    *)
(* over IPv4; it lets others through, or drops them as malformed, without  *)
(* touching a table.  The byte counters move with the packet counters, the *)
(* counters of syslog and API packets with those of UDP and TCP.  The      *)
(* program stays loaded; what bcc returns is taken to be what the manager  *)
(* reads it as.                                                            *)
(***************************************************************************)
EXTENDS Integers, Sequences, FiniteSets

CONSTANTS
    NCpu,          \* CPUs
    Bytes,         \* bytes of an address
    Packet,        \* packets: their source, destination port and protocol
    Config,        \* what the manager is given: rules and ports
    MaxRules,      \* MAX_CIDR_RULES
    MaxPorts,      \* MAX_PORT_RULES
    NoPacket,      \* says that a CPU has no packet
    Mixed,         \* says that a table is being written, or was not written whole
    MaxPacket,     \* bound: packets
    MaxReload,     \* bound: calls of reload_config
    MaxFailure     \* bound: table writes that raise

Cpu     == 1..NCpu
Size8   == 256
Size16  == Size8 * Size8
Byte    == 0..(Size8 - 1)
UInt16  == 0..(Size16 - 1)
Address == [1..Bytes -> Byte]
Entry   == [valid : BOOLEAN, network : Address, prefix : 0..Bytes, port : Nat, enabled : BOOLEAN]
Empty   == [rules |-> <<>>, ports |-> <<>>]

ASSUME SizesAssumption ==
    /\ NCpu \in Nat /\ Bytes \in Nat /\ MaxRules \in Nat /\ MaxPorts \in Nat
    /\ MaxPacket \in Nat /\ MaxReload \in Nat /\ MaxFailure \in Nat

ASSUME PacketAssumption ==
    /\ Packet \subseteq [src : Address, port : UInt16, tcp : BOOLEAN]
    /\ NoPacket \notin Packet

ASSUME ConfigAssumption ==
    /\ \A g \in Config : g.ports \in Seq(Nat) /\ g.rules \in Seq(Entry)
    /\ Empty \in Config /\ Mixed \notin Config

VARIABLES
    rules,         \* cidr_rules
    ports,         \* allowed_ports
    stats,         \* xdp_statistics, one row per CPU
    (* the filter *)
    step, packet, slot, allowed,
    (* the manager *)
    at,            \* where it is
    idx,           \* the row it writes, or the word of the statistics it copies
    words,         \* the words of that row still to be written
    config,        \* the argument of reload_config
    whole,         \* no row of this update was left out
    cpu,           \* the CPU whose row of the statistics it copies
    sum,           \* total_stats
    (* bounds *)
    packets, reloads, failures,
    (* history, which no action reads *)
    ruleTable,     \* the configuration that rules holds, or Mixed
    portTable,     \* the configuration that ports holds, or Mixed
    undisturbed    \* both were whole when the packet came, and still are

filter  == <<step, packet, slot, allowed, packets>>
reading == <<cpu, sum>>
writing == <<rules, ports, words, config, whole, reloads, failures, ruleTable, portTable>>
xdp     == <<rules, ports, stats, filter, at, idx, words, config, whole, reading,
             reloads, failures, ruleTable, portTable, undisturbed>>

(* A row of cidr_rules is two words: the network and mask, the port and flag. *)
Word    == {"net", "gate"}
Cleared == [net |-> [network |-> [i \in 1..Bytes |-> 0], mask |-> {}],
            gate |-> [port |-> 0, enabled |-> FALSE]]

Wrap(n) == n % Size16    \* c_uint16

\* update_cidr_rules: the network address of the rule, in the host's byte order,
\* and its mask, as the set of the bytes it covers.
Row(e) ==
    [net  |-> [network |-> [i \in 1..Bytes |-> IF i <= e.prefix THEN e.network[i] ELSE 0],
               mask |-> 1..e.prefix],
     gate |-> [port |-> Wrap(e.port), enabled |-> e.enabled]]

\* A packet's address as a little-endian CPU loads it: the last byte is the first.
Loaded(a) == [i \in 1..Bytes |-> a[Bytes + 1 - i]]

\* check_cidr_match
Matches(a, net) == \A i \in net.mask : a[i] = net.network[i]
-----------------------------------------------------------------------------
(* xdp_filter_func *)

GoOn(c, where) == step' = [step EXCEPT ![c] = where]

Receive(c, p) ==
    /\ step[c] = "idle"
    /\ packets < MaxPacket
    /\ packets' = packets + 1
    /\ packet' = [packet EXCEPT ![c] = p]
    /\ undisturbed' = [undisturbed EXCEPT ![c] = ruleTable # Mixed /\ portTable # Mixed]
    /\ GoOn(c, "ports")
    /\ UNCHANGED <<slot, allowed, stats, at, idx, reading, writing>>

\* check_port_allowed: the first row that is 0 ends the list.
LookAtPort(c) ==
    /\ step[c] = "ports"
    /\ \/ /\ slot[c] <= MaxPorts => ports[slot[c]] = 0
          /\ GoOn(c, "total")
          /\ UNCHANGED slot
       \/ /\ slot[c] <= MaxPorts /\ ports[slot[c]] # 0
          /\ IF ports[slot[c]] = packet[c].port
             THEN GoOn(c, "rules") /\ slot' = [slot EXCEPT ![c] = 1]
             ELSE slot' = [slot EXCEPT ![c] = @ + 1] /\ UNCHANGED step
    /\ UNCHANGED <<packet, allowed, packets, undisturbed, stats, at, idx, reading, writing>>

\* The flag and the port of a rule are in one word.
LookAtRule(c) ==
    /\ step[c] = "rules"
    /\ \/ /\ slot[c] > MaxRules
          /\ GoOn(c, "total")
          /\ UNCHANGED slot
       \/ /\ slot[c] <= MaxRules
          /\ LET gate == rules[slot[c]].gate
             IN  IF gate.enabled /\ gate.port \in {0, packet[c].port}
                 THEN GoOn(c, "match") /\ UNCHANGED slot
                 ELSE slot' = [slot EXCEPT ![c] = @ + 1] /\ UNCHANGED step
    /\ UNCHANGED <<packet, allowed, packets, undisturbed, stats, at, idx, reading, writing>>

\* The network and the mask are in the other, which may have changed meanwhile.  So may
\* the flag, which check_cidr_match asks again unless the compiler keeps the first answer.
MatchRule(c) ==
    /\ step[c] = "match"
    /\ \/ /\ Matches(Loaded(packet[c].src), rules[slot[c]].net)
          /\ allowed' = [allowed EXCEPT ![c] = TRUE]
          /\ GoOn(c, "total")
          /\ UNCHANGED slot
       \/ /\ \/ ~Matches(Loaded(packet[c].src), rules[slot[c]].net)
             \/ ~rules[slot[c]].gate.enabled
          /\ slot' = [slot EXCEPT ![c] = @ + 1]
          /\ GoOn(c, "rules")
          /\ UNCHANGED allowed
    /\ UNCHANGED <<packet, packets, undisturbed, stats, at, idx, reading, writing>>

(* update_stats *)
Counters == <<"total", "allowed", "blocked", "tcp", "udp">>
Counter  == {Counters[i] : i \in 1..5}
NoCount  == [k \in Counter |-> 0]

Verdict(c) == IF allowed[c] THEN "allowed" ELSE "blocked"

Kind(c) == IF packet[c].tcp THEN "tcp" ELSE "udp"

Count(c, S) == stats' = [stats EXCEPT ![c] =
                           [k \in Counter |-> stats[c][k] + IF k \in S THEN 1 ELSE 0]]

CountTotal(c) ==
    /\ step[c] = "total"
    /\ Count(c, {"total"})
    /\ GoOn(c, "verdict")
    /\ UNCHANGED <<packet, slot, allowed, packets, undisturbed, at, idx, reading, writing>>

\* A mutant of CountVerdict: a packet that no port allows is not counted blocked.
CountVerdictOfAllowed(c) ==
    /\ step[c] = "verdict"
    /\ Count(c, IF allowed[c] THEN {"allowed"} ELSE {})
    /\ GoOn(c, "kind")
    /\ UNCHANGED <<packet, slot, allowed, packets, undisturbed, at, idx, reading, writing>>

CountVerdict(c) ==
    /\ step[c] = "verdict"
    /\ Count(c, {Verdict(c)})
    /\ GoOn(c, "kind")
    /\ UNCHANGED <<packet, slot, allowed, packets, undisturbed, at, idx, reading, writing>>

\* XDP_PASS or XDP_DROP, as allowed says.
CountKind(c) ==
    /\ step[c] = "kind"
    /\ Count(c, {Kind(c)})
    /\ GoOn(c, "idle")
    /\ packet' = [packet EXCEPT ![c] = NoPacket]
    /\ slot' = [slot EXCEPT ![c] = 1]
    /\ allowed' = [allowed EXCEPT ![c] = FALSE]
    /\ undisturbed' = [undisturbed EXCEPT ![c] = FALSE]
    /\ UNCHANGED <<packets, at, idx, reading, writing>>
-----------------------------------------------------------------------------
(* update_cidr_rules and update_allowed_ports, called by reload_config *)

Disturb == undisturbed' = [c \in Cpu |-> FALSE]

Move(where) == at' = where /\ idx' = 1

Stay == UNCHANGED <<rules, ports, words, config, whole, reloads, failures>>

\* A mutant of Reload: the new rules are written over the old ones.
ReloadOver(g) ==
    /\ at = "idle"
    /\ reloads < MaxReload
    /\ reloads' = reloads + 1
    /\ config' = g
    /\ whole' = TRUE
    /\ ruleTable' = Mixed
    /\ Move("fillRules")
    /\ Disturb
    /\ UNCHANGED <<rules, ports, words, failures, portTable, stats, filter, reading>>

Reload(g) ==
    /\ at = "idle"
    /\ reloads < MaxReload
    /\ reloads' = reloads + 1
    /\ config' = g
    /\ whole' = TRUE
    /\ ruleTable' = Mixed
    /\ Move("clearRules")
    /\ Disturb
    /\ UNCHANGED <<rules, ports, words, failures, portTable, stats, filter, reading>>

\* One row is written: the two words, in either order.
WriteRule(row) ==
    \E w \in words :
        /\ rules' = [rules EXCEPT ![idx][w] = row[w]]
        /\ IF words = {w} THEN words' = Word /\ idx' = idx + 1
                          ELSE words' = words \ {w} /\ UNCHANGED idx

ClearRule ==
    /\ at = "clearRules" /\ idx <= MaxRules
    /\ WriteRule(Cleared)
    /\ UNCHANGED <<at, ports, config, whole, reloads, failures, ruleTable, portTable,
                   undisturbed, stats, filter, reading>>

RulesCleared ==
    /\ at = "clearRules" /\ idx > MaxRules
    /\ Move("fillRules")
    /\ Stay
    /\ UNCHANGED <<ruleTable, portTable, undisturbed, stats, filter, reading>>

\* An exception: the update ends, reload_config goes on.
ClearRuleFails ==
    /\ at = "clearRules" /\ idx <= MaxRules /\ words = Word
    /\ failures < MaxFailure
    /\ failures' = failures + 1
    /\ Move("clearPorts")
    /\ portTable' = Mixed
    /\ Disturb
    /\ UNCHANGED <<rules, ports, words, config, whole, reloads, ruleTable, stats, filter, reading>>

\* The rules beyond the table's size are not looked at.
AtEntry == at = "fillRules" /\ idx <= MaxRules /\ idx <= Len(config.rules)

AddRule ==
    /\ AtEntry
    /\ config.rules[idx].valid
    /\ WriteRule(Row(config.rules[idx]))
    /\ UNCHANGED <<at, ports, config, whole, reloads, failures, ruleTable, portTable,
                   undisturbed, stats, filter, reading>>

\* Not an IPv4 network: the row stays cleared.
SkipRule ==
    /\ AtEntry
    /\ ~config.rules[idx].valid
    /\ idx' = idx + 1
    /\ Stay
    /\ UNCHANGED <<at, ruleTable, portTable, undisturbed, stats, filter, reading>>

\* The write raises: the rule is left out and the update goes on.
AddRuleFails ==
    /\ AtEntry
    /\ config.rules[idx].valid /\ words = Word
    /\ failures < MaxFailure
    /\ failures' = failures + 1
    /\ whole' = FALSE
    /\ idx' = idx + 1
    /\ UNCHANGED <<at, rules, ports, words, config, reloads, ruleTable, portTable,
                   undisturbed, stats, filter, reading>>

RulesFilled ==
    /\ at = "fillRules" /\ ~AtEntry
    /\ Move("clearPorts")
    /\ ruleTable' = IF whole THEN config ELSE Mixed
    /\ portTable' = Mixed
    /\ Disturb
    /\ Stay
    /\ UNCHANGED <<stats, filter, reading>>

ClearPort ==
    /\ at = "clearPorts" /\ idx <= MaxPorts
    /\ ports' = [ports EXCEPT ![idx] = 0]
    /\ idx' = idx + 1
    /\ UNCHANGED <<at, rules, words, config, whole, reloads, failures, ruleTable, portTable,
                   undisturbed, stats, filter, reading>>

PortsCleared ==
    /\ at = "clearPorts" /\ idx > MaxPorts
    /\ Move("fillPorts")
    /\ Stay
    /\ UNCHANGED <<ruleTable, portTable, undisturbed, stats, filter, reading>>

\* A mutant of AtPort: a list longer than the table is not cut.
AtPortBeyond == at = "fillPorts" /\ idx <= Len(config.ports)

AtPort == at = "fillPorts" /\ idx <= MaxPorts /\ idx <= Len(config.ports)

AddPort ==
    /\ AtPort
    /\ ports' = [ports EXCEPT ![idx] = Wrap(config.ports[idx])]
    /\ idx' = idx + 1
    /\ UNCHANGED <<at, rules, words, config, whole, reloads, failures, ruleTable, portTable,
                   undisturbed, stats, filter, reading>>

\* An exception, also of a port that is no integer: the update ends, and with it
\* reload_config, which returns True.
PortFails ==
    /\ (at = "clearPorts" /\ idx <= MaxPorts) \/ AtPort
    /\ failures < MaxFailure
    /\ failures' = failures + 1
    /\ Move("idle")
    /\ UNCHANGED <<rules, ports, words, config, whole, reloads, ruleTable, portTable,
                   undisturbed, stats, filter, reading>>

PortsFilled ==
    /\ at = "fillPorts" /\ ~AtPort
    /\ Move("idle")
    /\ portTable' = config
    /\ Stay
    /\ UNCHANGED <<ruleTable, undisturbed, stats, filter, reading>>
-----------------------------------------------------------------------------
(* get_statistics *)

Read ==
    /\ at = "idle"
    /\ Move("read")
    /\ UNCHANGED <<reading, writing, undisturbed, stats, filter>>

\* The rows of the CPUs are copied one after the other, word by word.
CopyWord ==
    /\ at = "read" /\ cpu <= NCpu
    /\ sum' = [sum EXCEPT ![Counters[idx]] = @ + stats[cpu][Counters[idx]]]
    /\ IF idx = 5 THEN cpu' = cpu + 1 /\ idx' = 1 ELSE idx' = idx + 1 /\ UNCHANGED cpu
    /\ UNCHANGED <<at, writing, undisturbed, stats, filter>>

Return ==
    /\ at = "read" /\ cpu > NCpu
    /\ cpu' = 1
    /\ sum' = NoCount
    /\ Move("idle")
    /\ UNCHANGED <<writing, undisturbed, stats, filter>>
-----------------------------------------------------------------------------
\* load_program: the program is attached, its tables are zero.
XdpInit ==
    /\ rules = [i \in 1..MaxRules |-> Cleared]
    /\ ports = [i \in 1..MaxPorts |-> 0]
    /\ stats = [c \in Cpu |-> NoCount]
    /\ step = [c \in Cpu |-> "idle"]
    /\ packet = [c \in Cpu |-> NoPacket]
    /\ slot = [c \in Cpu |-> 1]
    /\ allowed = [c \in Cpu |-> FALSE]
    /\ at = "idle"
    /\ idx = 1
    /\ words = Word
    /\ config = Empty
    /\ whole = TRUE
    /\ cpu = 1
    /\ sum = NoCount
    /\ packets = 0 /\ reloads = 0 /\ failures = 0
    /\ ruleTable = Empty
    /\ portTable = Empty
    /\ undisturbed = [c \in Cpu |-> FALSE]

Filter(c) ==
    \/ \E p \in Packet : Receive(c, p)
    \/ LookAtPort(c) \/ LookAtRule(c) \/ MatchRule(c)
    \/ CountTotal(c) \/ CountVerdict(c) \/ CountKind(c)

Manage ==
    \/ \E g \in Config : Reload(g)
    \/ ClearRule \/ ClearRuleFails \/ RulesCleared
    \/ AddRule \/ SkipRule \/ AddRuleFails \/ RulesFilled
    \/ ClearPort \/ PortsCleared \/ AddPort \/ PortFails \/ PortsFilled
    \/ Read \/ CopyWord \/ Return

XdpNext == (\E c \in Cpu : Filter(c)) \/ Manage

XdpSpec == XdpInit /\ [][XdpNext]_xdp
-----------------------------------------------------------------------------
(* Properties *)

TableRow == [net : [network : Address, mask : SUBSET (1..Bytes)],
         gate : [port : UInt16, enabled : BOOLEAN]]

XdpTypeOK ==
    /\ rules \in [1..MaxRules -> TableRow]
    /\ ports \in [1..MaxPorts -> UInt16]
    /\ stats \in [Cpu -> [Counter -> 0..MaxPacket]]
    /\ step \in [Cpu -> {"idle", "ports", "rules", "match", "total", "verdict", "kind"}]
    /\ packet \in [Cpu -> Packet \union {NoPacket}]
    /\ slot \in [Cpu -> Nat]
    /\ \A c \in Cpu : step[c] = "match" => slot[c] \in 1..MaxRules
    /\ allowed \in [Cpu -> BOOLEAN]
    /\ at \in {"idle", "clearRules", "fillRules", "clearPorts", "fillPorts", "read"}
    /\ words \in (SUBSET Word) \ {{}}
    /\ config \in Config
    /\ idx \in Nat \ {0}
    /\ at \in {"clearRules", "fillRules"} => idx <= MaxRules + 1
    /\ at \in {"clearPorts", "fillPorts"} => idx <= MaxPorts + 1
    /\ at = "read" => idx <= 5 /\ cpu \in 1..(NCpu + 1)
    /\ sum \in [Counter -> Nat]
    /\ whole \in BOOLEAN /\ cpu \in Nat
    /\ packets \in 0..MaxPacket /\ reloads \in 0..MaxReload
    /\ failures \in 0..MaxFailure
    /\ ruleTable \in Config \union {Mixed} /\ portTable \in Config \union {Mixed}
    /\ undisturbed \in [Cpu -> BOOLEAN]

(* What a configuration says of a packet *)

\* A port is listed among those the table has room for, and before the first that
\* is a multiple of 65536.
Listed(g, port) ==
    \E i \in 1..MaxPorts :
        /\ i <= Len(g.ports) /\ Wrap(g.ports[i]) = port
        /\ \A j \in 1..i : Wrap(g.ports[j]) # 0

\* A rule applies to the addresses that, read from the last byte to the first, are
\* in its network.
Applies(e, p) ==
    /\ e.valid /\ e.enabled
    /\ Wrap(e.port) \in {0, p.port}
    /\ \A i \in 1..e.prefix : p.src[Bytes + 1 - i] = e.network[i]

Decision(rg, pg, p) ==
    /\ Listed(pg, p.port)
    /\ \E i \in 1..MaxRules : i <= Len(rg.rules) /\ Applies(rg.rules[i], p)

\* While no table is being rewritten, the filter decides as the configurations
\* that were last written whole say, and not by rows that earlier, longer or
\* interrupted ones left behind.
SettledVerdict ==
    \A c \in Cpu : undisturbed[c] /\ step[c] \in {"total", "verdict", "kind"} =>
        allowed[c] = Decision(ruleTable, portTable, packet[c])

\* The statistics are read while every CPU goes on counting.  The verdicts that
\* they report lag behind the packets, and the protocols behind the verdicts, by
\* one at most for each CPU that had a packet; the other way round there is no
\* bound.
Busy == Cardinality({c \in Cpu : stats[c]["total"] > 0})

VerdictsKeepUp ==
    at = "read" /\ cpu > NCpu =>
        /\ sum["allowed"] + sum["blocked"] >= sum["total"] - Busy
        /\ sum["tcp"] + sum["udp"] >= sum["allowed"] + sum["blocked"] - Busy
=============================================================================
