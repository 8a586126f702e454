---------------------------- MODULE MCXdpFilter ----------------------------
(***************************************************************************)
(* An instance of XdpFilter for TLC: two CPUs, addresses of two bytes, and *)
(* configurations with the entries that are easy to get wrong: a list      *)
(* longer than its table, a rule that is no network, a disabled one, one   *)
(* for one port, one for all addresses, and a port of 17 bits.             *)
(***************************************************************************)
EXTENDS XdpFilter, TLC

Rule(valid, network, prefix, port, enabled) ==
    [valid |-> valid, network |-> network, prefix |-> prefix, port |-> port, enabled |-> enabled]

MCPacket ==
    {[port |-> 8081, src |-> <<1, 10>>, tcp |-> TRUE],
     [port |-> 10000, src |-> <<7, 20>>, tcp |-> FALSE]}

MCConfig ==
    {Empty,
     [rules |-> <<Rule(TRUE, <<10, 3>>, 1, 0, TRUE), Rule(TRUE, <<0, 0>>, 0, 0, FALSE)>>,
      ports |-> <<8081, 65536, 10000>>],
     [rules |-> <<Rule(FALSE, <<0, 0>>, 0, 0, TRUE), Rule(TRUE, <<0, 0>>, 0, 75536, TRUE),
                  Rule(TRUE, <<10, 1>>, 2, 0, TRUE)>>,
      ports |-> <<10000, 8081, 65536>>]}
=============================================================================
