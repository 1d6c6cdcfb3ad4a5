------------------------------ MODULE MCReport ------------------------------
(* Instance of Report: a target of each kind of profile, by name or by       *)
(* literal address.                                                          *)
EXTENDS Report

Target(identity, literal, protocol) ==
    [identity |-> identity, literal |-> literal, protocol |-> protocol,
     transport |-> IF protocol = "dns" THEN "udp" ELSE "tcp",
     candidates |-> <<>>, selected |-> Nil, tested |-> Nil, attempts |-> <<>>]

MCTargets ==
    {Target("host.example", Nil, p) : p \in {"https", "ssh", "smb", "dns", "custom_tls"}}
      \cup {Target("192.0.2.1", "192.0.2.1", p) : p \in {"https", "custom", "rdp"}}

=============================================================================
