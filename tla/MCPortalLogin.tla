--------------------------- MODULE MCPortalLogin ---------------------------
(***************************************************************************)
(* PortalLogin on networks that differ in what the rules tell apart.       *)
(***************************************************************************)
EXTENDS PortalLogin, TLC

CONSTANTS u1, u2

Net(transport, wired, ssid, https, trusted, profile) ==
    [transport |-> transport, wired |-> wired, ssid |-> ssid, https |-> https,
     trusted |-> trusted, profile |-> profile]

MCOrders == {<<u1, u2>>}
MCNetworks == {Net("wifi", FALSE, "Type2", TRUE, TRUE, "none"),
               Net("wifi", FALSE, "Type1", FALSE, TRUE, "none"),
               Net("ethernet", TRUE, "none", TRUE, TRUE, "none"),
               Net("other", FALSE, "Type2", TRUE, FALSE, "Type3")}
=============================================================================
