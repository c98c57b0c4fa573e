--------------------------- MODULE MCNetworkAllow ---------------------------
(* Two jobs share a name with a port; one of them also lists an address of *)
(* version 6, in brackets and on a port.  Of the addresses the name may    *)
(* have one, say 1:2:3:4:5::8, reads as the next, 1:2:3:4:5:0:8:443, once  *)
(* the port is put behind it, and that one as none.                        *)
EXTENDS NetworkAllow

Api == [target |-> "api", port |-> 443]
Lo  == [target |-> "short6", port |-> 80]

TwoLists == [a |-> {Api, Lo}, b |-> {Api}]

Misreadings ==
  [x \in V6 \X Ports |-> IF x = <<"short6", 443>> THEN "long6" ELSE None]
=============================================================================
