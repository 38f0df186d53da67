---------------------------- MODULE MCIpAddrCnt -----------------------------
(* A small instance of IpAddrCnt: an address is a number, its own key.       *)
EXTENDS IpAddrCnt

Address == [ip \in Elem |-> ip]
=============================================================================
