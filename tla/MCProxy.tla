------------------------------ MODULE MCProxy ------------------------------
(* Proxy for TLC: a site, the local endpoint as one of its subdomains, and *)
(* an address. *)
EXTENDS Proxy, TLC

CONSTANTS site

MCSubdomain == {<<Local, site>>}
=============================================================================
