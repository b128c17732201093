-------------------------------- MODULE MCCrawl --------------------------------
(***************************************************************************)
(* Instances of Crawl for TLC: a site, by its name, and a host inside the  *)
(* network, by its address; and a site that never answers before one that  *)
(* does.                                                                   *)
(***************************************************************************)
EXTENDS Crawl

CONSTANTS site, down, private, public, a, b, c1

MCUrl == <<private, site>>
MCDownUrl == <<down, site>>
MCDirectory == <<a>>
MCAbove == [h \in Hosts |-> {}]
MCIs == [addr \in Addresses |-> IF addr = private THEN {"private"} ELSE {}]
================================================================================
