--------------------------- MODULE MCBeastTransport ---------------------------
(* A small instance of BeastTransport for TLC: a plain request and a       *)
(* download, which finds in the cache whatever an earlier one, or an       *)
(* earlier crash, may have left there.                                     *)
EXTENDS BeastTransport

CONSTANTS plain, download, digest

MCRequests == {plain, download}
MCMedia    == {download}
MCHashOf   == [r \in {download} |-> digest]
===============================================================================
