----------------------------- MODULE MCIcmpProbe -----------------------------
(* Two checks at once, of one host or of two, and two identifiers, so that  *)
(* the checks may draw the same.                                            *)
EXTENDS IcmpProbe

CONSTANTS p1, p2, h1, h2
=============================================================================
