------------------------ MODULE MCCapabilityGrants ------------------------
(* Two sessions and, between them, a few grants. *)
EXTENDS CapabilityGrants, TLC

CONSTANTS s1, s2, cookieExport, cdpAttach

MCSessions == {s1, s2}
MCCapabilities == {cookieExport, cdpAttach}
MCEnabled == {cookieExport}
MCSymmetry == Permutations(MCSessions)
=============================================================================
