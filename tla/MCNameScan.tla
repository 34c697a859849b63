----------------------------- MODULE MCNameScan -----------------------------
(* Instances of NameScan for TLC.                                             *)
EXTENDS NameScan

CONSTANTS s1, s2, s3, s4, scan1

\* Named, silent, without a name, named.
SomeSlots == <<s1, s2, s3, s4>>
=============================================================================
