--------------------------- MODULE MCLicenseClient ---------------------------
(* Instances of LicenseClient for TLC.                                     *)
EXTENDS LicenseClient

CONSTANT c1
=============================================================================
