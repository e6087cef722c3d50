--------------------------- MODULE MCMeasurement ---------------------------
(***************************************************************************)
(* Three iterations for one tenant.  Of three latencies a fraction of      *)
(* three fifths has a rank between two whole numbers and a value above it; *)
(* the script's 0.95 would be the maximum of so few.                       *)
(***************************************************************************)
EXTENDS Measurement

TenantValues == <<"northstar">>

ThreeFifths == <<3, 5>>
=============================================================================
