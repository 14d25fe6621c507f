---------------------------- MODULE MCExemption ----------------------------
(* Two dividends over years of four trading days, held for two tax years.     *)
EXTENDS Exemption
=============================================================================
