---------------------------- MODULE MCDriverIni ----------------------------
(* Three ports, two of which the simple dialog offers; one name has two digits. *)
EXTENDS DriverIni
MCNames == 1..3
MCShort == {1, 2}
MCStd == {1, 2}
=============================================================================
