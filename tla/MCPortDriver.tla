---------------------------- MODULE MCPortDriver ----------------------------
(* Instances of PortDriver. *)
EXTENDS PortDriver

\* Every button of the dialog and both handshakes, in two settings.
T(r, p, w, s, h) == [rate |-> r, parity |-> p, word |-> w, stop |-> s, shake |-> h]
FewTexts == { T(115200, "1", "5", "1.5", "0"), T(9600, "2", "7", "2", "1") }
=============================================================================
