------------------------------ MODULE MCWasmShm ------------------------------
(* The instance of WasmShm that TLC checks.                                 *)
EXTENDS WasmShm, TLC

\* A number has one digit, and a sign that makes it longer.
MCMinInt == -1
MCMaxInt == 1
MCDeltas == {-1, 1}
MCStoredValues == {Text, 0}
MCSymmetry == Permutations(Workers) \cup Permutations(Keys)
=============================================================================
