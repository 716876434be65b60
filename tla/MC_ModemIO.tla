------------------------------ MODULE MC_ModemIO ------------------------------
(***************************************************************************)
(* An instance of ModemIO with two modems: what breaks, breaks at the      *)
(* first; the second hangs, and is a line Zao uses.  In the last instance  *)
(* the proxy dies under the first modem and the second is unregistered.    *)
(***************************************************************************)
EXTENDS ModemIO

TwoModems == {1, 2}
FirstFaults == {<<1, "profile">>, <<1, "serving">>}
FirstFlaky == {<<1, "sim">>, <<1, "profile">>, <<1, "write">>, <<1, "read">>,
               <<1, "spawn">>, <<1, "log">>}
SecondFault == {<<2, "serving">>}
ProxyFlaky == {<<1, "sim">>}
=============================================================================
