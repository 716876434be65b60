-------------------------- MODULE MC_PolicyEngine ---------------------------
(***************************************************************************)
(* Instances of PolicyEngine.  Observable is what observer.extract_issues  *)
(* can emit, one snapshot per way the rules can treat it; Hung adds the    *)
(* qmi_channel_hung issue, which only fixtures and replay traces carry.    *)
(***************************************************************************)
EXTENDS PolicyEngine, TLC

AllOk == [q \in Metrics |-> "ok"]
LowRsrp == [AllOk EXCEPT !["rsrp"] = "low"]
NoSnr == [AllOk EXCEPT !["snr"] = "none"]

Snap(issues, signal) == [issues |-> issues, signal |-> signal]

Clean == Snap(<< >>, AllOk)
Searching == Snap(<<<<"registration", "not_registered_searching">>>>, AllOk)
Disconnected == Snap(<<<<"datapath", "session_disconnected">>>>, AllOk)
DisconnectedLow == Snap(<<<<"datapath", "session_disconnected">>>>, LowRsrp)
\* The observer appends proxy_died before the operating mode.
ProxyDied == Snap(<<<<"qmi", "qmi_proxy_died">>, <<"qmi", "operating_mode_offline">>>>, NoSnr)
PinAndSearching == Snap(<<<<"sim", "sim_app_pin_required">>,
                          <<"registration", "not_registered_searching">>>>, AllOk)
NoIssueLow == Snap(<< >>, LowRsrp)

Observable == {Clean, NoIssueLow, Searching, Disconnected, DisconnectedLow,
               ProxyDied, PinAndSearching}

Hung == Snap(<<<<"qmi", "qmi_channel_hung">>>>, AllOk)
Fleet == {Clean, Hung}

\* The modems of the fleet are only compared for equality.
Alike == Permutations(Modems)
=============================================================================
