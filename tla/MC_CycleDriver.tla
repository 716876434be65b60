--------------------------- MODULE MC_CycleDriver ---------------------------
(***************************************************************************)
(* Instances of CycleDriver.  The snapshots are ones                       *)
(* observer.extract_issues and orchestrator.py can produce.                *)
(***************************************************************************)
EXTENDS CycleDriver, TLC

AllOk == [q \in Metrics |-> "ok"]

Snap(issues, signal, simRead) == [issues |-> issues, signal |-> signal, simRead |-> simRead]

Clean == Snap(<< >>, AllOk, TRUE)
Searching == Snap(<<<<"registration", "not_registered_searching">>>>, AllOk, TRUE)
Disconnected == Snap(<<<<"datapath", "session_disconnected">>>>, AllOk, TRUE)
\* The proxy died under the SIM query, so there is no ICCID either.
ProxyDied == Snap(<<<<"qmi", "qmi_proxy_died">>>>, AllOk, FALSE)
WithProxy == {Clean, Disconnected, ProxyDied}

\* Cards are only compared for equality.
AnyCard == Permutations(Iccids)
=============================================================================
