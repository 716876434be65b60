----------------------------- MODULE Extraction -----------------------------
(***************************************************************************)
(* observer.issue_extractor: from the seven qmicli queries of a probe to   *)
(* the snapshot the policy reads, with QmiWrapper.classify in front of     *)
(* each and the parsers of qmi.parsers behind it.  What qmicli prints is a *)
(* function from the lines it contains to their values: any line may be    *)
(* missing, and without the one its parser looks for first an answer is as *)
(* good as none.                                                           *)
(***************************************************************************)
EXTENDS Sequences, Naturals

Queries == <<"signal", "serving", "sim", "data", "profile", "settings", "operating_mode">>
QueryNames == {Queries[i] : i \in DOMAIN Queries}

Errors == {"timeout", "proxy_died", "non_zero_exit"}

\* A time-out hides a dead proxy, which hides the exit code.
Classify(timedOut, proxyDied, exitOk) ==
    IF timedOut THEN "timeout"
    ELSE IF proxyDied THEN "proxy_died"
    ELSE IF ~exitOk THEN "non_zero_exit" ELSE "none"

-----------------------------------------------------------------------------
(* qmi.parsers *)

Line(lines, name) == IF name \in DOMAIN lines THEN lines[name] ELSE "none"

\* Each metric stands in a line of its own, any of which may be missing.
ParseSignal(lines) == [q \in {"rsrp", "rsrq", "snr"} |-> Line(lines, q)]

Unregistered ==
    [x \in {"denied", "not-registered-denied", "not-registered-searching",
            "not-registered-idle"} |->
       CASE x = "not-registered-searching" -> "not_registered_searching"
         [] x = "not-registered-idle"      -> "not_registered_idle"
         [] OTHER                          -> "not_registered_denied"]

\* A missing roaming line counts as "off", any other word than "on" as unknown.
ParseServing(lines) ==
    IF "state" \notin DOMAIN lines THEN "unreadable"
    ELSE IF Line(lines, "roaming") \notin {"none", "off", "on"} THEN "unknown"
    ELSE CASE lines.state = "registered" ->
                IF Line(lines, "roaming") = "on" THEN "registered_roaming" ELSE "registered_home"
           [] lines.state \in DOMAIN Unregistered -> Unregistered[lines.state]
           [] OTHER -> "unknown"

\* set_apn needs both codes of the operator; qmicli prints them together or not
\* at all.
PlmnKnown(lines) == "state" \in DOMAIN lines /\ "plmn" \in DOMAIN lines

NoCard == [card |-> "none", app |-> "none", read |-> FALSE, error |-> "none"]

\* An empty ICCID or IMSI counts as none at all.
ParseSim(lines) ==
    IF "card" \notin DOMAIN lines THEN [NoCard EXCEPT !.error = "missing_field"]
    ELSE [card |-> lines.card, app |-> Line(lines, "app"), error |-> "none",
          read |-> \A id \in {"iccid", "imsi"} : Line(lines, id) \notin {"none", "empty"}]

ParseDataSession(lines) == Line(lines, "connection")

\* Mutant: an answer without the profile block passes for one without an APN.
ParseProfileLoosely(lines) ==
    IF Line(lines, "apn") \in {"none", "empty"} THEN "apn_empty" ELSE lines.apn

\* No APN line and an empty one are the same to extract_issues.
ParseProfile(lines) ==
    IF "index" \notin DOMAIN lines THEN "unreadable"
    ELSE IF Line(lines, "apn") \in {"none", "empty"} THEN "apn_empty" ELSE lines.apn

ParseSettings(lines) == Line(lines, "raw_ip")

ParseOperatingMode(lines) == Line(lines, "mode")

Parse(q, lines) ==
    CASE q = "signal"         -> ParseSignal(lines)
      [] q = "serving"        -> ParseServing(lines)
      [] q = "sim"            -> ParseSim(lines)
      [] q = "data"           -> ParseDataSession(lines)
      [] q = "profile"        -> ParseProfile(lines)
      [] q = "settings"       -> ParseSettings(lines)
      [] q = "operating_mode" -> ParseOperatingMode(lines)

\* The answer of a query that failed.
Failed(q, reason) == IF q = "sim" THEN [NoCard EXCEPT !.error = reason] ELSE Parse(q, << >>)

-----------------------------------------------------------------------------
(* extract_issues *)

ConfigIssues == [apn_empty |-> "apn_empty"]
CardIssues == [absent |-> "sim_card_absent", error |-> "sim_card_error",
               power_down |-> "sim_power_down", unreadable |-> "sim_card_unreadable"]
AppIssues == [detected |-> "sim_app_detected", pin_required |-> "sim_app_pin_required",
              puk_required |-> "sim_app_puk_required", unreadable |-> "sim_app_unreadable"]
RawIpIssues == [N |-> "raw_ip_off"]
SessionIssues == [disconnected |-> "session_disconnected"]
RegistrationIssues == [not_registered_searching |-> "not_registered_searching",
                       not_registered_idle |-> "not_registered_idle",
                       not_registered_denied |-> "denied"]
SimErrorIssues == [proxy_died |-> "qmi_proxy_died", timeout |-> "qmi_timeout"]
ModeIssues == [offline |-> "operating_mode_offline", low_power |-> "operating_mode_low_power"]

\* At most one issue per table: the one its value stands for.
Issue(category, table, value) ==
    IF value \in DOMAIN table THEN <<<<category, table[value]>>>> ELSE << >>

\* A QMI error shows only where the SIM query met it.
ExtractIssues(a) ==
       Issue("config", ConfigIssues, a.profile)
    \o Issue("sim", CardIssues, a.sim.card)
    \o Issue("sim", AppIssues, a.sim.app)
    \o Issue("datapath", RawIpIssues, a.settings)
    \o Issue("datapath", SessionIssues, a.data)
    \o Issue("registration", RegistrationIssues, a.serving)
    \o Issue("qmi", SimErrorIssues, a.sim.error)
    \o Issue("qmi", ModeIssues, a.operating_mode)

\* What the policy gets to see of a probe that came to its end; a card is read
\* when neither its ICCID nor its IMSI came back empty.
ToSnapshot(a) == [issues |-> ExtractIssues(a), signal |-> a.signal,
                  simRead |-> a.sim.read]

\* _timed_out_snapshot, _errored_snapshot and _zao_active_snapshot.
Blank == [issues |-> << >>, signal |-> ParseSignal(<< >>), simRead |-> FALSE]
=============================================================================
