--------------------------- MODULE ModemIO_proofs ---------------------------
(***************************************************************************)
(* Theorems about ModemIO, for every set of modems, every fault, every     *)
(* line Zao may use and every time limit.                                  *)
(***************************************************************************)
EXTENDS ModemIO, SequenceTheorems, FiniteSetTheorems, WellFoundedInduction, TLAPS

Reports == [kind : ActionKinds \cup {NoAction}, how : Outcomes]

\* What the variables hold.
Typed ==
    /\ phase \in {"idle", "observe", "act", "down"}
    /\ age \in Nat /\ step \in Nat /\ pause \in Nat
    /\ pending \subseteq Modems /\ held \subseteq Modems /\ strays \subseteq Modems
    /\ DOMAIN snaps \subseteq Modems
    /\ DOMAIN plan \subseteq Modems /\ toRun \subseteq DOMAIN plan
    /\ phase /= "act" => toRun = {}
    /\ \A m \in DOMAIN plan : plan[m] \in ActionKinds
    /\ report \in [Modems -> Reports]
    /\ bound \subseteq Modems /\ hung \subseteq Modems /\ zao \subseteq ZaoLines
    /\ driver \in BOOLEAN
    /\ wrong \in [Modems -> SUBSET QueryNames]
    /\ leads \in [Modems -> Modems]
    /\ call \in [Modems -> Calls]

-----------------------------------------------------------------------------
(* The calls and the ends of an action *)

\* A child has a stage, a limit and an age, whatever happens to it.
LEMMA CallTypes ==
    /\ NoCall \in Calls
    /\ \A limit \in Nat : Spawned(limit) \in Calls
    /\ \A c \in Calls : Older(c) \in Calls
    /\ \A verb : LimitOf(verb) \in Nat
<1>1. NoCall \in Calls
  BY DEF NoCall, Calls, Stages
<1>2. \A limit \in Nat : Spawned(limit) \in Calls
  BY DEF Spawned, Calls, Stages
<1>3. \A c \in Calls : Older(c) \in Calls
  BY DEF Older, Calls
<1>4. \A verb : LimitOf(verb) \in Nat
  BY ModemIOAssumption DEF ModemIOAssumption, LimitOf
<1>5. QED
  BY <1>1, <1>2, <1>3, <1>4

\* End leaves the types as they are and takes its modem from the list, or empties it.
LEMMA EndTyped ==
    ASSUME Typed, NEW m \in toRun, NEW how \in Outcomes, End(m, how)
    PROVE  /\ phase' \in {"idle", "act"} /\ step' = 0
           /\ toRun' = {} \/ toRun' = toRun \ {m}
           /\ report' \in [Modems -> Reports]
           /\ report'[m] = [kind |-> plan[m], how |-> how]
           /\ \A n \in Modems \ {m} : report'[n] = report[n] /\ call'[n] = call[n]
           /\ call' \in [Modems -> Calls] /\ ~InCall(m)'
<1>1. m \in Modems /\ plan[m] \in ActionKinds
  BY DEF Typed
<1>2. [kind |-> plan[m], how |-> how] \in Reports
  BY <1>1 DEF Reports
<1>3. report' \in [Modems -> Reports] /\ report'[m] = [kind |-> plan[m], how |-> how]
      /\ \A n \in Modems \ {m} : report'[n] = report[n]
  BY <1>1, <1>2 DEF End, Typed
<1>4. call' \in [Modems -> Calls] /\ call'[m] = NoCall
      /\ \A n \in Modems \ {m} : call'[n] = call[n]
  BY <1>1, CallTypes DEF End, Typed
<1>5. ~InCall(m)'
  BY <1>4 DEF InCall, NoCall
<1>6. phase' \in {"idle", "act"} /\ step' = 0 /\ (toRun' = {} \/ toRun' = toRun \ {m})
  BY DEF End
<1>7. QED
  BY <1>3, <1>4, <1>5, <1>6

\* What is to be logged may not be.
LEMMA FinishEnds ==
    ASSUME NEW m, NEW how \in Outcomes, Finish(m, how)
    PROVE  \E h \in {how, "raised"} \cap Outcomes : End(m, h)
  BY DEF Finish, Outcomes

\* Goto starts one call and leaves everything else of the cycle alone.
LEMMA GotoTyped ==
    ASSUME Typed, NEW m \in Modems, NEW i \in Nat, Goto(m, i)
    PROVE  /\ step' = i
           /\ call' \in [Modems -> Calls]
           /\ \A n \in Modems \ {m} : call'[n] = call[n]
           /\ UNCHANGED <<phase, toRun, report>>
<1>1. Spawned(LimitOf(Program(plan[m])[i])) \in Calls
  BY CallTypes
<1>2. QED
  BY <1>1 DEF Goto, Typed

\* Only the modem at the front of the list acts, and there is one front.
LEMMA OneActs ==
    ASSUME Typed, NEW m, NEW n, Acting(m), Acting(n)
    PROVE  m = n
<1>1. m \in Nat /\ n \in Nat
  BY ModemIOAssumption DEF ModemIOAssumption, Typed, Acting, First
<1>2. m <= n /\ n <= m
  BY DEF Acting, First
<1>3. QED
  BY <1>1, <1>2

-----------------------------------------------------------------------------
(* Types *)

ActsOn(m) ==
    \/ Unbind(m) \/ Bind(m) \/ BeginCalls(m) \/ Raises(m)
    \/ \E e \in QmiEnds \cup {"in_use"} : Unloaded(m, e) \/ Loaded(m, e)
    \/ \E e \in QmiEnds : QmiStep(m, e)

\* A step of an action goes on with it or ends it; it leaves the observation, the
\* plans, Zao and what belongs to the other modems alone.
LEMMA ActStep ==
    ASSUME Typed, NEW m \in Modems, ActsOn(m)
    PROVE  /\ Acting(m)
           /\ UNCHANGED <<probeVars, plan, zao>>
           /\ \/ UNCHANGED <<phase, toRun, report>> /\ step' \in Nat
              \/ \E how \in Outcomes : End(m, how)
           /\ call' \in [Modems -> Calls]
           /\ \A n \in Modems \ {m} : call'[n] = call[n] /\ report'[n] = report[n]
<1> DEFINE Goes == UNCHANGED <<phase, toRun, report>> /\ step' \in Nat
<1> DEFINE Ends == \E how \in Outcomes : End(m, how)
<1>1. m \in toRun
      /\ UNCHANGED <<probeVars, plan, zao>> /\ Acting(m)
  BY DEF ActsOn, Unbind, Bind, BeginCalls, Raises, Unloaded, Loaded, QmiStep, Acting, First
<1>2. Ends => /\ call' \in [Modems -> Calls]
              /\ \A n \in Modems \ {m} : call'[n] = call[n] /\ report'[n] = report[n]
  BY <1>1, EndTyped
<1>3. \A i \in Nat : Goto(m, i) =>
         /\ Goes /\ call' \in [Modems -> Calls]
         /\ \A n \in Modems \ {m} : call'[n] = call[n] /\ report'[n] = report[n]
  BY GotoTyped
<1>4. ASSUME UNCHANGED call, Goes
      PROVE  /\ call' \in [Modems -> Calls]
             /\ \A n \in Modems \ {m} : call'[n] = call[n] /\ report'[n] = report[n]
  BY <1>4 DEF Typed
<1>5. /\ \A how \in {"failed", "deferred", "unverified", "verified"} : Finish(m, how) => Ends
      /\ End(m, "raised") => Ends
  BY FinishEnds DEF Outcomes
<1>6. CASE Unbind(m)
  BY <1>1, <1>2, <1>4, <1>5, <1>6 DEF Unbind
<1>7. CASE Bind(m)
  BY <1>1, <1>2, <1>5, <1>7 DEF Bind
<1>13. CASE Raises(m)
  BY <1>1, <1>2, <1>5, <1>13 DEF Raises
<1>8. CASE BeginCalls(m)
  BY <1>1, <1>3, <1>8 DEF BeginCalls
<1>9. CASE \E e \in QmiEnds \cup {"in_use"} : Unloaded(m, e)
  BY <1>1, <1>2, <1>3, <1>5, <1>9 DEF Unloaded
<1>10. CASE \E e \in QmiEnds \cup {"in_use"} : Loaded(m, e)
  <2>1. PICK e \in QmiEnds \cup {"in_use"} : Loaded(m, e)
    BY <1>10
  <2>2. Finish(m, LoadOutcome(e)) /\ LoadOutcome(e) \in {"failed", "deferred"}
    BY <2>1 DEF Loaded, LoadOutcome
  <2>3. QED
    BY <1>1, <1>2, <1>5, <2>2
<1>11. CASE \E e \in QmiEnds : QmiStep(m, e)
  <2>1. PICK e \in QmiEnds : QmiStep(m, e)
    BY <1>11
  <2> DEFINE k == plan[m]
             executing == step <= Len(Execute[k])
             next == IF executing /\ Program(k)[step] = "read" /\ Found(m, Program(k)[step], e)
                       THEN Len(Execute[k]) + 1 ELSE step + 1
  <2>2. \/ Finish(m, IF executing THEN "failed" ELSE "unverified")
        \/ Goto(m, next)
        \/ Finish(m, IF Verify[k] = << >> THEN "deferred" ELSE "verified")
    BY <2>1 DEF QmiStep
  <2>3. next \in Nat
    <3>1. k \in ActionKinds /\ step \in Nat
      BY <1>1 DEF Typed
    <3>2. Len(Execute[k]) \in Nat
      BY <3>1 DEF Execute, ActionKinds, LadderRungs, DestructiveKinds
    <3>3. QED
      BY <3>1, <3>2
  <2>4. CASE Goto(m, next)
    BY <1>1, <1>3, <2>3, <2>4
  <2>5. CASE ~Goto(m, next)
    <3>1. Ends
      BY <1>5, <2>2, <2>5
    <3>2. QED
      BY <1>1, <1>2, <3>1
  <2>6. QED
    BY <2>4, <2>5
<1>12. QED
  BY <1>6, <1>7, <1>8, <1>9, <1>10, <1>11, <1>13 DEF ActsOn

\* Whoever returns from a call may leave a child of its own modem behind.
LEMMA StraysTyped ==
    ASSUME Typed, NEW m \in Modems, NEW e, NEW what,
           Returns(m, what, e) \/ ModprobeReturns(m, e) \/ UNCHANGED strays
    PROVE  strays' \subseteq Modems
  BY DEF Returns, ModprobeReturns, ByForce, Exits, Dies, DrainOver, Typed

\* Before the first cycle there is nothing in hand.
LEMMA InitTyped == Init => Typed
<1> SUFFICES ASSUME Init PROVE Typed
  OBVIOUS
<1>1. NoReport \in Reports
  BY DEF NoReport, Reports, Outcomes
<1>2. QED
  BY <1>1, CallTypes DEF Init, Typed

\* What an action does to the modems is in the same sets as before.
LEMMA WorldTyped ==
    ASSUME Typed, NEW m \in Modems, ActsOn(m)
    PROVE  /\ pause' \in Nat /\ strays' \subseteq Modems
           /\ bound' \subseteq Modems /\ hung' \subseteq Modems /\ driver' \in BOOLEAN
           /\ wrong' \in [Modems -> SUBSET QueryNames]
           /\ leads' \in [Modems -> Modems]
<1> DEFINE Goal == /\ pause' \in Nat /\ strays' \subseteq Modems
                   /\ bound' \subseteq Modems /\ hung' \subseteq Modems /\ driver' \in BOOLEAN
                   /\ wrong' \in [Modems -> SUBSET QueryNames]
                   /\ leads' \in [Modems -> Modems]
<1>1. CASE Unbind(m)
  BY <1>1, ModemIOAssumption DEF Unbind, Typed, ModemIOAssumption
<1>2. CASE Bind(m)
  BY <1>2 DEF Bind, Typed
<1>3. CASE BeginCalls(m)
  BY <1>3 DEF BeginCalls, modemVars, Typed
<1>4. \A e, loaded : AfterModprobe(e, loaded) /\ loaded \in BOOLEAN => driver' \in BOOLEAN
  BY DEF AfterModprobe, Typed
<1>5. ASSUME NEW e \in QmiEnds \cup {"in_use"}, Unloaded(m, e)
      PROVE  Goal
  <2>1. strays' \subseteq Modems /\ driver' \in BOOLEAN
    BY <1>4, <1>5, StraysTyped DEF Unloaded
  <2>2. QED
    BY <1>5, <2>1 DEF Unloaded, Typed
<1>6. ASSUME NEW e \in QmiEnds \cup {"in_use"}, Loaded(m, e)
      PROVE  Goal
  <2>1. strays' \subseteq Modems /\ driver' \in BOOLEAN
    BY <1>4, <1>6, StraysTyped DEF Loaded
  <2>2. leads' \in [Modems -> Modems]
    BY <1>6 DEF Loaded, Numberings, Typed
  <2>3. QED
    BY <1>6, <2>1, <2>2 DEF Loaded, Typed
<1>7. ASSUME NEW e \in QmiEnds, QmiStep(m, e)
      PROVE  Goal
  <2>1. strays' \subseteq Modems
    BY <1>7, StraysTyped DEF QmiStep
  <2>2. leads[m] \in Modems
    BY DEF Typed
  <2>3. Effect(leads[m], plan[m], e) \/ UNCHANGED <<hung, wrong>>
    BY <1>7 DEF QmiStep
  <2>4. hung' \subseteq Modems /\ wrong' \in [Modems -> SUBSET QueryNames]
    BY <2>2, <2>3 DEF Effect, Typed
  <2>5. QED
    BY <1>7, <2>1, <2>4 DEF QmiStep, Typed
<1>8. CASE Raises(m)
  BY <1>8 DEF Raises, CannotSpawn, modemVars, Typed
<1>9. QED
  BY <1>1, <1>2, <1>3, <1>5, <1>6, <1>7, <1>8 DEF ActsOn

\* Every action, one after the other.
LEMMA TypedStep == Typed /\ [Next]_vars => Typed'
<1> SUFFICES ASSUME Typed, [Next]_vars PROVE Typed'
  OBVIOUS
<1> USE DEF actionVars, probeVars, modemVars, subprocVars
<1>1. ASSUME NEW m \in Modems, ActsOn(m)
      PROVE  Typed'
  <2>1. /\ step' \in Nat /\ phase' \in {"idle", "observe", "act", "down"}
        /\ toRun' \subseteq DOMAIN plan /\ (phase' /= "act" => toRun' = {})
        /\ report' \in [Modems -> Reports]
    <3>1. m \in toRun
      BY <1>1, ActStep DEF Acting, First
    <3>2. CASE UNCHANGED <<phase, toRun, report>> /\ step' \in Nat
      BY <3>2 DEF Typed
    <3>3. ASSUME NEW how \in Outcomes, End(m, how)
          PROVE  /\ step' = 0 /\ phase' \in {"idle", "act"}
                 /\ toRun' \subseteq toRun \ {m} /\ (phase' /= "act" => toRun' = {})
                 /\ report' \in [Modems -> Reports]
      <4>1. phase' /= "act" => toRun' = {}
        BY <3>3 DEF End
      <4>2. QED
        BY <3>1, <3>3, <4>1, EndTyped
    <3>4. QED
      BY <1>1, <3>2, <3>3, ActStep DEF Typed
  <2>2. QED
    BY <1>1, <2>1, ActStep, WorldTyped DEF Typed
<1>2. CASE StartCycle
  <2>1. call' \in [Modems -> Calls]
    BY <1>2, CallTypes, ModemIOAssumption DEF StartCycle, ModemIOAssumption
  <2>2. report' \in [Modems -> Reports]
    <3>1. NoReport \in Reports
      BY DEF NoReport, Reports, Outcomes
    <3>2. QED
      BY <1>2, <3>1 DEF StartCycle, Typed
  <2>3. pending' \subseteq Modems /\ held' \subseteq Modems /\ DOMAIN snaps' \subseteq Modems
    BY <1>2 DEF StartCycle, ToProbe
  <2>4. leads' \in [Modems -> Modems] /\ plan' = << >> /\ toRun' = {}
    BY <1>2 DEF StartCycle, Typed
  <2>5. QED
    BY <1>2, <2>1, <2>2, <2>3, <2>4 DEF StartCycle, Typed
<1>3. CASE Decide
  BY <1>3 DEF Decide, Typed
<1>4. ASSUME NEW m \in Modems, ProbeExpires(m)
      PROVE  Typed'
  <2>1. call' \in [Modems -> Calls] /\ strays' \subseteq Modems
    BY <1>4, CallTypes DEF ProbeExpires, Cancelled, Typed
  <2>2. pending' \subseteq Modems /\ DOMAIN snaps' \subseteq Modems
    BY <1>4 DEF ProbeExpires, SnapshotTaken, Typed
  <2>3. QED
    BY <1>4, <2>1, <2>2 DEF ProbeExpires, Typed
<1>13. ASSUME NEW m \in Modems, ProbeRaises(m)
      PROVE  Typed'
  <2>1. call' \in [Modems -> Calls] /\ strays' \subseteq Modems
    BY <1>13, CallTypes DEF ProbeRaises, CannotSpawn, Typed
  <2>2. pending' \subseteq Modems /\ DOMAIN snaps' \subseteq Modems
    BY <1>13 DEF ProbeRaises, SnapshotTaken, Typed
  <2>3. QED
    BY <1>13, <2>1, <2>2 DEF ProbeRaises, Typed
<1>5. ASSUME NEW m \in Modems, NEW e \in QmiEnds, Answered(m, e)
      PROVE  Typed'
  <2>1. strays' \subseteq Modems
    BY <1>5, StraysTyped DEF Answered
  <2>2. call' \in [Modems -> Calls]
    BY <1>5, CallTypes, ModemIOAssumption DEF Answered, Typed, ModemIOAssumption
  <2>3. pending' \subseteq Modems /\ DOMAIN snaps' \subseteq Modems
    BY <1>5 DEF Answered, SnapshotTaken, Typed
  <2>4. QED
    BY <1>5, <2>1, <2>2, <2>3 DEF Answered, Typed
<1>6. CASE Tick
  <2>1. call' \in [Modems -> Calls]
    BY <1>6, CallTypes DEF Tick, Typed
  <2>2. age' \in Nat /\ pause' \in Nat
    BY <1>6 DEF Tick, Typed
  <2>3. QED
    BY <1>6, <2>1, <2>2 DEF Tick, Typed
<1>7. CASE Sigterm
  <2>1. call' \in [Modems -> Calls] /\ strays' \subseteq Modems
    BY <1>7, CallTypes DEF Sigterm, Cancelled, Typed
  <2>2. report' \in [Modems -> Reports]
    <3>1. \A m \in Modems : Acting(m) => [kind |-> plan[m], how |-> "cancelled"] \in Reports
      BY DEF Acting, First, Typed, Reports, Outcomes
    <3>2. QED
      BY <1>7, <3>1 DEF Sigterm, Typed
  <2>3. QED
    BY <1>7, <2>1, <2>2 DEF Sigterm, Typed
<1>8. CASE Restart
  BY <1>8 DEF Restart, Typed
<1>9. CASE World
  <2>1. strays' \subseteq Modems /\ hung' \subseteq Modems
    BY <1>9, ModemIOAssumption DEF World, Hang, Break, ZaoMoves, StrayEnds, Typed, ModemIOAssumption
  <2>2. wrong' \in [Modems -> SUBSET QueryNames]
    <3>1. \A b \in Breakable : b[1] \in Modems /\ b[2] \in QueryNames
      BY ModemIOAssumption DEF ModemIOAssumption
    <3>2. ASSUME NEW b \in Breakable, Break(b[1], b[2])
          PROVE  wrong' \in [Modems -> SUBSET QueryNames]
      BY <3>1, <3>2 DEF Break, Typed
    <3>3. UNCHANGED wrong \/ \E b \in Breakable : Break(b[1], b[2])
      BY <1>9 DEF World, Hang, ZaoMoves
    <3>4. QED
      BY <3>2, <3>3 DEF Typed
  <2>3. zao' \subseteq ZaoLines
    BY <1>9 DEF World, Hang, Break, ZaoMoves, StrayEnds, Typed
  <2>4. QED
    BY <1>9, <2>1, <2>2, <2>3 DEF World, Typed
<1>10. ASSUME NEW m \in Modems, Shutdown(m)
       PROVE  Typed'
  <2>1. call' \in [Modems -> Calls] /\ strays' \subseteq Modems
    BY <1>10 DEF Shutdown, Expire, Escalate, Enter, Typed, Calls, Stages
  <2>2. QED
    BY <1>10, <2>1 DEF Shutdown, Typed
<1>11. CASE UNCHANGED vars
  BY <1>11 DEF vars, Typed
<1>12. QED
  BY <1>1, <1>2, <1>3, <1>4, <1>5, <1>6, <1>7, <1>8, <1>9, <1>10, <1>11, <1>13
     DEF Next, Observe, Act, ActsOn

\* Types, for every instance: what a cycle keeps in hand stays what it is, through
\* every interleaving of probes, actions, faults and SIGTERM.
THEOREM ModemIOTyped == Spec => []Typed
<1>1. Init => Typed
  BY InitTyped
<1>2. Typed /\ [Next]_vars => Typed'
  BY TypedStep
<1>3. QED
  BY <1>1, <1>2, PTL DEF Spec

-----------------------------------------------------------------------------
(* Probing *)

\* The queries by name; there are no more than seven.
LEMMA QueriesAre ==
    /\ QueryNames = {"signal", "serving", "sim", "data", "profile", "settings",
                     "operating_mode"}
    /\ \A i \in 1 .. 7 : Queries[i] \in QueryNames
    /\ IsFiniteSet(QueryNames) /\ Cardinality(QueryNames) <= 7
<1>1. DOMAIN Queries = 1 .. 7
  BY DEF Queries
<1>2. /\ \A i \in 1 .. 7 : Queries[i] \in QueryNames
      /\ \A q \in QueryNames : \E i \in 1 .. 7 : Queries[i] = q
  BY <1>1 DEF QueryNames
<1>3. QueryNames = {"signal", "serving", "sim", "data", "profile", "settings",
                    "operating_mode"}
  BY <1>1, <1>2 DEF Queries
<1>4. Queries \in Surjection(1 .. 7, QueryNames)
  <2>1. Queries \in [1 .. 7 -> QueryNames]
    BY <1>1, <1>2 DEF Queries
  <2>2. QED
    BY <1>2, <2>1 DEF Surjection
<1>5. IsFiniteSet(1 .. 7) /\ Cardinality(1 .. 7) = 7
  <2>1. /\ IsFiniteSet(1 .. 7)
        /\ Cardinality(1 .. 7) = IF 1 > 7 THEN 0 ELSE 7 - 1 + 1
    BY FS_Interval, 1 \in Int, 7 \in Int, Zenon
  <2>2. QED
    BY <2>1
<1>6. QED
  BY <1>2, <1>3, <1>4, <1>5, FS_Surjection

\* As long as an answer is missing, there is a next query.
LEMMA NextQuery ==
    ASSUME NEW D, D \subseteq QueryNames, D /= QueryNames
    PROVE  Queries[Cardinality(D) + 1] \in QueryNames
<1>1. Cardinality(D) \in Nat /\ Cardinality(QueryNames) \in Nat
  BY QueriesAre, FS_Subset, FS_CardinalityType
<1>2. Cardinality(D) < Cardinality(QueryNames)
  <2>1. D \in SUBSET QueryNames /\ IsFiniteSet(QueryNames)
    BY QueriesAre
  <2>2. /\ Cardinality(D) <= Cardinality(QueryNames)
        /\ Cardinality(QueryNames) = Cardinality(D) => QueryNames = D
    BY <2>1, FS_Subset, Zenon
  <2>3. QED
    BY <1>1, <2>2
<1>3. Cardinality(D) + 1 \in 1 .. 7
  BY <1>1, <1>2, QueriesAre
<1>4. QED
  BY <1>3, QueriesAre

\* An issue comes from the table its value is in.
LEMMA IssueIn ==
    ASSUME NEW S, NEW category, NEW table, NEW value,
           value \in DOMAIN table => <<category, table[value]>> \in S
    PROVE  Issue(category, table, value) \in Seq(S)
<1> DEFINE i == <<category, table[value]>>
<1>1. CASE value \in DOMAIN table
  <2>1. i \in S /\ Issue(category, table, value) = <<i>>
    BY <1>1 DEF Issue
  <2> HIDE DEF i
  <2>2. QED
    BY <2>1
<1>2. CASE value \notin DOMAIN table
  BY <1>2 DEF Issue
<1>3. QED
  BY <1>1, <1>2

\* A snapshot lists what its tables say of the answers, and nothing else.
LEMMA ExtractedIn ==
    ASSUME NEW S, NEW a,
           a.profile \in DOMAIN ConfigIssues => <<"config", ConfigIssues[a.profile]>> \in S,
           a.sim.card \in DOMAIN CardIssues => <<"sim", CardIssues[a.sim.card]>> \in S,
           a.sim.app \in DOMAIN AppIssues => <<"sim", AppIssues[a.sim.app]>> \in S,
           a.settings \in DOMAIN RawIpIssues => <<"datapath", RawIpIssues[a.settings]>> \in S,
           a.data \in DOMAIN SessionIssues => <<"datapath", SessionIssues[a.data]>> \in S,
           a.serving \in DOMAIN RegistrationIssues
             => <<"registration", RegistrationIssues[a.serving]>> \in S,
           a.sim.error \in DOMAIN SimErrorIssues
             => <<"qmi", SimErrorIssues[a.sim.error]>> \in S,
           a.operating_mode \in DOMAIN ModeIssues
             => <<"qmi", ModeIssues[a.operating_mode]>> \in S
    PROVE  ToSnapshot(a).issues \in Seq(S)
<1>1. \A s, t \in Seq(S) : s \o t \in Seq(S)
  BY ConcatProperties
<1>2. /\ Issue("config", ConfigIssues, a.profile) \in Seq(S)
      /\ Issue("sim", CardIssues, a.sim.card) \in Seq(S)
      /\ Issue("sim", AppIssues, a.sim.app) \in Seq(S)
      /\ Issue("datapath", RawIpIssues, a.settings) \in Seq(S)
  BY IssueIn
<1>3. /\ Issue("datapath", SessionIssues, a.data) \in Seq(S)
      /\ Issue("registration", RegistrationIssues, a.serving) \in Seq(S)
      /\ Issue("qmi", SimErrorIssues, a.sim.error) \in Seq(S)
      /\ Issue("qmi", ModeIssues, a.operating_mode) \in Seq(S)
  BY IssueIn
<1>4. ExtractIssues(a) \in Seq(S)
  BY <1>1, <1>2, <1>3 DEF ExtractIssues
<1>5. QED
  BY <1>4 DEF ToSnapshot

\* The issues that the tables of extract_issues have.
Extractable ==
    {<<"config", "apn_empty">>, <<"sim", "sim_card_absent">>, <<"sim", "sim_card_error">>,
     <<"sim", "sim_power_down">>, <<"sim", "sim_card_unreadable">>,
     <<"sim", "sim_app_detected">>, <<"sim", "sim_app_pin_required">>,
     <<"sim", "sim_app_puk_required">>, <<"sim", "sim_app_unreadable">>,
     <<"datapath", "raw_ip_off">>, <<"datapath", "session_disconnected">>,
     <<"registration", "not_registered_searching">>,
     <<"registration", "not_registered_idle">>, <<"registration", "denied">>,
     <<"qmi", "qmi_proxy_died">>, <<"qmi", "qmi_timeout">>,
     <<"qmi", "operating_mode_offline">>, <<"qmi", "operating_mode_low_power">>}

\* Whatever was answered, a snapshot lists only issues of the tables.
LEMMA IssuesTyped ==
    ASSUME NEW a
    PROVE  ToSnapshot(a).issues \in Seq(Extractable)
<1>1. \A v \in DOMAIN ConfigIssues : <<"config", ConfigIssues[v]>> \in Extractable
  BY DEF ConfigIssues, Extractable
<1>2. \A v \in DOMAIN CardIssues : <<"sim", CardIssues[v]>> \in Extractable
  BY DEF CardIssues, Extractable
<1>3. \A v \in DOMAIN AppIssues : <<"sim", AppIssues[v]>> \in Extractable
  BY DEF AppIssues, Extractable
<1>4. \A v \in DOMAIN RawIpIssues : <<"datapath", RawIpIssues[v]>> \in Extractable
  BY DEF RawIpIssues, Extractable
<1>5. \A v \in DOMAIN SessionIssues : <<"datapath", SessionIssues[v]>> \in Extractable
  BY DEF SessionIssues, Extractable
<1>6. \A v \in DOMAIN RegistrationIssues : <<"registration", RegistrationIssues[v]>> \in Extractable
  BY DEF RegistrationIssues, Extractable
<1>7. \A v \in DOMAIN SimErrorIssues : <<"qmi", SimErrorIssues[v]>> \in Extractable
  BY DEF SimErrorIssues, Extractable
<1>8. \A v \in DOMAIN ModeIssues : <<"qmi", ModeIssues[v]>> \in Extractable
  BY DEF ModeIssues, Extractable
<1>9. QED
  BY <1>1, <1>2, <1>3, <1>4, <1>5, <1>6, <1>7, <1>8, ExtractedIn

-----------------------------------------------------------------------------
(* The steps of a cycle, by what they leave alone *)

Quiet == Tick \/ Restart \/ World \/ (\E m \in Modems : Shutdown(m)) \/ UNCHANGED vars

\* Time, a restart, the world and the shutdown of a child neither begin nor end a
\* call, nor do they move the cycle; faults may come, and go by actions only.
LEMMA QuietStep ==
    ASSUME Typed, Quiet
    PROVE  /\ phase' = phase \/ (phase = "down" /\ phase' = "idle")
           /\ UNCHANGED <<pending, answers, snaps, held, plan, toRun, step, report, bound,
                          driver, leads>>
           /\ \A m \in Modems : InCall(m)' = InCall(m)
           /\ \A m \in Modems : wrong[m] \subseteq wrong'[m]
<1> USE DEF actionVars, probeVars, modemVars, subprocVars
<1>1. CASE Tick
  <2>1. \A m \in Modems : call'[m] = Older(call[m]) /\ call[m] \in Calls
    BY <1>1 DEF Tick, Typed
  <2>2. \A m \in Modems : call'[m].stage = call[m].stage
    BY <2>1 DEF Older, Calls
  <2>3. QED
    BY <1>1, <2>2 DEF Tick, InCall
<1>2. CASE Restart
  BY <1>2 DEF Restart, InCall
<1>3. CASE World
  <2>1. \A m \in Modems : wrong[m] \subseteq wrong'[m]
    <3>1. UNCHANGED wrong \/ \E b \in Breakable : Break(b[1], b[2])
      BY <1>3 DEF World, Hang, ZaoMoves
    <3>2. ASSUME NEW b \in Breakable, Break(b[1], b[2]), NEW m \in Modems
          PROVE  wrong[m] \subseteq wrong'[m]
      BY <3>2 DEF Break, Typed
    <3>3. QED
      BY <3>1, <3>2
  <2>2. QED
    BY <1>3, <2>1 DEF World, InCall
<1>4. ASSUME NEW m \in Modems, Shutdown(m)
      PROVE  /\ UNCHANGED <<phase, probeVars, actionVars, modemVars>>
             /\ \A n \in Modems : InCall(n)' = InCall(n)
  <2>1. \A n \in Modems \ {m} : call'[n] = call[n]
    BY <1>4 DEF Shutdown, Expire, Escalate, Enter, Typed
  <2>2. call[m].stage /= "none" /\ call'[m].stage /= "none"
    BY <1>4 DEF Shutdown, Expire, Escalate, Enter, Typed, Calls
  <2>3. QED
    BY <1>4, <2>1, <2>2 DEF Shutdown, InCall
<1>5. CASE UNCHANGED vars
  BY <1>5 DEF vars, InCall
<1>6. QED
  BY <1>1, <1>2, <1>3, <1>4, <1>5 DEF Quiet

\* A probe goes on, or is over and its snapshot taken.
ProbeGoesOn(m) ==
    /\ UNCHANGED <<pending, snaps>>
    /\ m \in DOMAIN answers => DOMAIN answers'[m] /= QueryNames
ProbeIsOver(m, s) ==
    /\ pending' = pending \ {m} /\ ~InCall(m)'
    /\ DOMAIN snaps' = DOMAIN snaps \cup {m} /\ snaps'[m] = s
    /\ \A n \in DOMAIN snaps \ {m} : snaps'[n] = snaps[n]

Probes(m) == ProbeExpires(m) \/ ProbeRaises(m) \/ \E e \in QmiEnds : Answered(m, e)

\* A step of a probe leaves the other modems and the rest of the cycle alone.
LEMMA ProbeStep ==
    ASSUME Typed, NEW m \in Modems, Probes(m)
    PROVE  /\ phase = "observe" /\ m \in pending
           /\ UNCHANGED <<phase, age, held, actionVars, modemVars, zao>>
           /\ \A n \in Modems \ {m} : call'[n] = call[n]
           /\ DOMAIN answers' = DOMAIN answers
           /\ \A n \in DOMAIN answers \ {m} : answers'[n] = answers[n]
           /\ ProbeGoesOn(m) \/ ProbeIsOver(m, Blank) \/ \E a : ProbeIsOver(m, ToSnapshot(a))
<1>1. \A s : SnapshotTaken(m, s) /\ ~InCall(m)' => ProbeIsOver(m, s)
  BY DEF SnapshotTaken, ProbeIsOver
<1>2. CASE ProbeExpires(m)
  <2>1. call' = [n \in Modems |-> IF n \in {m} THEN NoCall ELSE call[n]]
    BY <1>2 DEF ProbeExpires, Cancelled
  <2>2. ~InCall(m)' /\ \A n \in Modems \ {m} : call'[n] = call[n]
    BY <2>1 DEF InCall, NoCall
  <2>3. ProbeIsOver(m, Blank)
    BY <1>1, <1>2, <2>2 DEF ProbeExpires
  <2>4. QED
    BY <1>2, <2>2, <2>3 DEF ProbeExpires, ProbeDue
<1>5. CASE ProbeRaises(m)
  <2>1. ~InCall(m)' /\ \A n \in Modems \ {m} : call'[n] = call[n]
    BY <1>5 DEF ProbeRaises, InCall, NoCall, Typed
  <2>2. ProbeIsOver(m, Blank)
    BY <1>1, <1>5, <2>1 DEF ProbeRaises
  <2>3. QED
    BY <1>5, <2>1, <2>2 DEF ProbeRaises
<1>3. ASSUME NEW e \in QmiEnds, Answered(m, e)
      PROVE  /\ phase = "observe" /\ m \in pending
             /\ UNCHANGED <<phase, age, held, actionVars, modemVars, zao>>
             /\ \A n \in Modems \ {m} : call'[n] = call[n]
             /\ DOMAIN answers' = DOMAIN answers
             /\ \A n \in DOMAIN answers \ {m} : answers'[n] = answers[n]
             /\ ProbeGoesOn(m) \/ \E a : ProbeIsOver(m, ToSnapshot(a))
  <2> DEFINE q == Queries[Cardinality(DOMAIN answers[m]) + 1]
             a == [p \in DOMAIN answers[m] \cup {q} |->
                     IF p = q THEN Answer(m, q, e) ELSE answers[m][p]]
  <2>1. CASE DOMAIN a = QueryNames
    <3>1. SnapshotTaken(m, ToSnapshot(a)) /\ call' = [call EXCEPT ![m] = NoCall]
          /\ answers' = [answers EXCEPT ![m] = << >>]
      BY <1>3, <2>1 DEF Answered
    <3>2. ~InCall(m)' /\ \A n \in Modems \ {m} : call'[n] = call[n]
      BY <3>1 DEF InCall, NoCall, Typed
    <3>3. ProbeIsOver(m, ToSnapshot(a))
      BY <1>1, <3>1, <3>2
    <3> HIDE DEF a
    <3>4. QED
      BY <1>3, <3>1, <3>2, <3>3 DEF Answered
  <2>2. CASE DOMAIN a /= QueryNames
    <3>1. /\ answers' = [answers EXCEPT ![m] = a] /\ UNCHANGED <<pending, snaps>>
          /\ call' = [call EXCEPT ![m] = Spawned(QueryTimeout)]
      BY <1>3, <2>2 DEF Answered
    <3>2. \A n \in Modems \ {m} : call'[n] = call[n]
      BY <3>1 DEF Typed
    <3> HIDE DEF a
    <3>3. ProbeGoesOn(m)
      BY <2>2, <3>1 DEF ProbeGoesOn
    <3>4. QED
      BY <1>3, <3>1, <3>2, <3>3 DEF Answered
  <2>3. QED
    BY <2>1, <2>2
<1>4. QED
  BY <1>2, <1>3, <1>5 DEF Probes

\* The steps, grouped as the proofs below treat them.
LEMMA StepCases ==
    ASSUME [Next]_vars
    PROVE  \/ StartCycle \/ Decide \/ Sigterm \/ Quiet
           \/ \E m \in Modems : Probes(m) \/ ActsOn(m)
  BY DEF Next, Observe, Act, ActsOn, Probes, Quiet

-----------------------------------------------------------------------------
(* Zao's lines *)

\* Who is on a list or waits for a child, and what the lists hold.
Placed ==
    /\ phase /= "observe" => pending = {}
    /\ \A m \in Modems : InCall(m) => m \in pending \/ Acting(m)
    /\ \A m \in DOMAIN snaps : snaps[m].issues \in Seq(Extractable)

\* No plan for a modem whose line Zao held: nobody asked it anything, so there is
\* no issue to plan for.
Spared ==
    /\ held \cap (pending \cup toRun) = {}
    /\ phase = "observe" => \A m \in held \cap DOMAIN snaps : snaps[m].issues = << >>

\* A modem nobody asked has nothing to complain of.
LEMMA BlankHasNoIssues == Blank.issues = << >> /\ Blank.issues \in Seq(Extractable)
  BY DEF Blank

\* A plan is for a modem that has a snapshot, and of a kind its issues may lead to.
LEMMA DecidePlans ==
    ASSUME Decide
    PROVE  /\ DOMAIN plan' = toRun' /\ toRun' \subseteq DOMAIN snaps
           /\ phase' \in {"idle", "act"} /\ step' = 0
           /\ \A m \in toRun' : plan'[m] \in ActionKinds \cap MayPlan(snaps[m].issues)
  BY DEF Decide

\* What an action leaves of the list it works off.
LEMMA ActLists ==
    ASSUME Typed, NEW m \in Modems, ActsOn(m)
    PROVE  /\ m \in toRun /\ phase = "act" /\ phase' /= "observe" /\ toRun' \subseteq toRun
           /\ InCall(m)' => m \in toRun'
<1>1. m \in toRun /\ phase = "act"
  BY ActStep DEF Acting, First
<1>2. CASE UNCHANGED <<phase, toRun, report>>
  BY <1>1, <1>2
<1>3. ASSUME NEW how \in Outcomes, End(m, how)
      PROVE  phase' /= "observe" /\ toRun' \subseteq toRun /\ ~InCall(m)'
  BY <1>1, <1>3, EndTyped
<1>4. QED
  BY <1>1, <1>2, <1>3, ActStep

\* Calls end with the probe or the action they are for.
LEMMA PlacedStep == Typed /\ Placed /\ [Next]_vars => Placed'
<1> SUFFICES ASSUME Typed, Placed, [Next]_vars PROVE Placed'
  OBVIOUS
<1>1. ASSUME NEW m \in Modems, ActsOn(m)
      PROVE  Placed'
  <2>1. UNCHANGED <<pending, snaps>> /\ \A n \in Modems \ {m} : InCall(n)' = InCall(n)
    BY <1>1, ActStep DEF probeVars, InCall
  <2>2. \A n \in Modems \ {m} : ~InCall(n)
    <3>1. Acting(m) /\ pending = {}
      BY <1>1, ActStep DEF Placed, Acting
    <3>2. QED
      BY <3>1, OneActs DEF Placed
  <2>3. InCall(m)' => Acting(m)'
    <3>1. CASE UNCHANGED <<phase, toRun, report>>
      BY <1>1, <3>1, ActStep DEF Acting, First
    <3>2. ASSUME NEW how \in Outcomes, End(m, how)
          PROVE  ~InCall(m)'
      BY <1>1, <3>2, EndTyped, ActLists
    <3>3. QED
      BY <1>1, <3>1, <3>2, ActStep
  <2>4. QED
    BY <1>1, <2>1, <2>2, <2>3, ActLists DEF Placed
<1>2. ASSUME NEW m \in Modems, Probes(m)
      PROVE  Placed'
  <2>1. \A n \in Modems \ {m} : InCall(n)' = InCall(n)
    BY <1>2, ProbeStep DEF InCall
  <2>2. phase' = "observe" /\ m \in pending /\ UNCHANGED <<phase, toRun>>
    BY <1>2, ProbeStep DEF actionVars
  <2>3. CASE ProbeGoesOn(m)
    BY <2>1, <2>2, <2>3 DEF ProbeGoesOn, Placed, Acting
  <2>4. ASSUME NEW s, s.issues \in Seq(Extractable), ProbeIsOver(m, s)
        PROVE  Placed'
    BY <2>1, <2>2, <2>4 DEF ProbeIsOver, Placed, Acting
  <2>5. QED
    BY <1>2, <2>3, <2>4, ProbeStep, BlankHasNoIssues, IssuesTyped
<1>3. CASE StartCycle
  <2>1. \A m \in Modems : InCall(m)' => m \in pending'
    BY <1>3 DEF StartCycle, InCall, NoCall
  <2>2. \A m \in DOMAIN snaps' : snaps'[m] = Blank
    BY <1>3 DEF StartCycle
  <2>3. QED
    BY <1>3, <2>1, <2>2, BlankHasNoIssues DEF StartCycle, Placed
<1>4. CASE Decide
  <2>1. \A m \in Modems : ~InCall(m)
    BY <1>4 DEF Decide, Placed, Acting
  <2>2. QED
    BY <1>4, <2>1 DEF Decide, Placed, InCall, subprocVars
<1>5. CASE Sigterm
  <2>1. \A m \in Modems : ~InCall(m)'
    BY <1>5 DEF Sigterm, Cancelled, InCall, NoCall
  <2>2. QED
    BY <1>5, <2>1 DEF Sigterm, Placed
<1>6. CASE Quiet
  BY <1>6, QuietStep DEF Placed, Acting, First
<1>7. QED
  BY <1>1, <1>2, <1>3, <1>4, <1>5, <1>6, StepCases

\* Zao taking a line after the cycle came to it changes nothing, its snapshot stays
\* blank.
LEMMA SparedStep == Typed /\ Placed /\ Spared /\ [Next]_vars => Spared'
<1> SUFFICES ASSUME Typed, Placed, Spared, [Next]_vars PROVE Spared'
  OBVIOUS
<1>1. ASSUME NEW m \in Modems, ActsOn(m)
      PROVE  Spared'
  BY <1>1, ActStep, ActLists DEF Spared, probeVars
<1>2. ASSUME NEW m \in Modems, Probes(m)
      PROVE  Spared'
  <2>1. phase = "observe" /\ m \in pending /\ UNCHANGED <<phase, held, toRun>> /\ m \notin held
    BY <1>2, ProbeStep DEF actionVars, Spared
  <2>2. CASE ProbeGoesOn(m)
    BY <2>1, <2>2 DEF ProbeGoesOn, Spared
  <2>3. ASSUME NEW s, ProbeIsOver(m, s)
        PROVE  Spared'
    BY <2>1, <2>3 DEF ProbeIsOver, Spared
  <2>4. QED
    BY <1>2, <2>2, <2>3, ProbeStep
<1>3. CASE StartCycle
  <2>1. \A m \in DOMAIN snaps' : snaps'[m] = Blank
    BY <1>3 DEF StartCycle
  <2>2. held' \cap pending' = {} /\ toRun' = {}
    BY <1>3 DEF StartCycle, ToProbe, Typed
  <2>3. QED
    BY <2>1, <2>2, BlankHasNoIssues DEF Spared
<1>4. CASE Decide
  <2>1. /\ toRun' \subseteq DOMAIN snaps /\ phase' \in {"idle", "act"}
        /\ \A m \in toRun' : plan'[m] \in MayPlan(snaps[m].issues)
    BY <1>4, DecidePlans
  <2>2. \A m \in toRun' : snaps[m].issues /= << >>
    BY <2>1 DEF MayPlan
  <2>3. held \cap toRun' = {}
    BY <1>4, <2>1, <2>2 DEF Decide, Spared
  <2>4. QED
    BY <1>4, <2>1, <2>3 DEF Decide, Spared
<1>5. CASE Sigterm
  BY <1>5 DEF Sigterm, Spared
<1>6. CASE Quiet
  BY <1>6, QuietStep DEF Spared
<1>7. QED
  BY <1>1, <1>2, <1>3, <1>4, <1>5, <1>6, StepCases

\* Once begun, a driver reset is remembered to the end of its cycle.
LEMMA BegunStays ==
    ASSUME Typed, NEW m \in Modems, ActsOn(m), DriverResetBegun
    PROVE  DriverResetBegun'
<1>1. Acting(m) /\ m \in DOMAIN plan /\ UNCHANGED plan
      /\ \A n \in Modems \ {m} : report'[n] = report[n]
  BY ActStep DEF Acting, First, Typed
<1>2. PICK n \in DOMAIN plan : /\ plan[n] = "driver_reset"
                               /\ (Acting(n) /\ step > 0) \/ report[n].kind = "driver_reset"
  BY DEF DriverResetBegun
<1>3. n \in Modems
  BY <1>2 DEF Typed
<1>4. CASE n /= m
  <2>1. report'[n].kind = "driver_reset"
    BY <1>1, <1>2, <1>3, <1>4, OneActs
  <2>2. QED
    BY <1>1, <1>2, <2>1 DEF DriverResetBegun
<1>5. CASE n = m
  <2>1. ASSUME NEW how \in Outcomes, End(m, how)
        PROVE  report'[m].kind = "driver_reset"
    <3>1. report'[m] = [kind |-> plan[m], how |-> how]
      BY <1>1, <2>1, EndTyped DEF Acting, First
    <3>2. QED
      BY <1>2, <1>5, <3>1
  <2>2. CASE UNCHANGED <<phase, toRun, report>> /\ ~\E how \in Outcomes : End(m, how)
    <3>1. CASE report[m].kind = "driver_reset"
      BY <1>1, <1>2, <1>5, <2>2, <3>1 DEF DriverResetBegun
    <3>2. CASE step > 0
      <4>1. ~Raises(m) /\ \A how \in {"failed", "deferred"} : ~Finish(m, how)
        BY <2>2, FinishEnds DEF Raises, Outcomes
      <4>2. \A e : LoadOutcome(e) \in {"failed", "deferred"}
        BY DEF LoadOutcome
      <4>3. \E e \in QmiEnds \cup {"in_use"} : Unloaded(m, e)
        <5>1. ~Unbind(m) /\ ~Bind(m) /\ ~BeginCalls(m)
          BY <1>2, <1>5, <3>2 DEF Unbind, Bind, BeginCalls
        <5>2. \A e : ~QmiStep(m, e)
          BY <1>2, <1>5 DEF QmiStep
        <5>3. \A e : Loaded(m, e) => Finish(m, LoadOutcome(e))
          BY DEF Loaded
        <5>4. \A e : ~Loaded(m, e)
          BY <4>1, <4>2, <5>3
        <5>5. QED
          BY <4>1, <5>1, <5>2, <5>4 DEF ActsOn
      <4>4. Goto(m, 2)
        BY <4>1, <4>3 DEF Unloaded
      <4>5. Acting(m)' /\ step' > 0
        BY <1>1, <2>2, <4>4 DEF Acting, First, Goto
      <4>6. QED
        BY <1>1, <1>2, <1>5, <4>5 DEF DriverResetBegun
    <3>3. QED
      BY <1>2, <1>5, <3>1, <3>2
  <2>3. QED
    BY <1>1, <1>2, <1>5, <2>1, <2>2, ActStep DEF DriverResetBegun
<1>6. QED
  BY <1>4, <1>5

\* The scan's device paths lead to their modems until then, and a line Zao holds has
\* its modem and the driver.
OnCourse ==
    /\ phase \in {"observe", "act"} =>
         (\A m \in Modems : leads[m] = m) \/ (phase = "act" /\ DriverResetBegun)
    /\ \A m \in held : Enumerated(m) \/ (phase /= "observe" /\ DriverResetBegun)

\* Only the load of a driver reset gives out new numbers, only its unload takes the
\* driver, and its cycle remembers it.
LEMMA OnCourseStep == Typed /\ Spared /\ OnCourse /\ [Next]_vars => OnCourse'
<1> SUFFICES ASSUME Typed, Spared, OnCourse, [Next]_vars PROVE OnCourse'
  OBVIOUS
<1> USE DEF modemVars, actionVars
<1>1. ASSUME NEW m \in Modems, ActsOn(m)
      PROVE  OnCourse'
  <2>1. /\ m \in toRun /\ m \notin held /\ phase = "act" /\ phase' /= "observe"
        /\ Acting(m) /\ m \in DOMAIN plan /\ UNCHANGED held
    BY <1>1, ActLists, ActStep DEF probeVars, Spared, Typed
  <2>2. phase' \in {"idle", "act"}
    BY <1>1, <2>1, ActStep, EndTyped
  <2>3. CASE DriverResetBegun
    BY <1>1, <2>1, <2>2, <2>3, BegunStays DEF OnCourse
  <2>4. CASE ~DriverResetBegun
    <3>1. plan[m] /= "driver_reset" \/ step = 0
      BY <2>1, <2>4 DEF DriverResetBegun, Typed
    <3>7. \A e : Unloaded(m, e) \/ Loaded(m, e) => plan[m] = "driver_reset" /\ step \in {1, 2}
      BY DEF Unloaded, Loaded
    <3>2. \A e : ~Unloaded(m, e) /\ ~Loaded(m, e)
      BY <3>1, <3>7
    <3>4. Unbind(m) \/ Bind(m) => UNCHANGED <<driver, leads>> /\ bound \ {m} \subseteq bound'
      BY DEF Unbind, Bind
    <3>5. BeginCalls(m) \/ Raises(m) \/ (\E e \in QmiEnds : QmiStep(m, e))
            => UNCHANGED <<driver, leads, bound>>
      BY DEF BeginCalls, Raises, QmiStep
    <3>6. UNCHANGED <<driver, leads>> /\ bound \ {m} \subseteq bound'
      BY <1>1, <3>2, <3>4, <3>5 DEF ActsOn
    <3>3. QED
      BY <2>1, <2>2, <2>4, <3>6 DEF OnCourse, Enumerated
  <2>5. QED
    BY <2>3, <2>4
<1>2. ASSUME NEW m \in Modems, Probes(m)
      PROVE  OnCourse'
  <2>1. phase = "observe" /\ UNCHANGED <<phase, held, modemVars>>
    BY <1>2, ProbeStep
  <2>2. QED
    BY <2>1 DEF OnCourse, Enumerated
<1>3. CASE StartCycle
  BY <1>3 DEF StartCycle, OnCourse, Enumerated
<1>4. CASE Decide
  BY <1>4 DEF Decide, OnCourse, Enumerated
<1>5. CASE Sigterm
  BY <1>5 DEF Sigterm, OnCourse
<1>6. CASE Quiet
  <2>1. /\ UNCHANGED <<held, plan, toRun, step, report, bound, driver, leads>>
        /\ phase' = phase \/ (phase = "down" /\ phase' = "idle")
    BY <1>6, QuietStep
  <2>2. DriverResetBegun' <=> DriverResetBegun
    BY <2>1 DEF DriverResetBegun, Acting, First
  <2>3. QED
    BY <2>1, <2>2 DEF OnCourse, Enumerated
<1>7. QED
  BY <1>1, <1>2, <1>3, <1>4, <1>5, <1>6, StepCases

\* TypeOK in every reachable state: whatever is planned has a kind the dispatcher
\* knows, whatever was extracted has a category the policy can rank.
THEOREM ModemIOTypeCorrect == Spec => []TypeOK
<1>1. Init => Placed
  BY DEF Init, Placed, InCall, NoCall
<1>2. Typed /\ Placed => TypeOK
  <2> SUFFICES ASSUME Typed, Placed PROVE TypeOK
    OBVIOUS
  <2>1. \A i \in Extractable : i[1] \in DOMAIN Priority
    BY DEF Extractable, Priority
  <2>2. ASSUME NEW m \in DOMAIN snaps, NEW i \in DOMAIN snaps[m].issues
        PROVE  snaps[m].issues[i][1] \in DOMAIN Priority
    <3>1. snaps[m].issues \in Seq(Extractable)
      BY DEF Placed
    <3>2. snaps[m].issues[i] \in Extractable
      BY <3>1
    <3>3. QED
      BY <2>1, <3>2
  <2>3. \A m \in Modems : report[m].how \in Outcomes
    BY DEF Typed, Reports
  <2>4. QED
    BY <2>2, <2>3 DEF TypeOK, Typed
<1>3. QED
  BY <1>1, <1>2, ModemIOTyped, PlacedStep, PTL DEF Spec

\* ZaoRespected for every set of modems, every set of Zao's lines and every time Zao
\* takes or leaves one: until a driver reset of the cycle begins, a line it had at the
\* start sees neither a query nor an action, no call meant for another modem, and
\* keeps its modem on the bus and its driver loaded.
THEOREM ZaoRespectedHolds == Spec => []ZaoRespected
<1>1. Init => Placed /\ Spared /\ OnCourse
  BY DEF Init, Placed, Spared, OnCourse, InCall, NoCall
<1>2. Typed /\ Placed /\ Spared /\ OnCourse => ZaoRespected
  <2> SUFFICES ASSUME Typed, Placed, Spared, OnCourse, NEW m \in held, ~DriverResetBegun
               PROVE  /\ m \notin toRun /\ Enumerated(m)
                      /\ \A n \in Modems : InCall(n) => leads[n] /= m
    BY DEF ZaoRespected
  <2>1. m \notin toRun /\ m \notin pending /\ Enumerated(m)
    BY DEF Spared, OnCourse
  <2>2. ASSUME NEW n \in Modems, InCall(n)
        PROVE  leads[n] /= m
    <3>1. n \in pending \/ Acting(n)
      BY <2>2 DEF Placed
    <3>2. phase \in {"observe", "act"}
      BY <3>1 DEF Placed, Acting
    <3>3. leads[n] = n
      BY <3>2 DEF OnCourse
    <3>4. n /= m
      BY <2>1, <3>1 DEF Acting, First
    <3>5. QED
      BY <3>3, <3>4
  <2>3. QED
    BY <2>1, <2>2
<1>3. QED
  BY <1>1, <1>2, ModemIOTyped, PlacedStep, SparedStep, OnCourseStep, PTL DEF Spec

-----------------------------------------------------------------------------
(* Modems and drivers that are gone *)

OffBus(m) == Acting(m) /\ plan[m] = "usb_reset" /\ step = 1
Unloading(m) == Acting(m) /\ plan[m] = "driver_reset" /\ step = 2

\* What is gone is on the way, or somebody has owned up to it; and an action that has
\* yet to begin will not overwrite the confession, since only modems that are there
\* get a plan.
Kept ==
    /\ phase = "observe" => \A m \in pending \cup DOMAIN snaps : Enumerated(m)
    /\ \A m \in toRun : m \in bound \/ OffBus(m)
    /\ \A m \in Modems \ bound : OffBus(m) \/ Confessed(m, "usb_reset")
    /\ driver \/ \E m \in Modems : Unloading(m) \/ (m \notin toRun /\ Confessed(m, "driver_reset"))

\* An action that ends leaves its modem on the bus, and the driver in the kernel,
\* or owns up.
LEMMA EndKept ==
    ASSUME Typed, Kept, NEW m \in Modems, NEW how \in Outcomes, Acting(m), End(m, how),
           UNCHANGED plan, bound \subseteq bound',
           m \in bound' \/ (plan[m] = "usb_reset" /\ how \in {"failed", "raised"}),
           \/ driver' = TRUE
           \/ plan[m] = "driver_reset" /\ how \in {"failed", "raised"}
           \/ driver' = driver /\ ~Unloading(m)
    PROVE  Kept'
<1>1. m \in toRun
  BY DEF Acting, First
<1>2. /\ phase' /= "observe" /\ toRun' \subseteq toRun \ {m}
      /\ report'[m] = [kind |-> plan[m], how |-> how]
      /\ \A n \in Modems \ {m} : report'[n] = report[n]
  BY <1>1, EndTyped
<1>3. \A n \in toRun' : n \in bound'
  BY <1>2, OneActs DEF Kept, OffBus
<1>4. ASSUME NEW n \in Modems, n \notin bound'
      PROVE  Confessed(n, "usb_reset")'
  <2>1. CASE n = m
    BY <1>2, <1>4, <2>1 DEF Confessed
  <2>2. CASE n /= m
    <3>1. ~OffBus(n) /\ Confessed(n, "usb_reset")
      BY <1>4, <2>2, OneActs DEF Kept, OffBus
    <3>2. QED
      BY <1>2, <2>2, <3>1 DEF Confessed
  <2>3. QED
    BY <2>1, <2>2
<1>5. driver' \/ \E n \in Modems : n \notin toRun' /\ Confessed(n, "driver_reset")'
  <2>1. CASE driver' = TRUE
    BY <2>1
  <2>2. CASE plan[m] = "driver_reset" /\ how \in {"failed", "raised"}
    BY <1>2, <2>2 DEF Confessed
  <2>3. CASE driver' = driver /\ ~Unloading(m) /\ ~driver
    <3>1. PICK n \in Modems : Unloading(n) \/ (n \notin toRun /\ Confessed(n, "driver_reset"))
      BY <2>3 DEF Kept
    <3>2. ~Unloading(n)
      BY <2>3, OneActs DEF Unloading
    <3>3. n /= m /\ n \notin toRun' /\ Confessed(n, "driver_reset")'
      BY <1>1, <1>2, <3>1, <3>2 DEF Confessed
    <3>4. QED
      BY <3>3
  <2>4. QED
    BY <2>1, <2>2, <2>3 DEF Typed
<1>6. QED
  BY <1>2, <1>3, <1>4, <1>5 DEF Kept

\* An action that goes on to its next call takes nothing away but the driver it is
\* about to load.
LEMMA GotoKept ==
    ASSUME Typed, Kept, NEW m \in Modems, Acting(m), plan[m] /= "usb_reset",
           UNCHANGED <<phase, toRun, report, plan, bound>>,
           \/ driver' = TRUE
           \/ plan[m] = "driver_reset" /\ step' = 2
           \/ driver' = driver /\ ~Unloading(m)
    PROVE  Kept'
<1>1. phase' = "act"
  BY DEF Acting
<1>2. \A n : ~OffBus(n)
  BY OneActs DEF OffBus
<1>3. driver' \/ \E n \in Modems : Unloading(n)' \/ (n \notin toRun' /\ Confessed(n, "driver_reset")')
  <2>1. CASE driver' = TRUE
    BY <2>1
  <2>2. CASE plan[m] = "driver_reset" /\ step' = 2
    BY <2>2 DEF Unloading, Acting
  <2>3. CASE driver' = driver /\ ~Unloading(m) /\ ~driver
    <3>1. PICK n \in Modems : Unloading(n) \/ (n \notin toRun /\ Confessed(n, "driver_reset"))
      BY <2>3 DEF Kept
    <3>2. ~Unloading(n)
      BY <2>3, OneActs DEF Unloading
    <3>3. n \notin toRun' /\ Confessed(n, "driver_reset")'
      BY <3>1, <3>2 DEF Confessed
    <3>4. QED
      BY <3>3
  <2>4. QED
    BY <2>1, <2>2, <2>3 DEF Typed
<1>4. (\A n \in toRun' : n \in bound') /\ \A n \in Modems \ bound' : Confessed(n, "usb_reset")'
  BY <1>2 DEF Kept, Confessed
<1>5. QED
  BY <1>1, <1>3, <1>4 DEF Kept

\* Each step of each action is one or the other, or the write to unbind.
LEMMA ActsKept ==
    ASSUME Typed, Kept, NEW m \in Modems, ActsOn(m)
    PROVE  Kept'
<1>1. Acting(m) /\ UNCHANGED plan /\ m \in toRun
  BY ActStep DEF probeVars, Acting, First
<1>2. /\ {"failed", "deferred", "unverified", "verified", "raised"} \subseteq Outcomes
      /\ \A how : Finish(m, how) => End(m, how) \/ End(m, "raised")
  BY DEF Outcomes, Finish
<1>3. plan[m] /= "usb_reset" \/ step = 0 => m \in bound
  BY <1>1 DEF Kept, OffBus
<1> USE DEF modemVars
<1>4. CASE Unbind(m)
  <2>1. ~Unloading(m) /\ driver' = driver /\ step = 0
    BY <1>4 DEF Unbind, Unloading
  <2>2. CASE Finish(m, "failed") /\ UNCHANGED bound
    BY <1>1, <1>2, <1>3, <2>1, <2>2, EndKept
  <2>3. CASE bound' = bound \ {m} /\ step' = 1 /\ UNCHANGED <<phase, toRun, report>>
    <3>1. OffBus(m)' /\ phase' = "act"
      BY <1>1, <1>4, <2>3 DEF Unbind, OffBus, Acting
    <3>2. \A n : ~OffBus(n) /\ ~Unloading(n)
      BY <2>1 DEF OffBus, Unloading
    <3>3. (\A n \in toRun' : n \in bound' \/ n = m) /\ \A n \in Modems \ bound' : n = m \/ Confessed(n, "usb_reset")'
      BY <2>3, <3>2 DEF Kept, Confessed
    <3>4. driver' \/ \E n \in Modems : n \notin toRun' /\ Confessed(n, "driver_reset")'
      BY <2>1, <2>3, <3>2 DEF Kept, Confessed
    <3>5. QED
      BY <3>1, <3>3, <3>4 DEF Kept
  <2>4. QED
    BY <1>4, <2>2, <2>3 DEF Unbind
<1>5. CASE Bind(m)
  <2>1. ~Unloading(m) /\ driver' = driver /\ plan[m] = "usb_reset"
    BY <1>5 DEF Bind, Unloading
  <2>2. CASE Finish(m, "failed") /\ UNCHANGED bound
    BY <1>1, <1>2, <2>1, <2>2, EndKept
  <2>3. CASE Finish(m, "deferred") /\ bound' = bound \cup {m}
    BY <1>1, <1>2, <2>1, <2>3, EndKept
  <2>4. QED
    BY <1>5, <2>2, <2>3 DEF Bind
<1>6. CASE BeginCalls(m)
  <2>1. ~Unloading(m) /\ plan[m] /= "usb_reset" /\ Goto(m, 1) /\ UNCHANGED <<bound, driver>>
    BY <1>6 DEF BeginCalls, Unloading
  <2>2. QED
    BY <1>1, <2>1, GotoKept DEF Goto
<1>7. ASSUME NEW e \in QmiEnds \cup {"in_use"}, Unloaded(m, e)
      PROVE  Kept'
  <2>1. plan[m] = "driver_reset" /\ UNCHANGED bound
    BY <1>7 DEF Unloaded
  <2>2. CASE Finish(m, "failed")
    BY <1>1, <1>2, <1>3, <2>1, <2>2, EndKept
  <2>3. CASE Goto(m, 2)
    BY <1>1, <2>1, <2>3, GotoKept DEF Goto
  <2>4. QED
    BY <1>7, <2>2, <2>3 DEF Unloaded
<1>8. ASSUME NEW e \in QmiEnds \cup {"in_use"}, Loaded(m, e)
      PROVE  Kept'
  <2>1. plan[m] = "driver_reset" /\ UNCHANGED bound
    BY <1>8 DEF Loaded
  <2>2. CASE e = "none"
    <3>1. Finish(m, "deferred") /\ driver' = TRUE
      <4>1. LoadOutcome(e) = "deferred"
        BY <2>2 DEF LoadOutcome
      <4>2. AfterModprobe(e, TRUE) /\ Finish(m, LoadOutcome(e))
        BY <1>8 DEF Loaded
      <4>3. \A loaded : AfterModprobe(e, loaded) => driver' = loaded
        BY <2>2 DEF AfterModprobe
      <4>4. QED
        BY <4>1, <4>2, <4>3, Zenon
    <3>2. QED
      BY <1>1, <1>2, <1>3, <2>1, <3>1, EndKept
  <2>3. CASE e /= "none"
    <3>1. Finish(m, "failed")
      BY <1>8, <2>3 DEF Loaded, LoadOutcome
    <3>2. QED
      BY <1>1, <1>2, <1>3, <2>1, <3>1, EndKept
  <2>4. QED
    BY <2>2, <2>3
<1>9. ASSUME NEW e \in QmiEnds, QmiStep(m, e)
      PROVE  Kept'
  <2>1. /\ plan[m] /= "usb_reset" /\ ~Unloading(m) /\ UNCHANGED <<bound, driver>>
    BY <1>9 DEF QmiStep, Unloading
  <2>2. CASE \E how \in Outcomes : End(m, how)
    BY <1>1, <1>3, <2>1, <2>2, EndKept
  <2>3. CASE UNCHANGED <<phase, toRun, report>>
    BY <1>1, <2>1, <2>3, GotoKept
  <2>4. QED
    BY <2>2, <2>3, ActStep
<1>10. CASE Raises(m)
  <2>1. End(m, "raised") /\ UNCHANGED <<bound, driver>>
    BY <1>10 DEF Raises
  <2>2. CASE plan[m] = "usb_reset" \/ plan[m] = "driver_reset"
    <3>1. plan[m] = "usb_reset" => ~Unloading(m)
      BY DEF Unloading
    <3>2. plan[m] = "driver_reset" => m \in bound
      BY <1>3
    <3>3. QED
      BY <1>1, <1>2, <2>1, <2>2, <3>1, <3>2, EndKept
  <2>3. CASE plan[m] /= "usb_reset" /\ plan[m] /= "driver_reset"
    <3>1. m \in bound /\ ~Unloading(m)
      BY <1>3, <2>3 DEF Unloading
    <3>2. QED
      BY <1>1, <1>2, <2>1, <3>1, EndKept
  <2>4. QED
    BY <2>2, <2>3
<1>11. QED
  BY <1>4, <1>5, <1>6, <1>7, <1>8, <1>9, <1>10 DEF ActsOn

\* And the rest of a cycle, SIGTERM included, forgets no confession of a modem that
\* is still gone.
LEMMA KeptStep == Typed /\ Kept /\ [Next]_vars => Kept'
<1> SUFFICES ASSUME Typed, Kept, [Next]_vars PROVE Kept'
  OBVIOUS
<1> USE DEF modemVars, actionVars
<1>1. ASSUME phase /= "act"
      PROVE  \A m : ~OffBus(m) /\ ~Unloading(m)
  BY <1>1 DEF OffBus, Unloading, Acting
<1>2. ASSUME NEW m \in Modems, Probes(m)
      PROVE  Kept'
  <2>1. phase = "observe" /\ m \in pending /\ UNCHANGED <<phase, toRun, report, bound, driver>>
    BY <1>2, ProbeStep
  <2>2. pending' \cup DOMAIN snaps' \subseteq pending \cup DOMAIN snaps
    BY <1>2, <2>1, ProbeStep DEF ProbeGoesOn, ProbeIsOver
  <2>3. QED
    BY <1>1, <2>1, <2>2 DEF Kept, Confessed, Enumerated
<1>3. CASE StartCycle
  <2>1. phase = "idle" /\ phase' = "observe" /\ toRun' = {} /\ UNCHANGED <<bound, driver>>
    BY <1>3 DEF StartCycle, Typed
  <2>2. \A m \in pending' \cup DOMAIN snaps' : Enumerated(m)'
    BY <1>3 DEF StartCycle, ToProbe, Enumerated
  <2>3. \A m \in Modems : ~Enumerated(m) => report'[m] = report[m]
    BY <1>3 DEF StartCycle
  <2>4. QED
    BY <1>1, <2>1, <2>2, <2>3 DEF Kept, Confessed, Enumerated
<1>4. CASE Decide
  <2>1. phase = "observe" /\ phase' /= "observe" /\ UNCHANGED <<report, bound, driver>>
    BY <1>4, DecidePlans DEF Decide
  <2>2. \A m \in toRun' : m \in bound /\ driver
    BY <1>4, <2>1, DecidePlans DEF Kept, Enumerated
  <2>3. QED
    BY <1>1, <2>1, <2>2 DEF Kept, Confessed
<1>5. CASE Sigterm
  <2>1. /\ phase' = "down" /\ toRun' = {} /\ UNCHANGED <<bound, driver>>
        /\ \A m \in Modems : report'[m] = IF Acting(m) /\ step > 0
                                            THEN [kind |-> plan[m], how |-> "cancelled"]
                                            ELSE report[m]
    BY <1>5 DEF Sigterm
  <2>2. ASSUME NEW m \in Modems, m \notin bound
        PROVE  Confessed(m, "usb_reset")'
    <3>1. CASE OffBus(m)
      <4>1. Acting(m) /\ step > 0 /\ plan[m] = "usb_reset"
        BY <3>1 DEF OffBus
      <4>2. report'[m] = [kind |-> "usb_reset", how |-> "cancelled"]
        BY <2>1, <4>1
      <4>3. QED
        BY <4>2 DEF Confessed
    <3>2. CASE ~OffBus(m)
      <4>1. ~Acting(m) /\ Confessed(m, "usb_reset")
        BY <2>2, <3>2 DEF Kept, Acting, First
      <4>2. QED
        BY <2>1, <4>1 DEF Confessed
    <3>3. QED
      BY <3>1, <3>2
  <2>3. ASSUME NEW m \in Modems, Unloading(m) \/ (m \notin toRun /\ Confessed(m, "driver_reset"))
        PROVE  Confessed(m, "driver_reset")'
    <3>1. CASE Unloading(m)
      <4>1. Acting(m) /\ step > 0 /\ plan[m] = "driver_reset"
        BY <3>1 DEF Unloading
      <4>2. report'[m] = [kind |-> "driver_reset", how |-> "cancelled"]
        BY <2>1, <4>1
      <4>3. QED
        BY <4>2 DEF Confessed
    <3>2. CASE m \notin toRun /\ Confessed(m, "driver_reset")
      BY <2>1, <3>2 DEF Confessed, Acting, First
    <3>3. QED
      BY <2>3, <3>1, <3>2
  <2>4. QED
    BY <2>1, <2>2, <2>3 DEF Kept
<1>6. CASE Quiet
  <2>1. /\ UNCHANGED <<pending, snaps, plan, toRun, step, report, bound, driver>>
        /\ phase' = phase \/ (phase = "down" /\ phase' = "idle")
    BY <1>6, QuietStep
  <2>2. \A m : (OffBus(m)' <=> OffBus(m)) /\ (Unloading(m)' <=> Unloading(m))
    BY <2>1 DEF OffBus, Unloading, Acting, First
  <2>3. QED
    BY <2>1, <2>2 DEF Kept, Confessed, Enumerated
<1>7. QED
  BY <1>2, <1>3, <1>4, <1>5, <1>6, ActsKept, StepCases

\* LostIsReported for every interleaving of unbind, bind, unload and load with their
\* failures, time-outs and SIGTERM: a modem off the bus or a driver out of the kernel
\* always has a reset that is under way, or owns up to it.
THEOREM LostIsReportedHolds == Spec => []LostIsReported
<1>1. Init => Kept
  BY DEF Init, Kept
<1>2. Kept => LostIsReported
  BY DEF Kept, LostIsReported, OffBus, Unloading, Confessed
<1>3. QED
  BY <1>1, <1>2, ModemIOTyped, KeptStep, PTL DEF Spec

-----------------------------------------------------------------------------
(* Verification *)

QmiKinds == {"set_apn", "fix_raw_ip", "sim_power_on", "soft_reset", "modem_reset"}

\* A program is its execution with its verification behind it; a verification ends
\* with a read.
ProgramFacts(k) ==
    /\ Len(Execute[k]) \in Nat /\ Len(Program(k)) \in Nat /\ Len(Program(k)) >= 1
    /\ Verify[k] /= << >> => /\ Len(Execute[k]) < Len(Program(k))
                            /\ Program(k)[Len(Program(k))] = "read"

\* The programs, written out.
LEMMA Programs ==
    /\ DOMAIN Target = QmiKinds
    /\ \A k \in ActionKinds : k \in QmiKinds \/ k = "usb_reset" \/ k = "driver_reset"
    /\ \A k \in QmiKinds : ProgramFacts(k)
<1>1. \A k \in QmiKinds : k \in ActionKinds
  BY DEF QmiKinds, ActionKinds, LadderRungs, DestructiveKinds
<1>2. ProgramFacts("set_apn")
  <2>1. Execute["set_apn"] = <<"serving", "read", "write">>
    BY DEF Execute
  <2>2. Verify["set_apn"] = <<"serving", "read">>
    BY <1>1 DEF Verify, QmiKinds
  <2>3. Program("set_apn") = <<"serving", "read", "write">> \o <<"serving", "read">>
    BY <2>1, <2>2 DEF Program
  <2>4. Len(Program("set_apn")) = 5
    BY <2>3
  <2>5. Program("set_apn")[5] = "read"
    BY <2>3
  <2>6. QED
    BY <2>1, <2>2, <2>4, <2>5 DEF ProgramFacts
<1>3. ProgramFacts("fix_raw_ip")
  <2>1. Execute["fix_raw_ip"] = <<"read", "write">>
    BY DEF Execute
  <2>2. Verify["fix_raw_ip"] = <<"read">>
    BY <1>1 DEF Verify, QmiKinds
  <2>3. Program("fix_raw_ip") = <<"read", "write">> \o <<"read">>
    BY <2>1, <2>2 DEF Program
  <2>4. Len(Program("fix_raw_ip")) = 3
    BY <2>3
  <2>5. Program("fix_raw_ip")[3] = "read"
    BY <2>3
  <2>6. QED
    BY <2>1, <2>2, <2>4, <2>5 DEF ProgramFacts
<1>4. ProgramFacts("sim_power_on")
  <2>1. Execute["sim_power_on"] = <<"write">>
    BY DEF Execute
  <2>2. Verify["sim_power_on"] = <<"read">>
    BY <1>1 DEF Verify, QmiKinds
  <2>3. Program("sim_power_on") = <<"write">> \o <<"read">>
    BY <2>1, <2>2 DEF Program
  <2>4. Len(Program("sim_power_on")) = 2
    BY <2>3
  <2>5. Program("sim_power_on")[2] = "read"
    BY <2>3
  <2>6. QED
    BY <2>1, <2>2, <2>4, <2>5 DEF ProgramFacts
<1>5. ProgramFacts("soft_reset")
  <2>1. Execute["soft_reset"] = <<"write">>
    BY DEF Execute
  <2>2. Verify["soft_reset"] = << >>
    BY <1>1 DEF Verify, QmiKinds
  <2>3. Program("soft_reset") = <<"write">> \o << >>
    BY <2>1, <2>2 DEF Program
  <2>4. Len(Program("soft_reset")) = 1
    BY <2>3
  <2>5. QED
    BY <2>1, <2>2, <2>4 DEF ProgramFacts
<1>6. ProgramFacts("modem_reset")
  <2>1. Execute["modem_reset"] = <<"write">>
    BY DEF Execute
  <2>2. Verify["modem_reset"] = << >>
    BY <1>1 DEF Verify, QmiKinds
  <2>3. Program("modem_reset") = <<"write">> \o << >>
    BY <2>1, <2>2 DEF Program
  <2>4. Len(Program("modem_reset")) = 1
    BY <2>3
  <2>5. QED
    BY <2>1, <2>2, <2>4 DEF ProgramFacts
<1>7. \A k \in QmiKinds : ProgramFacts(k)
  BY <1>2, <1>3, <1>4, <1>5, <1>6 DEF QmiKinds
<1>8. DOMAIN Target = QmiKinds
  BY DEF Target, QmiKinds
<1>9. \A k \in ActionKinds : k \in QmiKinds \/ k = "usb_reset" \/ k = "driver_reset"
  BY DEF QmiKinds, ActionKinds, LadderRungs, DestructiveKinds
<1>10. QED
  BY <1>7, <1>8, <1>9

\* The action under way is somewhere in its program.
InProgram ==
    \A m \in Modems : Acting(m) /\ plan[m] \in QmiKinds => step <= Len(Program(plan[m]))

\* An action that has not begun is at the start of its program.
LEMMA EndsInProgram ==
    ASSUME Typed, phase' /= "act" \/ step' = 0,
           \A m \in DOMAIN plan' : plan'[m] \in ActionKinds
    PROVE  InProgram'
<1>1. \A k \in QmiKinds : 0 <= Len(Program(k))
  BY Programs DEF ProgramFacts
<1>2. QED
  BY <1>1 DEF InProgram, Acting

\* No step leads past the end of a program.
LEMMA InProgramStep == Typed /\ InProgram /\ [Next]_vars => InProgram'
<1> SUFFICES ASSUME Typed, InProgram, [Next]_vars PROVE InProgram'
  OBVIOUS
<1>1. \A m \in DOMAIN plan' : plan'[m] \in ActionKinds
  BY TypedStep DEF Typed
<1>2. phase' /= "act" \/ step' = 0 => InProgram'
  BY <1>1, EndsInProgram
<1>3. ASSUME NEW m \in Modems, ActsOn(m)
      PROVE  InProgram'
  <2>1. Acting(m) /\ UNCHANGED plan
    BY <1>3, ActStep
  <2>2. CASE \E how \in Outcomes : End(m, how)
    BY <1>2, <2>2 DEF End
  <2>3. CASE UNCHANGED <<phase, toRun, report>> /\ ~\E how \in Outcomes : End(m, how)
    <3>1. SUFFICES ASSUME plan[m] \in QmiKinds
                   PROVE  step' <= Len(Program(plan[m]))
      <4>1. \A n : Acting(n)' => n = m
        BY <2>1, <2>3, OneActs DEF Acting, First
      <4>2. QED
        BY <2>1, <4>1 DEF InProgram
    <3>2. CASE BeginCalls(m)
      BY <3>1, <3>2, Programs DEF BeginCalls, Goto, ProgramFacts
    <3>3. CASE \E e \in QmiEnds : QmiStep(m, e)
      <4>1. PICK e \in QmiEnds : QmiStep(m, e)
        BY <3>3
      <4> DEFINE k == plan[m]
                 executing == step <= Len(Execute[k])
                 next == IF executing /\ Program(k)[step] = "read" /\ Found(m, Program(k)[step], e)
                           THEN Len(Execute[k]) + 1 ELSE step + 1
      <4>2. \A how \in {"failed", "deferred", "unverified", "verified"} : ~Finish(m, how)
        BY <2>3, FinishEnds DEF Outcomes
      <4>3. \/ Finish(m, IF executing THEN "failed" ELSE "unverified")
            \/ next <= Len(Program(k)) /\ Goto(m, next)
            \/ Finish(m, IF Verify[k] = << >> THEN "deferred" ELSE "verified")
        BY <4>1 DEF QmiStep
      <4>4. next <= Len(Program(k)) /\ Goto(m, next)
        BY <2>3, <4>2, <4>3
      <4>5. QED
        BY <4>4 DEF Goto
    <3>4. ~Raises(m)
      BY <2>3 DEF Raises, Outcomes
    <3>5. QED
      BY <1>3, <3>1, <3>2, <3>3, <3>4 DEF ActsOn, Unbind, Bind, Unloaded, Loaded, QmiKinds
  <2>4. QED
    BY <1>3, <2>2, <2>3, ActStep
<1>4. ASSUME NEW m \in Modems, Probes(m)
      PROVE  InProgram'
  BY <1>2, <1>4, ProbeStep
<1>5. CASE StartCycle \/ Decide \/ Sigterm
  BY <1>2, <1>5, DecidePlans DEF StartCycle, Sigterm
<1>6. CASE Quiet
  <2>1. /\ UNCHANGED <<plan, toRun, step>>
        /\ phase' = phase \/ (phase = "down" /\ phase' = "idle")
    BY <1>6, QuietStep
  <2>2. QED
    BY <2>1 DEF InProgram, Acting, First
<1>7. QED
  BY <1>3, <1>4, <1>5, <1>6, StepCases

\* An action that ends "verified" has just read its value, and found it right.
LEMMA VerifiedByRead ==
    ASSUME Typed, InProgram, NEW m \in Modems, NEW e \in QmiEnds, QmiStep(m, e),
           End(m, "verified")
    PROVE  Target[plan[m]] \cap wrong[leads[m]] = {}
<1> DEFINE k == plan[m]
           L == Len(Execute[k])
           verb == Program(k)[step]
           executing == step <= L
           found == Found(m, verb, e)
           next == IF executing /\ verb = "read" /\ found THEN L + 1 ELSE step + 1
<1>1. Acting(m) /\ m \in toRun /\ k \in QmiKinds
  BY Programs DEF QmiStep, Acting, First, Typed
<1>2. \A how \in Outcomes : End(m, how) => report'[m] = [kind |-> k, how |-> how]
  BY <1>1, EndTyped
<1>3. \A how \in Outcomes : End(m, how) => how = "verified"
  <2>1. ASSUME NEW how \in Outcomes, End(m, how)
        PROVE  how = "verified"
    <3>1. report'[m] = [kind |-> k, how |-> how]
      BY <1>2, <2>1
    <3>2. report'[m] = [kind |-> k, how |-> "verified"]
      BY <1>2 DEF Outcomes
    <3>3. [kind |-> k, how |-> how].how = [kind |-> k, how |-> "verified"].how
      BY <3>1, <3>2
    <3>4. QED
      BY <3>3
  <2>2. QED
    BY <2>1
<1>12. \A how \in Outcomes : Finish(m, how) => how = "verified"
  BY <1>3, FinishEnds DEF Outcomes
<1>4. ~Goto(m, next)
  <2>1. toRun' = {} \/ toRun' = toRun \ {m}
    BY DEF End
  <2>2. QED
    BY <1>1, <2>1 DEF Goto
<1>5. Passes(verb, e, executing, found)
  BY <1>12 DEF QmiStep, Outcomes
<1>6. ~(next <= Len(Program(k))) /\ Verify[k] /= << >>
  BY <1>4, <1>12 DEF QmiStep, Outcomes
<1>7. L \in Nat /\ Len(Program(k)) \in Nat /\ L < Len(Program(k))
  BY <1>1, <1>6, Programs DEF ProgramFacts
<1>8. ~executing /\ step = Len(Program(k))
  <2>1. step \in Nat /\ step <= Len(Program(k))
    BY <1>1 DEF InProgram, Typed
  <2>2. ~(step + 1 <= Len(Program(k)))
    BY <1>6, <1>7
  <2>3. step = Len(Program(k))
    BY <1>7, <2>1, <2>2
  <2>4. QED
    BY <1>7, <2>3
<1>9. verb = "read"
  BY <1>1, <1>6, <1>8, Programs DEF ProgramFacts
<1>10. found
  BY <1>5, <1>8, <1>9 DEF Passes
<1>11. QED
  BY <1>9, <1>10 DEF Found

\* Nothing else ends an action with that word.
LEMMA OnlyReadsVerify ==
    ASSUME Typed, NEW m \in Modems, ActsOn(m), toRun' /= toRun,
           report'[m].how = "verified"
    PROVE  /\ \E e \in QmiEnds : QmiStep(m, e)
           /\ End(m, "verified") /\ report'[m].kind = plan[m]
<1>1. m \in toRun
  BY ActStep DEF Acting, First
<1>2. ASSUME NEW how \in Outcomes, End(m, how)
      PROVE  how = "verified" /\ report'[m].kind = plan[m]
  <2>1. report'[m] = [kind |-> plan[m], how |-> how]
    BY <1>1, <1>2, EndTyped
  <2>2. QED
    BY <2>1
<1>3. {"failed", "deferred", "unverified", "verified"} \subseteq Outcomes
  BY DEF Outcomes
<1>4. ~Finish(m, "failed") /\ ~Finish(m, "deferred") /\ ~End(m, "raised")
  BY <1>2, <1>3, FinishEnds DEF Outcomes
<1>5. ~Unbind(m) /\ ~Bind(m) /\ ~BeginCalls(m) /\ ~Raises(m)
  BY <1>4 DEF Unbind, Bind, BeginCalls, Raises, Goto
<1>6. \A e : ~Unloaded(m, e)
  BY <1>4 DEF Unloaded, Goto
<1>7. \A e : LoadOutcome(e) = "deferred" \/ LoadOutcome(e) = "failed"
  BY DEF LoadOutcome
<1>8. \A e : ~Loaded(m, e)
  BY <1>4, <1>7 DEF Loaded
<1>9. \E e \in QmiEnds : QmiStep(m, e)
  BY <1>5, <1>6, <1>8 DEF ActsOn
<1>10. \E how \in Outcomes : End(m, how)
  BY ActStep
<1>11. QED
  BY <1>2, <1>9, <1>10

\* VerifiedIsTrue for every program, every answer and every way its calls may end:
\* an action reports itself verified only when its last read found the value right,
\* on a modem that no longer has the fault, unless the modems were renumbered.
THEOREM VerifiedIsTrueHolds == Spec => VerifiedIsTrue
<1> DEFINE Verified(m) ==
             (toRun' /= toRun /\ report'[m] /= report[m] /\ report'[m].how = "verified"
                /\ leads[m] = m)
               => wrong[m] \cap Target[report'[m].kind] = {}
<1>1. Init => InProgram
  BY DEF Init, InProgram, Acting
<1>2. Typed /\ InProgram /\ [Next]_vars => [\A m \in Modems : Verified(m)]_vars
  <2> SUFFICES ASSUME Typed, InProgram, [Next]_vars, NEW m \in Modems,
                      toRun' /= toRun, report'[m] /= report[m],
                      report'[m].how = "verified", leads[m] = m
               PROVE  wrong[m] \cap Target[report'[m].kind] = {}
    OBVIOUS
  <2>1. ASSUME NEW n \in Modems, ActsOn(n)
        PROVE  wrong[m] \cap Target[report'[m].kind] = {}
    <3>1. n = m
      BY <2>1, ActStep
    <3>2. /\ \E e \in QmiEnds : QmiStep(m, e)
          /\ End(m, "verified") /\ report'[m].kind = plan[m]
      BY <2>1, <3>1, OnlyReadsVerify
    <3>3. Target[plan[m]] \cap wrong[leads[m]] = {}
      BY <3>2, VerifiedByRead
    <3>4. QED
      BY <3>2, <3>3
  <2>2. ~StartCycle /\ ~Decide /\ ~Quiet /\ ~\E n \in Modems : Probes(n)
    BY ProbeStep, QuietStep DEF StartCycle, Decide, actionVars
  <2>3. ~Sigterm
    <3>1. ASSUME Sigterm
          PROVE  report'[m] = report[m] \/ report'[m] = [kind |-> plan[m], how |-> "cancelled"]
      BY <3>1 DEF Sigterm
    <3>2. QED
      BY <3>1
  <2>4. QED
    BY <2>1, <2>2, <2>3, StepCases
<1>3. QED
  BY <1>1, <1>2, ModemIOTyped, InProgramStep, PTL DEF Spec, VerifiedIsTrue

-----------------------------------------------------------------------------
(* Real faults *)

\* The issues that the faults of a modem account for; a dead proxy is the fault of
\* none.
RealIssues(w) ==
    {<<"qmi", "qmi_proxy_died">>}
      \cup (IF "profile" \in w THEN {<<"config", "apn_empty">>} ELSE {})
      \cup (IF "sim" \in w THEN {<<"sim", "sim_power_down">>} ELSE {})
      \cup (IF "settings" \in w THEN {<<"datapath", "raw_ip_off">>} ELSE {})
      \cup (IF "data" \in w THEN {<<"datapath", "session_disconnected">>} ELSE {})
      \cup (IF "serving" \in w THEN {<<"registration", "not_registered_searching">>} ELSE {})
      \cup (IF "operating_mode" \in w THEN {<<"qmi", "operating_mode_offline">>} ELSE {})

\* An answer that leads to an issue only where there is the fault.
Honest(q, v, w) ==
    CASE q = "profile" -> v \in DOMAIN ConfigIssues => "profile" \in w
      [] q = "sim" -> /\ v.card \in DOMAIN CardIssues => v.card = "power_down" /\ "sim" \in w
                      /\ v.app \notin DOMAIN AppIssues
                      /\ v.error \in DOMAIN SimErrorIssues => v.error = "proxy_died"
      [] q = "settings" -> v \in DOMAIN RawIpIssues => "settings" \in w
      [] q = "data" -> v \in DOMAIN SessionIssues => "data" \in w
      [] q = "serving" -> v \in DOMAIN RegistrationIssues
                            => v = "not_registered_searching" /\ "serving" \in w
      [] q = "operating_mode" -> v \in DOMAIN ModeIssues => v = "offline" /\ "operating_mode" \in w
      [] OTHER -> TRUE

\* What was honest stays so when more faults appear.
LEMMA FaultsGrow ==
    ASSUME NEW w, NEW x, w \subseteq x
    PROVE  /\ \A q \in QueryNames : \A v : Honest(q, v, w) => Honest(q, v, x)
           /\ Seq(RealIssues(w)) \subseteq Seq(RealIssues(x))
<1>1. ASSUME NEW q \in QueryNames, NEW v, Honest(q, v, w)
      PROVE  Honest(q, v, x)
  BY <1>1, QueriesAre DEF Honest
<1>2. RealIssues(w) \subseteq RealIssues(x)
  BY DEF RealIssues
<1>3. \A S, T : S \subseteq T => Seq(S) \subseteq Seq(T)
  OBVIOUS
<1>4. QED
  BY <1>1, <1>2, <1>3

\* Honest answers make a snapshot of real issues.
LEMMA HonestSnapshot ==
    ASSUME NEW a, NEW w, \A q \in QueryNames : Honest(q, a[q], w)
    PROVE  ToSnapshot(a).issues \in Seq(RealIssues(w))
<1> DEFINE S == RealIssues(w)
<1>1. a.profile \in DOMAIN ConfigIssues => <<"config", ConfigIssues[a.profile]>> \in S
  BY QueriesAre DEF Honest, ConfigIssues, RealIssues
<1>2. Honest("sim", a.sim, w)
  BY QueriesAre
<1>3. a.sim.card \in DOMAIN CardIssues => <<"sim", CardIssues[a.sim.card]>> \in S
  BY <1>2 DEF Honest, CardIssues, RealIssues
<1>4. a.sim.app \notin DOMAIN AppIssues
  BY <1>2 DEF Honest
<1>5. a.sim.error \in DOMAIN SimErrorIssues => <<"qmi", SimErrorIssues[a.sim.error]>> \in S
  BY <1>2 DEF Honest, SimErrorIssues, RealIssues
<1>6. a.settings \in DOMAIN RawIpIssues => <<"datapath", RawIpIssues[a.settings]>> \in S
  BY QueriesAre DEF Honest, RawIpIssues, RealIssues
<1>7. a.data \in DOMAIN SessionIssues => <<"datapath", SessionIssues[a.data]>> \in S
  BY QueriesAre DEF Honest, SessionIssues, RealIssues
<1>8. a.serving \in DOMAIN RegistrationIssues
        => <<"registration", RegistrationIssues[a.serving]>> \in S
  BY QueriesAre DEF Honest, RegistrationIssues, RealIssues
<1>9. a.operating_mode \in DOMAIN ModeIssues => <<"qmi", ModeIssues[a.operating_mode]>> \in S
  BY QueriesAre DEF Honest, ModeIssues, RealIssues
<1>10. QED
  BY <1>1, <1>3, <1>4, <1>5, <1>6, <1>7, <1>8, <1>9, ExtractedIn

\* What the parsers make of an answer that says nothing.
LEMMA NothingSaid ==
    /\ \A q \in QueryNames \ {"signal", "sim"} : Parse(q, << >>) \in {"none", "unreadable"}
    /\ Parse("sim", << >>) = [NoCard EXCEPT !.error = "missing_field"]
<1>1. \A name : name \notin DOMAIN << >>
  OBVIOUS
<1>2. \A name \in {"connection", "raw_ip", "mode"} : Line(<< >>, name) = "none"
  BY <1>1 DEF Line
<1>3. ParseServing(<< >>) = "unreadable"
  BY <1>1 DEF ParseServing
<1>4. ParseSim(<< >>) = [NoCard EXCEPT !.error = "missing_field"]
  BY <1>1 DEF ParseSim
<1>5. ParseProfile(<< >>) = "unreadable"
  BY <1>1 DEF ParseProfile
<1>6. QED
  BY <1>2, <1>3, <1>4, <1>5, QueriesAre DEF Parse, ParseDataSession, ParseSettings, ParseOperatingMode

\* A query that failed, or was answered by nothing a parser knows, makes up no fault.
LEMMA SilenceIsHonest ==
    ASSUME NEW q \in QueryNames, NEW w, NEW reason \in {"proxy_died", "non_zero_exit"}
    PROVE  Honest(q, Parse(q, << >>), w) /\ Honest(q, Failed(q, reason), w)
<1>1. CASE q = "sim"
  BY <1>1, NothingSaid DEF Honest, Failed, NoCard, CardIssues, AppIssues, SimErrorIssues
<1>2. CASE q = "signal"
  BY <1>2 DEF Honest
<1>3. CASE q \notin {"sim", "signal"}
  BY <1>3, NothingSaid, QueriesAre DEF Honest, Failed, ConfigIssues, RawIpIssues, SessionIssues,
       RegistrationIssues, ModeIssues
<1>4. QED
  BY <1>1, <1>2, <1>3

\* Neither does a modem that answers.
LEMMA RepliesAreHonest ==
    ASSUME NEW m, NEW q \in QueryNames
    PROVE  Honest(q, Parse(q, Reply(m, q)), wrong[m])
<1>1. CASE q = "signal"
  BY <1>1 DEF Honest
<1>2. CASE q = "serving"
  <2>1. GoodReply.serving = [state |-> "registered", roaming |-> "off", plmn |-> "known"]
    BY DEF GoodReply
  <2>2. BadReply.serving = [state |-> "not-registered-searching"]
    BY DEF BadReply
  <2>3. ParseServing(GoodReply.serving) = "registered_home"
    BY <2>1 DEF ParseServing, Line, Unregistered
  <2>4. ParseServing(BadReply.serving) = "not_registered_searching"
    BY <2>2 DEF ParseServing, Line, Unregistered
  <2>5. Parse(q, Reply(m, q)) = IF q \in wrong[m] THEN ParseServing(BadReply.serving)
                                                 ELSE ParseServing(GoodReply.serving)
    BY <1>2 DEF Parse, Reply
  <2>6. QED
    BY <1>2, <2>3, <2>4, <2>5 DEF Honest, RegistrationIssues
<1>3. CASE q = "sim"
  <2>1. /\ ParseSim(GoodReply.sim).card = "present" /\ ParseSim(GoodReply.sim).app = "ready"
        /\ ParseSim(GoodReply.sim).error = "none"
    BY DEF GoodReply, ParseSim, Line
  <2>2. /\ ParseSim(BadReply.sim).card = "power_down" /\ ParseSim(BadReply.sim).app = "none"
        /\ ParseSim(BadReply.sim).error = "none"
    BY DEF BadReply, ParseSim, Line
  <2>3. QED
    BY <1>3, <2>1, <2>2 DEF Honest, Parse, Reply, CardIssues, AppIssues, SimErrorIssues
<1>4. CASE q = "data"
  BY <1>4 DEF Honest, Parse, Reply, ParseDataSession, Line, GoodReply, BadReply, SessionIssues
<1>5. CASE q = "profile"
  <2>1. ParseProfile(GoodReply.profile) = "apn"
    BY DEF GoodReply, ParseProfile, Line
  <2>2. QED
    BY <1>5, <2>1 DEF Honest, Parse, Reply, ConfigIssues
<1>6. CASE q = "settings"
  BY <1>6 DEF Honest, Parse, Reply, ParseSettings, Line, GoodReply, BadReply, RawIpIssues
<1>7. CASE q = "operating_mode"
  BY <1>7 DEF Honest, Parse, Reply, ParseOperatingMode, Line, GoodReply, BadReply, ModeIssues
<1>8. QED
  BY <1>1, <1>2, <1>3, <1>4, <1>5, <1>6, <1>7, QueriesAre

\* The answer to a query whose child exited by itself is honest.
LEMMA AnswersAreHonest ==
    ASSUME NEW m \in Modems, NEW q \in QueryNames, NEW e \in Endings(m, q), leads[m] = m
    PROVE  Honest(q, Answer(m, q, e), wrong[m])
<1>1. e \in {"none", "garbled", "proxy_died", "non_zero_exit"}
  <2>1. \A p, x \in BOOLEAN : Classify(FALSE, p, x) \in {"none", "proxy_died", "non_zero_exit"}
    BY DEF Classify
  <2>2. QED
    BY <2>1 DEF Endings
<1>2. CASE e = "none"
  BY <1>2, RepliesAreHonest DEF Answer
<1>3. CASE e = "garbled"
  BY <1>3, SilenceIsHonest DEF Answer
<1>4. CASE e \in {"proxy_died", "non_zero_exit"}
  <2>1. Verdict(e) = e
    BY <1>4 DEF Verdict, Kills
  <2>2. Answer(m, q, e) = Failed(q, e)
    BY <1>4, <2>1 DEF Answer
  <2>3. QED
    BY <1>4, <2>2, SilenceIsHonest
<1>5. QED
  BY <1>1, <1>2, <1>3, <1>4

\* Every set of naturals with an element has a least one.
LEMMA LeastExists ==
    ASSUME NEW T, T \subseteq Nat, T /= {}
    PROVE  \E x \in T : \A y \in T : x <= y
<1>1. PICK x \in T : \A y \in T : <<y, x>> \notin OpToRel(<, Nat)
  BY NatLessThanWellFounded, WFMin, Zenon
<1>2. ASSUME NEW y \in T
      PROVE  x <= y
  <2>1. ~(y < x)
    BY <1>1 DEF OpToRel
  <2>2. QED
    BY <2>1
<1>3. QED
  BY <1>2

\* The issue the policy looks at is one of the list.
LEMMA TopIsListed ==
    ASSUME NEW issues \in Seq(Extractable), issues /= << >>
    PROVE  \E i \in DOMAIN issues : SelectTopPriorityIssue(issues) = issues[i]
<1> DEFINE D == DOMAIN issues
           P(i) == Priority[issues[i][1]]
           Ranks == {P(i) : i \in D}
<1>1. D \subseteq Nat /\ D /= {}
  <2>1. D = 1 .. Len(issues) /\ Len(issues) \in Nat
    OBVIOUS
  <2>2. Len(issues) /= 0
    BY EmptySeq
  <2>3. 1 \in D
    BY <2>1, <2>2
  <2>4. QED
    BY <2>1, <2>3
<1>2. \A i \in D : P(i) \in Nat
  <2>1. \A x \in Extractable : Priority[x[1]] \in Nat
    BY DEF Extractable, Priority
  <2>2. \A i \in D : issues[i] \in Extractable
    OBVIOUS
  <2>3. QED
    BY <2>1, <2>2
<1>3. PICK p \in Ranks : \A r \in Ranks : p <= r
  <2>1. Ranks \subseteq Nat /\ Ranks /= {}
    BY <1>1, <1>2
  <2>2. QED
    BY <2>1, LeastExists
<1> DEFINE Best == {i \in D : P(i) = p}
<1>4. PICK i \in Best : \A j \in Best : i <= j
  <2>1. Best \subseteq Nat /\ Best /= {}
    BY <1>1, <1>3
  <2>2. QED
    BY <2>1, LeastExists
<1> DEFINE Top(k) == \A j \in D : LET pi == P(k)
                                      pj == P(j)
                                  IN  pi < pj \/ (pi = pj /\ k <= j)
<1>5. \E k \in D : Top(k)
  <2>1. i \in D /\ P(i) = p
    BY <1>4
  <2>2. ASSUME NEW j \in D
        PROVE  P(i) < P(j) \/ (P(i) = P(j) /\ i <= j)
    <3>1. p <= P(j) /\ p \in Nat /\ P(j) \in Nat
      BY <1>2, <1>3
    <3>2. P(j) = p => i <= j
      BY <1>4
    <3> HIDE DEF P
    <3>3. QED
      BY <2>1, <3>1, <3>2
  <2>3. QED
    BY <2>1, <2>2
<1>6. SelectTopPriorityIssue(issues) = issues[CHOOSE k \in D : Top(k)]
  BY DEF SelectTopPriorityIssue
<1>7. (CHOOSE k \in D : Top(k)) \in D
  BY <1>5
<1>8. QED
  BY <1>6, <1>7

\* Whatever an issue of a real fault leads to is there for that fault.
LEMMA RealIssuesTreated ==
    ASSUME NEW w, NEW issue \in RealIssues(w)
    PROVE  LET base == LookupAction(issue)
           IN  /\ base \in ActionKinds \ {"usb_reset"}
               /\ base = "driver_reset" \/ Illness(base) \cap w /= {}
<1> DEFINE base == LookupAction(issue)
<1>0. ActionKinds = {"set_apn", "fix_raw_ip", "sim_power_on", "soft_reset", "modem_reset",
                     "usb_reset", "driver_reset"}
  BY DEF ActionKinds, LadderRungs, DestructiveKinds
<1>1. \A K \in ActionKinds : issue \in RowsOf[K] /\ (\A k \in ActionKinds : issue \in RowsOf[k] => k = K)
                               => base = K
  BY DEF LookupAction
<1>2. CASE issue = <<"config", "apn_empty">> /\ "profile" \in w
  <2>1. base = "set_apn"
    BY <1>0, <1>1, <1>2 DEF RowsOf
  <2>2. QED
    BY <1>0, <1>2, <2>1 DEF Illness, Target, LadderRungs
<1>3. CASE issue = <<"sim", "sim_power_down">> /\ "sim" \in w
  <2>1. base = "sim_power_on"
    BY <1>0, <1>1, <1>3 DEF RowsOf
  <2>2. QED
    BY <1>0, <1>3, <2>1 DEF Illness, Target, LadderRungs
<1>4. CASE issue = <<"datapath", "raw_ip_off">> /\ "settings" \in w
  <2>1. base = "fix_raw_ip"
    BY <1>0, <1>1, <1>4 DEF RowsOf
  <2>2. QED
    BY <1>0, <1>4, <2>1 DEF Illness, Target, LadderRungs
<1>5. CASE issue = <<"datapath", "session_disconnected">> /\ "data" \in w
  <2>1. base = "modem_reset"
    BY <1>0, <1>1, <1>5 DEF RowsOf
  <2>2. QED
    BY <1>0, <1>5, <2>1 DEF Illness, LadderRungs
<1>6. CASE issue = <<"registration", "not_registered_searching">> /\ "serving" \in w
  <2>1. base = "soft_reset"
    BY <1>0, <1>1, <1>6 DEF RowsOf
  <2>2. QED
    BY <1>0, <1>6, <2>1 DEF Illness, LadderRungs
<1>7. CASE issue = <<"qmi", "operating_mode_offline">> /\ "operating_mode" \in w
  <2>1. base = "modem_reset"
    BY <1>0, <1>1, <1>7 DEF RowsOf
  <2>2. QED
    BY <1>0, <1>7, <2>1 DEF Illness, LadderRungs
<1>8. CASE issue = <<"qmi", "qmi_proxy_died">>
  <2>1. base = "driver_reset"
    BY <1>0, <1>1, <1>8 DEF RowsOf
  <2>2. QED
    BY <1>0, <2>1
<1>9. QED
  BY <1>2, <1>3, <1>4, <1>5, <1>6, <1>7, <1>8 DEF RealIssues

\* What is known while the modems are observed.  The time-out around a probe comes
\* before that of any of its queries, so no child of a probe is ever signalled and
\* every answer is of a child that exited by itself; and what has been heard is true.
Asked(m) ==
    /\ call[m].stage = "running" /\ call[m].limit = QueryTimeout /\ call[m].age <= age
    /\ m \in DOMAIN answers
    /\ DOMAIN answers[m] \subseteq QueryNames /\ DOMAIN answers[m] /= QueryNames
    /\ \A q \in DOMAIN answers[m] : Honest(q, answers[m][q], wrong[m])

Founded ==
    phase = "observe" =>
        /\ \A m \in Modems : leads[m] = m
        /\ \A m \in pending : Asked(m)
        /\ \A m \in DOMAIN snaps : snaps[m].issues \in Seq(RealIssues(wrong[m]))

\* An answer that is not the last leaves the probe founded, the last one its snapshot.
LEMMA AnsweredFounded ==
    ASSUME Typed, Founded, NEW m \in Modems, NEW e \in QmiEnds, Answered(m, e)
    PROVE  \/ UNCHANGED <<pending, snaps>> /\ Asked(m)'
           \/ /\ pending' = pending \ {m} /\ DOMAIN snaps' = DOMAIN snaps \cup {m}
              /\ snaps'[m].issues \in Seq(RealIssues(wrong[m]))
              /\ \A n \in DOMAIN snaps \ {m} : snaps'[n] = snaps[n]
<1> DEFINE q == Queries[Cardinality(DOMAIN answers[m]) + 1]
           a == [p \in DOMAIN answers[m] \cup {q} |->
                   IF p = q THEN Answer(m, q, e) ELSE answers[m][p]]
<1>1. Asked(m) /\ leads[m] = m /\ UNCHANGED <<age, wrong>>
  BY DEF Answered, Founded, modemVars
<1>2. q \in QueryNames
  BY <1>1, NextQuery DEF Asked
<1>3. e \in Endings(m, q)
  <2>1. Returns(m, q, e)
    BY DEF Answered
  <2>2. ~ByForce(m, e)
    BY <1>1 DEF ByForce, Dies, DrainOver, Asked
  <2>3. QED
    BY <2>1, <2>2 DEF Returns
<1>4. Honest(q, Answer(m, q, e), wrong[m])
  BY <1>1, <1>2, <1>3, AnswersAreHonest
<1>5. /\ DOMAIN a = DOMAIN answers[m] \cup {q} /\ DOMAIN a \subseteq QueryNames
      /\ \A p \in DOMAIN a : Honest(p, a[p], wrong[m])
  <2>1. DOMAIN a \subseteq QueryNames
    BY <1>1, <1>2 DEF Asked
  <2>2. ASSUME NEW p \in DOMAIN a
        PROVE  Honest(p, a[p], wrong[m])
    <3>1. CASE p = q
      <4>1. a[p] = Answer(m, q, e)
        BY <3>1
      <4>2. QED
        BY <1>4, <3>1, <4>1
    <3>2. CASE p /= q
      <4>1. p \in DOMAIN answers[m] /\ a[p] = answers[m][p]
        BY <3>2
      <4>2. QED
        BY <1>1, <4>1 DEF Asked
    <3>3. QED
      BY <3>1, <3>2
  <2>3. QED
    BY <2>1, <2>2
<1>6. CASE DOMAIN a = QueryNames
  <2>1. SnapshotTaken(m, ToSnapshot(a))
    BY <1>6 DEF Answered
  <2> HIDE DEF a, q
  <2>2. ToSnapshot(a).issues \in Seq(RealIssues(wrong[m]))
    BY <1>5, <1>6, HonestSnapshot
  <2>3. QED
    BY <2>1, <2>2 DEF SnapshotTaken
<1>7. CASE DOMAIN a /= QueryNames
  <2>1. /\ answers' = [answers EXCEPT ![m] = a] /\ UNCHANGED <<pending, snaps>>
        /\ call' = [call EXCEPT ![m] = Spawned(QueryTimeout)]
    BY <1>7 DEF Answered
  <2>2. call'[m].stage = "running" /\ call'[m].limit = QueryTimeout /\ call'[m].age = 0
    BY <2>1 DEF Typed, Spawned
  <2> HIDE DEF a, q
  <2>3. m \in DOMAIN answers' /\ answers'[m] = a
    BY <1>1, <2>1 DEF Asked
  <2>4. Asked(m)'
    BY <1>1, <1>5, <1>7, <2>2, <2>3 DEF Asked, Typed
  <2>5. QED
    BY <2>1, <2>4
<1>8. QED
  BY <1>6, <1>7

\* Whatever happens during the observation, what is known stays true.
LEMMA FoundedStep ==
    ASSUME ProbeTimeout <= QueryTimeout, Typed, Founded, [Next]_vars
    PROVE  Founded'
<1> USE DEF modemVars, actionVars
<1>1. ASSUME NEW m \in Modems, ActsOn(m)
      PROVE  Founded'
  BY <1>1, ActLists DEF Founded
<1>2. ASSUME NEW m \in Modems, Probes(m)
      PROVE  Founded'
  <2>1. /\ phase = "observe" /\ UNCHANGED <<age, leads, wrong>>
        /\ \A n \in Modems \ {m} : call'[n] = call[n]
        /\ DOMAIN answers' = DOMAIN answers
        /\ \A n \in DOMAIN answers \ {m} : answers'[n] = answers[n]
    BY <1>2, ProbeStep
  <2>2. \A n \in pending \ {m} : Asked(n)'
    BY <2>1 DEF Asked, Founded, Typed
  <2>3. ASSUME /\ pending' = pending \ {m} /\ DOMAIN snaps' = DOMAIN snaps \cup {m}
               /\ snaps'[m].issues \in Seq(RealIssues(wrong[m]))
               /\ \A n \in DOMAIN snaps \ {m} : snaps'[n] = snaps[n]
        PROVE  Founded'
    BY <2>1, <2>2, <2>3 DEF Founded
  <2>4. CASE ProbeExpires(m) \/ ProbeRaises(m)
    <3>1. SnapshotTaken(m, Blank)
      BY <2>4 DEF ProbeExpires, ProbeRaises
    <3>2. Blank.issues \in Seq(RealIssues(wrong[m]))
      BY DEF Blank
    <3>3. QED
      BY <2>3, <3>1, <3>2 DEF SnapshotTaken
  <2>5. CASE UNCHANGED <<pending, snaps>> /\ Asked(m)'
    BY <2>1, <2>2, <2>5 DEF Founded
  <2>6. QED
    BY <1>2, <2>3, <2>4, <2>5, AnsweredFounded DEF Probes
<1>3. CASE StartCycle
  <2>1. \A m \in Modems : leads'[m] = m
    BY <1>3 DEF StartCycle
  <2>2. \A m \in DOMAIN snaps' : snaps'[m].issues \in Seq(RealIssues(wrong'[m]))
    <3>1. \A m \in DOMAIN snaps' : snaps'[m] = Blank
      BY <1>3 DEF StartCycle
    <3>2. \A S : Blank.issues \in Seq(S)
      BY DEF Blank
    <3>3. QED
      BY <3>1, <3>2
  <2>3. ASSUME NEW m \in pending'
        PROVE  Asked(m)'
    <3>1. m \in Modems
      BY <1>3, <2>3 DEF StartCycle, ToProbe
    <3>2. call'[m] = Spawned(QueryTimeout) /\ age' = 0
      BY <1>3, <2>3, <3>1 DEF StartCycle
    <3>3. m \in DOMAIN answers' /\ answers'[m] = << >>
      BY <1>3, <2>3 DEF StartCycle
    <3>4. DOMAIN answers'[m] = {} /\ QueryNames /= {}
      BY <3>3, QueriesAre
    <3>5. QED
      BY <3>2, <3>3, <3>4 DEF Asked, Spawned
  <2>4. QED
    BY <2>1, <2>2, <2>3 DEF Founded
<1>4. CASE Decide \/ Sigterm
  BY <1>4, DecidePlans DEF Sigterm, Founded
<1>5. CASE Quiet
  <2>1. SUFFICES ASSUME phase' = "observe" PROVE Founded'
    BY DEF Founded
  <2>2. /\ phase = "observe" /\ UNCHANGED <<pending, answers, snaps, leads>>
        /\ \A m \in Modems : wrong[m] \subseteq wrong'[m]
    BY <1>5, <2>1, QuietStep
  <2>3. \A m \in DOMAIN snaps' : snaps'[m].issues \in Seq(RealIssues(wrong'[m]))
    BY <2>2, FaultsGrow DEF Founded, Typed
  <2>4. \A m \in pending : /\ call'[m].stage = "running" /\ call'[m].limit = QueryTimeout
                           /\ call'[m].age <= age'
    <3>1. \A m \in pending : /\ m \in Modems /\ call[m] \in Calls
                             /\ call[m].stage = "running" /\ call[m].limit = QueryTimeout
                             /\ call[m].age <= age
      BY <2>2 DEF Founded, Asked, Typed
    <3>2. CASE Tick
      <4>1. age' = age + 1 /\ \A m \in Modems : call'[m] = Older(call[m])
        BY <2>2, <3>2 DEF Tick
      <4>2. ASSUME NEW c \in Calls, c.stage = "running"
            PROVE  /\ Older(c).stage = "running" /\ Older(c).limit = c.limit
                   /\ Older(c).age = c.age + 1 /\ c.age \in Nat
        BY <4>2 DEF Older, Calls
      <4>3. \A x \in Nat : x <= age => x + 1 <= age'
        BY <4>1 DEF Typed
      <4>4. QED
        BY <3>1, <4>1, <4>2, <4>3
    <3>3. ASSUME NEW m \in Modems, Shutdown(m)
          PROVE  age' = age /\ \A n \in pending : call'[n] = call[n]
      <4>1. age' = age /\ \A n \in Modems \ {m} : call'[n] = call[n]
        BY <3>3 DEF Shutdown, probeVars, Expire, Escalate, Enter, Typed
      <4>2. m \notin pending
        <5>1. SUFFICES ASSUME m \in pending PROVE FALSE
          OBVIOUS
        <5>2. ~(age >= ProbeTimeout)
          BY <2>2, <3>3, <5>1 DEF Shutdown, ProbeDue
        <5>3. call[m].age >= QueryTimeout
          BY <3>1, <3>3, <5>1 DEF Shutdown, Expire, Escalate, Due, StageLimit
        <5>4. call[m].age \in Nat /\ age \in Nat /\ ProbeTimeout \in Nat /\ QueryTimeout \in Nat
          BY <3>1, <5>1, ModemIOAssumption DEF Calls, Typed, ModemIOAssumption
        <5>5. QED
          BY <3>1, <5>1, <5>2, <5>3, <5>4
      <4>3. QED
        BY <3>1, <4>1, <4>2
    <3>4. CASE Restart \/ World \/ UNCHANGED vars
      BY <3>1, <3>4 DEF Restart, World, vars, probeVars, subprocVars
    <3>5. QED
      BY <1>5, <3>1, <3>2, <3>3, <3>4 DEF Quiet
  <2>5. \A m \in pending : \A q \in DOMAIN answers[m] : Honest(q, answers[m][q], wrong'[m])
    <3>1. \A m \in pending : /\ m \in Modems /\ DOMAIN answers[m] \subseteq QueryNames
                             /\ \A q \in DOMAIN answers[m] : Honest(q, answers[m][q], wrong[m])
      BY <2>2 DEF Founded, Asked, Typed
    <3>2. QED
      BY <2>2, <3>1, FaultsGrow
  <2>6. \A m \in pending : Asked(m)'
    BY <2>2, <2>4, <2>5 DEF Founded, Asked
  <2>7. QED
    BY <2>2, <2>3, <2>6 DEF Founded
<1>6. QED
  BY <1>1, <1>2, <1>3, <1>4, <1>5, StepCases

\* TreatsRealFaults for every mix of answers, silence, garbage and dead proxies,
\* provided the probe's time-out is not longer than a query's, as in the code, where
\* they are equal: with a longer one a SIM query that times out would be an issue, and
\* have a modem soft_reset that has no fault.
THEOREM TreatsRealFaultsHolds ==
    ASSUME ProbeTimeout <= QueryTimeout
    PROVE  Spec => TreatsRealFaults
<1> DEFINE Treats == (phase = "observe" /\ phase' = "act")
                       => \A m \in toRun' : \/ plan'[m] = "driver_reset"
                                            \/ Illness(plan'[m]) \cap wrong[m] /= {}
<1>1. Init => Founded
  BY DEF Init, Founded
<1>2. Typed /\ Founded /\ [Next]_vars => Founded'
  BY FoundedStep
<1>3. Typed /\ Placed /\ Founded /\ [Next]_vars => [Treats]_vars
  <2> SUFFICES ASSUME Typed, Placed, Founded, [Next]_vars, phase = "observe", phase' = "act",
                      NEW m \in toRun'
               PROVE  plan'[m] = "driver_reset" \/ Illness(plan'[m]) \cap wrong[m] /= {}
    OBVIOUS
  <2>1. Decide
    BY ProbeStep, ActLists, QuietStep, StepCases DEF StartCycle, Sigterm
  <2> DEFINE issues == snaps[m].issues
             top == SelectTopPriorityIssue(issues)
             base == LookupAction(top)
  <2>2. m \in DOMAIN snaps /\ plan'[m] \in MayPlan(issues)
    BY <2>1, DecidePlans
  <2>3. issues \in Seq(RealIssues(wrong[m])) /\ issues \in Seq(Extractable)
    BY <2>2 DEF Founded, Placed
  <2>4. issues /= << >>
    BY <2>2 DEF MayPlan
  <2>5. top \in RealIssues(wrong[m])
    BY <2>3, <2>4, TopIsListed
  <2>6. base \in ActionKinds /\ (base = "driver_reset" \/ Illness(base) \cap wrong[m] /= {})
    BY <2>5, RealIssuesTreated
  <2>7. CASE base \in LadderRungs
    <3>1. plan'[m] \in LadderRungs
      BY <2>2, <2>4, <2>7 DEF MayPlan
    <3>2. Illness(plan'[m]) = Illness(base) /\ base /= "driver_reset"
      BY <2>7, <3>1 DEF Illness, LadderRungs
    <3>3. QED
      BY <2>6, <3>2
  <2>8. CASE base \notin LadderRungs
    <3>1. plan'[m] = base
      BY <2>2, <2>4, <2>8 DEF MayPlan
    <3>2. QED
      BY <2>6, <3>1
  <2>9. QED
    BY <2>7, <2>8
<1>4. Init => Placed
  BY DEF Init, Placed, InCall, NoCall
<1>5. QED
  BY <1>1, <1>2, <1>3, <1>4, ModemIOTyped, PlacedStep, PTL DEF Spec, TreatsRealFaults

\* What HungIsSeen runs into, for every instance: with those time-outs no snapshot
\* ever lists a query that timed out, so the row of the decision table for it, a soft
\* reset, is never used, however long a modem stays silent.
THEOREM TimeoutsGoUnseen ==
    ASSUME ProbeTimeout <= QueryTimeout
    PROVE  Spec => [](phase = "observe" =>
                        \A m \in DOMAIN snaps : \A i \in DOMAIN snaps[m].issues :
                           snaps[m].issues[i] /= <<"qmi", "qmi_timeout">>)
<1> DEFINE Unseen == phase = "observe" =>
                        \A m \in DOMAIN snaps : \A i \in DOMAIN snaps[m].issues :
                           snaps[m].issues[i] /= <<"qmi", "qmi_timeout">>
<1>1. Init => Founded
  BY DEF Init, Founded
<1>2. Typed /\ Founded /\ [Next]_vars => Founded'
  BY FoundedStep
<1>3. Founded => Unseen
  <2> SUFFICES ASSUME Founded, phase = "observe", NEW m \in DOMAIN snaps,
                      NEW i \in DOMAIN snaps[m].issues
               PROVE  snaps[m].issues[i] /= <<"qmi", "qmi_timeout">>
    OBVIOUS
  <2>1. snaps[m].issues \in Seq(RealIssues(wrong[m]))
    BY DEF Founded
  <2>2. snaps[m].issues[i] \in RealIssues(wrong[m])
    BY <2>1
  <2>3. QED
    BY <2>2 DEF RealIssues
<1>4. QED
  BY <1>1, <1>2, <1>3, ModemIOTyped, PTL DEF Spec

-----------------------------------------------------------------------------
(* Renumbered modems *)

\* What ReachesItsModem runs into has no other cause: the calls of an action go to the
\* modem it was planned for unless a driver reset of the same cycle came before it.
THEOREM OnlyDriverResetsMislead == Spec => [](ReachesItsModem \/ DriverResetBegun)
<1>1. Init => Placed /\ Spared /\ OnCourse
  BY DEF Init, Placed, Spared, OnCourse, InCall, NoCall
<1>2. OnCourse => ReachesItsModem \/ DriverResetBegun
  BY DEF OnCourse, ReachesItsModem, Acting
<1>3. QED
  BY <1>1, <1>2, ModemIOTyped, PlacedStep, SparedStep, OnCourseStep, PTL DEF Spec
=============================================================================
