------------------------------- MODULE Steps -------------------------------
(***************************************************************************)
(* The step handlers of src/acceptance/steps: what a sentence of a feature *)
(* does to the world of its execution, or checks in it, and how the        *)
(* registry picks the handler (acceptance/runtime/run.go).                 *)
(*                                                                         *)
(* A sentence is a record: do names its handler, with holds its captures,  *)
(* holes says which of them are columns of the examples, and screen is     *)
(* whether it speaks of the app or its screens.  Both halves of the suite  *)
(* use the same names.  A sentence that fixes a capture ("with an empty    *)
(* description", "a task that does not exist") is written with what it     *)
(* fixes.  A list arrives split, or as Malformed.                          *)
(*                                                                         *)
(* An execution makes one service and, for the screens, one session on it, *)
(* in the first sentence of its background.                                *)
(***************************************************************************)
EXTENDS Pages

CONSTANTS
  Malformed,     \* a list that does not parse
  ScreenPhrase,  \* " on the build screen", where a greedy capture takes it in
  Mechanics      \* the texts that hold a label of the raw mechanics

ASSUME StepsAssumption ==
  /\ Mock
  /\ ScreenPhrase \in Text
  /\ \E d \in Text : Trim[d] # Blank

VARIABLES
  ui,            \* does the world have a UI session?
  wbsID,         \* the current WBS, 0 for ""
  lastErr,       \* what the last call returned
  lastProposal

world == <<ui, wbsID, lastErr, lastProposal>>

ZeroProposal ==
  [confidence |-> "", contract |-> "", invitesRenegotiation |-> FALSE,
   cost |-> [low |-> 0, high |-> 0], weeks |-> [low |-> 0, high |-> 0],
   atLow |-> 0, atHigh |-> 0, scope |-> << >>, assumptions |-> << >>]

NewService ==
  /\ store' = << >> /\ nextID' = 1 /\ err' = OK
  /\ primed' = [tasks |-> << >>, risks |-> << >>, estimates |-> << >>]

NewSession == active' = 0 /\ inline' = "" /\ proposal' = NoProposal /\ proposalErr' = ""

\* Mutant of NewWorld: a world keeps the session it had.
NewWorldSameSession ==
  /\ NewService /\ NewSession
  /\ UNCHANGED ui /\ wbsID' = 0 /\ lastErr' = OK /\ lastProposal' = ZeroProposal

NewWorld ==
  /\ NewService /\ NewSession
  /\ ui' = FALSE /\ wbsID' = 0 /\ lastErr' = OK /\ lastProposal' = ZeroProposal

-----------------------------------------------------------------------------
(* What the handlers share. *)

UnknownTask == 9999

\* The document of a submission; what cannot be read is always a PDF.
Document(validity, format) ==
  [kind |-> IF validity = "corrupt" THEN "pdf" ELSE format,
   wellFormed |-> validity # "corrupt",
   body |-> IF validity = "valid" THEN CHOOSE d \in Text : Trim[d] # Blank ELSE Blank]

HasWBS == wbsID \in DOMAIN store

Current == store[wbsID]

HasTask(n) == HasWBS /\ TaskExists(Current, n)

Notes(n) == Current.tasks[n].riskNotes

\* A call whose error is remembered.
Sets(call) ==
  /\ call
  /\ lastErr' = err'
  /\ UNCHANGED <<session, ui, wbsID, lastProposal>>

OnCurrent(call) == Sets(IF HasWBS THEN call ELSE GetFails(wbsID))

\* Mutant of ExpectCount: as many as wanted will do.
ExpectAtMost(got, want) == got <= want

ExpectCount(got, want) == got = want

-----------------------------------------------------------------------------
(* What a sentence about the service does. *)

WBSActions(do, a) ==
  \/ do = "service" /\ NewService /\ UNCHANGED <<session, world>>
  \/ do = "primeTasks" /\ Prime("tasks", a[1]) /\ UNCHANGED <<session, world>>
  \/ /\ do = "generate"
     /\ Generate(Document(a[1], a[2]))
     /\ lastErr' = err'
     /\ wbsID' = IF err' = OK THEN nextID ELSE wbsID
     /\ UNCHANGED <<session, ui, lastProposal>>
  \/ do = "deleteEvery"
       /\ store' = [store EXCEPT ![wbsID] =
                      FoldLeft(LAMBDA w, t : DeleteTask(w, 1), @, @.tasks)]
       /\ err' = OK
       /\ UNCHANGED <<nextID, primed, session, world>>
  \/ do = "getUnknown" /\ Sets(GetFails(0))
  \/ do = "addTask"    /\ OnCurrent(ServiceAddTask(wbsID, a[1]))
  \/ do = "editTask"   /\ OnCurrent(ServiceEditTask(wbsID, a[1], a[2]))
  \/ do = "deleteTask" /\ OnCurrent(ServiceDeleteTask(wbsID, a[1]))
  \/ do = "approve"    /\ OnCurrent(ServiceApprove(wbsID))

RiskActions(do, a) ==
  \/ do = "primeRisks" /\ Prime("risks", a[1]) /\ UNCHANGED <<session, world>>
  \/ do = "flagRisks"   /\ OnCurrent(FlagRisks(wbsID))
  \/ do = "flagUnknown" /\ Sets(GetFails(0))
  \/ do = "addRiskNote" /\ OnCurrent(ServiceAddRiskNote(wbsID, a[1], a[2]))
  \/ do = "editRiskNote"   /\ OnCurrent(ServiceEditRiskNote(wbsID, a[1], a[2], a[3]))
  \/ do = "deleteRiskNote" /\ OnCurrent(ServiceDeleteRiskNote(wbsID, a[1], a[2]))

EstimateOf(a) == [o |-> a[2], m |-> a[3], p |-> a[4], reasoning |-> a[5]]

EstimateActions(do, a) ==
  \/ do = "primeEstimates" /\ Prime("estimates", a[1]) /\ UNCHANGED <<session, world>>
  \/ do = "generateEstimates" /\ OnCurrent(GenerateEstimates(wbsID))
  \/ do = "estimateUnknown"   /\ Sets(GetFails(0))
  \/ do = "override" /\ OnCurrent(ServiceOverrideEstimate(wbsID, a[1], EstimateOf(a)))
  \/ do = "approveEstimates"  /\ OnCurrent(ServiceApproveEstimates(wbsID))

\* One handler for both halves: with a session it fills in the form, else it asks
\* the service, and gets the zero proposal beside an error.
ProposalActions(do, a) ==
  LET inputs == [velocity |-> a[1], capacity |-> a[2], rate |-> a[3]]
  IN /\ do = "requestProposal"
     /\ IF ui THEN RequestProposal(inputs) /\ UNCHANGED world
        ELSE /\ IF HasWBS THEN Proposal(wbsID, inputs) ELSE GetFails(wbsID)
             /\ lastErr' = err'
             /\ \/ err' # OK /\ lastProposal' = ZeroProposal
                \/ err' = OK /\ lastProposal' \in Proposals(Current, inputs)
             /\ UNCHANGED <<session, ui, wbsID>>

ServiceActions(do, a) ==
  \/ WBSActions(do, a)
  \/ RiskActions(do, a)
  \/ EstimateActions(do, a)
  \/ ProposalActions(do, a)

-----------------------------------------------------------------------------
(* What a sentence about the service checks. *)

WBSAssertions(do, a) ==
  \/ do = "succeeds" /\ lastErr = OK
  \/ do = "fails"    /\ lastErr = a[1]
  \/ do = "created"     /\ lastErr = OK /\ wbsID # 0
  \/ do = "noneCreated" /\ DOMAIN store = {}
  \/ do = "approved"  /\ HasWBS /\ Current.approved = a[1]
  \/ do = "taskCount" /\ HasWBS /\ ExpectCount(Len(Current.tasks), a[1])
  \/ do = "taskIs" /\ HasTask(a[1]) /\ Current.tasks[a[1]].description = a[2]
  \/ do = "noTaskIs" /\ HasWBS
       /\ \A i \in DOMAIN Current.tasks : Current.tasks[i].description # a[1]
  \/ do = "approvedCount" /\ HasWBS
       /\ ExpectCount(IF Current.approved THEN Len(Current.tasks) ELSE 0, a[1])

RiskAssertions(do, a) ==
  \/ do = "noteCount" /\ HasTask(a[1]) /\ ExpectCount(Len(Notes(a[1])), a[2])
  \/ do = "noteIs" /\ HasTask(a[1]) /\ a[2] \in DOMAIN Notes(a[1])
       /\ Notes(a[1])[a[2]].description = a[3]

ThreePoints(e) == <<e.o, e.m, e.p>>

TaskHasEstimate(n) == HasTask(n) /\ Current.tasks[n].estimate # NoEstimate

EstimateAssertions(do, a) ==
  \/ do = "estimatesApproved" /\ HasWBS /\ Current.estimatesApproved = a[1]
  \/ do = "estimateIs" /\ TaskHasEstimate(a[1])
       /\ ThreePoints(Current.tasks[a[1]].estimate) = <<a[2], a[3], a[4]>>
  \/ do = "reasoningIs" /\ TaskHasEstimate(a[1])
       /\ Current.tasks[a[1]].estimate.reasoning = a[2]
  \/ do = "noEstimate" /\ HasTask(a[1]) /\ Current.tasks[a[1]].estimate = NoEstimate

\* However the roundings fall: a check that depends on one does not hold.
MetricsAre(v, e, sd, rsd) ==
  Metrics(v) = {[expected |-> e, standardDeviation |-> sd,
                 relativeStandardDeviation |-> rsd]}

MetricsAssertions(do, a) ==
  \/ do = "metrics" /\ TaskHasEstimate(a[1])
       /\ MetricsAre(EstimatePert(Current.tasks[a[1]].estimate), a[2], a[3], a[4])
  \/ do = "projectMetrics" /\ HasWBS /\ HasEstimate(Current)
       /\ MetricsAre(ProjectPert(Current), a[1], a[2], a[3])
  \/ do = "noProjectMetrics" /\ HasWBS /\ ~HasEstimate(Current)

Flag == [low |-> "green", medium |-> "yellow", high |-> "red"]

\* A green project's basis is exact before it is rounded, and a tie goes up.
PricingIs(w, flag, contract, basis) ==
  LET strategies == PricingStrategies(w)
      bases == {s.basis : s \in strategies}
  IN /\ HasEstimate(w)
     /\ {<<Flag[s.riskLevel], s.contract>> : s \in strategies} = {<<flag, contract>>}
     /\ IF flag = "green" THEN basis = Max(bases) ELSE bases = {basis}

PricingAssertions(do, a) ==
  \/ do = "pricing" /\ HasWBS /\ PricingIs(Current, a[1], a[3], a[4])
       /\ a[2] \in DOMAIN Flag /\ Flag[a[2]] = a[1]
  \/ do = "noPricing" /\ ~(HasWBS /\ HasEstimate(Current))

\* What both halves check of a proposal p.  A text of an assumption holds no other.
ProposalSays(p, do, a) ==
  \/ do = "confidence" /\ p.confidence = a[1]
  \/ do = "contract"   /\ p.contract = a[1]
  \/ do = "cost"  /\ p.cost = [low |-> a[1], high |-> a[2]]
  \/ do = "weeks" /\ p.weeks = [low |-> a[1], high |-> a[2]]
  \/ do = "probability" /\ <<p.atLow, p.atHigh>> = <<a[1], a[2]>>
  \/ do = "scope" /\ \E item \in Range(p.scope) : item.description = a[1]
  \/ do = "assumption" /\ a[1] \in Range(p.assumptions)

\* The reasoning is woven from the two percentages and the number of tasks.
ProposalAssertions(do, a) ==
  LET p == lastProposal
  IN /\ lastErr = OK
     /\ \/ ProposalSays(p, do, a)
        \/ do = "renegotiation" /\ p.invitesRenegotiation = a[1]
        \/ do = "mentionsPercent" /\ p # ZeroProposal /\ a[1] \in {p.atLow, p.atHigh}
        \/ do = "mentionsTasks"   /\ p # ZeroProposal /\ Len(p.scope) = a[1]

ServiceAssertions(do, a) ==
  \/ WBSAssertions(do, a)
  \/ RiskAssertions(do, a)
  \/ EstimateAssertions(do, a)
  \/ MetricsAssertions(do, a)
  \/ PricingAssertions(do, a)
  \/ ProposalAssertions(do, a)

-----------------------------------------------------------------------------
(* The sentences about the screens. *)

UISetup(do) ==
  /\ do = "app"
  /\ NewService /\ NewSession
  /\ ui' = TRUE
  /\ UNCHANGED <<wbsID, lastErr, lastProposal>>

UIBuildActions(do, a) ==
  /\ ui
  /\ \/ do = "generate"   /\ GenerateWBS(Document(a[1], a[2]))
     \/ do = "addTask"    /\ OnActive(ServiceAddTask(active, a[1]))
     \/ do = "editTask"   /\ OnActive(ServiceEditTask(active, a[1], a[2]))
     \/ do = "deleteTask" /\ OnActive(ServiceDeleteTask(active, a[1]))
     \/ do = "deleteEvery" /\ DeleteAllTasks
     \/ do = "approve"     /\ OnActive(ServiceApprove(active))
     \/ do = "flagRisks"   /\ OnActive(FlagRisks(active))
     \/ do = "addRiskNote" /\ OnActive(ServiceAddRiskNote(active, a[1], a[2]))
     \/ do = "generateEstimates" /\ OnActive(GenerateEstimates(active))
     \/ do = "override"
          /\ OnActive(ServiceOverrideEstimate(active, a[1], EstimateOf(a)))
     \/ do = "approveEstimates" /\ OnActive(ServiceApproveEstimates(active))
  /\ UNCHANGED world

UIActions(do, a) == UISetup(do) \/ UIBuildActions(do, a)

\* Two sentences make two calls, neither of which can fail them.
TwoCalls == [generateAndApprove |-> <<"generate", "approve">>,
           estimateAndApprove |-> <<"generateEstimates", "approveEstimates">>]

Parts(st) ==
  IF st.do \in DOMAIN TwoCalls
  THEN [k \in 1..2 |-> [st EXCEPT !.do = TwoCalls[st.do][k]]]
  ELSE <<st>>

UIBuildAssertions(do, a) ==
  LET v == BuildView
      Row(n) == v.rows[n].task
  IN \/ do = "taskCount" /\ ExpectCount(Len(v.rows), a[1])
     \/ do = "taskIs" /\ a[1] \in DOMAIN v.rows /\ Row(a[1]).description = a[2]
     \/ do = "error"  /\ v.error = a[1]
     \/ do = "noWBS"  /\ ~v.hasWBS
     \/ do = "locked" /\ v.locked = a[1]
     \/ do = "noteShown" /\ a[1] \in DOMAIN v.rows
          /\ \E note \in Range(Row(a[1]).riskNotes) : note.description = a[2]
     \/ do = "estimateIs" /\ a[1] \in DOMAIN v.rows /\ Row(a[1]).estimate # NoEstimate
          /\ ThreePoints(Row(a[1]).estimate) = <<a[2], a[3], a[4]>>
     \/ do = "projectMetrics" /\ v.estimated
          /\ MetricsAre(ProjectPert(store[active]), a[1], a[2], a[3])
     \/ do = "pricing" /\ v.estimated /\ PricingIs(store[active], a[1], a[2], a[3])
     \/ do = "reachable" /\ v.reachable = a[1]

\* The screen of no proposal shows what the zero proposal holds.
UIProposal(do, a) ==
  LET v == ProposalView
      p == IF v.shown = NoProposal THEN ZeroProposal ELSE v.shown
  IN \/ ProposalSays(p, do, a)
     \/ do = "noMechanics"
          /\ Mechanics \cap (Range(p.assumptions) \cup
                               {item.description : item \in Range(p.scope)}) = {}
     \/ do = "noProposal" /\ v.shown = NoProposal
     \/ do = "proposalError" /\ v.error = a[1]

-----------------------------------------------------------------------------
(* The registry. *)

Checks ==
  {"succeeds", "fails", "created", "noneCreated", "approved", "taskCount", "taskIs",
   "noTaskIs", "approvedCount", "noteCount", "noteIs", "estimatesApproved", "estimateIs",
   "reasoningIs", "noEstimate", "metrics", "projectMetrics", "noProjectMetrics",
   "pricing", "noPricing", "confidence", "contract", "cost", "weeks", "probability",
   "scope", "assumption", "renegotiation", "mentionsPercent", "mentionsTasks",
   "error", "noWBS", "locked", "noteShown", "reachable", "noMechanics",
   "noProposal", "proposalError"}

\* The sentences that end in whatever is written: a screen's phrase, too.
Greedy == {"addTask", "editTask", "addRiskNote", "override"}

Sentences ==
  Greedy \cup Checks \cup
  {"service", "app", "primeTasks", "primeRisks", "primeEstimates", "generate",
   "getUnknown", "deleteEvery", "deleteTask", "approve", "flagRisks", "flagUnknown",
   "editRiskNote", "deleteRiskNote", "generateEstimates", "estimateUnknown",
   "approveEstimates", "requestProposal"}

\* The patterns of the UI want the phrase of the screen, and a word before it.
UIMatches(st) == st.screen /\ (st.do \in Greedy => Last(st.with) # Blank)

Handlers(st) ==
  {h \in {"ui", "service"} :
     /\ st.do \in Sentences
     /\ st.do = "generate" => st.with[2] \in {"text", "pdf"}
     /\ CASE h = "ui" -> UIMatches(st)
          [] h = "service" -> st.screen => st.do \in Greedy}

\* Mutant of Handler: the service's patterns are registered first.
HandlerServiceFirst(st) ==
  IF Handlers(st) = {} THEN "none"
  ELSE IF "service" \in Handlers(st) THEN "service" ELSE "ui"

\* The first registered whose pattern matches: the UI's come first.
Handler(st) ==
  IF Handlers(st) = {} THEN "none"
  ELSE IF "ui" \in Handlers(st) THEN "ui" ELSE "service"

\* What the handler captures.
Captures(st) ==
  IF st.screen /\ Handler(st) = "service"
  THEN [st.with EXCEPT ![Len(st.with)] = ScreenPhrase]
  ELSE st.with

Holds(st) ==
  IF Handler(st) = "ui"
  THEN UIBuildAssertions(st.do, st.with) \/ UIProposal(st.do, st.with)
  ELSE ServiceAssertions(st.do, st.with)

\* The sentence is refused: nobody handles it, it does not parse, or its check fails.
Refused(st) ==
  \/ Handler(st) = "none"
  \/ st.do \in Checks /\ ~Holds(st)
  \/ st.do \in {"primeRisks", "primeEstimates"} /\ st.with[1] = Malformed
  \/ st.do = "deleteEvery" /\ Handler(st) = "service" /\ ~HasWBS

Perform(st) ==
  IF st.do \in Checks THEN UNCHANGED <<service, session, world>>
  ELSE IF Handler(st) = "ui" THEN UIActions(st.do, Captures(st))
  ELSE ServiceActions(st.do, Captures(st))

\* The columns a sentence names are those of the example; a column may also hold
\* the whole of what is said.
Complete(st, example) == \A k \in st.holes : st.with[k] \in DOMAIN example

Expand(st, example) ==
  IF st.do = "column"
  THEN LET saying == example[st.with[1]]
       IN [st EXCEPT !.do = saying.do, !.with = saying.with]
  ELSE LET said == [k \in DOMAIN st.with |->
                      IF k \in st.holes THEN example[st.with[k]] ELSE st.with[k]]
       IN [st EXCEPT !.with = said]

=============================================================================
