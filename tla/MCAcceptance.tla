---------------------------- MODULE MCAcceptance ----------------------------
(***************************************************************************)
(* The thirteen feature files of src/features, sentence by sentence, their *)
(* mutations, and directories and streams to try the script and the worker *)
(* on.  Capacity and rate are a tenth of the features', and so costs are   *)
(* in hundreds of dollars.                                                 *)
(***************************************************************************)
EXTENDS Acceptance, TLC

\* Sentences about the service, about the screens, and with columns.
Svc(do, a) == [do |-> do, with |-> a, holes |-> {}, screen |-> FALSE]
Scr(do, a) == [do |-> do, with |-> a, holes |-> {}, screen |-> TRUE]
Col(st, holes) == [st EXCEPT !.holes = holes]

Scenario(steps) == [steps |-> steps, examples |-> << >>]

\* An outline with its table.
Outline(steps, names, rows) ==
  [steps |-> steps,
   examples |-> [r \in DOMAIN rows |->
     [c \in Range(names) |-> rows[r][CHOOSE k \in DOMAIN names : names[k] = c]]]]

Feature(background, scenarios) ==
  [background |-> background, scenarios |-> scenarios, backquote |-> FALSE]

\* What a column may hold the whole of.
Saying(do, a) == [do |-> do, with |-> a]

-----------------------------------------------------------------------------
(* What the features speak of. *)

Login == <<"Login API", "Login UI", "Session store">>
Note(n, d) == [task |-> n, description |-> d]
Risks == <<Note(1, "SQL injection"), Note(1, "Rate limiting"), Note(2, "XSS")>>
TwoRisks == <<Note(1, "SQL injection"), Note(2, "XSS")>>
OneRisk == <<Note(1, "SQL injection")>>

Est(n, o, m, p, why) ==
  [task |-> n, estimate |-> [o |-> o, m |-> m, p |-> p, reasoning |-> why]]
AI == "AI estimate"
Greens  == <<Est(1, 2, 3, 5, AI), Est(2, 2, 3, 5, AI), Est(3, 2, 3, 5, AI)>>
Yellows == <<Est(1, 2, 5, 13, AI), Est(2, 1, 2, 3, AI), Est(3, 3, 8, 20, AI)>>
Reds    == <<Est(1, 1, 8, 40, AI), Est(2, 1, 8, 40, AI), Est(3, 1, 8, 40, AI)>>
Reasoned == <<Est(1, 2, 5, 13, "Clean best"), Est(2, 1, 2, 3, "Trivial"),
              Est(3, 3, 8, 20, "Legacy")>>
Rewritten == <<Est(1, 5, 13, 40, "Rewrite"), Est(2, 3, 5, 8, "Validation"),
               Est(3, 8, 20, 40, "Migration")>>

Words == {"Audit log", "SSO API", "Password reset", "OAuth login API",
          "Redis session store", "Charge API", "Refund API", "irrelevant",
          "CSRF", "Manual concern", "Missing rate limits", "Reviewed",
          "Manual", "Team reviewed", "Rechecked", "Team set O M and P together",
          "All points minimal", "Rewrite pushes", "Adjusted", "New estimate",
          "Team set them", "another"}

MCText ==
  {"", " on the build screen", "on the build screen"} \cup Words \cup Range(Login)
    \cup {r.description : r \in Range(Risks)}
    \cup {e.estimate.reasoning : e \in Range(Reasoned \o Rewritten \o Greens)}
MCTrim == [d \in MCText |-> IF d = " on the build screen" THEN "on the build screen" ELSE d]

Service == <<Svc("service", << >>)>>
Generated == Service \o <<Svc("primeTasks", <<Login>>), Svc("generate", <<"valid", "text">>)>>
Approved == Generated \o <<Svc("approve", << >>)>>
App == <<Scr("app", << >>), Svc("primeTasks", <<Login>>)>>
OnScreen == Scr("generateAndApprove", <<"valid", "text">>)

GenEst == Svc("generateEstimates", << >>)
AppEst == Svc("approveEstimates", << >>)
EstApproved(b) == Svc("estimatesApproved", <<b>>)
IsApproved(b) == Svc("approved", <<b>>)
Succeeds == Svc("succeeds", << >>)
Fails(e) == Svc("fails", <<e>>)
Say(column) == Col(Svc("column", <<column>>), {1})
SayOnScreen(column) == Col(Scr("column", <<column>>), {1})
Override(n, o, m, p, why) == Saying("override", <<n, o, m, p, why>>)
Overriding(n, o, m, p, why) == Svc("override", <<n, o, m, p, why>>)
Requesting == Svc("requestProposal", <<3, 3, 12>>)
Request(v, c, r) == Saying("requestProposal", <<v, c, r>>)

EstimateOfTask == Col(Svc("estimateIs", <<"task_number", "o", "m", "p">>), 1..4)
ReasoningOfTask == Col(Svc("reasoningIs", <<"task_number", "reasoning">>), 1..2)

-----------------------------------------------------------------------------
(* The features, each with the scenarios in the order of its file. *)

EstimateApproval == Feature(Approved \o <<Svc("primeEstimates", <<Reasoned>>)>>, <<
  Scenario(<<GenEst, AppEst, EstApproved(TRUE)>>),
  Scenario(<<AppEst, Fails("ErrEstimatesNotGenerated"), EstApproved(FALSE)>>),
  Outline(<<GenEst, AppEst, EstApproved(TRUE), Say("override_action"), Succeeds,
            EstApproved(FALSE)>>,
    <<"override_action">>,
    <<<<Override(1, 3, 8, 20, "Team reviewed")>>, <<Override(2, 1, 2, 3, "Rechecked")>>>>),
  Scenario(<<GenEst, AppEst, Overriding(1, 3, 8, 20, "Team reviewed"),
             EstApproved(FALSE), AppEst, EstApproved(TRUE),
             Svc("estimateIs", <<1, 3, 8, 20>>), Svc("reasoningIs", <<1, "Team reviewed">>)>>)>>)

EstimateGeneration == Feature(Generated, <<
  Outline(<<Svc("approve", << >>), Svc("primeEstimates", <<Reasoned>>), GenEst,
            EstApproved(FALSE), EstimateOfTask, ReasoningOfTask>>,
    <<"task_number", "o", "m", "p", "reasoning">>,
    <<<<1, 2, 5, 13, "Clean best">>, <<2, 1, 2, 3, "Trivial">>, <<3, 3, 8, 20, "Legacy">>>>),
  Scenario(<<Svc("primeEstimates", <<<<Est(1, 2, 5, 13, AI)>>>>), GenEst,
             Fails("ErrWBSNotApprovedForEstimation"), Svc("noEstimate", <<1>>)>>),
  Outline(<<Svc("approve", << >>), Svc("primeEstimates", <<Reasoned>>), GenEst,
            Overriding(1, 5, 8, 13, "Manual"), Svc("primeEstimates", <<Rewritten>>),
            GenEst, EstimateOfTask, ReasoningOfTask>>,
    <<"task_number", "o", "m", "p", "reasoning">>,
    <<<<1, 5, 13, 40, "Rewrite">>, <<2, 3, 5, 8, "Validation">>,
      <<3, 8, 20, 40, "Migration">>>>),
  Scenario(<<Svc("estimateUnknown", << >>), Fails("ErrWBSNotFound")>>)>>)

YellowEstimated == <<Svc("primeEstimates", <<Yellows>>), GenEst>>

EstimateMetrics == Feature(Approved, <<
  Outline(YellowEstimated \o <<EstApproved(FALSE),
            Col(Svc("metrics", <<"task_number", "e", "sd", "rsd">>), 1..4)>>,
    <<"task_number", "e", "sd", "rsd">>,
    <<<<1, 6, 2, 31>>, <<2, 2, 0, 17>>, <<3, 9, 3, 31>>>>),
  Scenario(YellowEstimated \o
    <<AppEst, EstApproved(TRUE), Svc("projectMetrics", <<17, 3, 20>>)>>),
  Scenario(YellowEstimated \o
    <<Overriding(1, 5, 8, 13, "Manual"), Svc("metrics", <<1, 8, 1, 16>>),
      Svc("projectMetrics", <<20, 3, 16>>)>>),
  Scenario(<<Svc("noEstimate", <<1>>), Svc("noProjectMetrics", << >>)>>),
  Scenario(<<Svc("primeEstimates", <<SubSeq(Yellows, 1, 2)>>), GenEst,
             Svc("noEstimate", <<3>>), Svc("metrics", <<1, 6, 2, 31>>),
             Svc("projectMetrics", <<8, 2, 24>>)>>),
  Scenario(<<Svc("primeEstimates", <<<<Est(1, 0, 1, 5, AI)>>>>), GenEst,
             Svc("metrics", <<1, 2, 1, 56>>), Svc("projectMetrics", <<2, 1, 56>>)>>)>>)

Unchanged == Svc("estimateIs", <<1, 2, 5, 13>>)
Off == "ErrOffFibonacciScale"
NotIncreasing == "ErrEstimatesNotIncreasing"

EstimateOverride == Feature(Approved \o <<Svc("primeEstimates", <<Reasoned>>)>>, <<
  Outline(<<GenEst, Say("override_action"), Succeeds, EstimateOfTask, ReasoningOfTask>>,
    <<"override_action", "task_number", "o", "m", "p", "reasoning">>,
    <<<<Override(1, 3, 8, 20, "Team set O M and P together"), 1, 3, 8, 20,
        "Team set O M and P together">>,
      <<Override(2, 0, 1, 2, "All points minimal"), 2, 0, 1, 2, "All points minimal">>,
      <<Override(3, 8, 40, 100, "Rewrite pushes"), 3, 8, 40, 100, "Rewrite pushes">>>>),
  Outline(<<GenEst, Say("override_action"), Col(Svc("fails", <<"reason">>), {1}), Unchanged>>,
    <<"override_action", "reason">>,
    <<<<Override(1, 8, 5, 13, "Adjusted"), NotIncreasing>>,
      <<Override(1, 2, 20, 13, "Adjusted"), NotIncreasing>>,
      <<Override(1, 5, 5, 8, "Adjusted"), NotIncreasing>>,
      <<Override(1, 8, 13, 13, "Adjusted"), NotIncreasing>>,
      <<Override(1, 4, 5, 13, "Adjusted"), Off>>,
      <<Override(1, 21, 40, 100, "Adjusted"), Off>>,
      <<Override(1, -1, 5, 13, "Adjusted"), Off>>>>),
  Outline(<<GenEst, Col(Svc("override", <<1, 3, 8, 20, "reasoning">>), {5}),
            Fails("ErrEmptyReasoning"), Unchanged>>,
    <<"reasoning">>, <<<<"">>>>),
  Scenario(<<GenEst, Overriding(UnknownTask, 1, 2, 3, "New estimate"),
             Fails("ErrTaskNotFound")>>),
  Scenario(<<Overriding(1, 1, 2, 3, "New estimate"), Fails("ErrNoEstimate"),
             Svc("noEstimate", <<1>>)>>)>>)

FixedPrice == "fixed-price"
Buffered == "fixed-price-with-buffer"
TimeAndMaterials == "time-and-materials"

PricingStrategy == Feature(Approved, <<
  Outline(<<Col(Svc("primeEstimates", <<"estimates">>), {1}), GenEst, EstApproved(FALSE),
            Col(Svc("pricing", <<"flag", "risk_level", "contract", "basis">>), 1..4)>>,
    <<"estimates", "flag", "risk_level", "contract", "basis">>,
    <<<<Greens, "green", "low", FixedPrice, 10>>,
      <<Yellows, "yellow", "medium", Buffered, 20>>,
      <<Reds, "red", "high", TimeAndMaterials, NoBasis>>>>),
  Scenario(<<Svc("noPricing", << >>)>>)>>)

Quoted(list) == <<Svc("primeEstimates", <<list>>), GenEst, AppEst, Requesting>>

ClientProposal == Feature(Approved, <<
  Scenario(Quoted(Yellows) \o
    <<Svc("confidence", <<"medium">>), Svc("contract", <<Buffered>>),
      Svc("renegotiation", <<FALSE>>), Svc("cost", <<245, 285>>), Svc("weeks", <<7, 8>>),
      Svc("probability", <<84, 98>>), Svc("mentionsPercent", <<84>>),
      Svc("mentionsTasks", <<3>>)>>),
  Scenario(Quoted(Greens) \o
    <<Svc("confidence", <<"high">>), Svc("contract", <<FixedPrice>>),
      Svc("cost", <<114, 135>>), Svc("probability", <<50, 98>>)>>),
  Scenario(Quoted(Reds) \o
    <<Svc("confidence", <<"lower">>), Svc("contract", <<TimeAndMaterials>>),
      Svc("renegotiation", <<TRUE>>), Svc("cost", <<573, 708>>), Svc("weeks", <<16, 20>>),
      Svc("probability", <<84, 98>>)>>),
  Scenario(<<Svc("primeRisks", <<TwoRisks>>), Svc("flagRisks", << >>)>> \o Quoted(Yellows) \o
    <<Svc("scope", <<"Login API">>), Svc("assumption", <<"SQL injection">>),
      Svc("assumption", <<"XSS">>)>>),
  Scenario(YellowEstimated \o <<Requesting, Fails("ErrEstimatesNotApprovedForProposal")>>),
  Outline(YellowEstimated \o <<AppEst, Say("request"), Fails("ErrNonPositiveTeamInputs")>>,
    <<"request">>,
    <<<<Request(0, 3, 12)>>, <<Request(3, 0, 12)>>, <<Request(3, 3, 0)>>,
      <<Request(-3, 3, 12)>>>>)>>)

Flag3 == <<Svc("approve", << >>), Svc("primeRisks", <<Risks>>), Svc("flagRisks", << >>)>>
NoteCount == Col(Svc("noteCount", <<"task_number", "note_count">>), 1..2)

RiskFlagging == Feature(Generated, <<
  Outline(Flag3 \o <<NoteCount>>, <<"task_number", "note_count">>,
    <<<<1, 2>>, <<2, 1>>, <<3, 0>>>>),
  Outline(Flag3 \o
      <<Col(Svc("noteIs", <<"task_number", "note_number", "note_description">>), 1..3)>>,
    <<"task_number", "note_number", "note_description">>,
    <<<<1, 1, "SQL injection">>, <<1, 2, "Rate limiting">>, <<2, 1, "XSS">>>>),
  Scenario(<<Svc("primeRisks", <<OneRisk>>), Svc("flagRisks", << >>),
             Fails("ErrWBSNotApproved"), Svc("noteCount", <<1, 0>>)>>),
  Outline(<<Svc("approve", << >>), Svc("primeRisks", <<TwoRisks>>), Svc("flagRisks", << >>),
            Svc("addRiskNote", <<3, "Manual concern">>),
            Svc("primeRisks", <<<<Note(1, "CSRF")>>>>), Svc("flagRisks", << >>), NoteCount>>,
    <<"task_number", "note_count">>, <<<<1, 1>>, <<2, 0>>, <<3, 0>>>>),
  Scenario(<<Svc("flagUnknown", << >>), Fails("ErrWBSNotFound")>>)>>)

Empty == "ErrEmptyDescription"
NoteNotFound == "ErrRiskNoteNotFound"

RiskNoteEditing ==
  Feature(Approved \o <<Svc("primeRisks", <<TwoRisks>>), Svc("flagRisks", << >>)>>, <<
  Outline(<<Col(Svc("addRiskNote", <<"task_number", "Missing rate limits">>), {1}), Succeeds,
            NoteCount,
            Col(Svc("noteIs", <<"task_number", "note_position", "note_description">>), 1..3)>>,
    <<"task_number", "note_count", "note_position", "note_description">>,
    <<<<3, 1, 1, "Missing rate limits">>, <<1, 2, 2, "Missing rate limits">>>>),
  Outline(<<Col(Svc("editRiskNote", <<"task_number", 1, "Reviewed">>), {1}), Succeeds,
            Col(Svc("noteIs", <<"task_number", 1, "new_description">>), {1, 3}),
            Col(Svc("noteCount", <<"task_number", 1>>), {1})>>,
    <<"task_number", "new_description">>, <<<<1, "Reviewed">>, <<2, "Reviewed">>>>),
  Outline(<<Col(Svc("deleteRiskNote", <<"task_number", 1>>), {1}), Succeeds,
            Col(Svc("noteCount", <<"task_number", 0>>), {1})>>,
    <<"task_number">>, <<<<1>>, <<2>>>>),
  Outline(<<Say("operation"), Fails(Empty), Svc("noteCount", <<1, 1>>)>>, <<"operation">>,
    <<<<Saying("addRiskNote", <<1, "">>)>>, <<Saying("editRiskNote", <<1, 1, "">>)>>>>),
  Outline(<<Say("operation"), Fails(NoteNotFound), Svc("noteCount", <<1, 1>>)>>,
    <<"operation">>,
    <<<<Saying("editRiskNote", <<1, 9, "irrelevant">>)>>,
      <<Saying("deleteRiskNote", <<1, 9>>)>>>>)>>)

Tasks(n) == Scr("taskCount", <<n>>)
ErrorOnScreen == Col(Scr("error", <<"message">>), {1})
EstimatesOnScreen == <<OnScreen, Svc("primeEstimates", <<Yellows>>), Scr("generateEstimates", << >>)>>
UnchangedOnScreen == Scr("estimateIs", <<1, 2, 5, 13>>)
GeneratedOnScreen == Scr("generate", <<"valid", "text">>)

UIStage1Build == Feature(App, <<
  Outline(<<SayOnScreen("requirement_action"), Tasks(3), Scr("taskIs", <<1, "Login API">>)>>,
    <<"requirement_action">>,
    <<<<Saying("generate", <<"valid", "text">>)>>, <<Saying("generate", <<"valid", "pdf">>)>>>>),
  Outline(<<SayOnScreen("requirement_action"), ErrorOnScreen, Scr("noWBS", << >>)>>,
    <<"requirement_action", "message">>,
    <<<<Saying("generate", <<"empty", "text">>), "ErrEmptyRequirement">>,
      <<Saying("generate", <<"empty", "pdf">>), "ErrEmptyRequirement">>,
      <<Saying("generate", <<"corrupt", "pdf">>), "ErrUnreadableDocument">>>>),
  Outline(<<GeneratedOnScreen, SayOnScreen("edit_action"), Col(Tasks("count"), {1}),
            Col(Scr("taskIs", <<"changed_number", "changed_task">>), 1..2)>>,
    <<"edit_action", "count", "changed_number", "changed_task">>,
    <<<<Saying("addTask", <<"Password reset">>), 4, 4, "Password reset">>,
      <<Saying("editTask", <<1, "SSO API">>), 3, 1, "SSO API">>,
      <<Saying("deleteTask", <<1>>), 2, 1, "Login UI">>>>),
  Scenario(<<GeneratedOnScreen, Scr("locked", <<TRUE>>), Scr("approve", << >>),
             Scr("locked", <<FALSE>>)>>),
  Scenario(<<GeneratedOnScreen, Scr("deleteEvery", << >>), Scr("approve", << >>),
             Scr("error", <<"ErrNoTasks">>), Scr("locked", <<TRUE>>)>>),
  Outline(<<OnScreen, Svc("primeRisks", <<TwoRisks>>), Scr("flagRisks", << >>),
            Col(Scr("noteShown", <<"task_number", "note">>), 1..2)>>,
    <<"task_number", "note">>, <<<<1, "SQL injection">>, <<2, "XSS">>>>),
  Scenario(<<OnScreen, Svc("primeRisks", <<OneRisk>>), Scr("flagRisks", << >>),
             Scr("addRiskNote", <<2, "Manual concern">>),
             Scr("noteShown", <<2, "Manual concern">>)>>),
  Outline(<<OnScreen, Col(Svc("primeEstimates", <<"estimates">>), {1}),
            Scr("generateEstimates", << >>),
            Col(Scr("estimateIs", <<1, "o", "m", "p">>), 2..4),
            Col(Scr("projectMetrics", <<"e", "sd", "rsd">>), 1..3),
            Col(Scr("pricing", <<"flag", "contract", "basis">>), 1..3)>>,
    <<"estimates", "o", "m", "p", "e", "sd", "rsd", "flag", "contract", "basis">>,
    <<<<Greens, 2, 3, 5, 10, 1, 9, "green", FixedPrice, 10>>,
      <<Yellows, 2, 5, 13, 17, 3, 20, "yellow", Buffered, 20>>,
      <<Reds, 1, 8, 40, 37, 11, 31, "red", TimeAndMaterials, NoBasis>>>>),
  Scenario(EstimatesOnScreen \o <<Scr("override", <<1, 3, 8, 20, "Team set them">>),
             Scr("estimateIs", <<1, 3, 8, 20>>)>>),
  Outline(EstimatesOnScreen \o
      <<SayOnScreen("override_action"), ErrorOnScreen, UnchangedOnScreen>>,
    <<"override_action", "message">>,
    <<<<Override(1, 8, 5, 13, "Adjusted"), NotIncreasing>>,
      <<Override(1, 4, 5, 13, "Adjusted"), Off>>>>),
  Scenario(EstimatesOnScreen \o <<Scr("reachable", <<FALSE>>), Scr("approveEstimates", << >>),
             Scr("reachable", <<TRUE>>)>>)>>)

EstimatedOnScreen == Scr("estimateAndApprove", << >>)

UIStage2Proposal == Feature(App \o <<OnScreen>>, <<
  Outline(<<Col(Svc("primeEstimates", <<"estimates">>), {1}), EstimatedOnScreen, Requesting,
            Col(Scr("confidence", <<"confidence">>), {1}),
            Col(Scr("contract", <<"contract">>), {1}),
            Col(Scr("cost", <<"cost_low", "cost_high">>), 1..2),
            Col(Scr("weeks", <<"weeks_low", "weeks_high">>), 1..2),
            Col(Scr("probability", <<"p_low", "p_high">>), 1..2)>>,
    <<"estimates", "confidence", "contract", "cost_low", "cost_high", "weeks_low",
      "weeks_high", "p_low", "p_high">>,
    <<<<Greens, "high", FixedPrice, 114, 135, 4, 4, 50, 98>>,
      <<Yellows, "medium", Buffered, 245, 285, 7, 8, 84, 98>>,
      <<Reds, "lower", TimeAndMaterials, 573, 708, 16, 20, 84, 98>>>>),
  Scenario(<<Svc("primeRisks", <<TwoRisks>>), Scr("flagRisks", << >>),
             Svc("primeEstimates", <<Yellows>>), EstimatedOnScreen, Requesting,
             Scr("scope", <<"Login API">>), Scr("assumption", <<"SQL injection">>),
             Scr("assumption", <<"XSS">>), Scr("noMechanics", << >>)>>),
  Outline(<<Svc("primeEstimates", <<Yellows>>), EstimatedOnScreen, Say("request"),
            Scr("proposalError", <<"ErrNonPositiveTeamInputs">>), Scr("noProposal", << >>)>>,
    <<"request">>,
    <<<<Request(0, 3, 12)>>, <<Request(3, 0, 12)>>, <<Request(3, 3, 0)>>,
      <<Request(-3, 3, 12)>>>>),
  Scenario(<<Svc("primeEstimates", <<Yellows>>), Scr("generateEstimates", << >>),
             Scr("reachable", <<FALSE>>)>>)>>)

Approve1 == Svc("approve", << >>)
TaskCount == Svc("taskCount", <<3>>)

WBSApproval == Feature(Generated, <<
  Scenario(<<Approve1, IsApproved(TRUE), Svc("approvedCount", <<3>>)>>),
  Scenario(<<Svc("deleteEvery", << >>), Approve1, Fails("ErrNoTasks"), IsApproved(FALSE)>>),
  Outline(<<Approve1, IsApproved(TRUE), Say("edit_action"), Succeeds, IsApproved(FALSE),
            Col(Svc("taskCount", <<"task_count">>), {1}),
            Col(Svc("taskIs", <<"check_number", "check_description">>), 1..2)>>,
    <<"edit_action", "task_count", "check_number", "check_description">>,
    <<<<Saying("addTask", <<"Audit log">>), 4, 4, "Audit log">>,
      <<Saying("editTask", <<1, "SSO API">>), 3, 1, "SSO API">>,
      <<Saying("deleteTask", <<2>>), 2, 2, "Session store">>>>),
  Scenario(<<Approve1, Svc("addTask", <<"Audit log">>), IsApproved(FALSE), Approve1,
             IsApproved(TRUE), Svc("approvedCount", <<4>>)>>)>>)

WBSEditing == Feature(Generated, <<
  Scenario(<<Svc("addTask", <<"Password reset">>), Succeeds, Svc("taskCount", <<4>>),
             Svc("taskIs", <<4, "Password reset">>)>>),
  Outline(<<Col(Svc("editTask", <<"task_number", "new_description">>), 1..2), Succeeds,
            Col(Svc("taskIs", <<"task_number", "expected_description">>), 1..2), TaskCount>>,
    <<"task_number", "new_description", "expected_description">>,
    <<<<1, "OAuth login API", "OAuth login API">>,
      <<3, "Redis session store", "Redis session store">>>>),
  Outline(<<Col(Svc("deleteTask", <<"task_number">>), {1}), Succeeds, Svc("taskCount", <<2>>),
            Col(Svc("taskIs", <<1, "remaining_first">>), {2}),
            Col(Svc("taskIs", <<2, "remaining_second">>), {2})>>,
    <<"task_number", "remaining_first", "remaining_second">>,
    <<<<2, "Login API", "Session store">>, <<1, "Login UI", "Session store">>>>),
  Outline(<<Say("operation"), Fails(Empty), TaskCount>>, <<"operation">>,
    <<<<Saying("addTask", <<"">>)>>, <<Saying("editTask", <<2, "">>)>>>>),
  Outline(<<Say("operation"), Fails("ErrTaskNotFound"), TaskCount>>, <<"operation">>,
    <<<<Saying("editTask", <<UnknownTask, "irrelevant">>)>>,
      <<Saying("deleteTask", <<UnknownTask>>)>>>>)>>)

WBSGeneration == Feature(Service, <<
  Outline(<<Col(Svc("primeTasks", <<"primed_tasks">>), {1}),
            Col(Svc("generate", <<"valid", "input_format">>), {2}), Svc("created", << >>),
            IsApproved(FALSE), Col(Svc("taskCount", <<"task_count">>), {1}),
            Col(Svc("taskIs", <<1, "first_task">>), {2})>>,
    <<"input_format", "primed_tasks", "task_count", "first_task">>,
    <<<<"text", Login, 3, "Login API">>,
      <<"pdf", <<"Charge API", "Refund API">>, 2, "Charge API">>>>),
  Outline(<<Col(Svc("generate", <<"empty", "input_format">>), {2}),
            Fails("ErrEmptyRequirement"), Svc("noneCreated", << >>)>>,
    <<"input_format">>, <<<<"text">>, <<"pdf">>>>),
  Scenario(<<Svc("generate", <<"corrupt", "pdf">>), Fails("ErrUnreadableDocument"),
             Svc("noneCreated", << >>)>>),
  Scenario(<<Svc("getUnknown", << >>), Fails("ErrWBSNotFound")>>)>>)

-----------------------------------------------------------------------------
(* Features that are not the repository's: one whose outline lacks a column, *)
(* and one with a backquote in a name.                                       *)

ColumnMissing == Feature(Generated, <<
  Outline(<<Col(Svc("taskCount", <<"tasks">>), {1})>>, <<"task_count">>, <<<<3>>>>)>>)

Backquoted == [WBSGeneration EXCEPT !.backquote = TRUE]

ShippedFeatures ==
  <<"estimate_approval">> :> EstimateApproval @@
  <<"estimate_generation">> :> EstimateGeneration @@
  <<"estimate_metrics">> :> EstimateMetrics @@
  <<"estimate_override">> :> EstimateOverride @@
  <<"pricing_strategy">> :> PricingStrategy @@
  <<"proposal">> :> ClientProposal @@
  <<"risk_flagging">> :> RiskFlagging @@
  <<"risk_note_editing">> :> RiskNoteEditing @@
  <<"ui_stage1_build">> :> UIStage1Build @@
  <<"ui_stage2_proposal">> :> UIStage2Proposal @@
  <<"wbs_approval">> :> WBSApproval @@
  <<"wbs_editing">> :> WBSEditing @@
  <<"wbs_generation">> :> WBSGeneration

-----------------------------------------------------------------------------
(* The mutator: another value in one cell of a table.  A number becomes ten      *)
(* more, a list another or none, a whole saying one that nobody handles, and     *)
(* any other text another; and a saying of a screen may lose its last words.     *)

NumberColumns ==
  {"task_number", "o", "m", "p", "e", "sd", "rsd", "task_count", "note_count",
   "note_number", "note_position", "check_number", "count", "changed_number", "basis",
   "cost_low", "cost_high", "weeks_low", "weeks_high", "p_low", "p_high"}
Sayings == {"override_action", "edit_action", "operation", "requirement_action", "request"}

Changed(column, value) ==
  CASE column \in NumberColumns -> value + 10
    [] column = "primed_tasks" -> <<"another">>
    [] column = "estimates" -> Malformed
    [] column \in Sayings -> Saying("another", value.with)
    [] OTHER -> "another"

Emptied(value) == [value EXCEPT !.with[Len(value.with)] = ""]

\* The cells of a feature, and the screen's sayings that end in words.
CellsIn(name, scenarios) ==
  UNION {UNION {{<<name, s, e, c, "changed">> : c \in DOMAIN scenarios[s].examples[e]} :
                e \in DOMAIN scenarios[s].examples} :
         s \in DOMAIN scenarios}

WordyCells ==
  {<<"ui_stage1_build", 3, e, "edit_action", "emptied">> : e \in {1, 2}}
    \cup {<<"ui_stage1_build", 10, e, "override_action", "emptied">> : e \in {1, 2}}

MutatedValue(cell, value) ==
  IF cell[5] = "emptied" THEN Emptied(value) ELSE Changed(cell[4], value)

Mutate(cell, feature) ==
  [feature EXCEPT !.scenarios[cell[2]].examples[cell[3]][cell[4]] = MutatedValue(cell, @)]

-----------------------------------------------------------------------------
(* The instance. *)

MutatedCells(shipped) ==
  UNION {CellsIn(id[1], shipped[id].scenarios) : id \in DOMAIN shipped} \cup WordyCells

MCMutated == MutatedCells(ShippedFeatures)

WithMutated(shipped) ==
  shipped @@ [cell \in MutatedCells(shipped) |-> Mutate(cell, shipped[<<cell[1]>>])]

MCFeatures ==
  WithMutated(ShippedFeatures)
    @@ <<"backquoted">> :> Backquoted @@ <<"column_missing">> :> ColumnMissing

MCInOrder ==
  <<<<"backquoted">>, <<"column_missing">>, <<"estimate_approval">>,
    <<"estimate_generation">>, <<"estimate_metrics">>, <<"estimate_override">>,
    <<"pricing_strategy">>, <<"proposal">>, <<"risk_flagging">>,
    <<"risk_note_editing">>, <<"ui_stage1_build">>, <<"ui_stage2_proposal">>,
    <<"wbs_approval">>, <<"wbs_editing">>, <<"wbs_generation">>>>

MCShipped == DOMAIN ShippedFeatures

\* None, all of the repository's, one, and two of which one does not build or fails.
MCDirs ==
  {{}, MCShipped, {<<"wbs_approval">>},
   {<<"wbs_approval">>, <<"column_missing">>}, {<<"wbs_editing">>, <<"backquoted">>}}

Job(id, feature) == [kind |-> "job", id |-> id, feature |-> feature]
BlankLine == [kind |-> "blank", id |-> "", feature |-> NoFeature]
Garbage == [kind |-> "garbage", id |-> "", feature |-> NoFeature]

\* Every mutation on its own; and streams with what is no job or names no IR, and
\* with a feature before and after others.
MCStreams ==
  {<<Job("j1", cell)>> : cell \in MCMutated}
    \cup {<<Job("j1", <<"wbs_approval">>), Garbage, BlankLine,
             Job("j2", <<"column_missing">>), Job("j3", NoFeature),
             Job("j4", <<"wbs_approval">>)>>,
           <<BlankLine, Job("j1", <<"ui_stage1_build">>),
             Job("j1", <<"wbs_generation">>), Garbage,
             Job("j2", <<"ui_stage1_build">>)>>,
           <<Job("j1", <<"proposal">>), Job("j2", <<"ui_stage2_proposal">>),
             Job("j3", <<"proposal">>)>>,
           <<>>}

=============================================================================
