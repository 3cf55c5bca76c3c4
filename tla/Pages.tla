------------------------------- MODULE Pages -------------------------------
(***************************************************************************)
(* A browser in front of the UI of src/internal/webui: the two screens     *)
(* (view.go, proposal_view.go), the forms their templates offer            *)
(* (templates/build.html, proposal.html), and the routes the forms post to *)
(* (handler.go).                                                           *)
(*                                                                         *)
(* A POST is answered by a redirect, and the GET that follows is a request *)
(* of its own: others may come in between, and after.  A page that others  *)
(* may have overtaken is OldPage; its forms send what any list may hold.   *)
(***************************************************************************)
EXTENDS Session

CONSTANT OldPage       \* a page that may show what is not so any more

VARIABLES
  page,          \* the page in the browser
  going          \* the path the browser is on its way to, "" for none

browser == <<page, going>>
all == <<service, session, browser>>

-----------------------------------------------------------------------------
(* The screens. *)

HasEstimate(w) == \E i \in DOMAIN w.tasks : w.tasks[i].estimate # NoEstimate

\* Mutant of Rows: counted from nought.
RowsFromNought(tasks) ==
  [i \in DOMAIN tasks |-> [number |-> i - 1, task |-> tasks[i]]]

\* A row shows its number and its task.
Rows(tasks) == [i \in DOMAIN tasks |-> [number |-> i, task |-> tasks[i]]]

\* The Build screen of a session without a WBS.
NothingBuilt ==
  [screen |-> "build", error |-> inline, hasWBS |-> FALSE, rows |-> << >>,
   locked |-> TRUE, estimated |-> FALSE, reachable |-> FALSE]

\* The Build screen.  Its risk and estimate sections are locked together; the
\* panels are there once a task has an estimate, and show what Quote computes.
BuildView ==
  IF active = 0 THEN NothingBuilt
  ELSE LET w == store[active]
       IN [NothingBuilt EXCEPT !.hasWBS = TRUE, !.rows = Rows(w.tasks),
             !.locked = ~w.approved, !.estimated = HasEstimate(w),
             !.reachable = w.estimatesApproved]

ProposalView == [screen |-> "proposal", error |-> proposalErr, shown |-> proposal]

-----------------------------------------------------------------------------
(* The forms a page offers. *)

Form(op)         == [op |-> op, number |-> 0]
RowForm(op, row) == [op |-> op, number |-> row.number]

\* Mutant of SectionForms: a section without its gate.
SectionFormsUngated(v) ==
  {Form("addTask"), Form("approve"), Form("flagRisks"), Form("generateEstimates")}
    \cup (IF v.estimated THEN {Form("approveEstimates")} ELSE {})

\* What the head and the foot of the task list offer.
SectionForms(v) ==
  {Form("addTask")}
    \cup IF v.locked THEN {Form("approve")}
         ELSE {Form("flagRisks"), Form("generateEstimates")}
                \cup (IF v.estimated THEN {Form("approveEstimates")} ELSE {})

\* What a row offers.
RowForms(v, row) ==
  {RowForm("editTask", row), RowForm("deleteTask", row)}
    \cup (IF v.locked THEN {} ELSE {RowForm("addRiskNote", row)})
    \cup (IF v.locked \/ row.task.estimate = NoEstimate THEN {}
          ELSE {RowForm("overrideEstimate", row)})

Forms(p) ==
  IF p = OldPage THEN {}
  ELSE IF p.screen = "proposal" THEN {Form("proposal")}
  ELSE {Form("generate")}
         \cup IF p.hasWBS
              THEN SectionForms(p) \cup
                   UNION {RowForms(p, p.rows[i]) : i \in DOMAIN p.rows}
              ELSE {}

\* The routes: what the session does with a form.
Handle(f) ==
  CASE f.op = "generate" -> \E doc \in Documents : GenerateWBS(doc)
    [] f.op = "addTask"  -> \E d \in Text : OnActive(ServiceAddTask(active, d))
    [] f.op = "editTask" ->
         \E d \in Text : OnActive(ServiceEditTask(active, f.number, d))
    [] f.op = "deleteTask" -> OnActive(ServiceDeleteTask(active, f.number))
    [] f.op = "approve"    -> OnActive(ServiceApprove(active))
    [] f.op = "flagRisks"  -> OnActive(FlagRisks(active))
    [] f.op = "addRiskNote" ->
         \E d \in Text : OnActive(ServiceAddRiskNote(active, f.number, d))
    [] f.op = "generateEstimates" -> OnActive(GenerateEstimates(active))
    [] f.op = "overrideEstimate" ->
         \E e \in Overrides : OnActive(ServiceOverrideEstimate(active, f.number, e))
    [] f.op = "approveEstimates" -> OnActive(ServiceApproveEstimates(active))
    [] f.op = "proposal" -> \E inputs \in TeamInputSet : RequestProposal(inputs)

-----------------------------------------------------------------------------
(* The browser. *)

PagesInit == SessionInit /\ page = OldPage /\ going = "/"

\* Mutant of Post: the answer is the page it came from, not a redirect.
PostStaying(f) ==
  /\ going = "" /\ f \in Forms(page)
  /\ Handle(f)
  /\ UNCHANGED <<page, going>>

\* A form of the page is sent and answered by a redirect to its screen.
Post(f) ==
  /\ going = "" /\ f \in Forms(page)
  /\ going' = IF f.op = "proposal" THEN "/proposal" ELSE "/"
  /\ page' = OldPage
  /\ Handle(f)

\* The page has been overtaken: its form may carry any number.
PostOld ==
  /\ going = "" /\ page = OldPage
  /\ UIRequest
  /\ going' \in {"/", "/proposal"}
  /\ UNCHANGED page

\* GET /
ShowBuild ==
  /\ going = "/"
  /\ page' = BuildView
  /\ going' = ""
  /\ UNCHANGED <<service, session>>

\* GET /proposal
ShowProposal ==
  /\ going = "/proposal"
  /\ IF ProposalReachable THEN page' = ProposalView /\ going' = ""
     ELSE going' = "/" /\ UNCHANGED page
  /\ UNCHANGED <<service, session>>

\* The links between the screens.
Follow ==
  /\ going = "" /\ page # OldPage
  /\ \/ page.screen = "build" /\ page.reachable /\ going' = "/proposal"
     \/ page.screen = "proposal" /\ going' = "/"
  /\ page' = OldPage
  /\ UNCHANGED <<service, session>>

\* What the browser would get for the page it shows; a proposal that is not
\* reachable is not shown.
UpToDate ==
  /\ page # OldPage
  /\ IF page.screen = "build" THEN page = BuildView
     ELSE ProposalReachable /\ page = ProposalView

\* Another window of the session, or another client of the service.
Elsewhere ==
  /\ UIRequest \/ OtherClient
  /\ page' = IF <<store, session>>' = <<store, session>> THEN page ELSE OldPage
  /\ UNCHANGED going

PagesNext ==
  \/ \E f \in Forms(page) : Post(f)
  \/ PostOld \/ ShowBuild \/ ShowProposal \/ Follow \/ Elsewhere

PagesSpec == PagesInit /\ [][PagesNext]_all

-----------------------------------------------------------------------------
(* Properties. *)

\* As long as nobody else acts the browser shows what is so, after whatever form:
\* every handler that changes something sends the browser to a screen that is
\* rendered anew (handler.go:112-139; a row's hidden number is only as good as
\* the page it is on).
PageCurrent == going = "" /\ page # OldPage => UpToDate

Preconditions ==
  {"ErrWBSNotApproved", "ErrWBSNotApprovedForEstimation", "ErrEstimatesNotGenerated",
   "ErrNoEstimate", "ErrTaskNotFound", "ErrWBSNotFound",
   "ErrEstimatesNotApprovedForProposal"}

\* A form of a page that is up to date is one the service accepts as far as its
\* gates go, and a row's form leaves every task alone but the row's: what the
\* screens do not offer is all that the service would refuse.
\* (docs/superpowers/specs/2026-07-09-two-stage-estimation-ui-design.md:164-167
\* "enforced structurally by the UI [...] so the user does not encounter them as
\* errors under normal flow.")
FormsWork ==
  [][\A f \in Forms(page) : Post(f) =>
       /\ (IF f.op = "proposal" THEN proposalErr' ELSE inline') \notin Preconditions
       /\ f.number # 0 =>
            \A row \in Range(page.rows) : row.number # f.number =>
              row.task \in Range(store'[active].tasks)]_all

=============================================================================
