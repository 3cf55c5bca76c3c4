------------------------------- MODULE Calls -------------------------------
(***************************************************************************)
(* The requests of the two HTTP surfaces about one WBS, as calls on the    *)
(* aggregate: what src/internal/httpapi/server.go and the Session of       *)
(* src/internal/webui turn a request into once it is resolved to a task    *)
(* number n and a note position k.  The call that generates a WBS is the   *)
(* one that is not about it.                                               *)
(*                                                                         *)
(* The JSON API addresses tasks and notes by id, the UI by number.         *)
(***************************************************************************)
EXTENDS AIProvider

CONSTANTS
  TaskLists,      \* what the model may submit to Generate
  RiskLists,      \* what the model may submit to FlagRisks
  EstimateLists   \* what the model may submit to Estimate

ASSUME CallsAssumption ==
  /\ TaskLists \subseteq Seq(Text)
  /\ RiskLists \subseteq Seq(RiskAssignment)
  /\ EstimateLists \subseteq Seq(EstimateAssignment)

ReadOps     == {"get", "proposal"}
ProviderOps == {"generate", "flagRisks", "generateEstimates"}
TaskOps     == {"editTask", "deleteTask", "addRiskNote", "editRiskNote",
                "deleteRiskNote", "overrideEstimate"}
NoteOps     == {"editRiskNote", "deleteRiskNote"}
BodyOps     == {"generate", "addTask", "editTask", "addRiskNote", "editRiskNote",
                "overrideEstimate", "proposal"}
Ops         == ReadOps \cup ProviderOps \cup TaskOps
                 \cup {"addTask", "approve", "approveEstimates"}

\* Fields an operation does not use hold a default.
Call == [surface : {"api", "ui"}, op : Ops, task : Int, note : Int,
         text : Text, estimate : Estimate \cup {NoEstimate},
         inputs : TeamInputs, wellFormed : BOOLEAN]

\* The API resolves ids; the UI takes numbers, which come in the form.
Resolves(c) == c.surface = "api" /\ c.op \in TaskOps

\* A body that does not decode.  A requirement is then taken for an empty one.
BodyError(call) ==
  IF call.op = "generate" THEN "ErrEmptyRequirement" ELSE "invalid request body"

-----------------------------------------------------------------------------
(* Resolving ids: resolveTaskNumber and resolveRiskNote. *)

\* The positions in the list of the items with the given id: at most one.
At(list, id) == {i \in DOMAIN list : list[i].id = id}

TheOne(S) == CHOOSE i \in S : TRUE

ResolveError(w, call) ==
  IF At(w.tasks, call.task) = {} THEN "ErrTaskNotFound"
  ELSE IF /\ call.op \in NoteOps
          /\ At(w.tasks[TheOne(At(w.tasks, call.task))].riskNotes, call.note) = {}
       THEN "ErrRiskNoteNotFound"
  ELSE OK

Resolve(w, call) ==
  LET n == TheOne(At(w.tasks, call.task))
  IN [n |-> n,
      k |-> IF call.op \in NoteOps
            THEN TheOne(At(w.tasks[n].riskNotes, call.note)) ELSE 0]

\* What a call that resolves nothing acts on: the UI's numbers.
AsGiven(call) == [n |-> call.task, k |-> call.note]

-----------------------------------------------------------------------------
(* The service call at a resolved place. *)

CallError(w, call, at) ==
  CASE call.op = "generate"         ->
         IF Trim[call.text] = Blank THEN "ErrEmptyRequirement" ELSE OK
    [] call.op = "addTask"          -> AddTaskError(call.text)
    [] call.op = "editTask"         -> EditTaskError(w, at.n, call.text)
    [] call.op = "deleteTask"       -> DeleteTaskError(w, at.n)
    [] call.op = "approve"          -> ApproveError(w)
    [] call.op = "flagRisks"        -> IF w.approved THEN OK ELSE "ErrWBSNotApproved"
    [] call.op = "addRiskNote"      -> AddRiskNoteError(w, at.n, call.text)
    [] call.op = "editRiskNote"     -> EditRiskNoteError(w, at.n, at.k, call.text)
    [] call.op = "deleteRiskNote"   -> DeleteRiskNoteError(w, at.n, at.k)
    [] call.op = "generateEstimates" ->
         IF w.approved THEN OK ELSE "ErrWBSNotApprovedForEstimation"
    [] call.op = "overrideEstimate" -> OverrideEstimateError(w, at.n, call.estimate)
    [] call.op = "approveEstimates" -> ApproveEstimatesError(w)
    [] call.op = "proposal"         -> ProposalError(w, call.inputs)
    [] call.op = "get"              -> OK

\* What the provider a call asks, if any, may return.
PortOutcomes(call) ==
  CASE call.op = "generate"          -> GenerateOutcomes(TaskLists)
    [] call.op = "flagRisks"         -> FlagRisksOutcomes(RiskLists)
    [] call.op = "generateEstimates" -> EstimateOutcomes(EstimateLists)
    [] OTHER                         -> {Outcome(OK, << >>)}

\* The WBS after a call that met no error, with the output of its provider.
CallResult(w, call, at, out) ==
  CASE call.op = "addTask"          -> AddTask(w, call.text)
    [] call.op = "editTask"         -> EditTask(w, at.n, call.text)
    [] call.op = "deleteTask"       -> DeleteTask(w, at.n)
    [] call.op = "approve"          -> Approve(w)
    [] call.op = "flagRisks"        -> ReplaceRiskNotes(w, out)
    [] call.op = "addRiskNote"      -> AddRiskNote(w, at.n, call.text)
    [] call.op = "editRiskNote"     -> EditRiskNote(w, at.n, at.k, call.text)
    [] call.op = "deleteRiskNote"   -> DeleteRiskNote(w, at.n, at.k)
    [] call.op = "generateEstimates" -> SetEstimates(w, out)
    [] call.op = "overrideEstimate" -> OverrideEstimate(w, at.n, call.estimate)
    [] call.op = "approveEstimates" -> ApproveEstimates(w)
    [] OTHER                        -> w

-----------------------------------------------------------------------------
(* What the API answers. *)

Label(approved) == IF approved THEN "approved" ELSE "unapproved"

\* The JSON of a WBS.  The counters and the mark of generated estimates stay
\* inside; the metrics and the pricing are computed from the tasks shown.
View(w) ==
  [state |-> Label(w.approved), estimatesState |-> Label(w.estimatesApproved),
   tasks |-> w.tasks, approvedTasks |-> IF w.approved THEN w.tasks ELSE << >>]

WBSView == [state : {"approved", "unapproved"}, estimatesState : {"approved", "unapproved"},
            tasks : Seq(Task), approvedTasks : Seq(Task)]

\* A response: the error, the WBS shown and the id of a new one; a default where
\* there is none.
NoAnswer == [err |-> "none", wbs |-> View(NewWBS(<< >>)), id |-> 1]

\* The API shows the WBS unless there was an error; the UI redirects after a
\* change and shows the WBS, or the error, on the next page.  A generation ends
\* with the id of the new WBS.
AnswerTo(c, e, w, id) ==
  IF e # OK THEN [NoAnswer EXCEPT !.err = e]
  ELSE IF c.op = "generate" THEN [NoAnswer EXCEPT !.err = OK, !.id = id]
  ELSE IF c.surface = "api" \/ c.op \in ReadOps
  THEN [NoAnswer EXCEPT !.err = OK, !.wbs = View(w)]
  ELSE [NoAnswer EXCEPT !.err = OK]

NotFound      == {"ErrWBSNotFound", "ErrTaskNotFound", "ErrRiskNoteNotFound"}
BadRequest    == {"ErrEmptyDescription", "ErrEmptyRequirement",
                  "ErrUnreadableDocument", "invalid request body"}
Conflict      == {"ErrNoTasks", "ErrWBSNotApproved", "ErrWBSNotApprovedForEstimation",
                  "ErrNoEstimate", "ErrEstimatesNotGenerated",
                  "ErrEstimatesNotApprovedForProposal"}
Unprocessable == {"ErrNonPositiveTeamInputs", "ErrOffFibonacciScale",
                  "ErrEstimatesNotIncreasing", "ErrEmptyReasoning"}

\* Mutant of Status: the table lacks a line.
StatusForgetting(call, e) ==
  IF e = OK THEN IF call.op \in {"generate", "addTask", "addRiskNote"} THEN 201 ELSE 200
  ELSE IF e \in NotFound THEN 404
  ELSE IF e \in BadRequest THEN 400
  ELSE IF e \in Conflict \ {"ErrNoEstimate"} THEN 409
  ELSE IF e \in Unprocessable THEN 422
  ELSE 500

\* The status of the response to a call that returned e.
Status(call, e) ==
  IF e = OK THEN IF call.op \in {"generate", "addTask", "addRiskNote"} THEN 201 ELSE 200
  ELSE IF e \in NotFound THEN 404
  ELSE IF e \in BadRequest THEN 400
  ELSE IF e \in Conflict THEN 409
  ELSE IF e \in Unprocessable THEN 422
  ELSE 500

-----------------------------------------------------------------------------
(* A call as a whole. *)

\* What the call c may make of the WBS and the set of WBS ids in o, if nothing
\* else happens meanwhile: it resolves, reads its body, is checked and asks its
\* provider, and the first error it meets is its answer.  ids are those a new WBS
\* may get.
CallOutcomes(ids, o, c) ==
  LET at == IF Resolves(c) THEN Resolve(o.wbs, c) ELSE AsGiven(c)
      Fails(e)   == [object |-> o, answer |-> AnswerTo(c, e, o.wbs, 1)]
      Leaves(w)  == [object |-> [o EXCEPT !.wbs = w], answer |-> AnswerTo(c, OK, w, 1)]
      Makes(id)  == [object |-> [o EXCEPT !.made = @ \cup {id}],
                     answer |-> AnswerTo(c, OK, o.wbs, id)]
      Provided(p) ==
        IF p.err # OK THEN {Fails(p.err)}
        ELSE IF c.op = "generate" THEN {Makes(id) : id \in ids \ o.made}
        ELSE {Leaves(CallResult(o.wbs, c, at, p.out))}
  IN IF Resolves(c) /\ ResolveError(o.wbs, c) # OK THEN {Fails(ResolveError(o.wbs, c))}
     ELSE IF ~c.wellFormed THEN {Fails(BodyError(c))}
     ELSE IF CallError(o.wbs, c, at) # OK THEN {Fails(CallError(o.wbs, c, at))}
     ELSE UNION {Provided(p) : p \in PortOutcomes(c)}

=============================================================================
