---------------------------- MODULE AgentAnalysis ----------------------------
(***************************************************************************)
(* The analyses of OpenClaw agents: the scheduler and the manual request   *)
(* that create them (src/agent-analysis), and the handlers of the messages *)
(* a device sends about one (src/operations/agent-analysis.ts), around the *)
(* runners of JobRunner.  A handler is started for every message and is    *)
(* not awaited, so that the handlers of one job overlap; each of their     *)
(* queries is a step.                                                      *)
(***************************************************************************)
EXTENDS JobRunner

CONSTANTS
  Target,       (* an agent and the period to analyse                      *)
  TargetOf,     (* the target an operation is created for                  *)
  NoTarget,
  NoOperation,
  Trigger,      (* the scheduler and HTTP requests, as processes           *)
  Handler       (* the messages handled at the same time                   *)

ASSUME AnalysisAssumption ==
  /\ TargetOf \in [Operation -> Target]
  /\ NoTarget \notin Target
  /\ NoOperation \notin Operation
  /\ \A j \in Job : TypeOf[j] = AnalysisType
  /\ {"succeeded", "failed", "unsupported"} \subseteq ExternalOutcome

VARIABLES
  trigger,   (* where a trigger is between its queries                     *)
  handler,   (* where the handler of a message is                          *)
  measured,  (* jobs whose payload holds hardMetrics                       *)
  report     (* agent_analysis_reports: the operation that wrote the row   *)

analysisVars == <<trigger, handler, measured, report>>
allVars == <<vars, analysisVars>>

TriggerState ==
  [pc : {"idle", "queued", "running", "create", "enqueue"},
   target : Target \cup {NoTarget}, op : Operation \cup {NoOperation}]

HandlerState ==
  [pc : {"idle", "update", "report", "complete"}, job : Job \cup {NoJob},
   status : {"none", "succeeded", "failed", "unsupported"}]

Waiting == [pc |-> "idle", target |-> NoTarget, op |-> NoOperation]
Free    == [pc |-> "idle", job |-> NoJob, status |-> "none"]

AnalysisTypeOK ==
  /\ RunnerTypeOK
  /\ trigger \in [Trigger -> TriggerState]
  /\ \A p \in Trigger : trigger[p].pc = "enqueue" <=> trigger[p].op # NoOperation
  /\ handler \in [Handler -> HandlerState]
  /\ \A h \in Handler :
       /\ handler[h].pc # "idle" => handler[h].job \in Job
       /\ handler[h].pc = "report" => handler[h].status = "succeeded"
       /\ handler[h].pc = "complete" => handler[h].status # "none"
  /\ measured \subseteq Job
  /\ report \in [Target -> Operation \cup {NoOperation}]

AnalysisInit ==
  /\ RunnerInit
  /\ trigger = [p \in Trigger |-> Waiting]
  /\ handler = [h \in Handler |-> Free]
  /\ measured = {}
  /\ report = [t \in Target |-> NoOperation]
------------------------------------------------------------------------------
(* shouldSkipTarget and createAgentAnalysisRunForTarget.                   *)

Listed(t, s) == \E o \in Operation : TargetOf[o] = t /\ op[o].status = s

(* hasReport. *)
CheckReport(p, t) ==
  /\ trigger[p].pc = "idle"
  /\ report[t] = NoOperation
  /\ trigger' = [trigger EXCEPT ![p] = [Waiting EXCEPT !.pc = "queued", !.target = t]]
  /\ UNCHANGED <<vars, handler, measured, report>>

(* listOperations with status "queued", then with status "running". *)
CheckOpen(p) ==
  /\ trigger[p].pc \in {"queued", "running"}
  /\ trigger' = [trigger EXCEPT ![p] =
       IF Listed(@.target, @.pc) THEN Waiting
       ELSE [@ EXCEPT !.pc = IF @ = "queued" THEN "running" ELSE "create"]]
  /\ UNCHANGED <<vars, handler, measured, report>>

(* A member asks for the analysis: POST /api/agent-analysis-runs checks    *)
(* nothing of the above.                                                   *)
Ask(p, t) ==
  /\ trigger[p].pc = "idle"
  /\ trigger' = [trigger EXCEPT ![p] = [Waiting EXCEPT !.pc = "create", !.target = t]]
  /\ UNCHANGED <<vars, handler, measured, report>>

Create(p, o) ==
  /\ trigger[p].pc = "create" /\ TargetOf[o] = trigger[p].target
  /\ RequestOperation(o)
  /\ trigger' = [trigger EXCEPT ![p] = [@ EXCEPT !.pc = "enqueue", !.op = o]]
  /\ UNCHANGED <<handler, measured, report>>

Enqueue(p, j) ==
  /\ trigger[p].pc = "enqueue" /\ OperationOf[j] = trigger[p].op
  /\ RequestJob(j)
  /\ trigger' = [trigger EXCEPT ![p] = Waiting]
  /\ UNCHANGED <<handler, measured, report>>

(* A query fails, or the backend dies between two queries. *)
Abandon(p) ==
  /\ trigger[p].pc # "idle"
  /\ trigger' = [trigger EXCEPT ![p] = Waiting]
  /\ UNCHANGED <<vars, handler, measured, report>>
------------------------------------------------------------------------------
(* The messages of the device.                                             *)

(* readMatchingAgentAnalysisJob ignores the message of a job that has its  *)
(* outcome.  A result without metrics in the payload, or with an analysis  *)
(* that validateAgentAnalysisResult rejects ("invalid"), fails the job.    *)
Receive(h, j, kind) ==
  /\ handler[h].pc = "idle"
  /\ sent[j] > 0 /\ IsOpen(job[j])
  /\ handler' = [handler EXCEPT ![h] =
       CASE kind = "progress" -> [pc |-> "update", job |-> j, status |-> "none"]
         [] kind = "succeeded" /\ j \in measured ->
              [pc |-> "report", job |-> j, status |-> "succeeded"]
         [] kind = "unsupported" -> [pc |-> "complete", job |-> j, status |-> "unsupported"]
         [] OTHER -> [pc |-> "complete", job |-> j, status |-> "failed"]]
  /\ UNCHANGED <<vars, trigger, measured, report>>

(* updateJobPayload of applyAgentAnalysisProgress. *)
ApplyProgress(h) ==
  LET j == handler[h].job IN
  /\ handler[h].pc = "update"
  /\ \/ DeviceProgress(j)
     \/ ~IsOpen(job[j]) /\ UNCHANGED vars
  /\ handler' = [handler EXCEPT ![h] = Free]
  /\ UNCHANGED <<trigger, measured, report>>

(* Bug: an error of upsertReport is swallowed. *)
StoreReportOrSkip(h) ==
  LET o == OperationOf[handler[h].job] IN
  /\ handler[h].pc = "report"
  /\ report' \in {report, [report EXCEPT ![TargetOf[o]] = o]}
  /\ handler' = [handler EXCEPT ![h].pc = "complete"]
  /\ UNCHANGED <<vars, trigger, measured>>

(* upsertReport. *)
StoreReport(h) ==
  LET o == OperationOf[handler[h].job] IN
  /\ handler[h].pc = "report"
  /\ report' = [report EXCEPT ![TargetOf[o]] = o]
  /\ handler' = [handler EXCEPT ![h].pc = "complete"]
  /\ UNCHANGED <<vars, trigger, measured>>

(* Bug: completeExternalJob overwrites an outcome. *)
CompleteRegardless(h) ==
  LET j == handler[h].job IN
  /\ handler[h].pc = "complete"
  /\ WriteAndRefresh(j, CompletedRow(job[j], handler[h].status), FALSE)
  /\ handler' = [handler EXCEPT ![h] = Free]
  /\ UNCHANGED <<now, runnerVars, trigger, measured, report>>

(* completeExternalJob, which ends every other path. *)
CompleteAnalysis(h) ==
  LET j == handler[h].job IN
  /\ handler[h].pc = "complete"
  /\ \/ DeviceOutcome(j, handler[h].status)
     \/ ~IsOpen(job[j]) /\ UNCHANGED vars
  /\ handler' = [handler EXCEPT ![h] = Free]
  /\ UNCHANGED <<trigger, measured, report>>

(* A query fails, or the backend dies between two queries. *)
Drop(h) ==
  /\ handler[h].pc # "idle"
  /\ handler' = [handler EXCEPT ![h] = Free]
  /\ UNCHANGED <<vars, trigger, measured, report>>
------------------------------------------------------------------------------
(* A runner dispatches: the metrics enter the payload with the stage       *)
(* "dispatched", after the request was sent.                               *)
Dispatch(r) ==
  /\ RunnerStep(r)
  /\ measured' = IF run[r].pc = "sent" /\ run'[r].pc = "idle" /\ IsOpen(job[run[r].job])
                 THEN measured \cup {run[r].job} ELSE measured
  /\ UNCHANGED <<trigger, handler, report>>

AnalysisNext ==
  \/ \E p \in Trigger :
       \/ \E t \in Target : CheckReport(p, t) \/ Ask(p, t)
       \/ \E o \in Operation : Create(p, o)
       \/ \E j \in Job : Enqueue(p, j)
       \/ CheckOpen(p) \/ Abandon(p)
  \/ \E h \in Handler :
       \/ \E j \in Job, kind \in {"progress", "succeeded", "invalid", "unsupported", "failed"} :
            Receive(h, j, kind)
       \/ ApplyProgress(h) \/ StoreReport(h) \/ CompleteAnalysis(h) \/ Drop(h)
  \/ \E r \in Runner : Dispatch(r)
  \/ /\ Advance \/ \E r \in Runner : Crash(r)
     /\ UNCHANGED analysisVars

AnalysisSpec == AnalysisInit /\ [][AnalysisNext]_allVars

(* Nothing is assumed of the devices, their messages or the triggers. *)
FairAnalysisSpec == AnalysisSpec /\ Fairness
------------------------------------------------------------------------------
(* An analysis that succeeded left a report for its agent and period,      *)
(* however its results, its deadline and the failures of runners overlap   *)
(* (openclaw-agent-dashboard-backend-spec.md:44).  EveryJobEnds and        *)
(* OutcomeUndoneOnlyByFailure of JobRunner are checked here as well: the   *)
(* handlers overlap each other and act on rows they read earlier.          *)
SuccessHasReport ==
  \A j \in Job : job[j].status = "succeeded" => report[TargetOf[OperationOf[j]]] # NoOperation
==============================================================================
