---------------------------- MODULE WorkflowRun -----------------------------
(***************************************************************************)
(* One workflow run in the sidecar (server/sidecar/src/workflow_run.cpp):  *)
(* a graph whose remote nodes wait for a promise that a completion notice  *)
(* resolves.  The threads:                                                 *)
(*   - the handler of POST /node-completions (one at a time: it holds      *)
(*     runsMu_), which calls completeNode;                                 *)
(*   - a detached thread per accepted notice that fetches the output;      *)
(*   - an operator-pool thread per remote node, blocked in its BusProxy;   *)
(*   - the engine thread that runs onTaskComplete.                         *)
(* They share mu_.  A stretch under mu_ is one step; `finalized_` is also  *)
(* read outside it, and each such read is a step apart from what follows.  *)
(*                                                                         *)
(* The engine (DCinfer) is external: it runs the nodes once the graph is   *)
(* submitted, and calls onTaskComplete when the declared output exists.    *)
(***************************************************************************)
EXTENDS Naturals, FiniteSets

CONSTANTS
  Nodes,        \* the remote nodes
  Needed,       \* those the declared output depends on
  NoticeKinds,  \* "ok", "error", "nourl": what a completion notice may say
  MaxNotices    \* notices the control plane sends for one node

Terminal    == {"completed", "failed"}
GraphStatus == {"starting", "waitingRemote", "executing"} \cup Terminal
NodeState   == {"pending", "running", "completed", "failed"}
ProxyState  == {"unstarted", "waiting", "delivered", "failing", "broken"}
FetchState  == {"none", "get", "value", "except", "done"}
Fetches     == Nodes \X (1..MaxNotices)

ASSUME ConstantsAssumption ==
  /\ Needed \in SUBSET Nodes /\ Needed # {}
  /\ NoticeKinds \in SUBSET {"ok", "error", "nourl"}
  /\ MaxNotices \in Nat \ {0}

VARIABLES
  submitted,   \* start() has submitted the graph
  status,      \* status_
  finalized,   \* finalized_
  hasError,    \* errorCode_ has a value
  nodeState,   \* nodeStates_ of the remote nodes
  pending,     \* the keys of pending_
  promise,     \* RemotePlan.tensor of each node: "empty", "value", "error"
  proxy,       \* each BusProxy thread
  handler,     \* completeNode: "idle", past its first lock, or "stuck"
  notice,      \* the node its notice is about (any, while idle)
  fetch,       \* the fetch thread of each accepted notice
  completion,  \* onTaskComplete: "idle", "uploading", "done"
  received,    \* notices received for each node
  accepted,    \* nodes with a notice answered accepted = true
  crashed      \* std::terminate: an exception left a detached thread

runVars    == <<status, finalized, hasError>>
nodeVars   == <<nodeState, pending, promise, proxy>>
noticeVars == <<handler, notice, received, accepted>>
vars == <<submitted, status, finalized, hasError, nodeState, pending, promise, proxy,
          handler, notice, fetch, completion, received, accepted, crashed>>

RS == INSTANCE RunStatus

\* mu_ can be locked: the process lives and no handler waits for itself.
MuFree == ~crashed /\ handler # "stuck"

-----------------------------------------------------------------------------
(* fail(), with two broken variants *)

FailRunAlways ==
  status' = "failed" /\ hasError' = TRUE /\ finalized' = TRUE
FailRunOnlyWaiting ==
  IF finalized \/ status = "executing" THEN UNCHANGED runVars
  ELSE status' = "failed" /\ hasError' = TRUE /\ finalized' = TRUE
FailRun ==
  IF finalized THEN UNCHANGED runVars
  ELSE status' = "failed" /\ hasError' = TRUE /\ finalized' = TRUE

-----------------------------------------------------------------------------
(* start() *)

\* Inputs fetched and fed, every BusProxy given its task record, graph submitted.
Start ==
  /\ ~submitted /\ ~finalized /\ ~crashed
  /\ submitted' = TRUE
  /\ UNCHANGED <<runVars, nodeVars, noticeVars, fetch, completion, crashed>>

\* An input is missing or malformed, or a task record cannot be created.
StartFails ==
  /\ ~submitted /\ ~finalized /\ MuFree
  /\ FailRun
  /\ UNCHANGED <<submitted, nodeVars, noticeVars, fetch, completion, crashed>>

-----------------------------------------------------------------------------
(* BusProxy threads *)

\* The status once a node waits.
StatusOnWaiting(s) == IF s = "starting" THEN "waitingRemote" ELSE s

\* onRemoteWaiting, the first thing a BusProxy does.
Wait(n) ==
  /\ submitted /\ MuFree
  /\ proxy[n] = "unstarted"
  /\ proxy' = [proxy EXCEPT ![n] = "waiting"]
  /\ status' = StatusOnWaiting(status)
  /\ nodeState' = [nodeState EXCEPT ![n] = "running"]
  /\ pending' = pending \cup {n}
  /\ UNCHANGED <<submitted, finalized, hasError, promise, noticeVars, fetch, completion,
                 crashed>>

\* The node state a result leads to (the variant uses a graph status).
GraphResult(p) == IF p = "value" THEN "executing" ELSE "failed"
NodeResult(p) == IF p = "value" THEN "completed" ELSE "failed"

\* future.get() returns or throws; the node's completion callback records it.
Wake(n) ==
  /\ proxy[n] = "waiting" /\ promise[n] # "empty" /\ MuFree
  /\ nodeState' = [nodeState EXCEPT ![n] = NodeResult(promise[n])]
  /\ proxy' = [proxy EXCEPT ![n] = IF promise[n] = "value" THEN "delivered" ELSE "failing"]
  /\ UNCHANGED <<submitted, runVars, pending, promise, noticeVars, fetch, completion, crashed>>

\* ... and, outside the lock, fails the run.
ProxyFails(n) ==
  /\ proxy[n] = "failing" /\ MuFree
  /\ FailRun
  /\ proxy' = [proxy EXCEPT ![n] = "broken"]
  /\ UNCHANGED <<submitted, nodeState, pending, promise, noticeVars, fetch, completion, crashed>>

-----------------------------------------------------------------------------
(* completeNode *)

\* The first lock: a finalized run ignores the notice.
Notify(n, kind) ==
  /\ handler = "idle" /\ MuFree
  /\ n \in pending /\ received[n] < MaxNotices
  /\ received' = [received EXCEPT ![n] = @ + 1]
  /\ IF finalized THEN UNCHANGED <<handler, notice>>
                  ELSE handler' = kind /\ notice' = n
  /\ UNCHANGED <<submitted, runVars, nodeVars, accepted, fetch, completion, crashed>>

\* The promise after a failure notice (the variant forgets it).  Setting it twice
\* throws out of the handler, which the server answers with a 500.
ErrorForgotten(n) == promise
ErrorSet(n) == IF promise[n] = "empty" THEN [promise EXCEPT ![n] = "error"] ELSE promise

\* An errorCode: the second lock writes the failure without a look at finalized_.
HandleError ==
  /\ handler = "error" /\ MuFree
  /\ nodeState' = [nodeState EXCEPT ![notice] = "failed"]
  /\ status' = "failed" /\ hasError' = TRUE /\ finalized' = TRUE
  /\ promise' = ErrorSet(notice)
  /\ handler' = "idle"
  /\ accepted' = accepted \cup {notice}
  /\ UNCHANGED <<submitted, pending, proxy, notice, fetch, completion, received, crashed>>

\* Neither errorCode nor outputUri: fail() wants the mutex this thread holds.
HandleNoUrl ==
  /\ handler = "nourl" /\ MuFree
  /\ handler' = "stuck"
  /\ UNCHANGED <<submitted, runVars, nodeVars, notice, fetch, completion, received, accepted,
                 crashed>>

\* An outputUri: a detached thread fetches it.
HandleOutput ==
  /\ handler = "ok" /\ ~crashed
  /\ fetch' = [fetch EXCEPT ![<<notice, received[notice]>>] = "get"]
  /\ handler' = "idle"
  /\ accepted' = accepted \cup {notice}
  /\ UNCHANGED <<submitted, runVars, nodeVars, notice, completion, received, crashed>>

-----------------------------------------------------------------------------
(* Fetch threads *)

FetchFails(f) ==
  /\ fetch[f] = "get" /\ MuFree
  /\ FailRun
  /\ fetch' = [fetch EXCEPT ![f] = "except"]
  /\ UNCHANGED <<submitted, nodeVars, noticeVars, completion, crashed>>

\* markExecuting (the variant does not look at the status).
ExecutingAlways(s) == "executing"
Executing(s) == IF s = "waitingRemote" THEN "executing" ELSE s

\* The value is there.
Fetched(f) ==
  /\ fetch[f] = "get" /\ MuFree
  /\ status' = Executing(status)
  /\ fetch' = [fetch EXCEPT ![f] = "value"]
  /\ UNCHANGED <<submitted, finalized, hasError, nodeVars, noticeVars, completion, crashed>>

\* What the thread does after it has resolved the promise: return (the variant
\* falls through from the exception to the value).
FallThrough(s) == IF s = "except" THEN "value" ELSE "done"
AfterResolve(s) == "done"

\* set_value or set_exception; on a promise already set it throws, and no one catches.
Resolve(f) ==
  LET n == f[1]
  IN  /\ fetch[f] \in {"value", "except"} /\ ~crashed
      /\ IF promise[n] = "empty"
           THEN /\ promise' = [promise EXCEPT ![n] = IF fetch[f] = "value" THEN "value"
                                                                          ELSE "error"]
                /\ fetch' = [fetch EXCEPT ![f] = AfterResolve(@)]
                /\ UNCHANGED crashed
           ELSE crashed' = TRUE /\ UNCHANGED <<promise, fetch>>
      /\ UNCHANGED <<submitted, runVars, nodeState, pending, proxy, noticeVars, completion>>

-----------------------------------------------------------------------------
(* onTaskComplete and the local part of the graph *)

\* The declared output exists: its remote inputs have been delivered (the variant:
\* one of them has).
SomeInputDelivered == \E n \in Needed : proxy[n] = "delivered"
OutputReady == \A n \in Needed : proxy[n] = "delivered"

OnTaskComplete ==
  /\ completion = "idle" /\ OutputReady /\ ~crashed
  /\ completion' = IF finalized THEN "done" ELSE "uploading"
  /\ UNCHANGED <<submitted, runVars, nodeVars, noticeVars, fetch, crashed>>

\* The upload is over (or none is asked for): completed, whatever happened meanwhile.
Complete ==
  /\ completion = "uploading" /\ MuFree
  /\ status' = "completed" /\ finalized' = TRUE
  /\ completion' = "done"
  /\ UNCHANGED <<submitted, hasError, nodeVars, noticeVars, fetch, crashed>>

\* Not one output binding, no output tensor, or a failed upload.
CompleteFails ==
  /\ completion = "uploading" /\ MuFree
  /\ FailRun
  /\ completion' = "done"
  /\ UNCHANGED <<submitted, nodeVars, noticeVars, fetch, crashed>>

\* A local node fails: its callback fails the run, the output never appears.
LocalFails ==
  /\ submitted /\ completion = "idle" /\ MuFree
  /\ FailRun
  /\ completion' = "done"
  /\ UNCHANGED <<submitted, nodeVars, noticeVars, fetch, crashed>>

-----------------------------------------------------------------------------
Init ==
  /\ submitted = FALSE /\ status = "starting" /\ finalized = FALSE /\ hasError = FALSE
  /\ nodeState = [n \in Nodes |-> "pending"] /\ pending = {}
  /\ promise = [n \in Nodes |-> "empty"] /\ proxy = [n \in Nodes |-> "unstarted"]
  /\ handler = "idle" /\ notice \in Nodes
  /\ fetch = [f \in Fetches |-> "none"] /\ completion = "idle"
  /\ received = [n \in Nodes |-> 0] /\ accepted = {} /\ crashed = FALSE

ProxyStep(n) == Wait(n) \/ Wake(n) \/ ProxyFails(n)
HandlerStep == HandleError \/ HandleNoUrl \/ HandleOutput
FetchStep(f) == FetchFails(f) \/ Fetched(f) \/ Resolve(f)
CompletionStep == OnTaskComplete \/ Complete \/ CompleteFails

Next ==
  \/ Start
  \/ StartFails
  \/ \E n \in Nodes : ProxyStep(n)
  \/ \E n \in Nodes, kind \in NoticeKinds : Notify(n, kind)
  \/ HandlerStep
  \/ \E f \in Fetches : FetchStep(f)
  \/ CompletionStep
  \/ LocalFails

Spec == Init /\ [][Next]_vars

\* Every thread runs, the HTTP calls of the detached ones return, the engine calls
\* back.  Nothing obliges the control plane to send a notice.
Fairness ==
  /\ \A n \in Nodes : WF_vars(ProxyStep(n))
  /\ WF_vars(HandlerStep)
  /\ \A f \in Fetches : WF_vars(FetchStep(f))
  /\ WF_vars(CompletionStep)

FairSpec == Spec /\ Fairness

-----------------------------------------------------------------------------
(* Properties *)

\* Every variable keeps its type.
TypeOK ==
  /\ submitted \in BOOLEAN /\ status \in GraphStatus
  /\ finalized \in BOOLEAN /\ hasError \in BOOLEAN
  /\ nodeState \in [Nodes -> NodeState] /\ pending \in SUBSET Nodes
  /\ promise \in [Nodes -> {"empty", "value", "error"}]
  /\ proxy \in [Nodes -> ProxyState]
  /\ handler \in {"idle", "ok", "error", "nourl", "stuck"} /\ notice \in Nodes
  /\ fetch \in [Fetches -> FetchState]
  /\ completion \in {"idle", "uploading", "done"}
  /\ received \in [Nodes -> 0..MaxNotices] /\ accepted \in SUBSET Nodes
  /\ crashed \in BOOLEAN

\* A completed run has every remote result its output is made of.
CompletedHasItsInputs ==
  status = "completed" => \A n \in Needed : promise[n] = "value"

\* One notice per node never resolves a promise twice, in whatever order handlers,
\* fetch threads and failures run; a second resolution in a detached thread would
\* end the process with every run in it.
PromiseResolvedOnce == MaxNotices = 1 => ~crashed

\* A run's outcome changes after the fact only in the two windows the code leaves
\* open: failed becomes completed only under an upload begun before the failure,
\* completed becomes failed only under a notice checked before the completion.
OutcomeChangesOnlyInWindow ==
  [][/\ status = "failed" /\ completion # "uploading" => status' = "failed"
     /\ status = "failed" /\ completion = "idle" => completion' # "uploading"
     /\ status = "completed" /\ handler # "error" => status' = "completed"]_vars

\* The run keeps to what the control plane relies on: whatever its threads do, its
\* status goes forward and then ends.
StatusSpec == RS!Spec

\* An accepted notice resolves its node's promise: the thread blocked in the
\* BusProxy is woken, whatever else fails meanwhile, unless a handler keeps mu_.
AcceptedNoticeWakesNode ==
  \A n \in Nodes : (n \in accepted) ~> (promise[n] # "empty" \/ ~MuFree)

\* A run of whose nodes every one has been reported ends, with the same exception.
NotifiedRunEnds == (\A n \in Nodes : received[n] > 0) ~> (finalized \/ ~MuFree)


=============================================================================
