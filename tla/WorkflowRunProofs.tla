-------------------------- MODULE WorkflowRunProofs --------------------------
(***************************************************************************)
(* Proofs about WorkflowRun for any remote nodes, any part of them that    *)
(* the output depends on, any kinds of notice and any number of notices.   *)
(***************************************************************************)
EXTENDS WorkflowRun, TLAPS

\* finalized_ and status_ are written together: no thread sees one without the other.
FinalizedIsEnd == finalized <=> status \in Terminal

\* What a BusProxy delivered is the value in its promise; an upload, and the end it
\* leads to, have every remote result behind them.
DeliveredIsResolved ==
  /\ \A n \in Nodes : proxy[n] = "delivered" => promise[n] = "value"
  /\ completion = "uploading" \/ status = "completed" => OutputReady

\* A handler past its first lock holds a notice that was counted.
HandlerHasNotice == handler # "idle" => received[notice] # 0

\* With one notice per node, the promise of a node is empty until the one handler
\* or the one fetch thread of its notice is done, and only one of them has it.
OneResolver ==
  MaxNotices = 1 =>
    /\ ~crashed
    /\ \A n \in Nodes :
         /\ received[n] = 0 \/ (handler \in {"ok", "error"} /\ notice = n) =>
              promise[n] = "empty" /\ fetch[<<n, 1>>] = "none"
         /\ fetch[<<n, 1>>] \in {"get", "value", "except"} => promise[n] = "empty"

IInv == TypeOK /\ FinalizedIsEnd /\ DeliveredIsResolved /\ HandlerHasNotice /\ OneResolver

-----------------------------------------------------------------------------
(* fail() and the steps on the status *)

\* fail() leaves an ended run as it is and makes any other fail.
LEMMA FailRunEffect ==
  ASSUME TypeOK, FinalizedIsEnd, FailRun
  PROVE  /\ status' \in GraphStatus /\ finalized' \in BOOLEAN /\ hasError' \in BOOLEAN
         /\ FinalizedIsEnd'
         /\ status \in Terminal => status' = status
         /\ status \notin Terminal => status' = "failed"
<1>1. CASE finalized
  BY <1>1 DEF TypeOK, FinalizedIsEnd, FailRun, runVars
<1>2. CASE ~finalized
  BY <1>2 DEF TypeOK, FinalizedIsEnd, FailRun, GraphStatus, Terminal
<1>3. QED
  BY <1>1, <1>2

\* Neither a node that starts to wait nor a value that arrives ends a run, or starts
\* an ended one again.
LEMMA ForwardEffect ==
  ASSUME NEW s \in GraphStatus
  PROVE  /\ StatusOnWaiting(s) \in GraphStatus /\ Executing(s) \in GraphStatus
         /\ s \in Terminal => StatusOnWaiting(s) = s /\ Executing(s) = s
         /\ s \notin Terminal => StatusOnWaiting(s) \notin Terminal
                              /\ Executing(s) \notin Terminal
BY DEF StatusOnWaiting, Executing, GraphStatus, Terminal

LEMMA InitIInv == Init => IInv
<1> SUFFICES ASSUME Init PROVE IInv
  OBVIOUS
<1>1. received \in [Nodes -> 0..MaxNotices]
  BY ConstantsAssumption DEF Init
<1>2. TypeOK
  BY <1>1 DEF Init, TypeOK, GraphStatus, NodeState, ProxyState, FetchState
<1>3. FinalizedIsEnd /\ DeliveredIsResolved /\ HandlerHasNotice
  BY DEF Init, FinalizedIsEnd, DeliveredIsResolved, HandlerHasNotice, Terminal
<1>4. OneResolver
  BY ConstantsAssumption DEF Init, OneResolver, Fetches
<1>5. QED
  BY <1>2, <1>3, <1>4 DEF IInv

-----------------------------------------------------------------------------
(* The invariant step by step *)

\* What a step that neither adds a notice, nor moves a handler or a fetch thread, nor
\* resolves a promise leaves alone.
LEMMA NoticesUnchanged ==
  ASSUME IInv, UNCHANGED <<noticeVars, promise, fetch, crashed>>
  PROVE  HandlerHasNotice' /\ OneResolver'
BY DEF IInv, HandlerHasNotice, OneResolver, noticeVars

\* A step in which no promise, proxy or upload changes keeps the delivered values,
\* unless it completes the run.
LEMMA DeliveryUnchanged ==
  ASSUME IInv, UNCHANGED <<promise, proxy, completion>>,
         status' = "completed" => status = "completed"
  PROVE  DeliveredIsResolved'
BY DEF IInv, DeliveredIsResolved, OutputReady

LEMMA StartStep ==
  ASSUME IInv, Start \/ StartFails
  PROVE  IInv'
<1>1. CASE Start
  <2>1. TypeOK' /\ FinalizedIsEnd'
    BY <1>1 DEF IInv, Start, TypeOK, FinalizedIsEnd, runVars, nodeVars, noticeVars
  <2>2. DeliveredIsResolved' /\ HandlerHasNotice' /\ OneResolver'
    BY <1>1, NoticesUnchanged, DeliveryUnchanged DEF Start, runVars, nodeVars
  <2>3. QED
    BY <2>1, <2>2 DEF IInv
<1>2. CASE StartFails
  <2>1. TypeOK' /\ FinalizedIsEnd' /\ (status' = "completed" => status = "completed")
    BY <1>2, FailRunEffect DEF IInv, StartFails, TypeOK, nodeVars, noticeVars
  <2>2. DeliveredIsResolved' /\ HandlerHasNotice' /\ OneResolver'
    BY <1>2, <2>1, NoticesUnchanged, DeliveryUnchanged DEF StartFails, nodeVars
  <2>3. QED
    BY <2>1, <2>2 DEF IInv
<1>3. QED
  BY <1>1, <1>2

LEMMA ProxyStepKeeps ==
  ASSUME IInv, NEW n \in Nodes, ProxyStep(n)
  PROVE  IInv'
<1> USE DEF IInv
<1>1. CASE Wait(n)
  <2>1. TypeOK'
    BY <1>1, ForwardEffect DEF Wait, TypeOK, NodeState, ProxyState, noticeVars
  <2>2. FinalizedIsEnd'
    BY <1>1, ForwardEffect DEF Wait, TypeOK, FinalizedIsEnd
  <2>3. DeliveredIsResolved'
    <3>1. status' = "completed" => status = "completed"
      BY <1>1 DEF Wait, StatusOnWaiting
    <3>2. \A m \in Nodes : proxy[m] = "delivered" <=> proxy'[m] = "delivered"
      BY <1>1 DEF Wait, TypeOK
    <3>3. QED
      BY <1>1, <3>1, <3>2 DEF Wait, DeliveredIsResolved, OutputReady
  <2>4. HandlerHasNotice' /\ OneResolver'
    BY <1>1, NoticesUnchanged DEF Wait
  <2>5. QED
    BY <2>1, <2>2, <2>3, <2>4
<1>2. CASE Wake(n)
  <2>1. TypeOK' /\ FinalizedIsEnd'
    BY <1>2 DEF Wake, TypeOK, FinalizedIsEnd, NodeState, ProxyState, NodeResult, runVars,
                noticeVars
  <2>2. DeliveredIsResolved'
    <3>1. \A m \in Nodes : proxy[m] = "delivered" => proxy'[m] = "delivered"
      BY <1>2 DEF Wake, TypeOK
    <3>2. \A m \in Nodes : proxy'[m] = "delivered" => promise'[m] = "value"
      BY <1>2 DEF Wake, TypeOK, DeliveredIsResolved
    <3>3. QED
      BY <1>2, <3>1, <3>2, ConstantsAssumption
         DEF Wake, DeliveredIsResolved, OutputReady, runVars
  <2>3. HandlerHasNotice' /\ OneResolver'
    BY <1>2, NoticesUnchanged DEF Wake
  <2>4. QED
    BY <2>1, <2>2, <2>3
<1>3. CASE ProxyFails(n)
  <2>1. TypeOK' /\ FinalizedIsEnd' /\ (status' = "completed" => status = "completed")
    BY <1>3, FailRunEffect DEF ProxyFails, TypeOK, ProxyState, noticeVars
  <2>2. \A m \in Nodes : proxy[m] = "delivered" <=> proxy'[m] = "delivered"
    BY <1>3 DEF ProxyFails, TypeOK
  <2>3. DeliveredIsResolved'
    BY <1>3, <2>1, <2>2, ConstantsAssumption
       DEF ProxyFails, DeliveredIsResolved, OutputReady
  <2>4. HandlerHasNotice' /\ OneResolver'
    BY <1>3, NoticesUnchanged DEF ProxyFails
  <2>5. QED
    BY <2>1, <2>3, <2>4
<1>4. QED
  BY <1>1, <1>2, <1>3 DEF ProxyStep

LEMMA NotifyKeeps ==
  ASSUME IInv, NEW n \in Nodes, NEW kind \in NoticeKinds, Notify(n, kind)
  PROVE  IInv'
<1> USE DEF IInv
<1>1. received' \in [Nodes -> 0..MaxNotices] /\ received'[n] # 0
  BY ConstantsAssumption DEF Notify, TypeOK
<1>2. handler' \in {"idle", "ok", "error", "nourl", "stuck"} /\ notice' \in Nodes
  BY ConstantsAssumption DEF Notify, TypeOK
<1>3. TypeOK' /\ FinalizedIsEnd'
  BY <1>1, <1>2 DEF Notify, TypeOK, FinalizedIsEnd, runVars, nodeVars
<1>4. DeliveredIsResolved'
  BY DeliveryUnchanged DEF Notify, runVars, nodeVars
<1>5. HandlerHasNotice'
  BY <1>1 DEF Notify, HandlerHasNotice
<1>6. OneResolver'
  <2> SUFFICES ASSUME MaxNotices = 1 PROVE OneResolver'
    BY DEF OneResolver
  <2>1. received[n] = 0
    BY DEF Notify, TypeOK
  <2>2. \A m \in Nodes : received'[m] = 0 => received[m] = 0
    BY <1>1 DEF Notify, TypeOK
  <2>3. \A m \in Nodes : handler' \in {"ok", "error"} /\ notice' = m => m = n
    BY DEF Notify
  <2>4. promise' = promise /\ fetch' = fetch /\ crashed' = crashed
    BY DEF Notify, nodeVars
  <2>5. QED
    BY <2>1, <2>2, <2>3, <2>4 DEF OneResolver
<1>7. QED
  BY <1>3, <1>4, <1>5, <1>6

LEMMA HandlerStepKeeps ==
  ASSUME IInv, HandlerStep
  PROVE  IInv'
<1> USE DEF IInv
<1>1. CASE HandleError
  <2>1. promise' \in [Nodes -> {"empty", "value", "error"}]
    BY <1>1 DEF HandleError, ErrorSet, TypeOK
  <2>2. TypeOK' /\ FinalizedIsEnd' /\ HandlerHasNotice'
    BY <1>1, <2>1
       DEF HandleError, TypeOK, FinalizedIsEnd, HandlerHasNotice, NodeState, GraphStatus,
           Terminal
  <2>3. DeliveredIsResolved'
    <3>1. \A m \in Nodes : promise[m] = "value" => promise'[m] = "value"
      BY <1>1 DEF HandleError, ErrorSet, TypeOK
    <3>2. QED
      BY <1>1, <3>1 DEF HandleError, DeliveredIsResolved, OutputReady
  <2>4. OneResolver'
    <3> SUFFICES ASSUME MaxNotices = 1 PROVE OneResolver'
      BY DEF OneResolver
    <3>1. received[notice] # 0 /\ fetch[<<notice, 1>>] = "none"
      BY <1>1 DEF HandleError, HandlerHasNotice, OneResolver, TypeOK
    <3>2. \A m \in Nodes : m # notice => promise'[m] = promise[m]
      BY <1>1 DEF HandleError, ErrorSet, TypeOK
    <3>3. QED
      BY <1>1, <3>1, <3>2 DEF HandleError, OneResolver
  <2>5. QED
    BY <2>2, <2>3, <2>4
<1>2. CASE HandleNoUrl
  <2>1. TypeOK' /\ FinalizedIsEnd' /\ HandlerHasNotice'
    BY <1>2 DEF HandleNoUrl, TypeOK, FinalizedIsEnd, HandlerHasNotice, runVars, nodeVars
  <2>2. DeliveredIsResolved'
    BY <1>2, DeliveryUnchanged DEF HandleNoUrl, runVars, nodeVars
  <2>3. OneResolver'
    BY <1>2 DEF HandleNoUrl, OneResolver, nodeVars
  <2>4. QED
    BY <2>1, <2>2, <2>3
<1>3. CASE HandleOutput
  <2>1. received[notice] \in 1..MaxNotices
    BY <1>3, ConstantsAssumption DEF HandleOutput, HandlerHasNotice, TypeOK
  <2>2. <<notice, received[notice]>> \in Fetches
    BY <2>1 DEF Fetches, TypeOK
  <2>3. fetch' \in [Fetches -> FetchState]
    BY <1>3, <2>2 DEF HandleOutput, TypeOK, FetchState
  <2>4. TypeOK' /\ FinalizedIsEnd' /\ HandlerHasNotice'
    BY <1>3, <2>3 DEF HandleOutput, TypeOK, FinalizedIsEnd, HandlerHasNotice, runVars, nodeVars
  <2>5. DeliveredIsResolved'
    BY <1>3, DeliveryUnchanged DEF HandleOutput, runVars, nodeVars
  <2>6. OneResolver'
    <3> SUFFICES ASSUME MaxNotices = 1 PROVE OneResolver'
      BY DEF OneResolver
    <3>1. received[notice] = 1
      BY <2>1
    <3>2. fetch' = [fetch EXCEPT ![<<notice, 1>>] = "get"]
      BY <1>3, <3>1 DEF HandleOutput
    <3>3. promise[notice] = "empty"
      BY <1>3 DEF HandleOutput, OneResolver, TypeOK
    <3>4. \A m \in Nodes : m # notice => fetch'[<<m, 1>>] = fetch[<<m, 1>>]
      BY <3>2, <2>2, <3>1 DEF TypeOK, Fetches
    <3>5. QED
      BY <1>3, <3>1, <3>3, <3>4 DEF HandleOutput, OneResolver, nodeVars
  <2>7. QED
    BY <2>4, <2>5, <2>6
<1>4. QED
  BY <1>1, <1>2, <1>3 DEF HandlerStep

LEMMA FetchStepKeeps ==
  ASSUME IInv, NEW f \in Fetches, FetchStep(f)
  PROVE  IInv'
<1> USE DEF IInv
<1>1. CASE FetchFails(f)
  <2>1. TypeOK' /\ FinalizedIsEnd' /\ (status' = "completed" => status = "completed")
    BY <1>1, FailRunEffect DEF FetchFails, TypeOK, FetchState, nodeVars, noticeVars
  <2>2. DeliveredIsResolved' /\ HandlerHasNotice'
    BY <1>1, <2>1, DeliveryUnchanged DEF FetchFails, HandlerHasNotice, nodeVars, noticeVars
  <2>3. OneResolver'
    <3>1. \A g \in Fetches : fetch'[g] = "none" <=> fetch[g] = "none"
      BY <1>1 DEF FetchFails, TypeOK
    <3>2. \A g \in Fetches : fetch'[g] \in {"get", "value", "except"} =>
                               fetch[g] \in {"get", "value", "except"}
      BY <1>1 DEF FetchFails, TypeOK
    <3>3. QED
      BY <1>1, <3>1, <3>2 DEF FetchFails, OneResolver, Fetches, nodeVars, noticeVars
  <2>4. QED
    BY <2>1, <2>2, <2>3
<1>2. CASE Fetched(f)
  <2>1. TypeOK' /\ FinalizedIsEnd'
    BY <1>2, ForwardEffect
       DEF Fetched, TypeOK, FinalizedIsEnd, FetchState, nodeVars, noticeVars
  <2>2. status' = "completed" => status = "completed"
    BY <1>2 DEF Fetched, Executing
  <2>3. DeliveredIsResolved' /\ HandlerHasNotice'
    BY <1>2, <2>2, DeliveryUnchanged DEF Fetched, HandlerHasNotice, nodeVars, noticeVars
  <2>4. OneResolver'
    <3>1. \A g \in Fetches : fetch'[g] = "none" <=> fetch[g] = "none"
      BY <1>2 DEF Fetched, TypeOK
    <3>2. \A g \in Fetches : fetch'[g] \in {"get", "value", "except"} =>
                               fetch[g] \in {"get", "value", "except"}
      BY <1>2 DEF Fetched, TypeOK
    <3>3. QED
      BY <1>2, <3>1, <3>2 DEF Fetched, OneResolver, Fetches, nodeVars, noticeVars
  <2>5. QED
    BY <2>1, <2>3, <2>4
<1>3. CASE Resolve(f)
  <2>1. PICK n \in Nodes, k \in 1..MaxNotices : f = <<n, k>>
    BY DEF Fetches
  <2>2. /\ promise' \in [Nodes -> {"empty", "value", "error"}]
        /\ \A m \in Nodes : promise[m] # "empty" => promise'[m] = promise[m]
        /\ \A m \in Nodes : m # n => promise'[m] = promise[m]
    BY <1>3, <2>1 DEF Resolve, TypeOK
  <2>3. fetch' \in [Fetches -> FetchState] /\ crashed' \in BOOLEAN
    BY <1>3, <2>1 DEF Resolve, TypeOK, FetchState, AfterResolve
  <2>4. TypeOK' /\ FinalizedIsEnd'
    BY <1>3, <2>2, <2>3 DEF Resolve, TypeOK, FinalizedIsEnd, runVars, noticeVars
  <2>5. DeliveredIsResolved' /\ HandlerHasNotice'
    BY <1>3, <2>2
       DEF Resolve, DeliveredIsResolved, OutputReady, HandlerHasNotice, runVars, noticeVars
  <2>6. OneResolver'
    <3> SUFFICES ASSUME MaxNotices = 1 PROVE OneResolver'
      BY DEF OneResolver
    <3>1. k = 1 /\ f = <<n, 1>>
      BY <2>1
    <3>2. promise[n] = "empty" /\ received[n] # 0 /\ ~(handler \in {"ok", "error"} /\ notice = n)
      BY <1>3, <3>1 DEF Resolve, OneResolver
    <3>3. fetch' = [fetch EXCEPT ![<<n, 1>>] = "done"] /\ UNCHANGED crashed
      BY <1>3, <3>1, <3>2 DEF Resolve, AfterResolve
    <3>4. /\ fetch'[<<n, 1>>] = "done"
          /\ \A m \in Nodes : m # n => fetch'[<<m, 1>>] = fetch[<<m, 1>>]
      BY <3>3, <3>1 DEF TypeOK, Fetches
    <3>5. QED
      BY <1>3, <2>2, <3>2, <3>3, <3>4 DEF Resolve, OneResolver, noticeVars
  <2>7. QED
    BY <2>4, <2>5, <2>6
<1>4. QED
  BY <1>1, <1>2, <1>3 DEF FetchStep

LEMMA EndStepKeeps ==
  ASSUME IInv, CompletionStep \/ LocalFails
  PROVE  IInv'
<1> USE DEF IInv
<1>1. HandlerHasNotice' /\ OneResolver'
  BY NoticesUnchanged
     DEF CompletionStep, OnTaskComplete, Complete, CompleteFails, LocalFails, nodeVars
<1>2. CASE OnTaskComplete
  <2>1. TypeOK' /\ FinalizedIsEnd'
    BY <1>2 DEF OnTaskComplete, TypeOK, FinalizedIsEnd, runVars, nodeVars, noticeVars
  <2>2. DeliveredIsResolved'
    BY <1>2 DEF OnTaskComplete, DeliveredIsResolved, OutputReady, runVars, nodeVars
  <2>3. QED
    BY <1>1, <2>1, <2>2
<1>3. CASE Complete
  <2>1. TypeOK' /\ FinalizedIsEnd'
    BY <1>3 DEF Complete, TypeOK, FinalizedIsEnd, GraphStatus, Terminal, nodeVars, noticeVars
  <2>2. DeliveredIsResolved'
    BY <1>3 DEF Complete, DeliveredIsResolved, OutputReady, nodeVars
  <2>3. QED
    BY <1>1, <2>1, <2>2
<1>4. CASE CompleteFails \/ LocalFails
  <2>1. TypeOK' /\ FinalizedIsEnd' /\ (status' = "completed" => status = "completed")
    BY <1>4, FailRunEffect DEF CompleteFails, LocalFails, TypeOK, nodeVars, noticeVars
  <2>2. DeliveredIsResolved'
    BY <1>4, <2>1
       DEF CompleteFails, LocalFails, DeliveredIsResolved, OutputReady, nodeVars
  <2>3. QED
    BY <1>1, <2>1, <2>2
<1>5. QED
  BY <1>2, <1>3, <1>4 DEF CompletionStep

LEMMA StepIInv == IInv /\ [Next]_vars => IInv'
<1> SUFFICES ASSUME IInv, [Next]_vars PROVE IInv'
  OBVIOUS
<1>1. CASE UNCHANGED vars
  BY <1>1 DEF vars, IInv, TypeOK, FinalizedIsEnd, DeliveredIsResolved, OutputReady,
              HandlerHasNotice, OneResolver
<1>2. CASE Next
  BY <1>2, StartStep, ProxyStepKeeps, NotifyKeeps, HandlerStepKeeps, FetchStepKeeps,
     EndStepKeeps DEF Next
<1>3. QED
  BY <1>1, <1>2

LEMMA SpecIInv == Spec => []IInv
BY InitIInv, StepIInv, PTL DEF Spec

-----------------------------------------------------------------------------
(* The results *)

\* Whatever the threads of a run do, and however many notices come, its variables keep
\* their types.
THEOREM RunTypes == Spec => []TypeOK
<1>1. IInv => TypeOK
  BY DEF IInv
<1>2. QED
  BY SpecIInv, <1>1, PTL

\* A run that the sidecar reports completed has the remote result of every node its
\* output depends on, whatever failed and was overturned on the way.
THEOREM RunCompletesWithInputs == Spec => []CompletedHasItsInputs
<1>1. IInv => CompletedHasItsInputs
  BY ConstantsAssumption
     DEF IInv, DeliveredIsResolved, OutputReady, CompletedHasItsInputs
<1>2. QED
  BY SpecIInv, <1>1, PTL

\* As long as the control plane notifies each node once, no detached fetch thread
\* resolves a promise that has been resolved, which would end the sidecar's process.
THEOREM RunResolvesOnce == Spec => []PromiseResolvedOnce
<1>1. IInv => PromiseResolvedOnce
  BY DEF IInv, OneResolver, PromiseResolvedOnce
<1>2. QED
  BY SpecIInv, <1>1, PTL

\* An outcome is overturned only in the two windows that the code leaves open: an
\* upload begun before a failure, a notice checked before the completion.
THEOREM RunOutcomeWindows == Spec => OutcomeChangesOnlyInWindow
<1> DEFINE Window ==
      /\ status = "failed" /\ completion # "uploading" => status' = "failed"
      /\ status = "failed" /\ completion = "idle" => completion' # "uploading"
      /\ status = "completed" /\ handler # "error" => status' = "completed"
<1>1. IInv /\ [Next]_vars => [Window]_vars
  <2> SUFFICES ASSUME IInv, Next PROVE Window
    OBVIOUS
  <2> USE DEF IInv, Terminal
  <2>1. CASE Start
    BY <2>1 DEF Start, runVars
  <2>2. CASE StartFails
    BY <2>2, FailRunEffect DEF StartFails
  <2>3. ASSUME NEW n \in Nodes, ProxyStep(n) PROVE Window
    BY <2>3, FailRunEffect DEF ProxyStep, Wait, StatusOnWaiting, Wake, ProxyFails, runVars
  <2>4. ASSUME NEW n \in Nodes, NEW kind \in NoticeKinds, Notify(n, kind) PROVE Window
    BY <2>4 DEF Notify, runVars
  <2>5. CASE HandlerStep
    BY <2>5 DEF HandlerStep, HandleError, HandleNoUrl, HandleOutput, runVars
  <2>6. ASSUME NEW f \in Fetches, FetchStep(f) PROVE Window
    BY <2>6, FailRunEffect DEF FetchStep, FetchFails, Fetched, Executing, Resolve, runVars
  <2>7. CASE CompletionStep
    BY <2>7, FailRunEffect
       DEF CompletionStep, OnTaskComplete, Complete, CompleteFails, FinalizedIsEnd, runVars
  <2>8. CASE LocalFails
    BY <2>8, FailRunEffect DEF LocalFails
  <2>9. QED
    BY <2>1, <2>2, <2>3, <2>4, <2>5, <2>6, <2>7, <2>8 DEF Next
<1>2. QED
  BY SpecIInv, <1>1, PTL DEF Spec, OutcomeChangesOnlyInWindow

\* The run implements the status specification that the control plane's lifecycle is
\* built on: each of its steps moves the status forward, ends the run, overturns an
\* end, or leaves the status alone.
THEOREM RunImplementsStatus == Spec => StatusSpec
<1>1. Init => RS!Init
  BY DEF Init, RS!Init
<1>2. IInv /\ [Next]_vars => [RS!Next]_status
  <2> SUFFICES ASSUME IInv, [Next]_vars PROVE RS!Next \/ UNCHANGED status
    OBVIOUS
  <2> USE DEF IInv, RS!Next, RS!Waits, RS!Executes, RS!Ends, RS!Overturned, RS!Live,
              RS!Outcomes
  <2>1. FailRun => RS!Next \/ UNCHANGED status
    BY FailRunEffect DEF TypeOK, GraphStatus, Terminal
  <2>2. CASE Start \/ UNCHANGED vars
    BY <2>2 DEF Start, vars, runVars
  <2>3. CASE StartFails \/ LocalFails
    BY <2>1, <2>3 DEF StartFails, LocalFails
  <2>4. ASSUME NEW n \in Nodes, ProxyStep(n) PROVE RS!Next \/ UNCHANGED status
    BY <2>1, <2>4 DEF ProxyStep, Wait, StatusOnWaiting, Wake, ProxyFails, runVars
  <2>5. ASSUME NEW n \in Nodes, NEW kind \in NoticeKinds, Notify(n, kind)
        PROVE  RS!Next \/ UNCHANGED status
    BY <2>5 DEF Notify, runVars
  <2>6. CASE HandlerStep
    BY <2>6 DEF HandlerStep, HandleError, HandleNoUrl, HandleOutput, runVars, TypeOK,
                GraphStatus, Terminal
  <2>7. ASSUME NEW f \in Fetches, FetchStep(f) PROVE RS!Next \/ UNCHANGED status
    BY <2>1, <2>7 DEF FetchStep, FetchFails, Fetched, Executing, Resolve, runVars
  <2>8. CASE CompletionStep
    BY <2>1, <2>8
       DEF CompletionStep, OnTaskComplete, Complete, CompleteFails, runVars, TypeOK,
           GraphStatus, Terminal
  <2>9. QED
    BY <2>2, <2>3, <2>4, <2>5, <2>6, <2>7, <2>8 DEF Next
<1>3. QED
  BY SpecIInv, <1>1, <1>2, PTL DEF Spec, StatusSpec, RS!Spec

=============================================================================
