---------------------- MODULE CancellableStreambufSpin ----------------------
(***************************************************************************)
(* cancellable_streambuf, the version guarded by the spinlock running_    *)
(* (second part of src/src/cancellable_streambuf.cpp).  As in             *)
(* CancellableStreambuf, the user thread's recv/overflow initiate one      *)
(* socket operation and pulse the io_context in run_io_ctx, another        *)
(* thread calls cancel() once, and the peer completes, fails or stays      *)
(* silent.  connect() and close_if_open are the header's, modelled there.  *)
(*                                                                         *)
(* Here close_if_open, when run as the posted handler, is two steps:       *)
(* cancelled_ = true, then shutdown and close; the cancelling thread's     *)
(* spin-wait reads cancelled_ in between.                                  *)
(***************************************************************************)
EXTENDS Naturals, Sequences

CONSTANTS
    Ops,      \* the blocking operations the user thread may call
    MaxOps,   \* bound on the number of operations
    InitOpen, \* whether the stream starts connected
    None

ASSUME Ops \subseteq {"recv", "send"} /\ InitOpen \subseteq BOOLEAN

VARIABLES
    upc,        \* the user thread's program counter
    op,         \* the operation it is in
    opId,       \* its sequence number
    runResult,  \* the value run_io_ctx returned
    running,    \* running_
    sockOpen,   \* socket().is_open()
    pending,    \* the outstanding socket operation: None or an opId
    queue,      \* ready handlers: [k : {"io", "close"}, id, ok : BOOLEAN]
    cancelled,  \* cancelled_
    ecOk,       \* ec_ holds success
    kpc         \* the cancelling thread's program counter

vars == <<upc, op, opId, runResult, running, sockOpen, pending, queue,
          cancelled, ecOk, kpc>>

Init ==
    /\ upc = "idle" /\ op = None /\ opId = 0 /\ runResult = TRUE
    /\ running = FALSE
    /\ sockOpen \in InitOpen
    /\ pending = None /\ queue = <<>>
    /\ cancelled = FALSE /\ ecOk = TRUE
    /\ kpc = "idle"
-----------------------------------------------------------------------------
(* shutdown and close: an outstanding operation completes with            *)
(* operation_aborted; close(ec_) leaves success in ec_.                    *)
ShutdownClose ==
    /\ sockOpen' = FALSE
    /\ pending' = None
    /\ ecOk' = TRUE
    /\ queue' = IF pending = None THEN queue
                ELSE Append(queue, [k |-> "io", id |-> pending, ok |-> FALSE])

(* recv (async_receive_all) and overflow (async_write) initiate their     *)
(* operation; on a closed socket the handler is queued at once.           *)
StartOp(o) ==
    /\ upc = "idle"
    /\ opId < MaxOps
    /\ op' = o
    /\ opId' = opId + 1
    /\ upc' = "lock"
    /\ IF sockOpen
       THEN /\ pending' = opId + 1
            /\ UNCHANGED queue
       ELSE /\ queue' = Append(queue, [k |-> "io", id |-> opId + 1, ok |-> FALSE])
            /\ UNCHANGED pending
    /\ UNCHANGED <<runResult, running, sockOpen, cancelled, ecOk, kpc>>

(* run_io_ctx returns: running_ = false, !cancelled_ && !ec_.             *)
Leave(result) ==
    /\ upc' = "ret"
    /\ runResult' = result
    /\ running' = FALSE

(* try_wait_for_runnable_state: take running_ when it is free; while it   *)
(* is held, give up (run_io_ctx returns false) once cancelled_ is set.   *)
TryWait ==
    /\ upc = "lock"
    /\ \/ /\ ~running
          /\ running' = TRUE
          /\ ecOk' = TRUE
          /\ upc' = "run"
          /\ UNCHANGED runResult
       \/ /\ running /\ cancelled
          /\ upc' = "ret"
          /\ runResult' = FALSE
          /\ UNCHANGED <<running, ecOk>>
    /\ UNCHANGED <<op, opId, sockOpen, pending, queue, cancelled, kpc>>

(* One turn of run_io_ctx's loop: break if cancelled_, else run_one():    *)
(* nothing left to do breaks, a completion sets ec_ (breaking on an       *)
(* error), the posted close_if_open sets cancelled_ and goes on to close. *)
RunStep ==
    /\ upc = "run"
    /\ \/ /\ cancelled
          /\ Leave(FALSE)
          /\ UNCHANGED <<queue, ecOk, cancelled>>
       \/ /\ ~cancelled /\ queue = <<>> /\ pending = None
          /\ Leave(ecOk)
          /\ UNCHANGED <<queue, ecOk, cancelled>>
       \/ /\ ~cancelled /\ queue # <<>> /\ Head(queue).k = "io"
          /\ ecOk' = Head(queue).ok
          /\ queue' = Tail(queue)
          /\ IF Head(queue).ok THEN UNCHANGED <<upc, runResult, running>>
             ELSE Leave(FALSE)
          /\ UNCHANGED cancelled
       \/ /\ ~cancelled /\ queue # <<>> /\ Head(queue).k = "close"
          /\ cancelled' = TRUE
          /\ queue' = Tail(queue)
          /\ upc' = "closing"
          /\ UNCHANGED <<runResult, running, ecOk>>
    /\ UNCHANGED <<op, opId, sockOpen, pending, kpc>>

(* The rest of the posted close_if_open on the user thread.               *)
CloseRest ==
    /\ upc = "closing"
    /\ ShutdownClose
    /\ upc' = "run"
    /\ UNCHANGED <<op, opId, runResult, running, cancelled, kpc>>

(* recv returns run_io_ctx's result; overflow tests ec_.                  *)
Return ==
    /\ upc = "ret"
    /\ upc' = "idle"
    /\ UNCHANGED <<op, opId, runResult, running, sockOpen, pending, queue,
                   cancelled, ecOk, kpc>>
-----------------------------------------------------------------------------
(* cancel(): if running_.exchange(true) finds it free, close here and     *)
(* store running_ = false; otherwise post close_if_open and spin-wait.    *)
CancelStart ==
    /\ kpc = "idle"
    /\ IF ~running
       THEN /\ cancelled' = TRUE
            /\ ShutdownClose
            /\ kpc' = "done"
       ELSE /\ queue' = Append(queue, [k |-> "close", id |-> 0, ok |-> TRUE])
            /\ kpc' = "wait"
            /\ UNCHANGED <<sockOpen, pending, cancelled, ecOk>>
    /\ UNCHANGED <<upc, op, opId, runResult, running>>

(* try_wait_for_runnable_state in cancel(): take running_ when free, or   *)
(* return without it once cancelled_ is set.                              *)
CancelWait ==
    /\ kpc = "wait"
    /\ \/ ~running /\ running' = TRUE
       \/ running /\ cancelled /\ UNCHANGED running
    /\ kpc' = "check"
    /\ UNCHANGED <<upc, op, opId, runResult, sockOpen, pending, queue,
                   cancelled, ecOk>>

(* The double check, then running_ = false whoever holds it.              *)
CancelCheck ==
    /\ kpc = "check"
    /\ IF sockOpen THEN cancelled' = TRUE /\ ShutdownClose
       ELSE UNCHANGED <<sockOpen, pending, queue, cancelled, ecOk>>
    /\ running' = FALSE
    /\ kpc' = "done"
    /\ UNCHANGED <<upc, op, opId, runResult>>

(* The peer completes or fails the outstanding operation.                 *)
Complete(ok) ==
    /\ pending # None
    /\ queue' = Append(queue, [k |-> "io", id |-> pending, ok |-> ok])
    /\ pending' = None
    /\ UNCHANGED <<upc, op, opId, runResult, running, sockOpen, cancelled,
                   ecOk, kpc>>

Next ==
    \/ \E o \in Ops : StartOp(o)
    \/ TryWait \/ RunStep \/ CloseRest \/ Return
    \/ CancelStart \/ CancelWait \/ CancelCheck
    \/ \E ok \in BOOLEAN : Complete(ok)

Spec == Init /\ [][Next]_vars
-----------------------------------------------------------------------------
(* As for the mutex version: cancel() never closes the socket on its own  *)
(* thread while the user thread is inside run_io_ctx.  About the spin-wait *)
(* returning on cancelled_ and the double check that follows it.          *)
CloseOnlyWhenNotRunning ==
    [][kpc' # kpc /\ sockOpen /\ ~sockOpen' => upc \notin {"run", "closing"}]_vars
=============================================================================
