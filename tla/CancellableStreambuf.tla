------------------------- MODULE CancellableStreambuf -------------------------
(***************************************************************************)
(* cancellable_streambuf, the version guarded by mutex_io_ctx_            *)
(* (src/src/cancellable_streambuf.h and the first part of                  *)
(* cancellable_streambuf.cpp).  The user thread performs blocking          *)
(* operations (connect, recv behind underflow/xsgetn, overflow behind      *)
(* sync): each initiates one asynchronous operation on the socket and then *)
(* pulses the private io_context in run_io_ctx.  Another thread calls      *)
(* cancel() once.  The peer completes an outstanding operation, fails it,  *)
(* or stays silent.                                                        *)
(*                                                                         *)
(* The io_context's ready handlers are a FIFO queue: the completion of the *)
(* socket operation and the close_if_open lambda that cancel() posts.      *)
(***************************************************************************)
EXTENDS Naturals, Sequences

CONSTANTS
    Ops,     \* the blocking operations the user thread may call
    MaxOps,  \* bound on the number of operations
    InitOpen, \* whether the stream starts connected (the socket is open)
    None

ASSUME Ops \subseteq {"connect", "recv", "send"} /\ InitOpen \subseteq BOOLEAN

VARIABLES
    upc,        \* the user thread's program counter
    op,         \* the operation it is in
    opId,       \* its sequence number
    runResult,  \* the value run_io_ctx returned
    lock,       \* owner of mutex_io_ctx_: None, "user" or "canceller"
    sockOpen,   \* socket().is_open()
    connected,  \* the open socket is connected (a failed connect leaves it open)
    pending,    \* the outstanding socket operation: None or an opId
    queue,      \* ready handlers: [k : {"io", "close"}, id, ok : BOOLEAN]
    cancelled,  \* cancelled_
    ecOk,       \* ec_ holds success
    kpc,        \* the cancelling thread's program counter
    completed,  \* history: the current operation's I/O completed
    claims      \* history: [op, success, completed] of returned operations

vars == <<upc, op, opId, runResult, lock, sockOpen, connected, pending, queue, cancelled,
          ecOk, kpc, completed, claims>>

userVars == <<upc, op, opId, runResult, completed, claims>>

(* A connected stream before its first read or write, or an unconnected   *)
(* one before connect().                                                   *)
Init ==
    /\ upc = "idle"
    /\ op = None
    /\ opId = 0
    /\ runResult = TRUE
    /\ lock = None
    /\ sockOpen \in InitOpen
    /\ connected = sockOpen
    /\ pending = None
    /\ queue = <<>>
    /\ cancelled = FALSE
    /\ ecOk = TRUE
    /\ kpc = "idle"
    /\ completed = FALSE
    /\ claims = {}

-----------------------------------------------------------------------------
(* close_if_open: cancelled_ = true, shutdown and close the socket (which *)
(* completes an outstanding operation with operation_aborted), and ec_ is  *)
(* overwritten by the result of close(), i.e. success.                     *)
CloseIfOpen(q) ==
    /\ cancelled' = TRUE
    /\ sockOpen' = FALSE
    /\ connected' = FALSE
    /\ pending' = None
    /\ ecOk' = TRUE
    /\ queue' = IF pending = None THEN q
                ELSE Append(q, [k |-> "io", id |-> pending, ok |-> FALSE])

(* Initiating an asynchronous operation: on a closed socket asio queues    *)
(* its handler at once with bad_descriptor, on an open unconnected one     *)
(* with not_connected.                                                     *)
Initiate(id) ==
    IF sockOpen /\ connected
    THEN /\ pending' = id
         /\ UNCHANGED queue
    ELSE /\ queue' = Append(queue, [k |-> "io", id |-> id, ok |-> FALSE])
         /\ UNCHANGED pending
-----------------------------------------------------------------------------
(* The user thread calls an operation.  recv (async_receive or             *)
(* async_receive_all) and overflow (async_write of the put area) initiate  *)
(* their operation before run_io_ctx takes the mutex; connect first tests  *)
(* cancelled_.                                                             *)
StartOp(o) ==
    /\ upc = "idle"
    /\ opId < MaxOps
    /\ op' = o
    /\ opId' = opId + 1
    /\ completed' = FALSE
    /\ IF o = "connect"
       THEN /\ upc' = "c_check"
            /\ UNCHANGED <<pending, queue>>
       ELSE /\ upc' = "lock"
            /\ Initiate(opId + 1)
    /\ UNCHANGED <<runResult, lock, sockOpen, connected, cancelled, ecOk, kpc, claims>>

(* connect: throw logic_error if cancelled_, else go on.                   *)
ConnectCheck ==
    /\ upc = "c_check"
    /\ IF cancelled
       THEN /\ upc' = "idle"
            /\ claims' = claims \cup {[op |-> op, success |-> FALSE, completed |-> completed]}
       ELSE /\ upc' = "c_init"
            /\ UNCHANGED claims
    /\ UNCHANGED <<op, opId, runResult, lock, sockOpen, connected, pending, queue, cancelled,
                   ecOk, kpc, completed>>

(* connect: init_buffers, socket().close(ec_), async_connect, which opens  *)
(* the socket again when it is closed.                                     *)
ConnectInit ==
    /\ upc = "c_init"
    /\ ecOk' = TRUE
    /\ sockOpen' = TRUE
    /\ connected' = FALSE
    /\ pending' = opId
    /\ upc' = "lock"
    /\ UNCHANGED <<op, opId, runResult, lock, queue, cancelled, kpc, completed,
                   claims>>

(* run_io_ctx: take mutex_io_ctx_, reset ec_, restart the io_context.     *)
Lock ==
    /\ upc = "lock"
    /\ lock = None
    /\ lock' = "user"
    /\ ecOk' = TRUE
    /\ upc' = "run"
    /\ UNCHANGED <<op, opId, runResult, sockOpen, connected, pending, queue, cancelled, kpc,
                   completed, claims>>

(* run_io_ctx returns and releases the mutex.                              *)
Leave(result) ==
    /\ upc' = "ret"
    /\ runResult' = result
    /\ lock' = None

(* One run_one() of the loop in run_io_ctx: run the oldest ready handler,  *)
(* then return false if cancelled_ or ec_; with nothing ready and no       *)
(* operation outstanding run_one() returns 0 and run_io_ctx returns true;  *)
(* with an operation outstanding it blocks.                                *)
RunOne ==
    /\ upc = "run"
    /\ \/ /\ queue = <<>>
          /\ pending = None
          /\ Leave(TRUE)
          /\ UNCHANGED <<sockOpen, connected, pending, queue, cancelled, ecOk, completed>>
       \/ /\ queue # <<>>
          /\ Head(queue).k = "io"
          /\ LET h == Head(queue) IN
             /\ ecOk' = h.ok
             /\ completed' = IF h.id = opId THEN h.ok ELSE completed
             /\ queue' = Tail(queue)
             /\ IF cancelled \/ ~h.ok THEN Leave(FALSE)
                ELSE UNCHANGED <<upc, runResult, lock>>
          /\ UNCHANGED <<sockOpen, connected, pending, cancelled>>
       \/ /\ queue # <<>>
          /\ Head(queue).k = "close"
          /\ CloseIfOpen(Tail(queue))
          /\ Leave(FALSE)
          /\ UNCHANGED completed
    /\ UNCHANGED <<op, opId, kpc, claims>>

(* Mutant: recv that tests ec_ like overflow instead of run_io_ctx's      *)
(* result.                                                                 *)
ReturnTestingEc ==
    /\ upc = "ret"
    /\ claims' = claims \cup {[op |-> op, success |-> ecOk, completed |-> completed]}
    /\ upc' = "idle"
    /\ UNCHANGED <<op, opId, runResult, lock, sockOpen, connected, pending, queue, cancelled,
                   ecOk, kpc, completed>>

(* The operation returns: recv reports run_io_ctx's result (eof when       *)
(* false); overflow and connect report !ec_, read after the mutex is      *)
(* released.                                                               *)
Return ==
    /\ upc = "ret"
    /\ LET success == IF op = "recv" THEN runResult ELSE ecOk
       IN claims' = claims \cup {[op |-> op, success |-> success, completed |-> completed]}
    /\ upc' = "idle"
    /\ UNCHANGED <<op, opId, runResult, lock, sockOpen, connected, pending, queue, cancelled,
                   ecOk, kpc, completed>>

-----------------------------------------------------------------------------
(* Mutant: cancel() that waits for the mutex without posting the close.   *)
CancelStartNoPost ==
    /\ kpc = "idle"
    /\ IF lock = None
       THEN /\ CloseIfOpen(queue)
            /\ kpc' = "done"
       ELSE /\ kpc' = "wait"
            /\ UNCHANGED <<sockOpen, connected, pending, queue, cancelled, ecOk>>
    /\ UNCHANGED <<lock, userVars>>

(* cancel(): if try_lock succeeds no io_context runs, so close here and    *)
(* unlock; otherwise post close_if_open to the io_context and wait for     *)
(* the mutex.                                                              *)
CancelStart ==
    /\ kpc = "idle"
    /\ IF lock = None
       THEN /\ CloseIfOpen(queue)
            /\ kpc' = "done"
       ELSE /\ queue' = Append(queue, [k |-> "close", id |-> 0, ok |-> TRUE])
            /\ kpc' = "wait"
            /\ UNCHANGED <<sockOpen, connected, pending, cancelled, ecOk>>
    /\ UNCHANGED <<lock, userVars>>

CancelLock ==
    /\ kpc = "wait"
    /\ lock = None
    /\ lock' = "canceller"
    /\ kpc' = "check"
    /\ UNCHANGED <<sockOpen, connected, pending, queue, cancelled, ecOk, userVars>>

(* The double check: the posted close may have come after run_io_ctx       *)
(* finished, so close the socket here if it is still open.                 *)
(* Mutant: cancel() without the double check after lock.lock().           *)
CancelCheckNoRecheck ==
    /\ kpc = "check"
    /\ UNCHANGED <<sockOpen, connected, pending, queue, cancelled, ecOk>>
    /\ lock' = None
    /\ kpc' = "done"
    /\ UNCHANGED userVars

CancelCheck ==
    /\ kpc = "check"
    /\ IF sockOpen THEN CloseIfOpen(queue)
       ELSE UNCHANGED <<sockOpen, connected, pending, queue, cancelled, ecOk>>
    /\ lock' = None
    /\ kpc' = "done"
    /\ UNCHANGED userVars

-----------------------------------------------------------------------------
(* The peer: the outstanding operation completes (data arrives, the write  *)
(* drains, the connection is accepted) or fails (reset, refused).          *)
Complete(ok) ==
    /\ pending # None
    /\ queue' = Append(queue, [k |-> "io", id |-> pending, ok |-> ok])
    /\ pending' = None
    /\ connected' = IF op = "connect" THEN ok ELSE connected /\ ok
    /\ UNCHANGED <<lock, sockOpen, cancelled, ecOk, kpc, userVars>>

(* An outstanding async_connect ends: the OS gives up on an unanswered    *)
(* connection attempt (TCP connect timeout), so the peer's answer to a     *)
(* connect, unlike data on an open connection, always comes.               *)
ConnectEnds ==
    /\ op = "connect"
    /\ pending = opId
    /\ \E ok \in BOOLEAN : Complete(ok)

Next ==
    \/ \E o \in Ops : StartOp(o)
    \/ ConnectCheck \/ ConnectInit \/ Lock \/ RunOne \/ Return
    \/ CancelStart \/ CancelLock \/ CancelCheck
    \/ \E ok \in BOOLEAN : Complete(ok)

(* Both threads progress once inside a call; the mutex is granted to a    *)
(* waiting thread when free; a connect attempt ends.  Whether and when the *)
(* user calls, cancel() is called, or the peer sends or reads data is not  *)
(* assumed.                                                                *)
Spec == Init /\ [][Next]_vars
        /\ WF_vars(ConnectCheck) /\ WF_vars(ConnectInit) /\ WF_vars(Lock)
        /\ WF_vars(ConnectEnds)
        /\ WF_vars(RunOne) /\ WF_vars(Return)
        /\ WF_vars(CancelLock) /\ WF_vars(CancelCheck)

-----------------------------------------------------------------------------
(* A recv (underflow, xsgetn) that does not return eof has received data:  *)
(* about recv trusting run_io_ctx's result when a cancel races with it.   *)
ReadSuccessMeansData ==
    \A c \in claims : c.op = "recv" /\ c.success => c.completed

(* An overflow/sync or connect that reports success has written the data   *)
(* or made the connection (cancellable_streambuf.h: all blocking           *)
(* operations fail after a cancel()): about their test of ec_ after        *)
(* run_io_ctx.                                                             *)
WriteSuccessMeansSent ==
    \A c \in claims : c.op \in {"send", "connect"} /\ c.success => c.completed

(* Once cancel() has returned, the blocked operation returns even if the   *)
(* peer never answers (spec 4.4: cancel() reliably aborts any in-progress  *)
(* read or write).                                                         *)
CancelUnblocks ==
    kpc = "done" ~> upc = "idle"

(* cancel() itself returns: the posted close wakes run_io_ctx, which then *)
(* releases the mutex that cancel() waits for.                            *)
CancelReturns ==
    kpc = "wait" ~> kpc = "done"

-----------------------------------------------------------------------------
(* Refinement mapping onto CancellableStream: the owner of mutex_io_ctx_   *)
(* drives the io_context, and cancel() is cancelling while it waits for    *)
(* or holds the mutex.                                                     *)
Abstract == INSTANCE CancellableStream WITH
    holder <- IF lock = None THEN "none" ELSE lock,
    cstate <- CASE kpc = "idle" -> "idle"
                [] kpc \in {"wait", "check"} -> "cancelling"
                [] kpc = "done" -> "done",
    open <- sockOpen

(* The mutex version implements the abstract cancellable stream: cancel()  *)
(* closes the socket only when the io_context is idle or through its       *)
(* driver, returns only with the socket closed (the double check after     *)
(* lock.lock() covers a posted close left unrun), and returns once the     *)
(* mutex is free.                                                          *)
ImplementsCancellableStream == Abstract!Spec
====
