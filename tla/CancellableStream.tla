------------------------- MODULE CancellableStream -------------------------
(***************************************************************************)
(* What cancellable_streambuf promises about cancel(), stated without the *)
(* io_context's queue and the socket operations: the private io_context *)
(* is driven by at most one thread at a time (the user thread inside      *)
(* run_io_ctx, or the cancelling thread holding mutex_io_ctx_); cancel()   *)
(* closes the socket either at once, when nobody drives the io_context,   *)
(* or through a close that the driving thread runs; and when cancel()     *)
(* returns the socket is closed.  connect() reopens the socket outside    *)
(* the mutex, so reopening is allowed at any time.                         *)
(***************************************************************************)
VARIABLES
    holder,  \* who drives the io_context: "none", "user" or "canceller"
    cstate,  \* the cancel() call: "idle", "cancelling" or "done"
    open     \* the socket is open

vars == <<holder, cstate, open>>

Init ==
    /\ holder = "none"
    /\ cstate = "idle"
    /\ open \in BOOLEAN

(* The user thread enters run_io_ctx.                                      *)
UserEnter ==
    /\ holder = "none"
    /\ holder' = "user"
    /\ UNCHANGED <<cstate, open>>

(* The user thread leaves run_io_ctx without running the close.           *)
UserLeave ==
    /\ holder = "user"
    /\ holder' = "none"
    /\ UNCHANGED <<cstate, open>>

(* connect(): close and reopen the socket by async_connect.               *)
Reopen ==
    /\ open' = TRUE
    /\ UNCHANGED <<holder, cstate>>

(* cancel() when nobody drives the io_context: close here and return.      *)
CloseNow ==
    /\ cstate = "idle"
    /\ holder = "none"
    /\ cstate' = "done"
    /\ open' = FALSE
    /\ UNCHANGED holder

(* cancel() while the io_context is driven: hand the close to the driver. *)
Post ==
    /\ cstate = "idle"
    /\ holder # "none"
    /\ cstate' = "cancelling"
    /\ UNCHANGED <<holder, open>>

(* The driving user thread runs the handed-over close and leaves           *)
(* run_io_ctx; the close may also run late, after cancel() returned.       *)
RunClose ==
    /\ holder = "user"
    /\ cstate # "idle"
    /\ open' = FALSE
    /\ holder' = "none"
    /\ UNCHANGED cstate

(* cancel() waits until nobody drives the io_context and takes it.         *)
CancelEnter ==
    /\ cstate = "cancelling"
    /\ holder = "none"
    /\ holder' = "canceller"
    /\ UNCHANGED <<cstate, open>>

(* cancel() makes sure the socket is closed, lets go and returns.          *)
CancelFinish ==
    /\ holder = "canceller"
    /\ holder' = "none"
    /\ cstate' = "done"
    /\ open' = FALSE

Next ==
    \/ UserEnter \/ UserLeave \/ Reopen
    \/ CloseNow \/ Post \/ RunClose \/ CancelEnter \/ CancelFinish

(* cancel() finishes once it can take the io_context.                      *)
Spec == Init /\ [][Next]_vars /\ WF_vars(CancelEnter) /\ WF_vars(CancelFinish)
=============================================================================
