------------------------------ MODULE Resolver ------------------------------
(***************************************************************************)
(* resolver_impl (src/src/resolver_impl.cpp): the application thread that  *)
(* calls resolve_oneshot, resolve_continuous and finally the destructor,   *)
(* another thread that calls cancel() (the cancellable registry, or a      *)
(* user), and the background thread that runs a continuous attempt.       *)
(*                                                                         *)
(* An attempt is abstracted to what the resolver sees of it, as module     *)
(* ResolveAttempt shows it behaves: whether its io_context still has       *)
(* outstanding operations (`work`), the do_cancel lambdas posted to it,    *)
(* and whether some thread is inside its io_.run().  Every queued handler  *)
(* and outstanding operation holds shared_from_this() of the attempt.      *)
(***************************************************************************)
EXTENDS Naturals

CONSTANTS
    MaxCalls,    \* bound on resolve_oneshot / resolve_continuous calls
    MaxCancels,  \* bound on cancel() calls of the other thread
    None

Attempts == 1..MaxCalls

VARIABLES
    caller,     \* program counter of the application thread
    calls,      \* resolve calls made so far
    cancelled,  \* resolver_impl::cancelled_
    current,    \* current_resolve: an attempt or None
    bg,         \* background_io_: None, or the attempt its thread runs
    bgDone,     \* the background thread's io_.run() has returned
    made,       \* attempts created so far
    amode,      \* [Attempts -> {"oneshot", "continuous"}]
    work,       \* [Attempts -> BOOLEAN]: receive/timer chains outstanding
    posted,     \* [Attempts -> Nat]: do_cancel lambdas queued in io_
    runner,     \* [Attempts -> {"none", "caller", "bg"}]: inside io_.run()
    canceller,  \* program counter of the cancelling thread
    cancels,    \* cancel() calls of the other thread so far
    sentLate,   \* history: attempts that sent queries after cancelled_
    bounded     \* [Attempts -> BOOLEAN]: cancel_after < FOREVER

vars == <<caller, calls, cancelled, current, bg, bgDone, made, amode, work,
          posted, runner, canceller, cancels, sentLate, bounded>>

Init ==
    /\ caller = "idle"
    /\ calls = 0
    /\ cancelled = FALSE
    /\ current = None
    /\ bg = None
    /\ bgDone = FALSE
    /\ made = 0
    /\ amode = [a \in Attempts |-> "oneshot"]
    /\ work = [a \in Attempts |-> FALSE]
    /\ posted = [a \in Attempts |-> 0]
    /\ runner = [a \in Attempts |-> "none"]
    /\ canceller = "idle"
    /\ cancels = 0
    /\ sentLate = {}
    /\ bounded = [a \in Attempts |-> FALSE]

-----------------------------------------------------------------------------
(* resolve_attempt::cancel: post do_cancel (holding shared_this) onto the  *)
(* attempt's io_context, whether or not anyone still runs it.              *)
PostCancel(a) ==
    IF a = None THEN UNCHANGED posted
    ELSE posted' = [posted EXCEPT ![a] = @ + 1]

(* resolve_oneshot / resolve_continuous: refuse when background_io_ is set *)
(* (the call throws), otherwise create the attempt and make it current.    *)
(* The oneshot's check_query and create_attempt are one step: no other     *)
(* thread looks at anything in between.  The oneshot's timeout is finite  *)
(* or FOREVER (its default); resolve_continuous passes none, so FOREVER.   *)
StartOneshot(finite) ==
    /\ caller = "idle"
    /\ calls < MaxCalls
    /\ calls' = calls + 1
    /\ IF bg # None
       THEN /\ caller' = "idle"
            /\ UNCHANGED <<current, made, amode, bounded>>
       ELSE /\ made' = made + 1
            /\ amode' = [amode EXCEPT ![made + 1] = "oneshot"]
            /\ bounded' = [bounded EXCEPT ![made + 1] = finite]
            /\ current' = made + 1
            /\ caller' = "o_setup"
    /\ UNCHANGED <<cancelled, bg, bgDone, work, posted, runner, canceller,
                   cancels, sentLate>>

StartContinuous ==
    /\ caller = "idle"
    /\ calls < MaxCalls
    /\ calls' = calls + 1
    /\ IF bg # None
       THEN /\ caller' = "idle"
            /\ UNCHANGED <<current, made, amode>>
       ELSE /\ made' = made + 1
            /\ amode' = [amode EXCEPT ![made + 1] = "continuous"]
            /\ current' = made + 1
            /\ caller' = "c_setup"
    /\ UNCHANGED <<cancelled, bg, bgDone, work, posted, runner, canceller,
                   cancels, sentLate, bounded>>

(* setup_handlers on the current attempt: post the receive, arm the timers *)
(* and send the first queries.                                             *)
Setup ==
    /\ caller \in {"o_setup", "c_setup"}
    /\ work' = [work EXCEPT ![current] = TRUE]
    /\ sentLate' = IF cancelled THEN sentLate \cup {current} ELSE sentLate
    /\ caller' = IF caller = "o_setup" THEN "o_check" ELSE "c_spawn"
    /\ UNCHANGED <<calls, cancelled, current, bg, bgDone, made, amode, posted,
                   runner, canceller, cancels, bounded>>

OneshotCheck ==
    /\ caller = "o_check"
    /\ IF cancelled
       THEN /\ caller' = "idle"
            /\ UNCHANGED runner
       ELSE /\ caller' = "o_run"
            /\ runner' = [runner EXCEPT ![current] = "caller"]
    /\ UNCHANGED <<calls, cancelled, current, bg, bgDone, made, amode, work,
                   posted, canceller, cancels, sentLate, bounded>>

(* resolve_continuous: background_io_ = a thread running the attempt.     *)
Spawn ==
    /\ caller = "c_spawn"
    /\ bg' = current
    /\ runner' = [runner EXCEPT ![current] = "bg"]
    /\ caller' = "idle"
    /\ UNCHANGED <<calls, cancelled, current, bgDone, made, amode, work, posted,
                   canceller, cancels, sentLate, bounded>>
-----------------------------------------------------------------------------
(* Inside io_.run() of attempt a (on the caller's or the background        *)
(* thread).  A queued do_cancel runs: it closes the sockets and cancels    *)
(* the timers, which ends every chain.                                     *)
RunPosted(a) ==
    /\ runner[a] # "none"
    /\ posted[a] > 0
    /\ posted' = [posted EXCEPT ![a] = @ - 1]
    /\ work' = [work EXCEPT ![a] = FALSE]
    /\ UNCHANGED <<caller, calls, cancelled, current, bg, bgDone, made, amode,
                   runner, canceller, cancels, sentLate, bounded>>

(* A one-shot attempt becomes done (is_done(): enough results, after the  *)
(* minimum time) and cancels itself; whether replies come is up to the     *)
(* network, so this step is not assumed to happen.                         *)
Finish(a) ==
    /\ runner[a] # "none"
    /\ amode[a] = "oneshot"
    /\ work[a]
    /\ work' = [work EXCEPT ![a] = FALSE]
    /\ UNCHANGED <<caller, calls, cancelled, current, bg, bgDone, made, amode,
                   posted, runner, canceller, cancels, sentLate, bounded>>

(* The cancel_timer_ armed by setup_handlers when cancel_after < FOREVER   *)
(* expires and runs do_cancel.                                             *)
Deadline(a) ==
    /\ runner[a] # "none"
    /\ bounded[a]
    /\ work[a]
    /\ work' = [work EXCEPT ![a] = FALSE]
    /\ UNCHANGED <<caller, calls, cancelled, current, bg, bgDone, made, amode,
                   posted, runner, canceller, cancels, sentLate, bounded>>

(* io_.run() returns once out of work; resolve_oneshot then returns its    *)
(* results, the background thread ends.                                    *)
RunReturns(a) ==
    /\ runner[a] # "none"
    /\ ~work[a]
    /\ posted[a] = 0
    /\ runner' = [runner EXCEPT ![a] = "none"]
    /\ IF runner[a] = "caller"
       THEN /\ caller' = "idle"
            /\ UNCHANGED bgDone
       ELSE /\ bgDone' = TRUE
            /\ UNCHANGED caller
    /\ UNCHANGED <<calls, cancelled, current, bg, made, amode, work, posted,
                   canceller, cancels, sentLate, bounded>>

-----------------------------------------------------------------------------
(* Mutant: a destructor that joins without cancelling first.             *)
DestroyWithoutCancel ==
    /\ caller = "idle"
    /\ caller' = "d_join"
    /\ UNCHANGED <<calls, cancelled, current, bg, bgDone, made, amode, work,
                   posted, runner, canceller, cancels, sentLate, bounded>>

(* ~resolver_impl: cancel() (cancelled_ = true, post to current_resolve),  *)
(* then join the background thread, then release current_resolve.         *)
Destroy ==
    /\ caller = "idle"
    /\ cancelled' = TRUE
    /\ PostCancel(current)
    /\ caller' = "d_join"
    /\ UNCHANGED <<calls, current, bg, bgDone, made, amode, work, runner,
                   canceller, cancels, sentLate, bounded>>

Join ==
    /\ caller = "d_join"
    /\ bg = None \/ bgDone
    /\ caller' = "destroyed"
    /\ current' = None
    /\ UNCHANGED <<calls, cancelled, bg, bgDone, made, amode, work, posted,
                   runner, canceller, cancels, sentLate, bounded>>

(* resolver_impl::cancel on another thread: set cancelled_, then read      *)
(* current_resolve (unsynchronised with the caller's assignment) and post  *)
(* do_cancel to what it read.                                              *)
CancelFlag ==
    /\ canceller = "idle"
    /\ caller \notin {"d_join", "destroyed"}
    /\ cancels < MaxCancels
    /\ cancels' = cancels + 1
    /\ cancelled' = TRUE
    /\ canceller' = "read"
    /\ UNCHANGED <<caller, calls, current, bg, bgDone, made, amode, work, posted,
                   runner, sentLate, bounded>>

CancelPost ==
    /\ canceller = "read"
    /\ caller # "destroyed"
    /\ PostCancel(current)
    /\ canceller' = "idle"
    /\ UNCHANGED <<caller, calls, cancelled, current, bg, bgDone, made, amode,
                   work, runner, cancels, sentLate, bounded>>

Next ==
    \/ \E finite \in BOOLEAN : StartOneshot(finite)
    \/ StartContinuous \/ Setup \/ OneshotCheck \/ Spawn
    \/ \E a \in Attempts : RunPosted(a) \/ Finish(a) \/ Deadline(a) \/ RunReturns(a)
    \/ Destroy \/ Join
    \/ CancelFlag \/ CancelPost

(* The application's own steps inside a call, the io_context's handlers    *)
(* (FIFO), an armed deadline timer and the cancelling thread once inside   *)
(* cancel() all progress; whether the application calls anything, or      *)
(* cancels, and whether peers answer, is not assumed.                      *)
Spec == Init /\ [][Next]_vars
        /\ WF_vars(Setup) /\ WF_vars(OneshotCheck) /\ WF_vars(Spawn)
        /\ WF_vars(Join) /\ WF_vars(CancelPost)
        /\ \A a \in Attempts : WF_vars(RunPosted(a)) /\ WF_vars(Deadline(a))
                                /\ WF_vars(RunReturns(a))

-----------------------------------------------------------------------------
(* An attempt that nothing refers to any more besides its own io_context. *)
Idle(a) == ~work[a] /\ posted[a] = 0 /\ runner[a] = "none"

(* The application's calls return: resolve_continuous and the destructor  *)
(* always (the join in ~resolver_impl does not hang), and resolve_oneshot  *)
(* once it has a finite timeout or cancel() has been called, even when     *)
(* cancel() lands between create_attempt and the cancelled_ test and posts *)
(* its do_cancel to no attempt or to the previous one.                     *)
Returned == caller \in {"idle", "destroyed"}

NoResolveAfterCancel ==
    sentLate = {}

(* Spec 4.2: once all handler continuations drain, the attempt is          *)
(* destroyed: after ~resolver_impl no attempt is kept alive by handlers    *)
(* queued in its own io_context.                                           *)
AttemptsReleased ==
    caller = "destroyed" ~> \A a \in Attempts : a <= made => Idle(a)
====
