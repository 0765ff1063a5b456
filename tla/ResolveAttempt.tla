--------------------------- MODULE ResolveAttempt ---------------------------
(***************************************************************************)
(* One resolve_attempt (src/src/resolver_impl.h, second part: the          *)
(* resolve_attempt_udp implementation) driven by its single-threaded       *)
(* io_context, together with the environment it talks to: the outlets that *)
(* answer queries, the UDP network that may lose datagrams, and the        *)
(* resolver_impl thread that reads and prunes the results (results()) or   *)
(* cancels the attempt from outside (cancel()).                            *)
(*                                                                         *)
(* Every completion handler of the io_context is an element of `ready`;    *)
(* the loop runs one of them at a time, atomically, in any order (the      *)
(* order in which the OS reports readiness is not under the program's      *)
(* control).  Timers keep, per timer, the set of outstanding async_waits;  *)
(* expires_after() and cancel() abort them, expiry makes them ready with   *)
(* success.                                                                *)
(***************************************************************************)
EXTENDS Naturals, FiniteSets, Sequences, TLC

CONSTANTS
    Uids,          \* UIDs of the outlets whose stream_info matches the query
    V4Addrs,       \* IPv4 source addresses replies can come from
    V6Addrs,       \* IPv6 source addresses replies can come from
    Ucast,         \* the id of the unicast sender (model value)
    HasUnicast,    \* known_peers is non-empty: a unicast sender exists
    McastSenders,  \* mcast_senders in vector order (broadcast sender first)
    Broadcast,     \* the id of the broadcast sender, or None
    Reach,         \* [sender -> SUBSET (Uids \X Addrs)]: who answers a query
                   \*   sent by that sender, and from which source address
    RecvFamily,    \* the receive socket: "v4", "v6" (v6_only) or "dual"
    Mode,          \* "oneshot" (resolve_oneshot) or "continuous"
    Minimum,       \* minimum_
    MinimumTime,   \* minimum_time of resolve_oneshot
    Timeout,       \* cancel_after of setup_handlers, or Forever
    UcastWait,     \* unicast_wait of setup_handlers
    McastWait,     \* multicast_wait of setup_handlers
    UcastRtt,      \* api_config::unicast_min_rtt()
    ForgetAfter,   \* forget_after_ of resolver_impl (continuous only)
    Forever,       \* FOREVER
    None,          \* an empty address field / no value
    MaxTime,       \* bound on the clock (lsl_clock() in ticks)
    MaxCancels,    \* bound on the calls of resolver_impl::cancel
    StrayFrom      \* (uid, address) pairs that replies to other queries or
                   \*   malformed datagrams can claim to come from; the uid
                   \*   may be one of an outlet that does not match

Addrs   == V4Addrs \cup V6Addrs
Senders == (IF HasUnicast THEN {Ucast} ELSE {}) \cup
           {McastSenders[i] : i \in 1..Len(McastSenders)}
McastSet == {McastSenders[i] : i \in 1..Len(McastSenders)}
Timers  == {"deadline", "ucast", "mcast"}
Waiters == Senders \cup {"deadline"}
Fams    == {"v4", "v6"}

ASSUME /\ Ucast \notin McastSet
       /\ Broadcast \in McastSet \cup {None}
       /\ \A s \in Senders : Reach[s] \subseteq Uids \X Addrs
       /\ RecvFamily \in {"v4", "v6", "dual"}
       /\ Mode \in {"oneshot", "continuous"}
       /\ Mode = "continuous" => Minimum = 0 /\ Timeout = Forever
       /\ Timeout \in Nat \cup {Forever}
       /\ {UcastWait, McastWait} \subseteq Nat \ {0}
       /\ \A p \in StrayFrom : p[2] \in Addrs

(* The remote_endpoint_ as the receive socket reports it: on a dual-stack  *)
(* IPv6 socket an IPv4 sender appears as a v4-mapped IPv6 address.         *)
Mapped(a) == <<"v4mapped", a>>
Seen(a)   == IF RecvFamily = "dual" /\ a \in V4Addrs THEN Mapped(a) ELSE a
(* ip::address::is_v4() of what the socket reports, and the true family.   *)
ReportedFam(x) == IF x \in V4Addrs THEN "v4" ELSE "v6"
TrueFam(a)     == IF a \in V4Addrs THEN "v4" ELSE "v6"
(* Which datagrams the receive socket can get at all.                      *)
Receivable(a) == CASE RecvFamily = "v4" -> a \in V4Addrs
                   [] RecvFamily = "v6" -> a \in V6Addrs
                   [] OTHER             -> TRUE

(* A reply datagram: ok means its first line equals query_id_ and the rest *)
(* parses as a shortinfo (and passes validation when that is enabled).     *)
Datagrams == [uid : Uids \cup {p[1] : p \in StrayFrom}, addr : Addrs, ok : BOOLEAN]
(* A completion handler waiting in the io_context.                         *)
Handler(h, w, ok, d) == [h |-> h, w |-> w, ok |-> ok, d |-> d]
RecvDone(d)      == Handler("recv", None, d # None, d)
TimerDone(w, ok) == Handler("timer", w, ok, None)
PostedCancel     == Handler("post", None, TRUE, None)

(* The replies a query sent by s draws: every outlet it reaches answers    *)
(* to the reply port; a family the receive socket cannot take never        *)
(* arrives.                                                                *)
Answers(s) == {[uid |-> p[1], addr |-> p[2], ok |-> TRUE] :
                  p \in {q \in Reach[s] : Receivable(q[2])}}

TimerOf(w) == CASE w = "deadline" -> "deadline"
                [] w = Ucast      -> "ucast"
                [] OTHER          -> "mcast"

VARIABLES
    phase,        \* "constructed", "running" (io_.run()), "returned"
    now,          \* lsl_clock()
    cancelled,    \* cancelled_
    recvOpen,     \* recv_socket_.is_open()
    recvOp,       \* "pending" while an async_receive_from is outstanding
    senderOpen,   \* [Senders -> BOOLEAN]: the senders' sockets are open
    waits,        \* [Timers -> SUBSET Waiters]: outstanding async_waits
    expiry,       \* [Timers -> Nat]: the timers' expiry times
    ready,        \* completion handlers queued in io_
    cancelAfter,  \* cancel_after_ (absolute)
    atleastUntil, \* resolve_atleast_until_
    results,      \* results_: [uid -> [addr : [Fams -> addr], seen : time]]
    replies,      \* reply datagrams in the network or the socket's buffer
    sentLate,     \* history: senders that sent a query once cancelled_ was set
    firstFrom,    \* history: [uid -> [Fams -> first source address]]
    cancels       \* calls of resolver_impl::cancel so far

vars == <<phase, now, cancelled, recvOpen, recvOp, senderOpen, waits, expiry,
          ready, cancelAfter, atleastUntil, results, replies, sentLate,
          firstFrom, cancels>>

-----------------------------------------------------------------------------
(* resolve_attempt::resolve_attempt: the sockets are open; the broadcast   *)
(* sender is only kept when its probe query could be sent, so that query   *)
(* has already left the machine.                                           *)
Init ==
    /\ phase = "constructed"
    /\ now = 0
    /\ cancelled = FALSE
    /\ recvOpen = TRUE
    /\ recvOp = "idle"
    /\ senderOpen = [s \in Senders |-> TRUE]
    /\ waits = [t \in Timers |-> {}]
    /\ expiry = [t \in Timers |-> 0]
    /\ ready = {}
    /\ cancelAfter = 0
    /\ atleastUntil = 0
    /\ results = <<>>
    /\ replies = IF Broadcast = None THEN {} ELSE Answers(Broadcast)
    /\ sentLate = {}
    /\ firstFrom = <<>>
        /\ cancels = 0

(* resolve_query_sender::send_query: send_to every target; a closed       *)
(* socket sends nothing.  Gives sentLate' and replies'.                    *)
SendQuery(s) ==
    IF senderOpen[s]
    THEN /\ sentLate' = IF cancelled THEN sentLate \cup {s} ELSE sentLate
         /\ replies' = replies \cup Answers(s)
    ELSE UNCHANGED <<sentLate, replies>>

(* resolve_attempt::is_done, evaluated on the result set res.              *)
IsDone(res) ==
    \/ cancelled
    \/ Timeout # Forever /\ now > cancelAfter
    \/ /\ Minimum # 0
       /\ Cardinality(DOMAIN res) >= Minimum
       /\ now >= atleastUntil

(* Timer.expires_after(delay) followed by async_wait for waiter w: the     *)
(* pending waits of that timer complete with operation_aborted.            *)
Rearm(t, w, delay, rdy) ==
    /\ waits' = [waits EXCEPT ![t] = {w}]
    /\ expiry' = [expiry EXCEPT ![t] = now + delay]
    /\ ready' = rdy \cup {TimerDone(x, FALSE) : x \in waits[t]}

Delay(t) == IF t = "ucast" THEN UcastWait
            ELSE McastWait + (IF HasUnicast THEN UcastRtt ELSE 0)

(* Mutant: do_cancel that leaves the receive socket open.                  *)
DoCancelKeepingRecv(rdy) ==
    /\ cancelled' = TRUE
    /\ waits' = [t \in Timers |-> {}]
    /\ ready' = rdy \cup {TimerDone(w, FALSE) : w \in UNION {waits[t] : t \in Timers}}
    /\ senderOpen' = [s \in Senders |-> IF s \in McastSet THEN FALSE ELSE senderOpen[s]]
    /\ UNCHANGED <<recvOpen, recvOp, expiry>>

(* resolve_attempt::do_cancel: set cancelled_, cancel the three timers,    *)
(* close the multicast/broadcast senders and the receive socket (which     *)
(* aborts an outstanding receive).  The unicast sender is left alone.      *)
DoCancel(rdy) ==
    /\ cancelled' = TRUE
    /\ waits' = [t \in Timers |-> {}]
    /\ ready' = rdy \cup {TimerDone(w, FALSE) : w \in UNION {waits[t] : t \in Timers}}
                    \cup (IF recvOp = "pending" THEN {RecvDone(None)} ELSE {})
    /\ senderOpen' = [s \in Senders |-> IF s \in McastSet THEN FALSE ELSE senderOpen[s]]
    /\ recvOpen' = FALSE
    /\ recvOp' = "idle"
    /\ UNCHANGED expiry

-----------------------------------------------------------------------------
(* resolve_oneshot / resolve_continuous: set minimum_time, then            *)
(* setup_handlers: post the first receive, arm the deadline timer when the *)
(* timeout is finite, schedule the unicast wave and send it, then for each *)
(* multicast sender in order schedule its wave on the one shared           *)
(* multicast_timer_ (each expires_after aborts the previous sender's wait) *)
(* and send; then run the io_context.                                      *)
SetupHandlers ==
    LET last    == McastSenders[Len(McastSenders)]
        earlier == {McastSenders[i] : i \in 1..(Len(McastSenders) - 1)}
        ucastW  == IF HasUnicast THEN {Ucast} ELSE {}
    IN
    /\ phase = "constructed"
    /\ phase' = "running"
    /\ recvOp' = "pending"
    /\ atleastUntil' = now + MinimumTime
    /\ cancelAfter' = IF Timeout = Forever THEN 0 ELSE now + Timeout
    /\ waits' = [t \in Timers |->
                   CASE t = "deadline" -> IF Timeout = Forever THEN {} ELSE {"deadline"}
                     [] t = "ucast"    -> ucastW
                     [] OTHER          -> IF McastSenders = <<>> THEN {} ELSE {last}]
    /\ expiry' = [t \in Timers |->
                   CASE t = "deadline" -> IF Timeout = Forever THEN 0 ELSE now + Timeout
                     [] OTHER          -> now + Delay(t)]
    /\ ready' = ready \cup {TimerDone(s, FALSE) : s \in earlier}
    /\ replies' = replies \cup UNION {Answers(s) : s \in {x \in Senders : senderOpen[x]}}
    /\ UNCHANGED sentLate
    /\ UNCHANGED <<now, cancelled, recvOpen, senderOpen, results,
                   firstFrom>>

(* resolver_impl::cancel -> resolve_attempt::cancel: post do_cancel onto   *)
(* the attempt's io_context (from another thread, at any time).            *)
Cancel ==
    /\ phase # "returned"
    /\ cancels < MaxCancels
    /\ cancels' = cancels + 1
    /\ ready' = ready \cup {PostedCancel}
    /\ UNCHANGED <<phase, now, cancelled, recvOpen, recvOp, senderOpen, waits,
                   expiry, cancelAfter, atleastUntil, results, replies,
                   sentLate, firstFrom>>

-----------------------------------------------------------------------------
(* The result entry after a valid reply d (handle_receive_outcome, under   *)
(* results_mut_): insert or refresh last_seen, then fill the address field *)
(* of the reported family only when it is still empty.                     *)
Refresh(res, d) ==
    LET u  == d.uid
        x  == Seen(d.addr)
        e0 == IF u \in DOMAIN res THEN [res[u] EXCEPT !.seen = now]
              ELSE [addr |-> [f \in Fams |-> None], seen |-> now]
        e1 == IF e0.addr[ReportedFam(x)] = None
              THEN [e0 EXCEPT !.addr[ReportedFam(x)] = x] ELSE e0
    IN [v \in DOMAIN res \cup {u} |-> IF v = u THEN e1 ELSE res[v]]

(* History: the first source address of each true family since the entry *)
(* was inserted.                                                           *)
NoteFirst(ff, d) ==
    LET u  == d.uid
        f  == TrueFam(d.addr)
        e0 == IF u \in DOMAIN results THEN ff[u] ELSE [g \in Fams |-> None]
        e1 == IF e0[f] = None THEN [e0 EXCEPT ![f] = d.addr] ELSE e0
    IN [v \in DOMAIN ff \cup {u} |-> IF v = u THEN e1 ELSE ff[v]]

(* Mutant: handle_receive_outcome that skips the query id comparison.     *)
HandleReceiveOutcomeNoIdCheck(hd) ==
    LET rdy == ready \ {hd}
        d   == hd.d
        res == IF d # None THEN Refresh(results, d) ELSE results
    IN
    IF cancelled \/ d = None
    THEN /\ ready' = rdy
         /\ UNCHANGED <<cancelled, recvOpen, recvOp, senderOpen, waits, expiry,
                        results, firstFrom, sentLate, replies>>
    ELSE /\ results' = res
         /\ firstFrom' = NoteFirst(firstFrom, d)
         /\ UNCHANGED <<sentLate, replies>>
         /\ IF IsDone(res)
            THEN DoCancel(rdy)
            ELSE /\ recvOp' = "pending"
                 /\ ready' = rdy
                 /\ UNCHANGED <<cancelled, recvOpen, senderOpen, waits, expiry>>

(* Mutant: handle_receive_outcome without the cancelled_ test.            *)
HandleReceiveOutcomeUnguarded(hd) ==
    LET rdy == ready \ {hd}
        d   == hd.d
        res == IF d # None /\ d.ok THEN Refresh(results, d) ELSE results
    IN
    IF d = None
    THEN /\ ready' = rdy
         /\ UNCHANGED <<cancelled, recvOpen, recvOp, senderOpen, waits, expiry,
                        results, firstFrom, sentLate, replies>>
    ELSE /\ results' = res
         /\ firstFrom' = IF d.ok THEN NoteFirst(firstFrom, d) ELSE firstFrom
         /\ UNCHANGED <<sentLate, replies>>
         /\ IF IsDone(res)
            THEN DoCancel(rdy)
            ELSE /\ recvOp' = IF recvOpen THEN "pending" ELSE "idle"
                 /\ ready' = rdy
                 /\ UNCHANGED <<cancelled, recvOpen, senderOpen, waits, expiry>>

(* resolve_attempt::handle_receive_outcome.  A cancelled attempt or an     *)
(* aborted receive ends the chain; otherwise a valid reply updates the     *)
(* results, and then either is_done() -> do_cancel() or the next receive   *)
(* is posted (receive_next_result).                                        *)
HandleReceiveOutcome(hd) ==
    LET rdy == ready \ {hd}
        d   == hd.d
        res == IF d # None /\ d.ok THEN Refresh(results, d) ELSE results
    IN
    IF cancelled \/ d = None
    THEN /\ ready' = rdy
         /\ UNCHANGED <<cancelled, recvOpen, recvOp, senderOpen, waits, expiry,
                        results, firstFrom, sentLate, replies>>
    ELSE /\ results' = res
         /\ firstFrom' = IF d.ok THEN NoteFirst(firstFrom, d) ELSE firstFrom
         /\ UNCHANGED <<sentLate, replies>>
         /\ IF IsDone(res)
            THEN DoCancel(rdy)
            ELSE /\ recvOp' = "pending"
                 /\ ready' = rdy
                 /\ UNCHANGED <<cancelled, recvOpen, senderOpen, waits, expiry>>

(* The lambda of schedule_packet_burst: unless aborted, send the query and *)
(* call schedule_packet_burst again, which returns early once cancelled_.  *)
HandleBurst(hd) ==
    LET rdy == ready \ {hd}
        w   == hd.w
    IN
    IF ~hd.ok
    THEN /\ ready' = rdy
         /\ UNCHANGED <<sentLate, replies, waits, expiry>>
    ELSE /\ SendQuery(w)
         /\ IF cancelled
            THEN /\ ready' = rdy
                 /\ UNCHANGED <<waits, expiry>>
            ELSE Rearm(TimerOf(w), w, Delay(TimerOf(w)), rdy)

(* The cancel_timer_ lambda of setup_handlers: do_cancel unless aborted.   *)
HandleDeadline(hd) ==
    IF hd.ok
    THEN DoCancel(ready \ {hd})
         /\ UNCHANGED <<sentLate, replies>>
    ELSE /\ ready' = ready \ {hd}
         /\ UNCHANGED <<cancelled, recvOpen, recvOp, senderOpen, waits, expiry,
                        sentLate, replies>>

(* The lambda posted by resolve_attempt::cancel.                           *)
HandlePosted(hd) ==
    DoCancel(ready \ {hd}) /\ UNCHANGED <<sentLate, replies>>

(* io_.run() executes one ready handler.                                   *)
RunHandler(hd) ==
    /\ phase = "running"
    /\ CASE hd.h = "recv"                          -> HandleReceiveOutcome(hd)
         [] hd.h = "timer" /\ hd.w = "deadline"    -> HandleDeadline(hd) /\ UNCHANGED <<results, firstFrom>>
         [] hd.h = "timer"                         -> HandleBurst(hd)
              /\ UNCHANGED <<cancelled, recvOpen, recvOp, senderOpen, results,
                             firstFrom>>
         [] OTHER                                  -> HandlePosted(hd) /\ UNCHANGED <<results, firstFrom>>
    /\ UNCHANGED <<phase, now, cancelAfter, atleastUntil>>

(* A timer reaches its expiry: its waits complete with success.            *)
Expire(t) ==
    /\ waits[t] # {}
    /\ now >= expiry[t]
    /\ ready' = ready \cup {TimerDone(w, TRUE) : w \in waits[t]}
    /\ waits' = [waits EXCEPT ![t] = {}]
    /\ UNCHANGED <<phase, now, cancelled, recvOpen, recvOp, senderOpen, expiry,
                   cancelAfter, atleastUntil, results, replies, sentLate,
                   firstFrom>>

(* io_.run() returns once no handler is queued and no operation pending.   *)
RunReturns ==
    /\ phase = "running"
    /\ ready = {}
    /\ recvOp = "idle"
    /\ \A t \in Timers : waits[t] = {}
    /\ phase' = "returned"
    /\ UNCHANGED <<now, cancelled, recvOpen, recvOp, senderOpen, waits, expiry,
                   ready, cancelAfter, atleastUntil, results, replies,
                   sentLate, firstFrom>>

Tick ==
    /\ phase = "running"
    /\ now < MaxTime
    /\ now' = now + 1
    /\ UNCHANGED <<phase, cancelled, recvOpen, recvOp, senderOpen, waits,
                   expiry, ready, cancelAfter, atleastUntil, results,
                   replies, sentLate, firstFrom>>

-----------------------------------------------------------------------------
(* The network and the outlets.                                            *)

(* A reply to some other query (a different query id) or a datagram that  *)
(* does not parse reaches the reply port.                                  *)
Stray(u, a) ==
    /\ Receivable(a)
    /\ replies' = replies \cup {[uid |-> u, addr |-> a, ok |-> FALSE]}
    /\ UNCHANGED <<phase, now, cancelled, recvOpen, recvOp, senderOpen, waits,
                   expiry, ready, cancelAfter, atleastUntil, results,
                   sentLate, firstFrom>>

Lose(d) ==
    /\ replies' = replies \ {d}
    /\ UNCHANGED <<phase, now, cancelled, recvOpen, recvOp, senderOpen, waits,
                   expiry, ready, cancelAfter, atleastUntil, results,
                   sentLate, firstFrom>>

(* The outstanding async_receive_from completes with datagram d.           *)
Deliver(d) ==
    /\ recvOp = "pending"
    /\ recvOpen
    /\ recvOp' = "idle"
    /\ ready' = ready \cup {RecvDone(d)}
    /\ replies' = replies \ {d}
    /\ UNCHANGED <<phase, now, cancelled, recvOpen, senderOpen, waits, expiry,
                   cancelAfter, atleastUntil, results, sentLate, firstFrom>>

(* resolver_impl::results, on the caller's thread under results_mut_:     *)
(* erase the entries last seen before now - forget_after_.                 *)
Results ==
    LET keep == {u \in DOMAIN results : results[u].seen + ForgetAfter >= now}
    IN
    /\ Mode = "continuous"
    /\ results' = [u \in keep |-> results[u]]
    /\ firstFrom' = [u \in keep |-> firstFrom[u]]
    /\ UNCHANGED <<phase, now, cancelled, recvOpen, recvOp, senderOpen, waits,
                   expiry, ready, cancelAfter, atleastUntil, replies,
                   sentLate>>

(* The steps other than cancel() leave its call count alone.             *)
Io(A) == A /\ UNCHANGED cancels

Next ==
    \/ Cancel
    \/ Io(SetupHandlers)
    \/ \E hd \in ready : Io(RunHandler(hd))
    \/ \E t \in Timers : Io(Expire(t))
    \/ Io(RunReturns)
    \/ Io(Tick)
    \/ \E p \in StrayFrom : Io(Stray(p[1], p[2]))
    \/ \E d \in replies : Io(Lose(d))
    \/ \E d \in replies : Io(Deliver(d))
    \/ Io(Results)

(* The io_context runs its ready handlers in FIFO order, so a queued      *)
(* handler runs eventually: in particular the deadline handler and a       *)
(* posted cancel.  io_.run() returns when out of work, timers expire and   *)
(* the clock advances; nothing is assumed of the network, the outlets or   *)
(* the calling thread.                                                     *)
Spec == Init /\ [][Next]_vars
        /\ WF_vars(Io(SetupHandlers))
        /\ WF_vars(\E hd \in ready : Io(RunHandler(hd)))
        /\ \A hd \in {TimerDone("deadline", TRUE), PostedCancel} :
              WF_vars(hd \in ready /\ Io(RunHandler(hd)))
        /\ \A t \in Timers : WF_vars(Io(Expire(t)))
        /\ WF_vars(Io(RunReturns))
        /\ WF_vars(Io(Tick))

-----------------------------------------------------------------------------
TypeOK ==
    /\ phase \in {"constructed", "running", "returned"}
    /\ now \in 0..MaxTime
    /\ cancelled \in BOOLEAN
    /\ recvOp \in {"idle", "pending"}
    /\ senderOpen \in [Senders -> BOOLEAN]
    /\ waits \in [Timers -> SUBSET Waiters]
    /\ \A hd \in ready : hd.h \in {"recv", "timer", "post"}
    /\ replies \subseteq Datagrams
    \* only outlets that match the query (whose reply carries query_id_)
    /\ DOMAIN results \subseteq Uids
    /\ DOMAIN firstFrom = DOMAIN results
    /\ cancels \in 0..MaxCancels

(* Spec section 8: for every UID, the address kept for family F is the     *)
(* source address of the first reply received from family F (and is never *)
(* overwritten).  About handle_receive_outcome's "fill only if empty" and  *)
(* its use of remote_endpoint_.address().is_v4() to pick the field.        *)
FirstAddressPerFamily ==
    \A u \in DOMAIN results : results[u].addr = firstFrom[u]

(* Once do_cancel has run, no handler still queued in the io_context adds  *)
(* or refreshes a result: about the cancelled_ test at the top of          *)
(* handle_receive_outcome racing a receive that completed before the       *)
(* cancel.                                                                 *)
ResultsFrozenOnceCancelled ==
    [][cancelled => \A u \in DOMAIN results' :
                        u \in DOMAIN results /\ results'[u] = results[u]]_vars

(* Spec section 8, scenario 6: after cancellation no further query         *)
(* datagram leaves the machine.  About do_cancel and the wave handlers     *)
(* already queued when it runs.                                            *)
NoQueryAfterCancel ==
    sentLate = {}

(* While the attempt runs, every sender has its next wave scheduled: about *)
(* setup_handlers and schedule_packet_burst re-arming the timers.          *)
WavesKeepComing ==
    phase = "running" /\ ~cancelled =>
        \A s \in Senders : s \in waits[TimerOf(s)] \/ TimerDone(s, TRUE) \in ready

(* With a finite timeout, io_.run() returns: resolve_oneshot does not hang *)
(* (do_cancel must leave the io_context without work).                     *)
Termination ==
    Timeout # Forever => <>(phase = "returned")
====
