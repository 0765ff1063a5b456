----------------------------- MODULE TcpServer -----------------------------
(***************************************************************************)
(* The data server of a stream outlet (tcp_server.cpp): the accept loop,   *)
(* the client session state machine driven by the server's io thread, the *)
(* per-session transfer thread and its write-completion handshake, the     *)
(* synchronous transfer path, and end_serving's shutdown.                  *)
(*                                                                         *)
(* Threads: the io thread runs every asio handler (one step per handler);  *)
(* the outlet thread calls begin_serving, pushes samples and calls         *)
(* end_serving; each session may own a transfer thread.  Clients are the   *)
(* environment: they connect, send a request line or disconnect, and read  *)
(* or stop reading what is written to them.                                *)
(***************************************************************************)
EXTENDS Naturals, Sequences, FiniteSets

CONSTANTS
    Acceptors,    \* acceptors the constructor managed to bind ("v4", "v6")
    MaxSessions,  \* client connections accepted over the whole behaviour
    Requests,     \* request lines clients send (see HandleReadCommand)
    MaxBuffered,  \* max-buffer-length values clients ask for
    ChunkSize,    \* max_samples_per_chunk of every session
    MaxPushes,    \* samples the outlet pushes
    PushKinds,    \* "d": a plain sample, "f": a pushthrough sample
    SyncModes     \* values of the constructor's do_sync argument

ASSUME /\ Acceptors # {} /\ Acceptors \subseteq {"v4", "v6"}
       /\ MaxSessions \in Nat \ {0}
       /\ Requests \subseteq {"shortinfo", "fullinfo", "feed100", "feed110",
                              "feed999", "feedWrongUid", "other"}
       /\ MaxBuffered \subseteq Nat /\ ChunkSize \in Nat \ {0}
       /\ MaxPushes \in Nat /\ PushKinds \subseteq {"d", "f"} /\ SyncModes \subseteq BOOLEAN

Sessions == 1..MaxSessions
NoSession == 0

VARIABLES
    outlet,     \* outlet thread: "init", "serving", "es_close", "es_ping", "ended", "released"
    accOpen,    \* [Acceptors -> BOOLEAN]: acceptor socket open
    accState,   \* [Acceptors -> {"none","pending","ok","aborted","baddesc"}]
    accPeer,    \* [Acceptors -> Sessions \cup {NoSession}]: accepted connection
    accClose,   \* end_serving's acceptor-closing lambda is queued
    sock,       \* [Sessions -> {"free", "open", "closed", "handed"}]
    op,         \* [Sessions -> {"none", "cmd", "query", "params"}]: async_read_until
    feed,       \* [Sessions -> Requests \cup {"none"}]: the streamfeed request
    maxBuf,     \* [Sessions -> MaxBuffered \cup {0}]: max_buffered_
    writes,     \* [Sessions -> Seq(kinds)]: async_writes not yet completed
    tpc,        \* [Sessions -> {"none","loop","pop","wait","exit"}]: transfer thread
    completed,  \* [Sessions -> BOOLEAN]: transfer_completed_
    terr,       \* [Sessions -> BOOLEAN]: transfer_error_ is set
    inChunk,    \* [Sessions -> Nat]: samples_in_current_chunk
    cq,         \* [Sessions -> Seq({"d", "f"})]: the session's consumer queue
    pushes,     \* samples pushed so far
    inflight,   \* sessions registered in inflight_
    early,      \* [Sessions -> BOOLEAN]: the outstanding operation completed
                \* with success before the posted close ran (its handler is
                \* still queued)
    closing,    \* sessions whose shutdown-and-close lambda is queued
    doSync,     \* sync_handler exists (the server was built with do_sync)
    syncAdds,   \* sockets posted by add_socket, not yet in sync_sockets_
    syncSocks   \* sync_sockets_

vars == <<outlet, accOpen, accState, accPeer, accClose, sock, op, feed, maxBuf,
          writes, tpc, completed, terr, inChunk, cq, pushes, inflight, early, closing, doSync, syncAdds, syncSocks>>
acceptVars == <<accOpen, accState, accPeer, accClose>>
pumpVars == <<tpc, completed, terr, inChunk, cq>>
sessVars == <<sock, op, feed, maxBuf, writes, inflight, early>>
syncVars == <<doSync, syncAdds, syncSocks>>
-----------------------------------------------------------------------------
(* Shared ownership.  The server is kept alive by its owner until it is    *)
(* released, by every outstanding accept handler, by the queued acceptor   *)
(* close and by the fullinfo/shortinfo writes, which capture it; sessions  *)
(* hold only a weak_ptr (serv_).  A session lives while a handler or its   *)
(* transfer thread holds it; the last holder destroys it, closing sock_.  *)
ServerHeld ==
    \/ outlet # "released"
    \/ accClose
    \/ \E a \in Acceptors : accState[a] # "none"
    \/ \E s \in Sessions : \E i \in DOMAIN writes[s] : writes[s][i] = "info"

Expired == ~ServerHeld

SessionAlive(s) ==
    \/ op[s] # "none"
    \/ writes[s] # <<>>
    \/ s \in closing
    \/ tpc[s] \in {"loop", "pop", "wait"}

\* The socket is open and owned by a live session (a destroyed session's
\* socket is closed by its destructor).
SocketOpen(s) == sock[s] = "open" /\ SessionAlive(s)

Init ==
    /\ outlet = "init"
    /\ accOpen = [a \in Acceptors |-> TRUE]
    /\ accState = [a \in Acceptors |-> "none"]
    /\ accPeer = [a \in Acceptors |-> NoSession]
    /\ accClose = FALSE
    /\ sock = [s \in Sessions |-> "free"]
    /\ op = [s \in Sessions |-> "none"]
    /\ feed = [s \in Sessions |-> "none"]
    /\ maxBuf = [s \in Sessions |-> 0]
    /\ writes = [s \in Sessions |-> <<>>]
    /\ tpc = [s \in Sessions |-> "none"]
    /\ completed = [s \in Sessions |-> FALSE]
    /\ terr = [s \in Sessions |-> FALSE]
    /\ inChunk = [s \in Sessions |-> 0]
    /\ cq = [s \in Sessions |-> <<>>]
    /\ pushes = 0
    /\ inflight = {}
    /\ early = [s \in Sessions |-> FALSE]
    /\ closing = {}
    /\ doSync \in SyncModes
    /\ syncAdds = {}
    /\ syncSocks = {}
-----------------------------------------------------------------------------
(* accept_next_connection: async_accept on the acceptor.  On a closed      *)
(* acceptor asio queues the handler at once with bad_descriptor.           *)
AcceptNext(a) ==
    IF accOpen[a] THEN "pending" ELSE "baddesc"

(* begin_serving: start the accept loop of every acceptor.                 *)
BeginServing ==
    /\ outlet = "init"
    /\ outlet' = "serving"
    /\ accState' = [a \in Acceptors |-> AcceptNext(a)]
    /\ UNCHANGED <<accOpen, accPeer, accClose, sessVars, pumpVars, pushes,
                   closing, syncVars>>

(* A client connects: the pending accept completes with a new socket.      *)
Connect(a, s) ==
    /\ accState[a] = "pending"
    /\ sock[s] = "free"
    /\ \A t \in Sessions : t < s => sock[t] # "free"
    /\ accState' = [accState EXCEPT ![a] = "ok"]
    /\ accPeer' = [accPeer EXCEPT ![a] = s]
    /\ sock' = [sock EXCEPT ![s] = "open"]
    /\ UNCHANGED <<outlet, accOpen, accClose, op, feed, maxBuf, writes,
                   inflight, early, pumpVars, pushes, closing, syncVars>>

(* The accept handler.  operation_aborted ends the loop; success starts a  *)
(* session (begin_processing registers it in inflight_ and reads the       *)
(* command line); any other error is logged; then accept again.            *)
HandleAccept(a) ==
    /\ accState[a] \in {"ok", "aborted", "baddesc"}
    /\ IF accState[a] = "aborted"
       THEN /\ accState' = [accState EXCEPT ![a] = "none"]
            /\ UNCHANGED <<op, inflight>>
       ELSE /\ accState' = [accState EXCEPT ![a] = AcceptNext(a)]
            /\ IF accState[a] = "ok"
               THEN /\ inflight' = inflight \cup {accPeer[a]}
                    /\ op' = [op EXCEPT ![accPeer[a]] = "cmd"]
               ELSE UNCHANGED <<op, inflight>>
    /\ accPeer' = [accPeer EXCEPT ![a] = NoSession]
    /\ UNCHANGED <<outlet, accOpen, accClose, sock, feed, maxBuf, writes,
                   early, pumpVars, pushes, closing, syncVars>>

(* end_serving's posted lambda: close the acceptors, which aborts their    *)
(* pending accepts (a completed accept stays queued as it is).             *)
CloseAcceptors ==
    /\ accClose
    /\ accClose' = FALSE
    /\ accOpen' = [a \in Acceptors |-> FALSE]
    /\ accState' = [a \in Acceptors |->
                      IF accState[a] = "pending" THEN "aborted" ELSE accState[a]]
    /\ UNCHANGED <<outlet, accPeer, sessVars, pumpVars, pushes, closing, syncVars>>

(* Whether session s has a read or a write outstanding on its socket.     *)
Outstanding(s) == op[s] # "none" \/ writes[s] # <<>>

(* close_inflight_sessions' posted lambda: shutdown and close the socket   *)
(* if it is open; an outstanding operation on it completes with an error,  *)
(* unless it had already completed and its handler is queued behind the    *)
(* lambda, in which case asio keeps that success.                         *)
CloseSession(s) ==
    /\ s \in closing
    /\ closing' = closing \ {s}
    /\ sock' = [sock EXCEPT ![s] = IF @ = "open" THEN "closed" ELSE @]
    /\ \E done \in BOOLEAN :
          early' = [early EXCEPT ![s] = done /\ sock[s] = "open" /\ Outstanding(s)]
    /\ UNCHANGED <<outlet, acceptVars, op, feed, maxBuf, writes, inflight,
                   pumpVars, pushes, syncVars>>
-----------------------------------------------------------------------------
(* The outcome of session s's outstanding operation, as its handler sees  *)
(* it: an error whenever the client disconnects or resets; success only on *)
(* an open socket or when it completed before the socket was closed.       *)
Outcome(s, ok) ==
    /\ ok => sock[s] = "open" \/ early[s]
    /\ early' = [early EXCEPT ![s] = FALSE]

(* Session handlers, run by the io thread when a read completes.  A read   *)
(* completes with an error ("err") or delivers a line.                    *)
Delivers(s, x) == Outcome(s, x # "err")

Write(s, k) == writes' = [writes EXCEPT ![s] = Append(@, k)]

(* handle_read_command_outcome: dispatch on the request method.           *)
HandleReadCommand(s, r) ==
    /\ op[s] = "cmd"
    /\ Delivers(s, r)
    /\ op' = [op EXCEPT ![s] = CASE r = "shortinfo" -> "query"
                                 [] r \in {"feed100", "feed110", "feed999",
                                           "feedWrongUid"} -> "params"
                                 [] OTHER -> "none"]
    /\ feed' = [feed EXCEPT ![s] = IF r = "err" THEN @ ELSE r]
    /\ IF r = "fullinfo" /\ ServerHeld THEN Write(s, "info")
       ELSE UNCHANGED writes
    /\ UNCHANGED <<outlet, acceptVars, sock, maxBuf, inflight, pumpVars,
                   pushes, closing, syncVars>>

(* handle_read_query_outcome: reply with the shortinfo if it matches.     *)
HandleReadQuery(s, m) ==
    /\ op[s] = "query"
    /\ Delivers(s, m)
    /\ op' = [op EXCEPT ![s] = "none"]
    /\ IF m = "match" /\ ServerHeld THEN Write(s, "info") ELSE UNCHANGED writes
    /\ UNCHANGED <<outlet, acceptVars, sock, feed, maxBuf, inflight, pumpVars,
                   pushes, closing, syncVars>>

(* handle_read_feedparams: 505 for a newer major version, nothing if the  *)
(* server is gone, 404 for a foreign UID, else the negotiated feed header *)
(* with the client's max-buffer-length.                                   *)
HandleReadFeedparams(s, ok, b) ==
    /\ op[s] = "params"
    /\ Outcome(s, ok)
    /\ op' = [op EXCEPT ![s] = "none"]
    /\ CASE ~ok -> UNCHANGED <<writes, maxBuf>>
         [] feed[s] = "feed999" -> Write(s, "status") /\ UNCHANGED maxBuf
         [] Expired -> UNCHANGED <<writes, maxBuf>>
         [] feed[s] = "feedWrongUid" -> Write(s, "status") /\ UNCHANGED maxBuf
         [] OTHER -> Write(s, "header") /\ maxBuf' = [maxBuf EXCEPT ![s] = b]
    /\ UNCHANGED <<outlet, acceptVars, sock, feed, inflight, pumpVars, pushes,
                   closing, syncVars>>

(* The head write of a session completes.                                 *)
WriteOutcome(s, ok, k) ==
    /\ writes[s] # <<>>
    /\ Head(writes[s]) = k
    /\ Outcome(s, ok)
    /\ writes' = [writes EXCEPT ![s] = Tail(@)]

(* Completion of a fullinfo, shortinfo or status write: the lambda only   *)
(* keeps its captures alive.                                              *)
InfoWritten(s, ok) ==
    /\ \E k \in {"info", "status"} : WriteOutcome(s, ok, k)
    /\ UNCHANGED <<outlet, acceptVars, sock, op, feed, maxBuf, inflight,
                   pumpVars, pushes, closing, syncVars>>

(* handle_send_feedheader_outcome: stop on error, on an expired server or *)
(* max_buffered_ <= 0; in sync mode hand the socket to the sync path and  *)
(* unregister; else create the consumer queue and spawn the transfer      *)
(* thread.                                                                *)
HandleSendFeedheaderOutcome(s, ok) ==
    /\ WriteOutcome(s, ok, "header")
    /\ IF ~ok \/ Expired \/ maxBuf[s] <= 0
       THEN UNCHANGED <<sock, inflight, syncAdds, tpc, cq, inChunk>>
       ELSE IF doSync
       THEN /\ syncAdds' = syncAdds \cup {s}
            /\ sock' = [sock EXCEPT ![s] = "handed"]
            /\ inflight' = inflight \ {s}
            /\ UNCHANGED <<tpc, cq, inChunk>>
       ELSE /\ tpc' = [tpc EXCEPT ![s] = "loop"]
            /\ cq' = [cq EXCEPT ![s] = <<>>]
            /\ inChunk' = [inChunk EXCEPT ![s] = 0]
            /\ UNCHANGED <<sock, inflight, syncAdds>>
    /\ UNCHANGED <<outlet, acceptVars, op, feed, maxBuf, completed, terr,
                   pushes, closing, doSync, syncSocks>>

(* handle_chunk_transfer_outcome: under completion_mut_ record the        *)
(* outcome and set transfer_completed_, then notify the transfer thread.  *)
HandleChunkTransferOutcome(s, ok) ==
    /\ WriteOutcome(s, ok, "chunk")
    /\ completed' = [completed EXCEPT ![s] = TRUE]
    /\ terr' = [terr EXCEPT ![s] = ~ok]
    /\ UNCHANGED <<outlet, acceptVars, sock, op, feed, maxBuf, inflight, tpc,
                   inChunk, cq, pushes, closing, syncVars>>
-----------------------------------------------------------------------------
(* transfer_samples_thread.  The loop condition: leave once serv_ has     *)
(* expired (the consumer queue goes with the thread).                     *)
TransferLoop(s) ==
    /\ tpc[s] = "loop"
    /\ tpc' = [tpc EXCEPT ![s] = IF Expired THEN "exit" ELSE "pop"]
    /\ cq' = [cq EXCEPT ![s] = IF Expired THEN <<>> ELSE @]
    /\ UNCHANGED <<outlet, acceptVars, sessVars, completed, terr, inChunk,
                   pushes, closing, syncVars>>

(* A chunk is sent when the sample is pushthrough ("f") or, counting it,  *)
(* the chunk reaches max_samples_per_chunk (the count is not incremented *)
(* for a pushthrough sample).                                             *)
SendsChunk(s, k) == k = "f" \/ inChunk[s] + 1 >= ChunkSize

Counted(s, k) == IF k = "f" THEN inChunk[s] ELSE inChunk[s] + 1

(* Mutant: the thread issues the chunk write and does not wait for it.    *)
PopNoWait(s) ==
    /\ tpc[s] = "pop"
    /\ cq[s] # <<>>
    /\ LET k == Head(cq[s]) IN
       /\ cq' = [cq EXCEPT ![s] = Tail(@)]
       /\ IF SendsChunk(s, k)
          THEN /\ Write(s, "chunk")
               /\ completed' = [completed EXCEPT ![s] = FALSE]
          ELSE UNCHANGED <<writes, completed>>
       /\ inChunk' = [inChunk EXCEPT ![s] = Counted(s, k)]
       /\ tpc' = [tpc EXCEPT ![s] = "loop"]
    /\ UNCHANGED <<outlet, acceptVars, sock, op, feed, maxBuf, inflight, early,
                   terr, pushes, closing, syncVars>>

(* pop_sample blocks until the queue has a sample (no producer in this    *)
(* repository pushes a null one, so the !samp test never skips); it is    *)
(* serialised into feedbuf_ and, when it is pushthrough or the chunk is   *)
(* full, the thread takes completion_mut_, clears                        *)
(* transfer_completed_, issues async_write and waits on the condition    *)
(* variable (the handler needs the mutex, so it cannot run in between).  *)
Pop(s) ==
    /\ tpc[s] = "pop"
    /\ cq[s] # <<>>
    /\ LET k == Head(cq[s]) IN
       /\ cq' = [cq EXCEPT ![s] = Tail(@)]
       /\ IF SendsChunk(s, k)
          THEN /\ Write(s, "chunk")
               /\ completed' = [completed EXCEPT ![s] = FALSE]
               /\ tpc' = [tpc EXCEPT ![s] = "wait"]
          ELSE /\ tpc' = [tpc EXCEPT ![s] = "loop"]
               /\ UNCHANGED <<writes, completed>>
       /\ inChunk' = [inChunk EXCEPT ![s] = Counted(s, k)]
    /\ UNCHANGED <<outlet, acceptVars, sock, op, feed, maxBuf, inflight, early,
                   terr, pushes, closing, syncVars>>

(* The wait returns once transfer_completed_ is set: on success the bytes *)
(* are consumed and the chunk count reset, on an error the thread leaves. *)
TransferWake(s) ==
    /\ tpc[s] = "wait"
    /\ completed[s]
    /\ tpc' = [tpc EXCEPT ![s] = IF terr[s] THEN "exit" ELSE "loop"]
    /\ cq' = [cq EXCEPT ![s] = IF terr[s] THEN <<>> ELSE @]
    /\ inChunk' = [inChunk EXCEPT ![s] = IF terr[s] THEN @ ELSE 0]
    /\ UNCHANGED <<outlet, acceptVars, sessVars, completed, terr, pushes,
                   closing, syncVars>>
-----------------------------------------------------------------------------
(* The outlet thread.  The consumer queue of a session holds max_buffered *)
(* samples; pushing into a full queue drops its oldest sample.            *)
Consumers == {s \in Sessions : tpc[s] \in {"loop", "pop", "wait"}}

Enqueue(s, k) ==
    IF Len(cq[s]) >= maxBuf[s] THEN Append(Tail(cq[s]), k) ELSE Append(cq[s], k)

PushSample(k) ==
    /\ outlet = "serving"
    /\ pushes < MaxPushes
    /\ pushes' = pushes + 1
    /\ cq' = [s \in Sessions |-> IF s \in Consumers THEN Enqueue(s, k) ELSE cq[s]]
    /\ UNCHANGED <<outlet, acceptVars, sessVars, tpc, completed, terr, inChunk,
                   closing, syncVars>>

(* write_all_blocking: write the buffers to every socket in sync_sockets_ *)
(* and run the private io_context: the posted add_socket lambdas run (the *)
(* sockets they add missed this push), sockets whose write broke (broken  *)
(* pipe or reset) get a posted close, and closed sockets are removed.     *)
WriteAllBlocking ==
    /\ outlet = "serving"
    /\ doSync
    /\ pushes < MaxPushes
    /\ pushes' = pushes + 1
    /\ \E broken \in SUBSET syncSocks :
          /\ sock' = [s \in Sessions |-> IF s \in broken THEN "closed" ELSE sock[s]]
          /\ syncSocks' = (syncSocks \ broken) \cup syncAdds
    /\ syncAdds' = {}
    /\ UNCHANGED <<outlet, acceptVars, op, feed, maxBuf, writes, inflight, early,
                   pumpVars, closing, doSync>>

(* end_serving, first statement: post the closing of the acceptors.       *)
EndServing ==
    /\ outlet = "serving"
    /\ outlet' = "es_close"
    /\ accClose' = TRUE
    /\ UNCHANGED <<accOpen, accState, accPeer, sessVars, pumpVars, pushes,
                   closing, syncVars>>

(* close_inflight_sessions: under inflight_mut_, post a shutdown-and-close *)
(* for every session that has not expired, then clear inflight_.          *)
CloseInflightSessions ==
    /\ outlet = "es_close"
    /\ outlet' = "es_ping"
    /\ closing' = closing \cup {s \in inflight : SessionAlive(s)}
    /\ inflight' = {}
    /\ UNCHANGED <<acceptVars, sock, op, feed, maxBuf, writes, early, pumpVars,
                   pushes, syncVars>>

(* end_serving, last statement: push the ping, new_sample(lsl_clock(),    *)
(* true): a sample like any other, marked pushthrough.                    *)
PushPing ==
    /\ outlet = "es_ping"
    /\ outlet' = "ended"
    /\ cq' = [s \in Sessions |-> IF s \in Consumers THEN Enqueue(s, "f") ELSE cq[s]]
    /\ UNCHANGED <<acceptVars, sessVars, tpc, completed, terr, inChunk, pushes,
                   closing, syncVars>>

(* The owner (the stream outlet) drops its reference to the server.       *)
Release ==
    /\ outlet = "ended"
    /\ outlet' = "released"
    /\ UNCHANGED <<acceptVars, sessVars, pumpVars, pushes, closing,
                   syncVars>>
-----------------------------------------------------------------------------
Next ==
    \/ BeginServing
    \/ \E a \in Acceptors, s \in Sessions : Connect(a, s)
    \/ \E a \in Acceptors : HandleAccept(a)
    \/ CloseAcceptors
    \/ \E s \in Sessions : CloseSession(s)
    \/ \E s \in Sessions, r \in Requests \cup {"err"} : HandleReadCommand(s, r)
    \/ \E s \in Sessions, m \in {"match", "nomatch", "err"} : HandleReadQuery(s, m)
    \/ \E s \in Sessions, ok \in BOOLEAN, b \in MaxBuffered :
          HandleReadFeedparams(s, ok, b)
    \/ \E s \in Sessions, ok \in BOOLEAN : InfoWritten(s, ok)
    \/ \E s \in Sessions, ok \in BOOLEAN : HandleSendFeedheaderOutcome(s, ok)
    \/ \E s \in Sessions, ok \in BOOLEAN : HandleChunkTransferOutcome(s, ok)
    \/ \E s \in Sessions : TransferLoop(s)
    \/ \E s \in Sessions : Pop(s)
    \/ \E s \in Sessions : TransferWake(s)
    \/ \E k \in PushKinds : PushSample(k)
    \/ WriteAllBlocking
    \/ EndServing
    \/ CloseInflightSessions
    \/ PushPing
    \/ Release

(* An operation outstanding on a closed socket completes with an error.   *)
FailsOnClosedSocket(s) ==
    /\ sock[s] = "closed"
    /\ \/ HandleReadCommand(s, "err")
       \/ HandleReadQuery(s, "err")
       \/ \E b \in MaxBuffered : HandleReadFeedparams(s, FALSE, b)
       \/ InfoWritten(s, FALSE)
       \/ HandleSendFeedheaderOutcome(s, FALSE)
       \/ HandleChunkTransferOutcome(s, FALSE)

(* The io thread runs every queued handler and asio completes operations  *)
(* on closed sockets; transfer threads run while not blocked; end_serving *)
(* runs to its end once called.  Clients, the owner's calls and its       *)
(* release of the server are not assumed to happen.  Fairness is stated   *)
(* for the sessions together: every thread's work is bounded in the      *)
(* model, so no session can be starved by another one for ever.          *)
Spec ==
    /\ Init /\ [][Next]_vars
    /\ WF_vars(CloseAcceptors)
    /\ \A a \in Acceptors : WF_vars(HandleAccept(a))
    /\ WF_vars(\E s \in Sessions : CloseSession(s))
    /\ WF_vars(\E s \in Sessions : FailsOnClosedSocket(s))
    /\ WF_vars(\E s \in Sessions : TransferLoop(s) \/ Pop(s) \/ TransferWake(s))
    /\ WF_vars(CloseInflightSessions)
    /\ WF_vars(PushPing)
-----------------------------------------------------------------------------
(* Spec 8: a session performs at most one outstanding write at a time.    *)
(* The transfer thread issues a chunk only after the previous chunk's    *)
(* completion handler ran, and the io thread's writes (info, status,     *)
(* header) precede the thread.                                            *)
OneWriteInFlight ==
    \A s \in Sessions : Len(writes[s]) <= 1

(* Spec 4.6: the ping pushed by end_serving lets blocked transfer threads *)
(* "advance and observe the expired server reference": once the server   *)
(* has expired, every transfer thread eventually exits.                  *)
PumpsExit ==
    Expired ~> \A s \in Sessions : tpc[s] \notin {"loop", "pop", "wait"}

(* After end_serving, the accept loops end: every acceptor's handler     *)
(* chain stops once its acceptor is closed.                               *)
AcceptLoopsEnd ==
    outlet = "released" ~> \A a \in Acceptors : accState[a] = "none"
=============================================================================
