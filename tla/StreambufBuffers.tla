--------------------------- MODULE StreambufBuffers ---------------------------
(***************************************************************************)
(* The data path of cancellable_streambuf: the get buffer behind underflow *)
(* and xsgetn, the scatter receive of recv/async_receive_all into the      *)
(* caller's buffer and the get buffer, and the put buffer behind sputc,    *)
(* overflow, sync, close and the destructor.  The user thread is the only  *)
(* actor besides the peer; run_io_ctx is abstracted to the completions it  *)
(* runs (the cancellation race is CancellableStreambuf's).                 *)
(*                                                                         *)
(* The peer's outgoing bytes are the fixed sequence Stream, read through   *)
(* rpos; TCP splits it into receives of any size.  The peer may reset the  *)
(* connection at any time.  The std::streambuf fast paths (sbumpc, sputc   *)
(* with room in the buffer) are part of the actions that call into this    *)
(* code.                                                                   *)
(***************************************************************************)
EXTENDS Integers, SequencesExt

CONSTANTS
    Stream,     \* the bytes the peer sends, in order (values other than 0)
    GetCap,     \* buffer_size - putback_max: room of the get buffer
    PutCap,     \* buffer_size: room of the put buffer
    Counts,     \* sizes the user passes to sgetn
    Chars,      \* characters the user writes
    MaxCalls,   \* bound on the user's calls
    EOF         \* traits_type::eof()

ASSUME GetCap >= 1 /\ PutCap >= 1 /\ Counts \subseteq Nat \ {0} /\ EOF \notin Chars

VARIABLES
    upc,      \* "idle", "recv" (inside run_io_ctx for a receive) or "gone"
    call,     \* the receive in progress: kind, count, s, base, filled, bt
    garr,     \* get_buffer_ past the putback area (GetCap bytes)
    glo, ghi, \* gptr() and egptr() as offsets into garr
    rpos,     \* bytes of Stream the socket has delivered
    p,        \* the put buffer [pbase(), pptr())
    open,     \* socket().is_open()
    reset,    \* the peer reset the connection
    failed,   \* history: a receive failed (its partial bytes are dropped)
    ncalls,   \* calls so far
    got,      \* history: the bytes the user obtained, in order
    put,      \* history: the bytes the user wrote and the streambuf accepted
    peerGot   \* history: the bytes that reached the peer

vars == <<upc, call, garr, glo, ghi, rpos, p, open, reset, failed, ncalls, got, put, peerGot>>

Lesser(a, b) == IF a <= b THEN a ELSE b

(* The readable bytes [gptr(), egptr()).                                   *)
Window == SubSeq(garr, glo + 1, ghi)

(* A connected stream: the constructor's init_buffers and connect().       *)
Init ==
    /\ upc = "idle" /\ call = [kind |-> "none"]
    /\ garr = [i \in 1..GetCap |-> 0] /\ glo = 0 /\ ghi = 0
    /\ rpos = 0 /\ p = <<>> /\ open = TRUE /\ reset = FALSE /\ failed = FALSE
    /\ ncalls = 0
    /\ got = <<>> /\ put = <<>> /\ peerGot = <<>>

UserCall == upc = "idle" /\ ncalls < MaxCalls /\ ncalls' = ncalls + 1

-----------------------------------------------------------------------------
(* sbumpc: a buffered byte, else underflow(), which calls recv() with no   *)
(* target: a single async_receive into the get buffer.                     *)
Sbumpc ==
    /\ UserCall
    /\ IF glo < ghi
       THEN /\ got' = Append(got, garr[glo + 1]) /\ glo' = glo + 1
            /\ UNCHANGED <<upc, call>>
       ELSE /\ upc' = "recv"
            /\ call' = [kind |-> "bumpc", count |-> 0, s |-> <<>>, base |-> 0,
                        filled |-> 0, bt |-> 0]
            /\ UNCHANGED <<got, glo>>
    /\ UNCHANGED <<failed, garr, ghi, rpos, p, open, reset, put, peerGot>>

(* xsgetn(s, count): copy min(egptr() - gptr(), count) buffered bytes; if  *)
(* that is all, return; else recv(s + buffered, count - buffered).         *)
Xsgetn(count) ==
    /\ UserCall
    /\ LET buffered == Lesser(ghi - glo, count)
           s0 == [i \in 1..count |-> IF i <= buffered THEN garr[glo + i] ELSE 0]
       IN  /\ glo' = glo + buffered
           /\ IF buffered = count
              THEN /\ got' = got \o s0 /\ UNCHANGED <<upc, call>>
              ELSE /\ upc' = "recv"
                   /\ call' = [kind |-> "getn", count |-> count, s |-> s0,
                               base |-> buffered, filled |-> 0, bt |-> 0]
                   /\ UNCHANGED got
    /\ UNCHANGED <<failed, garr, ghi, rpos, p, open, reset, put, peerGot>>

(* The receive's target: the caller's bytes still unfilled (bufs[0]).      *)
TargetLeft == call.count - call.base - call.filled

(* Mutant: async_receive_all without bufs[0] += n.                         *)
ScatterNoAdvance(s, base, filled, data, k) ==
    [i \in 1..Len(s) |-> IF base < i /\ i <= base + k THEN data[i - base] ELSE s[i]]

(* The first k bytes of a completion land in bufs[0], at its current start. *)
Scatter(s, base, filled, data, k) ==
    [i \in 1..Len(s) |-> IF base + filled < i /\ i <= base + filled + k
                         THEN data[i - base - filled] ELSE s[i]]

(* A receive completes with n bytes.  async_receive_all adds n to          *)
(* bytes_transferred and re-issues itself while n < bufs[0].size(); the    *)
(* bytes past bufs[0] fill the get buffer from its start.  When no receive *)
(* is re-issued, run_io_ctx returns true and recv() calls                  *)
(* init_get_buffer(bytes_transferred - target_size); underflow hands out   *)
(* *gptr() (gbumped by sbumpc), xsgetn returns count.                      *)
ReceiveSome(n) ==
    /\ upc = "recv" /\ open /\ ~reset
    /\ n <= Len(Stream) - rpos /\ n <= TargetLeft + GetCap
    /\ LET data == SubSeq(Stream, rpos + 1, rpos + n)
           k == Lesser(n, TargetLeft)
           s1 == Scatter(call.s, call.base, call.filled, data, k)
           g1 == [i \in 1..GetCap |-> IF i <= n - k THEN data[k + i] ELSE garr[i]]
           bt1 == call.bt + n
       IN  /\ rpos' = rpos + n
           /\ garr' = g1
           /\ IF call.kind = "getn" /\ n < TargetLeft
              THEN /\ call' = [call EXCEPT !.s = s1, !.filled = @ + n, !.bt = bt1]
                   /\ UNCHANGED <<upc, glo, ghi, got>>
              ELSE /\ upc' = "idle" /\ call' = [kind |-> "none"]
                   /\ ghi' = bt1 - (call.count - call.base)
                   /\ IF call.kind = "bumpc"
                      THEN got' = Append(got, g1[1]) /\ glo' = 1
                      ELSE got' = got \o s1 /\ glo' = 0
    /\ UNCHANGED <<failed, p, open, reset, ncalls, put, peerGot>>

(* The receive completes with an error: end of stream, the reset, or       *)
(* bad_descriptor on a closed socket.  ec_ is set, run_io_ctx returns      *)
(* false and recv() returns eof without touching the get buffer, so        *)
(* underflow and xsgetn return eof.                                        *)
ReceiveFails ==
    /\ upc = "recv"
    /\ (rpos = Len(Stream) \/ reset \/ ~open)
    /\ upc' = "idle" /\ call' = [kind |-> "none"] /\ failed' = TRUE
    /\ UNCHANGED <<garr, glo, ghi, rpos, p, open, reset, ncalls, got, put, peerGot>>

-----------------------------------------------------------------------------
(* Mutant: the new character stored without pbump(1).                     *)
ResetPutDropsChar(c) == <<>>

(* After a successful write: setp() empties the put buffer, and c, unless  *)
(* eof, is stored at pptr() and pbump(1) counts it.                        *)
ResetPut(c) == IF c = EOF THEN <<>> ELSE <<c>>

(* overflow(c): async_write of [pbase(), pptr()) and run_io_ctx.  An empty *)
(* write completes at once with success.  On success the put buffer is     *)
(* reset and c, unless eof, becomes its first byte.  On failure (the peer  *)
(* resets during the write, or the socket is gone) a prefix of it may have *)
(* been sent, overflow returns eof and the put buffer is left as it is.    *)
Flush(c, fail) ==
    \/ /\ ~fail /\ (p = <<>> \/ (open /\ ~reset))
       /\ peerGot' = peerGot \o p
       /\ p' = ResetPut(c)
       /\ put' = IF c = EOF THEN put ELSE Append(put, c)
       /\ UNCHANGED reset
    \/ /\ fail /\ p # <<>>
       /\ \E k \in 0..Len(p) :
             /\ ((~open \/ reset) => k = 0)
             /\ peerGot' = peerGot \o SubSeq(p, 1, k)
       /\ reset' = (reset \/ open)
       /\ UNCHANGED <<p, put>>

(* sputc(c): into the put buffer while there is room, else overflow(c).    *)
Sputc(c) ==
    /\ UserCall
    /\ IF Len(p) < PutCap
       THEN /\ p' = Append(p, c) /\ put' = Append(put, c)
            /\ UNCHANGED <<reset, peerGot>>
       ELSE \E fail \in BOOLEAN : Flush(c, fail)
    /\ UNCHANGED <<failed, upc, call, garr, glo, ghi, rpos, open, got>>

(* sync() is overflow(eof).                                                *)
Sync ==
    /\ UserCall
    /\ \E fail \in BOOLEAN : Flush(EOF, fail)
    /\ UNCHANGED <<failed, upc, call, garr, glo, ghi, rpos, open, got>>

(* close(): sync(), then close_if_open() shuts down and closes the socket. *)
(* Left out: close_if_open's cancelled_ = true (every later operation on  *)
(* the closed socket fails anyway), and close()'s return value !ec_, which *)
(* the close overwrites and no caller in the repository reads.            *)
Close ==
    /\ UserCall
    /\ \E fail \in BOOLEAN : Flush(EOF, fail)
    /\ open' = FALSE
    /\ UNCHANGED <<failed, upc, call, garr, glo, ghi, rpos, got>>

(* Mutant: the destructor's test pptr() != pbase() inverted.               *)
DestroyFlushInverted ==
    IF p = <<>> THEN \E fail \in BOOLEAN : Flush(EOF, fail)
    ELSE UNCHANGED <<p, put, peerGot, reset>>

(* ~cancellable_streambuf: overflow(eof) if the put buffer is not empty.   *)
DestroyFlush ==
    IF p # <<>> THEN \E fail \in BOOLEAN : Flush(EOF, fail)
    ELSE UNCHANGED <<p, put, peerGot, reset>>

(* The owner destroys the stream; the socket's destructor closes it.       *)
Destroy ==
    /\ upc = "idle" /\ upc' = "gone"
    /\ DestroyFlush
    /\ open' = FALSE
    /\ UNCHANGED <<failed, call, garr, glo, ghi, rpos, ncalls, got>>

(* The peer resets the connection.                                         *)
PeerReset ==
    /\ upc # "gone" /\ open /\ ~reset /\ reset' = TRUE
    /\ UNCHANGED <<failed, upc, call, garr, glo, ghi, rpos, p, open, ncalls, got, put, peerGot>>

Next ==
    \/ Sbumpc
    \/ \E n \in Counts : Xsgetn(n)
    \/ \E n \in 1..(Len(Stream)) : ReceiveSome(n)
    \/ ReceiveFails
    \/ \E c \in Chars : Sputc(c)
    \/ Sync
    \/ Close
    \/ Destroy
    \/ PeerReset

Spec == Init /\ [][Next]_vars

-----------------------------------------------------------------------------
(* Between calls, the bytes the user obtained followed by the readable     *)
(* bytes of the get buffer are a prefix of the peer's stream; while no     *)
(* read failed they are exactly the bytes the socket delivered, so no      *)
(* receive split across the caller's buffer and the get buffer loses,      *)
(* repeats or reorders a byte (recv, async_receive_all, init_get_buffer).  *)
ReadsFollowStream ==
    upc # "recv" =>
        /\ IsPrefix(got \o Window, Stream)
        /\ (~failed => got \o Window = SubSeq(Stream, 1, rpos))

(* The peer receives a prefix of the bytes the user wrote, in order, and   *)
(* on a healthy connection those bytes followed by the put buffer are all  *)
(* the user wrote: overflow neither drops the character it is given nor    *)
(* sends buffered bytes twice.                                             *)
WritesFollowPuts ==
    /\ IsPrefix(peerGot, put)
    /\ (~reset => peerGot \o p = put)

(* close() and the destructor, on a connection the peer did not reset,     *)
(* leave the peer with every byte the user wrote.                          *)
CloseFlushes ==
    [][(open /\ ~open' /\ ~reset') => peerGot' = put']_vars
=============================================================================
