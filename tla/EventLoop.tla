----------------------------- MODULE EventLoop -----------------------------
(***************************************************************************)
(* The poll loop of the C server (src/c/src/server.c), the buffers and     *)
(* the life of a session (session.c), and the deferred close of a stream   *)
(* (stream.c).  One thread runs everything; what interleaves with it are   *)
(* the clients (data, half-close, reset, at any moment, also between       *)
(* poll() and the read that it announced), the kernel (how much a write    *)
(* takes) and the signal handler.                                          *)
(*                                                                         *)
(* The stanza handlers are seen through what they do to this layer, while  *)
(* xmlParseChunk is on the stack: they write to any sessions (OnStanza),   *)
(* close the stream of the session being read (OnStreamClose,              *)
(* OnStreamError) or, on a resource conflict, that of another session      *)
(* (OnBindConflict).  A connection c stands for its descriptor and for its *)
(* session_t; both can be reused once closed.  Allocation failures are     *)
(* left out.                                                               *)
(***************************************************************************)
EXTENDS Naturals

CONSTANTS
  Conns,        \* descriptors of client connections
  NULL,         \* no session / no descriptor
  MAX_CLIENTS,  \* size of pollfds[] and sessions[], slot 0 is the listener
  READ_BUF,     \* size of read_buf, in units of input
  MaxOut,       \* bound: units of unsent output that are told apart
  MaxStanzas,   \* bound: handler calls during one xmlParseChunk
  Signals,      \* the signals that may arrive: {} or {SIGTERM}
  Departures    \* how a client may leave: a subset of {"fin", "reset"}

ASSUME ConstAssumption ==
  /\ NULL \notin Conns
  /\ MAX_CLIENTS \in Nat \ {0, 1}
  /\ READ_BUF \in Nat \ {0, 1}
  /\ MaxOut \in Nat \ {0}
  /\ MaxStanzas \in Nat
  /\ Departures \subseteq {"fin", "reset"}

VARIABLES
  pollfds,          \* [slot -> [fd, events, revents]]
  sessions,         \* [slot -> session or NULL]
  nfds,             \* slots in use
  poll_index,       \* [session -> its slot]
  write_len,        \* [session -> unsent output]
  in_xml_parse,     \* [session -> xmlParseChunk is on the stack]
  teardown_pending, \* [session -> close after the parse]
  shutdown_flag,    \* set by the signal handler
  pc, i, cur,       \* server_run: where it is, its index; the s of session_on_readable
  stanzas,          \* handler calls left in this chunk
  conn,             \* [c -> "free", "backlog" (not yet accepted) or "open"]
  peer,             \* [c -> "open", "fin" (half-closed) or "reset"]
  inbuf             \* [c -> input waiting in the kernel]

tableVars == <<pollfds, sessions, nfds, poll_index, write_len>>
flagVars == <<in_xml_parse, teardown_pending>>
netVars == <<conn, peer, inbuf>>
loopVars == <<pc, i, cur, stanzas>>
vars == <<tableVars, flagVars, netVars, loopVars, shutdown_flag>>

Slots == 0..(MAX_CLIENTS - 1)
FreeSlot == [fd |-> NULL, events |-> {}, revents |-> {}]
Live == {c \in Conns : conn[c] = "open"}

Init ==
  /\ pollfds = [k \in Slots |-> IF k = 0 THEN [FreeSlot EXCEPT !.events = {"IN"}]
                                         ELSE FreeSlot]
  /\ sessions = [k \in Slots |-> NULL]
  /\ nfds = 1
  /\ poll_index = [c \in Conns |-> 0]
  /\ write_len = [c \in Conns |-> 0]
  /\ in_xml_parse = [c \in Conns |-> FALSE]
  /\ teardown_pending = [c \in Conns |-> FALSE]
  /\ shutdown_flag = FALSE
  /\ pc = "poll" /\ i = 1 /\ cur = NULL /\ stanzas = 0
  /\ conn = [c \in Conns |-> "free"]
  /\ peer = [c \in Conns |-> "open"]
  /\ inbuf = [c \in Conns |-> 0]
-----------------------------------------------------------------------------
(* Clients, kernel and signals. *)

Connect(c) ==
  /\ conn[c] = "free"
  /\ conn' = [conn EXCEPT ![c] = "backlog"]
  /\ UNCHANGED <<tableVars, flagVars, loopVars, shutdown_flag, peer, inbuf>>

(* The kernel may hold more input than one read takes. *)
PeerSend(c) ==
  /\ conn[c] # "free" /\ peer[c] = "open" /\ inbuf[c] < READ_BUF
  /\ \E n \in (inbuf[c] + 1)..READ_BUF : inbuf' = [inbuf EXCEPT ![c] = n]
  /\ UNCHANGED <<tableVars, flagVars, loopVars, shutdown_flag, conn, peer>>

(* After a reset what was not read is lost. *)
PeerLeave(c, how) ==
  /\ conn[c] # "free" /\ peer[c] # "reset" /\ peer[c] # how
  /\ peer' = [peer EXCEPT ![c] = how]
  /\ inbuf' = [inbuf EXCEPT ![c] = IF how = "reset" THEN 0 ELSE @]
  /\ UNCHANGED <<tableVars, flagVars, loopVars, shutdown_flag, conn>>

Signal ==
  /\ Signals # {} /\ ~shutdown_flag /\ pc # "stopped"
  /\ shutdown_flag' = TRUE
  /\ UNCHANGED <<tableVars, flagVars, loopVars, netVars>>

(* close(): the kernel forgets the connection and its unread input. *)
CloseConn(c) ==
  /\ conn' = [conn EXCEPT ![c] = "free"]
  /\ peer' = [peer EXCEPT ![c] = "open"]
  /\ inbuf' = [inbuf EXCEPT ![c] = 0]

Readable(c) == inbuf[c] > 0 \/ peer[c] # "open"
-----------------------------------------------------------------------------
(* session_write to every session of W, seen from the poll array. *)
WithOut(pf, W) ==
  [k \in Slots |-> IF \E c \in W : poll_index[c] = k
                     THEN [pf[k] EXCEPT !.events = @ \cup {"OUT"}] ELSE pf[k]]
More(n) == IF n < MaxOut THEN n + 1 ELSE n
Written(W) == [c \in Conns |-> IF c \in W THEN More(write_len[c]) ELSE write_len[c]]

session_write(W) ==
  /\ pollfds' = WithOut(pollfds, W)
  /\ write_len' = Written(W)

(* mutant: POLLOUT is cleared after a partial write too *)
Drained_Partial(pf, s, left) == [pf EXCEPT ![poll_index[s]].events = @ \ {"OUT"}]

(* session_flush on what poll array pf and length n are, of which left stays
   unsent; POLLOUT goes when nothing is left. *)
Drained(pf, s, left) ==
  IF left = 0 THEN [pf EXCEPT ![poll_index[s]].events = @ \ {"OUT"}] ELSE pf

(* server_remove_session on an array: entry idx is overwritten by the last. *)
SwapLast(arr, idx, empty) ==
  IF idx \in 1..(nfds - 1)
    THEN [k \in Slots |-> CASE k = nfds - 1 -> empty
                            [] k = idx /\ k # nfds - 1 -> arr[nfds - 1]
                            [] OTHER -> arr[k]]
    ELSE arr

(* mutant: the session that was moved keeps its old poll_index *)
Reindexed_Stale(s, idx) == [poll_index EXCEPT ![s] = 0]

(* server_remove_session: the back-pointers once s has left slot idx. *)
Reindexed(s, idx) ==
  [c \in Conns |-> CASE c = s -> 0
                     [] c # s /\ idx \in 1..(nfds - 1) /\ c = sessions[nfds - 1] -> idx
                     [] OTHER -> poll_index[c]]

(* mutant: the entries above are moved down by one *)
session_teardown_Shift(s, W) ==
  LET idx == poll_index[s]
      Shift(arr, empty) == [k \in Slots |-> CASE k = nfds - 1 -> empty
                                              [] k # nfds - 1 /\ k >= idx /\ k < nfds -> arr[k + 1]
                                              [] OTHER -> arr[k]] IN
  /\ pollfds' = Shift(WithOut(pollfds, W), FreeSlot)
  /\ sessions' = Shift(sessions, NULL)
  /\ poll_index' = [c \in Conns |-> CASE c = s -> 0
                                     [] c # s /\ poll_index[c] > idx -> poll_index[c] - 1
                                     [] OTHER -> poll_index[c]]
  /\ nfds' = nfds - 1
  /\ write_len' = [Written(W) EXCEPT ![s] = 0]
  /\ in_xml_parse' = [in_xml_parse EXCEPT ![s] = FALSE]
  /\ teardown_pending' = [teardown_pending EXCEPT ![s] = FALSE]
  /\ CloseConn(s)

(* session_teardown: presence_broadcast_unavailable writes to W, then
   server_remove_session and session_destroy. *)
session_teardown(s, W) ==
  LET idx == poll_index[s] IN
  /\ pollfds' = SwapLast(WithOut(pollfds, W), idx, FreeSlot)
  /\ sessions' = SwapLast(sessions, idx, NULL)
  /\ poll_index' = Reindexed(s, idx)
  /\ nfds' = IF idx \in 1..(nfds - 1) THEN nfds - 1 ELSE nfds
  /\ write_len' = [Written(W) EXCEPT ![s] = 0]
  /\ in_xml_parse' = [in_xml_parse EXCEPT ![s] = FALSE]
  /\ teardown_pending' = [teardown_pending EXCEPT ![s] = FALSE]
  /\ CloseConn(s)
-----------------------------------------------------------------------------
(* server_run *)

(* mutant: the loop does not look at the flag *)
Running_Always == TRUE

(* while (!shutdown_flag) *)
Running == ~shutdown_flag

(* What poll() reports for slot k: readiness is certain for input and hang-up;
   room for output, where it is asked for, is the kernel's choice (roomy). *)
Revents(k, roomy) ==
  LET c == pollfds[k].fd IN
  IF k = 0 THEN {e \in {"IN"} : \E b \in Conns : conn[b] = "backlog"}
  ELSE {e \in {"IN"} : Readable(c)} \cup {e \in {"HUP"} : peer[c] = "reset"}
         \cup {e \in {"OUT"} : "OUT" \in pollfds[k].events /\ c \in roomy}

Poll ==
  /\ pc = "poll" /\ Running
  /\ \E roomy \in SUBSET Live :
       pollfds' = [k \in Slots |-> IF k < nfds THEN [pollfds[k] EXCEPT !.revents = Revents(k, roomy)]
                                               ELSE pollfds[k]]
  /\ pc' = "accept"
  /\ UNCHANGED <<sessions, nfds, poll_index, write_len, flagVars, netVars, i, cur, stanzas, shutdown_flag>>

(* mutant: off by one *)
TableFull_OffByOne == nfds > MAX_CLIENTS

TableFull == nfds >= MAX_CLIENTS

(* server_accept: one connection of the backlog, refused when the table is full. *)
Accept(c) ==
  /\ conn[c] = "backlog"
  /\ IF TableFull
       THEN CloseConn(c) /\ UNCHANGED tableVars
       ELSE /\ conn' = [conn EXCEPT ![c] = "open"] /\ UNCHANGED <<peer, inbuf>>
            /\ poll_index' = [poll_index EXCEPT ![c] = nfds]
            /\ pollfds' = [pollfds EXCEPT ![nfds] = [fd |-> c, events |-> {"IN"}, revents |-> {}]]
            /\ sessions' = [sessions EXCEPT ![nfds] = c]
            /\ nfds' = nfds + 1
            /\ write_len' = [write_len EXCEPT ![c] = 0]

AcceptPhase ==
  /\ pc = "accept"
  /\ \/ "IN" \in pollfds[0].revents /\ \E c \in Conns : Accept(c)
     \/ "IN" \notin pollfds[0].revents /\ UNCHANGED <<tableVars, netVars>>
  /\ pc' = "scan" /\ i' = 1
  /\ UNCHANGED <<flagVars, cur, stanzas, shutdown_flag>>

Scanning == pc = "scan" /\ i < nfds

ScanEnd ==
  /\ pc = "scan" /\ i >= nfds
  /\ pc' = "poll" /\ i' = 1
  /\ UNCHANGED <<tableVars, flagVars, netVars, cur, stanzas, shutdown_flag>>

(* i-- and the loop's i++ leave i where the last session has been moved. *)
ScanHup ==
  /\ Scanning /\ "HUP" \in pollfds[i].revents
  /\ \E W \in SUBSET (Live \ {sessions[i]}) : session_teardown(sessions[i], W)
  /\ UNCHANGED <<loopVars, shutdown_flag>>

(* mutant: every slot is scanned again after its read *)
AfterRead_Rescan == pc' = "scan" /\ UNCHANGED i

(* After session_on_readable: an emptied slot is scanned again, a slot that
   holds a session (maybe another one) goes on to its POLLOUT check. *)
AfterRead == pc' = (IF sessions'[i] = NULL THEN "scan" ELSE "out") /\ UNCHANGED i

(* mutant: the end of the stream is taken for a read of nothing *)
ReadFails_NoEof(s) == peer[s] = "reset" \/ inbuf[s] >= READ_BUF

(* read() fails, reports the end of the stream, finds nothing, or fills the
   buffer. *)
ReadFails(s) == peer[s] = "reset" \/ inbuf[s] = 0 \/ inbuf[s] >= READ_BUF

(* session_on_readable, when it closes the session *)
ScanReadFail ==
  LET s == sessions[i] IN
  /\ Scanning /\ "HUP" \notin pollfds[i].revents /\ "IN" \in pollfds[i].revents
  /\ ReadFails(s)
  /\ \E W \in SUBSET (Live \ {s}) : session_teardown(s, W)
  /\ AfterRead
  /\ UNCHANGED <<cur, stanzas, shutdown_flag>>

(* session_on_readable, up to the call of xmlParseChunk *)
ScanRead ==
  LET s == sessions[i] IN
  /\ Scanning /\ "HUP" \notin pollfds[i].revents /\ "IN" \in pollfds[i].revents
  /\ ~ReadFails(s)
  /\ inbuf' = [inbuf EXCEPT ![s] = 0]
  /\ in_xml_parse' = [in_xml_parse EXCEPT ![s] = TRUE]
  /\ cur' = s /\ stanzas' = MaxStanzas /\ pc' = "parse"
  /\ UNCHANGED <<tableVars, teardown_pending, conn, peer, i, shutdown_flag>>

Handling == pc = "parse" /\ stanzas > 0 /\ stanzas' = stanzas - 1

(* A stanza handler answers, and forwards to other sessions. *)
OnStanza ==
  /\ Handling
  /\ \E W \in SUBSET Live : session_write(W)
  /\ UNCHANGED <<sessions, nfds, poll_index, flagVars, netVars, pc, i, cur, shutdown_flag>>

(* stream_handle_close on the session being read. *)
OnStreamClose ==
  /\ Handling
  /\ IF in_xml_parse[cur]
       THEN /\ session_write({cur})
            /\ teardown_pending' = [teardown_pending EXCEPT ![cur] = TRUE]
            /\ UNCHANGED <<sessions, nfds, poll_index, in_xml_parse, netVars>>
       ELSE \E W \in SUBSET (Live \ {cur}) : session_teardown(cur, W)
  /\ UNCHANGED <<pc, i, cur, shutdown_flag>>

(* mutant: the session goes at once, parse or not *)
stream_send_error_AtOnce(x) == \E W \in SUBSET (Live \ {x}) : session_teardown(x, W)

(* stream_send_error: the error is written and flushed as far as the kernel
   takes it, then the session goes now, or after the parse it is in. *)
stream_send_error(x) ==
  IF in_xml_parse[x]
    THEN \E left \in 0..More(write_len[x]) :
           /\ pollfds' = Drained(WithOut(pollfds, {x}), x, left)
           /\ write_len' = [write_len EXCEPT ![x] = left]
           /\ teardown_pending' = [teardown_pending EXCEPT ![x] = TRUE]
           /\ UNCHANGED <<sessions, nfds, poll_index, in_xml_parse, netVars>>
    ELSE \E W \in SUBSET (Live \ {x}) : session_teardown(x, W)

(* The session being read: a stream error of a handler; a parse error
   (on_structured_error) and an account removal, which only defer the close,
   are the cases that leave its output as it was. *)
OnStreamError ==
  /\ Handling /\ stream_send_error(cur)
  /\ UNCHANGED <<pc, i, cur, shutdown_flag>>

(* session_handle_bind: "conflict" to another session, which is not in a parse. *)
OnBindConflict ==
  /\ Handling /\ \E x \in Live \ {cur} : stream_send_error(x)
  /\ UNCHANGED <<pc, i, cur, shutdown_flag>>

(* mutant: teardown_pending is not looked at *)
ParseEnd_Forgets ==
  /\ pc = "parse"
  /\ in_xml_parse' = [in_xml_parse EXCEPT ![cur] = FALSE]
  /\ UNCHANGED <<tableVars, teardown_pending, netVars, shutdown_flag>>
  /\ AfterRead
  /\ cur' = NULL /\ stanzas' = 0

(* xmlParseChunk returns; a deferred close is carried out. *)
ParseEnd ==
  /\ pc = "parse"
  /\ IF teardown_pending[cur]
       THEN \E W \in SUBSET (Live \ {cur}) : session_teardown(cur, W)
       ELSE /\ in_xml_parse' = [in_xml_parse EXCEPT ![cur] = FALSE]
            /\ UNCHANGED <<tableVars, teardown_pending, netVars>>
  /\ AfterRead
  /\ cur' = NULL /\ stanzas' = 0
  /\ UNCHANGED shutdown_flag

ScanIdle ==
  /\ Scanning /\ pollfds[i].revents \cap {"IN", "HUP"} = {}
  /\ pc' = "out"
  /\ UNCHANGED <<tableVars, flagVars, netVars, i, cur, stanzas, shutdown_flag>>

(* mutant: i++ twice *)
NextSlot_Twice == pc' = "scan" /\ i' = i + 2

NextSlot == pc' = "scan" /\ i' = i + 1

OutIdle ==
  /\ pc = "out" /\ "OUT" \notin pollfds[i].revents
  /\ NextSlot
  /\ UNCHANGED <<tableVars, flagVars, netVars, cur, stanzas, shutdown_flag>>

(* session_on_writable *)
OutFlush ==
  LET s == sessions[i] IN
  /\ pc = "out" /\ "OUT" \in pollfds[i].revents
  /\ \/ /\ peer[s] # "reset" \/ write_len[s] = 0
        /\ \E left \in 0..write_len[s] :
             /\ pollfds' = IF write_len[s] = 0 THEN pollfds ELSE Drained(pollfds, s, left)
             /\ write_len' = [write_len EXCEPT ![s] = left]
        /\ NextSlot
        /\ UNCHANGED <<sessions, nfds, poll_index, flagVars, netVars>>
     \/ /\ peer[s] = "reset" /\ write_len[s] > 0
        /\ \E W \in SUBSET (Live \ {s}) : session_teardown(s, W)
        /\ pc' = "scan" /\ i' = IF sessions'[i] = NULL THEN i ELSE i + 1
  /\ UNCHANGED <<cur, stanzas, shutdown_flag>>

(* server_shutdown: a last message, and every session is destroyed in place. *)
Shutdown ==
  /\ pc = "poll" /\ ~Running
  /\ pc' = "stopped"
  /\ sessions' = [k \in Slots |-> IF k \in 1..(nfds - 1) THEN NULL ELSE sessions[k]]
  /\ nfds' = 1
  /\ write_len' = [c \in Conns |-> 0]
  /\ in_xml_parse' = [c \in Conns |-> FALSE]
  /\ teardown_pending' = [c \in Conns |-> FALSE]
  /\ conn' = [c \in Conns |-> "free"]
  /\ peer' = [c \in Conns |-> "open"]
  /\ inbuf' = [c \in Conns |-> 0]
  /\ poll_index' = [c \in Conns |-> 0]
  /\ UNCHANGED <<pollfds, i, cur, stanzas, shutdown_flag>>
-----------------------------------------------------------------------------
Server ==
  \/ Poll \/ AcceptPhase \/ ScanEnd \/ ScanHup \/ ScanReadFail \/ ScanRead
  \/ OnStanza \/ OnStreamClose \/ OnStreamError \/ OnBindConflict \/ ParseEnd
  \/ ScanIdle \/ OutIdle \/ OutFlush \/ Shutdown

Environment ==
  \/ Signal
  \/ pc # "stopped" /\ \E c \in Conns :
       Connect(c) \/ PeerSend(c) \/ \E how \in Departures : PeerLeave(c, how)

Next == Server \/ Environment

Spec == Init /\ [][Next]_vars

(* The process is not suspended: the loop takes its next step. *)
FairSpec == Spec /\ WF_vars(Server)
-----------------------------------------------------------------------------
(* Properties *)

(* The types of the state; nfds and the loop index stay within the arrays of
   MAX_CLIENTS entries (server_accept, server_remove_session). *)
TypeOK ==
  /\ pollfds \in [Slots -> [fd : Conns \cup {NULL}, events : SUBSET {"IN", "OUT"},
                            revents : SUBSET {"IN", "OUT", "HUP"}]]
  /\ sessions \in [Slots -> Conns \cup {NULL}]
  /\ nfds \in 1..MAX_CLIENTS
  /\ poll_index \in [Conns -> Slots]
  /\ write_len \in [Conns -> 0..MaxOut]
  /\ in_xml_parse \in [Conns -> BOOLEAN]
  /\ teardown_pending \in [Conns -> BOOLEAN]
  /\ shutdown_flag \in BOOLEAN
  /\ pc \in {"poll", "accept", "scan", "parse", "out", "stopped"}
  /\ i \in 1..MAX_CLIENTS
  /\ cur \in Conns \cup {NULL}
  /\ stanzas \in 0..MaxStanzas
  /\ conn \in [Conns -> {"free", "backlog", "open"}]
  /\ peer \in [Conns -> {"open", "fin", "reset"}]
  /\ inbuf \in [Conns -> 0..READ_BUF]

(* The two arrays, the descriptors and the back-pointers agree: slots
   1 .. nfds-1 hold each open session exactly once, with its own descriptor
   and its own poll_index; the slots above are empty.  It is what makes
   session_write, session_flush and server_remove_session touch the right
   entry after any number of swaps. *)
TableOK ==
  pc # "stopped" =>
    /\ \A k \in 1..(nfds - 1) :
         /\ sessions[k] \in Live
         /\ pollfds[k].fd = sessions[k]
         /\ poll_index[sessions[k]] = k
    /\ \A k \in nfds..(MAX_CLIENTS - 1) : sessions[k] = NULL /\ pollfds[k] = FreeSlot
    /\ \A c \in Live : poll_index[c] \in 1..(nfds - 1) /\ sessions[poll_index[c]] = c

(* A session waits for POLLOUT exactly when it has unsent output: nothing
   is stuck in write_buf, and an idle session does not wake the loop. *)
PollOutWhenPending ==
  pc # "stopped" =>
    \A c \in Live : "OUT" \in pollfds[poll_index[c]].events <=> write_len[c] > 0

(* The session whose parser is on the stack is alive and is the only one
   inside a parse: nothing a handler does frees it under xmlParseChunk. *)
ParserAlive ==
  /\ pc = "parse" => cur \in Live /\ in_xml_parse[cur]
  /\ \A c \in Conns : in_xml_parse[c] => pc = "parse" /\ cur = c

(* A close that was put off (stream error, stream end, account removal) is
   carried out as soon as the parser returns: it never outlives the parse. *)
CloseNotForgotten ==
  \A c \in Conns : teardown_pending[c] => pc = "parse" /\ cur = c

(* A session whose client is connected, and did not overrun read_buf, is
   dropped only by a handler (conflict, stream error, stream end) or by the
   shutdown of the server.  session_on_readable treats a read that finds
   nothing (EAGAIN) as the end of the connection, so what poll() reported for
   a slot has to be true still when the loop gets there, whatever was moved
   into the slot. *)
HealthyKept ==
  [][\A c \in Live : conn'[c] = "free" =>
       \/ peer[c] # "open"
       \/ inbuf[c] >= READ_BUF
       \/ pc = "parse"
       \/ shutdown_flag /\ pc = "poll"]_vars

(* Each step changes the list of sessions as the abstract table allows. *)
Table == INSTANCE ClientTable WITH tab <- [k \in 1..(nfds - 1) |-> sessions[k]]
ImplementsTable == Table!Spec

(* A session with input waiting is read, or closed, although a swap can move
   it behind the scan and hide its POLLIN for a round. *)
InputServed == \A c \in Conns : (c \in Live /\ inbuf[c] > 0) ~> (c \notin Live \/ inbuf[c] = 0)

(* A client that left is noticed and its session freed. *)
GoneReaped == \A c \in Conns : (c \in Live /\ peer[c] # "open") ~> (c \notin Live)

(* A signal ends the server, whatever the clients do. *)
SignalStops == shutdown_flag ~> pc = "stopped"
=============================================================================
