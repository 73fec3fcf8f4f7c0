------------------------------ MODULE GoServer ------------------------------
(***************************************************************************)
(* The Go server: one goroutine for each connection (sessionLoop of        *)
(* src/go/internal/server/server.go), the registry of bound sessions, the  *)
(* displacement of an older session of the same user (handleBind of        *)
(* internal/stanza/stanza.go), and Send and Close of                       *)
(* internal/session/session.go, which any goroutine calls on any session.  *)
(*                                                                         *)
(* A step is what a goroutine does between two points at which the others  *)
(* can interfere: the registry's lock, a session's writeMu, a read or a    *)
(* write of a connection.  A stanza that sends something to other users (a *)
(* message, a presence, an answer that is passed on) is a set of users,    *)
(* looked up and sent to one after the other; what it says                 *)
(* is left out, and so are rosters and files.  A connection is used once.  *)
(***************************************************************************)
EXTENDS Naturals, FiniteSets

CONSTANTS
  Conns,    \* connections, each with its session and its goroutine
  Users,    \* accounts
  NONE,
  MaxBuf    \* bound: stanzas in a session's bufio.Reader when it is closed

ASSUME ConstAssumption ==
  /\ NONE \notin Conns \cup Users
  /\ MaxBuf \in Nat \ {0}

VARIABLES
  byBareJID,  \* [user -> the session registered, or NONE]
  all,        \* sessions that are connected
  state,      \* [c -> State]
  user,       \* [c -> JIDLocal; NONE: not authenticated]
  resource,   \* [c -> JIDResource is set]
  dead,       \* [c -> dead, and the connection is closed]
  writeMu,    \* [c -> the goroutine that holds it, or NONE]
  pc,         \* [c -> what its goroutine does next]
  target,     \* [c -> the session its goroutine is sending to]
  todo,       \* [c -> users its goroutine has still to send to]
  task,       \* [c -> what it is sending for]
  buffered,   \* [c -> stanzas left in the bufio.Reader after the close]
  gone,       \* [c -> the client has left]
  stalled     \* [c -> the client stays, reads no more, and the connection is full]

sessVars == <<state, user, resource>>
goVars == <<pc, target, todo, task>>
vars == <<byBareJID, all, sessVars, dead, writeMu, goVars, buffered, gone, stalled>>

Init ==
  /\ byBareJID = [u \in Users |-> NONE]
  /\ all = {}
  /\ state = [c \in Conns |-> "connected"]
  /\ user = [c \in Conns |-> NONE]
  /\ resource = [c \in Conns |-> FALSE]
  /\ dead = [c \in Conns |-> FALSE]
  /\ writeMu = [c \in Conns |-> NONE]
  /\ pc = [c \in Conns |-> "new"]
  /\ target = [c \in Conns |-> c]
  /\ todo = [c \in Conns |-> {}]
  /\ task = [c \in Conns |-> "stanza"]
  /\ buffered = [c \in Conns |-> 0]
  /\ gone = [c \in Conns |-> FALSE]
  /\ stalled = [c \in Conns |-> FALSE]
-----------------------------------------------------------------------------
(* A client leaves. *)
Leave(c) ==
  /\ ~gone[c] /\ ~dead[c] /\ pc[c] # "new"
  /\ gone' = [gone EXCEPT ![c] = TRUE]
  /\ stalled' = [stalled EXCEPT ![c] = FALSE]
  /\ UNCHANGED <<byBareJID, all, sessVars, dead, writeMu, goVars, buffered>>

(* A client that stays stops reading, for good: it hangs, or the network to it
   is gone.  (One that goes on later has not stalled.) *)
Stall(c) ==
  /\ ~stalled[c] /\ ~gone[c] /\ ~dead[c] /\ pc[c] # "new"
  /\ stalled' = [stalled EXCEPT ![c] = TRUE]
  /\ UNCHANGED <<byBareJID, all, sessVars, dead, writeMu, goVars, buffered, gone>>
-----------------------------------------------------------------------------
At(g, p) == pc[g] = p
Goto(g, p) == pc' = [pc EXCEPT ![g] = p]

(* Run: Accept, addToAll, go sessionLoop *)
Accept(c) ==
  /\ At(c, "new") /\ Goto(c, "read")
  /\ all' = all \cup {c}
  /\ UNCHANGED <<byBareJID, sessVars, dead, writeMu, target, todo, task, buffered, gone, stalled>>

(* ReadStanza returns what the client sent; after the close, what had been
   buffered. *)
Read(c) ==
  /\ At(c, "read")
  /\ IF dead[c]
       THEN buffered[c] > 0 /\ buffered' = [buffered EXCEPT ![c] = @ - 1]
       ELSE ~gone[c] /\ UNCHANGED buffered
  /\ UNCHANGED <<all, dead, writeMu, gone, stalled>>

(* ReadStanza fails once the connection is closed, by either side, and the
   buffer is empty. *)
ReadError(c) ==
  /\ At(c, "read") /\ (gone[c] \/ dead[c]) /\ buffered[c] = 0
  /\ Goto(c, "unregister")
  /\ UNCHANGED <<byBareJID, all, sessVars, dead, writeMu, target, todo, task, buffered, gone, stalled>>

(* The goroutine goes on with Send to t, for k, and then to users U. *)
Sending(g, t, k, U) ==
  /\ Goto(g, "send")
  /\ target' = [target EXCEPT ![g] = t]
  /\ task' = [task EXCEPT ![g] = k]
  /\ todo' = [todo EXCEPT ![g] = U]

PreAuth(c) == state[c] = "opened" /\ user[c] = NONE

(* stream.HandleOpen, for the server's own domain *)
HandleOpen(c) ==
  /\ Read(c)
  /\ state' = [state EXCEPT ![c] = "opened"]
  /\ Sending(c, c, "stanza", {})
  /\ UNCHANGED <<byBareJID, user, resource>>

(* A parse error, the end of the stream, a stream error (after it was sent) or
   the removal of the account: the loop is left. *)
Finish(c) ==
  /\ Read(c)
  /\ \/ Goto(c, "unregister") /\ UNCHANGED <<target, todo, task>>
     \/ Sending(c, c, "finish", {})
  /\ UNCHANGED <<byBareJID, sessVars>>

(* mutant: the state is set before the password is checked *)
HandleSASL_Early(c, u) ==
  /\ Read(c) /\ PreAuth(c)
  /\ state' = [state EXCEPT ![c] = "authenticated"]
  /\ \E ok \in BOOLEAN : user' = [user EXCEPT ![c] = IF ok THEN u ELSE NONE]
  /\ Sending(c, c, "stanza", {})
  /\ UNCHANGED <<byBareJID, resource>>

(* auth.HandleSASL, with the password of u; the other outcomes are Answer *)
HandleSASL(c, u) ==
  /\ Read(c) /\ PreAuth(c)
  /\ user' = [user EXCEPT ![c] = u]
  /\ state' = [state EXCEPT ![c] = "authenticated"]
  /\ Sending(c, c, "stanza", {})
  /\ UNCHANGED <<byBareJID, resource>>

(* mutant: a session is not displaced if it has reopened its stream *)
Displaced_Bound(c) ==
  LET old == byBareJID[user[c]] IN
  IF old # NONE /\ state[old] \in {"bound", "active"} THEN old ELSE NONE

(* Register: the session that c displaces *)
Displaced(c) == byBareJID[user[c]]

(* handleBind, up to the kick of the older session: it is sent the conflict
   error, closed, and only then the bind is answered. *)
handleBind(c) ==
  /\ Read(c) /\ ~PreAuth(c)
  /\ state[c] \in {"authenticated", "opened"}
  /\ resource' = [resource EXCEPT ![c] = TRUE]
  /\ state' = [state EXCEPT ![c] = "bound"]
  /\ byBareJID' = [byBareJID EXCEPT ![user[c]] = c]
  /\ IF Displaced(c) # NONE
       THEN Sending(c, Displaced(c), "kick", {})
       ELSE Sending(c, c, "stanza", {})
  /\ UNCHANGED user

(* handleSessionIQ asks for no state. *)
handleSessionIQ(c) ==
  /\ Read(c) /\ ~PreAuth(c)
  /\ state' = [state EXCEPT ![c] = "active"]
  /\ Sending(c, c, "stanza", {})
  /\ UNCHANGED <<byBareJID, user, resource>>

(* Everything else that is answered, or nothing at all is done about. *)
Answer(c) ==
  /\ Read(c)
  /\ \/ Sending(c, c, "stanza", {})
     \/ UNCHANGED goVars
  /\ UNCHANGED <<byBareJID, sessVars>>

(* message.Handle, presence.Handle, handleIQ: users U are sent something. *)
Forward(c, U) ==
  /\ Read(c) /\ ~PreAuth(c)
  /\ Goto(c, "visit")
  /\ task' = [task EXCEPT ![c] = "stanza"]
  /\ todo' = [todo EXCEPT ![c] = U]
  /\ UNCHANGED <<byBareJID, sessVars, target>>

Stanza(c) ==
  \/ HandleOpen(c) \/ Finish(c) \/ handleBind(c) \/ handleSessionIQ(c) \/ Answer(c)
  \/ \E u \in Users : HandleSASL(c, u)
  \/ \E U \in SUBSET Users \ {{}} : Forward(c, U)
-----------------------------------------------------------------------------
(* Sending.  FindByBareJID; BroadcastUnavailable leaves out the session
   itself, of which the registry knows nothing any more. *)
Visit(g, u) ==
  /\ At(g, "visit") /\ u \in todo[g]
  /\ todo' = [todo EXCEPT ![g] = @ \ {u}]
  /\ IF byBareJID[u] = NONE
       THEN UNCHANGED <<pc, target>>
       ELSE Goto(g, "send") /\ target' = [target EXCEPT ![g] = byBareJID[u]]
  /\ UNCHANGED <<byBareJID, all, sessVars, dead, writeMu, task, buffered, gone, stalled>>

VisitEnd(g) ==
  /\ At(g, "visit") /\ todo[g] = {}
  /\ Goto(g, IF task[g] = "leave" THEN "close" ELSE "read")
  /\ target' = [target EXCEPT ![g] = g]
  /\ UNCHANGED <<byBareJID, all, sessVars, dead, writeMu, todo, task, buffered, gone, stalled>>

(* Where the goroutine goes on when Send returns. *)
Sent(g) ==
  CASE task[g] = "kick" -> "kick"
    [] task[g] = "finish" -> "unregister"
    [] OTHER -> "visit"

(* mutant: writeMu is kept when the session turns out to be dead *)
Send_Kept(g) ==
  /\ At(g, "send") /\ writeMu[target[g]] = NONE
  /\ Goto(g, IF dead[target[g]] THEN Sent(g) ELSE "write")
  /\ writeMu' = [writeMu EXCEPT ![target[g]] = g]
  /\ UNCHANGED <<byBareJID, all, sessVars, dead, target, todo, task, buffered, gone, stalled>>

(* Send: both looks at dead, before and after the wait for writeMu, are one
   here; they return alike. *)
Send(g) ==
  /\ At(g, "send")
  /\ IF dead[target[g]]
       THEN Goto(g, Sent(g)) /\ UNCHANGED writeMu
       ELSE /\ writeMu[target[g]] = NONE
            /\ Goto(g, "write")
            /\ writeMu' = [writeMu EXCEPT ![target[g]] = g]
  /\ UNCHANGED <<byBareJID, all, sessVars, dead, target, todo, task, buffered, gone, stalled>>

(* conn.Write returns, and writeMu is released.  It has no deadline: as long as
   the connection takes nothing it does not return; a close by either side ends
   that. *)
Write(g) ==
  /\ At(g, "write") /\ ~stalled[target[g]] /\ Goto(g, Sent(g))
  /\ writeMu' = [writeMu EXCEPT ![target[g]] = NONE]
  /\ UNCHANGED <<byBareJID, all, sessVars, dead, target, todo, task, buffered, gone, stalled>>

(* Close of session t, the first time: some stanzas may be buffered. *)
Close(t) ==
  /\ dead' = [dead EXCEPT ![t] = TRUE]
  /\ stalled' = [stalled EXCEPT ![t] = FALSE]
  /\ IF dead[t] THEN UNCHANGED buffered
                ELSE \E n \in 0..MaxBuf : buffered' = [buffered EXCEPT ![t] = n]

(* mutant: the older session is told, but not closed *)
Kick_Told(g) ==
  /\ At(g, "kick")
  /\ Sending(g, g, "stanza", {})
  /\ UNCHANGED <<byBareJID, all, sessVars, dead, writeMu, buffered, gone, stalled>>

(* handleBind, after the conflict error: old.Close(), and the answer *)
Kick(g) ==
  /\ At(g, "kick")
  /\ Close(target[g])
  /\ Sending(g, g, "stanza", {})
  /\ UNCHANGED <<byBareJID, all, sessVars, writeMu, gone>>
-----------------------------------------------------------------------------
(* The deferred end of sessionLoop. *)

(* mutants: the entry is deleted whoever it points to; a session that was
   closed is left where it is *)
Deleted_Any(c) ==
  [byBareJID EXCEPT ![user[c]] = NONE]
Deleted_Live(c) ==
  IF ~dead[c] /\ byBareJID[user[c]] = c THEN [byBareJID EXCEPT ![user[c]] = NONE] ELSE byBareJID

Deleted(c) ==
  IF byBareJID[user[c]] = c THEN [byBareJID EXCEPT ![user[c]] = NONE] ELSE byBareJID

(* Unregister, and the start of BroadcastUnavailable to contacts U, or to
   nobody *)
Unregister(c, U) ==
  /\ At(c, "unregister") /\ Goto(c, "visit")
  /\ byBareJID' = IF user[c] = NONE THEN byBareJID ELSE Deleted(c)
  /\ all' = all \ {c}
  /\ task' = [task EXCEPT ![c] = "leave"]
  /\ todo' = [todo EXCEPT ![c] = U]
  /\ UNCHANGED <<sessVars, dead, writeMu, target, buffered, gone, stalled>>

(* s.Close(), and the goroutine ends; nobody reads what is buffered *)
End(c) ==
  /\ At(c, "close") /\ Goto(c, "done")
  /\ dead' = [dead EXCEPT ![c] = TRUE]
  /\ stalled' = [stalled EXCEPT ![c] = FALSE]
  /\ UNCHANGED <<byBareJID, all, sessVars, writeMu, target, todo, task, buffered, gone>>

sessionLoop(c) ==
  \/ Stanza(c) \/ ReadError(c)
  \/ \E u \in Users : Visit(c, u)
  \/ VisitEnd(c) \/ Send(c) \/ Write(c) \/ Kick(c)
  \/ \E U \in SUBSET Users : (U # {} => user[c] # NONE) /\ Unregister(c, U)
  \/ End(c)

Next == \E c \in Conns : Leave(c) \/ Stall(c) \/ Accept(c) \/ sessionLoop(c)

Spec == Init /\ [][Next]_vars

(* The scheduler runs every goroutine that can run, and one that waits for
   writeMu gets it if it is released again and again (sync.Mutex hands it over
   after a millisecond).  Nothing is assumed of clients: a goroutine that reads
   can run once the connection is closed, one that writes unless its client has
   stalled. *)
CanRun(c) == At(c, "read") => dead[c] \/ gone[c]

Fairness == \A c \in Conns : WF_vars(CanRun(c) /\ sessionLoop(c)) /\ SF_vars(Send(c))

FairSpec == Spec /\ Fairness
-----------------------------------------------------------------------------
(* Properties *)

Loops == {"read", "visit", "send", "write", "kick", "unregister"}

(* The goroutine of c has been started and has not passed Unregister. *)
Running(c) == pc[c] \in Loops /\ task[c] # "leave"

(* The types of the state; a session that is authenticated or bound, or was
   bound, has a name.  One that is active need not: Route restricts a client that
   has not authenticated in state opened only, and handleSessionIQ is taken in state
   connected. *)
TypeOK ==
  /\ byBareJID \in [Users -> Conns \cup {NONE}]
  /\ all \subseteq Conns
  /\ state \in [Conns -> {"connected", "opened", "authenticated", "bound", "active"}]
  /\ user \in [Conns -> Users \cup {NONE}]
  /\ resource \in [Conns -> BOOLEAN]
  /\ dead \in [Conns -> BOOLEAN]
  /\ writeMu \in [Conns -> Conns \cup {NONE}]
  /\ pc \in [Conns -> Loops \cup {"new", "close", "done"}]
  /\ target \in [Conns -> Conns]
  /\ todo \in [Conns -> SUBSET Users]
  /\ task \in [Conns -> {"stanza", "kick", "finish", "leave"}]
  /\ buffered \in [Conns -> 0..MaxBuf]
  /\ gone \in [Conns -> BOOLEAN]
  /\ stalled \in [Conns -> BOOLEAN]
  /\ \A c \in Conns : state[c] \in {"authenticated", "bound"} \/ resource[c] => user[c] # NONE

(* The registry holds sessions of the right user whose goroutines have yet to
   unregister them: whatever displaces whom, no entry is left behind. *)
RegistryCoherent ==
  /\ \A u \in Users : byBareJID[u] # NONE =>
       user[byBareJID[u]] = u /\ resource[byBareJID[u]] /\ Running(byBareJID[u])
  /\ \A c \in Conns : c \in all <=> Running(c)

(* Goroutine g is on its way to close session c. *)
Kicking(g, c) == task[g] = "kick" /\ pc[g] \in {"send", "write", "kick"} /\ target[g] = c

(* One session per user: a session that was bound and is not (any longer) the
   registered one is closed, or another goroutine is about to close it. *)
OneSessionPerUser ==
  \A c \in Conns :
    resource[c] /\ Running(c) /\ byBareJID[user[c]] # c =>
      dead[c] \/ \E g \in Conns : Kicking(g, c)

(* writeMu is held by a goroutine that is in conn.Write on that session, and
   by nothing else, so there is no cycle of waiting goroutines. *)
HeldWhileWriting ==
  \A g, t \in Conns : writeMu[t] = g <=> (pc[g] = "write" /\ target[g] = t)

(* A session loses its entry only to a newer session of the same user, or when
   its own goroutine unregisters it: an older one that ends late does not
   take it away. *)
EntryKept ==
  [][\A u \in Users : LET c == byBareJID[u] IN
       c # NONE /\ byBareJID'[u] # c =>
         \/ byBareJID'[u] = NONE /\ pc[c] = "unregister"
         \/ byBareJID'[u] # NONE /\ pc[byBareJID'[u]] = "read" /\ user[byBareJID'[u]] = u]_vars

(* Goroutine g sends, or waits to send, to a client that takes nothing. *)
Blocked(g) == pc[g] \in {"send", "write"} /\ stalled[target[g]]

(* The goroutine of a session that was closed, or whose client left, ends, unless
   it is stuck with what it sends to another client, one that stays and does not
   read.  (A closed session stays closed, and a client does not stall twice: who is
   stuck again and again is stuck for ever.) *)
ClosedEnds ==
  \A c \in Conns : (dead[c] \/ gone[c]) ~> (pc[c] = "done" \/ Blocked(c))

(* Session c was bound, and has lost its entry to another session. *)
LostEntry(c) == resource[c] /\ Running(c) /\ byBareJID[user[c]] # c

(* A session that lost its entry to another one ends, and is not left with a
   client that believes to be connected: unless it is stuck like that itself, or
   the goroutine that is to close it is stuck with the conflict error, which it
   writes, without a deadline, before it closes. *)
DisplacedEnds ==
  \A c \in Conns :
    LostEntry(c) ~> \/ pc[c] = "done" \/ Blocked(c)
                    \/ \E g \in Conns : Kicking(g, c) /\ Blocked(g)
=============================================================================
