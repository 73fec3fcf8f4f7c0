--------------------------- MODULE GoServerProofs ---------------------------
(***************************************************************************)
(* Proofs about GoServer, for any sets of connections and users: the type  *)
(* invariant, that a write lock is held by the goroutine that writes and   *)
(* by no other, that the registry holds exactly sessions that have yet to  *)
(* unregister, that a displaced session is closed or about to be, and that *)
(* an entry is lost to a newer session or to its own end only.             *)
(*                                                                         *)
(* Each step is one goroutine's, so the proofs look at what it does to its *)
(* own program counter, target and task; another goroutine's are what they *)
(* were.                                                                   *)
(***************************************************************************)
EXTENDS GoServer, TLAPS

(* A goroutine has passed Unregister only if it is telling its contacts, or
   ending; one that has not been started has bound nothing. *)
Leaving ==
  \A c \in Conns :
    /\ task[c] = "leave" => pc[c] \in {"visit", "send", "write", "close", "done"}
    /\ pc[c] = "new" => ~resource[c]

IInv == TypeOK /\ Leaving /\ HeldWhileWriting /\ RegistryCoherent /\ OneSessionPerUser
-----------------------------------------------------------------------------
(* The steps of one goroutine, and of its client. *)
StepOf(c) ==
  \/ Leave(c) \/ Stall(c) \/ Accept(c) \/ ReadError(c)
  \/ HandleOpen(c) \/ Finish(c) \/ handleBind(c) \/ handleSessionIQ(c) \/ Answer(c)
  \/ \E u \in Users : HandleSASL(c, u)
  \/ \E U \in SUBSET Users : Forward(c, U)
  \/ \E u \in Users : Visit(c, u)
  \/ VisitEnd(c) \/ Send(c) \/ Write(c) \/ Kick(c)
  \/ \E U \in SUBSET Users : (U # {} => user[c] # NONE) /\ Unregister(c, U)
  \/ End(c)

(* A step is one of these. *)
LEMMA StepCases == Next => \E c \in Conns : StepOf(c)
  BY DEF Next, sessionLoop, Stanza, StepOf

(* The initial state. *)
LEMMA InitIInv == ASSUME Init PROVE IInv
<1> USE ConstAssumption DEF Init
<1>1. TypeOK
  BY DEF TypeOK, Loops
<1>2. Leaving
  BY DEF Leaving
<1>3. HeldWhileWriting
  BY DEF HeldWhileWriting
<1>4. RegistryCoherent
  BY DEF RegistryCoherent, Running, Loops
<1>5. OneSessionPerUser
  BY DEF OneSessionPerUser
<1> QED
  BY <1>1, <1>2, <1>3, <1>4, <1>5 DEF IInv
-----------------------------------------------------------------------------
(* The types of what Sending assigns. *)
LEMMA SendingTypes ==
  ASSUME TypeOK, NEW c \in Conns, NEW t \in Conns,
         NEW k \in {"stanza", "kick", "finish", "leave"}, NEW U \in SUBSET Users,
         Sending(c, t, k, U)
  PROVE  /\ pc' \in [Conns -> Loops \cup {"new", "close", "done"}]
         /\ target' \in [Conns -> Conns] /\ todo' \in [Conns -> SUBSET Users]
         /\ task' \in [Conns -> {"stanza", "kick", "finish", "leave"}]
  BY DEF Sending, Goto, TypeOK, Loops

(* Types are kept. *)
LEMMA TypeStep == ASSUME TypeOK, [Next]_vars PROVE TypeOK'
<1> USE ConstAssumption DEF TypeOK, At, Goto, Sending, Read, Loops
<1>1. CASE UNCHANGED vars
  BY <1>1 DEF vars, sessVars, goVars
<1>2. CASE Next
  <2> USE DEF sessVars, goVars
  <2>1. PICK c \in Conns : StepOf(c)
    BY <1>2, StepCases
  <2>2. CASE Leave(c) \/ Stall(c)
    <3>1. CASE Leave(c)
      BY <3>1 DEF Leave
    <3>2. CASE Stall(c)
      BY <3>2 DEF Stall
    <3> QED
      BY <2>2, <3>1, <3>2
  <2>3. CASE Accept(c)
    BY <2>3 DEF Accept
  <2>4. CASE ReadError(c)
    BY <2>4 DEF ReadError
  <2>5. CASE HandleOpen(c)
    BY <2>5 DEF HandleOpen
  <2>6. CASE Finish(c)
    <3>1. CASE Sending(c, c, "finish", {})
      BY <2>6, <3>1 DEF Finish
    <3>2. CASE Goto(c, "unregister") /\ UNCHANGED <<target, todo, task>>
      BY <2>6, <3>2 DEF Finish
    <3> QED
      BY <2>6, <3>1, <3>2 DEF Finish
  <2>7. CASE handleBind(c)
    <3>1. c \in Conns /\ user[c] \in Users /\ user[c] # NONE
      BY <2>7 DEF handleBind, PreAuth
    <3>2. /\ state' \in [Conns -> {"connected", "opened", "authenticated", "bound", "active"}]
          /\ resource' \in [Conns -> BOOLEAN] /\ byBareJID' \in [Users -> Conns \cup {NONE}]
      BY <2>7, <3>1 DEF handleBind
    <3>3. \A d \in Conns : state'[d] \in {"authenticated", "bound"} \/ resource'[d] => user'[d] # NONE
      BY <2>7, <3>1 DEF handleBind
    <3>4. /\ pc' \in [Conns -> Loops \cup {"new", "close", "done"}]
          /\ target' \in [Conns -> Conns] /\ todo' \in [Conns -> SUBSET Users]
          /\ task' \in [Conns -> {"stanza", "kick", "finish", "leave"}]
      <4> HIDE DEF Sending
      <4>1. byBareJID[user[c]] \in Conns \cup {NONE}
        BY <3>1
      <4> QED
        BY <2>7, <4>1, SendingTypes DEF handleBind, Displaced
    <3> QED
      BY <2>7, <3>2, <3>3, <3>4 DEF handleBind
  <2>8. CASE handleSessionIQ(c)
    <3>1. /\ state' \in [Conns -> {"connected", "opened", "authenticated", "bound", "active"}]
          /\ \A d \in Conns : state'[d] \in {"authenticated", "bound"} \/ resource'[d] => user'[d] # NONE
      BY <2>8 DEF handleSessionIQ
    <3> QED
      BY <2>8, <3>1 DEF handleSessionIQ
  <2>9. CASE Answer(c)
    <3>1. CASE Sending(c, c, "stanza", {})
      BY <2>9, <3>1 DEF Answer
    <3>2. CASE UNCHANGED goVars
      BY <2>9, <3>2 DEF Answer
    <3> QED
      BY <2>9, <3>1, <3>2 DEF Answer
  <2>10. CASE \E u \in Users : HandleSASL(c, u)
    <3>1. PICK u \in Users : HandleSASL(c, u)
      BY <2>10
    <3>2. /\ state' \in [Conns -> {"connected", "opened", "authenticated", "bound", "active"}]
          /\ user' \in [Conns -> Users \cup {NONE}]
          /\ \A d \in Conns : state'[d] \in {"authenticated", "bound"} \/ resource'[d] => user'[d] # NONE
      BY <3>1 DEF HandleSASL
    <3> QED
      BY <3>1, <3>2 DEF HandleSASL
  <2>11. CASE \E U \in SUBSET Users : Forward(c, U)
    BY <2>11 DEF Forward
  <2>12. CASE \E u \in Users : Visit(c, u)
    BY <2>12 DEF Visit
  <2>13. CASE VisitEnd(c)
    BY <2>13 DEF VisitEnd
  <2>14. CASE Send(c)
    BY <2>14 DEF Send, Sent
  <2>15. CASE Write(c)
    BY <2>15 DEF Write, Sent
  <2>16. CASE Kick(c)
    BY <2>16 DEF Kick, Close
  <2>17. CASE \E U \in SUBSET Users : (U # {} => user[c] # NONE) /\ Unregister(c, U)
    BY <2>17 DEF Unregister, Deleted
  <2>18. CASE End(c)
    BY <2>18 DEF End
  <2> QED
    BY <2>1, <2>2, <2>3, <2>4, <2>5, <2>6, <2>7, <2>8, <2>9, <2>10, <2>11, <2>12,
       <2>13, <2>14, <2>15, <2>16, <2>17, <2>18 DEF StepOf
<1> QED
  BY <1>1, <1>2

(* Where a goroutine is when it has unregistered. *)
LEMMA LeavingStep == ASSUME TypeOK, Leaving, [Next]_vars PROVE Leaving'
<1> USE DEF TypeOK, Leaving, At, Goto, Sending, Read
<1>1. CASE UNCHANGED vars
  BY <1>1 DEF vars, sessVars, goVars
<1>2. CASE Next
  <2> USE DEF sessVars, goVars
  <2>1. PICK c \in Conns : StepOf(c)
    BY <1>2, StepCases
  <2>2. CASE Leave(c) \/ Stall(c)
    BY <2>2 DEF Leave, Stall
  <2>3. CASE Accept(c)
    BY <2>3 DEF Accept
  <2>4. CASE ReadError(c)
    BY <2>4 DEF ReadError
  <2>5. CASE HandleOpen(c)
    BY <2>5 DEF HandleOpen
  <2>6. CASE Finish(c)
    BY <2>6 DEF Finish
  <2>7. CASE handleBind(c)
    BY <2>7 DEF handleBind
  <2>8. CASE handleSessionIQ(c)
    BY <2>8 DEF handleSessionIQ
  <2>9. CASE Answer(c)
    BY <2>9 DEF Answer
  <2>10. CASE \E u \in Users : HandleSASL(c, u)
    BY <2>10 DEF HandleSASL
  <2>11. CASE \E U \in SUBSET Users : Forward(c, U)
    BY <2>11 DEF Forward
  <2>12. CASE \E u \in Users : Visit(c, u)
    BY <2>12 DEF Visit
  <2>13. CASE VisitEnd(c)
    BY <2>13 DEF VisitEnd
  <2>14. CASE Send(c)
    BY <2>14 DEF Send, Sent
  <2>15. CASE Write(c)
    BY <2>15 DEF Write, Sent
  <2>16. CASE Kick(c)
    BY <2>16 DEF Kick
  <2>17. CASE \E U \in SUBSET Users : (U # {} => user[c] # NONE) /\ Unregister(c, U)
    BY <2>17 DEF Unregister
  <2>18. CASE End(c)
    BY <2>18 DEF End
  <2> QED
    BY <2>1, <2>2, <2>3, <2>4, <2>5, <2>6, <2>7, <2>8, <2>9, <2>10, <2>11, <2>12,
       <2>13, <2>14, <2>15, <2>16, <2>17, <2>18 DEF StepOf
<1> QED
  BY <1>1, <1>2

(* Locks and writes go together: a goroutine takes the lock with the step to the
   write and gives it back with the step behind it, and changes its target at
   other times only. *)
LEMMA HeldStep == ASSUME TypeOK, HeldWhileWriting, [Next]_vars PROVE HeldWhileWriting'
<1> USE ConstAssumption DEF TypeOK, HeldWhileWriting, At, Goto, Sending, Read
<1>1. CASE UNCHANGED vars
  BY <1>1 DEF vars, sessVars, goVars
<1>2. CASE Next
  <2> USE DEF sessVars, goVars
  <2>1. PICK c \in Conns : StepOf(c)
    BY <1>2, StepCases
  <2>2. CASE Leave(c) \/ Stall(c)
    BY <2>2 DEF Leave, Stall
  <2>3. CASE Accept(c)
    BY <2>3 DEF Accept
  <2>4. CASE ReadError(c)
    BY <2>4 DEF ReadError
  <2>5. CASE HandleOpen(c)
    BY <2>5 DEF HandleOpen
  <2>6. CASE Finish(c)
    BY <2>6 DEF Finish
  <2>7. CASE handleBind(c)
    <3>1. /\ pc[c] = "read" /\ pc' = [pc EXCEPT ![c] = "send"] /\ writeMu' = writeMu
          /\ \A d \in Conns \ {c} : target'[d] = target[d]
      BY <2>7 DEF handleBind
    <3> QED
      BY <3>1
  <2>8. CASE handleSessionIQ(c)
    BY <2>8 DEF handleSessionIQ
  <2>9. CASE Answer(c)
    BY <2>9 DEF Answer
  <2>10. CASE \E u \in Users : HandleSASL(c, u)
    BY <2>10 DEF HandleSASL
  <2>11. CASE \E U \in SUBSET Users : Forward(c, U)
    BY <2>11 DEF Forward
  <2>12. CASE \E u \in Users : Visit(c, u)
    BY <2>12 DEF Visit
  <2>13. CASE VisitEnd(c)
    BY <2>13 DEF VisitEnd
  <2>14. CASE Send(c)
    BY <2>14 DEF Send, Sent
  <2>15. CASE Write(c)
    BY <2>15 DEF Write, Sent
  <2>16. CASE Kick(c)
    BY <2>16 DEF Kick
  <2>17. CASE \E U \in SUBSET Users : (U # {} => user[c] # NONE) /\ Unregister(c, U)
    BY <2>17 DEF Unregister
  <2>18. CASE End(c)
    BY <2>18 DEF End
  <2> QED
    BY <2>1, <2>2, <2>3, <2>4, <2>5, <2>6, <2>7, <2>8, <2>9, <2>10, <2>11, <2>12,
       <2>13, <2>14, <2>15, <2>16, <2>17, <2>18 DEF StepOf
<1> QED
  BY <1>1, <1>2

(* The registry: a session enters it with a bind of its own goroutine, which has
   a user and is running; it leaves it when that goroutine unregisters, which
   finds it under the session's user and nowhere else. *)
LEMMA RegistryStep == ASSUME TypeOK, Leaving, RegistryCoherent, [Next]_vars PROVE RegistryCoherent'
<1> USE ConstAssumption DEF TypeOK, Leaving, RegistryCoherent, Running, Loops, At, Goto, Sending, Read
<1>1. CASE UNCHANGED vars
  BY <1>1 DEF vars, sessVars, goVars
<1>2. CASE Next
  <2> USE DEF sessVars, goVars
  <2>1. PICK c \in Conns : StepOf(c)
    BY <1>2, StepCases
  <2>2. CASE Leave(c) \/ Stall(c)
    BY <2>2 DEF Leave, Stall
  <2>3. CASE Accept(c)
    BY <2>3 DEF Accept
  <2>4. CASE ReadError(c)
    BY <2>4 DEF ReadError
  <2>5. CASE HandleOpen(c)
    BY <2>5 DEF HandleOpen
  <2>6. CASE Finish(c)
    BY <2>6 DEF Finish
  <2>7. CASE handleBind(c)
    <3>1. /\ pc[c] = "read" /\ user[c] \in Users
          /\ pc' = [pc EXCEPT ![c] = "send"] /\ task'[c] \in {"stanza", "kick"}
          /\ \A d \in Conns \ {c} : task'[d] = task[d]
          /\ resource' = [resource EXCEPT ![c] = TRUE]
          /\ byBareJID' = [byBareJID EXCEPT ![user[c]] = c]
          /\ UNCHANGED <<user, all>>
      BY <2>7 DEF handleBind, PreAuth
    <3> QED
      BY <3>1
  <2>8. CASE handleSessionIQ(c)
    BY <2>8 DEF handleSessionIQ
  <2>9. CASE Answer(c)
    BY <2>9 DEF Answer
  <2>10. CASE \E u \in Users : HandleSASL(c, u)
    <3>1. PICK u \in Users : HandleSASL(c, u)
      BY <2>10
    <3>2. \A w \in Users : byBareJID[w] # c
      BY <3>1 DEF HandleSASL, PreAuth
    <3> QED
      BY <3>1, <3>2 DEF HandleSASL
  <2>11. CASE \E U \in SUBSET Users : Forward(c, U)
    BY <2>11 DEF Forward
  <2>12. CASE \E u \in Users : Visit(c, u)
    BY <2>12 DEF Visit
  <2>13. CASE VisitEnd(c)
    BY <2>13 DEF VisitEnd
  <2>14. CASE Send(c)
    <3>1. /\ pc[c] = "send" /\ pc'[c] \in {"kick", "unregister", "visit", "write"}
          /\ \A d \in Conns \ {c} : pc'[d] = pc[d]
          /\ UNCHANGED <<byBareJID, all, user, resource, task>>
      BY <2>14 DEF Send, Sent
    <3> QED
      BY <3>1
  <2>15. CASE Write(c)
    BY <2>15 DEF Write, Sent
  <2>16. CASE Kick(c)
    BY <2>16 DEF Kick
  <2>17. CASE \E U \in SUBSET Users : (U # {} => user[c] # NONE) /\ Unregister(c, U)
    BY <2>17 DEF Unregister, Deleted
  <2>18. CASE End(c)
    BY <2>18 DEF End
  <2> QED
    BY <2>1, <2>2, <2>3, <2>4, <2>5, <2>6, <2>7, <2>8, <2>9, <2>10, <2>11, <2>12,
       <2>13, <2>14, <2>15, <2>16, <2>17, <2>18 DEF StepOf
<1> QED
  BY <1>1, <1>2

(* A bound session that is not registered is closed, or its end is under way: it
   lost its entry to a bind, which goes on to close it and does nothing else
   before. *)
LEMMA OneSessionStep ==
  ASSUME TypeOK, Leaving, RegistryCoherent, OneSessionPerUser, [Next]_vars
  PROVE  OneSessionPerUser'
<1> USE ConstAssumption DEF TypeOK, Leaving, OneSessionPerUser, Kicking, Running, Loops, At, Goto, Sending, Read
<1>1. CASE UNCHANGED vars
  BY <1>1 DEF vars, sessVars, goVars
<1>2. CASE Next
  <2> USE DEF sessVars, goVars
  <2>1. PICK c \in Conns : StepOf(c)
    BY <1>2, StepCases
  <2>2. CASE Leave(c) \/ Stall(c)
    BY <2>2 DEF Leave, Stall
  <2>3. CASE Accept(c)
    BY <2>3 DEF Accept
  <2>4. CASE ReadError(c)
    BY <2>4 DEF ReadError
  <2>5. CASE HandleOpen(c)
    BY <2>5 DEF HandleOpen
  <2>6. CASE Finish(c)
    BY <2>6 DEF Finish
  <2>7. CASE handleBind(c)
    <3>1. /\ pc[c] = "read" /\ user[c] \in Users
          /\ pc' = [pc EXCEPT ![c] = "send"]
          /\ \A d \in Conns \ {c} : task'[d] = task[d] /\ target'[d] = target[d]
          /\ resource' = [resource EXCEPT ![c] = TRUE]
          /\ byBareJID' = [byBareJID EXCEPT ![user[c]] = c]
          /\ UNCHANGED <<user, dead>>
      BY <2>7 DEF handleBind, PreAuth
    <3>2. byBareJID[user[c]] # NONE => task'[c] = "kick" /\ target'[c] = byBareJID[user[c]]
      BY <2>7, <3>1 DEF handleBind, Displaced
    <3>3. SUFFICES ASSUME NEW d \in Conns, resource'[d], Running(d)', byBareJID'[user'[d]] # d
                   PROVE  dead'[d] \/ \E g \in Conns : Kicking(g, d)'
      BY DEF OneSessionPerUser
    <3>4. d # c /\ resource[d] /\ Running(d) /\ user[d] \in Users
      BY <3>1, <3>3
    <3>5. CASE byBareJID[user[d]] = d
      BY <3>1, <3>2, <3>3, <3>4, <3>5
    <3>6. CASE byBareJID[user[d]] # d
      <4>1. CASE dead[d]
        BY <3>1, <4>1
      <4>2. CASE \E g \in Conns : Kicking(g, d)
        BY <3>1, <4>2
      <4> QED
        BY <3>4, <3>6, <4>1, <4>2
    <3> QED
      BY <3>5, <3>6
  <2>8. CASE handleSessionIQ(c)
    BY <2>8 DEF handleSessionIQ
  <2>9. CASE Answer(c)
    <3>1. CASE Sending(c, c, "stanza", {})
      BY <2>9, <3>1 DEF Answer
    <3>2. CASE UNCHANGED goVars
      BY <2>9, <3>2 DEF Answer
    <3> QED
      BY <2>9, <3>1, <3>2 DEF Answer
  <2>10. CASE \E u \in Users : HandleSASL(c, u)
    BY <2>10 DEF HandleSASL, PreAuth
  <2>11. CASE \E U \in SUBSET Users : Forward(c, U)
    BY <2>11 DEF Forward
  <2>12. CASE \E u \in Users : Visit(c, u)
    BY <2>12 DEF Visit
  <2>13. CASE VisitEnd(c)
    BY <2>13 DEF VisitEnd
  <2>14. CASE Send(c)
    BY <2>14 DEF Send, Sent
  <2>15. CASE Write(c)
    BY <2>15 DEF Write, Sent
  <2>16. CASE Kick(c)
    BY <2>16 DEF Kick, Close
  <2>17. CASE \E U \in SUBSET Users : (U # {} => user[c] # NONE) /\ Unregister(c, U)
    BY <2>17 DEF Unregister, Deleted, RegistryCoherent
  <2>18. CASE End(c)
    BY <2>18 DEF End
  <2> QED
    BY <2>1, <2>2, <2>3, <2>4, <2>5, <2>6, <2>7, <2>8, <2>9, <2>10, <2>11, <2>12,
       <2>13, <2>14, <2>15, <2>16, <2>17, <2>18 DEF StepOf
<1> QED
  BY <1>1, <1>2

(* The inductive invariant is one. *)
THEOREM Invariance == Spec => []IInv
<1>1. Init => IInv
  BY InitIInv
<1>2. IInv /\ [Next]_vars => IInv'
  BY TypeStep, LeavingStep, HeldStep, RegistryStep, OneSessionStep DEF IInv
<1> QED
  BY <1>1, <1>2, PTL DEF Spec
-----------------------------------------------------------------------------
(* No session is in state authenticated or bound, or has a resource, without a
   user, and all state has its type. *)
THEOREM TypeCorrect == Spec => []TypeOK
  BY Invariance, PTL DEF IInv

(* writeMu of a session is held by the goroutine that is in conn.Write on it. *)
THEOREM HeldWhileWritingHolds == Spec => []HeldWhileWriting
  BY Invariance, PTL DEF IInv

(* Entries of the registry are running sessions of their users. *)
THEOREM RegistryCoherentHolds == Spec => []RegistryCoherent
  BY Invariance, PTL DEF IInv

(* A session of a user that is not the registered one is closed, or about to
   be. *)
THEOREM OneSessionPerUserHolds == Spec => []OneSessionPerUser
  BY Invariance, PTL DEF IInv

(* What one step may do to an entry of the registry. *)
EntryStep ==
  \A u \in Users : LET c == byBareJID[u] IN
    c # NONE /\ byBareJID'[u] # c =>
      \/ byBareJID'[u] = NONE /\ pc[c] = "unregister"
      \/ byBareJID'[u] # NONE /\ pc[byBareJID'[u]] = "read" /\ user[byBareJID'[u]] = u

(* An entry is lost to a newer session of the user, or when its goroutine
   unregisters. *)
THEOREM EntryKeptHolds == Spec => EntryKept
<1>1. TypeOK /\ [Next]_vars => EntryStep
  <2> SUFFICES ASSUME TypeOK, [Next]_vars PROVE EntryStep
    OBVIOUS
  <2>1. CASE UNCHANGED byBareJID
    BY <2>1 DEF EntryStep
  <2>2. CASE \E c \in Conns : handleBind(c)
    <3>1. PICK c \in Conns : handleBind(c)
      BY <2>2
    <3>2. /\ user[c] \in Users /\ pc[c] = "read" /\ c # NONE
          /\ byBareJID' = [byBareJID EXCEPT ![user[c]] = c]
      BY <3>1, ConstAssumption DEF handleBind, PreAuth, Read, At, TypeOK
    <3> QED
      BY <3>2 DEF EntryStep, TypeOK
  <2>3. CASE \E c \in Conns : \E U \in SUBSET Users : Unregister(c, U)
    BY <2>3 DEF EntryStep, Unregister, Deleted, At, TypeOK
  <2>4. UNCHANGED vars => UNCHANGED byBareJID
    BY DEF vars
  <2>5. ASSUME NEW c \in Conns, StepOf(c)
        PROVE  \/ UNCHANGED byBareJID \/ handleBind(c)
               \/ \E U \in SUBSET Users : Unregister(c, U)
    BY <2>5 DEF StepOf, Leave, Stall, Accept, ReadError, HandleOpen, Finish, handleSessionIQ, Answer,
                HandleSASL, Forward, Visit, VisitEnd, Send, Write, Kick, End
  <2> QED
    BY <2>1, <2>2, <2>3, <2>4, <2>5, StepCases
<1> QED
  BY <1>1, TypeCorrect, PTL DEF Spec, EntryKept, EntryStep
=============================================================================
