------------------------- MODULE NegotiationProofs -------------------------
(***************************************************************************)
(* Proofs about Negotiation, for any number of connections, users and      *)
(* events in a chunk: the type invariant, what survives the end of a       *)
(* chunk (ActiveAuthenticated, RestartClean), that a session keeps its     *)
(* user, and that it is displaced only by its own user.                    *)
(*                                                                         *)
(* Neither ActiveAuthenticated nor RestartClean is inductive: they speak   *)
(* of moments between chunks, and what they rest on happens inside one.    *)
(* IInv says what the handlers keep true during the chunk.                 *)
(***************************************************************************)
EXTENDS Negotiation, SequenceTheorems, TLAPS

(* A session is authenticated exactly when it has a user's name. *)
AuthHasUser == \A c \in Conns : authenticated[c] <=> jid_local[c] # NONE

(* A session past STREAM_OPENED that has not authenticated is to be closed. *)
PastOpen ==
  \A c \in Conns : state[c] \in {"AUTHENTICATED", "BOUND", "SESSION_ACTIVE"} =>
    authenticated[c] \/ teardown_pending[c]

(* A session that has read a stream header and is still CONNECTED was refused. *)
RefusedCloses ==
  \A c \in Conns : state[c] = "CONNECTED" /\ stanza_depth[c] # 0 => teardown_pending[c]

(* What is put off concerns the session being read. *)
DeferredIsCurrent ==
  \A c \in Conns : teardown_pending[c] \/ parser_reset_pending[c] => c = cur

(* A session inside the document in which it authenticated gets a new parser. *)
ResetPending ==
  \A c \in Conns : state[c] = "AUTHENTICATED" /\ stanza_depth[c] # 0 =>
    parser_reset_pending[c] \/ teardown_pending[c]

IInv == TypeOK /\ AuthHasUser /\ PastOpen /\ RefusedCloses /\ DeferredIsCurrent /\ ResetPending
-----------------------------------------------------------------------------
(* server_remove_session leaves a list of sessions, one shorter, in which
   every other session still has its place. *)
LEMMA SwapRemoveProperties ==
  ASSUME NEW t \in Seq(Conns), NEW c, \E k \in DOMAIN t : t[k] = c
  PROVE  /\ Table!SwapRemove(t, c) \in Seq(Conns)
         /\ Len(Table!SwapRemove(t, c)) = Len(t) - 1
         /\ DOMAIN Table!SwapRemove(t, c) = 1..(Len(t) - 1)
         /\ \A k \in DOMAIN t : t[k] # c =>
              \E j \in 1..(Len(t) - 1) : Table!SwapRemove(t, c)[j] = t[k]
<1> DEFINE n == Len(t)
           r == Table!SwapRemove(t, c)
<1>1. n \in Nat /\ t \in [1..n -> Conns] /\ DOMAIN t = 1..n
  BY LenProperties
<1>2. n - 1 \in Nat
  BY <1>1
<1>3. r = [k \in 1..(n - 1) |-> IF t[k] = c THEN t[n] ELSE t[k]]
  BY DEF Table!SwapRemove
<1>4. r \in [1..(n - 1) -> Conns]
  BY <1>1, <1>2, <1>3
<1>5. r \in Seq(Conns)
  BY <1>2, <1>4, SeqDef, Zenon
<1>6. Len(r) = n - 1 /\ DOMAIN r = 1..(n - 1)
  BY <1>2, <1>4, <1>5, LenProperties
<1>7. ASSUME NEW k \in DOMAIN t, t[k] # c
      PROVE  \E j \in 1..(n - 1) : r[j] = t[k]
  <2>1. PICK m \in DOMAIN t : t[m] = c
    OBVIOUS
  <2>2. CASE k = n
    BY <1>1, <1>3, <1>7, <2>1, <2>2
  <2>3. CASE k # n
    BY <1>1, <1>3, <1>7, <2>3
  <2> QED
    BY <2>2, <2>3
<1> QED
  BY <1>5, <1>6, <1>7

(* session_find_by_jid returns no session, or one of the table that has the
   user looked for. *)
LEMMA FindByJidProperties ==
  ASSUME TypeOK, NEW u
  PROVE  \/ FindByJid(u) = NONE
         \/ FindByJid(u) \in InTable /\ jid_local[FindByJid(u)] = u /\ u # NONE
  BY Zenon DEF FindByJid, InTable

(* The inductive invariant holds before the first connection. *)
LEMMA InitIInv == Init => IInv
  BY ConstAssumption, EmptySeq
  DEF Init, IInv, TypeOK, States, AuthHasUser, PastOpen, RefusedCloses, DeferredIsCurrent, ResetPending

(* session_teardown of a session of the table keeps the types, and leaves the
   fields of all other sessions alone. *)
LEMMA TeardownType ==
  ASSUME TypeOK, NEW c \in Conns, session_teardown(c)
  PROVE  /\ tab' \in Seq(Conns) /\ Len(tab') < MAX_CLIENTS
         /\ state' \in [Conns -> States]
         /\ authenticated' \in [Conns -> BOOLEAN]
         /\ jid_local' \in [Conns -> Users \cup {NONE}]
         /\ stanza_depth' \in [Conns -> 0..2]
         /\ parser_reset_pending' \in [Conns -> BOOLEAN]
         /\ teardown_pending' \in [Conns -> BOOLEAN]
         /\ ended' \in [Conns -> BOOLEAN]
<1>1. \E k \in DOMAIN tab : tab[k] = c
  BY DEF session_teardown, Table!Remove, Table!Members
<1>2. tab' \in Seq(Conns) /\ Len(tab') < MAX_CLIENTS
  BY <1>1, SwapRemoveProperties, LenProperties, ConstAssumption
  DEF TypeOK, session_teardown, Table!Remove
<1> QED
  BY <1>2 DEF TypeOK, States, session_teardown, Fresh

(* A SAX event finds a session being read, and the number of events left
   stays within its bound. *)
LEMMA EventType ==
  ASSUME TypeOK, Event
  PROVE  cur \in Conns /\ cur' = cur /\ events' \in 0..MaxEvents
  BY ConstAssumption DEF TypeOK, Event

(* IInv is inductive. *)
LEMMA NextIInv == IInv /\ [Next]_vars => IInv'
<1> SUFFICES ASSUME IInv, [Next]_vars PROVE IInv'
  OBVIOUS
<1> USE DEF IInv
<1>1. ASSUME NEW c \in Conns, Accept(c) PROVE IInv'
  <2>1. tab' \in Seq(Conns) /\ Len(tab') < MAX_CLIENTS
    BY <1>1, AppendProperties, LenProperties, ConstAssumption DEF TypeOK, Accept, Table!Add
  <2> QED
    BY <1>1, <2>1 DEF Accept, TypeOK, sessVars, AuthHasUser, PastOpen, RefusedCloses, DeferredIsCurrent, ResetPending
<1>2. ASSUME NEW c \in Conns, Drop(c) PROVE IInv'
  <2> USE DEF Drop, session_teardown, Fresh
  <2>1. TypeOK'
    BY <1>2, TeardownType DEF TypeOK
  <2>2. AuthHasUser'
    BY <1>2 DEF TypeOK, AuthHasUser
  <2>3. PastOpen'
    BY <1>2 DEF TypeOK, PastOpen
  <2>4. RefusedCloses'
    BY <1>2 DEF TypeOK, RefusedCloses
  <2>5. DeferredIsCurrent'
    BY <1>2 DEF TypeOK, DeferredIsCurrent
  <2>6. ResetPending'
    BY <1>2 DEF TypeOK, ResetPending
  <2> QED
    BY <2>1, <2>2, <2>3, <2>4, <2>5, <2>6
<1>3. ASSUME NEW c \in Conns, BeginRead(c) PROVE IInv'
  <2> USE DEF BeginRead, sessVars
  <2>1. TypeOK'
    BY <1>3, ConstAssumption DEF TypeOK
  <2>2. AuthHasUser'
    BY <1>3 DEF TypeOK, AuthHasUser
  <2>3. PastOpen'
    BY <1>3 DEF TypeOK, PastOpen
  <2>4. RefusedCloses'
    BY <1>3 DEF TypeOK, RefusedCloses
  <2>5. DeferredIsCurrent'
    BY <1>3, ConstAssumption DEF TypeOK, DeferredIsCurrent
  <2>6. ResetPending'
    BY <1>3 DEF TypeOK, ResetPending
  <2> QED
    BY <2>1, <2>2, <2>3, <2>4, <2>5, <2>6
<1>4. ASSUME EndRead PROVE IInv'
  <2> USE DEF EndRead, AfterReset
  <2>1. cur \in Conns
    BY <1>4 DEF TypeOK
  <2>2. CASE teardown_pending[cur]
    <3>1. session_teardown(cur)
      BY <1>4, <2>2
    <3>2. TypeOK'
      BY <1>4, <2>1, <3>1, TeardownType, ConstAssumption DEF TypeOK
    <3>3. AuthHasUser' /\ PastOpen'
      BY <2>1, <3>1 DEF session_teardown, Fresh, TypeOK, AuthHasUser, PastOpen
    <3>4. RefusedCloses' /\ ResetPending'
      BY <2>1, <3>1 DEF session_teardown, Fresh, TypeOK, RefusedCloses, ResetPending
    <3>5. DeferredIsCurrent'
      BY <2>1, <3>1 DEF session_teardown, Fresh, TypeOK, DeferredIsCurrent
    <3> QED
      BY <3>2, <3>3, <3>4, <3>5
  <2>3. CASE ~teardown_pending[cur]
    <3>1. TypeOK'
      <4>1. ended' \in [Conns -> BOOLEAN]
        BY <1>4, <2>3, Zenon DEF TypeOK
      <4>2. stanza_depth' \in [Conns -> 0..2]
        BY <1>4, <2>1, <2>3 DEF TypeOK
      <4>3. parser_reset_pending' \in [Conns -> BOOLEAN]
        BY <1>4, <2>3 DEF TypeOK
      <4> QED
        BY <1>4, <2>3, <4>1, <4>2, <4>3, ConstAssumption DEF TypeOK
    <3>2. AuthHasUser' /\ PastOpen'
      BY <1>4, <2>1, <2>3 DEF TypeOK, AuthHasUser, PastOpen
    <3>3. RefusedCloses'
      BY <1>4, <2>1, <2>3 DEF TypeOK, RefusedCloses
    <3>4. ResetPending'
      BY <1>4, <2>1, <2>3 DEF TypeOK, ResetPending
    <3>5. DeferredIsCurrent'
      BY <1>4, <2>1, <2>3 DEF TypeOK, DeferredIsCurrent
    <3> QED
      BY <3>1, <3>2, <3>3, <3>4, <3>5
  <2> QED
    BY <2>2, <2>3
<1>5. ASSUME NEW good \in BOOLEAN, OnStreamOpen(good) PROVE IInv'
  <2> USE DEF OnStreamOpen, Content, Event, StreamError
  <2>1. TypeOK'
    <3>1. CASE good
      BY <1>5, <3>1, EventType DEF TypeOK, States
    <3>2. CASE ~good
      <4>1. teardown_pending' \in [Conns -> BOOLEAN]
        BY <1>5, <3>2 DEF TypeOK
      <4>2. stanza_depth' \in [Conns -> 0..2]
        BY <1>5 DEF TypeOK
      <4> QED
        BY <1>5, <3>2, <4>1, <4>2, EventType DEF TypeOK
    <3> QED
      BY <3>1, <3>2
  <2>2. AuthHasUser'
    BY <1>5 DEF TypeOK, AuthHasUser
  <2>3. PastOpen'
    BY <1>5 DEF TypeOK, PastOpen
  <2>4. RefusedCloses'
    BY <1>5 DEF TypeOK, RefusedCloses
  <2>5. DeferredIsCurrent'
    BY <1>5 DEF TypeOK, DeferredIsCurrent
  <2>6. ResetPending'
    BY <1>5 DEF TypeOK, ResetPending
  <2> QED
    BY <2>1, <2>2, <2>3, <2>4, <2>5, <2>6
<1>6. ASSUME OnNestedOpen PROVE IInv'
  <2> USE DEF OnNestedOpen, Stanza, Content, Event
  <2>1. TypeOK'
    BY <1>6, EventType DEF TypeOK
  <2>2. AuthHasUser'
    BY <1>6 DEF TypeOK, AuthHasUser
  <2>3. PastOpen'
    BY <1>6 DEF TypeOK, PastOpen
  <2>4. RefusedCloses'
    BY <1>6 DEF TypeOK, RefusedCloses
  <2>5. DeferredIsCurrent'
    BY <1>6 DEF TypeOK, DeferredIsCurrent
  <2>6. ResetPending'
    BY <1>6 DEF TypeOK, ResetPending
  <2> QED
    BY <2>1, <2>2, <2>3, <2>4, <2>5, <2>6
<1>7. ASSUME OnStreamClose PROVE IInv'
  <2> USE DEF OnStreamClose, Content, Event, StreamError
  <2>1. TypeOK'
    BY <1>7, EventType DEF TypeOK
  <2>2. AuthHasUser'
    BY <1>7 DEF TypeOK, AuthHasUser
  <2>3. PastOpen'
    BY <1>7 DEF TypeOK, PastOpen
  <2>4. RefusedCloses'
    BY <1>7 DEF TypeOK, RefusedCloses
  <2>5. DeferredIsCurrent'
    BY <1>7 DEF TypeOK, DeferredIsCurrent
  <2>6. ResetPending'
    BY <1>7 DEF TypeOK, ResetPending
  <2> QED
    BY <2>1, <2>2, <2>3, <2>4, <2>5, <2>6
<1>8. ASSUME OnXmlError PROVE IInv'
  <2> USE DEF OnXmlError, Event, StreamError
  <2>1. TypeOK'
    BY <1>8, EventType DEF TypeOK
  <2>2. AuthHasUser'
    BY <1>8 DEF TypeOK, AuthHasUser
  <2>3. PastOpen'
    BY <1>8 DEF TypeOK, PastOpen
  <2>4. RefusedCloses'
    BY <1>8 DEF TypeOK, RefusedCloses
  <2>5. DeferredIsCurrent'
    BY <1>8 DEF TypeOK, DeferredIsCurrent
  <2>6. ResetPending'
    BY <1>8 DEF TypeOK, ResetPending
  <2> QED
    BY <2>1, <2>2, <2>3, <2>4, <2>5, <2>6
<1>9. ASSUME OnRefused PROVE IInv'
  <2> USE DEF OnRefused, Stanza, Content, Event, StreamError
  <2>1. TypeOK'
    BY <1>9, EventType DEF TypeOK
  <2>2. AuthHasUser'
    BY <1>9 DEF TypeOK, AuthHasUser
  <2>3. PastOpen'
    BY <1>9 DEF TypeOK, PastOpen
  <2>4. RefusedCloses'
    BY <1>9 DEF TypeOK, RefusedCloses
  <2>5. DeferredIsCurrent'
    BY <1>9 DEF TypeOK, DeferredIsCurrent
  <2>6. ResetPending'
    BY <1>9 DEF TypeOK, ResetPending
  <2> QED
    BY <2>1, <2>2, <2>3, <2>4, <2>5, <2>6
<1>10. ASSUME NEW u \in Users, NEW pw \in Passwords, OnAuth(u, pw) PROVE IInv'
  <2> USE DEF OnAuth, PreAuth, Stanza, Content, Event
  <2>1. TypeOK'
    BY <1>10, EventType DEF TypeOK, States
  <2>2. AuthHasUser'
    BY <1>10, ConstAssumption DEF TypeOK, AuthHasUser
  <2>3. PastOpen'
    BY <1>10 DEF TypeOK, PastOpen
  <2>4. RefusedCloses'
    BY <1>10 DEF TypeOK, RefusedCloses
  <2>5. DeferredIsCurrent'
    BY <1>10 DEF TypeOK, DeferredIsCurrent
  <2>6. ResetPending'
    BY <1>10 DEF TypeOK, ResetPending
  <2> QED
    BY <2>1, <2>2, <2>3, <2>4, <2>5, <2>6
<1>11. ASSUME NEW u \in Users, NEW pw \in Passwords, OnRegister(u, pw) PROVE IInv'
  <2> USE DEF OnRegister, Stanza, Content, Event, sessVars
  <2>1. TypeOK'
    BY <1>11, EventType DEF TypeOK, user_create, user_change_password, user_exists
  <2>2. AuthHasUser'
    BY <1>11 DEF TypeOK, AuthHasUser
  <2>3. PastOpen'
    BY <1>11 DEF TypeOK, PastOpen
  <2>4. RefusedCloses'
    BY <1>11 DEF TypeOK, RefusedCloses
  <2>5. DeferredIsCurrent'
    BY <1>11 DEF TypeOK, DeferredIsCurrent
  <2>6. ResetPending'
    BY <1>11 DEF TypeOK, ResetPending
  <2> QED
    BY <2>1, <2>2, <2>3, <2>4, <2>5, <2>6
<1>12. ASSUME OnBind PROVE IInv'
  <2> DEFINE existing == FindByJid(jid_local[cur])
             kick == existing # NONE /\ existing # cur
  <2>1. cur \in Conns /\ cur' = cur /\ events' \in 0..MaxEvents
    BY <1>12, EventType DEF OnBind, Stanza, Content
  <2>2. password' = password
    BY <1>12 DEF OnBind
  <2>3. authenticated[cur] \/ teardown_pending[cur]
    BY <1>12, <2>1 DEF OnBind, CanBind, PreAuth, PastOpen
  <2> HIDE DEF existing
  <2>4. CASE kick
    <3>1. existing \in InTable
      BY <2>4, FindByJidProperties DEF existing
    <3>2. existing \in Conns /\ \E k \in DOMAIN tab : tab[k] = existing
      BY <3>1, ElementOfSeq, LenProperties DEF InTable, TypeOK
    <3>3. tab' \in Seq(Conns) /\ Len(tab') < MAX_CLIENTS
      <4>1. tab' = Table!SwapRemove(tab, existing)
        BY <1>12, <2>4 DEF OnBind, existing
      <4> QED
        BY <3>2, <4>1, SwapRemoveProperties, LenProperties, ConstAssumption DEF TypeOK
    <3>4. /\ state' = [[state EXCEPT ![existing] = "CONNECTED"] EXCEPT ![cur] = "BOUND"]
          /\ authenticated' = [authenticated EXCEPT ![existing] = FALSE]
          /\ jid_local' = [jid_local EXCEPT ![existing] = NONE]
          /\ stanza_depth' = [stanza_depth EXCEPT ![existing] = 0]
          /\ parser_reset_pending' = [parser_reset_pending EXCEPT ![existing] = FALSE]
          /\ teardown_pending' = [teardown_pending EXCEPT ![existing] = FALSE]
          /\ ended' = [ended EXCEPT ![existing] = FALSE]
      BY <1>12, <2>4 DEF OnBind, existing
    <3>5. TypeOK'
      BY <2>1, <2>2, <3>2, <3>3, <3>4 DEF TypeOK, States
    <3>6. AuthHasUser'
      BY <2>4, <3>2, <3>4 DEF TypeOK, AuthHasUser
    <3>7. PastOpen'
      BY <2>1, <2>3, <2>4, <3>2, <3>4 DEF TypeOK, PastOpen
    <3>8. RefusedCloses'
      BY <2>1, <2>4, <3>2, <3>4 DEF TypeOK, RefusedCloses
    <3>9. DeferredIsCurrent'
      BY <2>1, <3>2, <3>4 DEF TypeOK, DeferredIsCurrent
    <3>10. ResetPending'
      BY <2>1, <2>4, <3>2, <3>4 DEF TypeOK, ResetPending
    <3> QED
      BY <3>5, <3>6, <3>7, <3>8, <3>9, <3>10
  <2>5. CASE ~kick
    <3>1. /\ state' = [state EXCEPT ![cur] = "BOUND"]
          /\ UNCHANGED <<tab, authenticated, jid_local, stanza_depth,
                         parser_reset_pending, teardown_pending, ended>>
      BY <1>12, <2>5 DEF OnBind, existing
    <3>2. TypeOK'
      BY <2>1, <2>2, <3>1 DEF TypeOK, States
    <3>3. PastOpen'
      BY <2>1, <2>3, <3>1 DEF TypeOK, PastOpen
    <3>4. RefusedCloses' /\ ResetPending'
      BY <2>1, <3>1 DEF TypeOK, RefusedCloses, ResetPending
    <3>5. AuthHasUser' /\ DeferredIsCurrent'
      BY <2>1, <3>1 DEF AuthHasUser, DeferredIsCurrent
    <3> QED
      BY <3>2, <3>3, <3>4, <3>5
  <2> QED
    BY <2>4, <2>5
<1>13. ASSUME OnSessionIq PROVE IInv'
  <2> USE DEF OnSessionIq, PreAuth, Stanza, Content, Event
  <2>1. TypeOK'
    BY <1>13, EventType DEF TypeOK, States
  <2>2. AuthHasUser'
    BY <1>13 DEF TypeOK, AuthHasUser
  <2>3. PastOpen'
    BY <1>13 DEF TypeOK, PastOpen, RefusedCloses, States
  <2>4. RefusedCloses'
    BY <1>13 DEF TypeOK, RefusedCloses
  <2>5. DeferredIsCurrent'
    BY <1>13 DEF TypeOK, DeferredIsCurrent
  <2>6. ResetPending'
    BY <1>13 DEF TypeOK, ResetPending
  <2> QED
    BY <2>1, <2>2, <2>3, <2>4, <2>5, <2>6
<1>14. ASSUME OnRouted \/ OnAnswered PROVE IInv'
  <2> USE DEF OnRouted, OnAnswered, Stanza, Content, Event, sessVars
  <2>1. TypeOK'
    BY <1>14, EventType DEF TypeOK
  <2>2. AuthHasUser'
    BY <1>14 DEF TypeOK, AuthHasUser
  <2>3. PastOpen'
    BY <1>14 DEF TypeOK, PastOpen
  <2>4. RefusedCloses'
    BY <1>14 DEF TypeOK, RefusedCloses
  <2>5. DeferredIsCurrent'
    BY <1>14 DEF TypeOK, DeferredIsCurrent
  <2>6. ResetPending'
    BY <1>14 DEF TypeOK, ResetPending
  <2> QED
    BY <2>1, <2>2, <2>3, <2>4, <2>5, <2>6
<1>15. ASSUME OnRemoveAccount PROVE IInv'
  <2> USE DEF OnRemoveAccount, Stanza, Content, Event, StreamError
  <2>1. TypeOK'
    BY <1>15, EventType, ConstAssumption DEF TypeOK, AuthHasUser, user_delete
  <2>2. AuthHasUser'
    BY <1>15 DEF TypeOK, AuthHasUser
  <2>3. PastOpen'
    BY <1>15 DEF TypeOK, PastOpen
  <2>4. RefusedCloses'
    BY <1>15 DEF TypeOK, RefusedCloses
  <2>5. DeferredIsCurrent'
    BY <1>15 DEF TypeOK, DeferredIsCurrent
  <2>6. ResetPending'
    BY <1>15 DEF TypeOK, ResetPending
  <2> QED
    BY <2>1, <2>2, <2>3, <2>4, <2>5, <2>6
<1>16. CASE UNCHANGED vars
  BY <1>16 DEF vars, sessVars, TypeOK, AuthHasUser, PastOpen, RefusedCloses, DeferredIsCurrent, ResetPending
<1> QED
  BY <1>1, <1>2, <1>3, <1>4, <1>5, <1>6, <1>7, <1>8, <1>9, <1>10, <1>11, <1>12, <1>13, <1>14, <1>15, <1>16 DEF Next

(* IInv holds in every state. *)
LEMMA IInvAlways == Spec => []IInv
  BY InitIInv, NextIInv, PTL DEF Spec

(* Every state has its types, and the table never outgrows the poll array. *)
THEOREM TypeCorrect == Spec => []TypeOK
<1>1. IInv => TypeOK
  BY DEF IInv
<1> QED
  BY <1>1, IInvAlways, PTL

(* Between chunks of input, a session past STREAM_OPENED has authenticated. *)
THEOREM ActiveAuthenticatedHolds == Spec => []ActiveAuthenticated
<1>1. IInv => ActiveAuthenticated
  <2> SUFFICES ASSUME IInv, cur = NONE, NEW c \in Conns,
                      state[c] \in {"AUTHENTICATED", "BOUND", "SESSION_ACTIVE"}
               PROVE  authenticated[c] /\ jid_local[c] \in Users
    BY DEF ActiveAuthenticated
  <2>1. ~teardown_pending[c]
    BY ConstAssumption DEF IInv, DeferredIsCurrent
  <2>2. authenticated[c]
    BY <2>1 DEF IInv, PastOpen
  <2> QED
    BY <2>2 DEF IInv, TypeOK, AuthHasUser
<1> QED
  BY <1>1, IInvAlways, PTL

(* Between chunks of input, a session that has just authenticated has a new
   parser, at the start of a document. *)
THEOREM RestartCleanHolds == Spec => []RestartClean
<1>1. IInv => RestartClean
  BY ConstAssumption DEF IInv, RestartClean, DeferredIsCurrent, ResetPending
<1> QED
  BY <1>1, IInvAlways, PTL
-----------------------------------------------------------------------------
(* No session has two places in the table. *)
Distinct == \A j, k \in DOMAIN tab : tab[j] = tab[k] => j = k

(* server_remove_session leaves no trace of the session, and no repetition. *)
LEMMA SwapRemoveDistinct ==
  ASSUME NEW t \in Seq(Conns), NEW c, \E k \in DOMAIN t : t[k] = c,
         \A j, k \in DOMAIN t : t[j] = t[k] => j = k
  PROVE  /\ \A j, k \in DOMAIN Table!SwapRemove(t, c) :
              Table!SwapRemove(t, c)[j] = Table!SwapRemove(t, c)[k] => j = k
         /\ \A k \in DOMAIN Table!SwapRemove(t, c) : Table!SwapRemove(t, c)[k] # c
<1> DEFINE n == Len(t)
           r == Table!SwapRemove(t, c)
<1>1. n \in Nat /\ DOMAIN t = 1..n
  BY LenProperties
<1>2. r = [k \in 1..(n - 1) |-> IF t[k] = c THEN t[n] ELSE t[k]]
  BY DEF Table!SwapRemove
<1>3. DOMAIN r = 1..(n - 1)
  BY <1>2
<1> HIDE DEF r
<1>4. PICK m \in 1..n : t[m] = c
  BY <1>1
<1> HIDE DEF n
<1>5. ASSUME NEW k \in 1..(n - 1)
      PROVE  r[k] = (IF k = m THEN t[n] ELSE t[k]) /\ k \in 1..n /\ k # n
  <2>1. k \in 1..n /\ k # n
    BY <1>1
  <2>2. t[k] = c <=> k = m
    BY <1>1, <1>4, <2>1
  <2> QED
    BY <1>2, <2>1, <2>2
<1>6. n \in 1..n
  BY <1>1, <1>4
<1>7. \A j, k \in 1..(n - 1) : r[j] = r[k] => j = k
  BY <1>1, <1>5, <1>6
<1>8. \A k \in 1..(n - 1) : r[k] # c
  BY <1>1, <1>4, <1>5, <1>6
<1> QED
  BY <1>3, <1>7, <1>8 DEF r

(* How a step changes the table: not at all, and then a user once set stays;
   by a new session at the end; or by one session less, which is the session
   being read, or one that has the user the session being read authenticated
   as, or leaves when none is being read. *)
LEMMA TableStep ==
  ASSUME IInv, [Next]_vars
  PROVE  \/ tab' = tab /\ \A d \in Conns : jid_local[d] # NONE => jid_local'[d] = jid_local[d]
         \/ \E c \in Conns : Accept(c)
         \/ \E c \in InTable :
              /\ tab' = Table!SwapRemove(tab, c)
              /\ \A d \in Conns \ {c} : jid_local'[d] = jid_local[d]
              /\ cur = NONE \/ c = cur \/ (authenticated[cur] /\ jid_local[c] = jid_local[cur])
<1>1. CASE \E c \in Conns : Drop(c) \/ BeginRead(c)
  <2>1. PICK c \in Conns : Drop(c) \/ BeginRead(c)
    BY <1>1
  <2>2. CASE BeginRead(c)
    BY <2>2 DEF BeginRead, sessVars
  <2>3. CASE Drop(c)
    <3>1. c \in InTable /\ tab' = Table!SwapRemove(tab, c) /\ cur = NONE
      BY <2>3 DEF Drop, session_teardown, Table!Remove, Table!Members, InTable
    <3>2. \A d \in Conns \ {c} : jid_local'[d] = jid_local[d]
      BY <2>3 DEF Drop, session_teardown, Fresh, IInv, TypeOK
    <3> QED
      BY <3>1, <3>2
  <2> QED
    BY <2>1, <2>2, <2>3
<1>2. CASE EndRead
  <2>1. CASE teardown_pending[cur]
    <3>1. cur \in InTable /\ tab' = Table!SwapRemove(tab, cur)
      BY <1>2, <2>1 DEF EndRead, session_teardown, Table!Remove, Table!Members, InTable
    <3>2. \A d \in Conns \ {cur} : jid_local'[d] = jid_local[d]
      BY <1>2, <2>1 DEF EndRead, session_teardown, Fresh, IInv, TypeOK
    <3> QED
      BY <3>1, <3>2
  <2>2. CASE ~teardown_pending[cur]
    BY <1>2, <2>2 DEF EndRead
  <2> QED
    BY <2>1, <2>2
<1>3. CASE OnBind
  <2> DEFINE existing == FindByJid(jid_local[cur])
  <2>1. CASE existing # NONE /\ existing # cur
    <3>1. existing \in InTable /\ jid_local[existing] = jid_local[cur] /\ jid_local[cur] # NONE
      BY <2>1, FindByJidProperties DEF IInv
    <3>2. cur \in Conns
      BY <1>3, EventType DEF IInv, OnBind, Stanza, Content
    <3>3. authenticated[cur]
      BY <3>1, <3>2 DEF IInv, AuthHasUser
    <3>4. tab' = Table!SwapRemove(tab, existing) /\ jid_local' = [jid_local EXCEPT ![existing] = NONE]
      BY <1>3, <2>1 DEF OnBind
    <3>5. \A d \in Conns \ {existing} : jid_local'[d] = jid_local[d]
      BY <3>4 DEF IInv, TypeOK
    <3> QED
      BY <3>1, <3>3, <3>4, <3>5
  <2>2. CASE ~(existing # NONE /\ existing # cur)
    BY <1>3, <2>2 DEF OnBind
  <2> QED
    BY <2>1, <2>2
<1>4. CASE \E u \in Users, pw \in Passwords : OnAuth(u, pw)
  <2>1. PICK u \in Users, pw \in Passwords : OnAuth(u, pw)
    BY <1>4
  <2>2. cur \in Conns
    BY <2>1, EventType DEF IInv, OnAuth, Stanza, Content
  <2>3. jid_local[cur] = NONE
    BY <2>1, <2>2 DEF IInv, AuthHasUser, OnAuth, PreAuth
  <2> QED
    BY <2>1, <2>2, <2>3 DEF OnAuth, IInv, TypeOK
<1>5. CASE \/ \E good \in BOOLEAN : OnStreamOpen(good)
           \/ OnNestedOpen \/ OnStreamClose \/ OnXmlError \/ OnRefused
           \/ \E u \in Users, pw \in Passwords : OnRegister(u, pw)
           \/ OnSessionIq \/ OnRouted \/ OnAnswered \/ OnRemoveAccount
           \/ UNCHANGED vars
  BY <1>5 DEF vars, sessVars, OnStreamOpen, OnNestedOpen, OnStreamClose, OnXmlError, OnRefused,
              OnRegister, OnSessionIq, OnRouted, OnAnswered, OnRemoveAccount
<1> QED
  BY <1>1, <1>2, <1>3, <1>4, <1>5 DEF Next

(* The table holds no session twice. *)
LEMMA DistinctAlways == Spec => []Distinct
<1>1. Init => Distinct
  BY DEF Init, Distinct
<1>2. IInv /\ Distinct /\ [Next]_vars => Distinct'
  <2> SUFFICES ASSUME IInv, Distinct, [Next]_vars PROVE Distinct'
    OBVIOUS
  <2>1. tab \in Seq(Conns)
    BY DEF IInv, TypeOK
  <2>2. CASE tab' = tab
    BY <2>2 DEF Distinct
  <2>3. ASSUME NEW c \in Conns, Accept(c) PROVE Distinct'
    <3>1. tab' = Append(tab, c) /\ \A k \in DOMAIN tab : tab[k] # c
      BY <2>3 DEF Accept, Table!Add, Table!Members
    <3>2. Len(tab) \in Nat /\ DOMAIN tab = 1..Len(tab)
      BY <2>1, LenProperties
    <3>3. /\ DOMAIN tab' = 1..(Len(tab) + 1)
          /\ \A k \in 1..Len(tab) : tab'[k] = tab[k]
          /\ tab'[Len(tab) + 1] = c
      BY <2>1, <3>1, <3>2, AppendProperties, LenProperties
    <3> QED
      BY <3>1, <3>2, <3>3 DEF Distinct
  <2>4. ASSUME NEW c \in InTable, tab' = Table!SwapRemove(tab, c) PROVE Distinct'
    <3>1. \E k \in DOMAIN tab : tab[k] = c
      BY DEF InTable
    <3> QED
      BY <2>1, <2>4, <3>1, SwapRemoveDistinct DEF Distinct
  <2> QED
    BY <2>2, <2>3, <2>4, TableStep
<1> QED
  BY <1>1, <1>2, IInvAlways, PTL DEF Spec

(* Whoever is not the session taken out keeps a place, and the one taken out
   has none left. *)
LEMMA SwapRemoveMembers ==
  ASSUME IInv, Distinct, NEW c \in InTable, tab' = Table!SwapRemove(tab, c)
  PROVE  InTable' = InTable \ {c}
<1>1. tab \in Seq(Conns) /\ \E k \in DOMAIN tab : tab[k] = c
  BY DEF IInv, TypeOK, InTable
<1>2. DOMAIN tab' = 1..(Len(tab) - 1) /\ DOMAIN tab = 1..Len(tab) /\ Len(tab) \in Nat
  BY <1>1, SwapRemoveProperties, LenProperties
<1>3. \A d \in InTable : d # c => d \in InTable'
  BY <1>1, <1>2, SwapRemoveProperties DEF InTable
<1>4. \A d \in InTable' : d # c
  BY <1>1, <1>2, SwapRemoveDistinct DEF InTable, Distinct
<1>5. \A d \in InTable' : d \in InTable
  BY <1>1, <1>2 DEF InTable, Table!SwapRemove
<1> QED
  BY <1>3, <1>4, <1>5

(* The user of a session does not change while the session lasts. *)
THEOREM UserFixedHolds == Spec => UserFixed
<1> DEFINE A == \A c \in InTable : jid_local[c] # NONE /\ c \in InTable' => jid_local'[c] = jid_local[c]
<1>1. IInv /\ Distinct /\ [Next]_vars => [A]_vars
  <2> SUFFICES ASSUME IInv, Distinct, Next, NEW c \in InTable, jid_local[c] # NONE, c \in InTable'
               PROVE  jid_local'[c] = jid_local[c]
    OBVIOUS
  <2>1. c \in Conns
    BY ElementOfSeq, LenProperties DEF InTable, IInv, TypeOK
  <2>2. CASE \E d \in InTable : /\ tab' = Table!SwapRemove(tab, d)
                                /\ \A e \in Conns \ {d} : jid_local'[e] = jid_local[e]
    BY <2>1, <2>2, SwapRemoveMembers
  <2>3. CASE \E d \in Conns : Accept(d)
    BY <2>3 DEF Accept, sessVars
  <2>4. CASE \A d \in Conns : jid_local[d] # NONE => jid_local'[d] = jid_local[d]
    BY <2>1, <2>4
  <2> QED
    BY <2>2, <2>3, <2>4, TableStep
<1> QED
  BY <1>1, IInvAlways, DistinctAlways, PTL DEF Spec, UserFixed

(* A session is displaced, while another one is being read, only by one that
   has authenticated as the same user. *)
THEOREM KickedBySameUserHolds == Spec => KickedBySameUser
<1> DEFINE A == \A c \in InTable : cur # NONE /\ c # cur /\ c \notin InTable' =>
                  authenticated[cur] /\ jid_local[c] = jid_local[cur]
<1>1. IInv /\ Distinct /\ [Next]_vars => [A]_vars
  <2> SUFFICES ASSUME IInv, Distinct, Next, NEW c \in InTable, cur # NONE, c # cur, c \notin InTable'
               PROVE  authenticated[cur] /\ jid_local[c] = jid_local[cur]
    OBVIOUS
  <2>1. CASE \E d \in InTable :
               /\ tab' = Table!SwapRemove(tab, d)
               /\ d = cur \/ (authenticated[cur] /\ jid_local[d] = jid_local[cur])
    BY <2>1, SwapRemoveMembers
  <2>2. CASE \E d \in Conns : Accept(d)
    BY <2>2 DEF Accept
  <2>3. CASE tab' = tab
    BY <2>3 DEF InTable
  <2> QED
    BY <2>1, <2>2, <2>3, TableStep
<1> QED
  BY <1>1, IInvAlways, DistinctAlways, PTL DEF Spec, KickedBySameUser

(* Every step of the negotiation uses the table as ClientTable allows: a session
   that a bind displaces or a read closes is in the table, and is taken out by
   one swap.  With EventLoop's ImplementsTable this joins the two layers. *)
THEOREM UsesTableHolds == Spec => Table!Spec
<1>1. Init => Table!Init
  BY DEF Init, Table!Init
<1>2. IInv /\ [Next]_vars => [Table!Next]_tab
  <2> SUFFICES ASSUME IInv, [Next]_vars PROVE Table!Next \/ tab' = tab
    OBVIOUS
  <2>1. CASE \E c \in Conns : Accept(c)
    BY <2>1 DEF Accept, Table!Next
  <2>2. ASSUME NEW c \in InTable, tab' = Table!SwapRemove(tab, c) PROVE Table!Next
    <3>1. c \in Conns
      BY ElementOfSeq, LenProperties DEF InTable, IInv, TypeOK
    <3>2. Table!Remove(c)
      BY <2>2 DEF InTable, Table!Remove, Table!Members
    <3> QED
      BY <3>1, <3>2 DEF Table!Next
  <2> QED
    BY <2>1, <2>2, TableStep
<1> QED
  BY <1>1, <1>2, IInvAlways, PTL DEF Spec, Table!Spec
=============================================================================
