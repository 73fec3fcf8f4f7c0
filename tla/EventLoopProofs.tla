-------------------------- MODULE EventLoopProofs --------------------------
(***************************************************************************)
(* Proofs about EventLoop, for any number of connections and any size of   *)
(* the table and of the buffers: the type invariant, the agreement of the  *)
(* poll array, the session array and the back-pointers (TableOK), that the *)
(* session being parsed lives to the end of the parse, and no longer when  *)
(* it is to be closed (ParserAlive, CloseNotForgotten), that a session     *)
(* waits for POLLOUT exactly when it has unsent output, that what poll()   *)
(* reported for it is still true when the loop gets to it, so a healthy    *)
(* session is never dropped, and that the arrays implement the list of     *)
(* ClientTable.                                                            *)
(*                                                                         *)
(* The first four are not inductive alone.  The swap of                    *)
(* server_remove_session keeps the arrays in agreement because the session *)
(* it removes is in the table; that holds for the session being read       *)
(* because it is alive; and the loop index stays inside the arrays because *)
(* a slot that still holds a session after the read is below nfds.  For    *)
(* the others a session is followed by its own entry of the poll array,    *)
(* wherever the swaps have put it; without the agreement of the arrays,    *)
(* the entry found through poll_index could belong to another session.     *)
(***************************************************************************)
EXTENDS EventLoop, SequenceTheorems, TLAPS

PollFd == [fd : Conns \cup {NULL}, events : SUBSET {"IN", "OUT"},
           revents : SUBSET {"IN", "OUT", "HUP"}]

(* The three parts of TableOK. *)
Filled == \A k \in 1..(nfds - 1) : /\ sessions[k] \in Live
                                   /\ pollfds[k].fd = sessions[k]
                                   /\ poll_index[sessions[k]] = k
Vacant == \A k \in nfds..(MAX_CLIENTS - 1) : sessions[k] = NULL /\ pollfds[k] = FreeSlot
Found == \A c \in Live : poll_index[c] \in 1..(nfds - 1) /\ sessions[poll_index[c]] = c
SlotsAgree == Filled /\ Vacant /\ Found

(* The types of the table, and of the rest. *)
TableType ==
  /\ pollfds \in [Slots -> PollFd]
  /\ sessions \in [Slots -> Conns \cup {NULL}]
  /\ nfds \in 1..MAX_CLIENTS
  /\ poll_index \in [Conns -> Slots]
  /\ write_len \in [Conns -> 0..MaxOut]
FlagType ==
  /\ in_xml_parse \in [Conns -> BOOLEAN]
  /\ teardown_pending \in [Conns -> BOOLEAN]
NetType ==
  /\ conn \in [Conns -> {"free", "backlog", "open"}]
  /\ peer \in [Conns -> {"open", "fin", "reset"}]
  /\ inbuf \in [Conns -> 0..READ_BUF]
LoopType ==
  /\ pc \in {"poll", "accept", "scan", "parse", "out", "stopped"}
  /\ i \in 1..MAX_CLIENTS
  /\ cur \in Conns \cup {NULL}
  /\ stanzas \in 0..MaxStanzas
  /\ shutdown_flag \in BOOLEAN

(* The loop index is inside the arrays when a slot is worked on, and in the
   POLLOUT check the slot is in use. *)
IndexOK == /\ pc = "parse" => i < MAX_CLIENTS
           /\ pc = "out" => i < nfds

IInv == /\ TableType /\ FlagType /\ NetType /\ LoopType
        /\ pc # "stopped" => SlotsAgree
        /\ IndexOK /\ ParserAlive /\ CloseNotForgotten
-----------------------------------------------------------------------------
(* session_write touches the entries of the sessions written to, and there
   only the events. *)
LEMMA WithOutProperties ==
  ASSUME TableType, NEW W
  PROVE  /\ WithOut(pollfds, W) \in [Slots -> PollFd]
         /\ \A k \in Slots : WithOut(pollfds, W)[k].fd = pollfds[k].fd
         /\ \A k \in Slots : (\A c \in W : poll_index[c] # k) => WithOut(pollfds, W)[k] = pollfds[k]
<1> DEFINE pf == WithOut(pollfds, W)
<1>1. \A k \in Slots : pf[k] = IF \E c \in W : poll_index[c] = k
                                 THEN [pollfds[k] EXCEPT !.events = @ \cup {"OUT"}] ELSE pollfds[k]
  BY DEF WithOut
<1>2. \A k \in Slots : pollfds[k] \in PollFd
  BY DEF TableType
<1>3. \A p \in PollFd : /\ [p EXCEPT !.events = @ \cup {"OUT"}] \in PollFd
                        /\ [p EXCEPT !.events = @ \cup {"OUT"}].fd = p.fd
  BY DEF PollFd
<1> HIDE DEF pf
<1>4. ASSUME NEW k \in Slots PROVE pf[k] \in PollFd
  <2>1. CASE \E c \in W : poll_index[c] = k
    <3>1. [pollfds[k] EXCEPT !.events = @ \cup {"OUT"}] \in PollFd
      BY <1>2 DEF PollFd
    <3> QED
      BY <1>1, <2>1, <3>1
  <2>2. CASE ~\E c \in W : poll_index[c] = k
    BY <1>1, <1>2, <2>2
  <2> QED
    BY <2>1, <2>2
<1>5. pf \in [Slots -> PollFd]
  BY <1>4 DEF pf, WithOut
<1> QED
  BY <1>1, <1>2, <1>3, <1>5 DEF pf

(* A session_write leaves every write_len within its bound. *)
LEMMA WrittenType ==
  ASSUME TableType, NEW W
  PROVE  Written(W) \in [Conns -> 0..MaxOut]
  BY ConstAssumption DEF Written, More, TableType

(* session_flush touches one entry, and there only the events. *)
LEMMA DrainedProperties ==
  ASSUME TableType, NEW pf \in [Slots -> PollFd], NEW s \in Conns, NEW left
  PROVE  /\ Drained(pf, s, left) \in [Slots -> PollFd]
         /\ \A k \in Slots : Drained(pf, s, left)[k].fd = pf[k].fd
         /\ \A k \in Slots : k # poll_index[s] => Drained(pf, s, left)[k] = pf[k]
<1>1. \A p \in PollFd : /\ [p EXCEPT !.events = @ \ {"OUT"}] \in PollFd
                        /\ [p EXCEPT !.events = @ \ {"OUT"}].fd = p.fd
  BY DEF PollFd
<1>2. poll_index[s] \in Slots
  BY DEF TableType
<1>3. CASE left = 0
  <2>1. Drained(pf, s, left) = [pf EXCEPT ![poll_index[s]] = [pf[poll_index[s]] EXCEPT !.events = @ \ {"OUT"}]]
    BY <1>3 DEF Drained
  <2> QED
    BY <1>1, <1>2, <2>1
<1>4. CASE left # 0
  BY <1>4 DEF Drained
<1> QED
  BY <1>3, <1>4

(* Poll array pf differs from pollfds in the events of used entries only. *)
SameSlots(pf) ==
  /\ pf \in [Slots -> PollFd]
  /\ \A k \in Slots : pf[k].fd = pollfds[k].fd
  /\ \A k \in nfds..(MAX_CLIENTS - 1) : pf[k] = pollfds[k]

(* Such a change does not affect the table. *)
LEMMA SlotsAgreeEvents ==
  ASSUME SlotsAgree, TableType, SameSlots(pollfds'), UNCHANGED <<sessions, nfds, poll_index, conn>>
  PROVE  SlotsAgree'
<1>1. 1..(nfds - 1) \subseteq Slots
  BY ConstAssumption DEF TableType, Slots
<1>2. Live' = Live
  BY DEF Live
<1>3. Filled'
  BY <1>1, <1>2 DEF SlotsAgree, Filled, SameSlots
<1>4. Vacant'
  BY DEF SlotsAgree, Vacant, SameSlots
<1>5. Found'
  BY <1>2 DEF SlotsAgree, Found
<1> QED
  BY <1>3, <1>4, <1>5 DEF SlotsAgree

(* Array new is arr with the last entry moved to idx, and emptied. *)
Swapped(new, arr, idx, empty) ==
  \A k \in Slots : new[k] = IF k = nfds - 1 THEN empty ELSE IF k = idx THEN arr[nfds - 1] ELSE arr[k]

(* server_remove_session, for an array of any kind: the entry idx gets the
   last one, the last one is emptied, the others stay. *)
LEMMA SwapLastProperties ==
  ASSUME nfds \in 1..MAX_CLIENTS, NEW S, NEW arr \in [Slots -> S], NEW empty \in S,
         NEW idx \in 1..(nfds - 1)
  PROVE  /\ SwapLast(arr, idx, empty) \in [Slots -> S]
         /\ Swapped(SwapLast(arr, idx, empty), arr, idx, empty)
<1>1. nfds - 1 \in Slots
  BY ConstAssumption DEF Slots
<1> DEFINE Entry(k) == CASE k = nfds - 1 -> empty
                         [] k = idx /\ k # nfds - 1 -> arr[nfds - 1]
                         [] OTHER -> arr[k]
<1>2. SwapLast(arr, idx, empty) = [k \in Slots |-> Entry(k)]
  BY DEF SwapLast
<1>3. \A k \in Slots : Entry(k) = IF k = nfds - 1 THEN empty ELSE IF k = idx THEN arr[nfds - 1] ELSE arr[k]
  OBVIOUS
<1>4. \A k \in Slots : Entry(k) \in S
  BY <1>1, <1>3
<1> HIDE DEF Entry
<1> QED
  BY <1>2, <1>3, <1>4 DEF Swapped

(* session_teardown of a session of the table, entry by entry: the last
   session takes its place, and the back-pointers follow. *)
LEMMA TeardownEntries ==
  ASSUME TableType, SlotsAgree, NEW s \in Live, NEW W \in SUBSET (Live \ {s}),
         session_teardown(s, W)
  PROVE  /\ poll_index[s] \in 1..(nfds - 1) /\ nfds - 1 \in Slots /\ poll_index[s] \in Slots
         /\ sessions[poll_index[s]] = s
         /\ pollfds' \in [Slots -> PollFd]
         /\ Swapped(pollfds', WithOut(pollfds, W), poll_index[s], FreeSlot)
         /\ sessions' \in [Slots -> Conns \cup {NULL}]
         /\ Swapped(sessions', sessions, poll_index[s], NULL)
         /\ nfds' = nfds - 1 /\ nfds' \in 1..MAX_CLIENTS
         /\ \A c \in Conns : poll_index'[c] =
              IF c = s THEN 0 ELSE IF c = sessions[nfds - 1] THEN poll_index[s] ELSE poll_index[c]
<1> DEFINE idx == poll_index[s]
           last == nfds - 1
           pf == WithOut(pollfds, W)
<1>1. s \in Conns /\ Live \subseteq Conns
  BY DEF Live
<1>2. idx \in 1..last /\ last \in Slots /\ idx \in Slots /\ sessions[idx] = s
  BY <1>1, ConstAssumption DEF SlotsAgree, Found, TableType, Slots
<1>3. pf \in [Slots -> PollFd]
  BY WithOutProperties
<1>4. FreeSlot \in PollFd
  BY DEF FreeSlot, PollFd
<1> HIDE DEF pf
<1>5. /\ pollfds' \in [Slots -> PollFd]
      /\ \A k \in Slots : pollfds'[k] =
           IF k = last THEN FreeSlot ELSE IF k = idx THEN pf[last] ELSE pf[k]
  <2>1. pollfds' = SwapLast(pf, idx, FreeSlot)
    BY DEF session_teardown, pf
  <2> HIDE DEF idx
  <2>2. nfds \in 1..MAX_CLIENTS /\ idx \in 1..(nfds - 1)
    BY <1>2 DEF TableType
  <2>3. pollfds' \in [Slots -> PollFd] /\ Swapped(pollfds', pf, idx, FreeSlot)
    BY <1>3, <1>4, <2>1, <2>2, SwapLastProperties
  <2> QED
    BY <2>3 DEF Swapped
<1>6. /\ sessions' \in [Slots -> Conns \cup {NULL}]
      /\ \A k \in Slots : sessions'[k] =
           IF k = last THEN NULL ELSE IF k = idx THEN sessions[last] ELSE sessions[k]
  <2>1. sessions' = SwapLast(sessions, idx, NULL)
    BY DEF session_teardown
  <2> HIDE DEF idx
  <2>2. nfds \in 1..MAX_CLIENTS /\ idx \in 1..(nfds - 1)
    BY <1>2 DEF TableType
  <2> DEFINE S == Conns \cup {NULL}
  <2>3. sessions \in [Slots -> S] /\ NULL \in S
    BY DEF TableType
  <2> HIDE DEF S
  <2>4. sessions' \in [Slots -> S] /\ Swapped(sessions', sessions, idx, NULL)
    BY <2>1, <2>2, <2>3, SwapLastProperties
  <2> QED
    BY <2>4 DEF Swapped, S
<1>7. nfds' = last /\ nfds' \in 1..MAX_CLIENTS
  <2>1. nfds' = IF idx \in 1..(nfds - 1) THEN nfds - 1 ELSE nfds
    BY DEF session_teardown
  <2> QED
    BY <1>2, <2>1, ConstAssumption DEF TableType
<1>8. \A c \in Conns : poll_index'[c] = IF c = s THEN 0 ELSE IF c = sessions[last] THEN idx ELSE poll_index[c]
  BY <1>2 DEF session_teardown, Reindexed
<1> QED
  BY <1>2, <1>5, <1>6, <1>7, <1>8 DEF Swapped, pf

(* session_teardown of a session of the table keeps types and agreement. *)
LEMMA TeardownTable ==
  ASSUME TableType, FlagType, NetType, SlotsAgree, NEW s \in Live, NEW W \in SUBSET (Live \ {s}),
         session_teardown(s, W)
  PROVE  /\ TableType' /\ FlagType' /\ NetType' /\ SlotsAgree'
         /\ Live' = Live \ {s}
         /\ nfds' = nfds - 1
<1> DEFINE idx == poll_index[s]
           last == nfds - 1
           pf == WithOut(pollfds, W)
<1>1. s \in Conns /\ Live \subseteq Conns
  BY DEF Live
<1>2. idx \in 1..last /\ last \in Slots /\ idx \in Slots /\ sessions[idx] = s
  BY <1>1, ConstAssumption DEF SlotsAgree, Found, TableType, Slots
<1>3. /\ pf \in [Slots -> PollFd] /\ \A k \in Slots : pf[k].fd = pollfds[k].fd
      /\ \A k \in nfds..(MAX_CLIENTS - 1) : pf[k] = FreeSlot
  <2>1. \A k \in nfds..(MAX_CLIENTS - 1) : k \in Slots /\ \A c \in W : poll_index[c] # k
    BY ConstAssumption DEF TableType, Slots, SlotsAgree, Found
  <2> QED
    BY <2>1, WithOutProperties DEF SlotsAgree, Vacant
<1> HIDE DEF pf
<1>5. /\ pollfds' \in [Slots -> PollFd]
      /\ \A k \in Slots : pollfds'[k] =
           IF k = last THEN FreeSlot ELSE IF k = idx THEN pf[last] ELSE pf[k]
  BY TeardownEntries DEF Swapped, pf
<1>6. /\ sessions' \in [Slots -> Conns \cup {NULL}]
      /\ \A k \in Slots : sessions'[k] =
           IF k = last THEN NULL ELSE IF k = idx THEN sessions[last] ELSE sessions[k]
  BY TeardownEntries DEF Swapped
<1>7. nfds' = last /\ nfds' \in 1..MAX_CLIENTS
  BY TeardownEntries
<1>8. \A c \in Conns : poll_index'[c] = IF c = s THEN 0 ELSE IF c = sessions[last] THEN idx ELSE poll_index[c]
  BY TeardownEntries
<1>9. poll_index' \in [Conns -> Slots]
  <2>1. \A c \in Conns : poll_index'[c] \in Slots
    BY <1>2, <1>8, ConstAssumption DEF TableType, Slots
  <2>2. poll_index' = [c \in Conns |-> poll_index'[c]]
    BY DEF session_teardown, Reindexed
  <2> QED
    BY <2>1, <2>2
<1>10. write_len' \in [Conns -> 0..MaxOut]
  <2>1. Written(W) \in [Conns -> 0..MaxOut] /\ 0 \in 0..MaxOut
    BY WrittenType, ConstAssumption
  <2> QED
    BY <2>1 DEF session_teardown
<1>11. FlagType' /\ NetType'
  <2>1. FlagType'
    BY DEF session_teardown, FlagType
  <2>2. CloseConn(s) /\ 0 \in 0..READ_BUF
    BY ConstAssumption DEF session_teardown
  <2>3. NetType'
    BY <2>2 DEF CloseConn, NetType
  <2> QED
    BY <2>1, <2>3
<1>12. Live' = Live \ {s}
  BY <1>1 DEF session_teardown, CloseConn, Live, NetType
<1>13. \A k \in 1..last : k \in Slots /\ sessions[k] \in Live /\ pollfds[k].fd = sessions[k] /\ poll_index[sessions[k]] = k
  BY <1>2, ConstAssumption DEF SlotsAgree, Filled, TableType, Slots
<1> HIDE DEF last, idx
<1>14. last \in Nat /\ idx \in 1..last /\ last \in 1..last
  BY <1>2 DEF last, TableType
<1>15. Filled'
  <2>1. ASSUME NEW k \in 1..(last - 1)
        PROVE  sessions'[k] \in Live' /\ pollfds'[k].fd = sessions'[k] /\ poll_index'[sessions'[k]] = k
    <3>1. k \in 1..last /\ k # last
      BY <1>14
    <3>2. CASE k = idx
      <4>1. sessions'[k] = sessions[last] /\ pollfds'[k].fd = sessions[last]
        BY <1>3, <1>5, <1>6, <1>13, <1>14, <3>1, <3>2
      <4>2. sessions[last] \in Live /\ sessions[last] # s
        BY <1>2, <1>13, <1>14, <3>1, <3>2 DEF idx
      <4> QED
        BY <1>1, <1>8, <1>12, <3>2, <4>1, <4>2
    <3>3. CASE k # idx
      <4>1. sessions'[k] = sessions[k] /\ pollfds'[k].fd = sessions[k]
        BY <1>3, <1>5, <1>6, <1>13, <3>1, <3>3
      <4>2. sessions[k] \in Live /\ sessions[k] # s /\ sessions[k] # sessions[last]
        BY <1>13, <1>14, <3>1, <3>3 DEF idx
      <4> QED
        BY <1>1, <1>8, <1>12, <1>13, <3>1, <4>1, <4>2
    <3> QED
      BY <3>2, <3>3
  <2> QED
    BY <1>7, <2>1 DEF Filled
<1>16. Vacant'
  <2>1. ASSUME NEW k \in last..(MAX_CLIENTS - 1)
        PROVE  sessions'[k] = NULL /\ pollfds'[k] = FreeSlot
    <3>1. k \in Slots /\ (k = last \/ (k # idx /\ k \in nfds..(MAX_CLIENTS - 1)))
      BY <1>14, ConstAssumption DEF Slots, last, TableType
    <3> QED
      BY <1>3, <1>5, <1>6, <3>1 DEF SlotsAgree, Vacant
  <2> QED
    BY <1>7, <2>1 DEF Vacant
<1>17. Found'
  <2>1. ASSUME NEW c \in Live, c # s
        PROVE  poll_index'[c] \in 1..(last - 1) /\ sessions'[poll_index'[c]] = c
    <3>1. poll_index[c] \in 1..last /\ sessions[poll_index[c]] = c /\ poll_index[c] \in Slots
      BY <1>13 DEF SlotsAgree, Found, last
    <3>2. poll_index[c] # idx
      BY <1>2, <2>1, <3>1 DEF idx
    <3>3. CASE c = sessions[last]
      <4>1. poll_index[c] = last
        BY <1>13, <1>14, <3>3
      <4>2. poll_index'[c] = idx /\ idx \in 1..(last - 1)
        BY <1>1, <1>8, <1>14, <2>1, <3>2, <3>3, <4>1
      <4> QED
        BY <1>6, <1>13, <1>14, <3>3, <4>2
    <3>4. CASE c # sessions[last]
      <4>1. poll_index[c] # last /\ poll_index'[c] = poll_index[c]
        BY <1>1, <1>8, <2>1, <3>1, <3>4
      <4> QED
        BY <1>6, <1>14, <3>1, <3>2, <4>1
    <3> QED
      BY <3>3, <3>4
  <2> QED
    BY <1>7, <1>12, <2>1 DEF Found
<1> QED
  BY <1>5, <1>6, <1>7, <1>9, <1>10, <1>11, <1>12, <1>15, <1>16, <1>17 DEF TableType, SlotsAgree, last

(* A session that is torn down loses its flags; no other flag is set. *)
LEMMA TeardownFlags ==
  ASSUME FlagType, NEW s, NEW W, session_teardown(s, W)
  PROVE  /\ \A c \in Conns : in_xml_parse'[c] => in_xml_parse[c] /\ c # s
         /\ \A c \in Conns : teardown_pending'[c] => teardown_pending[c] /\ c # s
         /\ \A c \in Conns \ {s} : in_xml_parse[c] => in_xml_parse'[c]
  BY DEF session_teardown, FlagType

(* server_accept fills the next slot, or refuses. *)
LEMMA AcceptTable ==
  ASSUME TableType, NetType, SlotsAgree, NEW c \in Conns, Accept(c)
  PROVE  TableType' /\ NetType' /\ SlotsAgree'
<1>0. c \notin Live
  BY DEF Accept, Live
<1>1. CASE nfds >= MAX_CLIENTS
  <2>1. CloseConn(c) /\ UNCHANGED tableVars /\ 0 \in 0..READ_BUF
    BY <1>1, ConstAssumption DEF Accept, TableFull
  <2>2. Live' = Live
    BY <1>0, <2>1 DEF CloseConn, Live, NetType
  <2>3. TableType' /\ NetType'
    BY <2>1 DEF tableVars, TableType, CloseConn, NetType
  <2>4. SlotsAgree'
    BY <2>1, <2>2 DEF tableVars, SlotsAgree, Filled, Vacant, Found
  <2> QED
    BY <2>3, <2>4
<1>2. CASE ~(nfds >= MAX_CLIENTS)
  <2>1. /\ conn' = [conn EXCEPT ![c] = "open"] /\ UNCHANGED <<peer, inbuf>>
        /\ poll_index' = [poll_index EXCEPT ![c] = nfds]
        /\ pollfds' = [pollfds EXCEPT ![nfds] = [fd |-> c, events |-> {"IN"}, revents |-> {}]]
        /\ sessions' = [sessions EXCEPT ![nfds] = c]
        /\ nfds' = nfds + 1
        /\ write_len' = [write_len EXCEPT ![c] = 0]
    BY <1>2 DEF Accept, TableFull
  <2>2. nfds \in Slots /\ nfds + 1 \in 1..MAX_CLIENTS
    BY <1>2, ConstAssumption DEF TableType, Slots
  <2>3. [fd |-> c, events |-> {"IN"}, revents |-> {}] \in PollFd /\ 0 \in 0..MaxOut
    BY ConstAssumption DEF PollFd
  <2>4. TableType' /\ NetType'
    BY <2>1, <2>2, <2>3 DEF TableType, NetType
  <2>5. Live' = Live \cup {c}
    BY <2>1 DEF Live, NetType
  <2>6. \A k \in 1..(nfds - 1) : k \in Slots /\ k # nfds
    BY <2>2, ConstAssumption DEF Slots, TableType
  <2>7. Filled'
    <3>1. ASSUME NEW k \in 1..nfds
          PROVE  sessions'[k] \in Live' /\ pollfds'[k].fd = sessions'[k] /\ poll_index'[sessions'[k]] = k
      <4>1. CASE k = nfds
        BY <2>1, <2>2, <2>5, <4>1 DEF TableType
      <4>2. CASE k # nfds
        <5>1. k \in 1..(nfds - 1)
          BY <2>2, <4>2 DEF TableType
        <5>2. sessions[k] \in Live /\ pollfds[k].fd = sessions[k] /\ poll_index[sessions[k]] = k
          BY <5>1 DEF SlotsAgree, Filled
        <5> QED
          BY <1>0, <2>1, <2>5, <2>6, <5>1, <5>2 DEF TableType
      <4> QED
        BY <4>1, <4>2
    <3>2. nfds' - 1 = nfds
      BY <2>1, <2>2 DEF Slots
    <3> QED
      BY <3>1, <3>2 DEF Filled
  <2>8. Vacant'
    BY <2>1, <2>2, ConstAssumption DEF SlotsAgree, Vacant, TableType, Slots
  <2>9. Found'
    <3>1. ASSUME NEW d \in Live' PROVE poll_index'[d] \in 1..nfds /\ sessions'[poll_index'[d]] = d
      <4>1. CASE d = c
        BY <2>1, <2>2, <4>1 DEF TableType
      <4>2. CASE d # c
        <5>1. d \in Live /\ d \in Conns
          BY <2>5, <3>1, <4>2 DEF Live
        <5>2. poll_index[d] \in 1..(nfds - 1) /\ sessions[poll_index[d]] = d
          BY <5>1 DEF SlotsAgree, Found
        <5>3. poll_index'[d] = poll_index[d]
          BY <2>1, <4>2, <5>1 DEF TableType
        <5> QED
          BY <2>1, <2>2, <2>6, <5>2, <5>3 DEF TableType, Slots
      <4> QED
        BY <4>1, <4>2
    <3>2. nfds' - 1 = nfds
      BY <2>1, <2>2 DEF Slots
    <3> QED
      BY <3>1, <3>2 DEF Found
  <2> QED
    BY <2>4, <2>7, <2>8, <2>9 DEF SlotsAgree
<1> QED
  BY <1>1, <1>2

(* The table as it was, for the steps that do not touch it. *)
LEMMA SlotsAgreeSame ==
  ASSUME SlotsAgree, UNCHANGED <<pollfds, sessions, nfds, poll_index>>, Live' = Live
  PROVE  SlotsAgree'
  BY DEF SlotsAgree, Filled, Vacant, Found

(* session_write to live sessions. *)
LEMMA WriteSlots ==
  ASSUME TableType, SlotsAgree, NEW W \in SUBSET Live
  PROVE  SameSlots(WithOut(pollfds, W))
<1>1. \A k \in nfds..(MAX_CLIENTS - 1) : k \in Slots /\ \A c \in W : poll_index[c] # k
  BY ConstAssumption DEF TableType, Slots, SlotsAgree, Found
<1> QED
  BY <1>1, WithOutProperties DEF SameSlots

(* A session_write keeps the agreement of the arrays: it only adds POLLOUT. *)
LEMMA WriteTable ==
  ASSUME TableType, SlotsAgree, NEW W \in SUBSET Live, session_write(W),
         UNCHANGED <<sessions, nfds, poll_index, conn>>
  PROVE  TableType' /\ SlotsAgree'
<1>1. SameSlots(pollfds') /\ write_len' \in [Conns -> 0..MaxOut]
  BY WriteSlots, WrittenType DEF session_write
<1>2. SlotsAgree'
  BY <1>1, SlotsAgreeEvents
<1> QED
  BY <1>1, <1>2 DEF TableType, SameSlots

(* session_flush of a live session, of the array a write to it has left. *)
LEMMA FlushTable ==
  ASSUME TableType, SlotsAgree, NEW s \in Live, NEW pf, SameSlots(pf), NEW left \in 0..MaxOut,
         pollfds' = Drained(pf, s, left),
         write_len' = [write_len EXCEPT ![s] = left],
         UNCHANGED <<sessions, nfds, poll_index, conn>>
  PROVE  TableType' /\ SlotsAgree'
<1>1. s \in Conns /\ pf \in [Slots -> PollFd]
  BY DEF Live, SameSlots
<1>2. \A k \in nfds..(MAX_CLIENTS - 1) : k \in Slots /\ poll_index[s] # k
  BY ConstAssumption DEF TableType, Slots, SlotsAgree, Found
<1>3. SameSlots(pollfds')
  <2>1. SameSlots(Drained(pf, s, left))
    BY <1>1, <1>2, DrainedProperties DEF SameSlots
  <2> QED
    BY <2>1
<1>4. SlotsAgree'
  BY <1>3, SlotsAgreeEvents
<1> QED
  BY <1>1, <1>3, <1>4 DEF TableType, SameSlots
-----------------------------------------------------------------------------
(* server_init establishes the inductive invariant. *)
LEMMA InitIInv == Init => IInv
<1> SUFFICES ASSUME Init PROVE IInv
  OBVIOUS
<1>1. FreeSlot \in PollFd /\ [FreeSlot EXCEPT !.events = {"IN"}] \in PollFd
  BY DEF FreeSlot, PollFd
<1>2. TableType
  BY <1>1, ConstAssumption DEF Init, TableType, Slots
<1>3. FlagType /\ NetType /\ LoopType
  <2>1. FlagType
    BY DEF Init, FlagType
  <2>2. NetType
    BY ConstAssumption DEF Init, NetType
  <2>3. LoopType
    <3>1. 1 \in 1..MAX_CLIENTS /\ 0 \in 0..MaxStanzas
      BY ConstAssumption
    <3> QED
      BY <3>1, Zenon DEF Init, LoopType
  <2> QED
    BY <2>1, <2>2, <2>3
<1>4. Live = {}
  BY DEF Init, Live
<1>5. SlotsAgree
  BY <1>4, ConstAssumption DEF Init, SlotsAgree, Filled, Vacant, Found, Slots
<1> QED
  BY <1>2, <1>3, <1>5 DEF Init, IInv, IndexOK, ParserAlive, CloseNotForgotten

(* The clients and signals change nothing of the table. *)
LEMMA EnvironmentIInv ==
  ASSUME IInv, Environment
  PROVE  IInv'
<1> USE DEF IInv
<1>1. ASSUME NEW c \in Conns, Connect(c), pc # "stopped" PROVE IInv'
  <2>1. NetType' /\ Live' = Live
    BY <1>1 DEF Connect, NetType, Live
  <2>2. SlotsAgree'
    BY <1>1, <2>1, SlotsAgreeSame DEF Connect, tableVars
  <2> QED
    BY <1>1, <2>1, <2>2 DEF Connect, tableVars, flagVars, loopVars, TableType, FlagType,
                            LoopType, IndexOK, ParserAlive, CloseNotForgotten
<1>2. ASSUME NEW c \in Conns, PeerSend(c) \/ \E how \in Departures : PeerLeave(c, how), pc # "stopped"
      PROVE  IInv'
  <2>1. conn' = conn /\ UNCHANGED <<tableVars, flagVars, loopVars, shutdown_flag>>
    BY <1>2 DEF PeerSend, PeerLeave
  <2>2. CASE PeerSend(c)
    <3>1. PICK n \in (inbuf[c] + 1)..READ_BUF : inbuf' = [inbuf EXCEPT ![c] = n]
      BY <2>2 DEF PeerSend
    <3>2. n \in 0..READ_BUF
      BY ConstAssumption DEF NetType
    <3> QED
      BY <2>1, <2>2, <3>1, <3>2 DEF PeerSend, tableVars, flagVars, loopVars, NetType, TableType, FlagType,
           LoopType, Live, SlotsAgree, Filled, Vacant, Found, IndexOK, ParserAlive, CloseNotForgotten
  <2>3. CASE \E how \in Departures : PeerLeave(c, how)
    <3>1. NetType'
      BY <2>1, <2>3, ConstAssumption DEF PeerLeave, NetType
    <3> QED
      BY <2>1, <3>1 DEF tableVars, flagVars, loopVars, TableType, FlagType,
           LoopType, Live, SlotsAgree, Filled, Vacant, Found, IndexOK, ParserAlive, CloseNotForgotten
  <2> QED
    BY <1>2, <2>2, <2>3
<1>3. CASE Signal
  BY <1>3 DEF Signal, tableVars, flagVars, loopVars, netVars, TableType, FlagType, NetType, LoopType,
              Live, SlotsAgree, Filled, Vacant, Found, IndexOK, ParserAlive, CloseNotForgotten
<1> QED
  BY <1>1, <1>2, <1>3 DEF Environment

(* After a read the scan stays in the slot, and goes on to the POLLOUT check
   only if the slot holds a session. *)
LEMMA AfterReadLoop ==
  ASSUME LoopType, TableType', SlotsAgree', i < MAX_CLIENTS, AfterRead
  PROVE  /\ pc' \in {"scan", "out"} /\ i' = i
         /\ IndexOK'
<1>1. pc' \in {"scan", "out"} /\ i' = i /\ (pc' = "out" => sessions'[i] # NULL)
  BY DEF AfterRead
<1>2. ASSUME pc' = "out" PROVE i < nfds'
  <2>1. i \notin nfds'..(MAX_CLIENTS - 1)
    BY <1>1, <1>2 DEF SlotsAgree, Vacant
  <2> QED
    BY <2>1, ConstAssumption DEF LoopType, TableType
<1> QED
  BY <1>1, <1>2 DEF IndexOK

(* The session of a slot in use is alive. *)
LEMMA SlotAlive ==
  ASSUME TableType, LoopType, SlotsAgree, i < nfds
  PROVE  sessions[i] \in Live /\ sessions[i] \in Conns /\ i < MAX_CLIENTS
  BY ConstAssumption DEF TableType, LoopType, SlotsAgree, Filled, Live

(* poll() and the steps that only move the loop on. *)
LEMMA LoopStepIInv ==
  ASSUME IInv, Poll \/ AcceptPhase \/ ScanEnd \/ ScanIdle \/ OutIdle
  PROVE  IInv'
<1> USE DEF IInv
<1>1. CASE Poll
  <2>1. PICK roomy \in SUBSET Live :
          pollfds' = [k \in Slots |-> IF k < nfds THEN [pollfds[k] EXCEPT !.revents = Revents(k, roomy)]
                                                  ELSE pollfds[k]]
    BY <1>1 DEF Poll
  <2>2. \A k \in Slots : Revents(k, roomy) \in SUBSET {"IN", "OUT", "HUP"}
    BY DEF Revents
  <2>3. SameSlots(pollfds')
    <3>1. ASSUME NEW k \in Slots
          PROVE  /\ pollfds'[k] \in PollFd /\ pollfds'[k].fd = pollfds[k].fd
                 /\ ~(k < nfds) => pollfds'[k] = pollfds[k]
      <4>1. pollfds[k] \in PollFd
        BY DEF TableType
      <4>2. CASE k < nfds
        <5>1. pollfds'[k] = [pollfds[k] EXCEPT !.revents = Revents(k, roomy)]
          BY <2>1, <4>2
        <5> QED
          BY <2>2, <4>1, <4>2, <5>1 DEF PollFd
      <4>3. CASE ~(k < nfds)
        BY <2>1, <4>1, <4>3
      <4> QED
        BY <4>2, <4>3
    <3>2. \A k \in nfds..(MAX_CLIENTS - 1) : k \in Slots /\ ~(k < nfds)
      BY ConstAssumption DEF TableType, Slots
    <3>3. pollfds' \in [Slots -> PollFd]
      BY <2>1, <3>1
    <3> QED
      BY <3>1, <3>2, <3>3 DEF SameSlots
  <2>4. SlotsAgree'
    BY <1>1, <2>3, SlotsAgreeEvents DEF Poll, netVars
  <2> QED
    BY <1>1, <2>3, <2>4 DEF Poll, SameSlots, flagVars, netVars, TableType, FlagType, NetType, LoopType,
                            IndexOK, ParserAlive, CloseNotForgotten, Live
<1>2. CASE AcceptPhase
  <2>1. TableType' /\ NetType' /\ SlotsAgree'
    <3>1. CASE \E c \in Conns : Accept(c)
      BY <1>2, <3>1, AcceptTable DEF AcceptPhase
    <3>2. CASE UNCHANGED <<tableVars, netVars>>
      BY <1>2, <3>2 DEF AcceptPhase, tableVars, netVars, TableType, NetType, Live, SlotsAgree, Filled, Vacant, Found
    <3> QED
      BY <1>2, <3>1, <3>2 DEF AcceptPhase
  <2> QED
    BY <1>2, <2>1, ConstAssumption DEF AcceptPhase, flagVars, FlagType, LoopType,
                                       IndexOK, ParserAlive, CloseNotForgotten
<1>3. CASE ScanEnd \/ ScanIdle \/ OutIdle
  <2>1. UNCHANGED <<tableVars, flagVars, netVars, cur, stanzas, shutdown_flag>>
        /\ pc \in {"scan", "out"} /\ pc' \in {"poll", "scan", "out"}
    BY <1>3 DEF ScanEnd, ScanIdle, Scanning, OutIdle, NextSlot
  <2>2. i' \in 1..MAX_CLIENTS /\ IndexOK'
    <3>1. CASE ScanEnd
      BY <2>1, <3>1, ConstAssumption DEF ScanEnd, IndexOK
    <3>2. CASE ScanIdle
      BY <2>1, <3>2 DEF ScanIdle, Scanning, IndexOK, LoopType, tableVars
    <3>3. CASE OutIdle
      BY <2>1, <3>3, ConstAssumption DEF OutIdle, NextSlot, IndexOK, LoopType, TableType
    <3> QED
      BY <1>3, <3>1, <3>2, <3>3
  <2>3. TableType' /\ FlagType' /\ NetType' /\ LoopType'
    BY <2>1, <2>2 DEF tableVars, flagVars, netVars, TableType, FlagType, NetType, LoopType
  <2>4. SlotsAgree'
    BY <2>1, SlotsAgreeSame DEF tableVars, netVars, Live
  <2> QED
    BY <2>1, <2>2, <2>3, <2>4 DEF flagVars, ParserAlive, CloseNotForgotten
<1> QED
  BY <1>1, <1>2, <1>3

(* A session is torn down by the loop itself, outside of a parse. *)
LEMMA ScanStepIInv ==
  ASSUME IInv, ScanHup \/ ScanReadFail \/ ScanRead \/ OutFlush
  PROVE  IInv'
<1> USE DEF IInv
<1> DEFINE s == sessions[i]
<1>1. /\ pc \in {"scan", "out"} /\ i < nfds /\ SlotsAgree
      /\ s \in Live /\ s \in Conns /\ i < MAX_CLIENTS
  <2>1. pc \in {"scan", "out"} /\ i < nfds
    BY DEF ScanHup, ScanReadFail, ScanRead, OutFlush, Scanning, IndexOK
  <2> QED
    BY <2>1, SlotAlive
<1>2. \A c \in Conns : ~in_xml_parse[c] /\ ~teardown_pending[c]
  BY <1>1 DEF ParserAlive, CloseNotForgotten
<1>3. ASSUME NEW W \in SUBSET (Live \ {s}), session_teardown(s, W), pc' \in {"scan", "out"}
      PROVE  /\ TableType' /\ FlagType' /\ NetType' /\ SlotsAgree'
             /\ ParserAlive' /\ CloseNotForgotten'
  <2>1. TableType' /\ FlagType' /\ NetType' /\ SlotsAgree'
    BY <1>1, <1>3, TeardownTable
  <2>2. \A c \in Conns : ~in_xml_parse'[c] /\ ~teardown_pending'[c]
    BY <1>2, <1>3, TeardownFlags
  <2> QED
    BY <1>3, <2>1, <2>2 DEF ParserAlive, CloseNotForgotten
<1>4. CASE ScanHup
  <2>1. PICK W \in SUBSET (Live \ {s}) : session_teardown(s, W)
    BY <1>4 DEF ScanHup
  <2>2. pc = "scan" /\ UNCHANGED <<loopVars, shutdown_flag>>
    BY <1>4 DEF ScanHup, Scanning
  <2> QED
    BY <1>3, <2>1, <2>2 DEF loopVars, LoopType, IndexOK
<1>5. CASE ScanReadFail
  <2>1. PICK W \in SUBSET (Live \ {s}) : session_teardown(s, W)
    BY <1>5 DEF ScanReadFail
  <2>2. AfterRead /\ UNCHANGED <<cur, stanzas, shutdown_flag>>
    BY <1>5 DEF ScanReadFail
  <2>3. TableType' /\ SlotsAgree'
    BY <1>1, <2>1, TeardownTable
  <2>4. pc' \in {"scan", "out"} /\ i' = i /\ IndexOK'
    BY <1>1, <2>2, <2>3, AfterReadLoop
  <2> QED
    BY <1>3, <2>1, <2>2, <2>4 DEF LoopType
<1>6. CASE ScanRead
  <2>1. /\ inbuf' = [inbuf EXCEPT ![s] = 0]
        /\ in_xml_parse' = [in_xml_parse EXCEPT ![s] = TRUE]
        /\ cur' = s /\ stanzas' = MaxStanzas /\ pc' = "parse"
        /\ UNCHANGED <<tableVars, teardown_pending, conn, peer, i, shutdown_flag>>
    BY <1>6 DEF ScanRead
  <2>2. TableType' /\ FlagType'
    BY <2>1 DEF tableVars, TableType, FlagType
  <2>3. NetType'
    <3>1. 0 \in 0..READ_BUF
      BY ConstAssumption
    <3> QED
      BY <2>1, <3>1 DEF NetType
  <2>4. LoopType' /\ IndexOK'
    BY <1>1, <2>1, ConstAssumption DEF LoopType, IndexOK
  <2>5. Live' = Live /\ SlotsAgree'
    BY <1>1, <2>1, SlotsAgreeSame DEF tableVars, Live
  <2>6. ParserAlive'
    BY <1>1, <1>2, <2>1, <2>5 DEF ParserAlive, FlagType
  <2>7. CloseNotForgotten'
    BY <1>2, <2>1 DEF CloseNotForgotten
  <2> QED
    BY <2>2, <2>3, <2>4, <2>5, <2>6, <2>7
<1>7. CASE OutFlush
  <2>1. pc = "out" /\ UNCHANGED <<cur, stanzas, shutdown_flag>>
    BY <1>7 DEF OutFlush
  <2>2. CASE peer[s] = "reset" /\ write_len[s] > 0
    <3>1. /\ \E W \in SUBSET (Live \ {s}) : session_teardown(s, W)
          /\ pc' = "scan" /\ i' \in {i, i + 1}
      BY <1>7, <2>2 DEF OutFlush, TableType
    <3>2. i' \in 1..MAX_CLIENTS
      BY <1>1, <3>1, ConstAssumption DEF LoopType
    <3> QED
      BY <1>3, <2>1, <3>1, <3>2 DEF LoopType, IndexOK
  <2>3. CASE ~(peer[s] = "reset" /\ write_len[s] > 0)
    <3>1. PICK left \in 0..write_len[s] :
            /\ pollfds' = IF write_len[s] = 0 THEN pollfds ELSE Drained(pollfds, s, left)
            /\ write_len' = [write_len EXCEPT ![s] = left]
      BY <1>7, <2>3 DEF OutFlush
    <3>2. /\ pc' = "scan" /\ i' = i + 1
          /\ UNCHANGED <<sessions, nfds, poll_index, flagVars, netVars>>
      BY <1>7, <2>3 DEF OutFlush, NextSlot
    <3>3. left \in 0..MaxOut /\ write_len[s] \in 0..MaxOut
      BY <1>1, ConstAssumption DEF TableType
    <3>4. TableType' /\ SlotsAgree'
      <4>1. CASE write_len[s] = 0
        BY <1>1, <3>1, <3>2, <3>3, <4>1 DEF TableType, netVars, Live, SlotsAgree, Filled, Vacant, Found
      <4>2. CASE write_len[s] # 0
        <5>1. SameSlots(pollfds)
          BY DEF SameSlots, TableType
        <5>2. pollfds' = Drained(pollfds, s, left) /\ UNCHANGED <<sessions, nfds, poll_index, conn>>
          BY <3>1, <3>2, <4>2 DEF netVars
        <5> QED
          BY <1>1, <3>1, <3>3, <5>1, <5>2, FlushTable
      <4> QED
        BY <4>1, <4>2
    <3>5. LoopType' /\ IndexOK'
      BY <1>1, <2>1, <3>2, ConstAssumption DEF LoopType, IndexOK
    <3> QED
      BY <1>2, <3>2, <3>4, <3>5 DEF flagVars, netVars, FlagType, NetType, ParserAlive, CloseNotForgotten
  <2> QED
    BY <2>2, <2>3
<1> QED
  BY <1>4, <1>5, <1>6, <1>7

(* The handlers, while xmlParseChunk is on the stack. *)
LEMMA HandlerIInv ==
  ASSUME IInv, OnStanza \/ OnStreamClose \/ OnStreamError \/ OnBindConflict
  PROVE  IInv'
<1> USE DEF IInv
<1>1. /\ pc = "parse" /\ SlotsAgree /\ i < MAX_CLIENTS
      /\ cur \in Live /\ cur \in Conns /\ in_xml_parse[cur]
  BY DEF OnStanza, OnStreamClose, OnStreamError, OnBindConflict, Handling, ParserAlive, IndexOK, Live
<1>2. UNCHANGED <<pc, i, cur, shutdown_flag>> /\ LoopType' /\ IndexOK'
  <2>1. UNCHANGED <<pc, i, cur, shutdown_flag>> /\ stanzas > 0 /\ stanzas' = stanzas - 1
    BY DEF OnStanza, OnStreamClose, OnStreamError, OnBindConflict, Handling
  <2>2. stanzas' \in 0..MaxStanzas
    BY <2>1, ConstAssumption DEF LoopType
  <2> QED
    BY <1>1, <2>1, <2>2 DEF LoopType, IndexOK
<1>3. ASSUME TableType', SlotsAgree', UNCHANGED <<in_xml_parse, netVars>>,
             \/ UNCHANGED teardown_pending
             \/ teardown_pending' = [teardown_pending EXCEPT ![cur] = TRUE]
      PROVE  IInv'
  <2>1. NetType' /\ FlagType'
    BY <1>3 DEF netVars, NetType, FlagType
  <2>2. ParserAlive'
    BY <1>1, <1>2, <1>3 DEF netVars, ParserAlive, Live
  <2>3. CloseNotForgotten'
    BY <1>1, <1>2, <1>3 DEF CloseNotForgotten, FlagType
  <2> QED
    BY <1>2, <1>3, <2>1, <2>2, <2>3
<1>4. CASE OnStanza
  <2>1. PICK W \in SUBSET Live : session_write(W)
    BY <1>4 DEF OnStanza
  <2>2. UNCHANGED <<sessions, nfds, poll_index, flagVars, netVars>>
    BY <1>4 DEF OnStanza
  <2>3. TableType' /\ SlotsAgree'
    BY <1>1, <2>1, <2>2, WriteTable DEF netVars
  <2> QED
    BY <1>3, <2>2, <2>3 DEF flagVars
<1>5. CASE OnStreamClose
  <2>1. /\ session_write({cur})
        /\ teardown_pending' = [teardown_pending EXCEPT ![cur] = TRUE]
        /\ UNCHANGED <<sessions, nfds, poll_index, in_xml_parse, netVars>>
    BY <1>1, <1>5 DEF OnStreamClose
  <2>2. {cur} \in SUBSET Live
    BY <1>1
  <2>3. TableType' /\ SlotsAgree'
    BY <1>1, <2>1, <2>2, WriteTable DEF netVars
  <2> QED
    BY <1>3, <2>1, <2>3
<1>6. CASE OnStreamError
  <2>1. PICK left \in 0..More(write_len[cur]) :
           /\ pollfds' = Drained(WithOut(pollfds, {cur}), cur, left)
           /\ write_len' = [write_len EXCEPT ![cur] = left]
           /\ teardown_pending' = [teardown_pending EXCEPT ![cur] = TRUE]
           /\ UNCHANGED <<sessions, nfds, poll_index, in_xml_parse, netVars>>
    BY <1>1, <1>6 DEF OnStreamError, stream_send_error
  <2>2. SameSlots(WithOut(pollfds, {cur}))
    BY <1>1, WriteSlots
  <2>3. left \in 0..MaxOut
    BY <1>1, ConstAssumption DEF TableType, More
  <2>4. TableType' /\ SlotsAgree'
    BY <1>1, <2>1, <2>2, <2>3, FlushTable DEF netVars
  <2> QED
    BY <1>3, <2>1, <2>4
<1>7. CASE OnBindConflict
  <2>1. PICK x \in Live \ {cur} : stream_send_error(x)
    BY <1>7 DEF OnBindConflict
  <2>2. x \in Conns /\ ~in_xml_parse[x]
    BY <1>1 DEF Live, ParserAlive
  <2>3. PICK W \in SUBSET (Live \ {x}) : session_teardown(x, W)
    BY <2>1, <2>2 DEF stream_send_error
  <2>4. TableType' /\ FlagType' /\ NetType' /\ SlotsAgree' /\ Live' = Live \ {x}
    BY <1>1, <2>1, <2>3, TeardownTable
  <2>5. ParserAlive' /\ CloseNotForgotten'
    BY <1>1, <1>2, <2>1, <2>3, <2>4, TeardownFlags DEF ParserAlive, CloseNotForgotten
  <2> QED
    BY <1>2, <2>4, <2>5
<1> QED
  BY <1>4, <1>5, <1>6, <1>7

(* The end of the parse: a deferred close happens now. *)
LEMMA ParseEndIInv ==
  ASSUME IInv, ParseEnd
  PROVE  IInv'
<1> USE DEF IInv
<1>1. /\ pc = "parse" /\ SlotsAgree /\ i < MAX_CLIENTS
      /\ cur \in Live /\ cur \in Conns /\ in_xml_parse[cur]
  BY DEF ParseEnd, ParserAlive, IndexOK, Live
<1>2. AfterRead /\ cur' = NULL /\ stanzas' = 0 /\ UNCHANGED shutdown_flag
  BY DEF ParseEnd
<1>3. /\ TableType' /\ FlagType' /\ NetType' /\ SlotsAgree'
      /\ \A c \in Conns : ~in_xml_parse'[c] /\ ~teardown_pending'[c]
  <2>1. CASE teardown_pending[cur]
    <3>1. PICK W \in SUBSET (Live \ {cur}) : session_teardown(cur, W)
      BY <2>1 DEF ParseEnd
    <3> QED
      BY <1>1, <3>1, TeardownTable, TeardownFlags DEF ParserAlive, CloseNotForgotten
  <2>2. CASE ~teardown_pending[cur]
    <3>1. /\ in_xml_parse' = [in_xml_parse EXCEPT ![cur] = FALSE]
          /\ UNCHANGED <<tableVars, teardown_pending, netVars>>
      BY <2>2 DEF ParseEnd
    <3>2. TableType' /\ FlagType' /\ NetType'
      BY <3>1 DEF tableVars, netVars, TableType, FlagType, NetType
    <3>3. SlotsAgree'
      BY <1>1, <3>1, SlotsAgreeSame DEF tableVars, netVars, Live
    <3>4. \A c \in Conns : ~in_xml_parse'[c] /\ ~teardown_pending'[c]
      BY <2>2, <3>1 DEF FlagType, ParserAlive, CloseNotForgotten
    <3> QED
      BY <3>2, <3>3, <3>4
  <2> QED
    BY <2>1, <2>2
<1>4. pc' \in {"scan", "out"} /\ i' = i /\ IndexOK'
  BY <1>1, <1>2, <1>3, AfterReadLoop
<1>5. LoopType'
  BY <1>2, <1>4, ConstAssumption DEF LoopType
<1> QED
  BY <1>3, <1>4, <1>5 DEF ParserAlive, CloseNotForgotten

(* server_shutdown keeps the inductive invariant: nothing is open after it. *)
LEMMA ShutdownIInv ==
  ASSUME IInv, Shutdown
  PROVE  IInv'
<1> USE DEF IInv
<1>1. TableType'
  BY ConstAssumption DEF Shutdown, TableType, Slots
<1>2. FlagType' /\ NetType'
  <2>1. FlagType'
    BY DEF Shutdown, FlagType
  <2>2. NetType'
    BY ConstAssumption DEF Shutdown, NetType
  <2> QED
    BY <2>1, <2>2
<1>3. LoopType' /\ pc' = "stopped"
  BY DEF Shutdown, LoopType
<1>4. ParserAlive' /\ CloseNotForgotten'
  BY DEF Shutdown, ParserAlive, CloseNotForgotten
<1> QED
  BY <1>1, <1>2, <1>3, <1>4 DEF IndexOK

(* IInv is inductive. *)
LEMMA NextIInv == IInv /\ [Next]_vars => IInv'
<1> SUFFICES ASSUME IInv, [Next]_vars PROVE IInv'
  OBVIOUS
<1>1. CASE Environment
  BY <1>1, EnvironmentIInv
<1>2. CASE Server
  BY <1>2, LoopStepIInv, ScanStepIInv, HandlerIInv, ParseEndIInv, ShutdownIInv DEF Server
<1>3. CASE UNCHANGED vars
  BY <1>3 DEF vars, tableVars, flagVars, netVars, loopVars, IInv, TableType, FlagType, NetType,
              LoopType, Live, SlotsAgree, Filled, Vacant, Found, IndexOK, ParserAlive, CloseNotForgotten
<1> QED
  BY <1>1, <1>2, <1>3 DEF Next

(* The inductive invariant holds in every reachable state of the loop. *)
LEMMA IInvAlways == Spec => []IInv
  BY InitIInv, NextIInv, PTL DEF Spec

(* Every state has its types: no index leaves the arrays of MAX_CLIENTS
   entries, however sessions come and go. *)
THEOREM TypeCorrect == Spec => []TypeOK
<1>1. IInv => TypeOK
  BY DEF IInv, TypeOK, TableType, FlagType, NetType, LoopType, PollFd
<1> QED
  BY <1>1, IInvAlways, PTL

(* The two arrays, the descriptors and the back-pointers agree. *)
THEOREM TableOKHolds == Spec => []TableOK
<1>1. IInv => TableOK
  BY DEF IInv, TableOK, SlotsAgree, Filled, Vacant, Found
<1> QED
  BY <1>1, IInvAlways, PTL

(* No handler frees the session whose parser is on the stack. *)
THEOREM ParserAliveHolds == Spec => []ParserAlive
<1>1. IInv => ParserAlive
  BY DEF IInv
<1> QED
  BY <1>1, IInvAlways, PTL

(* A close that was put off does not outlive the parse. *)
THEOREM CloseNotForgottenHolds == Spec => []CloseNotForgotten
<1>1. IInv => CloseNotForgotten
  BY DEF IInv
<1> QED
  BY <1>1, IInvAlways, PTL
-----------------------------------------------------------------------------
(* One session, followed through the arrays *)

(* The poll entry of a session. *)
Entry(c) == pollfds[poll_index[c]]

(* Every live session has an entry of its own, and conversely. *)
LEMMA EntryFacts ==
  ASSUME TableType, SlotsAgree
  PROVE  /\ Live \subseteq Conns
         /\ \A c \in Live : poll_index[c] \in Slots /\ poll_index[c] \in 1..(nfds - 1)
         /\ \A c \in Live : Entry(c) \in PollFd /\ Entry(c).fd = c
         /\ \A c, d \in Live : poll_index[c] = poll_index[d] => c = d
<1>1. \A c \in Live : poll_index[c] \in 1..(nfds - 1) /\ sessions[poll_index[c]] = c
  BY DEF SlotsAgree, Found
<1>2. Live \subseteq Conns
  BY DEF Live
<1>3. \A c \in Live : poll_index[c] \in Slots
  BY <1>2 DEF TableType
<1>4. \A c \in Live : Entry(c) \in PollFd
  BY <1>3 DEF TableType, Entry
<1>5. \A c \in Live : Entry(c).fd = c
  BY <1>1 DEF SlotsAgree, Filled, Entry
<1> QED
  BY <1>1, <1>2, <1>3, <1>4, <1>5

(* session_write sets POLLOUT for the sessions it writes to and for no
   other, and has output pending for exactly those more. *)
LEMMA WriteEntry ==
  ASSUME TableType, SlotsAgree, NEW W \in SUBSET Live, NEW c \in Live
  PROVE  /\ WithOut(pollfds, W)[poll_index[c]].revents = Entry(c).revents
         /\ "OUT" \in WithOut(pollfds, W)[poll_index[c]].events <=> c \in W \/ "OUT" \in Entry(c).events
         /\ Written(W)[c] > 0 <=> c \in W \/ write_len[c] > 0
<1>1. /\ poll_index[c] \in Slots /\ Entry(c) \in PollFd /\ c \in Conns
      /\ \A d \in W : poll_index[d] = poll_index[c] => c = d
  BY EntryFacts
<1>2. WithOut(pollfds, W)[poll_index[c]] =
        IF c \in W THEN [Entry(c) EXCEPT !.events = @ \cup {"OUT"}] ELSE Entry(c)
  BY <1>1 DEF WithOut, Entry
<1>3. \A p \in PollFd : /\ [p EXCEPT !.events = @ \cup {"OUT"}].revents = p.revents
                        /\ "OUT" \in [p EXCEPT !.events = @ \cup {"OUT"}].events
  BY DEF PollFd
<1>4. /\ WithOut(pollfds, W)[poll_index[c]].revents = Entry(c).revents
      /\ "OUT" \in WithOut(pollfds, W)[poll_index[c]].events <=> c \in W \/ "OUT" \in Entry(c).events
  <2>1. CASE c \in W
    BY <1>1, <1>2, <1>3, <2>1
  <2>2. CASE c \notin W
    BY <1>2, <2>2
  <2> QED
    BY <2>1, <2>2
<1>5. Written(W)[c] > 0 <=> c \in W \/ write_len[c] > 0
  <2>1. write_len[c] \in 0..MaxOut /\ MaxOut \in Nat \ {0}
    BY <1>1, ConstAssumption DEF TableType
  <2>2. Written(W)[c] = IF c \in W THEN More(write_len[c]) ELSE write_len[c]
    BY <1>1 DEF Written
  <2> QED
    BY <2>1, <2>2 DEF More
<1> QED
  BY <1>4, <1>5

(* session_flush changes the entry of the session it flushes only, and there
   takes POLLOUT back once nothing is left. *)
LEMMA DrainEntry ==
  ASSUME TableType, SlotsAgree, NEW pf \in [Slots -> PollFd], NEW s \in Live, NEW c \in Live, NEW left
  PROVE  /\ Drained(pf, s, left)[poll_index[c]].revents = pf[poll_index[c]].revents
         /\ c # s \/ left # 0 => Drained(pf, s, left)[poll_index[c]] = pf[poll_index[c]]
         /\ c = s /\ left = 0 => "OUT" \notin Drained(pf, s, left)[poll_index[c]].events
<1>1. /\ poll_index[c] \in Slots /\ poll_index[s] \in Slots /\ s \in Conns
      /\ poll_index[c] = poll_index[s] => c = s
  BY EntryFacts
<1>2. \A p \in PollFd : /\ [p EXCEPT !.events = @ \ {"OUT"}].revents = p.revents
                        /\ "OUT" \notin [p EXCEPT !.events = @ \ {"OUT"}].events
  BY DEF PollFd
<1>3. CASE left # 0
  BY <1>3 DEF Drained
<1>4. CASE left = 0 /\ c # s
  BY <1>1, <1>4, DrainedProperties
<1>5. CASE left = 0 /\ c = s
  <2>1. Drained(pf, s, left)[poll_index[s]] = [pf[poll_index[s]] EXCEPT !.events = @ \ {"OUT"}]
    BY <1>1, <1>5 DEF Drained
  <2>2. pf[poll_index[s]] \in PollFd
    BY <1>1
  <2> QED
    BY <1>2, <1>5, <2>1, <2>2
<1> QED
  BY <1>3, <1>4, <1>5

(* A session that outlives the teardown of another keeps its entry, also
   when the entry is moved; it moves towards the front. *)
LEMMA TeardownEntry ==
  ASSUME TableType, SlotsAgree, NEW s \in Live, NEW W \in SUBSET (Live \ {s}), session_teardown(s, W),
         NEW c \in Live \ {s}
  PROVE  /\ Entry(c)' = WithOut(pollfds, W)[poll_index[c]]
         /\ poll_index'[c] <= poll_index[c]
<1> DEFINE idx == poll_index[s]
           last == nfds - 1
<1>1. /\ idx \in 1..last /\ last \in Slots /\ idx \in Slots /\ sessions[idx] = s
      /\ Swapped(pollfds', WithOut(pollfds, W), idx, FreeSlot)
      /\ \A d \in Conns : poll_index'[d] =
           IF d = s THEN 0 ELSE IF d = sessions[last] THEN idx ELSE poll_index[d]
  BY TeardownEntries
<1>2. c \in Conns /\ c # s /\ poll_index[c] \in Slots /\ poll_index[c] \in 1..last /\ poll_index[c] # idx
  BY EntryFacts
<1>3. sessions[poll_index[c]] = c /\ poll_index[sessions[last]] = last
  <2>1. last \in 1..last
    BY <1>1 DEF TableType
  <2> QED
    BY <2>1 DEF SlotsAgree, Filled, Found
<1>4. nfds \in Nat /\ last \in Int
  BY ConstAssumption DEF TableType
<1> HIDE DEF idx, last
<1>5. CASE c = sessions[last]
  <2>1. poll_index'[c] = idx /\ poll_index[c] = last /\ idx # last
    BY <1>1, <1>2, <1>3, <1>5
  <2>2. pollfds'[idx] = WithOut(pollfds, W)[last]
    BY <1>1, <2>1 DEF Swapped, last
  <2>3. idx <= last
    BY <1>1, <1>4
  <2> QED
    BY <2>1, <2>2, <2>3 DEF Entry
<1>6. CASE c # sessions[last]
  <2>1. poll_index'[c] = poll_index[c] /\ poll_index[c] # last
    BY <1>1, <1>2, <1>3, <1>6
  <2>2. pollfds'[poll_index[c]] = WithOut(pollfds, W)[poll_index[c]]
    BY <1>1, <1>2, <2>1 DEF Swapped, last
  <2>3. poll_index[c] <= poll_index[c]
    BY <1>2, <1>4
  <2> QED
    BY <2>1, <2>2, <2>3 DEF Entry
<1> QED
  BY <1>5, <1>6
-----------------------------------------------------------------------------
(* What a step can do to the table. *)

Layout == <<sessions, nfds, poll_index, netVars>>

Closes == \E s \in Live : \E W \in SUBSET (Live \ {s}) : session_teardown(s, W)
Writes == UNCHANGED Layout /\ \E W \in SUBSET Live : session_write(W)
Flushes ==
  /\ UNCHANGED Layout
  /\ \E s \in Live, left \in Nat :
       /\ write_len' = [write_len EXCEPT ![s] = left]
       /\ \/ pollfds' = Drained(WithOut(pollfds, {s}), s, left)
          \/ write_len[s] > 0 /\ pollfds' = Drained(pollfds, s, left)
          \/ write_len[s] = 0 /\ left = 0 /\ pollfds' = pollfds
Enters(c) ==
  /\ c \notin Live /\ Live' = Live \cup {c}
  /\ nfds < MAX_CLIENTS /\ nfds' = nfds + 1
  /\ poll_index' = [poll_index EXCEPT ![c] = nfds]
  /\ pollfds' = [pollfds EXCEPT ![nfds] = [fd |-> c, events |-> {"IN"}, revents |-> {}]]
  /\ sessions' = [sessions EXCEPT ![nfds] = c]
  /\ write_len' = [write_len EXCEPT ![c] = 0]
  /\ UNCHANGED <<peer, inbuf>>
Rests ==
  /\ Live' = Live /\ UNCHANGED tableVars
  /\ UNCHANGED netVars \/ Environment \/ ScanRead \/ \E c \in Conns : Accept(c)

Kinds == \/ Closes \/ Writes \/ Flushes \/ Rests \/ Poll \/ Shutdown
         \/ \E c \in Conns : Enters(c)

(* server_accept adds the session at the end, or nothing happens. *)
LEMMA AcceptKind ==
  ASSUME NetType, TableType, NEW c \in Conns, Accept(c)
  PROVE  Enters(c) \/ Rests
<1>1. c \notin Live
  BY DEF Accept, Live
<1>2. CASE nfds >= MAX_CLIENTS
  <2>1. CloseConn(c) /\ UNCHANGED tableVars
    BY <1>2 DEF Accept, TableFull
  <2>2. Live' = Live
    BY <1>1, <2>1 DEF CloseConn, Live, NetType
  <2> QED
    BY <2>1, <2>2 DEF Rests
<1>3. CASE ~(nfds >= MAX_CLIENTS)
  <2>1. /\ conn' = [conn EXCEPT ![c] = "open"]
        /\ poll_index' = [poll_index EXCEPT ![c] = nfds]
        /\ pollfds' = [pollfds EXCEPT ![nfds] = [fd |-> c, events |-> {"IN"}, revents |-> {}]]
        /\ sessions' = [sessions EXCEPT ![nfds] = c]
        /\ nfds' = nfds + 1
        /\ write_len' = [write_len EXCEPT ![c] = 0]
        /\ UNCHANGED <<peer, inbuf>>
    BY <1>3 DEF Accept, TableFull
  <2>2. Live' = Live \cup {c}
    BY <2>1 DEF Live, NetType
  <2>3. nfds < MAX_CLIENTS
    BY <1>3, ConstAssumption DEF TableType
  <2> QED
    BY <1>1, <2>1, <2>2, <2>3 DEF Enters
<1> QED
  BY <1>2, <1>3

(* Every step is of one of the kinds. *)
LEMMA StepKinds ==
  ASSUME IInv, [Next]_vars
  PROVE  Kinds
<1> USE DEF IInv
<1>1. CASE Environment
  <2>1. UNCHANGED tableVars
    BY <1>1 DEF Environment, Signal, Connect, PeerSend, PeerLeave
  <2>2. Live' = Live
    BY <1>1 DEF Environment, Signal, Connect, PeerSend, PeerLeave, netVars, Live, NetType
  <2> QED
    BY <1>1, <2>1, <2>2 DEF Rests, Kinds
<1>2. CASE Poll \/ Shutdown
  BY <1>2 DEF Kinds
<1>3. CASE AcceptPhase
  <2>1. CASE \E c \in Conns : Accept(c)
    BY <2>1, AcceptKind DEF Kinds
  <2>2. CASE UNCHANGED <<tableVars, netVars>>
    BY <2>2 DEF Rests, Kinds, netVars, Live
  <2> QED
    BY <1>3, <2>1, <2>2 DEF AcceptPhase
<1>4. CASE ScanEnd \/ ScanIdle \/ OutIdle \/ ScanRead
  <2>1. UNCHANGED tableVars /\ conn' = conn /\ (UNCHANGED netVars \/ ScanRead)
    BY <1>4 DEF ScanEnd, ScanIdle, OutIdle, ScanRead, netVars
  <2> QED
    BY <2>1 DEF Rests, Kinds, Live
<1>5. CASE ScanHup \/ ScanReadFail \/ OutFlush
  <2> DEFINE s == sessions[i]
  <2>1. pc # "stopped" /\ i < nfds
    BY <1>5 DEF ScanHup, ScanReadFail, OutFlush, Scanning, IndexOK
  <2>2. s \in Live /\ s \in Conns
    BY <2>1, SlotAlive
  <2>3. write_len[s] \in Nat
    BY <2>2, ConstAssumption DEF TableType
  <2>4. CASE \E W \in SUBSET (Live \ {s}) : session_teardown(s, W)
    BY <2>2, <2>4 DEF Closes, Kinds
  <2>5. CASE OutFlush /\ ~(peer[s] = "reset" /\ write_len[s] > 0)
    <3>1. PICK left \in 0..write_len[s] :
            /\ pollfds' = IF write_len[s] = 0 THEN pollfds ELSE Drained(pollfds, s, left)
            /\ write_len' = [write_len EXCEPT ![s] = left]
      BY <2>5 DEF OutFlush
    <3>2. UNCHANGED Layout
      BY <2>5 DEF OutFlush, Layout, netVars
    <3>3. left \in Nat /\ (write_len[s] = 0 => left = 0) /\ (write_len[s] # 0 => write_len[s] > 0)
      BY <2>3
    <3> QED
      BY <2>2, <3>1, <3>2, <3>3 DEF Flushes, Kinds
  <2> QED
    BY <1>5, <2>3, <2>4, <2>5 DEF ScanHup, ScanReadFail, OutFlush
<1>6. CASE OnStanza
  BY <1>6 DEF OnStanza, Writes, Layout, netVars, Kinds
<1>7. CASE OnStreamClose \/ OnStreamError \/ OnBindConflict \/ ParseEnd
  <2>1. pc = "parse" /\ cur \in Live /\ in_xml_parse[cur] /\ cur \in Conns
    BY <1>7 DEF OnStreamClose, OnStreamError, OnBindConflict, ParseEnd, Handling, ParserAlive, Live
  <2>2. CASE OnStreamClose
    <3>1. session_write({cur}) /\ UNCHANGED Layout
      BY <2>1, <2>2 DEF OnStreamClose, Layout, netVars
    <3> QED
      BY <2>1, <3>1 DEF Writes, Kinds
  <2>3. CASE OnStreamError
    <3>1. PICK left \in 0..More(write_len[cur]) :
            /\ pollfds' = Drained(WithOut(pollfds, {cur}), cur, left)
            /\ write_len' = [write_len EXCEPT ![cur] = left]
            /\ UNCHANGED Layout
      BY <2>1, <2>3 DEF OnStreamError, stream_send_error, Layout, netVars
    <3>2. left \in Nat
      OBVIOUS
    <3> QED
      BY <2>1, <3>1, <3>2 DEF Flushes, Kinds
  <2>4. CASE OnBindConflict
    <3>1. PICK x \in Live \ {cur} : stream_send_error(x)
      BY <2>4 DEF OnBindConflict
    <3>2. ~in_xml_parse[x]
      BY <2>1, <3>1 DEF ParserAlive, Live
    <3> QED
      BY <3>1, <3>2 DEF stream_send_error, Closes, Kinds
  <2>5. CASE ParseEnd
    <3>1. CASE teardown_pending[cur]
      BY <2>1, <2>5, <3>1 DEF ParseEnd, Closes, Kinds
    <3>2. CASE ~teardown_pending[cur]
      BY <2>5, <3>2 DEF ParseEnd, Rests, netVars, Live, Kinds
    <3> QED
      BY <3>1, <3>2
  <2> QED
    BY <1>7, <2>2, <2>3, <2>4, <2>5
<1>8. CASE UNCHANGED vars
  BY <1>8 DEF vars, tableVars, netVars, Rests, Live, Kinds
<1> QED
  BY <1>1, <1>2, <1>3, <1>4, <1>5, <1>6, <1>7, <1>8 DEF Next, Server
-----------------------------------------------------------------------------
(* POLLOUT is asked for exactly while output is pending. *)

(* An accepted session has a fresh entry, the others keep theirs. *)
LEMMA EnterEntry ==
  ASSUME TableType, SlotsAgree, NEW c \in Conns, Enters(c)
  PROVE  /\ Entry(c)'.events = {"IN"} /\ Entry(c)'.revents = {} /\ write_len'[c] = 0
         /\ \A d \in Live : /\ Entry(d)' = Entry(d) /\ write_len'[d] = write_len[d]
                            /\ poll_index'[d] = poll_index[d]
<1>1. nfds \in Slots
  BY ConstAssumption DEF Enters, TableType, Slots
<1>2. Entry(c)'.events = {"IN"} /\ Entry(c)'.revents = {} /\ write_len'[c] = 0
  BY <1>1 DEF Enters, Entry, TableType
<1>3. ASSUME NEW d \in Live
      PROVE  Entry(d)' = Entry(d) /\ write_len'[d] = write_len[d] /\ poll_index'[d] = poll_index[d]
  <2>1. d \in Conns /\ d # c /\ poll_index[d] \in 1..(nfds - 1) /\ poll_index[d] \in Slots
    BY EntryFacts DEF Enters
  <2>2. poll_index[d] # nfds
    BY <2>1 DEF TableType
  <2>3. poll_index'[d] = poll_index[d] /\ write_len'[d] = write_len[d]
    BY <2>1 DEF Enters, TableType
  <2> QED
    BY <2>1, <2>2, <2>3 DEF Enters, TableType, Entry
<1> QED
  BY <1>2, <1>3

(* poll() writes the revents and nothing else. *)
LEMMA PollEntry ==
  ASSUME TableType, SlotsAgree, Poll, NEW c \in Live
  PROVE  /\ Entry(c)'.events = Entry(c).events
         /\ "HUP" \in Entry(c)'.revents <=> peer[c] = "reset"
         /\ "IN" \in Entry(c)'.revents <=> Readable(c)
<1>1. /\ poll_index[c] \in Slots /\ poll_index[c] \in 1..(nfds - 1)
      /\ Entry(c) \in PollFd /\ Entry(c).fd = c
  BY EntryFacts
<1>2. poll_index[c] < nfds /\ poll_index[c] # 0
  BY <1>1 DEF TableType
<1>3. PICK roomy \in SUBSET Live :
        pollfds' = [k \in Slots |-> IF k < nfds THEN [pollfds[k] EXCEPT !.revents = Revents(k, roomy)]
                                                ELSE pollfds[k]]
  BY DEF Poll
<1>4. Entry(c)' = [Entry(c) EXCEPT !.revents = Revents(poll_index[c], roomy)]
  BY <1>1, <1>2, <1>3 DEF Poll, Entry
<1>5. Entry(c)'.events = Entry(c).events /\ Entry(c)'.revents = Revents(poll_index[c], roomy)
  BY <1>1, <1>4 DEF PollFd
<1>6. Revents(poll_index[c], roomy) =
        {e \in {"IN"} : Readable(c)} \cup {e \in {"HUP"} : peer[c] = "reset"}
         \cup {e \in {"OUT"} : "OUT" \in pollfds[poll_index[c]].events /\ c \in roomy}
  BY <1>1, <1>2 DEF Revents, Entry
<1> QED
  BY <1>5, <1>6

(* The part of PollOutWhenPending about one session. *)
OutPending(c) == "OUT" \in Entry(c).events <=> write_len[c] > 0

(* A stopped server stays stopped. *)
LEMMA StoppedStays ==
  ASSUME [Next]_vars, pc = "stopped"
  PROVE  pc' = "stopped"
  BY DEF Next, Server, Environment, Signal, Poll, AcceptPhase, ScanEnd, ScanHup, ScanReadFail, ScanRead,
         Scanning, OnStanza, OnStreamClose, OnStreamError, OnBindConflict, Handling, ParseEnd, ScanIdle,
         OutIdle, OutFlush, Shutdown, vars, loopVars

(* Each step leaves events and pending output of every session in agreement. *)
LEMMA NextOutPending ==
  ASSUME IInv, IInv', Kinds, pc # "stopped", pc' # "stopped", \A c \in Live : OutPending(c)
  PROVE  \A c \in Live' : OutPending(c)'
<1>1. TableType /\ SlotsAgree
  BY DEF IInv
<1>2. Live \subseteq Conns /\ write_len \in [Conns -> 0..MaxOut] /\ MaxOut \in Nat
  BY ConstAssumption DEF Live, IInv, TableType
<1>3. CASE Closes
  <2>1. PICK s \in Live : \E W \in SUBSET (Live \ {s}) : session_teardown(s, W)
    BY <1>3 DEF Closes
  <2>2. PICK W \in SUBSET (Live \ {s}) : session_teardown(s, W)
    BY <2>1
  <2>3. Live' = Live \ {s}
    BY <1>1, <2>1, <2>2, TeardownTable DEF IInv
  <2>4. ASSUME NEW c \in Live \ {s} PROVE OutPending(c)'
    <3>1. Entry(c)' = WithOut(pollfds, W)[poll_index[c]]
      BY <1>1, <2>2, TeardownEntry
    <3>2. W \in SUBSET Live
      OBVIOUS
    <3>3. /\ "OUT" \in WithOut(pollfds, W)[poll_index[c]].events <=> c \in W \/ "OUT" \in Entry(c).events
          /\ Written(W)[c] > 0 <=> c \in W \/ write_len[c] > 0
      BY <1>1, <3>2, WriteEntry
    <3>4. write_len' = [Written(W) EXCEPT ![s] = 0] /\ Written(W) \in [Conns -> 0..MaxOut]
      BY <1>1, <2>2, WrittenType DEF session_teardown
    <3>5. write_len'[c] = Written(W)[c]
      BY <1>2, <3>4
    <3>6. OutPending(c)
      OBVIOUS
    <3> QED
      BY <3>1, <3>3, <3>5, <3>6 DEF OutPending
  <2> QED
    BY <2>3, <2>4
<1>4. CASE Writes
  <2>1. PICK W \in SUBSET Live : session_write(W)
    BY <1>4 DEF Writes
  <2>2. Live' = Live /\ UNCHANGED poll_index
    BY <1>4 DEF Writes, Layout, netVars, Live
  <2>3. ASSUME NEW c \in Live PROVE OutPending(c)'
    <3>1. /\ "OUT" \in WithOut(pollfds, W)[poll_index[c]].events <=> c \in W \/ "OUT" \in Entry(c).events
          /\ Written(W)[c] > 0 <=> c \in W \/ write_len[c] > 0
      BY <1>1, WriteEntry
    <3>2. Entry(c)' = WithOut(pollfds, W)[poll_index[c]] /\ write_len'[c] = Written(W)[c]
      BY <2>1, <2>2 DEF session_write, Entry
    <3>3. OutPending(c)
      OBVIOUS
    <3> QED
      BY <3>1, <3>2, <3>3 DEF OutPending
  <2> QED
    BY <2>2, <2>3
<1>5. CASE Flushes
  <2>1. Live' = Live /\ UNCHANGED poll_index
    BY <1>5 DEF Flushes, Layout, netVars, Live
  <2>2. PICK s \in Live, left \in Nat :
          /\ write_len' = [write_len EXCEPT ![s] = left]
          /\ \/ pollfds' = Drained(WithOut(pollfds, {s}), s, left)
             \/ write_len[s] > 0 /\ pollfds' = Drained(pollfds, s, left)
             \/ write_len[s] = 0 /\ left = 0 /\ pollfds' = pollfds
    BY <1>5 DEF Flushes
  <2>3. ASSUME NEW c \in Live PROVE OutPending(c)'
    <3>1. OutPending(c) /\ c \in Conns /\ s \in Conns
      BY <1>2
    <3>2. write_len'[c] = IF c = s THEN left ELSE write_len[c]
      BY <1>2, <2>2, <3>1
    <3>3. CASE pollfds' = Drained(WithOut(pollfds, {s}), s, left)
      <4>1. WithOut(pollfds, {s}) \in [Slots -> PollFd] /\ {s} \in SUBSET Live
        BY <1>1, WithOutProperties
      <4> DEFINE pf == WithOut(pollfds, {s})
      <4>2. "OUT" \in pf[poll_index[c]].events <=> c \in {s} \/ "OUT" \in Entry(c).events
        BY <1>1, <4>1, WriteEntry
      <4>3. Entry(c)' = Drained(pf, s, left)[poll_index[c]]
        BY <2>1, <3>3 DEF Entry
      <4> HIDE DEF pf
      <4>4. pf \in [Slots -> PollFd]
        BY <4>1 DEF pf
      <4>5. /\ c # s \/ left # 0 => Drained(pf, s, left)[poll_index[c]] = pf[poll_index[c]]
            /\ c = s /\ left = 0 => "OUT" \notin Drained(pf, s, left)[poll_index[c]].events
        BY <1>1, <4>4, DrainEntry
      <4>6. left # 0 <=> left > 0
        OBVIOUS
      <4> QED
        BY <3>1, <3>2, <4>2, <4>3, <4>5, <4>6 DEF OutPending
    <3>4. CASE write_len[s] > 0 /\ pollfds' = Drained(pollfds, s, left)
      <4>1. Entry(c)' = Drained(pollfds, s, left)[poll_index[c]] /\ pollfds \in [Slots -> PollFd]
        BY <1>1, <2>1, <3>4 DEF Entry, TableType
      <4>2. /\ c # s \/ left # 0 => Drained(pollfds, s, left)[poll_index[c]] = pollfds[poll_index[c]]
            /\ c = s /\ left = 0 => "OUT" \notin Drained(pollfds, s, left)[poll_index[c]].events
        BY <1>1, <4>1, DrainEntry
      <4>3. left # 0 <=> left > 0
        OBVIOUS
      <4> QED
        BY <3>1, <3>2, <3>4, <4>1, <4>2, <4>3 DEF OutPending, Entry
    <3>5. CASE write_len[s] = 0 /\ left = 0 /\ pollfds' = pollfds
      BY <2>1, <3>1, <3>2, <3>5 DEF OutPending, Entry
    <3> QED
      BY <2>2, <3>3, <3>4, <3>5
  <2> QED
    BY <2>1, <2>3
<1>6. CASE \E c \in Conns : Enters(c)
  <2>1. PICK c \in Conns : Enters(c)
    BY <1>6
  <2>2. Live' = Live \cup {c}
    BY <2>1 DEF Enters
  <2>3. OutPending(c)'
    BY <1>1, <2>1, EnterEntry DEF OutPending
  <2>4. ASSUME NEW d \in Live PROVE OutPending(d)'
    <3>1. Entry(d)' = Entry(d) /\ write_len'[d] = write_len[d]
      BY <1>1, <2>1, EnterEntry
    <3>2. OutPending(d)
      OBVIOUS
    <3> QED
      BY <3>1, <3>2 DEF OutPending
  <2> QED
    BY <2>2, <2>3, <2>4
<1>7. CASE Poll
  <2>1. Live' = Live /\ write_len' = write_len
    BY <1>7 DEF Poll, netVars, Live
  <2>2. ASSUME NEW c \in Live PROVE OutPending(c)'
    <3>1. Entry(c)'.events = Entry(c).events /\ OutPending(c)
      BY <1>1, <1>7, PollEntry
    <3> QED
      BY <2>1, <3>1 DEF OutPending
  <2> QED
    BY <2>1, <2>2
<1>8. CASE Rests
  BY <1>8 DEF Rests, tableVars, OutPending, Entry
<1>9. CASE Shutdown
  BY <1>9 DEF Shutdown
<1> QED
  BY <1>3, <1>4, <1>5, <1>6, <1>7, <1>8, <1>9 DEF Kinds

(* A session waits for POLLOUT exactly when it has unsent output: no output
   is stuck and no idle session wakes the loop, whatever was moved, flushed
   in part or written to meanwhile. *)
THEOREM PollOutWhenPendingHolds == Spec => []PollOutWhenPending
<1>1. Init => PollOutWhenPending
  <2>1. Init => Live = {}
    BY DEF Init, Live
  <2> QED
    BY <2>1 DEF PollOutWhenPending
<1>2. IInv /\ IInv' /\ PollOutWhenPending /\ [Next]_vars => PollOutWhenPending'
  <2> SUFFICES ASSUME IInv, IInv', PollOutWhenPending, [Next]_vars, pc' # "stopped"
               PROVE  \A c \in Live' : OutPending(c)'
    BY DEF PollOutWhenPending, OutPending, Entry
  <2>1. pc # "stopped"
    BY StoppedStays
  <2>2. \A c \in Live : OutPending(c)
    BY <2>1 DEF PollOutWhenPending, OutPending, Entry
  <2> QED
    BY <2>1, <2>2, StepKinds, NextOutPending
<1> QED
  BY <1>1, <1>2, IInvAlways, PTL DEF Spec
-----------------------------------------------------------------------------
(* What poll() reported is true until the loop has acted on it. *)

(* The loop has still to look at POLLIN of slot k in this round. *)
Ahead(k) == \/ pc = "accept"
            \/ pc = "scan" /\ k >= i
            \/ pc \in {"parse", "out"} /\ k > i

Reported(c) ==
  /\ "HUP" \in Entry(c).revents => peer[c] = "reset"
  /\ "IN" \in Entry(c).revents /\ Ahead(poll_index[c]) => Readable(c)
ReportsTrue == pc # "stopped" => \A c \in Live : Reported(c)

(* Between two polls a session keeps its revents and never moves towards the
   end of the arrays; a new session has none. *)
LEMMA ReventsKept ==
  ASSUME IInv, Kinds, ~Poll, pc # "stopped", pc' # "stopped", NEW c \in Live'
  PROVE  \/ Entry(c)'.revents = {}
         \/ /\ c \in Live /\ Entry(c)'.revents = Entry(c).revents
            /\ poll_index'[c] <= poll_index[c]
<1>1. TableType /\ SlotsAgree
  BY DEF IInv
<1>2. \A d \in Live : poll_index[d] <= poll_index[d]
  <2>1. \A d \in Live : poll_index[d] \in 1..(nfds - 1)
    BY <1>1, EntryFacts
  <2> QED
    BY <2>1
<1>3. CASE Closes
  <2>1. PICK s \in Live : \E W \in SUBSET (Live \ {s}) : session_teardown(s, W)
    BY <1>3 DEF Closes
  <2>2. PICK W \in SUBSET (Live \ {s}) : session_teardown(s, W)
    BY <2>1
  <2>3. c \in Live \ {s}
    BY <1>1, <2>1, <2>2, TeardownTable DEF IInv
  <2>4. Entry(c)' = WithOut(pollfds, W)[poll_index[c]] /\ poll_index'[c] <= poll_index[c]
    BY <1>1, <2>2, <2>3, TeardownEntry
  <2>5. W \in SUBSET Live
    OBVIOUS
  <2> QED
    BY <1>1, <2>3, <2>4, <2>5, WriteEntry
<1>4. CASE Writes
  <2>1. PICK W \in SUBSET Live : session_write(W)
    BY <1>4 DEF Writes
  <2>2. c \in Live /\ UNCHANGED poll_index
    BY <1>4 DEF Writes, Layout, netVars, Live
  <2>3. Entry(c)' = WithOut(pollfds, W)[poll_index[c]]
    BY <2>1, <2>2 DEF session_write, Entry
  <2> QED
    BY <1>1, <1>2, <2>2, <2>3, WriteEntry
<1>5. CASE Flushes
  <2>1. c \in Live /\ UNCHANGED poll_index
    BY <1>5 DEF Flushes, Layout, netVars, Live
  <2>2. PICK s \in Live, left \in Nat :
             \/ pollfds' = Drained(WithOut(pollfds, {s}), s, left)
             \/ pollfds' = Drained(pollfds, s, left)
             \/ pollfds' = pollfds
    BY <1>5 DEF Flushes
  <2>3. CASE pollfds' = Drained(WithOut(pollfds, {s}), s, left)
    <3> DEFINE pf == WithOut(pollfds, {s})
    <3>1. pf \in [Slots -> PollFd] /\ {s} \in SUBSET Live
      BY <1>1, WithOutProperties
    <3>2. pf[poll_index[c]].revents = Entry(c).revents
      BY <1>1, <2>1, <3>1, WriteEntry
    <3>3. Entry(c)' = Drained(pf, s, left)[poll_index[c]]
      BY <2>1, <2>3 DEF Entry
    <3> HIDE DEF pf
    <3>4. Drained(pf, s, left)[poll_index[c]].revents = pf[poll_index[c]].revents
      BY <1>1, <2>1, <3>1, DrainEntry
    <3> QED
      BY <1>2, <2>1, <3>2, <3>3, <3>4
  <2>4. CASE pollfds' = Drained(pollfds, s, left)
    <3>1. pollfds \in [Slots -> PollFd]
      BY <1>1 DEF TableType
    <3>2. Drained(pollfds, s, left)[poll_index[c]].revents = pollfds[poll_index[c]].revents
      BY <1>1, <2>1, <3>1, DrainEntry
    <3> QED
      BY <1>2, <2>1, <2>4, <3>2 DEF Entry
  <2>5. CASE pollfds' = pollfds
    BY <1>2, <2>1, <2>5 DEF Entry
  <2> QED
    BY <2>2, <2>3, <2>4, <2>5
<1>6. CASE \E d \in Conns : Enters(d)
  <2>1. PICK d \in Conns : Enters(d)
    BY <1>6
  <2>2. CASE c = d
    BY <1>1, <2>1, <2>2, EnterEntry
  <2>3. CASE c # d
    <3>1. c \in Live
      BY <2>1, <2>3 DEF Enters
    <3> QED
      BY <1>1, <1>2, <2>1, <3>1, EnterEntry
  <2> QED
    BY <2>2, <2>3
<1>7. CASE Rests
  BY <1>2, <1>7 DEF Rests, tableVars, Entry
<1>8. CASE Shutdown
  BY <1>8 DEF Shutdown
<1> QED
  BY <1>3, <1>4, <1>5, <1>6, <1>7, <1>8 DEF Kinds

(* A slot before one in use is in use. *)
LEMMA InUse ==
  ASSUME NEW j \in Nat, NEW k \in Nat, NEW n \in Nat, j >= 1, k >= j, k < n
  PROVE  j \in 1..(n - 1)
  OBVIOUS

(* The number of a slot in use is below nfds. *)
LEMMA SlotBound ==
  ASSUME NEW n \in Nat, NEW k \in 1..(n - 1)
  PROVE  k \in Nat /\ k < n
  OBVIOUS

(* Within a round no slot in use comes ahead of the loop again: the loop does
   not step back, and it stays at its index only when the slot is empty or
   was refilled by a hang-up. *)
LEMMA AheadKept ==
  ASSUME IInv, IInv', [Next]_vars, ~Poll, pc' # "stopped", NEW k \in Nat, k < nfds', Ahead(k)'
  PROVE  Ahead(k)
<1>1. i \in Nat /\ i >= 1 /\ nfds' \in Nat
  BY ConstAssumption DEF IInv, LoopType, TableType
<1>2. ASSUME AfterRead, pc' = "scan", i < MAX_CLIENTS PROVE FALSE
  <2>1. sessions'[i] = NULL /\ i' = i
    BY <1>2 DEF AfterRead
  <2>2. k >= i
    BY <1>2, <2>1 DEF Ahead
  <2>3. i \in 1..(nfds' - 1)
    BY <1>1, <2>2, InUse
  <2>4. sessions'[i] \in Conns
    BY <2>3, <1>2 DEF IInv, SlotsAgree, Filled, Live
  <2> QED
    BY <2>1, <2>4, ConstAssumption
<1>3. CASE Environment \/ UNCHANGED vars
  BY <1>3 DEF Environment, Signal, Connect, PeerSend, PeerLeave, vars, loopVars, Ahead
<1>4. CASE AcceptPhase \/ ScanEnd \/ Shutdown
  BY <1>4 DEF AcceptPhase, ScanEnd, Shutdown, Ahead
<1>5. CASE ScanHup
  BY <1>5 DEF ScanHup, loopVars, Ahead
<1>6. CASE ScanRead \/ ScanIdle
  BY <1>1, <1>6 DEF ScanRead, ScanIdle, Scanning, Ahead
<1>7. CASE OutIdle
  BY <1>1, <1>7 DEF OutIdle, NextSlot, Ahead
<1>8. CASE OnStanza \/ OnStreamClose \/ OnStreamError \/ OnBindConflict
  BY <1>8 DEF OnStanza, OnStreamClose, OnStreamError, OnBindConflict, Ahead
<1>9. CASE ScanReadFail
  <2>1. pc = "scan" /\ i < nfds /\ AfterRead
    BY <1>9 DEF ScanReadFail, Scanning
  <2>2. i < MAX_CLIENTS
    BY <1>1, <2>1, ConstAssumption DEF IInv, TableType
  <2> QED
    BY <1>1, <1>2, <2>1, <2>2 DEF AfterRead, Ahead
<1>10. CASE ParseEnd
  <2>1. pc = "parse" /\ AfterRead /\ i < MAX_CLIENTS
    BY <1>10 DEF ParseEnd, IInv, IndexOK
  <2> QED
    BY <1>1, <1>2, <2>1 DEF AfterRead, Ahead
<1>11. CASE OutFlush
  <2>1. pc = "out" /\ pc' = "scan"
    BY <1>11 DEF OutFlush, NextSlot
  <2>2. CASE i' = i + 1
    BY <1>1, <2>1, <2>2 DEF Ahead
  <2>3. CASE sessions'[i] = NULL /\ i' = i
    <3>1. k >= i
      BY <2>1, <2>3 DEF Ahead
    <3>2. i \in 1..(nfds' - 1)
      BY <1>1, <3>1, InUse
    <3>3. sessions'[i] \in Conns
      BY <2>1, <3>2 DEF IInv, SlotsAgree, Filled, Live
    <3> QED
      BY <2>3, <3>3, ConstAssumption
  <2> QED
    BY <1>11, <2>2, <2>3 DEF OutFlush, NextSlot
<1> QED
  BY <1>3, <1>4, <1>5, <1>6, <1>7, <1>8, <1>9, <1>10, <1>11 DEF Next, Server

(* A client's departure, once visible, stays visible, and input that the loop
   has still to read stays until it reads it. *)
LEMMA ReadinessKept ==
  ASSUME IInv, [Next]_vars, pc # "stopped", pc' # "stopped", NEW c \in Live, c \in Live',
         NEW k, k = poll_index'[c]
  PROVE  /\ peer[c] = "reset" => peer'[c] = "reset"
         /\ Readable(c) /\ Ahead(k)' => Readable(c)'
<1>1. NetType /\ c \in Conns
  BY DEF IInv, Live
<1>2. CASE Closes
  <2>1. PICK s \in Live : \E W \in SUBSET (Live \ {s}) : session_teardown(s, W)
    BY <1>2 DEF Closes
  <2>2. CloseConn(s)
    BY <2>1 DEF session_teardown
  <2>3. c # s
    BY <1>1, <2>2 DEF CloseConn, Live, NetType
  <2> QED
    BY <1>1, <2>2, <2>3 DEF CloseConn, Readable, NetType
<1>3. CASE UNCHANGED <<peer, inbuf>>
  BY <1>3 DEF Readable
<1>4. CASE ScanRead
  <2>1. /\ inbuf' = [inbuf EXCEPT ![sessions[i]] = 0] /\ UNCHANGED <<peer, i, poll_index>>
        /\ pc = "scan" /\ pc' = "parse" /\ i < nfds
    BY <1>4 DEF ScanRead, Scanning, tableVars
  <2>2. i \in 1..(nfds - 1)
    BY <2>1, ConstAssumption DEF IInv, LoopType, TableType
  <2>3. poll_index[sessions[i]] = i
    BY <2>1, <2>2 DEF IInv, SlotsAgree, Filled
  <2>4. CASE c = sessions[i]
    BY <2>1, <2>2, <2>3, <2>4 DEF Ahead
  <2>5. CASE c # sessions[i]
    BY <1>1, <2>1, <2>5 DEF Readable, NetType
  <2> QED
    BY <2>4, <2>5
<1>5. CASE \E d \in Conns : Accept(d)
  <2>1. PICK d \in Conns : Accept(d)
    BY <1>5
  <2>2. c # d /\ (CloseConn(d) \/ UNCHANGED <<peer, inbuf>>)
    BY <2>1 DEF Accept, Live
  <2> QED
    BY <1>1, <2>2 DEF CloseConn, Readable, NetType
<1>6. CASE Environment
  <2>1. CASE Signal \/ \E d \in Conns : Connect(d)
    BY <2>1 DEF Signal, Connect, netVars, Readable
  <2>2. ASSUME NEW d \in Conns, PeerSend(d) PROVE Readable(c) => Readable(c)'
    <3>1. PICK n \in (inbuf[d] + 1)..READ_BUF : inbuf' = [inbuf EXCEPT ![d] = n]
      BY <2>2 DEF PeerSend
    <3>2. inbuf[d] \in 0..READ_BUF
      BY <1>1 DEF NetType
    <3>3. n > 0 /\ inbuf'[c] = IF c = d THEN n ELSE inbuf[c]
      BY <1>1, <3>1, <3>2, ConstAssumption DEF NetType
    <3> QED
      BY <2>2, <3>3 DEF PeerSend, Readable
  <2>3. ASSUME NEW d \in Conns, NEW how \in Departures, PeerLeave(d, how)
        PROVE  /\ peer[c] = "reset" => peer'[c] = "reset"
               /\ Readable(c) => Readable(c)'
    <3>1. how \in {"fin", "reset"} /\ peer' = [peer EXCEPT ![d] = how]
      BY <2>3, ConstAssumption DEF PeerLeave
    <3>2. CASE c = d
      BY <1>1, <2>3, <3>1, <3>2 DEF PeerLeave, Readable, NetType
    <3>3. CASE c # d
      BY <1>1, <2>3, <3>1, <3>3 DEF PeerLeave, Readable, NetType
    <3> QED
      BY <3>2, <3>3
  <2>4. \A d \in Conns : PeerSend(d) => UNCHANGED peer
    BY DEF PeerSend
  <2> QED
    BY <1>6, <2>1, <2>2, <2>3, <2>4 DEF Environment
<1>7. \/ UNCHANGED <<peer, inbuf>> \/ Closes \/ ScanRead \/ Environment
      \/ \E d \in Conns : Accept(d)
  BY StepKinds DEF Kinds, Writes, Flushes, Layout, Enters, Rests, Poll, Shutdown, netVars
<1> QED
  BY <1>2, <1>3, <1>4, <1>5, <1>6, <1>7

(* The reports stay true from one step to the next. *)
LEMMA NextReported ==
  ASSUME IInv, IInv', [Next]_vars, pc # "stopped", pc' # "stopped", \A c \in Live : Reported(c)
  PROVE  \A c \in Live' : Reported(c)'
<1>1. TableType /\ SlotsAgree
  BY DEF IInv
<1>2. CASE Poll
  <2>1. Live' = Live /\ UNCHANGED <<peer, inbuf>>
    BY <1>2 DEF Poll, netVars, Live
  <2>2. \A c \in Live : /\ "HUP" \in Entry(c)'.revents <=> peer[c] = "reset"
                        /\ "IN" \in Entry(c)'.revents <=> Readable(c)
    BY <1>1, <1>2, PollEntry
  <2> QED
    BY <2>1, <2>2 DEF Reported, Readable
<1>3. CASE ~Poll
  <2> SUFFICES ASSUME NEW c \in Live' PROVE Reported(c)'
    OBVIOUS
  <2>1. CASE Entry(c)'.revents = {}
    BY <2>1 DEF Reported
  <2>2. CASE /\ c \in Live /\ Entry(c)'.revents = Entry(c).revents
             /\ poll_index'[c] <= poll_index[c]
    <3>1. PICK k : k = poll_index'[c]
      OBVIOUS
    <3>2. k \in Nat /\ k < nfds' /\ poll_index[c] \in Nat
      <4>1. k \in 1..(nfds' - 1) /\ nfds' \in Nat
        BY <3>1, ConstAssumption DEF IInv, SlotsAgree, Found, TableType
      <4>2. poll_index[c] \in 1..(nfds - 1) /\ nfds \in Nat
        BY <1>1, <2>2, EntryFacts, ConstAssumption DEF TableType
      <4>3. k \in Nat /\ k < nfds'
        BY <4>1, SlotBound
      <4> QED
        BY <4>2, <4>3, SlotBound
    <3>3. Ahead(k)' => Ahead(k)
      BY <1>3, <3>2, AheadKept
    <3>4. Ahead(k) => Ahead(poll_index[c])
      <4>1. k <= poll_index[c] /\ i \in Nat
        BY <2>2, <3>1, ConstAssumption DEF IInv, LoopType
      <4> QED
        BY <3>2, <4>1 DEF Ahead
    <3>5. /\ peer[c] = "reset" => peer'[c] = "reset"
          /\ Readable(c) /\ Ahead(k)' => Readable(c)'
      BY <2>2, <3>1, ReadinessKept
    <3>6. Reported(c)
      BY <2>2
    <3>7. Reported(c)' <=> /\ "HUP" \in Entry(c)'.revents => peer'[c] = "reset"
                           /\ "IN" \in Entry(c)'.revents /\ Ahead(k)' => Readable(c)'
      BY <3>1 DEF Reported, Ahead
    <3> QED
      BY <2>2, <3>3, <3>4, <3>5, <3>6, <3>7 DEF Reported
  <2> QED
    BY <1>3, <2>1, <2>2, StepKinds, ReventsKept
<1> QED
  BY <1>2, <1>3

(* In every reachable state the reports of poll() are true where they count. *)
LEMMA ReportsTrueAlways == Spec => []ReportsTrue
<1>1. Init => ReportsTrue
  <2>1. Init => Live = {}
    BY DEF Init, Live
  <2> QED
    BY <2>1 DEF ReportsTrue
<1>2. IInv /\ IInv' /\ ReportsTrue /\ [Next]_vars => ReportsTrue'
  <2> SUFFICES ASSUME IInv, IInv', ReportsTrue, [Next]_vars, pc' # "stopped"
               PROVE  \A c \in Live' : Reported(c)'
    BY DEF ReportsTrue
  <2>1. pc # "stopped"
    BY StoppedStays
  <2> QED
    BY <2>1, NextReported DEF ReportsTrue
<1> QED
  BY <1>1, <1>2, IInvAlways, PTL DEF Spec

(* The reasons for which a step may close a session. *)
DropCause(c) == \/ peer[c] # "open"
                \/ inbuf[c] >= READ_BUF
                \/ pc = "parse"
                \/ shutdown_flag /\ pc = "poll"
DropStep == \A c \in Live : conn'[c] = "free" => DropCause(c)

(* session_teardown closes the connection of its session only. *)
LEMMA TeardownCloses ==
  ASSUME NetType, NEW s \in Live, NEW W, session_teardown(s, W), DropCause(s)
  PROVE  DropStep
<1>1. CloseConn(s)
  BY DEF session_teardown
<1>2. \A c \in Live : conn'[c] = "free" => c = s
  BY <1>1 DEF CloseConn, NetType, Live
<1> QED
  BY <1>2 DEF DropStep

(* A step closes a session for one of the reasons only. *)
LEMMA NextDropStep ==
  ASSUME IInv, ReportsTrue, [Next]_vars
  PROVE  DropStep
<1>1. NetType
  BY DEF IInv
<1>2. CASE pc = "parse"
  BY <1>2 DEF DropStep, DropCause
<1>3. CASE UNCHANGED conn
  BY <1>3 DEF DropStep, Live
<1>4. CASE ScanHup \/ ScanReadFail \/ OutFlush
  <2> DEFINE s == sessions[i]
  <2>1. pc \in {"scan", "out"} /\ i < nfds
    BY <1>4 DEF ScanHup, ScanReadFail, OutFlush, Scanning, IInv, IndexOK
  <2>2. TableType /\ LoopType /\ SlotsAgree
    BY <2>1 DEF IInv
  <2>3. s \in Live /\ s \in Conns /\ i \in 1..(nfds - 1)
    BY <2>1, <2>2, SlotAlive, ConstAssumption DEF LoopType, TableType
  <2>4. Reported(s) /\ poll_index[s] = i /\ Entry(s) = pollfds[i]
    BY <2>1, <2>2, <2>3 DEF ReportsTrue, SlotsAgree, Filled, Entry
  <2>5. CASE ScanHup
    <3>1. PICK W \in SUBSET (Live \ {s}) : session_teardown(s, W)
      BY <2>5 DEF ScanHup
    <3>2. peer[s] = "reset"
      BY <2>4, <2>5 DEF ScanHup, Reported
    <3> QED
      BY <1>1, <2>3, <3>1, <3>2, TeardownCloses DEF DropCause
  <2>6. CASE ScanReadFail
    <3>1. PICK W \in SUBSET (Live \ {s}) : session_teardown(s, W)
      BY <2>6 DEF ScanReadFail
    <3>2. Ahead(i)
      BY <2>3, <2>6 DEF ScanReadFail, Scanning, Ahead
    <3>3. Readable(s) /\ ReadFails(s)
      BY <2>4, <2>6, <3>2 DEF ScanReadFail, Reported
    <3>4. DropCause(s)
      BY <3>3 DEF Readable, ReadFails, DropCause
    <3> QED
      BY <1>1, <2>3, <3>1, <3>4, TeardownCloses
  <2>7. CASE OutFlush
    <3>1. CASE peer[s] = "reset" /\ \E W \in SUBSET (Live \ {s}) : session_teardown(s, W)
      BY <1>1, <2>3, <3>1, TeardownCloses DEF DropCause
    <3> QED
      BY <1>3, <2>7, <3>1 DEF OutFlush, netVars
  <2> QED
    BY <1>4, <2>5, <2>6, <2>7
<1>5. CASE Shutdown
  BY <1>5 DEF Shutdown, Running, IInv, LoopType, DropStep, DropCause
<1>6. CASE AcceptPhase
  <2>1. ASSUME NEW c \in Conns, Accept(c) PROVE DropStep
    BY <1>1, <2>1 DEF Accept, CloseConn, DropStep, Live, NetType
  <2> QED
    BY <1>3, <1>6, <2>1 DEF AcceptPhase, netVars
<1>7. CASE Environment
  <2>1. ASSUME NEW c \in Conns, Connect(c) PROVE DropStep
    BY <1>1, <2>1 DEF Connect, DropStep, Live, NetType
  <2>2. CASE Signal \/ \E c \in Conns : PeerSend(c) \/ \E how \in Departures : PeerLeave(c, how)
    BY <1>3, <2>2 DEF Signal, PeerSend, PeerLeave, netVars
  <2> QED
    BY <1>7, <2>1, <2>2 DEF Environment
<1>8. CASE Poll \/ ScanEnd \/ ScanRead \/ ScanIdle \/ OutIdle \/ UNCHANGED vars
  BY <1>3, <1>8 DEF Poll, ScanEnd, ScanRead, ScanIdle, OutIdle, vars, netVars
<1>9. CASE OnStanza \/ OnStreamClose \/ OnStreamError \/ OnBindConflict \/ ParseEnd
  BY <1>2, <1>9 DEF OnStanza, OnStreamClose, OnStreamError, OnBindConflict, ParseEnd, Handling
<1> QED
  BY <1>4, <1>5, <1>6, <1>7, <1>8, <1>9 DEF Next, Server

(* No session of a connected client that did not overrun read_buf is dropped
   by the loop: a read that finds nothing closes the session, and this shows
   that the loop never reads a session that has nothing to read, for any
   number of clients and whatever the swaps moved into the slots. *)
THEOREM HealthyKeptHolds == Spec => HealthyKept
<1>1. IInv /\ ReportsTrue /\ [Next]_vars => [DropStep]_vars
  BY NextDropStep
<1>2. [DropStep]_vars => [\A c \in Live : conn'[c] = "free" =>
                            \/ peer[c] # "open"
                            \/ inbuf[c] >= READ_BUF
                            \/ pc = "parse"
                            \/ shutdown_flag /\ pc = "poll"]_vars
  BY DEF DropStep, DropCause
<1> QED
  BY <1>1, <1>2, IInvAlways, ReportsTrueAlways, PTL DEF Spec, HealthyKept
-----------------------------------------------------------------------------
(* The arrays implement the list of ClientTable. *)

Tab == [k \in 1..(nfds - 1) |-> sessions[k]]

(* The list has the sessions of the slots in use, in their order. *)
LEMMA TabFacts ==
  ASSUME TableType, SlotsAgree
  PROVE  /\ Tab \in Seq(Conns) /\ Len(Tab) = nfds - 1 /\ DOMAIN Tab = 1..(nfds - 1)
         /\ \A k \in 1..(nfds - 1) : Tab[k] = sessions[k] /\ sessions[k] \in Live
<1>1. nfds - 1 \in Nat
  BY ConstAssumption DEF TableType
<1>2. \A k \in 1..(nfds - 1) : sessions[k] \in Live /\ sessions[k] \in Conns
  BY DEF SlotsAgree, Filled, Live
<1>3. Tab \in [1..(nfds - 1) -> Conns] /\ DOMAIN Tab = 1..(nfds - 1)
  BY <1>2 DEF Tab
<1>4. Tab \in Seq(Conns)
  BY <1>1, <1>3, SeqDef
<1>5. Len(Tab) = nfds - 1
  <2>1. Len(Tab) \in Nat /\ DOMAIN Tab = 1..Len(Tab)
    BY <1>4, LenProperties
  <2> QED
    BY <1>1, <1>3, <2>1
<1> QED
  BY <1>2, <1>3, <1>4, <1>5 DEF Tab

(* session_teardown takes the session from the list, and puts the last one
   in its place. *)
LEMMA TeardownTab ==
  ASSUME TableType, SlotsAgree, NEW s \in Live, NEW W \in SUBSET (Live \ {s}), session_teardown(s, W)
  PROVE  Table!Remove(s)
<1> DEFINE last == nfds - 1
           idx == poll_index[s]
<1>1. /\ idx \in 1..last /\ last \in Slots /\ sessions[idx] = s
      /\ Swapped(sessions', sessions, idx, NULL) /\ nfds' = last
  BY TeardownEntries
<1>2. /\ Len(Tab) = last /\ DOMAIN Tab = 1..last /\ \A k \in 1..last : Tab[k] = sessions[k]
  BY TabFacts
<1>3. nfds \in Nat /\ last \in Nat /\ last \in 1..last /\ \A k \in 1..(last - 1) : k \in Slots /\ k \in 1..last
  BY <1>1, ConstAssumption DEF TableType, Slots
<1>4. \A k \in 1..last : sessions[k] = s <=> k = idx
  BY <1>1 DEF SlotsAgree, Filled
<1>5. s \in Table!Members
  BY <1>1, <1>2 DEF Table!Members, Tab
<1>6. Tab' = [k \in 1..(last - 1) |-> IF Tab[k] = s THEN Tab[Len(Tab)] ELSE Tab[k]]
  <2>1. Tab' = [k \in 1..(last - 1) |-> sessions'[k]]
    BY <1>1 DEF Tab
  <2>2. ASSUME NEW k \in 1..(last - 1)
        PROVE  sessions'[k] = IF Tab[k] = s THEN Tab[Len(Tab)] ELSE Tab[k]
    <3>1. k \in Slots /\ k \in 1..last /\ k # last
      BY <1>3
    <3>2. sessions'[k] = IF k = idx THEN sessions[last] ELSE sessions[k]
      BY <1>1, <3>1 DEF Swapped
    <3> QED
      BY <1>2, <1>3, <1>4, <3>1, <3>2
  <2> QED
    BY <2>1, <2>2
<1>7. Tab' = Table!SwapRemove(Tab, s)
  BY <1>2, <1>6 DEF Table!SwapRemove
<1> QED
  BY <1>5, <1>7 DEF Table!Remove, Tab

(* server_accept appends the session to the list, which had room for it. *)
LEMMA EnterTab ==
  ASSUME TableType, SlotsAgree, NEW c \in Conns, Enters(c)
  PROVE  Table!Add(c)
<1>1. nfds \in Nat /\ nfds \in Slots /\ nfds < MAX_CLIENTS /\ MAX_CLIENTS \in Nat /\ nfds - 1 \in Nat
  BY ConstAssumption DEF Enters, TableType, Slots
<1>2. /\ Tab \in Seq(Conns) /\ Len(Tab) = nfds - 1 /\ DOMAIN Tab = 1..(nfds - 1)
      /\ \A k \in 1..(nfds - 1) : Tab[k] = sessions[k] /\ sessions[k] \in Live
  BY TabFacts
<1>3. Len(Tab) < MAX_CLIENTS - 1
  BY <1>1, <1>2
<1>4. c \notin Table!Members
  <2>1. c \notin {Tab[k] : k \in DOMAIN Tab}
    BY <1>2 DEF Enters
  <2> QED
    BY <2>1 DEF Table!Members, Tab
<1>5. Tab' = Append(Tab, c)
  <2>1. Tab' = [k \in 1..nfds |-> sessions'[k]]
    BY <1>1 DEF Tab, Enters
  <2>2. ASSUME NEW k \in 1..nfds PROVE sessions'[k] = IF k = nfds THEN c ELSE sessions[k]
    <3>1. k \in Slots
      BY <1>1 DEF Slots
    <3> QED
      BY <1>1, <3>1 DEF Enters, TableType
  <2>3. /\ Append(Tab, c) \in Seq(Conns) /\ Len(Append(Tab, c)) = nfds
        /\ \A k \in 1..nfds : Append(Tab, c)[k] = IF k = nfds THEN c ELSE Tab[k]
    BY <1>1, <1>2, AppendProperties
  <2>4. DOMAIN Append(Tab, c) = 1..nfds /\ Append(Tab, c) \in [1..nfds -> Conns]
    BY <2>3, LenProperties
  <2>5. \A k \in 1..nfds : k # nfds => k \in 1..(nfds - 1)
    BY <1>1
  <2>6. \A k \in 1..nfds : sessions'[k] = Append(Tab, c)[k]
    BY <1>2, <2>2, <2>3, <2>5
  <2> QED
    BY <2>1, <2>4, <2>6
<1> QED
  BY <1>3, <1>4, <1>5 DEF Table!Add, Tab

(* Each step of the loop is a step of the list, or leaves it alone. *)
LEMMA TableStep ==
  ASSUME IInv, Kinds, pc # "stopped"
  PROVE  Table!Next \/ UNCHANGED Tab
<1>1. TableType /\ SlotsAgree /\ Live \subseteq Conns
  BY DEF IInv, Live
<1>2. CASE Closes
  <2>1. PICK s \in Live : \E W \in SUBSET (Live \ {s}) : session_teardown(s, W)
    BY <1>2 DEF Closes
  <2>2. Table!Remove(s)
    BY <1>1, <2>1, TeardownTab
  <2> QED
    BY <1>1, <2>2 DEF Table!Next
<1>3. CASE \E c \in Conns : Enters(c)
  BY <1>1, <1>3, EnterTab DEF Table!Next
<1>4. CASE Shutdown
  <2>1. nfds' = 1
    BY <1>4 DEF Shutdown
  <2>2. Tab' = << >>
    BY <2>1 DEF Tab
  <2> QED
    BY <2>2 DEF Table!Next, Table!Clear, Tab
<1>5. CASE Writes \/ Flushes \/ Rests \/ Poll
  <2>1. UNCHANGED <<sessions, nfds>>
    BY <1>5 DEF Writes, Flushes, Layout, Rests, tableVars, Poll
  <2> QED
    BY <2>1 DEF Tab
<1> QED
  BY <1>2, <1>3, <1>4, <1>5 DEF Kinds

(* The two arrays of server.c, with their counter and back-pointers, are a
   dense list without repetition that grows at its end and closes a gap with
   its last element: what session_find_by_jid and the presence code walk. *)
THEOREM ImplementsTableHolds == Spec => ImplementsTable
<1>1. Init => Table!Init
  BY DEF Init, Table!Init
<1>2. IInv /\ [Next]_vars => [Table!Next]_Tab
  <2> SUFFICES ASSUME IInv, [Next]_vars PROVE Table!Next \/ UNCHANGED Tab
    OBVIOUS
  <2>1. CASE pc # "stopped"
    BY <2>1, StepKinds, TableStep
  <2>2. CASE pc = "stopped"
    <3>1. UNCHANGED <<sessions, nfds>>
      BY <2>2 DEF Next, Server, Environment, Signal, Poll, AcceptPhase, ScanEnd, ScanHup, ScanReadFail,
           ScanRead, Scanning, OnStanza, OnStreamClose, OnStreamError, OnBindConflict, Handling, ParseEnd,
           ScanIdle, OutIdle, OutFlush, Shutdown, vars, tableVars
    <3> QED
      BY <3>1 DEF Tab
  <2> QED
    BY <2>1, <2>2
<1> QED
  BY <1>1, <1>2, IInvAlways, PTL DEF Spec, ImplementsTable, Table!Spec, Tab
=============================================================================
