---------------------------- MODULE ClientTable ----------------------------
(***************************************************************************)
(* What the client table of src/c/src/server.c promises to the rest of the *)
(* C server: a dense list of sessions without repetition, that grows at    *)
(* its end, and from which a session is taken by moving the last one into  *)
(* its place.  session_find_by_jid and the presence code walk this list    *)
(* from its first element, so its ORDER is observable; EventLoop shows     *)
(* that the arrays implement it.                                           *)
(***************************************************************************)
EXTENDS Naturals, Sequences

CONSTANTS Conns,        \* connections (file descriptors)
          MAX_CLIENTS   \* size of the poll array, the listener included

VARIABLE tab            \* the sessions in slots 1 .. nfds-1

Members == {tab[k] : k \in DOMAIN tab}

(* server_remove_session on a list: the last element takes c's place. *)
SwapRemove(t, c) ==
  [k \in 1..(Len(t) - 1) |-> IF t[k] = c THEN t[Len(t)] ELSE t[k]]

Init == tab = << >>

Add(c) ==
  /\ Len(tab) < MAX_CLIENTS - 1
  /\ c \notin Members
  /\ tab' = Append(tab, c)

Remove(c) ==
  /\ c \in Members
  /\ tab' = SwapRemove(tab, c)

Clear == tab' = << >>

Next == Clear \/ \E c \in Conns : Add(c) \/ Remove(c)

Spec == Init /\ [][Next]_tab
=============================================================================
