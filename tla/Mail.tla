-------------------------------- MODULE Mail --------------------------------
(***************************************************************************)
(* Messages and their offline storage in the C server (src/c/src/message.c *)
(* with session_find_by_jid, session_handle_bind and session_teardown of   *)
(* session.c and the initial presence of presence.c).  A message goes to   *)
(* the first session, in table order, that carries its addressee's name,   *)
(* in whatever state that session is; without one it becomes a file        *)
(* NNNN.xml of the addressee's directory, and all files are handed over    *)
(* when the addressee becomes available.                                   *)
(*                                                                         *)
(* Message m is the m-th that any client sent, and to[m] its addressee,    *)
(* which had an account then (the others are answered with an error).  A   *)
(* file is a number and the message in it, or TORN when the process died   *)
(* before the text was written.  An account is removed by a session of its *)
(* user, and its directory with it (register.c, user.c).  The table is the *)
(* one ClientTable specifies.  The steps of one handler are not            *)
(* interrupted, except by a crash.                                         *)
(***************************************************************************)
EXTENDS Naturals, Sequences, FiniteSetsExt, Functions

CONSTANTS
  Conns,        \* connections
  Users,        \* accounts
  NONE,         \* no session / jid_local not set
  MAX_CLIENTS,  \* poll array, the listener included
  MAX_FILES,    \* names that message_deliver_offline collects: 256
  BASE, WIDTH,  \* file names: digits, and the width they are padded to
  MaxMsgs       \* bound: messages sent

ASSUME ConstAssumption ==
  /\ NONE \notin Conns \cup Users
  /\ MAX_CLIENTS \in Nat \ {0, 1}
  /\ MAX_FILES \in Nat \ {0}
  /\ BASE \in Nat \ {0, 1} /\ WIDTH \in Nat \ {0}
  /\ MaxMsgs \in Nat

VARIABLES
  tab,          \* sessions in table order
  jid_local,    \* [c -> the user, or NONE]
  established,  \* [c -> state is BOUND or SESSION_ACTIVE]
  available,    \* [c -> available]
  write_buf,    \* [c -> messages queued on the connection]
  offline,      \* [u -> the files of the offline directory]
  accounts,     \* users whose user.conf exists
  to,           \* the addressees of the messages sent so far
  got,          \* messages that were written to a connection
  run           \* history: changes when the process dies and starts again

sessVars == <<jid_local, established, available, write_buf>>
vars == <<tab, sessVars, offline, accounts, to, got, run>>

Table == INSTANCE ClientTable

TORN == 0
Msgs == 1..MaxMsgs
InTable == {tab[k] : k \in DOMAIN tab}

Init ==
  /\ tab = << >>
  /\ jid_local = [c \in Conns |-> NONE]
  /\ established = [c \in Conns |-> FALSE]
  /\ available = [c \in Conns |-> FALSE]
  /\ write_buf = [c \in Conns |-> << >>]
  /\ offline = [u \in Users |-> {}]
  /\ accounts \in SUBSET Users
  /\ to = << >>
  /\ got = {}
  /\ run = 0
-----------------------------------------------------------------------------
(* Sessions C end: their buffers are freed. *)
Fresh(C) ==
  /\ jid_local' = [c \in Conns |-> IF c \in C THEN NONE ELSE jid_local[c]]
  /\ established' = [c \in Conns |-> established[c] /\ c \notin C]
  /\ available' = [c \in Conns |-> available[c] /\ c \notin C]
  /\ write_buf' = [c \in Conns |-> IF c \in C THEN << >> ELSE write_buf[c]]

Accept(c) ==
  /\ Table!Add(c)
  /\ UNCHANGED <<sessVars, offline, accounts, to, got, run>>

(* auth_handle_sasl succeeds: the session is found under its name from now on. *)
Authenticate(c, u) ==
  /\ c \in InTable /\ jid_local[c] = NONE /\ u \in accounts
  /\ jid_local' = [jid_local EXCEPT ![c] = u]
  /\ UNCHANGED <<tab, established, available, write_buf, offline, accounts, to, got, run>>

(* write() takes the first k messages of the buffer. *)
Written(c, k) == {write_buf[c][i] : i \in 1..k}

session_flush(c) ==
  /\ write_buf[c] # << >>
  /\ got' = got \cup Written(c, 1)
  /\ write_buf' = [write_buf EXCEPT ![c] = Tail(@)]
  /\ UNCHANGED <<tab, jid_local, established, available, offline, accounts, to, run>>

(* A connection breaks, or its stream is closed after a last session_flush. *)
session_teardown(c) ==
  \E k \in 0..Len(write_buf[c]) :
    /\ Table!Remove(c)
    /\ Fresh({c})
    /\ got' = got \cup Written(c, k)
    /\ UNCHANGED <<offline, accounts, to, run>>

(* mutant: the name is not compared *)
FindByJid_AnyUser(u) ==
  LET Known == {k \in DOMAIN tab : jid_local[tab[k]] # NONE}
  IN IF Known = {} THEN NONE ELSE tab[CHOOSE k \in Known : TRUE]

(* session_find_by_jid *)
FindByJid(u) ==
  LET First == {k \in DOMAIN tab : /\ jid_local[tab[k]] = u
                                   /\ \A j \in 1..(k - 1) : jid_local[tab[j]] # u}
  IN IF First = {} THEN NONE ELSE tab[CHOOSE k \in First : TRUE]

(* session_handle_bind; the session found under the name, if it is another one,
   is sent the conflict error (with a flush) and closed. *)
session_handle_bind(c) ==
  LET existing == FindByJid(jid_local[c]) IN
  /\ jid_local[c] # NONE /\ ~established[c]
  /\ IF existing = c
       THEN established' = [established EXCEPT ![c] = TRUE]
            /\ UNCHANGED <<tab, jid_local, available, write_buf, got>>
       ELSE \E k \in 0..Len(write_buf[existing]) :
              /\ tab' = Table!SwapRemove(tab, existing)
              /\ jid_local' = [jid_local EXCEPT ![existing] = NONE]
              /\ established' = [established EXCEPT ![existing] = FALSE, ![c] = TRUE]
              /\ available' = [available EXCEPT ![existing] = FALSE]
              /\ write_buf' = [write_buf EXCEPT ![existing] = << >>]
              /\ got' = got \cup Written(existing, k)
  /\ UNCHANGED <<offline, accounts, to, run>>

(* session_handle_session_iq makes a session active without a bind. *)
session_handle_session_iq(c) ==
  /\ jid_local[c] # NONE
  /\ established' = [established EXCEPT ![c] = TRUE]
  /\ UNCHANGED <<tab, jid_local, available, write_buf, offline, accounts, to, got, run>>
-----------------------------------------------------------------------------
(* n without its last i digits *)
Without(n) ==
  LET rest[i \in 0..(WIDTH + n)] == IF i = 0 THEN n ELSE rest[i - 1] \div BASE
  IN rest

(* The name of file n: its digits, padded; and the order strcmp gives to two
   names, in which the '.' of a shorter one comes before any digit. *)
Digits(n) ==
  LET rest == Without(n)
      len == Min({l \in WIDTH..(WIDTH + n) : rest[l] = 0})
  IN [k \in 1..len |-> rest[len - k] % BASE]

NameLess(m, n) ==
  LET a == Digits(m)
      b == Digits(n)
  IN \E k \in 1..Len(b) :
       /\ \A j \in 1..(k - 1) : j <= Len(a) /\ a[j] = b[j]
       /\ k > Len(a) \/ a[k] < b[k]

(* mutants: the number of files is taken for the highest number; the first
   number is 0 *)
IsNextSeq_Count(u, n) == n = Cardinality(offline[u]) + 1
IsNextSeq_Zero(u, n) == n = Cardinality(offline[u])

(* max_seq + 1 *)
IsNextSeq(u, n) ==
  /\ \A f \in offline[u] : f.seq < n
  /\ n = 1 \/ \E f \in offline[u] : f.seq = n - 1

(* fopen(path, "w") replaces a file of the same name. *)
WithFile(u, n, m) ==
  [offline EXCEPT ![u] = {f \in @ : f.seq # n} \cup {[seq |-> n, msg |-> m]}]

Send(c, u) ==
  /\ established[c] /\ u \in accounts
  /\ Len(to) < MaxMsgs
  /\ to' = Append(to, u)
New == Len(to) + 1

(* handle_message: deliver to a connected user *)
DeliverNow(c, u) ==
  LET target == FindByJid(u) IN
  /\ Send(c, u)
  /\ target # NONE
  /\ write_buf' = [write_buf EXCEPT ![target] = Append(@, New)]
  /\ UNCHANGED <<tab, jid_local, established, available, offline, accounts, got, run>>

(* handle_message, message_store_offline *)
message_store_offline(c, u) ==
  /\ Send(c, u)
  /\ FindByJid(u) = NONE
  /\ \E n \in 0..MaxMsgs : IsNextSeq(u, n) /\ offline' = WithFile(u, n, New)
  /\ UNCHANGED <<tab, sessVars, accounts, got, run>>

(* A message of type error is not stored; and when the file cannot be written
   the loss is only logged. *)
NotStored(c, u) ==
  /\ Send(c, u)
  /\ FindByJid(u) = NONE
  /\ UNCHANGED <<tab, sessVars, offline, accounts, got, run>>
-----------------------------------------------------------------------------
(* mutants: one name less is taken; the names are not sorted *)
Taken_OneLess(u) == {T \in SUBSET offline[u] :
  \/ Cardinality(T) = MAX_FILES - 1
  \/ Cardinality(T) < MAX_FILES - 1 /\ T = offline[u]}
Orders_Unsorted(T) ==
  {d \in [1..Cardinality(T) -> T] : \A f \in T : \E i \in DOMAIN d : d[i] = f}

(* What one pass over the directory collects: everything, or the first
   MAX_FILES names in the order of the directory, which is arbitrary. *)
Taken(u) == {T \in SUBSET offline[u] :
  \/ Cardinality(T) = MAX_FILES
  \/ Cardinality(T) < MAX_FILES /\ T = offline[u]}

(* The files of T sorted by name (one sequence). *)
Orders(T) == {d \in [1..Cardinality(T) -> T] :
  /\ \A f \in T : \E i \in DOMAIN d : d[i] = f
  /\ \A i, j \in DOMAIN d : i < j => NameLess(d[i].seq, d[j].seq)}

Readable(T) == {f \in T : f.msg # TORN}
Texts(d) == [i \in DOMAIN d |-> d[i].msg]

(* mutant: the files are left in place *)
message_deliver_offline_Keeps(c) ==
  LET u == jid_local[c] IN
  \E T \in Taken(u) : \E d \in Orders(Readable(T)) :
    /\ write_buf' = [write_buf EXCEPT ![c] = @ \o Texts(d)]
    /\ offline' = [offline EXCEPT ![u] = @ \ (T \ Readable(T))]

(* Every file taken is unlinked: the readable ones once they are in write_buf,
   the others because they do not parse. *)
message_deliver_offline(c) ==
  LET u == jid_local[c] IN
  \E T \in Taken(u) : \E d \in Orders(Readable(T)) :
    /\ write_buf' = [write_buf EXCEPT ![c] = @ \o Texts(d)]
    /\ offline' = [offline EXCEPT ![u] = @ \ T]

(* presence_handle_available; is_initial is !available *)
BecomeAvailable(c) ==
  /\ established[c]
  /\ available' = [available EXCEPT ![c] = TRUE]
  /\ IF available[c] THEN UNCHANGED <<write_buf, offline>> ELSE message_deliver_offline(c)
  /\ UNCHANGED <<tab, jid_local, established, accounts, to, got, run>>

BecomeUnavailable(c) ==
  /\ established[c]
  /\ available' = [available EXCEPT ![c] = FALSE]
  /\ UNCHANGED <<tab, jid_local, established, write_buf, offline, accounts, to, got, run>>
-----------------------------------------------------------------------------
(* user_create, from the registration of a session or from useradd *)
user_create(u) ==
  /\ u \notin accounts
  /\ accounts' = accounts \cup {u}
  /\ UNCHANGED <<tab, sessVars, offline, to, got, run>>

(* register_handle_iq with <remove/>: user_delete unlinks all files.  The session
   only has teardown_pending set: what follows in the same chunk is still
   handled, and the close is a later session_teardown. *)
RemoveAccount(c) ==
  LET u == jid_local[c] IN
  /\ u # NONE
  /\ accounts' = accounts \ {u}
  /\ offline' = [offline EXCEPT ![u] = {}]
  /\ UNCHANGED <<tab, sessVars, to, got, run>>
-----------------------------------------------------------------------------
(* The process dies and is started again: between handlers, ... *)
Death == tab' = << >> /\ Fresh(Conns) /\ run' = 1 - run /\ UNCHANGED got

Crash == Death /\ UNCHANGED <<offline, accounts, to>>

(* ... between fopen and fclose of a message file, ... *)
CrashStoring(c, u) ==
  /\ Send(c, u)
  /\ FindByJid(u) = NONE
  /\ \E n \in 0..MaxMsgs : IsNextSeq(u, n) /\ offline' = WithFile(u, n, TORN)
  /\ Death
  /\ UNCHANGED accounts

(* ... when it has handed over and unlinked the first k files, ... *)
CrashDelivering(c) ==
  LET u == jid_local[c] IN
  /\ established[c] /\ ~available[c]
  /\ \E T \in Taken(u) : \E d \in Orders(T) : \E k \in DOMAIN d :
       offline' = [offline EXCEPT ![u] = @ \ {d[i] : i \in 1..k}]
  /\ Death
  /\ UNCHANGED <<accounts, to>>

(* ... or when it has unlinked some files of an account, user.conf being the
   first after all of them. *)
CrashRemoving(c) ==
  LET u == jid_local[c] IN
  /\ u # NONE
  /\ \E kept \in SUBSET offline[u] :
       /\ offline' = [offline EXCEPT ![u] = kept]
       /\ accounts' = accounts \/ (kept = {} /\ accounts' = accounts \ {u})
  /\ Death
  /\ UNCHANGED to

Dying ==
  \/ Crash
  \/ \E c \in Conns : CrashDelivering(c) \/ CrashRemoving(c)
  \/ \E c \in Conns, u \in Users : CrashStoring(c, u)

Serving ==
  \/ \E c \in Conns :
       \/ Accept(c) \/ session_flush(c) \/ session_teardown(c)
       \/ session_handle_bind(c) \/ session_handle_session_iq(c)
       \/ BecomeAvailable(c) \/ BecomeUnavailable(c)
       \/ RemoveAccount(c)
  \/ \E u \in Users : user_create(u)
  \/ \E c \in Conns, u \in Users :
       \/ Authenticate(c, u)
       \/ DeliverNow(c, u) \/ message_store_offline(c, u) \/ NotStored(c, u)

Next == Serving \/ Dying

Spec == Init /\ [][Next]_vars
-----------------------------------------------------------------------------
(* Properties *)

Files == [seq : Nat \ {0}, msg : Msgs \cup {TORN}]

(* The types of the state; files are numbered from 1. *)
TypeOK ==
  /\ tab \in Seq(Conns) /\ Len(tab) < MAX_CLIENTS
  /\ jid_local \in [Conns -> Users \cup {NONE}]
  /\ established \in [Conns -> BOOLEAN]
  /\ available \in [Conns -> BOOLEAN]
  /\ write_buf \in [Conns -> Seq(Msgs)]
  /\ offline \in [Users -> SUBSET Files]
  /\ accounts \in SUBSET Users
  /\ to \in Seq(Users) /\ Len(to) <= MaxMsgs
  /\ got \subseteq Msgs
  /\ run \in {0, 1}

InFile(m) == {f \in UNION {offline[u] : u \in Users} : f.msg = m}
InBuffer(m) == {p \in Conns \X Msgs : p[2] <= Len(write_buf[p[1]]) /\ write_buf[p[1]][p[2]] = m}

(* A message is in one place: in one file, once in one buffer, or passed on.
   It can therefore not be received twice, whatever breaks in between. *)
AtMostOnce ==
  \A m \in Msgs :
    /\ InFile(m) # {} => InBuffer(m) = {} /\ m \notin got
    /\ InBuffer(m) # {} => m \notin got
    /\ \A f, g \in InFile(m) : f = g
    /\ \A p, q \in InBuffer(m) : p = q

(* Messages are queued on connections of their addressee, and filed in its
   directory. *)
OnlyToAddressee ==
  /\ \A c \in Conns : \A m \in Range(write_buf[c]) : to[m] = jid_local[c]
  /\ \A u \in Users : \A f \in Readable(offline[u]) : to[f.msg] = u

(* What is handed over at once arrives in the order it was sent, as long as
   the numbers fit the width of the names. *)
HandedOverInOrder ==
  [][\A c \in Conns, u \in Users :
       LET old == Len(write_buf[c])
           new == write_buf'[c]
       IN (\A f \in offline[u] : Len(Digits(f.seq)) = WIDTH) /\ jid_local[c] = u /\ Len(new) > old =>
            \A i, j \in (old + 1)..Len(new) : i < j => new[i] < new[j]]_vars

(* An available user has no mail waiting, unless more than MAX_FILES messages
   were sent to it: whatever it was sent while it had no session has been
   handed over. *)
NoMailWaiting ==
  \A c \in Conns :
    LET u == jid_local[c] IN
    available[c] /\ offline[u] # {} =>
      Cardinality(offline[u]) + MAX_FILES <= Cardinality({m \in DOMAIN to : to[m] = u})

(* Refinement: the one fate of every message. *)
fateOf == [m \in Msgs |->
  CASE m > Len(to) -> "new"
    [] m <= Len(to) /\ InFile(m) # {} -> "held"
    [] m <= Len(to) /\ InFile(m) = {} /\ InBuffer(m) # {} -> "queued"
    [] m <= Len(to) /\ InFile(m) = {} /\ InBuffer(m) = {} /\ m \in got -> "passed"
    [] OTHER -> "lost"]

Promise == INSTANCE Delivery WITH fate <- fateOf

(* The code keeps the promise of Delivery: while the process runs, a message
   that was stored leaves its file only for a connection of its addressee or
   with the addressee's account; a death loses stored messages of one user at
   most; and nothing goes back. *)
ImplementsDelivery == Promise!Spec
=============================================================================
