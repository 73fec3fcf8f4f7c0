----------------------------- MODULE MailProofs -----------------------------
(***************************************************************************)
(* Proofs about Mail, for any connections, users, table size, number of    *)
(* files collected at a time and number of messages: the type invariant,   *)
(* that messages are queued and filed for their addressee only, that a     *)
(* message is in one place, that an available user has no mail waiting,    *)
(* that files are handed over in the order of their messages, and that     *)
(* Mail implements Delivery.                                               *)
(*                                                                         *)
(* Every step is of one of the kinds below, as far as messages are         *)
(* concerned; the invariants are shown to be kept by each kind.            *)
(***************************************************************************)
EXTENDS Mail, NumberLemmas, SequenceTheorems, FiniteSetTheorems

Queue(c) == 1..Len(write_buf[c])
Sent == 1..Len(to)

(* A session with a name is in the table, where session_find_by_jid looks; one
   that is established has a name, and only such a one is available. *)
Named ==
  \A c \in Conns : /\ jid_local[c] # NONE => c \in InTable
                   /\ established[c] => jid_local[c] # NONE
                   /\ available[c] => established[c]

(* A directory has finitely many files. *)
Finite == \A u \in Users : IsFiniteSet(offline[u])

(* Whatever is queued, filed or passed on was sent, and the first two are where
   their addressee gets them. *)
Addressed ==
  /\ \A c \in Conns : \A i \in Queue(c) :
       write_buf[c][i] \in Sent /\ to[write_buf[c][i]] = jid_local[c]
  /\ \A u \in Users : \A f \in Readable(offline[u]) : f.msg \in Sent /\ to[f.msg] = u
  /\ got \subseteq Sent

(* AtMostOnce, place by place: no message is twice in the buffers, twice in the
   files, or in two of buffers, files and got. *)
OnceQueued ==
  \A c, d \in Conns : \A i \in Queue(c), j \in Queue(d) :
    write_buf[c][i] = write_buf[d][j] => c = d /\ i = j
OnceFiled == \A u \in Users : \A f, g \in Readable(offline[u]) : f.msg = g.msg => f = g
QueuedOnly ==
  \A c \in Conns : \A i \in Queue(c) :
    /\ write_buf[c][i] \notin got
    /\ \A u \in Users : \A f \in offline[u] : f.msg # write_buf[c][i]
FiledOnly == \A u \in Users : \A f \in offline[u] : f.msg \notin got
Once == OnceQueued /\ OnceFiled /\ QueuedOnly /\ FiledOnly

(* Files are there for users with an account only: user_delete unlinks them
   before user.conf. *)
Homed == \A u \in Users : offline[u] # {} => u \in accounts

IInv == TypeOK /\ Named /\ Finite /\ Addressed /\ Once /\ Homed
-----------------------------------------------------------------------------
(* The kinds of steps. *)

(* Nothing happens to messages; a session may get a name. *)
Quiet ==
  /\ UNCHANGED <<write_buf, offline, to, got>>
  /\ jid_local' \in [Conns -> Users \cup {NONE}]
  /\ \A c \in Conns : jid_local'[c] = jid_local[c] \/ jid_local[c] = NONE

Flushes(c) == session_flush(c)

(* Session x ends, with a last flush of k messages. *)
Ends(x, k) ==
  /\ jid_local' = [jid_local EXCEPT ![x] = NONE]
  /\ write_buf' = [write_buf EXCEPT ![x] = << >>]
  /\ got' = got \cup Written(x, k)
  /\ UNCHANGED <<offline, to>>

(* A message to u is sent, and queued on x, filed under n, or dropped. *)
Queues(x, u) ==
  /\ Len(to) < MaxMsgs /\ to' = Append(to, u)
  /\ jid_local[x] = u
  /\ write_buf' = [write_buf EXCEPT ![x] = Append(@, New)]
  /\ UNCHANGED <<jid_local, offline, got>>
Stores(u, n) ==
  /\ Len(to) < MaxMsgs /\ to' = Append(to, u)
  /\ IsNextSeq(u, n) /\ offline' = WithFile(u, n, New)
  /\ UNCHANGED <<jid_local, write_buf, got>>
Drops(u) ==
  /\ Len(to) < MaxMsgs /\ to' = Append(to, u)
  /\ UNCHANGED <<jid_local, write_buf, offline, got>>

(* The files of u go to its session c. *)
HandsOver(c, u) ==
  /\ jid_local[c] = u
  /\ message_deliver_offline(c)
  /\ UNCHANGED <<jid_local, to, got>>

(* The account of u is removed, and its files with it. *)
Removes(u) ==
  /\ accounts' = accounts \ {u}
  /\ offline' = [offline EXCEPT ![u] = {}]
  /\ UNCHANGED <<jid_local, write_buf, to, got, run>>

(* The process dies; a message may have been on its way, files of one user may be
   gone and a torn one may be there. *)
Dies ==
  /\ jid_local' = [c \in Conns |-> NONE]
  /\ write_buf' = [c \in Conns |-> << >>]
  /\ \A u \in Users : Readable(offline'[u]) \subseteq offline[u]
  /\ \A u, v \in Users :
       ~(offline[u] \subseteq offline'[u]) /\ ~(offline[v] \subseteq offline'[v]) => u = v
  /\ \/ to' = to
     \/ Len(to) < MaxMsgs /\ \E u \in Users : to' = Append(to, u)
  /\ accounts' \subseteq accounts
  /\ run' = 1 - run
  /\ UNCHANGED got

Kinds ==
  \/ Quiet
  \/ \E c \in Conns : Flushes(c)
  \/ \E x \in Conns : \E k \in 0..Len(write_buf[x]) : Ends(x, k)
  \/ \E x \in Conns, u \in Users : Queues(x, u)
  \/ \E u \in Users, n \in Nat \ {0} : Stores(u, n)
  \/ \E u \in Users : Drops(u)
  \/ \E c \in Conns, u \in Users : HandsOver(c, u)
  \/ \E u \in Users : Removes(u)
  \/ Dies
-----------------------------------------------------------------------------
(* The session found carries the name, and one is found when some session in
   the table carries it. *)
LEMMA FindByJidProperties ==
  ASSUME TypeOK, NEW u \in Users
  PROVE  /\ FindByJid(u) # NONE =>
              FindByJid(u) \in Conns /\ FindByJid(u) \in InTable /\ jid_local[FindByJid(u)] = u
         /\ FindByJid(u) = NONE => \A c \in InTable : jid_local[c] # u
<1> DEFINE First == {k \in DOMAIN tab : /\ jid_local[tab[k]] = u
                                        /\ \A j \in 1..(k - 1) : jid_local[tab[j]] # u}
<1>1. DOMAIN tab = 1..Len(tab) /\ Len(tab) \in Nat /\ \A k \in DOMAIN tab : tab[k] \in Conns
  BY LenProperties, ElementOfSeq DEF TypeOK
<1>2. CASE First = {}
  <2> DEFINE S == {k \in DOMAIN tab : jid_local[tab[k]] = u}
  <2>1. S = {}
    <3> SUFFICES ASSUME S # {} PROVE FALSE
      OBVIOUS
    <3>1. S \in SUBSET Nat
      BY <1>1
    <3>2. PICK m \in S : \A k \in S : m <= k
      <4> HIDE DEF S
      <4> QED BY <3>1, MinOfNats
    <3>3. m \in First
      BY <1>1, <3>2
    <3> QED
      BY <1>2, <3>3
  <2>2. \A c \in InTable : jid_local[c] # u
    BY <2>1 DEF InTable
  <2> QED
    BY <1>2, <2>2 DEF FindByJid
<1>3. CASE First # {}
  <2> DEFINE k == CHOOSE k \in First : TRUE
  <2>1. k \in First
    BY <1>3
  <2>2. FindByJid(u) = tab[k]
    BY <1>3 DEF FindByJid
  <2>3. tab[k] \in Conns /\ tab[k] \in InTable /\ jid_local[tab[k]] = u
    BY <1>1, <2>1 DEF InTable
  <2>4. tab[k] # NONE
    BY <2>3, ConstAssumption
  <2> QED
    BY <2>2, <2>3, <2>4
<1> QED
  BY <1>2, <1>3

(* Taking a session out of the table leaves the others in it. *)
LEMMA SwapRemoveProperties ==
  ASSUME NEW t \in Seq(Conns), NEW c \in {t[k] : k \in DOMAIN t}
  PROVE  /\ Table!SwapRemove(t, c) \in Seq(Conns)
         /\ Len(Table!SwapRemove(t, c)) = Len(t) - 1
         /\ \A d \in {t[k] : k \in DOMAIN t} \ {c} :
              \E k \in DOMAIN Table!SwapRemove(t, c) : Table!SwapRemove(t, c)[k] = d
<1> DEFINE s == Table!SwapRemove(t, c)
<1>0. Len(t) \in Nat
  BY LenProperties
<1>1. DOMAIN t = 1..Len(t) /\ Len(t) \in Nat /\ \A k \in DOMAIN t : t[k] \in Conns
  BY LenProperties, ElementOfSeq
<1>2. PICK h \in 1..Len(t) : t[h] = c
  BY <1>1
<1>3. s = [k \in 1..(Len(t) - 1) |-> IF t[k] = c THEN t[Len(t)] ELSE t[k]]
  BY DEF Table!SwapRemove
<1>4. s \in Seq(Conns) /\ Len(s) = Len(t) - 1
  BY <1>1, <1>2, <1>3
<1>5. ASSUME NEW d \in {t[k] : k \in DOMAIN t} \ {c}
      PROVE  \E k \in DOMAIN s : s[k] = d
  <2>1. PICK k \in 1..Len(t) : t[k] = d
    BY <1>1
  <2>2. CASE k < Len(t)
    BY <1>1, <1>3, <2>1, <2>2
  <2>3. CASE k = Len(t)
    BY <1>1, <1>2, <1>3, <2>1, <2>3
  <2>4. k < Len(t) \/ k = Len(t)
    BY <1>0
  <2> QED
    BY <2>2, <2>3, <2>4
<1> QED
  BY <1>4, <1>5

(* What is handed over are the texts of the readable files taken, each of them
   once. *)
LEMMA TextsProperties ==
  ASSUME TypeOK, Finite, NEW u \in Users, NEW T \in Taken(u), NEW d \in Orders(Readable(T))
  PROVE  /\ T \subseteq offline[u]
         /\ Texts(d) \in Seq(Msgs)
         /\ DOMAIN d = 1..Len(Texts(d))
         /\ \A i \in DOMAIN d : d[i] \in Readable(T) /\ Texts(d)[i] = d[i].msg
         /\ \A f \in Readable(T) : \E i \in DOMAIN d : d[i] = f
         /\ \A i, j \in DOMAIN d : d[i] = d[j] => i = j
         /\ \A i, j \in DOMAIN d : i < j => NameLess(d[i].seq, d[j].seq)
<1> DEFINE R == Readable(T)
           n == Cardinality(R)
<1>1. T \subseteq offline[u] /\ R \subseteq offline[u]
  BY DEF Taken, Readable
<1>2. IsFiniteSet(R) /\ n \in Nat
  BY <1>1, FS_Subset, FS_CardinalityType DEF Finite
<1>3. d \in [1..n -> R] /\ \A f \in R : \E i \in DOMAIN d : d[i] = f
  BY DEF Orders
<1>4. d \in Surjection(1..n, R)
  BY <1>3 DEF Surjection
<1>5. IsFiniteSet(1..n) /\ Cardinality(1..n) = n
  BY <1>2, FS_Interval
<1>6. d \in Injection(1..n, R)
  BY <1>4, <1>5, FS_SurjSameCardinalityImpliesInj
<1>7. \A i, j \in DOMAIN d : d[i] = d[j] => i = j
  BY <1>6 DEF Injection, IsInjective
<1>8. \A i \in 1..n : d[i] \in R /\ d[i].msg \in Msgs
  <2> SUFFICES ASSUME NEW i \in 1..n PROVE d[i] \in R /\ d[i].msg \in Msgs
    OBVIOUS
  <2>1. d[i] \in R
    BY <1>3
  <2>2. d[i] \in Files /\ d[i].msg # TORN
    BY <1>1, <2>1 DEF TypeOK, Readable
  <2> QED
    BY <2>1, <2>2 DEF Files
<1>9. Texts(d) = [i \in 1..n |-> d[i].msg]
  BY <1>3 DEF Texts
<1>10. Texts(d) \in Seq(Msgs) /\ Len(Texts(d)) = n
  BY <1>2, <1>8, <1>9
<1>11. \A i, j \in DOMAIN d : i < j => NameLess(d[i].seq, d[j].seq)
  BY DEF Orders
<1> QED
  BY <1>1, <1>3, <1>7, <1>8, <1>9, <1>10, <1>11

(* A death, as far as messages are concerned. *)
LEMMA DyingDies == ASSUME TypeOK, Dying PROVE Dies
<1>1. Death
  BY DEF Dying, Crash, CrashStoring, CrashDelivering, CrashRemoving
<1>2. /\ jid_local' = [c \in Conns |-> NONE]
      /\ write_buf' = [c \in Conns |-> << >>]
      /\ run' = 1 - run
      /\ UNCHANGED got
  BY <1>1 DEF Death, Fresh
<1>3. CASE Crash
  BY <1>2, <1>3 DEF Crash, Dies, Readable
<1>4. CASE \E c \in Conns : CrashDelivering(c)
  <2>1. PICK c \in Conns : CrashDelivering(c)
    BY <1>4
  <2>2. PICK D : offline' = [offline EXCEPT ![jid_local[c]] = @ \ D]
    BY <2>1 DEF CrashDelivering
  <2>3. \A u \in Users : /\ offline'[u] \subseteq offline[u]
                         /\ u # jid_local[c] => offline'[u] = offline[u]
    BY <2>2 DEF TypeOK
  <2>4. to' = to /\ accounts' = accounts
    BY <2>1 DEF CrashDelivering
  <2>5. \A u, v \in Users :
          ~(offline[u] \subseteq offline'[u]) /\ ~(offline[v] \subseteq offline'[v]) => u = v
    BY <2>3
  <2>6. \A u \in Users : Readable(offline'[u]) \subseteq offline[u]
    BY <2>3 DEF Readable
  <2> QED
    BY <1>2, <2>4, <2>5, <2>6 DEF Dies
<1>5. CASE \E c \in Conns, u \in Users : CrashStoring(c, u)
  <2>1. PICK c \in Conns, u \in Users : CrashStoring(c, u)
    BY <1>5
  <2>2. PICK n \in 0..MaxMsgs : offline' = WithFile(u, n, TORN)
    BY <2>1 DEF CrashStoring
  <2>3. \A v \in Users : /\ Readable(offline'[v]) \subseteq offline[v]
                         /\ v # u => offline'[v] = offline[v]
    BY <2>2 DEF TypeOK, WithFile, Readable
  <2>4. /\ Len(to) < MaxMsgs /\ to' = Append(to, u)
        /\ accounts' = accounts
    BY <2>1 DEF CrashStoring, Send
  <2>5. \A v, w \in Users :
          ~(offline[v] \subseteq offline'[v]) /\ ~(offline[w] \subseteq offline'[w]) => v = w
    BY <2>3
  <2>6. \A v \in Users : Readable(offline'[v]) \subseteq offline[v]
    BY <2>3
  <2> QED
    BY <1>2, <2>4, <2>5, <2>6 DEF Dies
<1>6. CASE \E c \in Conns : CrashRemoving(c)
  <2>1. PICK c \in Conns : CrashRemoving(c)
    BY <1>6
  <2>2. PICK kept \in SUBSET offline[jid_local[c]] :
          /\ offline' = [offline EXCEPT ![jid_local[c]] = kept]
          /\ accounts' = accounts \/ (kept = {} /\ accounts' = accounts \ {jid_local[c]})
    BY <2>1 DEF CrashRemoving
  <2>3. \A u \in Users : /\ offline'[u] \subseteq offline[u]
                         /\ u # jid_local[c] => offline'[u] = offline[u]
    BY <2>2 DEF TypeOK
  <2>4. to' = to /\ accounts' \subseteq accounts
    BY <2>1, <2>2 DEF CrashRemoving
  <2>5. \A u, v \in Users :
          ~(offline[u] \subseteq offline'[u]) /\ ~(offline[v] \subseteq offline'[v]) => u = v
    BY <2>3
  <2>6. \A u \in Users : Readable(offline'[u]) \subseteq offline[u]
    BY <2>3 DEF Readable
  <2> QED
    BY <1>2, <2>4, <2>5, <2>6 DEF Dies
<1> QED
  BY <1>3, <1>4, <1>5, <1>6 DEF Dying

(* Steps are of these kinds. *)
LEMMA StepKinds == ASSUME TypeOK, Named, Finite, [Next]_vars PROVE Kinds
<1>1. CASE UNCHANGED vars
  BY <1>1 DEF vars, sessVars, Kinds, Quiet, TypeOK
<1>2. CASE \E c \in Conns : Accept(c) \/ session_handle_session_iq(c) \/ BecomeUnavailable(c)
  BY <1>2 DEF Accept, session_handle_session_iq, BecomeUnavailable, sessVars, Kinds, Quiet, TypeOK
<1>3. CASE (\E c \in Conns, u \in Users : Authenticate(c, u)) \/ \E u \in Users : user_create(u)
  BY <1>3 DEF Authenticate, user_create, sessVars, Kinds, Quiet, TypeOK
<1>4. CASE \E c \in Conns : session_flush(c)
  BY <1>4 DEF Kinds, Flushes
<1>5. CASE \E c \in Conns : session_teardown(c)
  <2>1. PICK c \in Conns : session_teardown(c)
    BY <1>5
  <2>2. PICK k \in 0..Len(write_buf[c]) :
          Fresh({c}) /\ got' = got \cup Written(c, k) /\ UNCHANGED <<offline, to>>
    BY <2>1 DEF session_teardown
  <2>3. jid_local' = [jid_local EXCEPT ![c] = NONE] /\ write_buf' = [write_buf EXCEPT ![c] = << >>]
    BY <2>2 DEF Fresh, TypeOK
  <2>4. Ends(c, k)
    BY <2>2, <2>3 DEF Ends
  <2> QED
    BY <2>4 DEF Kinds
<1>6. CASE \E c \in Conns : session_handle_bind(c)
  <2>1. PICK c \in Conns : session_handle_bind(c)
    BY <1>6
  <2> DEFINE x == FindByJid(jid_local[c])
  <2>2. jid_local[c] \in Users
    BY <2>1 DEF session_handle_bind, TypeOK
  <2>3. x \in Conns
    <3>1. c \in InTable
      BY <2>2, ConstAssumption DEF Named
    <3> QED
      BY <2>2, <3>1, FindByJidProperties
  <2>4. CASE x = c
    BY <2>1, <2>4 DEF session_handle_bind, Kinds, Quiet, TypeOK
  <2>5. CASE x # c
    <3>1. PICK k \in 0..Len(write_buf[x]) : Ends(x, k)
      BY <2>1, <2>5 DEF session_handle_bind, Ends
    <3> QED
      BY <2>3, <3>1 DEF Kinds
  <2> QED
    BY <2>4, <2>5
<1>7. CASE \E c \in Conns : BecomeAvailable(c)
  <2>1. PICK c \in Conns : BecomeAvailable(c)
    BY <1>7
  <2>2. jid_local[c] \in Users
    BY <2>1 DEF BecomeAvailable, Named, TypeOK
  <2>3. CASE available[c]
    BY <2>1, <2>3 DEF BecomeAvailable, Kinds, Quiet, TypeOK
  <2>4. CASE ~available[c]
    <3>1. HandsOver(c, jid_local[c])
      BY <2>1, <2>4 DEF BecomeAvailable, HandsOver
    <3> QED
      BY <2>2, <3>1 DEF Kinds
  <2> QED
    BY <2>3, <2>4
<1>8. CASE \E c \in Conns, u \in Users : DeliverNow(c, u)
  <2>1. PICK c \in Conns, u \in Users : DeliverNow(c, u)
    BY <1>8
  <2>2. FindByJid(u) \in Conns /\ jid_local[FindByJid(u)] = u
    BY <2>1, FindByJidProperties DEF DeliverNow
  <2>3. Queues(FindByJid(u), u)
    BY <2>1, <2>2 DEF DeliverNow, Send, Queues
  <2> QED
    BY <2>2, <2>3 DEF Kinds
<1>9. CASE \E c \in Conns, u \in Users : message_store_offline(c, u)
  <2>1. PICK c \in Conns, u \in Users : message_store_offline(c, u)
    BY <1>9
  <2>2. PICK n \in 0..MaxMsgs : IsNextSeq(u, n) /\ offline' = WithFile(u, n, New)
    BY <2>1 DEF message_store_offline
  <2>3. Stores(u, n)
    BY <2>1, <2>2 DEF message_store_offline, Send, Stores, sessVars
  <2>4. n \in Nat \ {0}
    BY <2>2, ConstAssumption DEF IsNextSeq, TypeOK, Files
  <2> QED
    BY <2>3, <2>4 DEF Kinds
<1>10. CASE \E c \in Conns, u \in Users : NotStored(c, u)
  BY <1>10 DEF NotStored, Send, Drops, sessVars, Kinds
<1>11. CASE Dying
  BY <1>11, DyingDies DEF Kinds
<1>12. CASE \E c \in Conns : RemoveAccount(c)
  <2>1. PICK c \in Conns : RemoveAccount(c)
    BY <1>12
  <2>2. jid_local[c] \in Users
    BY <2>1 DEF RemoveAccount, TypeOK
  <2>3. Removes(jid_local[c])
    BY <2>1 DEF RemoveAccount, sessVars, Removes
  <2> QED
    BY <2>2, <2>3 DEF Kinds
<1> QED
  BY <1>1, <1>2, <1>3, <1>4, <1>5, <1>6, <1>7, <1>8, <1>9, <1>10, <1>11, <1>12 DEF Next, Serving

(* A new file is in no way of the others, and numbers start at 1. *)
LEMMA WithFileProperties ==
  ASSUME TypeOK, Finite, NEW u \in Users, NEW n \in 0..MaxMsgs, IsNextSeq(u, n),
         NEW m \in Msgs \cup {TORN}, offline' = WithFile(u, n, m)
  PROVE  /\ offline' \in [Users -> SUBSET Files]
         /\ Finite'
         /\ offline' = [offline EXCEPT ![u] = @ \cup {[seq |-> n, msg |-> m]}]
         /\ [seq |-> n, msg |-> m] \notin offline[u]
<1> DEFINE f == [seq |-> n, msg |-> m]
<1>1. n \in Nat \ {0}
  BY ConstAssumption DEF IsNextSeq, TypeOK, Files
<1>2. f \in Files
  BY <1>1 DEF Files
<1>3. \A g \in offline[u] : g.seq # n
  BY <1>1 DEF IsNextSeq, TypeOK, Files
<1>4. {g \in offline[u] : g.seq # n} = offline[u]
  BY <1>3
<1>5. offline' = [offline EXCEPT ![u] = @ \cup {f}]
  BY <1>4 DEF WithFile, TypeOK
<1>6. offline' \in [Users -> SUBSET Files]
  BY <1>2, <1>5 DEF TypeOK
<1>7. Finite'
  <2>1. \A v \in Users : IsFiniteSet(offline[v]) /\ IsFiniteSet(offline[v] \cup {f})
    BY FS_AddElement DEF Finite
  <2>2. \A v \in Users : offline'[v] = offline[v] \/ offline'[v] = offline[v] \cup {f}
    BY <1>5 DEF TypeOK
  <2> QED
    BY <2>1, <2>2 DEF Finite
<1> QED
  BY <1>3, <1>5, <1>6, <1>7

(* Fewer files. *)
LEMMA FewerFiles ==
  ASSUME TypeOK, Finite, NEW u \in Users, NEW D, offline' = [offline EXCEPT ![u] = @ \ D]
  PROVE  offline' \in [Users -> SUBSET Files] /\ Finite'
<1>1. \A v \in Users : offline'[v] \in SUBSET offline[v]
  BY DEF TypeOK
<1> QED
  BY <1>1, FS_Subset DEF Finite, TypeOK

(* A death leaves no session, whatever was in them. *)
LEMMA DeathTypes ==
  ASSUME TypeOK, Death
  PROVE  /\ tab' \in Seq(Conns) /\ Len(tab') < MAX_CLIENTS
         /\ jid_local' = [c \in Conns |-> NONE]
         /\ established' = [c \in Conns |-> FALSE]
         /\ available' = [c \in Conns |-> FALSE]
         /\ write_buf' = [c \in Conns |-> << >>]
         /\ got' = got /\ run' \in {0, 1}
<1>1. tab' = << >> /\ Len(tab') = 0
  BY DEF Death
<1>2. /\ jid_local' = [c \in Conns |-> NONE]
      /\ write_buf' = [c \in Conns |-> << >>]
      /\ got' = got
  BY DEF Death, Fresh
<1>3. established' = [c \in Conns |-> FALSE] /\ available' = [c \in Conns |-> FALSE]
  BY DEF Death, Fresh
<1>4. run' \in {0, 1}
  BY DEF Death, TypeOK
<1> QED
  BY <1>1, <1>2, <1>3, <1>4, ConstAssumption

(* What is written out of a buffer are messages. *)
LEMMA WrittenProperties ==
  ASSUME TypeOK, NEW c \in Conns, NEW k \in 0..Len(write_buf[c])
  PROVE  /\ Written(c, k) \subseteq Msgs
         /\ \A m \in Written(c, k) : \E i \in Queue(c) : m = write_buf[c][i]
<1>1. write_buf[c] \in Seq(Msgs) /\ Len(write_buf[c]) \in Nat
  BY DEF TypeOK
<1>2. \A i \in Queue(c) : write_buf[c][i] \in Msgs
  BY <1>1, ElementOfSeq DEF Queue
<1>3. 1..k \subseteq Queue(c)
  BY <1>1 DEF Queue
<1> QED
  BY <1>2, <1>3 DEF Written

(* A message that is sent is a message. *)
LEMMA SendProperties ==
  ASSUME TypeOK, NEW u \in Users, Len(to) < MaxMsgs, to' = Append(to, u)
  PROVE  /\ New \in Msgs /\ New \notin Sent
         /\ to' \in Seq(Users) /\ Len(to') = New /\ Len(to') <= MaxMsgs
         /\ to'[New] = u /\ \A m \in Sent : to'[m] = to[m]
<1>1. to \in Seq(Users) /\ Len(to) \in Nat
  BY DEF TypeOK
<1>2. /\ to' \in Seq(Users) /\ Len(to') = Len(to) + 1
      /\ \A i \in 1..Len(to) : to'[i] = to[i]
      /\ to'[Len(to) + 1] = u
  BY <1>1, AppendProperties
<1> QED
  BY <1>1, <1>2, ConstAssumption DEF New, Msgs, Sent

(* Types are kept. *)
LEMMA TypeStep == ASSUME TypeOK, Named, Finite, [Next]_vars PROVE TypeOK' /\ Finite'
<1>1. CASE UNCHANGED vars
  BY <1>1 DEF vars, sessVars, TypeOK, Finite
<1>2. CASE \E c \in Conns : Accept(c)
  <2>1. PICK c \in Conns : Accept(c)
    BY <1>2
  <2>2. tab \in Seq(Conns) /\ tab' = Append(tab, c) /\ Len(tab) < MAX_CLIENTS - 1
    BY <2>1 DEF Accept, Table!Add, TypeOK
  <2>3. tab' \in Seq(Conns) /\ Len(tab') < MAX_CLIENTS
    BY <2>2, AppendProperties, LenProperties, ConstAssumption
  <2> QED
    BY <2>1, <2>3 DEF Accept, sessVars, TypeOK, Finite
<1>3. CASE \E c \in Conns : session_handle_session_iq(c) \/ BecomeUnavailable(c)
  BY <1>3 DEF session_handle_session_iq, BecomeUnavailable, TypeOK, Finite
<1>4. CASE (\E c \in Conns, u \in Users : Authenticate(c, u)) \/ \E u \in Users : user_create(u)
  BY <1>4 DEF Authenticate, user_create, sessVars, TypeOK, Finite
<1>5. CASE \E c \in Conns : session_flush(c)
  <2>1. PICK c \in Conns : session_flush(c)
    BY <1>5
  <2>2. write_buf[c] \in Seq(Msgs) /\ write_buf[c] # << >>
    BY <2>1 DEF session_flush, TypeOK
  <2>3. Tail(write_buf[c]) \in Seq(Msgs) /\ 1 \in 0..Len(write_buf[c])
    BY <2>2, HeadTailProperties, EmptySeq
  <2>4. write_buf' \in [Conns -> Seq(Msgs)]
    BY <2>1, <2>3 DEF session_flush, TypeOK
  <2>5. got' \subseteq Msgs
    BY <2>1, <2>3, WrittenProperties DEF session_flush, TypeOK
  <2> QED
    BY <2>1, <2>4, <2>5 DEF session_flush, TypeOK, Finite
<1>6. CASE \E c \in Conns : session_teardown(c)
  <2>0. PICK c \in Conns : session_teardown(c)
    BY <1>6
  <2>1. PICK k \in 0..Len(write_buf[c]) :
          /\ Table!Remove(c) /\ Fresh({c})
          /\ got' = got \cup Written(c, k)
          /\ UNCHANGED <<offline, accounts, to, run>>
    BY <2>0 DEF session_teardown
  <2>2. tab' \in Seq(Conns) /\ Len(tab') = Len(tab) - 1
    BY <2>1, SwapRemoveProperties DEF Table!Remove, Table!Members, TypeOK
  <2>3. got' \subseteq Msgs
    BY <2>1, WrittenProperties DEF TypeOK
  <2>4. /\ jid_local' \in [Conns -> Users \cup {NONE}]
        /\ write_buf' \in [Conns -> Seq(Msgs)]
    BY <2>1, EmptySeq DEF Fresh, TypeOK
  <2>5. established' \in [Conns -> BOOLEAN] /\ available' \in [Conns -> BOOLEAN]
    BY <2>1 DEF Fresh, TypeOK
  <2> QED
    BY <2>1, <2>2, <2>3, <2>4, <2>5, ConstAssumption DEF TypeOK, Finite
<1>7. CASE \E c \in Conns : session_handle_bind(c)
  <2>1. PICK c \in Conns : session_handle_bind(c)
    BY <1>7
  <2> DEFINE x == FindByJid(jid_local[c])
  <2>2. jid_local[c] \in Users /\ c \in InTable
    BY <2>1 DEF session_handle_bind, TypeOK, Named
  <2>3. x \in Conns /\ x \in InTable
    BY <2>2, FindByJidProperties
  <2>4. CASE x = c
    BY <2>1, <2>4 DEF session_handle_bind, TypeOK, Finite
  <2>5. CASE x # c
    <3>1. PICK k \in 0..Len(write_buf[x]) :
            /\ tab' = Table!SwapRemove(tab, x)
            /\ jid_local' = [jid_local EXCEPT ![x] = NONE]
            /\ established' = [established EXCEPT ![x] = FALSE, ![c] = TRUE]
            /\ available' = [available EXCEPT ![x] = FALSE]
            /\ write_buf' = [write_buf EXCEPT ![x] = << >>]
            /\ got' = got \cup Written(x, k)
            /\ UNCHANGED <<offline, accounts, to, run>>
      BY <2>1, <2>5 DEF session_handle_bind
    <3> HIDE DEF x
    <3>2. tab' \in Seq(Conns) /\ Len(tab') = Len(tab) - 1
      BY <2>3, <3>1, SwapRemoveProperties DEF InTable, TypeOK
    <3>3. got' \subseteq Msgs
      BY <2>3, <3>1, WrittenProperties DEF TypeOK
    <3>4. /\ jid_local' \in [Conns -> Users \cup {NONE}]
          /\ write_buf' \in [Conns -> Seq(Msgs)]
      BY <3>1, EmptySeq DEF TypeOK
    <3>5. established' \in [Conns -> BOOLEAN] /\ available' \in [Conns -> BOOLEAN]
      BY <3>1 DEF TypeOK
    <3>6. Len(tab') < MAX_CLIENTS
      BY <3>2, ConstAssumption, LenProperties DEF TypeOK
    <3>7. Finite'
      BY <3>1 DEF Finite
    <3> QED
      BY <3>1, <3>2, <3>3, <3>4, <3>5, <3>6, <3>7 DEF TypeOK
  <2> QED
    BY <2>4, <2>5
<1>8. CASE \E c \in Conns : BecomeAvailable(c)
  <2>1. PICK c \in Conns : BecomeAvailable(c)
    BY <1>8
  <2>2. jid_local[c] \in Users
    BY <2>1 DEF BecomeAvailable, Named, TypeOK
  <2>3. CASE available[c]
    BY <2>1, <2>3 DEF BecomeAvailable, TypeOK, Finite
  <2>4. CASE ~available[c]
    <3>0. PICK T \in Taken(jid_local[c]) : \E d \in Orders(Readable(T)) :
            /\ write_buf' = [write_buf EXCEPT ![c] = @ \o Texts(d)]
            /\ offline' = [offline EXCEPT ![jid_local[c]] = @ \ T]
      BY <2>1, <2>4 DEF BecomeAvailable, message_deliver_offline
    <3>1. PICK d \in Orders(Readable(T)) :
            /\ write_buf' = [write_buf EXCEPT ![c] = @ \o Texts(d)]
            /\ offline' = [offline EXCEPT ![jid_local[c]] = @ \ T]
      BY <3>0
    <3>2. write_buf' \in [Conns -> Seq(Msgs)]
      <4>1. Texts(d) \in Seq(Msgs) /\ write_buf[c] \in Seq(Msgs)
        BY <2>2, TextsProperties DEF TypeOK
      <4> QED
        BY <3>1, <4>1, ConcatProperties DEF TypeOK
    <3>3. offline' \in [Users -> SUBSET Files] /\ Finite'
      BY <2>2, <3>1, FewerFiles
    <3> QED
      BY <2>1, <3>2, <3>3 DEF BecomeAvailable, TypeOK
  <2> QED
    BY <2>3, <2>4
<1>9. CASE \E c \in Conns, u \in Users :
             DeliverNow(c, u)
  <2>1. PICK c \in Conns, u \in Users : DeliverNow(c, u)
    BY <1>9
  <2>2. FindByJid(u) \in Conns
    BY <2>1, FindByJidProperties DEF DeliverNow
  <2>3. New \in Msgs /\ to' \in Seq(Users) /\ Len(to') <= MaxMsgs
    BY <2>1, SendProperties DEF DeliverNow, Send
  <2>4. write_buf' \in [Conns -> Seq(Msgs)]
    BY <2>1, <2>2, <2>3, AppendProperties DEF DeliverNow, TypeOK
  <2> QED
    BY <2>1, <2>3, <2>4 DEF DeliverNow, TypeOK, Finite
<1>10. CASE \E c \in Conns, u \in Users : message_store_offline(c, u)
  <2>1. PICK c \in Conns, u \in Users : message_store_offline(c, u)
    BY <1>10
  <2>2. New \in Msgs /\ to' \in Seq(Users) /\ Len(to') <= MaxMsgs
    BY <2>1, SendProperties DEF message_store_offline, Send
  <2>3. offline' \in [Users -> SUBSET Files] /\ Finite'
    BY <2>1, <2>2, WithFileProperties DEF message_store_offline
  <2> QED
    BY <2>1, <2>2, <2>3 DEF message_store_offline, sessVars, TypeOK
<1>11. CASE \E c \in Conns, u \in Users : NotStored(c, u)
  BY <1>11, SendProperties DEF NotStored, Send, sessVars, TypeOK, Finite
<1>12. CASE Dying
  <2>1. Death
    BY <1>12 DEF Dying, Crash, CrashStoring, CrashDelivering, CrashRemoving
  <2>2. to' \in Seq(Users) /\ Len(to') <= MaxMsgs
    BY <1>12, SendProperties
       DEF Dying, Crash, CrashDelivering, CrashRemoving, CrashStoring, Send, TypeOK
  <2>6. accounts' \in SUBSET Users
    BY <1>12 DEF Dying, Crash, CrashDelivering, CrashRemoving, CrashStoring, TypeOK
  <2>3. offline' \in [Users -> SUBSET Files] /\ Finite'
    <3>1. CASE Crash
      BY <3>1 DEF Crash, TypeOK, Finite
    <3>2. CASE \E c \in Conns : CrashDelivering(c)
      <4>1. PICK c \in Conns : CrashDelivering(c)
        BY <3>2
      <4>2. jid_local[c] \in Users
        BY <4>1 DEF CrashDelivering, Named, TypeOK
      <4>3. PICK D : offline' = [offline EXCEPT ![jid_local[c]] = @ \ D]
        BY <4>1 DEF CrashDelivering
      <4> QED
        BY <4>2, <4>3, FewerFiles
    <3>3. CASE \E c \in Conns, u \in Users : CrashStoring(c, u)
      <4>1. PICK c \in Conns, u \in Users, n \in 0..MaxMsgs :
              IsNextSeq(u, n) /\ offline' = WithFile(u, n, TORN)
        BY <3>3 DEF CrashStoring
      <4> QED
        BY <4>1, WithFileProperties
    <3>4. CASE \E c \in Conns : CrashRemoving(c)
      <4>1. PICK c \in Conns : CrashRemoving(c)
        BY <3>4
      <4>2. jid_local[c] \in Users
        BY <4>1 DEF CrashRemoving, TypeOK
      <4>3. PICK kept \in SUBSET offline[jid_local[c]] :
              offline' = [offline EXCEPT ![jid_local[c]] = kept]
        BY <4>1 DEF CrashRemoving
      <4>4. offline' = [offline EXCEPT ![jid_local[c]] = @ \ (@ \ kept)]
        BY <4>3
      <4> QED
        BY <4>2, <4>4, FewerFiles
    <3> QED
      BY <1>12, <3>1, <3>2, <3>3, <3>4 DEF Dying
  <2>4. /\ jid_local' \in [Conns -> Users \cup {NONE}]
        /\ write_buf' \in [Conns -> Seq(Msgs)]
    <3>1. jid_local' = [c \in Conns |-> NONE] /\ write_buf' = [c \in Conns |-> << >>]
      BY <2>1, DeathTypes
    <3>2. jid_local' \in [Conns -> Users \cup {NONE}]
      BY <3>1
    <3>3. << >> \in Seq(Msgs)
      BY EmptySeq
    <3>4. write_buf' \in [Conns -> Seq(Msgs)]
      BY <3>1, <3>3
    <3> QED
      BY <3>2, <3>4
  <2>5. established' \in [Conns -> BOOLEAN] /\ available' \in [Conns -> BOOLEAN]
    BY <2>1, DeathTypes
  <2> QED
    BY <2>1, <2>2, <2>3, <2>4, <2>5, <2>6, DeathTypes DEF TypeOK
<1>13. CASE \E c \in Conns : RemoveAccount(c)
  <2>1. PICK c \in Conns : RemoveAccount(c)
    BY <1>13
  <2>2. jid_local[c] \in Users
    BY <2>1 DEF RemoveAccount, TypeOK
  <2>3. offline' = [offline EXCEPT ![jid_local[c]] = @ \ @]
    BY <2>1 DEF RemoveAccount
  <2>4. offline' \in [Users -> SUBSET Files] /\ Finite'
    BY <2>2, <2>3, FewerFiles
  <2> QED
    BY <2>1, <2>4 DEF RemoveAccount, sessVars, TypeOK
<1> QED
  BY <1>1, <1>2, <1>3, <1>4, <1>5, <1>6, <1>7, <1>8, <1>9, <1>10, <1>11, <1>12, <1>13
     DEF Next, Serving

(* Whoever is not taken out stays. *)
LEMMA OthersStay ==
  ASSUME TypeOK, NEW c \in InTable, tab' = Table!SwapRemove(tab, c)
  PROVE  InTable \ {c} \subseteq InTable'
<1>1. tab \in Seq(Conns) /\ c \in {tab[k] : k \in DOMAIN tab}
  BY DEF InTable, TypeOK
<1>2. \A d \in {tab[k] : k \in DOMAIN tab} \ {c} : \E k \in DOMAIN tab' : tab'[k] = d
  BY <1>1, SwapRemoveProperties
<1> QED
  BY <1>2 DEF InTable

(* Names. *)
LEMMA NamedStep == ASSUME TypeOK, Named, Finite, [Next]_vars PROVE Named'
<1> USE DEF Named
<1>1. CASE UNCHANGED vars
  BY <1>1 DEF vars, sessVars, InTable
<1>2. CASE \E c \in Conns : Accept(c)
  <2>1. PICK c \in Conns : Accept(c)
    BY <1>2
  <2>2. InTable \subseteq InTable'
    <3>1. tab \in Seq(Conns) /\ tab' = Append(tab, c)
      BY <2>1 DEF Accept, Table!Add, TypeOK
    <3>2. \A k \in DOMAIN tab : k \in DOMAIN tab' /\ tab'[k] = tab[k]
      BY <3>1, LenProperties, AppendProperties
    <3> QED
      BY <3>2 DEF InTable
  <2> QED
    BY <2>1, <2>2 DEF Accept, sessVars
<1>3. CASE \E c \in Conns : session_handle_session_iq(c) \/ BecomeUnavailable(c)
  <2>1. PICK c \in Conns : session_handle_session_iq(c) \/ BecomeUnavailable(c)
    BY <1>3
  <2>2. InTable' = InTable /\ jid_local' = jid_local
    BY <2>1 DEF session_handle_session_iq, BecomeUnavailable, InTable
  <2>3. CASE session_handle_session_iq(c)
    BY <2>2, <2>3 DEF session_handle_session_iq, TypeOK
  <2>4. CASE BecomeUnavailable(c)
    BY <2>2, <2>4 DEF BecomeUnavailable, TypeOK
  <2> QED
    BY <2>1, <2>3, <2>4
<1>4. CASE \E c \in Conns, u \in Users : Authenticate(c, u)
  BY <1>4, ConstAssumption DEF Authenticate, TypeOK, InTable
<1>5. CASE \E c \in Conns : session_flush(c)
  BY <1>5 DEF session_flush, InTable
<1>6. CASE \E c \in Conns : session_teardown(c)
  <2>1. PICK c \in Conns : session_teardown(c)
    BY <1>6
  <2>2. c \in InTable /\ tab' = Table!SwapRemove(tab, c) /\ Fresh({c})
    BY <2>1 DEF session_teardown, Table!Remove, Table!Members, InTable
  <2>3. InTable \ {c} \subseteq InTable'
    BY <2>2, OthersStay
  <2>4. \A d \in Conns : /\ jid_local'[d] = IF d = c THEN NONE ELSE jid_local[d]
                         /\ established'[d] <=> established[d] /\ d # c
                         /\ available'[d] <=> available[d] /\ d # c
    BY <2>2 DEF Fresh
  <2> QED
    BY <2>3, <2>4
<1>7. CASE \E c \in Conns : session_handle_bind(c)
  <2>1. PICK c \in Conns : session_handle_bind(c)
    BY <1>7
  <2> DEFINE x == FindByJid(jid_local[c])
  <2>2. jid_local[c] \in Users /\ c \in InTable
    BY <2>1 DEF session_handle_bind, TypeOK
  <2>3. x \in Conns /\ x \in InTable
    BY <2>2, FindByJidProperties
  <2>4. CASE x = c
    <3>1. InTable' = InTable /\ jid_local' = jid_local /\ available' = available
      BY <2>1, <2>4 DEF session_handle_bind, InTable
    <3>2. established' = [established EXCEPT ![c] = TRUE]
      BY <2>1, <2>4 DEF session_handle_bind
    <3> QED
      BY <2>2, <3>1, <3>2, ConstAssumption DEF TypeOK
  <2>5. CASE x # c
    <3>0. tab' = Table!SwapRemove(tab, x)
      BY <2>1, <2>5 DEF session_handle_bind
    <3>1. /\ jid_local' = [jid_local EXCEPT ![x] = NONE]
          /\ established' = [established EXCEPT ![x] = FALSE, ![c] = TRUE]
          /\ available' = [available EXCEPT ![x] = FALSE]
      BY <2>1, <2>5 DEF session_handle_bind
    <3> HIDE DEF x
    <3>2. InTable \ {x} \subseteq InTable'
      BY <2>3, <3>0, OthersStay
    <3> QED
      BY <2>2, <2>3, <2>5, <3>1, <3>2, ConstAssumption DEF TypeOK
  <2> QED
    BY <2>4, <2>5
<1>8. CASE \E c \in Conns : BecomeAvailable(c)
  BY <1>8 DEF BecomeAvailable, InTable, TypeOK
<1>9. CASE \E c \in Conns, u \in Users :
             DeliverNow(c, u) \/ message_store_offline(c, u) \/ NotStored(c, u)
  BY <1>9 DEF DeliverNow, message_store_offline, NotStored, sessVars, InTable
<1>10. CASE Dying
  <2>1. Death
    BY <1>10 DEF Dying, Crash, CrashStoring, CrashDelivering, CrashRemoving
  <2> QED
    BY <2>1, DeathTypes
<1>11. CASE (\E c \in Conns : RemoveAccount(c)) \/ \E u \in Users : user_create(u)
  BY <1>11 DEF RemoveAccount, user_create, sessVars, InTable
<1> QED
  BY <1>1, <1>2, <1>3, <1>4, <1>5, <1>6, <1>7, <1>8, <1>9, <1>10, <1>11 DEF Next, Serving
-----------------------------------------------------------------------------
(* The n files d of T go, in this order, to the end of the buffer of c. *)
Handed(c, u, T, d, n) ==
  /\ n \in Nat
  /\ T \subseteq offline[u]
  /\ \A i \in 1..n : d[i] \in Readable(T)
  /\ \A f \in Readable(T) : \E i \in 1..n : d[i] = f
  /\ \A i, j \in 1..n : d[i] = d[j] => i = j
  /\ \A i, j \in 1..n : i < j => NameLess(d[i].seq, d[j].seq)
  /\ Len(write_buf'[c]) = Len(write_buf[c]) + n
  /\ \A i \in 1..Len(write_buf[c]) : write_buf'[c][i] = write_buf[c][i]
  /\ \A i \in 1..n : write_buf'[c][Len(write_buf[c]) + i] = d[i].msg
  /\ \A e \in Conns \ {c} : write_buf'[e] = write_buf[e]
  /\ offline' = [offline EXCEPT ![u] = @ \ T]

(* message_deliver_offline does this, and nothing else. *)
LEMMA HandsOverProperties ==
  ASSUME TypeOK, Finite, NEW c \in Conns, NEW u \in Users, HandsOver(c, u)
  PROVE  \E T, d, n : Handed(c, u, T, d, n)
<1>0. PICK T \in Taken(u) : \E d \in Orders(Readable(T)) :
        /\ write_buf' = [write_buf EXCEPT ![c] = @ \o Texts(d)]
        /\ offline' = [offline EXCEPT ![u] = @ \ T]
  BY DEF HandsOver, message_deliver_offline
<1>1. PICK d \in Orders(Readable(T)) :
        /\ write_buf' = [write_buf EXCEPT ![c] = @ \o Texts(d)]
        /\ offline' = [offline EXCEPT ![u] = @ \ T]
  BY <1>0
<1> DEFINE n == Len(Texts(d))
           b == write_buf[c]
<1>2. /\ T \subseteq offline[u] /\ Texts(d) \in Seq(Msgs) /\ DOMAIN d = 1..n
      /\ \A i \in DOMAIN d : d[i] \in Readable(T) /\ Texts(d)[i] = d[i].msg
      /\ \A f \in Readable(T) : \E i \in DOMAIN d : d[i] = f
      /\ \A i, j \in DOMAIN d : d[i] = d[j] => i = j
      /\ \A i, j \in DOMAIN d : i < j => NameLess(d[i].seq, d[j].seq)
  BY TextsProperties
<1>3. b \in Seq(Msgs) /\ Len(b) \in Nat /\ n \in Nat
  BY <1>2, LenProperties DEF TypeOK
<1>4. write_buf'[c] = b \o Texts(d) /\ \A e \in Conns \ {c} : write_buf'[e] = write_buf[e]
  BY <1>1 DEF TypeOK
<1>5. /\ Len(write_buf'[c]) = Len(b) + n
      /\ \A i \in 1..(Len(b) + n) :
           write_buf'[c][i] = IF i <= Len(b) THEN b[i] ELSE Texts(d)[i - Len(b)]
  BY <1>2, <1>3, <1>4, ConcatProperties
<1>6. \A i \in 1..Len(b) : write_buf'[c][i] = b[i]
  BY <1>3, <1>5
<1>7. \A i \in 1..n : write_buf'[c][Len(b) + i] = d[i].msg
  <2> SUFFICES ASSUME NEW i \in 1..n PROVE write_buf'[c][Len(b) + i] = d[i].msg
    OBVIOUS
  <2> HIDE DEF n, b
  <2>1. Len(b) + i \in 1..(Len(b) + n) /\ ~(Len(b) + i <= Len(b)) /\ (Len(b) + i) - Len(b) = i
    BY <1>3
  <2>2. write_buf'[c][Len(b) + i] = Texts(d)[i]
    BY <1>5, <2>1
  <2> QED
    BY <1>2, <2>2
<1>8. Handed(c, u, T, d, n)
  BY <1>1, <1>2, <1>3, <1>4, <1>5, <1>6, <1>7 DEF Handed
<1> QED
  BY <1>8

(* A buffer that gets one more message. *)
LEMMA QueuesProperties ==
  ASSUME TypeOK, NEW x \in Conns, NEW u \in Users, Queues(x, u)
  PROVE  /\ Len(write_buf'[x]) = Len(write_buf[x]) + 1
         /\ \A i \in 1..Len(write_buf[x]) : write_buf'[x][i] = write_buf[x][i]
         /\ write_buf'[x][Len(write_buf[x]) + 1] = New
         /\ \A e \in Conns \ {x} : write_buf'[e] = write_buf[e]
<1>1. write_buf[x] \in Seq(Msgs) /\ New \in Msgs
  BY SendProperties DEF Queues, TypeOK
<1>2. /\ write_buf'[x] = Append(write_buf[x], New)
      /\ \A e \in Conns \ {x} : write_buf'[e] = write_buf[e]
  BY DEF Queues, TypeOK
<1> QED
  BY <1>1, <1>2, AppendProperties

(* A buffer that loses its first message. *)
LEMMA FlushProperties ==
  ASSUME TypeOK, NEW c \in Conns, session_flush(c)
  PROVE  /\ Len(write_buf[c]) \in Nat \ {0}
         /\ Len(write_buf'[c]) = Len(write_buf[c]) - 1
         /\ \A i \in 1..Len(write_buf'[c]) : write_buf'[c][i] = write_buf[c][i + 1]
         /\ \A e \in Conns \ {c} : write_buf'[e] = write_buf[e]
         /\ got' = got \cup {write_buf[c][1]}
<1>1. write_buf[c] \in Seq(Msgs) /\ write_buf[c] # << >>
  BY DEF session_flush, TypeOK
<1>2. write_buf'[c] = Tail(write_buf[c]) /\ \A e \in Conns \ {c} : write_buf'[e] = write_buf[e]
  BY DEF session_flush, TypeOK
<1>3. got' = got \cup {write_buf[c][1]}
  BY DEF session_flush, Written
<1> QED
  BY <1>1, <1>2, <1>3, HeadTailProperties, EmptySeq

(* Where message k of the buffer of e was before a flush of c. *)
At(c, e, k) == IF e = c THEN k + 1 ELSE k

(* After a flush the messages left are the same ones, in the same order. *)
LEMMA FlushMoves ==
  ASSUME TypeOK, NEW c \in Conns, session_flush(c), NEW e \in Conns, NEW k \in Queue(e)'
  PROVE  /\ At(c, e, k) \in Queue(e)
         /\ write_buf'[e][k] = write_buf[e][At(c, e, k)]
         /\ e = c => At(c, e, k) # 1
<1>0. Len(write_buf[e]) \in Nat
  BY LenProperties DEF TypeOK
<1>1. CASE e = c
  BY <1>0, <1>1, FlushProperties DEF Queue, At
<1>2. CASE e # c
  BY <1>0, <1>2, FlushProperties DEF Queue, At
<1> QED
  BY <1>1, <1>2

(* Where the contents of a buffer come from. *)
LEMMA BufferOrigin ==
  ASSUME TypeOK, Finite, Kinds, NEW a \in Conns, NEW i \in Queue(a)'
  PROVE  \/ \E j \in Queue(a) : write_buf'[a][i] = write_buf[a][j]
         \/ \E u \in Users :
              jid_local[a] = u /\ \E f \in Readable(offline[u]) : write_buf'[a][i] = f.msg
         \/ \E u \in Users : Queues(a, u) /\ write_buf'[a][i] = New
<1> USE DEF Queue
<1>0. \A e \in Conns : Len(write_buf[e]) \in Nat
  BY LenProperties DEF TypeOK
<1>1. CASE write_buf'[a] = write_buf[a]
  BY <1>1
<1>2. ASSUME NEW c \in Conns, Flushes(c)
      PROVE  \E j \in Queue(a) : write_buf'[a][i] = write_buf[a][j]
  BY <1>2, FlushMoves DEF Flushes
<1>3. ASSUME NEW x \in Conns, NEW k \in 0..Len(write_buf[x]), Ends(x, k)
      PROVE  write_buf'[a] = write_buf[a]
  <2>1. a # x
    <3> SUFFICES ASSUME a = x PROVE FALSE
      OBVIOUS
    <3>1. write_buf'[a] = << >>
      BY <1>3 DEF Ends, TypeOK
    <3> QED
      BY <3>1
  <2> QED
    BY <1>3, <2>1 DEF Ends, TypeOK
<1>4. ASSUME NEW x \in Conns, NEW u \in Users, Queues(x, u)
      PROVE  \/ \E j \in Queue(a) : write_buf'[a][i] = write_buf[a][j]
             \/ Queues(a, u) /\ write_buf'[a][i] = New
  <2>1. CASE a # x
    BY <1>4, <2>1, QueuesProperties
  <2>2. CASE a = x /\ i \in 1..Len(write_buf[a])
    BY <1>4, <2>2, QueuesProperties
  <2>3. CASE a = x /\ i = Len(write_buf[a]) + 1
    BY <1>4, <2>3, QueuesProperties
  <2>4. a = x => i \in 1..(Len(write_buf[a]) + 1)
    BY <1>4, QueuesProperties
  <2> QED
    BY <1>0, <2>1, <2>2, <2>3, <2>4
<1>5. ASSUME NEW c \in Conns, NEW u \in Users, HandsOver(c, u)
      PROVE  \/ \E j \in Queue(a) : write_buf'[a][i] = write_buf[a][j]
             \/ jid_local[a] = u /\ \E f \in Readable(offline[u]) : write_buf'[a][i] = f.msg
  <2>1. PICK T, d, n : Handed(c, u, T, d, n)
    BY <1>5, HandsOverProperties
  <2>2. CASE a # c
    BY <2>1, <2>2 DEF Handed
  <2>3. CASE a = c /\ i \in 1..Len(write_buf[a])
    BY <2>1, <2>3 DEF Handed
  <2>4. CASE a = c /\ i \notin 1..Len(write_buf[a])
    <3> DEFINE h == i - Len(write_buf[a])
    <3>0. i \in 1..(Len(write_buf[a]) + n) /\ n \in Nat
      BY <2>1, <2>4 DEF Handed
    <3>1. h \in 1..n /\ i = Len(write_buf[a]) + h
      BY <1>0, <2>4, <3>0
    <3>2. write_buf'[a][i] = d[h].msg /\ d[h] \in Readable(T) /\ T \subseteq offline[u]
      BY <2>1, <2>4, <3>1 DEF Handed
    <3>3. d[h] \in Readable(offline[u])
      BY <3>2 DEF Readable
    <3>4. jid_local[a] = u
      BY <1>5, <2>4 DEF HandsOver
    <3> QED
      BY <3>2, <3>3, <3>4
  <2> QED
    BY <2>2, <2>3, <2>4
<1>6. ASSUME Dies PROVE FALSE
  BY <1>6 DEF Dies
<1> QED
  BY <1>1, <1>2, <1>3, <1>4, <1>5, <1>6 DEF Kinds, Quiet, Stores, Drops, Removes

(* What was sent stays so. *)
LEMMA SentKept ==
  ASSUME TypeOK, Kinds
  PROVE  Sent \subseteq Sent' /\ \A m \in Sent : to'[m] = to[m]
<1>0. Len(to) \in Nat
  BY LenProperties DEF TypeOK
<1>1. CASE to' = to
  BY <1>1 DEF Sent
<1>2. ASSUME NEW u \in Users, Len(to) < MaxMsgs, to' = Append(to, u)
      PROVE  Sent \subseteq Sent' /\ \A m \in Sent : to'[m] = to[m]
  BY <1>0, <1>2, SendProperties DEF Sent, New
<1>3. to' = to \/ \E u \in Users : Len(to) < MaxMsgs /\ to' = Append(to, u)
  BY DEF Kinds, Quiet, Flushes, session_flush, Ends, Queues, Stores, Drops, HandsOver, Removes, Dies
<1> QED
  BY <1>1, <1>2, <1>3

(* Where readable files come from. *)
LEMMA FileOrigin ==
  ASSUME TypeOK, Finite, Kinds, NEW u \in Users, NEW f \in Readable(offline'[u])
  PROVE  \/ f \in Readable(offline[u])
         \/ \E n \in Nat \ {0} : Stores(u, n) /\ f = [seq |-> n, msg |-> New]
<1>1. CASE offline' = offline
  BY <1>1
<1>2. ASSUME NEW v \in Users, NEW n \in Nat \ {0}, Stores(v, n)
      PROVE  \/ f \in Readable(offline[u])
             \/ Stores(u, n) /\ f = [seq |-> n, msg |-> New]
  BY <1>2 DEF Stores, WithFile, Readable, TypeOK
<1>3. ASSUME NEW c \in Conns, NEW v \in Users, HandsOver(c, v)
      PROVE  f \in Readable(offline[u])
  <2>1. PICK T, d, n : Handed(c, v, T, d, n)
    BY <1>3, HandsOverProperties
  <2>2. offline' = [offline EXCEPT ![v] = @ \ T]
    BY <2>1 DEF Handed
  <2> QED
    BY <2>2 DEF Readable, TypeOK
<1>4. ASSUME Dies PROVE f \in Readable(offline[u])
  BY <1>4 DEF Dies, Readable
<1>5. ASSUME NEW v \in Users, Removes(v) PROVE f \in Readable(offline[u])
  BY <1>5 DEF Removes, Readable, TypeOK
<1> QED
  BY <1>1, <1>2, <1>3, <1>4, <1>5 DEF Kinds, Quiet, Flushes, session_flush, Ends, Queues, Drops

(* What is passed on was queued. *)
LEMMA GotOrigin ==
  ASSUME TypeOK, Kinds
  PROVE  /\ got \subseteq got'
         /\ \A m \in got' \ got : \E c \in Conns : \E i \in Queue(c) : m = write_buf[c][i]
<1>1. CASE got' = got
  BY <1>1
<1>2. ASSUME NEW c \in Conns, Flushes(c)
      PROVE  /\ got \subseteq got'
             /\ \A m \in got' \ got : \E i \in Queue(c) : m = write_buf[c][i]
  BY <1>2, FlushProperties DEF Flushes, Queue
<1>3. ASSUME NEW x \in Conns, NEW k \in 0..Len(write_buf[x]), Ends(x, k)
      PROVE  /\ got \subseteq got'
             /\ \A m \in got' \ got : \E i \in Queue(x) : m = write_buf[x][i]
  BY <1>3, WrittenProperties DEF Ends
<1> QED
  BY <1>1, <1>2, <1>3 DEF Kinds, Quiet, Queues, Stores, Drops, HandsOver, Removes, Dies

(* A session keeps its name as long as it has something in its buffer. *)
LEMMA NameKept ==
  ASSUME TypeOK, Addressed, Kinds, NEW a \in Conns, Queue(a)' # {}
  PROVE  \/ jid_local'[a] = jid_local[a]
         \/ Quiet /\ Queue(a) = {}
<1>0. Len(to) \in Nat /\ \A m \in Sent : to[m] \in Users
  BY LenProperties, ElementOfSeq DEF TypeOK, Sent
<1>1. CASE Quiet
  <2>1. CASE Queue(a) = {}
    BY <1>1, <2>1
  <2>2. CASE Queue(a) # {}
    <3>1. jid_local[a] # NONE
      BY <1>0, <2>2, ConstAssumption DEF Addressed
    <3> QED
      BY <1>1, <3>1 DEF Quiet
  <2> QED
    BY <2>1, <2>2
<1>2. ASSUME NEW x \in Conns, NEW k \in 0..Len(write_buf[x]), Ends(x, k)
      PROVE  jid_local'[a] = jid_local[a]
  <2>1. a # x
    <3> SUFFICES ASSUME a = x PROVE FALSE
      OBVIOUS
    <3>1. write_buf'[a] = << >>
      BY <1>2 DEF Ends, TypeOK
    <3> QED
      BY <3>1 DEF Queue
  <2> QED
    BY <1>2, <2>1 DEF Ends, TypeOK
<1>3. ASSUME Dies PROVE FALSE
  BY <1>3 DEF Dies, Queue
<1> QED
  BY <1>1, <1>2, <1>3 DEF Kinds, Flushes, session_flush, Queues, Stores, Drops, HandsOver, Removes

(* Addressees. *)
LEMMA AddressedStep == ASSUME TypeOK, Finite, Addressed, Kinds PROVE Addressed'
<1>1. \A m \in Sent : m \in Sent' /\ to'[m] = to[m]
  BY SentKept
<1>2. ASSUME NEW a \in Conns, NEW i \in Queue(a)'
      PROVE  write_buf'[a][i] \in Sent' /\ to'[write_buf'[a][i]] = jid_local'[a]
  <2>1. CASE \E j \in Queue(a) : write_buf'[a][i] = write_buf[a][j]
    <3>1. jid_local'[a] = jid_local[a]
      BY <2>1, NameKept
    <3> QED
      BY <1>1, <2>1, <3>1 DEF Addressed
  <2>2. CASE \E u \in Users :
               jid_local[a] = u /\ \E f \in Readable(offline[u]) : write_buf'[a][i] = f.msg
    <3>1. jid_local[a] # NONE
      BY <2>2, ConstAssumption
    <3>2. jid_local'[a] = jid_local[a]
      BY <3>1, NameKept DEF Quiet
    <3> QED
      BY <1>1, <2>2, <3>2 DEF Addressed
  <2>3. CASE \E u \in Users : Queues(a, u) /\ write_buf'[a][i] = New
    <3>1. PICK u \in Users : Queues(a, u) /\ write_buf'[a][i] = New
      BY <2>3
    <3>2. Len(to') = New /\ to'[New] = u /\ New \in Msgs
      BY <3>1, SendProperties DEF Queues
    <3>3. jid_local'[a] = u
      BY <3>1 DEF Queues
    <3> QED
      BY <3>1, <3>2, <3>3 DEF Sent, Msgs
  <2> QED
    BY <2>1, <2>2, <2>3, BufferOrigin
<1>3. ASSUME NEW u \in Users, NEW f \in Readable(offline'[u])
      PROVE  f.msg \in Sent' /\ to'[f.msg] = u
  <2>1. CASE f \in Readable(offline[u])
    BY <1>1, <2>1 DEF Addressed
  <2>2. CASE \E n \in Nat \ {0} : Stores(u, n) /\ f = [seq |-> n, msg |-> New]
    <3>1. PICK n \in Nat \ {0} : Stores(u, n) /\ f.msg = New
      BY <2>2
    <3>2. Len(to') = New /\ to'[New] = u /\ New \in Msgs
      BY <3>1, SendProperties DEF Stores
    <3> QED
      BY <3>1, <3>2 DEF Sent, Msgs
  <2> QED
    BY <2>1, <2>2, FileOrigin
<1>4. got' \subseteq Sent'
  BY <1>1, GotOrigin DEF Addressed
<1> QED
  BY <1>2, <1>3, <1>4 DEF Addressed

(* Once in the buffers. *)
LEMMA OnceQueuedStep ==
  ASSUME TypeOK, Finite, Addressed, Once, Kinds PROVE OnceQueued'
<1> SUFFICES ASSUME NEW a \in Conns, NEW b \in Conns, NEW i \in Queue(a)', NEW j \in Queue(b)',
                    write_buf'[a][i] = write_buf'[b][j]
             PROVE  a = b /\ i = j
  BY DEF OnceQueued
<1>0. \A e \in Conns : Len(write_buf[e]) \in Nat
  BY LenProperties DEF TypeOK
<1>1. CASE write_buf' = write_buf
  BY <1>1 DEF Once, OnceQueued, Queue
<1>2. ASSUME NEW c \in Conns, Flushes(c) PROVE a = b /\ i = j
  <2>1. /\ At(c, a, i) \in Queue(a) /\ write_buf'[a][i] = write_buf[a][At(c, a, i)]
        /\ At(c, b, j) \in Queue(b) /\ write_buf'[b][j] = write_buf[b][At(c, b, j)]
    BY <1>2, FlushMoves DEF Flushes
  <2>2. a = b /\ At(c, a, i) = At(c, b, j)
    <3>1. write_buf[a][At(c, a, i)] = write_buf[b][At(c, b, j)]
      BY <2>1
    <3> QED
      BY <2>1, <3>1 DEF Once, OnceQueued
  <2>3. i \in Nat /\ j \in Nat
    BY DEF Queue
  <2> QED
    BY <2>2, <2>3 DEF At
<1>3. ASSUME NEW x \in Conns, NEW k \in 0..Len(write_buf[x]), Ends(x, k) PROVE a = b /\ i = j
  <2>1. \A e \in Conns : Queue(e)' # {} => write_buf'[e] = write_buf[e]
    BY <1>3 DEF Ends, TypeOK, Queue
  <2>2. write_buf'[a] = write_buf[a] /\ write_buf'[b] = write_buf[b]
    BY <2>1
  <2> QED
    BY <2>2 DEF Once, OnceQueued, Queue
<1>4. ASSUME NEW x \in Conns, NEW u \in Users, Queues(x, u) PROVE a = b /\ i = j
  <2>1. New \notin Sent
    BY <1>4, SendProperties DEF Queues
  <2>2. ASSUME NEW e \in Conns, NEW k \in Queue(e)'
        PROVE  \/ k \in Queue(e) /\ write_buf'[e][k] = write_buf[e][k] /\ write_buf'[e][k] # New
               \/ e = x /\ k = Len(write_buf[x]) + 1 /\ write_buf'[e][k] = New
    <3>1. CASE e # x \/ k \in Queue(e)
      <4>1. k \in Queue(e) /\ write_buf'[e][k] = write_buf[e][k]
        BY <1>4, <3>1, QueuesProperties DEF Queue
      <4> QED
        BY <2>1, <4>1 DEF Addressed
    <3>2. CASE e = x /\ k \notin Queue(e)
      <4>1. k \in 1..(Len(write_buf[x]) + 1)
        BY <1>4, <3>2, QueuesProperties DEF Queue
      <4>2. k = Len(write_buf[x]) + 1
        BY <1>0, <3>2, <4>1 DEF Queue
      <4> QED
        BY <1>4, <3>2, <4>2, QueuesProperties
    <3> QED
      BY <3>1, <3>2
  <2> QED
    BY <2>2 DEF Once, OnceQueued
<1>5. ASSUME NEW c \in Conns, NEW u \in Users, HandsOver(c, u) PROVE a = b /\ i = j
  <2>1. PICK T, d, n : Handed(c, u, T, d, n)
    BY <1>5, HandsOverProperties
  <2> DEFINE at(k) == k - Len(write_buf[c])
             Old(e, k) == k \in Queue(e) /\ write_buf'[e][k] = write_buf[e][k]
             Added(e, k) == e = c /\ at(k) \in 1..n /\ write_buf'[e][k] = d[at(k)].msg
  <2>2. ASSUME NEW e \in Conns, NEW k \in Queue(e)'
        PROVE  k \in Nat /\ (Old(e, k) \/ Added(e, k))
    <3>1. CASE e # c \/ k \in Queue(e)
      BY <1>0, <2>1, <3>1 DEF Handed, Queue
    <3>2. CASE e = c /\ k \notin Queue(e)
      <4>1. k \in 1..(Len(write_buf[c]) + n) /\ n \in Nat
        BY <2>1, <3>2 DEF Handed, Queue
      <4>2. at(k) \in 1..n /\ k = Len(write_buf[c]) + at(k)
        BY <1>0, <3>2, <4>1 DEF Queue
      <4>3. write_buf'[c][k] = d[at(k)].msg
        BY <2>1, <4>2 DEF Handed
      <4> QED
        BY <3>2, <4>1, <4>2, <4>3
    <3> QED
      BY <3>1, <3>2
  <2>3. \A k \in 1..n : d[k] \in Readable(offline[u])
    BY <2>1 DEF Handed, Readable
  <2>4. CASE Old(a, i) /\ Old(b, j)
    <3>1. i \in Queue(a) /\ j \in Queue(b) /\ write_buf[a][i] = write_buf[b][j]
      BY <2>4
    <3> QED
      BY <3>1 DEF Once, OnceQueued
  <2>5. CASE Old(a, i) /\ Added(b, j)
    BY <2>3, <2>5 DEF Once, QueuedOnly, Readable
  <2>6. CASE Added(a, i) /\ Old(b, j)
    BY <2>3, <2>6 DEF Once, QueuedOnly, Readable
  <2>7. CASE Added(a, i) /\ Added(b, j)
    <3>1. d[at(i)] = d[at(j)]
      BY <2>3, <2>7 DEF Once, OnceFiled
    <3>2. at(i) = at(j)
      <4> HIDE DEF at
      <4> QED BY <2>1, <2>7, <3>1 DEF Handed
    <3>3. i \in Nat /\ j \in Nat
      BY <2>2
    <3> QED
      BY <1>0, <2>7, <3>2, <3>3
  <2> HIDE DEF Old, Added
  <2> QED
    BY <2>2, <2>4, <2>5, <2>6, <2>7
<1>6. ASSUME Dies PROVE FALSE
  BY <1>6 DEF Dies, Queue
<1> QED
  BY <1>1, <1>2, <1>3, <1>4, <1>5, <1>6 DEF Kinds, Quiet, Stores, Drops, Removes

(* Once in the files. *)
LEMMA OnceFiledStep == ASSUME TypeOK, Finite, Addressed, Once, Kinds PROVE OnceFiled'
<1> SUFFICES ASSUME NEW u \in Users, NEW f \in Readable(offline'[u]),
                    NEW g \in Readable(offline'[u]), f.msg = g.msg
             PROVE  f = g
  BY DEF OnceFiled, Readable
<1>1. CASE f \in Readable(offline[u]) /\ g \in Readable(offline[u])
  BY <1>1 DEF Once, OnceFiled
<1>2. ASSUME NEW n \in Nat \ {0}, Stores(u, n) PROVE f = g
  <2>1. New \notin Sent
    BY <1>2, SendProperties DEF Stores
  <2>2. \A h \in Readable(offline[u]) : h.msg # New
    BY <2>1 DEF Addressed
  <2>3. \A h \in Readable(offline'[u]) : h \in Readable(offline[u]) \/ h = [seq |-> n, msg |-> New]
    BY <1>2 DEF Stores, WithFile, Readable, TypeOK
  <2> QED
    BY <1>1, <2>2, <2>3
<1> QED
  BY <1>1, <1>2, FileOrigin

(* What is queued is neither filed nor passed on. *)
LEMMA QueuedOnlyStep == ASSUME TypeOK, Finite, Addressed, Once, Kinds PROVE QueuedOnly'
<1> SUFFICES ASSUME NEW a \in Conns, NEW i \in Queue(a)'
             PROVE  /\ write_buf'[a][i] \notin got'
                    /\ \A u \in Users : \A f \in offline'[u] : f.msg # write_buf'[a][i]
  BY DEF QueuedOnly
<1> DEFINE v == write_buf'[a][i]
<1>0. /\ Len(to) \in Nat /\ New \notin Sent /\ TORN \notin Sent /\ New # TORN
      /\ \A e \in Conns : Len(write_buf[e]) \in Nat
  BY LenProperties DEF TypeOK, New, Sent, TORN
<1>1. ASSUME NEW j \in Queue(a), v = write_buf[a][j]
      PROVE  v \in Sent /\ v \notin got /\ \A u \in Users : \A f \in offline[u] : f.msg # v
  BY <1>1 DEF Addressed, Once, QueuedOnly
<1>2. CASE Quiet \/ \E u \in Users : Drops(u)
  <2>1. write_buf' = write_buf /\ offline' = offline /\ got' = got
    BY <1>2 DEF Quiet, Drops
  <2> QED
    BY <1>1, <2>1 DEF Queue
<1>3. ASSUME NEW c \in Conns, Flushes(c)
      PROVE  v \notin got' /\ \A u \in Users : \A f \in offline'[u] : f.msg # v
  <2>1. At(c, a, i) \in Queue(a) /\ v = write_buf[a][At(c, a, i)] /\ (a = c => At(c, a, i) # 1)
    BY <1>3, FlushMoves DEF Flushes
  <2>2. got' = got \cup {write_buf[c][1]} /\ offline' = offline
    BY <1>3, FlushProperties DEF Flushes, session_flush
  <2>3. 1 \in Queue(c)
    BY <1>3, FlushProperties DEF Flushes, Queue
  <2>4. v # write_buf[c][1]
    BY <2>1, <2>3 DEF Once, OnceQueued
  <2> QED
    BY <1>1, <2>1, <2>2, <2>4
<1>4. ASSUME NEW x \in Conns, NEW k \in 0..Len(write_buf[x]), Ends(x, k)
      PROVE  v \notin got' /\ \A u \in Users : \A f \in offline'[u] : f.msg # v
  <2>1. a # x /\ write_buf'[a] = write_buf[a]
    BY <1>4 DEF Ends, TypeOK, Queue
  <2>2. got' = got \cup Written(x, k) /\ offline' = offline
    BY <1>4 DEF Ends
  <2>3. i \in Queue(a) /\ v = write_buf[a][i]
    BY <2>1 DEF Queue
  <2>4. v \notin Written(x, k)
    BY <2>1, <2>3, WrittenProperties DEF Once, OnceQueued
  <2> QED
    BY <1>1, <2>2, <2>3, <2>4
<1>5. ASSUME NEW x \in Conns, NEW u \in Users, Queues(x, u)
      PROVE  v \notin got' /\ \A w \in Users : \A f \in offline'[w] : f.msg # v
  <2>1. got' = got /\ offline' = offline
    BY <1>5 DEF Queues
  <2>2. CASE \E j \in Queue(a) : v = write_buf[a][j]
    BY <1>1, <2>1, <2>2
  <2>3. CASE v = New
    BY <1>0, <2>1, <2>3 DEF Addressed, Readable
  <2>4. CASE a = x /\ i = Len(write_buf[x]) + 1
    BY <1>5, <2>3, <2>4, QueuesProperties
  <2>5. CASE a # x \/ i # Len(write_buf[x]) + 1
    <3>1. i \in Queue(a) /\ v = write_buf[a][i]
      BY <1>0, <1>5, <2>5, QueuesProperties DEF Queue
    <3> QED
      BY <2>2, <3>1
  <2> QED
    BY <2>4, <2>5
<1>6. ASSUME NEW u \in Users, NEW n \in Nat \ {0}, Stores(u, n)
      PROVE  v \notin got' /\ \A w \in Users : \A f \in offline'[w] : f.msg # v
  <2>1. write_buf' = write_buf /\ got' = got
    BY <1>6 DEF Stores
  <2>2. i \in Queue(a) /\ v = write_buf[a][i]
    BY <2>1 DEF Queue
  <2>3. \A w \in Users : \A f \in offline'[w] : f \in offline[w] \/ f.msg = New
    BY <1>6 DEF Stores, WithFile, TypeOK
  <2> HIDE DEF v
  <2>4. v \in Sent /\ v \notin got /\ \A w \in Users : \A f \in offline[w] : f.msg # v
    BY <1>1, <2>2
  <2> QED
    BY <1>0, <2>1, <2>3, <2>4
<1>7. ASSUME NEW c \in Conns, NEW u \in Users, HandsOver(c, u)
      PROVE  v \notin got' /\ \A w \in Users : \A f \in offline'[w] : f.msg # v
  <2>1. PICK T, d, n : Handed(c, u, T, d, n)
    BY <1>7, HandsOverProperties
  <2>2. got' = got /\ \A w \in Users : offline'[w] \subseteq offline[w]
    BY <1>7, <2>1 DEF HandsOver, Handed, TypeOK
  <2>3. CASE a # c \/ i \in Queue(a)
    <3>1. i \in Queue(a) /\ v = write_buf[a][i]
      BY <2>1, <2>3 DEF Handed, Queue
    <3> HIDE DEF v
    <3> QED
      BY <1>1, <2>2, <3>1
  <2>4. CASE a = c /\ i \notin Queue(a)
    <3> DEFINE h == i - Len(write_buf[c])
    <3>1. i \in 1..(Len(write_buf[c]) + n) /\ n \in Nat
      BY <2>1, <2>4 DEF Handed, Queue
    <3>2. h \in 1..n /\ i = Len(write_buf[c]) + h
      BY <1>0, <2>4, <3>1 DEF Queue
    <3>3. v = d[h].msg /\ d[h] \in Readable(T) /\ T \subseteq offline[u]
      BY <2>1, <2>4, <3>2 DEF Handed
    <3> HIDE DEF v, h
    <3>4. d[h] \in Readable(offline[u])
      BY <3>3 DEF Readable
    <3>5. v \notin got
      BY <3>3, <3>4 DEF Once, FiledOnly, Readable
    <3>6. ASSUME NEW w \in Users, NEW f \in offline'[w], f.msg = v PROVE FALSE
      <4>1. f \in Readable(offline[w])
        BY <2>2, <3>3, <3>6 DEF Readable
      <4>2. w = u
        BY <3>3, <3>4, <3>6, <4>1 DEF Addressed
      <4>3. f = d[h]
        BY <3>3, <3>4, <3>6, <4>1, <4>2 DEF Once, OnceFiled
      <4>4. f \notin T
        BY <2>1, <3>6, <4>2 DEF Handed, TypeOK
      <4> QED
        BY <3>3, <4>3, <4>4 DEF Readable
    <3> QED
      BY <2>2, <3>5, <3>6
  <2> QED
    BY <2>3, <2>4
<1>8. ASSUME Dies PROVE FALSE
  BY <1>8 DEF Dies, Queue
<1>9. ASSUME NEW u \in Users, Removes(u)
      PROVE  v \notin got' /\ \A w \in Users : \A f \in offline'[w] : f.msg # v
  <2>1. write_buf' = write_buf /\ got' = got /\ \A w \in Users : offline'[w] \subseteq offline[w]
    BY <1>9 DEF Removes, TypeOK
  <2>2. i \in Queue(a) /\ v = write_buf[a][i]
    BY <2>1 DEF Queue
  <2> HIDE DEF v
  <2> QED
    BY <1>1, <2>1, <2>2
<1> QED
  BY <1>2, <1>3, <1>4, <1>5, <1>6, <1>7, <1>8, <1>9 DEF Kinds

(* What is filed is not passed on. *)
LEMMA FiledOnlyStep == ASSUME TypeOK, Finite, Addressed, Once, Kinds PROVE FiledOnly'
<1> SUFFICES ASSUME NEW u \in Users, NEW f \in offline'[u] PROVE f.msg \notin got'
  BY DEF FiledOnly
<1>0. New \notin Sent /\ TORN \notin Sent
  BY LenProperties DEF TypeOK, New, Sent, TORN
<1>1. \A m \in got' :
        m \in Sent /\ (m \in got \/ \E c \in Conns : \E i \in Queue(c) : m = write_buf[c][i])
  BY GotOrigin DEF Addressed
<1>2. CASE f.msg = TORN
  BY <1>0, <1>1, <1>2
<1>3. CASE f \in offline[u]
  BY <1>1, <1>3 DEF Once, FiledOnly, QueuedOnly
<1>4. CASE f.msg = New
  BY <1>0, <1>1, <1>4
<1>5. CASE f.msg # TORN
  <2>1. f \in Readable(offline'[u])
    BY <1>5 DEF Readable
  <2>2. f \in Readable(offline[u]) \/ f.msg = New
    BY <2>1, FileOrigin
  <2> QED
    BY <1>3, <1>4, <2>2 DEF Readable
<1> QED
  BY <1>2, <1>5
-----------------------------------------------------------------------------
(* The initial state. *)
LEMMA InitIInv == ASSUME Init PROVE IInv
<1>1. TypeOK
  <2>1. tab \in Seq(Conns) /\ Len(tab) = 0 /\ to \in Seq(Users) /\ Len(to) = 0
    BY EmptySeq DEF Init
  <2>2. write_buf \in [Conns -> Seq(Msgs)] /\ jid_local \in [Conns -> Users \cup {NONE}]
    BY EmptySeq DEF Init
  <2>3. established \in [Conns -> BOOLEAN] /\ available \in [Conns -> BOOLEAN]
    BY DEF Init
  <2> QED
    BY <2>1, <2>2, <2>3, ConstAssumption DEF Init, TypeOK
<1>2. Named /\ Finite
  BY FS_EmptySet DEF Init, Named, Finite
<1>3. Addressed
  BY DEF Init, Addressed, Queue, Readable
<1>4. Once
  BY DEF Init, Once, OnceQueued, OnceFiled, QueuedOnly, FiledOnly, Queue, Readable
<1>5. Homed
  BY DEF Init, Homed
<1> QED
  BY <1>1, <1>2, <1>3, <1>4, <1>5 DEF IInv

(* A file is added, for a message to a user without a session. *)
Filing(u) ==
  /\ FindByJid(u) = NONE /\ u \in accounts /\ accounts' = accounts
  /\ Len(to) < MaxMsgs /\ to' = Append(to, u)
  /\ \E f : f \notin offline[u] /\ offline' = [offline EXCEPT ![u] = @ \cup {f}]

(* What a step does to the files of a directory. *)
LEMMA FilesStep ==
  ASSUME IInv, [Next]_vars, NEW u \in Users
  PROVE  offline'[u] \subseteq offline[u] \/ Filing(u)
<1> USE DEF IInv
<1>1. ASSUME NEW v \in Users, NEW m \in Msgs \cup {TORN}, NEW n \in 0..MaxMsgs, IsNextSeq(v, n),
             offline' = WithFile(v, n, m), FindByJid(v) = NONE,
             v \in accounts, accounts' = accounts, Len(to) < MaxMsgs, to' = Append(to, v)
      PROVE  offline'[u] \subseteq offline[u] \/ Filing(u)
  <2>1. /\ offline' = [offline EXCEPT ![v] = @ \cup {[seq |-> n, msg |-> m]}]
        /\ [seq |-> n, msg |-> m] \notin offline[v]
    BY <1>1, WithFileProperties
  <2>2. CASE u = v
    BY <1>1, <2>1, <2>2 DEF Filing
  <2>3. CASE u # v
    BY <2>1, <2>3 DEF TypeOK
  <2> QED
    BY <2>2, <2>3
<1>2. ASSUME NEW c \in Conns, NEW v \in Users, message_store_offline(c, v)
      PROVE  offline'[u] \subseteq offline[u] \/ Filing(u)
  <2>1. New \in Msgs
    BY <1>2, SendProperties DEF message_store_offline, Send
  <2> QED
    BY <1>1, <1>2, <2>1 DEF message_store_offline, Send
<1>3. ASSUME NEW c \in Conns, NEW v \in Users, CrashStoring(c, v)
      PROVE  offline'[u] \subseteq offline[u] \/ Filing(u)
  BY <1>1, <1>3 DEF CrashStoring, Send
<1>4. ASSUME NEW c \in Conns, CrashDelivering(c) PROVE offline'[u] \subseteq offline[u]
  <2>1. PICK D : offline' = [offline EXCEPT ![jid_local[c]] = @ \ D]
    BY <1>4 DEF CrashDelivering
  <2> QED
    BY <2>1 DEF TypeOK
<1>5. ASSUME NEW c \in Conns, BecomeAvailable(c) PROVE offline'[u] \subseteq offline[u]
  <2>1. offline' = offline \/ \E T : offline' = [offline EXCEPT ![jid_local[c]] = @ \ T]
    BY <1>5 DEF BecomeAvailable, message_deliver_offline
  <2> QED
    BY <2>1 DEF TypeOK
<1>8. ASSUME NEW c \in Conns, RemoveAccount(c) \/ CrashRemoving(c)
      PROVE  offline'[u] \subseteq offline[u]
  <2>1. \E kept \in SUBSET offline[jid_local[c]] : offline' = [offline EXCEPT ![jid_local[c]] = kept]
    BY <1>8 DEF RemoveAccount, CrashRemoving
  <2> QED
    BY <2>1 DEF TypeOK
<1>6. CASE offline' = offline
  BY <1>6
<1>7. \/ offline' = offline
      \/ \E c \in Conns : BecomeAvailable(c) \/ CrashDelivering(c)
      \/ \E c \in Conns : RemoveAccount(c) \/ CrashRemoving(c)
      \/ \E c \in Conns, v \in Users : message_store_offline(c, v) \/ CrashStoring(c, v)
  BY DEF Next, Serving, Dying, vars, Accept, session_flush, session_teardown, session_handle_bind,
         session_handle_session_iq, BecomeUnavailable, Authenticate, DeliverNow, NotStored, Crash, user_create
<1> QED
  BY <1>2, <1>3, <1>4, <1>5, <1>6, <1>7, <1>8

(* An account goes when no file is left. *)
LEMMA AccountGone ==
  ASSUME IInv, [Next]_vars, NEW u \in accounts, u \notin accounts'
  PROVE  offline'[u] = {}
<1>1. u \in Users
  BY DEF IInv, TypeOK
<1>2. \E c \in Conns : RemoveAccount(c) \/ CrashRemoving(c)
  BY DEF Next, Serving, Dying, vars, Accept, session_flush, session_teardown, session_handle_bind,
         session_handle_session_iq, BecomeAvailable, BecomeUnavailable, Authenticate, DeliverNow,
         message_store_offline, NotStored, user_create, Crash, CrashStoring, CrashDelivering
<1>3. PICK c \in Conns : RemoveAccount(c) \/ CrashRemoving(c)
  BY <1>2
<1>4. u = jid_local[c] /\ offline' = [offline EXCEPT ![u] = {}]
  BY <1>3 DEF RemoveAccount, CrashRemoving
<1> QED
  BY <1>1, <1>4 DEF IInv, TypeOK

(* Files and accounts. *)
LEMMA HomedStep == ASSUME IInv, [Next]_vars PROVE Homed'
<1> SUFFICES ASSUME NEW u \in Users, offline'[u] # {} PROVE u \in accounts'
  BY DEF Homed
<1>1. CASE offline'[u] \subseteq offline[u]
  <2>1. u \in accounts
    BY <1>1 DEF IInv, Homed
  <2> QED
    BY <2>1, AccountGone
<1>2. CASE Filing(u)
  BY <1>2 DEF Filing
<1> QED
  BY <1>1, <1>2, FilesStep

(* The inductive invariant is kept. *)
LEMMA IInvStep == ASSUME IInv, [Next]_vars PROVE IInv' /\ Kinds
<1>1. Kinds
  BY StepKinds DEF IInv
<1>2. TypeOK' /\ Finite' /\ Named'
  BY TypeStep, NamedStep DEF IInv
<1>3. Addressed'
  BY <1>1, AddressedStep DEF IInv
<1>4. Once'
  BY <1>1, OnceQueuedStep, OnceFiledStep, QueuedOnlyStep, FiledOnlyStep DEF IInv, Once
<1>5. Homed'
  BY HomedStep
<1> QED
  BY <1>1, <1>2, <1>3, <1>4, <1>5 DEF IInv

(* The inductive invariant holds in every reachable state. *)
THEOREM Invariance == Spec => []IInv
<1>1. Init => IInv
  BY InitIInv
<1>2. IInv /\ [Next]_vars => IInv'
  BY IInvStep
<1> QED
  BY <1>1, <1>2, PTL DEF Spec

(* Every reachable state has the types of TypeOK: in particular the table stays
   within its bound, and message files are numbered from 1. *)
THEOREM TypeCorrect == Spec => []TypeOK
<1>1. IInv => TypeOK
  BY DEF IInv
<1> QED
  BY <1>1, Invariance, PTL

(* handle_message queues a message on a session of its addressee or files it in
   its directory, and message_deliver_offline hands over to the addressee. *)
THEOREM OnlyToAddresseeHolds == Spec => []OnlyToAddressee
<1>1. IInv => OnlyToAddressee
  <2> SUFFICES ASSUME IInv PROVE OnlyToAddressee
    OBVIOUS
  <2>1. \A c \in Conns : DOMAIN write_buf[c] = Queue(c)
    BY LenProperties DEF IInv, TypeOK, Queue
  <2> QED
    BY <2>1 DEF IInv, Addressed, OnlyToAddressee, Range
<1> QED
  BY <1>1, Invariance, PTL

(* A message is in one file, once in one buffer or passed on: neither
   message_deliver_offline nor a crash in it makes a second copy. *)
THEOREM AtMostOnceHolds == Spec => []AtMostOnce
<1>1. IInv => AtMostOnce
  <2> SUFFICES ASSUME IInv, NEW m \in Msgs
               PROVE  /\ InFile(m) # {} => InBuffer(m) = {} /\ m \notin got
                      /\ InBuffer(m) # {} => m \notin got
                      /\ \A f, g \in InFile(m) : f = g
                      /\ \A p, q \in InBuffer(m) : p = q
    BY DEF AtMostOnce
  <2>1. \A f \in InFile(m) : \E u \in Users : f \in Readable(offline[u]) /\ f.msg = m /\ to[m] = u
    BY ConstAssumption DEF InFile, Readable, Msgs, TORN, IInv, Addressed
  <2>2. ASSUME NEW p \in InBuffer(m)
        PROVE  /\ p = <<p[1], p[2]>> /\ p[1] \in Conns /\ p[2] \in Queue(p[1])
               /\ write_buf[p[1]][p[2]] = m
    BY ConstAssumption, LenProperties DEF InBuffer, Msgs, Queue, IInv, TypeOK
  <2>3. InFile(m) # {} => InBuffer(m) = {} /\ m \notin got
    BY <2>1, <2>2 DEF Readable, IInv, Once, QueuedOnly, FiledOnly
  <2>4. InBuffer(m) # {} => m \notin got
    BY <2>2 DEF IInv, Once, QueuedOnly
  <2>5. \A f, g \in InFile(m) : f = g
    BY <2>1 DEF IInv, Once, OnceFiled
  <2>6. ASSUME NEW p \in InBuffer(m), NEW q \in InBuffer(m) PROVE p = q
    <3>1. p[1] = q[1] /\ p[2] = q[2]
      BY <2>2 DEF IInv, Once, OnceQueued
    <3> QED
      BY <2>2, <3>1
  <2> QED
    BY <2>3, <2>4, <2>5, <2>6
<1> QED
  BY <1>1, Invariance, PTL
-----------------------------------------------------------------------------
(* The refinement of Delivery. *)

Filed(m) == \E u \in Users : \E f \in offline[u] : f.msg = m
Queued(m) == \E c \in Conns : \E i \in Queue(c) : write_buf[c][i] = m

(* fateOf, without the places. *)
Fate(m) ==
  IF m \notin Sent THEN "new"
  ELSE IF Filed(m) THEN "held"
  ELSE IF Queued(m) THEN "queued"
  ELSE IF m \in got THEN "passed" ELSE "lost"

(* No buffer is longer than there are messages: they are all different. *)
LEMMA BufferBound == ASSUME IInv, NEW c \in Conns PROVE Queue(c) \subseteq Msgs
<1> DEFINE b == write_buf[c]
<1>1. b \in [1..Len(b) -> Msgs] /\ Len(b) \in Nat
  BY LenProperties DEF IInv, TypeOK
<1>2. \A i, j \in 1..Len(b) : b[i] = b[j] => i = j
  BY DEF IInv, Once, OnceQueued, Queue
<1>3. b \in Injection(1..Len(b), Msgs)
  BY <1>1, <1>2 DEF Injection, IsInjective
<1>4. IsFiniteSet(Msgs) /\ Cardinality(Msgs) = MaxMsgs
  BY FS_Interval, ConstAssumption DEF Msgs
<1>5. Cardinality(1..Len(b)) = Len(b)
  BY <1>1, FS_Interval
<1>6. Len(b) <= MaxMsgs
  <2> HIDE DEF b
  <2> QED BY <1>3, <1>4, <1>5, FS_Injection
<1> QED
  BY <1>1, <1>6, ConstAssumption DEF Queue, Msgs

(* What a message cannot be at the same time. *)
LEMMA OneFate ==
  ASSUME IInv, NEW m \in Msgs
  PROVE  /\ Filed(m) => m \in Sent /\ ~Queued(m) /\ m \notin got
         /\ Queued(m) => m \in Sent /\ m \notin got
         /\ m \in got => m \in Sent
<1>0. m # TORN
  BY ConstAssumption DEF Msgs, TORN
<1> QED
  BY <1>0 DEF IInv, Addressed, Once, QueuedOnly, FiledOnly, Filed, Queued, Readable

(* The refinement mapping in these terms. *)
LEMMA FateOf == IInv => \A m \in Msgs : fateOf[m] = Fate(m)
<1> SUFFICES ASSUME IInv PROVE \A m \in Msgs : fateOf[m] = Fate(m)
  OBVIOUS
<1>0. Len(to) \in Nat
  BY LenProperties DEF IInv, TypeOK
<1>1. ASSUME NEW m \in Msgs PROVE InFile(m) # {} <=> Filed(m)
  BY DEF InFile, Filed
<1>2. ASSUME NEW m \in Msgs PROVE InBuffer(m) # {} <=> Queued(m)
  <2>1. ASSUME NEW c \in Conns, NEW i \in Queue(c), write_buf[c][i] = m PROVE InBuffer(m) # {}
    <3>1. <<c, i>> \in Conns \X Msgs
      BY BufferBound
    <3>2. i <= Len(write_buf[c])
      BY DEF Queue
    <3>3. <<c, i>> \in InBuffer(m)
      BY <2>1, <3>1, <3>2 DEF InBuffer
    <3> QED
      BY <3>3
  <2>2. ASSUME NEW p \in InBuffer(m) PROVE Queued(m)
    <3>1. p[1] \in Conns /\ p[2] \in Queue(p[1]) /\ write_buf[p[1]][p[2]] = m
      BY ConstAssumption, LenProperties DEF InBuffer, Msgs, Queue, IInv, TypeOK
    <3> QED
      BY <3>1 DEF Queued
  <2> QED
    BY <2>1, <2>2 DEF Queued
<1>3. ASSUME NEW m \in Msgs PROVE m > Len(to) <=> m \notin Sent
  BY <1>0, ConstAssumption DEF Msgs, Sent
<1>4. ASSUME NEW m \in Msgs PROVE m <= Len(to) <=> m \in Sent
  BY <1>0, ConstAssumption DEF Msgs, Sent
<1>5. ASSUME NEW m \in Msgs PROVE fateOf[m] = Fate(m)
  BY <1>1, <1>2, <1>3, <1>4 DEF fateOf, Fate
<1> QED
  BY <1>5

(* The same after a step. *)
LEMMA FateOfNext == IInv' => (\A m \in Msgs : fateOf[m] = Fate(m))'
BY FateOf, PTL

(* The same for the place of a message after a step. *)
LEMMA OneFateNext ==
  IInv' => (\A m \in Msgs : /\ Filed(m) => m \in Sent /\ ~Queued(m) /\ m \notin got
                            /\ Queued(m) => m \in Sent /\ m \notin got
                            /\ m \in got => m \in Sent)'
<1>1. IInv => \A m \in Msgs : /\ Filed(m) => m \in Sent /\ ~Queued(m) /\ m \notin got
                              /\ Queued(m) => m \in Sent /\ m \notin got
                              /\ m \in got => m \in Sent
  BY OneFate
<1> QED
  BY <1>1, PTL

(* What a step does to a message that was already sent. *)
LEMMA Moves ==
  ASSUME IInv, Kinds, NEW m \in Msgs
  PROVE  /\ m \in Sent => m \in Sent'
         /\ Queued(m)' /\ m \in Sent => Queued(m) \/ Filed(m)
         /\ Filed(m)' /\ m \in Sent => Filed(m)
         /\ m \in got => m \in got'
         /\ m \in got' => m \in got \/ Queued(m)
         /\ Filed(m) => Filed(m)' \/ Queued(m)' \/ Dies \/ \E u \in Users : Removes(u)
<1> USE DEF IInv
<1>0. m # TORN /\ New \notin Sent
  BY ConstAssumption, LenProperties DEF Msgs, TORN, TypeOK, New, Sent
<1>1. m \in Sent => m \in Sent'
  BY SentKept
<1>2. Queued(m)' /\ m \in Sent => Queued(m) \/ Filed(m)
  <2> SUFFICES ASSUME m \in Sent, NEW a \in Conns, NEW i \in Queue(a)', write_buf'[a][i] = m
               PROVE  Queued(m) \/ Filed(m)
    BY DEF Queued
  <2> QED
    BY <1>0, BufferOrigin DEF Queued, Filed, Readable
<1>3. Filed(m)' /\ m \in Sent => Filed(m)
  <2> SUFFICES ASSUME m \in Sent, NEW u \in Users, NEW f \in offline'[u], f.msg = m
               PROVE  Filed(m)
    BY DEF Filed
  <2>1. f \in Readable(offline'[u])
    BY <1>0 DEF Readable
  <2>2. f \in Readable(offline[u]) \/ f.msg = New
    BY <2>1, FileOrigin
  <2> QED
    BY <1>0, <2>2 DEF Filed, Readable
<1>4. (m \in got => m \in got') /\ (m \in got' => m \in got \/ Queued(m))
  BY GotOrigin DEF Queued
<1>5. Filed(m) => Filed(m)' \/ Queued(m)' \/ Dies \/ \E u \in Users : Removes(u)
  <2> SUFFICES ASSUME NEW u \in Users, NEW f \in offline[u], f.msg = m
               PROVE  Filed(m)' \/ Queued(m)' \/ Dies \/ \E v \in Users : Removes(v)
    BY DEF Filed
  <2>1. CASE f \in offline'[u]
    BY <2>1 DEF Filed
  <2>2. CASE offline' = offline
    BY <2>1, <2>2
  <2>3. ASSUME NEW v \in Users, NEW n \in Nat \ {0}, Stores(v, n) PROVE f \in offline'[u]
    <3>1. \A g \in offline[v] : g.seq # n
      BY <2>3 DEF Stores, IsNextSeq, TypeOK, Files
    <3> QED
      BY <2>3, <3>1 DEF Stores, WithFile, TypeOK
  <2>4. ASSUME NEW c \in Conns, NEW v \in Users, HandsOver(c, v) PROVE Filed(m)' \/ Queued(m)'
    <3>1. PICK T, d, n : Handed(c, v, T, d, n)
      BY <2>4, HandsOverProperties
    <3>2. CASE f \in T /\ u = v
      <4>1. PICK h \in 1..n : d[h] = f
        BY <1>0, <3>1, <3>2 DEF Handed, Readable
      <4>2. Len(write_buf[c]) \in Nat /\ n \in Nat
        BY <3>1, LenProperties DEF Handed, TypeOK
      <4>3. Len(write_buf[c]) + h \in Queue(c)'
        BY <3>1, <4>1, <4>2 DEF Handed, Queue
      <4>4. write_buf'[c][Len(write_buf[c]) + h] = m
        BY <3>1, <4>1 DEF Handed
      <4> QED
        BY <4>3, <4>4 DEF Queued
    <3>3. CASE ~(f \in T /\ u = v)
      <4>1. f \in offline'[u]
        BY <3>1, <3>3 DEF Handed, TypeOK
      <4> QED
        BY <4>1 DEF Filed
    <3> QED
      BY <3>2, <3>3
  <2> QED
    BY <2>1, <2>2, <2>3, <2>4 DEF Kinds, Quiet, Flushes, session_flush, Ends, Queues, Drops
<1> QED
  BY <1>1, <1>2, <1>3, <1>4, <1>5

(* What a death does to a message. *)
LEMMA DiesMoves ==
  ASSUME IInv, Dies, NEW m \in Msgs
  PROVE  ~Queued(m)' /\ (Filed(m)' => Filed(m)) /\ got' = got
<1>1. ~Queued(m)'
  BY DEF Dies, Queued, Queue
<1>2. Filed(m)' => Filed(m)
  BY ConstAssumption DEF Dies, Filed, Readable, Msgs, TORN
<1> QED
  BY <1>1, <1>2 DEF Dies

(* Delivery's tables. *)
LEMMA Tables ==
  /\ Promise!Step["new"] = {"new", "held", "queued", "lost"}
  /\ Promise!Step["held"] = {"held", "queued"}
  /\ Promise!Step["queued"] = {"queued", "passed", "lost"}
  /\ Promise!Step["passed"] = {"passed"}
  /\ Promise!Step["lost"] = {"lost"}
  /\ Promise!Death["new"] = {"new", "lost"}
  /\ Promise!Death["held"] = {"held", "lost"}
  /\ Promise!Death["queued"] = {"lost"}
  /\ Promise!Death["passed"] = {"passed"}
  /\ Promise!Death["lost"] = {"lost"}
BY DEF Promise!Step, Promise!Death, Promise!Fates

(* Whose message is filed is whose directory it is in. *)
LEMMA FiledFor ==
  ASSUME IInv, NEW m \in Msgs, NEW u \in Users, NEW f \in offline[u], f.msg = m
  PROVE  to[m] = u
<1>1. f \in Readable(offline[u])
  BY ConstAssumption DEF Readable, Msgs, TORN
<1> QED
  BY <1>1 DEF IInv, Addressed

(* A death loses the files of one user. *)
LEMMA DiesLoses ==
  ASSUME IInv, Dies, NEW m \in Msgs, NEW n \in Msgs,
         Filed(m), ~Filed(m)', Filed(n), ~Filed(n)'
  PROVE  to[m] = to[n]
<1>1. PICK u \in Users : \E f \in offline[u] : f.msg = m
  BY DEF Filed
<1>2. PICK v \in Users : \E f \in offline[v] : f.msg = n
  BY DEF Filed
<1>3. to[m] = u /\ to[n] = v
  BY <1>1, <1>2, FiledFor
<1>4. ~(offline[u] \subseteq offline'[u]) /\ ~(offline[v] \subseteq offline'[v])
  BY <1>1, <1>2 DEF Filed
<1> QED
  BY <1>3, <1>4 DEF Dies

(* Messages are sent to users with an account; and accounts go, and the process
   changes, in the steps of those kinds only. *)
LEMMA ServesOn ==
  ASSUME IInv, [Next]_vars
  PROVE  /\ Promise!Sends
         /\ (accounts \subseteq accounts' /\ run' = run) \/ Dies \/ \E u \in Users : Removes(u)
<1>1. to' = to \/ \E u \in accounts : to' = Append(to, u)
  BY DEF Next, Serving, Dying, vars, Accept, session_flush, session_teardown, session_handle_bind,
         session_handle_session_iq, BecomeAvailable, BecomeUnavailable, Authenticate, DeliverNow,
         message_store_offline, NotStored, user_create, RemoveAccount, Send,
         Crash, CrashStoring, CrashDelivering, CrashRemoving
<1>2. CASE Dying \/ \E c \in Conns : RemoveAccount(c)
  <2>2. CASE Dying
    BY <1>1, <2>2, DyingDies DEF IInv, Promise!Sends
  <2>3. CASE \E c \in Conns : RemoveAccount(c)
    <3>1. PICK c \in Conns : RemoveAccount(c)
      BY <2>3
    <3>2. jid_local[c] \in Users /\ Removes(jid_local[c])
      BY <3>1 DEF RemoveAccount, sessVars, Removes, IInv, TypeOK
    <3> QED
      BY <1>1, <3>2 DEF Promise!Sends
  <2> QED
    BY <1>2, <2>2, <2>3
<1>3. CASE ~(Dying \/ \E c \in Conns : RemoveAccount(c))
  <2>1. accounts \subseteq accounts' /\ run' = run
    BY <1>3 DEF Next, Serving, vars, Accept, session_flush, session_teardown, session_handle_bind,
           session_handle_session_iq, BecomeAvailable, BecomeUnavailable, Authenticate, DeliverNow,
           message_store_offline, NotStored, user_create
  <2> QED
    BY <1>1, <2>1 DEF Promise!Sends
<1> QED
  BY <1>2, <1>3

(* A step is one that Delivery allows. *)
LEMMA DeliveryStep ==
  ASSUME IInv, IInv', Kinds, [Next]_vars
  PROVE  Promise!Next \/ UNCHANGED Promise!vars
<1>1. \A m \in Msgs : fateOf[m] = Fate(m) /\ fateOf'[m] = Fate(m)'
  BY FateOf, FateOfNext DEF Msgs
<1>2. fateOf = [m \in Msgs |-> fateOf[m]] /\ fateOf' = [m \in Msgs |-> fateOf'[m]]
  BY DEF fateOf, Msgs
<1>3. Promise!Msgs = Msgs
  BY DEF Promise!Msgs, Msgs
<1>4. ASSUME NEW m \in Msgs PROVE Fate(m) = "new" => Fate(m)' \in {"new", "held", "queued", "lost"}
  BY <1>4, Moves, OneFate DEF Fate
<1>5. CASE Dies
  <2>1. \A m \in Msgs : Fate(m)' \in Promise!Death[Fate(m)]
    BY <1>5, DiesMoves, Moves, OneFate, OneFateNext, Tables DEF Fate
  <2>2. ASSUME NEW m \in Msgs, Promise!LosesHeld(m) PROVE Filed(m) /\ ~Filed(m)'
    <3>1. Fate(m) = "held" /\ Fate(m)' = "lost"
      BY <1>1, <2>2 DEF Promise!LosesHeld
    <3> QED
      BY <3>1, Moves, OneFate DEF Fate
  <2>3. \A m, n \in Msgs : Promise!LosesHeld(m) /\ Promise!LosesHeld(n) => to[m] = to[n]
    BY <1>5, <2>2, DiesLoses
  <2>4. Promise!Sends /\ accounts' \subseteq accounts /\ run' = 1 - run
    BY <1>5, ServesOn DEF Dies
  <2> QED
    BY <1>1, <1>3, <2>1, <2>3, <2>4 DEF Promise!Die, Promise!Next
<1>6. ASSUME NEW u \in Users, Removes(u) PROVE Promise!Next \/ UNCHANGED Promise!vars
  <2>1. UNCHANGED <<write_buf, to, got, run>> /\ accounts' = accounts \ {u}
    BY <1>6 DEF Removes
  <2>2. ASSUME NEW m \in Msgs
        PROVE  Fate(m)' = IF Fate(m) = "held" /\ to[m] = u THEN "lost" ELSE Fate(m)
    <3>1. /\ m \in Sent' <=> m \in Sent
          /\ m \in got' <=> m \in got
          /\ Queued(m)' <=> Queued(m)
      BY <2>1 DEF Sent, Queued, Queue
    <3>2. Filed(m)' <=> Filed(m) /\ to[m] # u
      <4>1. offline'[u] = {} /\ \A v \in Users \ {u} : offline'[v] = offline[v]
        BY <1>6 DEF Removes, IInv, TypeOK
      <4>2. \A v \in Users : \A f \in offline[v] : f.msg = m => to[m] = v
        BY FiledFor
      <4> QED
        BY <4>1, <4>2 DEF Filed
    <3> QED
      BY <3>1, <3>2, OneFate DEF Fate
  <2>3. CASE u \in accounts
    <3>1. fateOf' = [m \in Msgs |-> IF fateOf[m] = "held" /\ to[m] = u THEN "lost" ELSE fateOf[m]]
      BY <1>1, <1>2, <2>2
    <3>2. Promise!Remove(u)
      BY <1>3, <2>1, <2>3, <3>1 DEF Promise!Remove
    <3> QED
      BY <3>2 DEF Promise!Next
  <2>4. CASE u \notin accounts
    <3>1. offline[u] = {}
      BY <2>4 DEF IInv, Homed
    <3>2. \A m \in Msgs : Filed(m) => to[m] # u
      BY <3>1, FiledFor DEF Filed
    <3>3. \A m \in Msgs : Fate(m)' = Fate(m)
      BY <2>2, <3>2 DEF Fate
    <3>4. fateOf' = fateOf /\ accounts' = accounts
      BY <1>1, <1>2, <2>1, <2>4, <3>3
    <3> QED
      BY <2>1, <3>4 DEF Promise!vars
  <2> QED
    BY <2>3, <2>4
<1>7. CASE ~Dies /\ ~\E u \in Users : Removes(u)
  <2>1. ASSUME NEW m \in Msgs PROVE Fate(m)' \in Promise!Step[Fate(m)]
    BY <1>4, <1>7, Moves, OneFate, OneFateNext, Tables DEF Fate
  <2>2. Promise!Sends /\ accounts \subseteq accounts' /\ run' = run
    BY <1>7, ServesOn
  <2> QED
    BY <1>1, <1>3, <2>1, <2>2 DEF Promise!Move, Promise!Next
<1> QED
  BY <1>5, <1>6, <1>7

(* Nobody has sent anything at the beginning. *)
LEMMA DeliveryInit == ASSUME Init PROVE Promise!Init
<1>1. Len(to) = 0 /\ Sent = {}
  BY EmptySeq DEF Init, Sent
<1>2. IInv
  BY InitIInv
<1>3. \A m \in Msgs : fateOf[m] = "new"
  BY <1>1, <1>2, FateOf DEF Fate
<1>4. fateOf = [m \in Msgs |-> fateOf[m]]
  BY DEF fateOf
<1> QED
  BY <1>3, <1>4 DEF Init, Promise!Init, Promise!Msgs, Msgs

(* The C server keeps the promise of Delivery: while the process runs, a stored
   message leaves its file only for a connection of its addressee or with the
   addressee's account; a death loses the stored messages of one user at most;
   nothing else is lost but with its connection or when it is not stored at all,
   and no message goes back. *)
THEOREM ImplementsDeliveryHolds == Spec => ImplementsDelivery
<1>1. Init => Promise!Init
  BY DeliveryInit
<1>2. IInv /\ IInv' /\ [Next]_vars => [Promise!Next]_(Promise!vars)
  BY IInvStep, DeliveryStep
<1> QED
  BY <1>1, <1>2, Invariance, PTL DEF Spec, ImplementsDelivery, Promise!Spec
-----------------------------------------------------------------------------
(* Mail that waits. *)

SentTo(u) == {m \in DOMAIN to : to[m] = u}

(* No more files than messages: each one was made for a message of its own. *)
Counted == \A u \in Users : Cardinality(offline[u]) <= Cardinality(SentTo(u))

(* The messages to a user only grow, by one when one is sent to it. *)
LEMMA SentToKept ==
  ASSUME IInv, IInv', Kinds, NEW u \in Users
  PROVE  /\ IsFiniteSet(SentTo(u)) /\ IsFiniteSet(SentTo(u)')
         /\ Cardinality(SentTo(u)) \in Nat /\ Cardinality(SentTo(u)') \in Nat
         /\ Cardinality(SentTo(u)) <= Cardinality(SentTo(u)')
         /\ Len(to) < MaxMsgs /\ to' = Append(to, u) =>
              Cardinality(SentTo(u)') = Cardinality(SentTo(u)) + 1
<1>1. DOMAIN to = Sent /\ DOMAIN to' = Sent' /\ IsFiniteSet(Sent) /\ IsFiniteSet(Sent')
  <2>1. to \in Seq(Users) /\ to' \in Seq(Users)
    BY DEF IInv, TypeOK
  <2>2. Len(to) \in Nat /\ Len(to') \in Nat /\ DOMAIN to = 1..Len(to) /\ DOMAIN to' = 1..Len(to')
    BY <2>1, LenProperties
  <2>3. IsFiniteSet(1..Len(to)) /\ IsFiniteSet(1..Len(to'))
    BY <2>2, FS_Interval
  <2> QED
    BY <2>2, <2>3 DEF Sent
<1>2. SentTo(u) \subseteq Sent /\ SentTo(u)' \subseteq Sent'
  BY <1>1 DEF SentTo
<1>3. IsFiniteSet(SentTo(u)) /\ IsFiniteSet(SentTo(u)')
  BY <1>1, <1>2, FS_Subset
<1>4. SentTo(u) \subseteq SentTo(u)'
  BY <1>1, SentKept DEF SentTo, IInv
<1>5. Cardinality(SentTo(u)) <= Cardinality(SentTo(u)')
  BY <1>3, <1>4, FS_Subset
<1>6. Cardinality(SentTo(u)) \in Nat /\ Cardinality(SentTo(u)') \in Nat
  BY <1>3, FS_CardinalityType
<1>7. ASSUME Len(to) < MaxMsgs, to' = Append(to, u)
      PROVE  Cardinality(SentTo(u)') = Cardinality(SentTo(u)) + 1
  <2>1. /\ New \notin Sent /\ Len(to') = New /\ to'[New] = u /\ \A m \in Sent : to'[m] = to[m]
        /\ New \in Msgs
    BY <1>7, SendProperties DEF IInv
  <2>2. Sent' = Sent \cup {New}
    BY <2>1, LenProperties DEF Sent, New, IInv, TypeOK
  <2>3. SentTo(u)' = SentTo(u) \cup {New}
    BY <1>1, <2>1, <2>2 DEF SentTo
  <2>4. New \notin SentTo(u)
    BY <1>2, <2>1
  <2> QED
    BY <1>3, <2>3, <2>4, FS_AddElement
<1> QED
  BY <1>3, <1>5, <1>6, <1>7

(* Who is available after a step was it before, under the same name, or has just
   been handed its mail. *)
LEMMA AvailableStep ==
  ASSUME IInv, [Next]_vars, NEW c \in Conns, available'[c]
  PROVE  /\ jid_local'[c] = jid_local[c]
         /\ available[c] \/ (BecomeAvailable(c) /\ ~available[c])
<1> USE DEF IInv, TypeOK
<1>1. CASE UNCHANGED vars
  BY <1>1 DEF vars, sessVars
<1>2. CASE \E d \in Conns : Accept(d) \/ session_flush(d) \/ session_handle_session_iq(d)
  BY <1>2 DEF Accept, session_flush, session_handle_session_iq, sessVars
<1>3. CASE \E d \in Conns : session_teardown(d)
  <2>1. PICK d \in Conns : Fresh({d})
    BY <1>3 DEF session_teardown
  <2> QED
    BY <2>1 DEF Fresh
<1>4. CASE \E d \in Conns : session_handle_bind(d)
  <2>1. PICK d \in Conns : session_handle_bind(d)
    BY <1>4
  <2>2. \/ jid_local' = jid_local /\ available' = available
        \/ \E x : /\ jid_local' = [jid_local EXCEPT ![x] = NONE]
                  /\ available' = [available EXCEPT ![x] = FALSE]
    BY <2>1 DEF session_handle_bind
  <2> QED
    BY <2>2
<1>5. CASE \E d \in Conns : BecomeAvailable(d) \/ BecomeUnavailable(d)
  BY <1>5 DEF BecomeAvailable, BecomeUnavailable
<1>6. CASE \E d \in Conns, u \in Users : Authenticate(d, u)
  BY <1>6 DEF Authenticate, Named
<1>7. CASE \E d \in Conns, u \in Users :
             DeliverNow(d, u) \/ message_store_offline(d, u) \/ NotStored(d, u)
  BY <1>7 DEF DeliverNow, message_store_offline, NotStored, sessVars
<1>8. CASE Dying
  BY <1>8 DEF Dying, Crash, CrashStoring, CrashDelivering, CrashRemoving, Death, Fresh
<1>9. CASE (\E d \in Conns : RemoveAccount(d)) \/ \E u \in Users : user_create(u)
  BY <1>9 DEF RemoveAccount, user_create, sessVars
<1> QED
  BY <1>1, <1>2, <1>3, <1>4, <1>5, <1>6, <1>7, <1>8, <1>9 DEF Next, Serving

(* Files are counted. *)
LEMMA CountedStep == ASSUME IInv, Counted, [Next]_vars PROVE Counted'
<1> SUFFICES ASSUME NEW u \in Users PROVE Cardinality(offline'[u]) <= Cardinality(SentTo(u)')
  BY DEF Counted
<1>1. IInv' /\ Kinds
  BY IInvStep
<1>2. /\ IsFiniteSet(offline[u]) /\ IsFiniteSet(offline'[u])
      /\ Cardinality(offline[u]) \in Nat /\ Cardinality(offline'[u]) \in Nat
  BY <1>1, FS_CardinalityType DEF IInv, Finite
<1>3. CASE offline'[u] \subseteq offline[u]
  BY <1>1, <1>2, <1>3, FS_Subset, SentToKept DEF Counted
<1>4. CASE Filing(u)
  <2>1. PICK f : f \notin offline[u] /\ offline' = [offline EXCEPT ![u] = @ \cup {f}]
    BY <1>4 DEF Filing
  <2>2. offline'[u] = offline[u] \cup {f}
    BY <2>1 DEF IInv, TypeOK
  <2>3. Cardinality(offline'[u]) = Cardinality(offline[u]) + 1
    BY <1>2, <2>1, <2>2, FS_AddElement
  <2>4. Cardinality(SentTo(u)') = Cardinality(SentTo(u)) + 1
    BY <1>1, <1>4, SentToKept DEF Filing
  <2> QED
    BY <1>1, <1>2, <2>3, <2>4, SentToKept DEF Counted
<1> QED
  BY <1>3, <1>4, FilesStep

(* Waiting mail is bounded. *)
LEMMA WaitingStep == ASSUME IInv, Counted, NoMailWaiting, [Next]_vars PROVE NoMailWaiting'
<1> SUFFICES ASSUME NEW c \in Conns, available'[c], offline'[jid_local'[c]] # {}
             PROVE  Cardinality(offline'[jid_local'[c]]) + MAX_FILES
                      <= Cardinality({m \in DOMAIN to' : to'[m] = jid_local'[c]})
  BY DEF NoMailWaiting
<1>1. IInv' /\ Kinds
  BY IInvStep
<1>2. jid_local[c] \in Users /\ c \in InTable
  <2>1. available[c] \/ BecomeAvailable(c)
    BY AvailableStep
  <2>2. established[c]
    BY <2>1 DEF BecomeAvailable, IInv, Named
  <2> QED
    BY <2>2 DEF IInv, Named, TypeOK
<1>3. PICK u \in Users : jid_local[c] = u /\ jid_local'[c] = u
  BY <1>2, AvailableStep
<1>4. ~Filing(u)
  BY <1>3, <1>2, FindByJidProperties DEF Filing, IInv
<1>5. offline'[u] \subseteq offline[u]
  BY <1>4, FilesStep
<1>6. /\ IsFiniteSet(offline[u])
      /\ Cardinality(offline[u]) \in Nat /\ Cardinality(offline'[u]) \in Nat
      /\ Cardinality(offline'[u]) <= Cardinality(offline[u])
  BY <1>1, <1>5, FS_CardinalityType, FS_Subset DEF IInv, Finite
<1>7. /\ Cardinality(SentTo(u)) \in Nat /\ Cardinality(SentTo(u)') \in Nat
      /\ Cardinality(SentTo(u)) <= Cardinality(SentTo(u)')
  BY <1>1, SentToKept
<1>8. offline'[u] # {} /\ SentTo(u)' = {m \in DOMAIN to' : to'[m] = jid_local'[c]}
  BY <1>3 DEF SentTo
<1>9. CASE available[c]
  <2>1. Cardinality(offline[u]) + MAX_FILES <= Cardinality(SentTo(u))
    BY <1>3, <1>5, <1>8, <1>9 DEF NoMailWaiting, SentTo
  <2> QED
    BY <1>3, <1>6, <1>7, <1>8, <2>1, ConstAssumption
<1>10. CASE BecomeAvailable(c) /\ ~available[c]
  <2>1. PICK T \in Taken(u) : offline' = [offline EXCEPT ![u] = @ \ T]
    BY <1>3, <1>10 DEF BecomeAvailable, message_deliver_offline
  <2>2. offline'[u] = offline[u] \ T
    BY <2>1 DEF IInv, TypeOK
  <2>3. T \subseteq offline[u] /\ Cardinality(T) = MAX_FILES
    BY <1>8, <2>2 DEF Taken
  <2>4. Cardinality(offline'[u]) = Cardinality(offline[u]) - MAX_FILES
    <3>1. offline[u] \cap T = T
      BY <2>3
    <3> QED
      BY <1>6, <2>2, <2>3, <3>1, FS_Difference
  <2>5. Cardinality(offline[u]) <= Cardinality(SentTo(u))
    BY DEF Counted
  <2> QED
    BY <1>3, <1>6, <1>7, <1>8, <2>4, <2>5, ConstAssumption
<1> QED
  BY <1>9, <1>10, AvailableStep

(* A user who becomes available is handed everything that was stored for it, up
   to MAX_FILES at a time, and nothing is stored for it while it has a session:
   mail waits for an available user only when more than MAX_FILES messages were
   sent to it. *)
THEOREM NoMailWaitingHolds == Spec => []NoMailWaiting
<1>1. Init => IInv /\ Counted /\ NoMailWaiting
  <2> SUFFICES ASSUME Init PROVE Counted /\ NoMailWaiting
    BY InitIInv
  <2>1. ASSUME NEW u \in Users PROVE Cardinality(offline[u]) = 0 /\ Cardinality(SentTo(u)) = 0
    <3>1. offline[u] = {} /\ SentTo(u) = {}
      BY DEF Init, SentTo
    <3> QED
      BY <3>1, FS_EmptySet
  <2> QED
    BY <2>1 DEF Counted, NoMailWaiting, Init
<1>2. (IInv /\ Counted /\ NoMailWaiting) /\ [Next]_vars => (IInv /\ Counted /\ NoMailWaiting)'
  BY IInvStep, CountedStep, WaitingStep
<1> QED
  BY <1>1, <1>2, PTL DEF Spec
-----------------------------------------------------------------------------
(* The order in which files are handed over *)

(* A number without its last digit, and that digit. *)
Shift(x) == x \div BASE
LastDigit(x) == x % BASE

(* A number is taken apart and put together again. *)
LEMMA Division ==
  ASSUME NEW B \in Nat \ {0, 1}, NEW x \in Nat
  PROVE  /\ x \div B \in Nat /\ x % B \in Nat /\ x % B < B
         /\ x = B * (x \div B) + (x % B)
         /\ x # 0 => x \div B < x
<1>1. x \div B \in Nat /\ x % B \in Nat /\ x % B < B
  OBVIOUS
<1>2. x = B * (x \div B) + (x % B)
  OBVIOUS
<1>3. x # 0 => x \div B < x
  OBVIOUS
<1> QED
  BY <1>1, <1>2, <1>3

(* The order of numbers, by what is before the last digit and by it. *)
LEMMA DivisionOrder ==
  ASSUME NEW B \in Nat \ {0, 1}, NEW x \in Nat, NEW y \in Nat
  PROVE  /\ x <= y => x \div B <= y \div B
         /\ x \div B = y \div B /\ x % B = y % B => x = y
         /\ x \div B = y \div B /\ x % B < y % B => x < y
<1>1. x <= y => x \div B <= y \div B
  OBVIOUS
<1>2. x = B * (x \div B) + (x % B) /\ y = B * (y \div B) + (y % B)
  BY Division
<1>3. PICK q \in Nat, r \in Nat, s \in Nat : q = x \div B /\ r = x % B /\ s = y % B
  BY Division
<1>4. ASSUME x \div B = y \div B PROVE x = B * q + r /\ y = B * q + s
  BY <1>2, <1>3, <1>4
<1>5. PICK w \in Nat : w = B * q
  OBVIOUS
<1> QED
  BY <1>1, <1>3, <1>4, <1>5

(* The same for file numbers. *)
LEMMA ShiftFacts ==
  ASSUME NEW x \in Nat
  PROVE  /\ Shift(x) \in Nat /\ LastDigit(x) \in Nat
         /\ x = 0 => Shift(x) = 0
         /\ x # 0 => Shift(x) < x
<1>1. PICK B \in Nat \ {0, 1} : B = BASE
  BY ConstAssumption
<1>2. Shift(x) = x \div B /\ LastDigit(x) = x % B
  BY <1>1 DEF Shift, LastDigit
<1>3. /\ x \div B \in Nat /\ x % B \in Nat
      /\ x # 0 => x \div B < x
      /\ x = 0 => x \div B = 0
  BY Division
<1> QED
  BY <1>2, <1>3

(* Their order. *)
LEMMA ShiftOrder ==
  ASSUME NEW x \in Nat, NEW y \in Nat
  PROVE  /\ x <= y => Shift(x) <= Shift(y)
         /\ Shift(x) = Shift(y) /\ LastDigit(x) = LastDigit(y) => x = y
         /\ Shift(x) = Shift(y) /\ LastDigit(x) < LastDigit(y) => x < y
<1>1. PICK B \in Nat \ {0, 1} : B = BASE
  BY ConstAssumption
<1>2. Shift(x) = x \div B /\ LastDigit(x) = x % B /\ Shift(y) = y \div B /\ LastDigit(y) = y % B
  BY <1>1 DEF Shift, LastDigit
<1>3. /\ x <= y => x \div B <= y \div B
      /\ x \div B = y \div B /\ x % B = y % B => x = y
      /\ x \div B = y \div B /\ x % B < y % B => x < y
  BY DivisionOrder
<1> QED
  BY <1>2, <1>3

(* Without is what its definition says. *)
LEMMA WithoutSteps ==
  ASSUME NEW n \in Nat
  PROVE  /\ Without(n) \in [0..(WIDTH + n) -> Nat]
         /\ Without(n)[0] = n
         /\ \A i \in 1..(WIDTH + n) : Without(n)[i] = Shift(Without(n)[i - 1])
<1>1. PICK N \in Nat : N = WIDTH + n
  BY ConstAssumption
<1>2. PICK step : step = [i \in 1..N |-> [x \in Nat |-> Shift(x)]]
  OBVIOUS
<1>3. step \in StepsOn(N, Nat)
  BY <1>2, ShiftFacts DEF StepsOn
<1>4. PICK f : Follows(f, N, Nat, n, step)
  BY <1>3, Recursion
<1>5. \A i \in 0..N : i # 0 => i \in 1..N /\ i - 1 \in 0..N
  OBVIOUS
<1>6. \A i \in 0..N : i # 0 => step[i][f[i - 1]] = Shift(f[i - 1])
  BY <1>2, <1>4, <1>5 DEF Follows
<1>7. f = [i \in 0..N |-> IF i = 0 THEN n ELSE Shift(f[i - 1])]
  BY <1>4, <1>5, <1>6 DEF Follows
<1>8. PICK g : g = Without(n)
  OBVIOUS
<1>9. g = [i \in 0..N |-> IF i = 0 THEN n ELSE Shift(g[i - 1])]
  BY <1>1, <1>7, <1>8 DEF Without, Shift
<1>10. g[0] = n /\ \A i \in 1..N : g[i] = Shift(g[i - 1])
  BY <1>9
<1>11. g \in [0..N -> Nat]
  <2> DEFINE T == {i \in 0..N : g[i] \in Nat}
  <2>1. 0 \in T
    BY <1>10
  <2>2. ASSUME NEW i \in 0..N, i < N, i \in T PROVE i + 1 \in T
    <3>1. i + 1 \in 1..N /\ (i + 1) - 1 = i
      BY <2>2
    <3>2. g[i + 1] = Shift(g[i])
      BY <1>10, <3>1
    <3> QED
      BY <2>2, <3>1, <3>2, ShiftFacts
  <2> HIDE DEF T
  <2>3. \A i \in 0..N : i \in T
    BY <2>1, <2>2, UpTo
  <2>4. \A i \in 0..N : g[i] \in Nat
    BY <2>3 DEF T
  <2> QED
    BY <1>9, <2>4
<1> QED
  BY <1>1, <1>8, <1>10, <1>11

(* Nothing is left of a number without enough of its digits. *)
LEMMA WithoutAll == ASSUME NEW n \in Nat PROVE Without(n)[WIDTH + n] = 0
<1>1. PICK N \in Nat : N = WIDTH + n /\ N >= n + 1
  BY ConstAssumption
<1>2. PICK g : g = Without(n)
  OBVIOUS
<1>3. g \in [0..N -> Nat] /\ g[0] = n /\ \A i \in 1..N : g[i] = Shift(g[i - 1])
  BY <1>1, <1>2, WithoutSteps
<1> DEFINE T == {i \in 0..N : g[i] = 0 \/ g[i] + i <= n}
<1>4. 0 \in T
  BY <1>3
<1>5. ASSUME NEW i \in 0..N, i < N, i \in T PROVE i + 1 \in T
  <2>1. i + 1 \in 1..N /\ i + 1 \in 0..N /\ (i + 1) - 1 = i
    BY <1>5
  <2>2. g[i + 1] = Shift(g[i])
    BY <1>3, <2>1
  <2>3. PICK x \in Nat : x = g[i]
    BY <1>3
  <2>4. PICK y \in Nat : y = g[i + 1]
    BY <1>3, <2>1
  <2>5. y = 0 \/ (y < x /\ x # 0)
    <3>1. y = Shift(x)
      BY <2>2, <2>3, <2>4
    <3>2. CASE x = 0
      <4>1. Shift(x) = 0
        BY <3>2, ShiftFacts
      <4> QED
        BY <3>1, <4>1
    <3>3. CASE x # 0
      <4>1. Shift(x) < x
        BY <3>3, ShiftFacts
      <4> QED
        BY <3>1, <3>3, <4>1
    <3> QED
      BY <3>2, <3>3
  <2>6. y = 0 \/ y + (i + 1) <= n
    BY <1>5, <2>3, <2>5
  <2> QED
    BY <2>1, <2>4, <2>6
<1> HIDE DEF T
<1>6. \A i \in 0..N : i \in T
  BY <1>4, <1>5, UpTo
<1>7. N \in T
  BY <1>6
<1>8. g[N] \in Nat
  BY <1>3
<1> QED
  BY <1>1, <1>2, <1>7, <1>8 DEF T

(* The digits of a name that is not longer than WIDTH. *)
LEMMA DigitsAre ==
  ASSUME NEW n \in Nat, Len(Digits(n)) = WIDTH
  PROVE  /\ Without(n)[WIDTH] = 0
         /\ \A k \in 1..WIDTH : Digits(n)[k] = LastDigit(Without(n)[WIDTH - k])
<1>1. PICK g : g = Without(n)
  OBVIOUS
<1>2. PICK I : I = {l \in WIDTH..(WIDTH + n) : g[l] = 0}
  OBVIOUS
<1>3. I \in SUBSET Nat /\ I # {}
  <2>1. WIDTH \in Nat
    BY ConstAssumption
  <2>2. WIDTH + n \in WIDTH..(WIDTH + n) /\ \A l \in WIDTH..(WIDTH + n) : l \in Nat
    BY <2>1
  <2>3. g[WIDTH + n] = 0
    BY <1>1, WithoutAll
  <2> QED
    BY <1>2, <2>2, <2>3
<1>4. PICK len : len = Min(I)
  OBVIOUS
<1>5. len \in I /\ len \in Nat
  BY <1>3, <1>4, MinOfNats
<1>6. Digits(n) = [k \in 1..len |-> LastDigit(g[len - k])]
  BY <1>1, <1>2, <1>4 DEF Digits, LastDigit
<1>7. len = WIDTH
  BY <1>5, <1>6
<1> QED
  BY <1>1, <1>2, <1>5, <1>6, <1>7

(* strcmp orders names of the same length by their numbers. *)
LEMMA NameLessIsLess ==
  ASSUME NEW m \in Nat, NEW n \in Nat, Len(Digits(m)) = WIDTH, Len(Digits(n)) = WIDTH,
         NameLess(m, n)
  PROVE  m < n
<1> SUFFICES ASSUME n <= m PROVE FALSE
  OBVIOUS
<1>1. WIDTH \in Nat
  BY ConstAssumption
<1>2. PICK p, q : p = Without(m) /\ q = Without(n)
  OBVIOUS
<1>3. /\ p \in [0..(WIDTH + m) -> Nat] /\ p[0] = m
      /\ \A i \in 1..(WIDTH + m) : p[i] = Shift(p[i - 1])
  BY <1>2, WithoutSteps
<1>4. /\ q \in [0..(WIDTH + n) -> Nat] /\ q[0] = n
      /\ \A i \in 1..(WIDTH + n) : q[i] = Shift(q[i - 1])
  BY <1>2, WithoutSteps
<1>5. \A i \in 0..WIDTH : p[i] \in Nat /\ q[i] \in Nat
  <2>1. \A i \in 0..WIDTH : i \in 0..(WIDTH + m) /\ i \in 0..(WIDTH + n)
    BY <1>1
  <2>2. p \in [0..(WIDTH + m) -> Nat] /\ q \in [0..(WIDTH + n) -> Nat]
    BY <1>3, <1>4
  <2> QED
    BY <2>1, <2>2
<1>6. ASSUME NEW i \in 1..WIDTH PROVE p[i] = Shift(p[i - 1]) /\ q[i] = Shift(q[i - 1])
  <2>1. i \in 1..(WIDTH + m) /\ i \in 1..(WIDTH + n)
    BY <1>1
  <2>2. p[i] = Shift(p[i - 1])
    BY <1>3, <2>1
  <2>3. q[i] = Shift(q[i - 1])
    BY <1>4, <2>1
  <2> QED
    BY <2>2, <2>3
<1>7. \A i \in 0..WIDTH : q[i] <= p[i]
  <2> DEFINE T == {i \in 0..WIDTH : q[i] <= p[i]}
  <2>1. 0 \in T
    BY <1>1, <1>3, <1>4
  <2>2. ASSUME NEW i \in 0..WIDTH, i < WIDTH, i \in T PROVE i + 1 \in T
    <3>1. i + 1 \in 1..WIDTH /\ i + 1 \in 0..WIDTH /\ (i + 1) - 1 = i
      BY <1>1, <2>2
    <3>2. p[i + 1] = Shift(p[i]) /\ q[i + 1] = Shift(q[i])
      BY <1>6, <3>1
    <3>3. Shift(q[i]) <= Shift(p[i])
      BY <1>5, <2>2, ShiftOrder
    <3> QED
      BY <3>1, <3>2, <3>3
  <2> HIDE DEF T
  <2>3. \A i \in 0..WIDTH : i \in T
    BY <1>1, <2>1, <2>2, UpTo
  <2> QED
    BY <2>3 DEF T
<1>8. PICK a, b : a = Digits(m) /\ b = Digits(n)
  OBVIOUS
<1>9. /\ p[WIDTH] = 0 /\ q[WIDTH] = 0 /\ Len(a) = WIDTH /\ Len(b) = WIDTH
      /\ \A k \in 1..WIDTH : a[k] = LastDigit(p[WIDTH - k]) /\ b[k] = LastDigit(q[WIDTH - k])
  BY <1>2, <1>8, DigitsAre
<1>10. PICK k \in 1..WIDTH : (\A j \in 1..(k - 1) : a[j] = b[j]) /\ a[k] < b[k]
  BY <1>1, <1>8, <1>9 DEF NameLess
<1>11. k \in Nat /\ k - 1 \in Nat /\ k - 1 \in 0..WIDTH
  BY <1>1
(* Digit j + 1 is the last digit of the number without the digits behind it. *)
<1>12. ASSUME NEW j \in 0..WIDTH, j < WIDTH
       PROVE  /\ WIDTH - j \in 0..WIDTH /\ WIDTH - (j + 1) \in 0..WIDTH /\ j + 1 \in 1..WIDTH
              /\ p[WIDTH - j] = Shift(p[WIDTH - (j + 1)])
              /\ q[WIDTH - j] = Shift(q[WIDTH - (j + 1)])
              /\ a[j + 1] = LastDigit(p[WIDTH - (j + 1)])
              /\ b[j + 1] = LastDigit(q[WIDTH - (j + 1)])
  <2>1. PICK i \in 1..WIDTH : /\ i = WIDTH - j /\ i - 1 = WIDTH - (j + 1)
                              /\ i \in 0..WIDTH /\ i - 1 \in 0..WIDTH
    BY <1>1, <1>12
  <2>2. j + 1 \in 1..WIDTH
    BY <1>1, <1>12
  <2> QED
    BY <1>6, <1>9, <2>1, <2>2
<1>13. \A j \in 0..(k - 1) : p[WIDTH - j] = q[WIDTH - j]
  <2> DEFINE T == {j \in 0..(k - 1) : p[WIDTH - j] = q[WIDTH - j]}
  <2>1. 0 \in T
    BY <1>1, <1>9, <1>11
  <2>2. ASSUME NEW j \in 0..(k - 1), j < k - 1, j \in T PROVE j + 1 \in T
    <3>1. j \in 0..WIDTH /\ j < WIDTH /\ j + 1 \in 1..(k - 1) /\ j + 1 \in 0..(k - 1)
      BY <1>1, <1>11, <2>2
    <3>2. a[j + 1] = b[j + 1]
      BY <1>10, <3>1
    <3>3. PICK x \in Nat, y \in Nat : x = p[WIDTH - (j + 1)] /\ y = q[WIDTH - (j + 1)]
      BY <1>5, <1>12, <3>1
    <3>4. Shift(x) = Shift(y) /\ LastDigit(x) = LastDigit(y)
      BY <1>12, <2>2, <3>1, <3>2, <3>3
    <3>5. x = y
      BY <3>4, ShiftOrder
    <3> QED
      BY <3>1, <3>3, <3>5
  <2> HIDE DEF T
  <2>3. \A j \in 0..(k - 1) : j \in T
    BY <1>11, <2>1, <2>2, UpTo
  <2> QED
    BY <2>3 DEF T
<1>14. PICK j \in 0..WIDTH : j = k - 1 /\ j < WIDTH /\ j + 1 = k /\ j \in 0..(k - 1)
  BY <1>1, <1>11
<1>15. PICK x \in Nat, y \in Nat : x = p[WIDTH - k] /\ y = q[WIDTH - k]
  BY <1>5, <1>12, <1>14
<1>16. Shift(x) = Shift(y) /\ LastDigit(x) < LastDigit(y)
  BY <1>10, <1>12, <1>13, <1>14, <1>15
<1>17. x < y
  BY <1>16, ShiftOrder
<1>18. y <= x
  BY <1>7, <1>12, <1>14, <1>15
<1> QED
  BY <1>17, <1>18

(* The files of a user are numbered in the order their messages were sent. *)
InSeqOrder ==
  \A u \in Users : \A f, g \in Readable(offline[u]) : f.seq < g.seq => f.msg < g.msg

(* The next number is higher than all of the directory, and the message newer. *)
LEMMA InSeqOrderStep == ASSUME IInv, InSeqOrder, Kinds PROVE InSeqOrder'
<1> SUFFICES ASSUME NEW u \in Users, NEW f \in Readable(offline'[u]),
                    NEW g \in Readable(offline'[u]), f.seq < g.seq
             PROVE  f.msg < g.msg
  BY DEF InSeqOrder, Readable
<1>0. TypeOK /\ Finite /\ Addressed
  BY DEF IInv
<1>1. CASE f \in Readable(offline[u]) /\ g \in Readable(offline[u])
  BY <1>1 DEF InSeqOrder
<1>2. ASSUME NEW n \in Nat \ {0}, Stores(u, n) PROVE f.msg < g.msg
  <2>1. Len(to) \in Nat /\ New = Len(to) + 1
    BY <1>0, LenProperties DEF TypeOK, New
  <2>2. \A h \in Readable(offline[u]) : h.msg \in 1..Len(to) /\ h.seq < n /\ h.seq \in Nat
    BY <1>0, <1>2 DEF Addressed, Sent, Stores, IsNextSeq, Readable, TypeOK, Files
  <2>3. \A h \in Readable(offline'[u]) : h \in Readable(offline[u]) \/ h = [seq |-> n, msg |-> New]
    BY <1>0, <1>2 DEF Stores, WithFile, Readable, TypeOK
  <2>4. g = [seq |-> n, msg |-> New] \/ g \in Readable(offline[u])
    BY <2>3
  <2>5. CASE g = [seq |-> n, msg |-> New]
    <3>1. f # g
      BY <2>5
    <3>2. f \in Readable(offline[u])
      BY <2>3, <2>5, <3>1
    <3> QED
      BY <2>1, <2>2, <2>5, <3>2
  <2>6. CASE g \in Readable(offline[u])
    <3>1. f # [seq |-> n, msg |-> New]
      BY <2>2, <2>6
    <3> QED
      BY <1>1, <2>3, <2>6, <3>1
  <2> QED
    BY <2>4, <2>5, <2>6
<1> QED
  BY <1>0, <1>1, <1>2, FileOrigin

(* More than one message is queued at a time only when files are handed over,
   in the order of their names. *)
LEMMA HandedOverStep ==
  ASSUME IInv, InSeqOrder, Kinds, NEW c \in Conns, NEW u \in Users,
         \A f \in offline[u] : Len(Digits(f.seq)) = WIDTH, jid_local[c] = u,
         NEW i \in (Len(write_buf[c]) + 1)..Len(write_buf'[c]),
         NEW j \in (Len(write_buf[c]) + 1)..Len(write_buf'[c]), i < j
  PROVE  write_buf'[c][i] < write_buf'[c][j]
<1>0. TypeOK /\ Finite /\ Addressed
  BY DEF IInv
<1>1. PICK old \in Nat : old = Len(write_buf[c])
  BY <1>0, LenProperties DEF TypeOK
<1>2. CASE \E x \in Conns, v \in Users : HandsOver(x, v)
  <2>1. PICK x \in Conns, v \in Users : HandsOver(x, v)
    BY <1>2
  <2>2. PICK T, d, n : Handed(x, v, T, d, n)
    BY <1>0, <2>1, HandsOverProperties
  <2>3. n \in Nat
    BY <2>2 DEF Handed
  <2>4. x = c
    <3>1. ASSUME x # c PROVE FALSE
      <4>1. write_buf'[c] = write_buf[c]
        BY <2>2, <3>1 DEF Handed
      <4> QED
        BY <1>1, <4>1
    <3> QED
      BY <3>1
  <2>5. v = u
    BY <2>1, <2>4 DEF HandsOver
  <2>6. Len(write_buf'[c]) = old + n
    BY <1>1, <2>2, <2>4 DEF Handed
  <2>7. PICK a \in 1..n, b \in 1..n : i = old + a /\ j = old + b /\ a < b
    <3>1. i - old \in 1..n /\ j - old \in 1..n /\ i - old < j - old
      BY <1>1, <2>3, <2>6
    <3>2. i = old + (i - old) /\ j = old + (j - old)
      BY <1>1, <2>3, <2>6
    <3> QED
      BY <3>1, <3>2
  <2>8. write_buf'[c][i] = d[a].msg /\ write_buf'[c][j] = d[b].msg
    BY <1>1, <2>2, <2>4, <2>7 DEF Handed
  <2>9. /\ d[a] \in Readable(T) /\ d[b] \in Readable(T) /\ T \subseteq offline[u]
        /\ NameLess(d[a].seq, d[b].seq)
    BY <2>2, <2>5, <2>7 DEF Handed
  <2>10. d[a] \in Readable(offline[u]) /\ d[b] \in Readable(offline[u])
    BY <2>9 DEF Readable
  <2>11. /\ d[a].seq \in Nat /\ d[b].seq \in Nat
         /\ Len(Digits(d[a].seq)) = WIDTH /\ Len(Digits(d[b].seq)) = WIDTH
    BY <1>0, <2>10 DEF Readable, TypeOK, Files
  <2>12. d[a].seq < d[b].seq
    BY <2>9, <2>11, NameLessIsLess
  <2> QED
    BY <2>8, <2>10, <2>12 DEF InSeqOrder
<1>3. CASE \E x \in Conns, v \in Users : Queues(x, v)
  <2>1. PICK x \in Conns, v \in Users : Queues(x, v)
    BY <1>3
  <2>2. Len(write_buf'[c]) = old \/ Len(write_buf'[c]) = old + 1
    BY <1>0, <1>1, <2>1, QueuesProperties
  <2> QED
    BY <1>1, <2>2
<1>4. CASE UNCHANGED write_buf
  BY <1>1, <1>4
<1>5. CASE \E x \in Conns : Flushes(x)
  <2>1. PICK x \in Conns : session_flush(x)
    BY <1>5 DEF Flushes
  <2>2. Len(write_buf'[c]) = old \/ Len(write_buf'[c]) = old - 1
    BY <1>0, <1>1, <2>1, FlushProperties
  <2> QED
    BY <1>1, <2>2
<1>6. CASE \E x \in Conns : \E k \in 0..Len(write_buf[x]) : Ends(x, k)
  <2>1. write_buf'[c] = write_buf[c] \/ write_buf'[c] = << >>
    BY <1>0, <1>6 DEF Ends, TypeOK
  <2>2. Len(write_buf'[c]) = old \/ Len(write_buf'[c]) = 0
    BY <1>1, <2>1
  <2> QED
    BY <1>1, <2>2
<1>7. CASE Dies
  <2>1. Len(write_buf'[c]) = 0
    BY <1>7 DEF Dies
  <2> QED
    BY <1>1, <2>1
<1> QED
  BY <1>2, <1>3, <1>4, <1>5, <1>6, <1>7 DEF Kinds, Quiet, Stores, Drops, Removes

(* Offline messages that are handed over at once arrive in the order they were
   sent, however many there are, as long as their numbers fit the names
   message_store_offline gives to the files: then strcmp, by which
   message_deliver_offline sorts, agrees with the order of the numbers. *)
THEOREM HandedOverInOrderHolds == Spec => HandedOverInOrder
<1>1. Init => IInv /\ InSeqOrder
  BY InitIInv DEF Init, InSeqOrder, Readable
<1>2. (IInv /\ InSeqOrder) /\ [Next]_vars => (IInv /\ InSeqOrder)'
  BY IInvStep, InSeqOrderStep
<1>3. IInv /\ InSeqOrder /\ [Next]_vars =>
        [\A c \in Conns, u \in Users :
           LET old == Len(write_buf[c])
               new == write_buf'[c]
           IN (\A f \in offline[u] : Len(Digits(f.seq)) = WIDTH) /\ jid_local[c] = u /\ Len(new) > old =>
                \A i, j \in (old + 1)..Len(new) : i < j => new[i] < new[j]]_vars
  BY IInvStep, HandedOverStep
<1> QED
  BY <1>1, <1>2, <1>3, PTL DEF Spec, HandedOverInOrder
-----------------------------------------------------------------------------
(* The table *)

(* Every step uses the table as ClientTable allows: a session that a bind
   displaces is in the table, and is taken out by one swap; a crash empties it. *)
THEOREM UsesTableHolds == Spec => Table!Spec
<1>1. Init => Table!Init
  BY DEF Init, Table!Init
<1>2. IInv /\ [Next]_vars => [Table!Next]_tab
  <2> SUFFICES ASSUME IInv, [Next]_vars PROVE Table!Next \/ tab' = tab
    OBVIOUS
  <2>0. TypeOK /\ Named
    BY DEF IInv
  <2>1. CASE \E c \in Conns : Accept(c)
    BY <2>1 DEF Accept, Table!Next
  <2>2. CASE \E c \in Conns : session_teardown(c)
    BY <2>2 DEF session_teardown, Table!Next
  <2>3. CASE \E c \in Conns : session_handle_bind(c)
    <3>1. PICK c \in Conns : session_handle_bind(c)
      BY <2>3
    <3>2. PICK x : x = FindByJid(jid_local[c])
      OBVIOUS
    <3>3. jid_local[c] \in Users /\ c \in InTable
      BY <2>0, <3>1 DEF session_handle_bind, TypeOK, Named
    <3>4. x \in Conns /\ x \in InTable
      BY <2>0, <3>2, <3>3, FindByJidProperties
    <3>5. CASE x = c
      BY <3>1, <3>2, <3>5 DEF session_handle_bind
    <3>6. CASE x # c
      <4>1. tab' = Table!SwapRemove(tab, x)
        BY <3>1, <3>2, <3>6 DEF session_handle_bind
      <4>2. Table!Remove(x)
        BY <3>4, <4>1 DEF InTable, Table!Remove, Table!Members
      <4> QED
        BY <3>4, <4>2 DEF Table!Next
    <3> QED
      BY <3>5, <3>6
  <2>4. CASE Dying
    <3>1. tab' = << >>
      BY <2>4 DEF Dying, Crash, CrashStoring, CrashDelivering, CrashRemoving, Death
    <3> QED
      BY <3>1 DEF Table!Next, Table!Clear
  <2>5. CASE \/ UNCHANGED vars
             \/ \E c \in Conns : session_handle_session_iq(c) \/ BecomeUnavailable(c)
             \/ \E c \in Conns, u \in Users : Authenticate(c, u)
             \/ \E c \in Conns : session_flush(c) \/ BecomeAvailable(c) \/ RemoveAccount(c)
             \/ \E u \in Users : user_create(u)
             \/ \E c \in Conns, u \in Users :
                  DeliverNow(c, u) \/ message_store_offline(c, u) \/ NotStored(c, u)
    BY <2>5 DEF vars, sessVars, session_handle_session_iq, BecomeUnavailable, Authenticate,
                session_flush, BecomeAvailable, DeliverNow, message_store_offline, NotStored,
                RemoveAccount, user_create
  <2> QED
    BY <2>1, <2>2, <2>3, <2>4, <2>5 DEF Next, Serving
<1> QED
  BY <1>1, <1>2, Invariance, PTL DEF Spec, Table!Spec
=============================================================================
