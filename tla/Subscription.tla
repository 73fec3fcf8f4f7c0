---------------------------- MODULE Subscription ----------------------------
(***************************************************************************)
(* Rosters, presence and presence subscriptions of the C server            *)
(* (src/c/src/presence.c, roster.c).  A handler runs to its end without    *)
(* interruption; what makes it hard is that the roster it must change is   *)
(* in memory when its owner has a session that has loaded it, and on disk  *)
(* when not, and that every change touches the rosters of two users.       *)
(*                                                                         *)
(* The handlers do not look at the domain of the JID they are given.  They *)
(* find the addressee's session by the whole bare JID, and its roster file *)
(* by the local part only: a JID at another domain whose local part is the *)
(* name of a user names that user's file and never its session.  A user    *)
(* stands here for its own JID, an alias for any other.                    *)
(*                                                                         *)
(* A user has at most one session here (a user with two is the subject of  *)
(* Negotiation!OneSessionPerUser).  A roster maps each JID to an item;     *)
(* an item that is not there has sub = "absent".  Names of contacts, the   *)
(* roster pushes and the text of presence are left out.  told, asked and   *)
(* shown record what the clients have been sent, strayed what was done to  *)
(* a user's file under another domain.                                     *)
(***************************************************************************)
EXTENDS Naturals, FiniteSets

CONSTANTS
  Users,
  Aliases,          \* JIDs that no session has: at another domain, or of no account
  Local,            \* [alias -> the user with its local part, or NOBODY]
  NOBODY,
  Pairs,            \* who addresses whom: a set of <<sender, JID>>
  Requests,         \* which requests the clients make
  MAX_ROSTER_ITEMS,
  CrashIn           \* the handlers in which the process may die between two saves

AllRequests == {"subscribe", "subscribed", "unsubscribe", "unsubscribed", "add", "remove"}

ASSUME ConstAssumption ==
  /\ Users \cap Aliases = {}
  /\ NOBODY \notin Users
  /\ Local \in [Aliases -> Users \cup {NOBODY}]
  /\ Pairs \subseteq Users \X (Users \cup Aliases)
  /\ Requests \subseteq AllRequests
  /\ MAX_ROSTER_ITEMS \in Nat
  /\ CrashIn \subseteq {"subscribed", "unsubscribe", "unsubscribed"}

VARIABLES
  disk,       \* [user -> roster.xml]
  online,     \* [user -> has a session]
  loaded,     \* [user -> roster.loaded of the session]
  cache,      \* [user -> roster of the session]
  available,  \* [user -> available]
  initial,    \* [user -> initial_presence_sent]
  told,       \* [u -> the users last shown as available to u's session]
  crashed,    \* the process has died
  asked,      \* [u -> the users whose subscribe was sent to u's session]
  shown,      \* <<u, v>>: this step sent v's available presence to u
  strayed     \* <<u, v>>: v changed its item in u's file under an alias of u

sessVars == <<online, loaded, cache, available, initial>>
vars == <<disk, sessVars, crashed, told, asked, shown, strayed>>

Subs == {"absent", "none", "from", "to", "both"}
Items == [sub : Subs, ask : BOOLEAN]
NoItem == [sub |-> "absent", ask |-> FALSE]
Keys == Users \cup Aliases
EmptyRoster == [k \in Keys |-> NoItem]

Present(it) == it.sub # "absent"
sub_has_to(it) == it.sub \in {"to", "both"}
sub_has_from(it) == it.sub \in {"from", "both"}

Init ==
  /\ disk = [u \in Users |-> EmptyRoster]
  /\ online = [u \in Users |-> FALSE]
  /\ loaded = [u \in Users |-> FALSE]
  /\ cache = [u \in Users |-> EmptyRoster]
  /\ available = [u \in Users |-> FALSE]
  /\ initial = [u \in Users |-> FALSE]
  /\ crashed = FALSE
  /\ told = [u \in Users |-> {}]
  /\ asked = [u \in Users |-> {}]
  /\ shown = {}
  /\ strayed = {}
-----------------------------------------------------------------------------
(* mutant: 'both' is forgotten *)
LoseTo_NotBoth == [it \in Items |->
  CASE it.sub = "to" -> [sub |-> "none", ask |-> FALSE]
    [] it.sub = "absent" -> it
    [] OTHER -> [it EXCEPT !.ask = FALSE]]

(* What the four subscription stanzas do to the item of the sender and to
   that of the addressee. *)
GainFrom == [it \in Items |->
  CASE it.sub \in {"absent", "none"} -> [it EXCEPT !.sub = "from"]
    [] it.sub = "to" -> [it EXCEPT !.sub = "both"]
    [] OTHER -> it]
GainTo == [it \in Items |->
  CASE it.sub = "none" -> [sub |-> "to", ask |-> FALSE]
    [] it.sub = "from" -> [sub |-> "both", ask |-> FALSE]
    [] it.sub = "absent" -> it
    [] OTHER -> [it EXCEPT !.ask = FALSE]]
LoseTo == [it \in Items |->
  CASE it.sub = "to" -> [sub |-> "none", ask |-> FALSE]
    [] it.sub = "both" -> [sub |-> "from", ask |-> FALSE]
    [] it.sub = "absent" -> it
    [] OTHER -> [it EXCEPT !.ask = FALSE]]
LoseFrom == [it \in Items |->
  CASE it.sub = "from" -> [it EXCEPT !.sub = "none"]
    [] it.sub = "both" -> [it EXCEPT !.sub = "to"]
    [] OTHER -> it]

Full(r) == Cardinality({k \in Keys : Present(r[k])}) >= MAX_ROSTER_ITEMS

(* The roster a handler of u's session works on: roster_load when needed. *)
Mine(u) == IF loaded[u] THEN cache[u] ELSE disk[u]

(* A session ends: its memory is gone. *)
Offline(U) ==
  /\ online' = [u \in Users |-> online[u] /\ u \notin U]
  /\ loaded' = [u \in Users |-> loaded[u] /\ u \notin U]
  /\ cache' = [u \in Users |-> IF u \in U THEN EmptyRoster ELSE cache[u]]
  /\ available' = [u \in Users |-> available[u] /\ u \notin U]
  /\ initial' = [u \in Users |-> initial[u] /\ u \notin U]
  /\ asked' = [u \in Users |-> IF u \in U THEN {} ELSE asked[u]]

(* The process ends: every session is lost, and no presence is broadcast. *)
SessionsLost ==
  /\ Offline(Users)
  /\ told' = [u \in Users |-> {}]
  /\ shown' = {}
  /\ UNCHANGED strayed

Die == SessionsLost /\ UNCHANGED disk

(* It is stopped, or has crashed, and is started again. *)
Restart == Die /\ crashed' = FALSE

(* A user logs in: session_find_by_jid finds the new session. *)
Login(u) ==
  /\ ~crashed /\ ~online[u]
  /\ online' = [online EXCEPT ![u] = TRUE]
  /\ shown' = {}
  /\ UNCHANGED <<disk, loaded, cache, available, initial, crashed, told, asked, strayed>>

(* presence_broadcast_unavailable: who is told that u is gone. *)
ToldGone(u) ==
  [v \in Users |-> IF v # u /\ online[v] /\ sub_has_from(Mine(u)[v])
                     THEN told[v] \ {u} ELSE told[v]]

(* session_teardown *)
Logout(u) ==
  /\ online[u]
  /\ Offline({u})
  /\ told' = [IF available[u] \/ initial[u] THEN ToldGone(u) ELSE told EXCEPT ![u] = {}]
  /\ shown' = {}
  /\ UNCHANGED <<disk, crashed, strayed>>

(* mutants: the directions are swapped *)
Audience_To(u) == {v \in Users : online[v] /\ sub_has_to(Mine(u)[v])}
Contacts_From(u) == {v \in Users : (available[v] \/ v = u) /\ sub_has_from(Mine(u)[v])}

(* Who gets u's available presence, and whose presence u gets. *)
Audience(u) == {v \in Users : online[v] /\ sub_has_from(Mine(u)[v])}
Contacts(u) == {v \in Users : (available[v] \/ v = u) /\ sub_has_to(Mine(u)[v])}

(* presence_redeliver_pending_subscribes: whose request u is sent again. *)
Pending(u) == {v \in Users \ {u} : online[v] /\ loaded[v] /\ cache[v][u].ask}

(* presence_handle_available, its redelivery of pending requests included. *)
presence_handle_available(u) ==
  LET sent == {<<v, u>> : v \in Audience(u)} \cup {<<u, v>> : v \in Contacts(u)}
  IN
  /\ online[u]
  /\ available' = [available EXCEPT ![u] = TRUE]
  /\ initial' = [initial EXCEPT ![u] = TRUE]
  /\ loaded' = [loaded EXCEPT ![u] = TRUE]
  /\ cache' = [cache EXCEPT ![u] = Mine(u)]
  /\ shown' = sent
  /\ told' = [v \in Users |-> told[v] \cup {w \in Users : <<v, w>> \in sent}]
  /\ asked' = [asked EXCEPT ![u] = IF available[u] THEN @ ELSE @ \cup Pending(u)]
  /\ UNCHANGED <<disk, online, crashed, strayed>>

(* presence_handle_unavailable *)
presence_handle_unavailable(u) ==
  /\ online[u]
  /\ available' = [available EXCEPT ![u] = FALSE]
  /\ told' = IF available[u] \/ initial[u] THEN ToldGone(u) ELSE told
  /\ loaded' = [loaded EXCEPT ![u] = @ \/ available[u] \/ initial[u]]
  /\ cache' = [cache EXCEPT ![u] = IF available[u] \/ initial[u] THEN Mine(u) ELSE @]
  /\ shown' = {}
  /\ UNCHANGED <<disk, online, initial, crashed, asked, strayed>>
-----------------------------------------------------------------------------
(* The roster of session s becomes r, and is saved if it is to be. *)
OwnRoster(s, r, saved) ==
  /\ loaded' = [loaded EXCEPT ![s] = TRUE]
  /\ cache' = [cache EXCEPT ![s] = r]
  /\ disk' = [disk EXCEPT ![s] = IF saved THEN r ELSE @]

(* A roster that is full: roster_add_item refuses, and the null item that
   roster_find_item then returns is used by roster_push: the process dies. *)
NullItem(s, t) == ~Present(Mine(s)[t]) /\ Full(Mine(s))

(* session_find_by_jid finds a session by local part and domain. *)
Found(t) == t \in Users /\ online[t]

(* roster_load_for_user and roster_save_for_user name the file by the local
   part; that of NOBODY is no user's file. *)
FileOf(t) == IF t \in Users THEN t ELSE Local[t]

presence_handle_subscribe(s, t) ==
  LET r == [Mine(s) EXCEPT ![t] = IF Present(@) THEN [@ EXCEPT !.ask = TRUE]
                                  ELSE [sub |-> "none", ask |-> TRUE]] IN
  /\ online[s]
  /\ IF NullItem(s, t) THEN Die /\ crashed' = TRUE
     ELSE /\ OwnRoster(s, r, TRUE)
          /\ asked' = IF Found(t) THEN [asked EXCEPT ![t] = @ \cup {s}] ELSE asked
          /\ shown' = {}
          /\ UNCHANGED <<online, available, initial, crashed, told, strayed>>

(* mutant: the roster on disk is changed even when it is loaded *)
InMemory_Never(t, ld) == FALSE

(* target_session && target_session->roster.loaded *)
InMemory(t, ld) == Found(t) /\ ld[t]

(* The two rosters that subscribed, unsubscribe and unsubscribed change: the
   sender's item for the addressee by Own, the addressee's item for the sender
   by Their.  The addressee's roster is the one in memory if its session is
   found and has loaded it, else the one in the file with the local part of the
   JID.  always: saved even when there is no item. *)
BothRosters(s, t, Own, Their, always) ==
  LET mine == Mine(s)
      mine1 == [mine EXCEPT ![t] = Own[@]]
      loaded1 == [loaded EXCEPT ![s] = TRUE]
      cache1 == [cache EXCEPT ![s] = mine1]
      disk1 == [disk EXCEPT ![s] = IF always \/ Present(mine[t]) THEN mine1 ELSE @]
      inMemory == InMemory(t, loaded1)
      file == FileOf(t)
      theirs == CASE inMemory -> cache1[t]
                  [] ~inMemory /\ file \in Users -> disk1[file]
                  [] OTHER -> EmptyRoster
      theirs1 == [theirs EXCEPT ![s] = Their[@]]
      saved == file \in Users /\ (always \/ Present(theirs[s]))
  IN
  /\ loaded' = loaded1
  /\ cache' = IF inMemory THEN [cache1 EXCEPT ![t] = theirs1] ELSE cache1
  /\ disk' = IF saved THEN [disk1 EXCEPT ![file] = theirs1] ELSE disk1
  /\ strayed' = IF t \in Aliases /\ saved /\ theirs1 # theirs
                   THEN strayed \cup {<<file, s>>} ELSE strayed

(* The process dies after the sender's roster is saved and before the
   addressee's is. *)
CrashBetweenSaves(s, t, Own, always) ==
  /\ online[s]
  /\ always \/ Present(Mine(s)[t])
  /\ disk' = [disk EXCEPT ![s] = [Mine(s) EXCEPT ![t] = Own[@]]]
  /\ SessionsLost
  /\ crashed' = TRUE

CrashSubscribed(s, t) == ~NullItem(s, t) /\ CrashBetweenSaves(s, t, GainFrom, TRUE)
CrashUnsubscribe(s, t) == CrashBetweenSaves(s, t, LoseTo, FALSE)
CrashUnsubscribed(s, t) == CrashBetweenSaves(s, t, LoseFrom, FALSE)

presence_handle_subscribed(s, t) ==
  /\ online[s]
  /\ IF NullItem(s, t) THEN Die /\ crashed' = TRUE
     ELSE LET seen == Found(t) /\ available[s] IN
          /\ BothRosters(s, t, GainFrom, GainTo, TRUE)
          /\ shown' = IF seen THEN {<<t, s>>} ELSE {}
          /\ told' = IF seen THEN [told EXCEPT ![t] = @ \cup {s}] ELSE told
          /\ UNCHANGED <<online, available, initial, crashed, asked>>

(* Both notify the addressee only when its session has loaded its roster. *)
Unavailable(s, t) ==
  /\ told' = IF InMemory(t, [loaded EXCEPT ![s] = TRUE]) /\ available[s]
               THEN [told EXCEPT ![t] = @ \ {s}] ELSE told
  /\ shown' = {}
  /\ UNCHANGED <<online, available, initial, crashed, asked>>

presence_handle_unsubscribe(s, t) ==
  /\ online[s]
  /\ BothRosters(s, t, LoseTo, LoseFrom, FALSE)
  /\ Unavailable(s, t)

presence_handle_unsubscribed(s, t) ==
  /\ online[s]
  /\ BothRosters(s, t, LoseFrom, LoseTo, FALSE)
  /\ Unavailable(s, t)

(* roster_handle_iq: get, set, and set with subscription='remove'. *)
RosterGet(s) ==
  /\ online[s]
  /\ OwnRoster(s, Mine(s), FALSE)
  /\ shown' = {}
  /\ UNCHANGED <<online, available, initial, crashed, told, asked, strayed>>

(* mutant: the item to be removed is kept with the value of the attribute *)
RosterSet_Stores(s, t, remove) ==
  /\ online[s]
  /\ OwnRoster(s, IF remove THEN [Mine(s) EXCEPT ![t].sub = "remove"] ELSE Mine(s), TRUE)
  /\ shown' = {}
  /\ UNCHANGED <<online, available, initial, crashed, told, asked, strayed>>

RosterSet(s, t, remove) ==
  LET mine == Mine(s)
      r == CASE remove -> [mine EXCEPT ![t] = NoItem]
             [] ~remove /\ (Present(mine[t]) \/ Full(mine)) -> mine
             [] OTHER -> [mine EXCEPT ![t].sub = "none"]
  IN
  /\ online[s]
  /\ OwnRoster(s, r, TRUE)
  /\ shown' = {}
  /\ UNCHANGED <<online, available, initial, crashed, told, asked, strayed>>
-----------------------------------------------------------------------------
Request(s, t) ==
  \/ "subscribe" \in Requests /\ presence_handle_subscribe(s, t)
  \/ "subscribed" \in Requests /\ presence_handle_subscribed(s, t)
  \/ "unsubscribe" \in Requests /\ presence_handle_unsubscribe(s, t)
  \/ "unsubscribed" \in Requests /\ presence_handle_unsubscribed(s, t)
  \/ "add" \in Requests /\ RosterSet(s, t, FALSE)
  \/ "remove" \in Requests /\ RosterSet(s, t, TRUE)

Crash(s, t) ==
  \/ "subscribed" \in Requests \cap CrashIn /\ CrashSubscribed(s, t)
  \/ "unsubscribe" \in Requests \cap CrashIn /\ CrashUnsubscribe(s, t)
  \/ "unsubscribed" \in Requests \cap CrashIn /\ CrashUnsubscribed(s, t)

Next ==
  \/ Restart
  \/ \E u \in Users :
       \/ Login(u) \/ Logout(u) \/ RosterGet(u)
       \/ presence_handle_available(u) \/ presence_handle_unavailable(u)
  \/ \E p \in Pairs : Request(p[1], p[2]) \/ Crash(p[1], p[2])

Spec == Init /\ [][Next]_vars
-----------------------------------------------------------------------------
(* Properties *)

Rosters == [Keys -> Items]

(* The types of the state; an item holds one of the subscription values the
   protocol knows. *)
TypeOK ==
  /\ disk \in [Users -> Rosters]
  /\ online \in [Users -> BOOLEAN]
  /\ loaded \in [Users -> BOOLEAN]
  /\ cache \in [Users -> Rosters]
  /\ available \in [Users -> BOOLEAN]
  /\ initial \in [Users -> BOOLEAN]
  /\ crashed \in BOOLEAN
  /\ told \in [Users -> SUBSET Users]
  /\ asked \in [Users -> SUBSET Users]
  /\ shown \subseteq Users \X Users
  /\ strayed \subseteq Users \X Users

(* A roster held in memory is the one on disk, item by item, after any handler
   of any user: no change made through one of the two is lost through the
   other.  The exceptions are the items changed in the file under an alias of
   its owner, whose session the handlers then do not find. *)
CacheCoherent ==
  \A u \in Users : loaded[u] =>
    \A k \in Keys : cache[u][k] = disk[u][k] \/ <<u, k>> \in strayed

(* Neither of the two users has changed its item in the other's file under an
   alias of the other. *)
Clear(u, v) == <<u, v>> \notin strayed /\ <<v, u>> \notin strayed

(* Who sees a user's presence has that user's consent: an item 'to' on one
   side has its 'from' on the other, whoever is online, also after a crash
   between the two saves of an approval.  It is for clients that do not remove
   items (roster_handle_iq removes them on one side only), for two users that
   address each other by their own JIDs, and for no crash in the middle of
   unsubscribed, which saves the consenting side first. *)
ToHasFrom ==
  \A u, v \in Users : Clear(u, v) /\ sub_has_to(disk[u][v]) => sub_has_from(disk[v][u])

(* Available presence is sent only to contacts the sender has authorised.
   On login it is the receiver's own 'to' that decides, so this rests on the
   two rosters agreeing. *)
ShownOnlyAuthorised ==
  \A p \in shown : Clear(p[1], p[2]) => sub_has_from(disk[p[2]][p[1]])

(* Two available users, one subscribed to the other: it has been shown the
   other's presence, in whatever order they logged in, asked and approved. *)
SubscriberSees ==
  \A u, v \in Users :
    available[u] /\ available[v] /\ Clear(u, v) /\ sub_has_to(disk[u][v]) => v \in told[u]

(* "when bob comes online, the server checks all local users' rosters" and
   delivers again the requests still pending. *)
PendingDelivered ==
  \A s, t \in Users :
    available[t] /\ disk[s][t].ask /\ ~sub_has_to(disk[s][t]) /\ s # t => s \in asked[t]
=============================================================================
