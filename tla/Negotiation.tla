---------------------------- MODULE Negotiation ----------------------------
(***************************************************************************)
(* From connection to active session in the C server: the SAX callbacks    *)
(* that find streams and stanzas in the input (src/c/src/xml.c), stream    *)
(* open and close (stream.c), routing by session state (stanza.c), SASL    *)
(* (auth.c), resource binding (session.c), in-band registration            *)
(* (register.c) and the accounts on disk (user.c).                         *)
(*                                                                         *)
(* session_on_readable hands one chunk of input to the parser; BeginRead   *)
(* and EndRead bracket the callbacks it makes, whose effects on the parser *)
(* and on the session itself are put off to EndRead.  No other session is  *)
(* served in between.  The table of sessions is the one ClientTable        *)
(* specifies and EventLoop implements.  Stanzas that are only answered or  *)
(* forwarded change nothing here; they are OnRouted and OnAnswered.        *)
(***************************************************************************)
EXTENDS Integers, Sequences

CONSTANTS
  Conns,        \* connections
  Users,        \* valid user names
  Passwords,
  NONE,         \* no session / jid_local not set / no user.conf
  MAX_CLIENTS,  \* poll array, the listener included
  MaxEvents     \* bound: SAX events of one chunk

ASSUME ConstAssumption ==
  /\ NONE \notin Conns \cup Users \cup Passwords
  /\ MAX_CLIENTS \in Nat \ {0, 1}
  /\ MaxEvents \in Nat \ {0}

VARIABLES
  tab,                  \* sessions in table order
  state,                \* [c -> enum session_state]
  authenticated,        \* [c -> BOOLEAN]
  jid_local,            \* [c -> the user, or NONE]
  stanza_depth,         \* [c -> open elements; 2 is a stream header taken for a stanza]
  parser_reset_pending, \* [c -> BOOLEAN]
  teardown_pending,     \* [c -> BOOLEAN]
  ended,                \* [c -> the parser has seen the end of the document]
  cur, events,          \* session inside xmlParseChunk; callbacks it may still make
  password              \* [user -> what user.conf holds, or NONE]

sessVars == <<state, authenticated, jid_local, stanza_depth,
              parser_reset_pending, teardown_pending, ended>>
vars == <<tab, sessVars, cur, events, password>>

Table == INSTANCE ClientTable

States == {"CONNECTED", "STREAM_OPENED", "AUTHENTICATED", "BOUND", "SESSION_ACTIVE"}
InTable == {tab[k] : k \in DOMAIN tab}

Init ==
  /\ tab = << >>
  /\ state = [c \in Conns |-> "CONNECTED"]
  /\ authenticated = [c \in Conns |-> FALSE]
  /\ jid_local = [c \in Conns |-> NONE]
  /\ stanza_depth = [c \in Conns |-> 0]
  /\ parser_reset_pending = [c \in Conns |-> FALSE]
  /\ teardown_pending = [c \in Conns |-> FALSE]
  /\ ended = [c \in Conns |-> FALSE]
  /\ cur = NONE /\ events = 0
  /\ password = [u \in Users |-> NONE]
-----------------------------------------------------------------------------
(* session_create: calloc; the fields of a closed connection are as fresh. *)
Fresh(c) ==
  /\ state' = [state EXCEPT ![c] = "CONNECTED"]
  /\ authenticated' = [authenticated EXCEPT ![c] = FALSE]
  /\ jid_local' = [jid_local EXCEPT ![c] = NONE]
  /\ stanza_depth' = [stanza_depth EXCEPT ![c] = 0]
  /\ parser_reset_pending' = [parser_reset_pending EXCEPT ![c] = FALSE]
  /\ teardown_pending' = [teardown_pending EXCEPT ![c] = FALSE]
  /\ ended' = [ended EXCEPT ![c] = FALSE]

(* mutant: a connection is taken although the table is full *)
Accept_Unchecked(c) ==
  /\ cur = NONE
  /\ c \notin InTable /\ tab' = Append(tab, c)
  /\ UNCHANGED <<sessVars, cur, events, password>>

Accept(c) ==
  /\ cur = NONE
  /\ Table!Add(c)
  /\ UNCHANGED <<sessVars, cur, events, password>>

(* session_teardown *)
session_teardown(c) == Table!Remove(c) /\ Fresh(c)

(* The client leaves, or its input overruns read_buf. *)
Drop(c) ==
  /\ cur = NONE
  /\ session_teardown(c)
  /\ UNCHANGED <<cur, events, password>>

BeginRead(c) ==
  /\ cur = NONE /\ c \in InTable
  /\ cur' = c /\ events' = MaxEvents
  /\ UNCHANGED <<tab, sessVars, password>>

(* mutant: the parser is not replaced *)
AfterReset_Kept(d) == d

(* xml_parser_reset, when it is due *)
AfterReset(d) == IF parser_reset_pending[cur] THEN 0 ELSE d

(* xmlParseChunk returns: the deferred parser reset, then the deferred close. *)
EndRead ==
  /\ cur # NONE
  /\ IF teardown_pending[cur]
       THEN session_teardown(cur)
       ELSE /\ parser_reset_pending' = [parser_reset_pending EXCEPT ![cur] = FALSE]
            /\ stanza_depth' = [stanza_depth EXCEPT ![cur] = AfterReset(@)]
            /\ ended' = [ended EXCEPT ![cur] = @ /\ ~parser_reset_pending[cur]]
            /\ UNCHANGED <<tab, state, authenticated, jid_local, teardown_pending>>
  /\ cur' = NONE /\ events' = 0
  /\ UNCHANGED password
-----------------------------------------------------------------------------
(* SAX events.  After the end of the document the parser reports errors only. *)
Event == cur # NONE /\ events > 0 /\ events' = events - 1 /\ UNCHANGED cur
Content == Event /\ ~ended[cur]
Stanza == Content /\ stanza_depth[cur] = 1

(* mutant: the close is forgotten *)
StreamError_Forgets == UNCHANGED teardown_pending

(* stream_send_error on the session that is being parsed *)
StreamError == teardown_pending' = [teardown_pending EXCEPT ![cur] = TRUE]

(* on_start_element_ns at depth 0 and stream_handle_open: good says whether
   the element names our domain in its to attribute. *)
OnStreamOpen(good) ==
  /\ Content /\ stanza_depth[cur] = 0
  /\ stanza_depth' = [stanza_depth EXCEPT ![cur] = 1]
  /\ IF good THEN state' = [state EXCEPT ![cur] = "STREAM_OPENED"] /\ UNCHANGED teardown_pending
             ELSE StreamError /\ UNCHANGED state
  /\ UNCHANGED <<tab, authenticated, jid_local, parser_reset_pending, ended, password>>

(* A stream header where a stanza is expected opens an element of depth 2,
   and what follows is built into it, not routed. *)
OnNestedOpen ==
  /\ Stanza
  /\ stanza_depth' = [stanza_depth EXCEPT ![cur] = 2]
  /\ UNCHANGED <<tab, state, authenticated, jid_local, parser_reset_pending,
                 teardown_pending, ended, password>>

(* on_end_element_ns of a stream element: the outer one closes the stream;
   the inner one is routed as a stanza of unknown name.  The code does not look
   at the depth: that an element is open is libxml2's well-formedness. *)
OnStreamClose ==
  /\ Content /\ stanza_depth[cur] > 0
  /\ stanza_depth' = [stanza_depth EXCEPT ![cur] = @ - 1]
  /\ ended' = [ended EXCEPT ![cur] = stanza_depth[cur] = 1]
  /\ StreamError
  /\ UNCHANGED <<tab, state, authenticated, jid_local, parser_reset_pending, password>>

(* on_structured_error; after a namespace error the parser goes on. *)
OnXmlError ==
  /\ Event /\ StreamError
  /\ UNCHANGED <<tab, state, authenticated, jid_local, stanza_depth,
                 parser_reset_pending, ended, password>>
-----------------------------------------------------------------------------
(* mutant: an authenticated session may authenticate again after the restart *)
PreAuth_StateOnly == state[cur] = "STREAM_OPENED"

(* stanza_route *)
PreAuth == state[cur] = "STREAM_OPENED" /\ ~authenticated[cur]
Established == state[cur] \in {"BOUND", "SESSION_ACTIVE"}

(* user.c: an account exists when its user.conf does.  Passwords are taken to
   have no blanks at their ends, which user_check_password would trim. *)
user_exists(u) == password[u] # NONE
user_check_password(u, pw) == password[u] = pw
user_create(u, pw) == IF user_exists(u) THEN password ELSE [password EXCEPT ![u] = pw]
user_change_password(u, pw) == IF user_exists(u) THEN [password EXCEPT ![u] = pw] ELSE password
user_delete(u) == [password EXCEPT ![u] = NONE]

(* auth_handle_sasl; a failure is only answered. *)
OnAuth(u, pw) ==
  /\ Stanza /\ PreAuth
  /\ IF user_check_password(u, pw)
       THEN /\ jid_local' = [jid_local EXCEPT ![cur] = u]
            /\ authenticated' = [authenticated EXCEPT ![cur] = TRUE]
            /\ state' = [state EXCEPT ![cur] = "AUTHENTICATED"]
            /\ parser_reset_pending' = [parser_reset_pending EXCEPT ![cur] = TRUE]
       ELSE UNCHANGED <<jid_local, authenticated, state, parser_reset_pending>>
  /\ UNCHANGED <<tab, stanza_depth, teardown_pending, ended, password>>

(* Stream errors of stanza_route: not-authorized, unsupported-stanza-type. *)
OnRefused ==
  /\ Stanza /\ StreamError
  /\ UNCHANGED <<tab, state, authenticated, jid_local, stanza_depth,
                 parser_reset_pending, ended, password>>

(* mutant: any session that has a user is taken *)
FindByJid_AnyUser(u) ==
  LET Known == {k \in DOMAIN tab : jid_local[tab[k]] # NONE}
  IN IF u = NONE \/ Known = {} THEN NONE ELSE tab[CHOOSE k \in Known : TRUE]

(* session_find_by_jid: the first session, in table order, that has the jid. *)
FindByJid(u) ==
  LET First == {k \in DOMAIN tab : /\ jid_local[tab[k]] = u
                                   /\ \A j \in 1..(k - 1) : jid_local[tab[j]] # u}
  IN IF u = NONE \/ First = {} THEN NONE ELSE tab[CHOOSE k \in First : TRUE]

CanBind == ~PreAuth /\ state[cur] \in {"AUTHENTICATED", "STREAM_OPENED"}

(* session_handle_bind: the session found under the jid, if it is another one,
   is closed at once (it is not being parsed). *)
OnBind ==
  LET existing == FindByJid(jid_local[cur])
      kick == existing # NONE /\ existing # cur
      Of(f, v) == IF kick THEN [f EXCEPT ![existing] = v] ELSE f
  IN
  /\ Stanza /\ CanBind
  /\ tab' = IF kick THEN Table!SwapRemove(tab, existing) ELSE tab
  /\ state' = [Of(state, "CONNECTED") EXCEPT ![cur] = "BOUND"]
  /\ authenticated' = Of(authenticated, FALSE)
  /\ jid_local' = Of(jid_local, NONE)
  /\ stanza_depth' = Of(stanza_depth, 0)
  /\ parser_reset_pending' = Of(parser_reset_pending, FALSE)
  /\ teardown_pending' = Of(teardown_pending, FALSE)
  /\ ended' = Of(ended, FALSE)
  /\ UNCHANGED password

(* session_handle_session_iq has no condition of its own. *)
OnSessionIq ==
  /\ Stanza /\ ~PreAuth
  /\ state' = [state EXCEPT ![cur] = "SESSION_ACTIVE"]
  /\ UNCHANGED <<tab, authenticated, jid_local, stanza_depth,
                 parser_reset_pending, teardown_pending, ended, password>>

(* message, presence, roster and disco of an established session *)
OnRouted ==
  /\ Stanza /\ ~PreAuth /\ Established
  /\ UNCHANGED <<tab, sessVars, password>>

(* an iq that is answered with a result or an error, or forwarded, in any state *)
OnAnswered == Stanza /\ UNCHANGED <<tab, sessVars, password>>

(* register_handle_iq, set: create an account before authentication, change
   one's own password after it; anything else is answered with an error. *)
OnRegister(u, pw) ==
  /\ Stanza
  /\ password' = CASE ~authenticated[cur] -> user_create(u, pw)
                   [] authenticated[cur] /\ jid_local[cur] = u -> user_change_password(u, pw)
                   [] OTHER -> password
  /\ UNCHANGED <<tab, sessVars>>

(* register_handle_iq, set with remove: user_delete, and close after the parse. *)
OnRemoveAccount ==
  /\ Stanza
  /\ IF authenticated[cur]
       THEN password' = user_delete(jid_local[cur]) /\ StreamError
       ELSE UNCHANGED <<password, teardown_pending>>
  /\ UNCHANGED <<tab, state, authenticated, jid_local, stanza_depth,
                 parser_reset_pending, ended>>
-----------------------------------------------------------------------------
Next ==
  \/ \E c \in Conns : Accept(c) \/ Drop(c) \/ BeginRead(c)
  \/ EndRead
  \/ \E good \in BOOLEAN : OnStreamOpen(good)
  \/ OnNestedOpen \/ OnStreamClose \/ OnXmlError \/ OnRefused
  \/ \E u \in Users, pw \in Passwords : OnAuth(u, pw) \/ OnRegister(u, pw)
  \/ OnBind \/ OnSessionIq \/ OnRouted \/ OnAnswered \/ OnRemoveAccount

Spec == Init /\ [][Next]_vars
-----------------------------------------------------------------------------
(* Properties *)

(* The types of the state; the table never outgrows the poll array, one slot
   of which is the listener's (server_accept). *)
TypeOK ==
  /\ tab \in Seq(Conns) /\ Len(tab) < MAX_CLIENTS
  /\ state \in [Conns -> States]
  /\ authenticated \in [Conns -> BOOLEAN]
  /\ jid_local \in [Conns -> Users \cup {NONE}]
  /\ stanza_depth \in [Conns -> 0..2]
  /\ parser_reset_pending \in [Conns -> BOOLEAN]
  /\ teardown_pending \in [Conns -> BOOLEAN]
  /\ ended \in [Conns -> BOOLEAN]
  /\ cur \in Conns \cup {NONE}
  /\ events \in 0..MaxEvents
  /\ password \in [Users -> Passwords \cup {NONE}]

(* Once a chunk is dealt with, every session past STREAM_OPENED has
   authenticated and carries the user's name.  The session iq has no state
   check: after a stream refused with host-unknown the rest of the chunk can
   take it, and only the deferred close keeps the result from surviving. *)
ActiveAuthenticated ==
  cur = NONE => \A c \in Conns :
    state[c] \in {"AUTHENTICATED", "BOUND", "SESSION_ACTIVE"} =>
      authenticated[c] /\ jid_local[c] \in Users

(* Once a chunk is dealt with, a session that has just authenticated waits
   for a new stream header with a new parser: what was left of the old
   document (a header sent too early included) is gone. *)
RestartClean ==
  cur = NONE => \A c \in Conns : state[c] = "AUTHENTICATED" => stanza_depth[c] = 0

(* The user of a session does not change while the session lasts: the stream
   restart brings the session back to STREAM_OPENED, where SASL is taken, and
   only the authenticated flag stanza_route looks at keeps a second exchange,
   in this chunk or a later one, from giving it another name. *)
UserFixed ==
  [][\A c \in InTable : jid_local[c] # NONE /\ c \in InTable' => jid_local'[c] = jid_local[c]]_vars

(* A session loses its place to another one only by a resource conflict: the
   other one has authenticated as the same user. *)
KickedBySameUser ==
  [][\A c \in InTable : cur # NONE /\ c # cur /\ c \notin InTable' =>
       authenticated[cur] /\ jid_local[c] = jid_local[cur]]_vars

(* "Only one active session per bare JID is allowed": no two sessions that
   have been through session_handle_bind share their user. *)
OneSessionPerUser ==
  \A c, d \in InTable :
    c # d /\ state[c] = "BOUND" /\ state[d] = "BOUND" => jid_local[c] # jid_local[d]
=============================================================================
