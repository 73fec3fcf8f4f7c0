# TLA+ verification of the XMPP server

The repository holds one XMPP (Jabber) server written twice from one
specification (`spec/XMPP Prototype Spec for Agent`): in C as a single-threaded
`poll()` loop (`c/`), and in Go with a goroutine per connection (`go/`). These
modules model the C server (its event loop, the negotiation of a session,
rosters with presence subscriptions, messages and their offline storage, the
files of an account, the conversions of text) and, of the Go server, what sets it
apart: the goroutines, the registry of sessions and the displacement of one
session by another.

Check a module with `tlc -config X.cfg M`, its proofs with `tlapm M.tla`.

## 1. Inventory

### C server

| Component | State | Operations | What makes it hard |
|---|---|---|---|
| Poll loop, client table (`server.c`) | `pollfds[]`, `sessions[]`, `nfds`, `shutdown_flag` | init, accept, scan, remove by swapping with the last, shutdown | sessions move while they are scanned; readiness reported by `poll` may be old when used; signals |
| Session (`session.c`) | buffers, `poll_index`, state, deferred flags | create, read, write, flush, bind, session iq, teardown | a handler closes its own session inside the parser, or another one; a read of nothing closes the session |
| XML stream (`xml.c`, `stream.c`) | parser, `stanza_depth`, current stanza | SAX callbacks, stream open / close / error, parser reset | reset and close are put off until the chunk is parsed; pipelined input |
| Routing (`stanza.c`) | none | dispatch by state, name, namespace | guards differ per stanza and some are missing |
| SASL, registration, accounts (`auth.c`, `register.c`, `user.c`) | `user.conf` per user | authenticate, create, change password, delete | several file operations, not atomic, and a tool that does the same at the same time; sessions outlive accounts |
| Presence (`presence.c`) | `available`, `initial_presence_sent`, stored stanza | available, unavailable, four subscription stanzas, redelivery | each request changes two rosters, each in memory or on disk; the domain of a JID is not checked |
| Roster (`roster.c`) | `roster_t` in the session, `roster.xml` | load, save, add, remove, get, set, push | copy in memory against file; fixed capacity |
| Messages (`message.c`) | `offline/NNNN.xml` | deliver, store, deliver stored | numbering, capacity of 256, who is found first, loss after unlink or with the account |
| Utilities (`util.c`) | none | JIDs, base64 | lengths at the edges, cut fields |
| `tools/useradd.c` | the files of an account | create | runs next to the server |
| disco, config, log, main | none of interest | constant answers, start-up | |

The components call each other directly. The only concurrency is with the
outside: clients, the kernel and signals. `EventLoop` is therefore fine-grained
(one step per decision of the loop), while in `Negotiation` and `Subscription` a
handler is one step, because nothing can come between its parts. What joins them
is the client table: `session_find_by_jid`, used for conflicts, routing and
presence, returns the first match in TABLE ORDER, which the loop's swaps change.

### Go server

`server.go` (registry), `session.go` (writer, kick), `stream.go`, `stanza.go`,
`xml/`, `presence.go`, `roster.go`, `message.go`, `user.go`, `register.go`,
`auth.go`, `disco.go`, `main.go`, `cmd/useradd`. The control is that of the C
server, run by one goroutine per connection. The hazards are of another kind:
sessions of one user that bind and end at the same time, locks taken on other
sessions, read-modify-write of roster files by several goroutines, equal sequence
numbers for two offline messages, the late "unavailable" of a displaced session.

The full list of hazards, each at its line, is in `PROJECT.json`, with the
properties that cover it or the reason why none does.

## 2. Modules

| Module | Models | Composed with |
|---|---|---|
| `ClientTable` | abstract: what the client table promises, a list without repetition with append and swap-remove | instantiated by the next two and by `Mail` |
| `EventLoop` | `server.c`, buffers and life cycle in `session.c`, deferred close in `stream.c` | implements `ClientTable` |
| `Negotiation` | `xml.c`, `stream.c`, `stanza.c`, `auth.c`, bind and session iq, `register.c`, `user.c` | uses `ClientTable` for the table |
| `Subscription` | `presence.c`, `roster.c` | |
| `Delivery` | abstract: the one fate of every message, and what may end it | |
| `Mail` | `message.c`, with the sessions messages go to | uses `ClientTable`, implements `Delivery` |
| `Accounts` | `user.c`, `register.c`, `tools/useradd.c`, one file operation at a time | |
| `GoServer` | `server.go`, `session.go`, the routing of `stanza.go`, `stream.go`, `auth.go`, and whom `presence.go` and `message.go` send to | |
| `Text` | `util.c`, the SASL payload in `auth.c`, `user.conf` in `user.c`, as operators | |
| `MCEventLoop`, `MCNegotiation`, `MCSubscription`, `MCMail`, `MCAccounts`, `MCGoServer`, `MCText` | instances for TLC: symmetry, sets of pairs, lengths | |
| `EventLoopProofs`, `NegotiationProofs`, `SubscriptionProofs`, `MailProofs`, `AccountsProofs`, `GoServerProofs`, `TextProofs` | theorems and proofs about the module they are named after | |
| `NumberLemmas` | least and greatest numbers, induction up to a bound and recursive functions, for the proofs | extended by `MailProofs` and `TextProofs` |

Operators with a suffix (`TableFull_OffByOne`, `Deleted_Any`) stand before the
definition they vary: each is a plausible mistake in that code, and the property
it is listed with in `PROJECT.json` fails when it takes the definition's place.

### ClientTable

One variable, the sequence `tab` of the sessions in slots `1 .. nfds-1`.
`SwapRemove` is `server_remove_session`: the last element takes the place of the
removed one. The abstraction keeps the order because the code observes it.

### EventLoop

A connection stands for its descriptor and its `session_t`. `pollfds`,
`sessions`, `nfds`, `poll_index`, `write_len`, `in_xml_parse`,
`teardown_pending` and `shutdown_flag` are the program's variables. `pc`, `i`
and `cur` are where `server_run` is. `conn`, `peer` and `inbuf` are the kernel's view of a connection.

* `Poll` fixes the `revents` of all slots at once. `AcceptPhase`, the `Scan...`
  actions and the `Out...` actions are the body of the loop, with the `i--`
  idioms of the source: after a teardown the loop looks whether the slot is
  empty, and goes on to the POLLOUT check of whatever session is in it now.
* `ScanRead` ends at the call of `xmlParseChunk`; `OnStanza`, `OnStreamClose`,
  `OnStreamError` and `OnBindConflict` are what its callbacks do to this layer,
  `ParseEnd` its return, with the deferred close.
* `session_teardown(s, W)` is the whole of it: the unavailable presence written
  to some sessions `W`, removal from the arrays, close.
* `Connect`, `PeerSend`, `PeerLeave` and `Signal` may come between any two steps
  of the loop. A half-closed client may still be written to, a reset one fails a
  write. How much a write takes is the kernel's choice.

Left out: failing `malloc`, errors of `poll` and `accept`, the contents of the
data, the errors of socket set-up.

### Negotiation

`BeginRead`/`EndRead` bracket the callbacks of one chunk of input; in between
any SAX event may come that libxml2 would report (no end without a start, nothing
after the end of the document): stream headers with a good or a bad domain, headers where
a stanza is expected, stanzas, ends, parse errors. `EndRead` first resets the
parser, then closes the session. A stanza of every kind is an action with the
guard its route really has: `OnSessionIq` and `OnRegister` have none besides
`stanza_route`'s. `password` is the content of `user.conf`. A resource conflict
removes the other session inside the handler.

Left out: the XML text, the SASL payload and its base64 (an attempt is a user and
a password), file errors, what is answered and forwarded.

### Subscription

`disk[u]` is `roster.xml`, `cache[u]` the copy of u's session with its `loaded`
flag. A roster has an item for every JID: for each user, which stands for its own
JID, and for each alias. An alias is a JID that no session has: one at another
domain, whose local part (`Local`) may be the name of a user, or one of no account.
The handlers never look at the domain. They find the addressee's session by the
whole bare JID (`Found`, `InMemory`) and its file by the local part (`FileOf`), so
a stanza to an alias of a user changes that user's file and not the copy its
session holds; `strayed` records the items to which that happened. A handler runs on `Mine(u)`, which is the copy if it is loaded and the file
if it is not; `BothRosters` is what `subscribed`, `unsubscribe` and `unsubscribed`
share. `told`, `asked` and `shown` record what clients were sent. No action's guard
reads these or `strayed`. `Restart` loses all sessions and keeps the files. A roster with
`MAX_ROSTER_ITEMS` items that is to take one more ends in the use of a null
pointer, modelled as the death of the process.

`Crash` is the death of the process between the saves of the two rosters, in the
handlers that `CrashIn` names.

Left out: item names, roster pushes, more than one session per user (the finding
about resource conflicts shows that it can happen), a save that is cut off in the
middle; item JIDs of a roster set that are no bare JIDs (they are kept as they are
and never found again); the file that a JID with an empty local part or with that of
no account names (it is no user's, `NOBODY`); JIDs that the arrays cut short.

### Mail and Delivery

Message m is the m-th that anybody sent. `DeliverNow`, `message_store_offline` and
`NotStored` (a message that is not kept, or cannot be) are the three ends of
`handle_message`; which one it is depends on `FindByJid`, the first session in
table order that carries the name, in whatever state it is. A file is a number and
a message. `IsNextSeq` is the scan for the highest number, `Digits` the number as
`%04d` prints it, `NameLess` the comparison of names as strings, `Taken` the at most `MAX_FILES` names in the
order `readdir` gives them. `session_flush` writes any part of a buffer;
`session_teardown` loses what is left of it. `accounts` are the users with a
`user.conf`: only they authenticate and are sent messages. `RemoveAccount` is
`user_delete` on behalf of a session: the files go with the account, in a process
that goes on, and the session stays until its later teardown. That a directory left
over by a crash keeps its name from being used again is the subject of `Accounts`;
here `user_create` always succeeds. The process dies between handlers, between
`fopen` and `fclose` of a message file (which leaves an unreadable one, `TORN`), in
the middle of handing over, or in the middle of a removal; `run` changes when it
does, so that `Delivery` can tell these steps from the others.

`Delivery` is about the fate of every message, the accounts and the runs of the
process. While the process runs a held message stays held until it is queued
(`Move`) or its addressee's account goes (`Remove`); a step that dies (`Die`)
loses what is queued and, of what is held, messages of one user at most.

### Accounts

One name. `dir` is the number of the owner the directory was made for; the roster,
the mail and the sessions carry such numbers too, so that what belongs to whom can
be told. Every `mkdir`, `fopen`, `fprintf`, `unlink` and `rmdir` is a step. The
server does one request after the other and may die (`Crash`), runs of the tool do
the same steps next to it and may be killed. `Remove` leaves its session open
(`closing`, which is `teardown_pending`) until the end of the chunk, so that what is
pipelined behind `<remove/>` is still handled for the removed owner, and no other
session is served before; a second session of the same user is not closed at all.
When such a session acts on a directory that was made for somebody else, the step is
taken as the code takes it, and both owners are recorded in `crossed`. A file that is unlinked while another
process has it open takes that process's text with it (`linked`).

### GoServer

A goroutine is its `pc`: reading, sending to one session after the other (looked
up in the registry, then waiting for `writeMu`, then writing), closing the session
it displaces, unregistering, ending. Every handler that sends is `Forward` to a
set of users or `Answer` to its own client, and those that change the session are
actions of their own (`HandleOpen`, `HandleSASL`, `handleBind`, `handleSessionIQ`).
A session that is closed by another goroutine still handles what its
`bufio.Reader` has buffered. A client may stop reading for good (`Stall`): a write to
it does not return until one side closes the connection.

Left out: what is sent, rosters with `RosterMu` and files, whether a session is
available and with which presence, the end of the process.

### Text

The state is one input that grows symbol by symbol; each invariant compares a
conversion with a declarative definition of what it is for. Characters that the
code treats alike are one symbol, and the arrays are small (`FIELD`, `CLEAN`,
`LINE`), so that inputs of the bounded lengths fill and overrun them. The loops
over an input are recursive functions of the number of rounds (`Cleaned`,
`Decoded`, `LineStarts`). A CR ends a line for `strcspn` (`Chomp`) and
not for `fgets` (`NextLine`). That `LINE` is at least 5 is needed by `PasswordWorks`:
a line of 4 would hold the key, and an empty password that does not fit would
still match.

## 3. Runs

| Run | Checks | States | Result |
|---|---|---|---|
| `EventLoopTable` | `TableOK`, `PollOutWhenPending`, `HealthyKept`, `ImplementsTable` | 533 k | pass |
| `EventLoopClose` | `TypeOK`, `ParserAlive`, `CloseNotForgotten` | 2.3 M | pass |
| `EventLoopLive` | `InputServed`, `GoneReaped`, `SignalStops` | 125 k | pass |
| `Negotiation` | `TypeOK`, `ActiveAuthenticated`, `RestartClean`, `UserFixed`, `KickedBySameUser` | 388 k | pass |
| `NegotiationConflict` | `OneSessionPerUser` | | violated |
| `SubscriptionCache` | `TypeOK`, `CacheCoherent` | 467 k | pass |
| `SubscriptionConsent` | `ToHasFrom`, `ShownOnlyAuthorised`, `SubscriberSees` | 114 k | pass |
| `SubscriptionPending` | `PendingDelivered` | | violated |
| `Mail` | `TypeOK`, `AtMostOnce`, `OnlyToAddressee`, `NoMailWaiting`, `HandedOverInOrder`, `ImplementsDelivery` | 103 k | pass |
| `Accounts` | `TypeOK`, `NoInheritance`, `OwnPassword`, `SuccessMeansComplete` | 551 k | pass |
| `GoServer` | `TypeOK`, `RegistryCoherent`, `OneSessionPerUser`, `HeldWhileWriting`, `EntryKept`, `ClosedEnds`, `DisplacedEnds` | 278 k | pass |
| `Text` | `JidReference`, `SaslReference`, `PasswordWorks` | 28 k | pass |

What the passing runs show:

* the loop survives sessions being moved under it. A session moved into the slot
  being processed may be skipped for a round, and is never read on another's
  event, which would drop it, since `session_on_readable` closes on EAGAIN
  (`HealthyKept`);
* the deferred flags do their work: no parser is freed on its own stack, nothing
  marked for closing survives the parse;
* an unauthenticated client can reach `SESSION_ACTIVE` inside one chunk (bad
  stream header, then a session iq), and the deferred close undoes it before any
  other session is served;
* a session keeps the user it authenticated as, through restarts of the stream;
* every change of a roster reaches the copy and the file alike, unless it was made
  under a JID of another domain; between users who use each other's own JIDs a crash
  between the two saves of an approval leaves no subscription without its consent
  (in `unsubscribed` it would: the order of the saves is the other way round);
* a message is in one place at a time and is handed over in order; it can be lost
  only with its connection, with the addressee's account, or with the process while
  it stores, hands over or removes.
  Order holds while the numbers fit four digits, and mail waits for an available
  user only if more than 256 messages were sent to it;
* what an earlier owner of a name left behind never reaches a later one, however a
  removal was cut off, and server and tool do not mix up their passwords, as long as
  no session outlives its account and acts on the next one. The code lets it
  (`register.c:84`): requests pipelined behind the removal and a second session of
  the user go on under the name;
* in the Go server the newest bind takes the entry whatever the order: none is left
  behind or taken away by an older session that ends late. A session that was closed
  or displaced ends, unless a client that does not read holds up its goroutine or the
  one that is to close it, and that is the only thing that can;
* a password works unless it has a line end or a CR, blanks at its ends, or is too long for
  the line: such accounts are created and cannot be used. JIDs are split and put
  together again as they read, except those with an `@` behind the `/`.

What the violated runs show (each is a statement of the spec that the code does
not meet, quoted in `PROJECT.json`):

* `OneSessionPerUser`: the connection in the higher slot authenticates and binds
  first; the one in the lower slot then authenticates as the same user, finds
  itself first in the table when it binds, and both stay bound;
* `PendingDelivered`: a pending request is found only in the memory of sessions
  that are online.

Three more statements of the specification do not hold of the code, and the models
have the steps that show it; the properties are stated for what is left, and
`PROJECT.json` lists the hazards:

* "Roster data is loaded from disk on demand and cached in memory per-session;
  written back on modification" (spec line 932): b sends `subscribed` or
  `unsubscribed` to a JID with a's local part and another domain while a has its
  roster loaded; a's file changes, its copy does not, and the next save of the copy
  undoes the change. `CacheCoherent` says it of all other items.
* "Cancel any subscriptions in both directions" (628) when a contact is removed: the
  contact keeps its subscription, so `ToHasFrom` is for clients that do not remove.
* "Route to recipient, store offline if unavailable" (792): a session takes messages as
  soon as it has authenticated, and also when it has declared itself unavailable.

In the Go server "the old session is terminated ... and the new session proceeds"
(307) fails when the older client does not read (`DisplacedEnds` excepts it), and
"Pre-auth: only SASL and in-band registration allowed" (`stanza.go:31`) does not hold
before the stream header, where a session iq makes the client active (`TypeOK` leaves
out that state).

### Bounds

* `EventLoop`: three connections are the least with which a swap moves a session
  that is neither the removed one nor the one being read. `EventLoopTable` has
  room for all (`MAX_CLIENTS = 4`); `EventLoopClose` has room for two, so
  that accept refuses. Input is 1 (a normal read) or `READ_BUF = 2` units (an
  overrun); `MaxOut` tells empty, partly and completely unsent output apart;
  `MaxStanzas = 2` lets a handler act after another closed a session. The
  liveness run has two connections and no symmetry.
* `Negotiation`: four connections for three places, so that the table fills, two
  users and one password, `MaxEvents = 3` callbacks per chunk, enough for a refused
  header followed by stanzas, and for authentication followed by an early header. A
  session may read any number of chunks.
* `Subscription`: two users, one of whom also addresses itself, and the other also an
  alias of the first and (in `SubscriptionCache`) a JID of no account. A subscription
  involves two users and the handlers read no third roster. `SubscriptionCache` has a
  roster of one item, so that it is full; `SubscriptionConsent` has room.
* `Mail`: two connections, two users, three messages. Two connections are an older
  and a newer session of the addressee, or a sender and its addressee; a sender is a
  session like any other, and may write to its own user. `MAX_FILES = 2` and one
  digit to the base 3, so that both limits are passed.
* `Accounts`: one run of the tool next to the server, two sessions, two passwords,
  three owners. With a second run of the tool the same properties hold (12.5 million
  states, beyond the time set for a run).
* `GoServer`: two connections of one user, one stanza in the buffer of a closed
  session. The safety properties are proved for any number of both; the run is for
  the liveness properties, which concern one session and the one that displaces it.
* `Text`: JIDs of 6 symbols with fields of 2, payloads of 7 bytes with room for 6,
  password texts of 5 symbols with a line of 8.

### Fairness

`FairSpec` of `EventLoop` assumes only weak fairness of `Server`, the next step of
the loop: the process is scheduled, and `poll` returns at the latest after its
timeout of 1000 ms (`server.c:130`), so the loop always has a next step. Nothing is
assumed of clients, of the kernel's room for output or of signals. After shutdown
the server stops, which is why `EventLoopClose` and `EventLoopLive` do not check
deadlock.

`FairSpec` of `GoServer` assumes weak fairness of every goroutine that can run,
which the Go scheduler gives, and strong fairness of `Send`: a goroutine that waits
for a `sync.Mutex` which is released again and again gets it, since a mutex is handed
over to a goroutine that has waited for a millisecond. Nothing is assumed of clients.
A goroutine that reads can run when its connection was closed (`CanRun`), so no client
has to send; one that writes can run unless its client has stalled, and a client may
stall for ever, because the server sets no deadline (`session.go:126`). The two
liveness properties therefore name that case (`Blocked`); since a client that has
stalled and then leaves does not stall again, a goroutine that is stuck again and
again is stuck for ever. A connection is used once, so the run ends when all have been,
and deadlock is not checked; `Text` ends when its input is at its length.

## 4. Proofs

The theorems hold for any sets of connections and users and any sizes allowed by
`ConstAssumption` of each module.

* `EventLoopProofs`: `TypeCorrect`, `TableOKHolds`, `ParserAliveHolds`,
  `CloseNotForgottenHolds`. The inductive invariant says that slots
  `1 .. nfds-1` are filled with open sessions that know their slot, that the
  slots above are free, and that every open session is found through its
  `poll_index` (`Filled`, `Vacant`, `Found`); it adds where the loop index may
  be, and the two flag properties. `TableOK` alone is not inductive: that the
  session being scanned exists at all depends on the bound of `i`, and that a
  handler closes an open session on `ParserAlive`. The centre is
  lemma `TeardownTable`: taking out any open session by a swap keeps the three.
* `EventLoopProofs`, following one session through the arrays:
  `PollOutWhenPendingHolds`, the action property
  `HealthyKeptHolds` and the refinement `ImplementsTableHolds`. A session is
  followed by `Entry(c)`, the entry found through its `poll_index`, which a
  swap copies; lemma `StepKinds` sorts all steps by what they do to the entries
  (a session is closed, written to, flushed, entered, nothing, `poll`, shutdown),
  and the rest of the argument is about these kinds. `HealthyKept` alone is not
  inductive: what a step does depends on `revents` that were fixed many steps
  earlier. The strengthening is `ReportsTrue`: a reported HUP is still true, and
  a reported IN is still true for every slot the scan has not passed (`Ahead`).
  It is kept because only the loop reads, a slot is read once per scan, and a
  swap moves a session towards the front only, behind the scan or into the
  current slot. For the refinement, the list is `sessions[1 .. nfds-1]`; one step
  takes out at most one session, so every step is an append, a swap-remove or a
  stutter (shutdown empties the table).
* `NegotiationProofs`: `TypeCorrect`, `ActiveAuthenticatedHolds`,
  `RestartCleanHolds`, and the action properties `UserFixedHolds`,
  `KickedBySameUserHolds`. `ActiveAuthenticated` needs to know what happens
  inside a chunk: a session that is at `CONNECTED` with an open element has been
  refused and will be closed (`RefusedCloses`), deferred flags belong to the
  session being read (`DeferredIsCurrent`), authentication leaves a reset
  pending until `EndRead` (`ResetPending`), who has authenticated has a user
  (`AuthHasUser`), and an element is open whenever the state says so
  (`PastOpen`). The action properties also need that the table has no
  repetition (`Distinct`). `UsesTableHolds`, here and in `MailProofs`, says that
  the handlers use the table as `ClientTable` allows; what is left to show is that
  a session displaced by a bind is in the table when it is taken out.
* `SubscriptionProofs`, for any users, aliases and local parts of these:
  `TypeCorrect`, `CacheCoherentHolds`, and under the hypothesis `Cooperative`, `ToHasFromHolds` and `ShownOnlyAuthorisedHolds`. The
  hypothesis says that clients do not remove items (`"remove" \notin Requests`)
  and that the process does not die inside `unsubscribed`. It is needed:
  `roster_handle_iq` removes the item on one side only (a TODO at `roster.c:300`;
  spec line 628 asks for both), `unsubscribed` saves the withdrawn consent before
  the subscription it ends, and with either `ToHasFrom` is false. Items of `strayed`
  are excepted by the properties themselves, pair by pair: what users do under foreign
  domains does not spoil the items of others.
  `CacheCoherent` needs that only sessions have loaded rosters
  (`LoadedOnline`); consent is preserved because both rosters that a handler
  reads are the files (`CacheCoherent`), lemma `BothRostersChange`.
  With the further hypothesis `NoUnsubscribe` there is `SubscriberSeesHolds`:
  `presence_handle_unsubscribe` sends the sender's unavailable presence to the
  contact (`presence.c:301`), who may go on being subscribed to the sender, and
  then the property is false. It needs `ToHasFrom`, since a login is announced to
  the contacts that have a `from` in the sender's roster, while the subscription is
  the `to` in theirs, and that only sessions are available (`AvailableOnline`).
* `MailProofs`: `TypeCorrect`, `OnlyToAddresseeHolds`, `AtMostOnceHolds`,
  `NoMailWaitingHolds`, the action property `HandedOverInOrderHolds`, and the
  refinement `ImplementsDeliveryHolds`. As far as
  messages are concerned a step is of one of a few kinds (one message enters a
  buffer, a file or nothing; the files of one user move into one buffer or go with
  the account; a buffer passes on its head or is lost; the process dies), and each invariant is
  shown for each kind. Inductive are the types with `Named` (a session with a
  name is in the table, where `session_find_by_jid` looks), `Finite`, `Addressed`
  (whatever is queued or filed was sent, to the owner of the place), `Once`,
  which is `AtMostOnce` place by place, and `Homed` (files belong to users with an
  account, since `user.conf` is unlinked after them). `NoMailWaiting` is an argument by counting:
  `message_deliver_offline` leaves a file only if it has collected `MAX_FILES`
  others, each with a message of its own to that user (`Once`), so more were sent.
  `HandedOverInOrder` needs two things. The numbers of the files have to follow the
  order in which the messages were sent (`InSeqOrder`, inductive because a new file
  gets a number above all that are there). And names of equal length have to
  compare as strings like their numbers (`NameLessIsLess`): before the first digit
  in which two names differ the numbers without their last digits agree, at it they
  differ the same way, and every further digit keeps that. This is for every base
  and every width.
  In the refinement a fate is a function of the places, and `Once` makes the places
  exclusive; that a removal is one of an existing account, or takes nothing, is
  `Homed`, and that a death spares the mail of all users but one follows from each
  kind of death working on one directory.
* `AccountsProofs`: `TypeCorrect`, `NoInheritanceHolds`, `OwnPasswordHolds`,
  `SuccessMeansCompleteHolds`, for any number of sessions and of runs of the tool. The
  server and the tool share nothing but the file system, so the invariant says whose
  the files are at every step: an open `user.conf` is in the directory unless it was
  unlinked (`LinkedThere`); sessions, changes of passwords and removals are those of
  owners who have logged in (`Acting`); whoever is about to create `user.conf` does so
  in the directory it made, which has none, and who has it open writes for the owner
  of the directory (`Writers`); each directory was made by one process (`Unshared`);
  and until its owner logs in, what a creation has made stays as it made it (`Built`).
  `Writers` and `Built` leave out the owners in `crossed`. `mkdir` decides between
  competitors, nobody logs in before `user.conf` is there, and who has not logged in
  can neither change nor remove.
* `TextProofs`: `JidReferenceHolds`, `PasswordWorksHolds`, `SaslReferenceHolds`, for inputs of any length over the
  alphabets of `Text` and any size of the arrays. The lemmas are about any bytes
  and any characters.
  * JIDs: the reference asks for any way to read the string; there is
    at most one (`OneReading`), between the first `@` and the first `/`,
    which are the places `strchr` finds, and the bare JID, whose parts are
    cut to fit and contain neither sign, is parsed to the same parts
    (`BareParses`).
  * Passwords: `user_check_password` is decided by the first line, which always has
    the key (`CheckIs`), and the value read from it is the password up to a
    line end, a CR or the end of the array, without the blanks at its ends
    (`FirstValue`); it is the password exactly under the three conditions.
  * SASL: the digits of a group are the bits of three bytes (`DigitsOfBytes`), and
    `Group` gives the bytes back, less those that padding stands for (`GroupOf`);
    by induction on the groups decoding undoes encoding (`DecodedIs`), and by
    induction on the characters white space is dropped (`CleanedIs`). The payload
    has at most one reading, by its first two NULs (`OnePlainReading`).

  Induction over an input is by the least number up to its length without the
  property (`UpTo` of `NumberLemmas`), where the property is given as a set; that a
  recursive function with values in a set exists, and so is what its definition
  says, is `Recursion`, proved the same way.
* `GoServerProofs`: `TypeCorrect`, `HeldWhileWritingHolds`,
  `RegistryCoherentHolds`, `OneSessionPerUserHolds`, and the action property
  `EntryKeptHolds`. `HeldWhileWriting` is inductive with the types.
  `RegistryCoherent` needs to know where a goroutine can be once it has
  unregistered (`Leaving`), otherwise such a one could go back to reading;
  `OneSessionPerUser` also uses that a session which has not been started has bound
  nothing, and that entries stand under their own user, so that `Unregister` of one
  session takes no other's away.

Only model-checked:

* the liveness properties `InputServed`, `GoneReaped`, `SignalStops`, `ClosedEnds`
  and `DisplacedEnds`: the prover treats neither fairness nor `ENABLED`;
* the properties of the violated runs, which are false.

## 5. Not modelled

* `disco.c`, `config.c`, `log.c`, `main.c` and their Go counterparts: constant answers,
  output, start-up, no state that changes later; the settings are constants of the
  modules.
* Rosters and offline files of the Go server. Several goroutines read, change and
  write one file without a common lock: `srv.fileMu`, which `tasks/todo.md:388`
  has them hold, is taken only by `WithFileMu`, and nothing calls that. Updates can
  be lost there; a model of it would show what the source already says.
* What contacts are shown in the Go server: the late "unavailable" of a displaced
  session, and a message sent to a session that is closed at the same moment.
* Two sessions of one user in `Subscription`.
* `Available`, `PresenceStanza`, `Roster` and `RosterMu` of a Go session.
* A roster file that is cut off in the middle of a save.
* The growth of `write_buf` and its failure (`session.c:76`), and other allocation
  failures.
* JIDs with an `@` behind the `/`: `jid_parse` computes a length below zero and
  copies by it; what is in memory there is not modelled.
* Contents of stanzas, the construction of the DOM, random identifiers.

## 6. Plan

Every invariant and every action property of the passing runs is proved; the
liveness properties stay with TLC. Next: the rosters of the Go server (two
goroutines that change one file), and several sessions of one user in
`Subscription`, in table order, with the theorems restated for them.
