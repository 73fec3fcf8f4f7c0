------------------------------ MODULE Accounts ------------------------------
(***************************************************************************)
(* The files of one account (a directory with user.conf, roster.xml and    *)
(* offline/) and who changes them, one file operation at a time: the C     *)
(* server for in-band registration (src/c/src/register.c, user.c), which   *)
(* does one request after the other and may die between any two file       *)
(* operations, and runs of the tool src/c/tools/useradd.c at the same      *)
(* time.  Nothing but the file system keeps them apart.                    *)
(*                                                                         *)
(* Each directory that is made stands for a new owner of the name, and     *)
(* gets the next number; rosters and mail are marked with the number of    *)
(* the owner they belong to.  A session goes on acting for the owner it    *)
(* authenticated as: after <remove/> until the end of the chunk, and a     *)
(* second session of the same user for as long as it likes, also when      *)
(* useradd has meanwhile made the directory anew.  crossed records the     *)
(* owners of whom one has so touched the directory of the other.           *)
(*                                                                         *)
(* Passwords are taken to have no blanks at their ends.  What a run of the *)
(* tool or a request is refused for its arguments changes nothing and is   *)
(* left out.                                                               *)
(***************************************************************************)
EXTENDS Naturals, FiniteSets

CONSTANTS
  Tools,      \* runs of useradd
  Sessions,   \* connections of the server
  Passwords,
  EMPTY,      \* user.conf is there, without a password
  ABSENT,     \* there is no user.conf
  SERVER,     \* the server process
  MaxOwners   \* bound: directories made

ASSUME ConstAssumption ==
  /\ {EMPTY, ABSENT} \cap Passwords = {} /\ EMPTY # ABSENT
  /\ SERVER \notin Tools
  /\ MaxOwners \in Nat

Procs == Tools \cup {SERVER}

VARIABLES
  dir,      \* the owner the directory was made for; 0: there is none
  conf,     \* what user.conf holds
  roster,   \* the owner whose roster is in roster.xml; 0: there is none
  off,      \* offline/ exists
  mail,     \* the owners whose mail is in offline/
  owners,   \* directories made so far
  pc,       \* [process -> the file operation it does next]
  arg,      \* [process -> the password it is about to set]
  mine,     \* [process -> the owner for whom it works]
  linked,   \* [process -> the user.conf it has open is still in the directory]
  sess,     \* [session -> the owner it has authenticated as; 0: nobody]
  closing,  \* the session with teardown_pending, whose chunk is not yet at its end
  used,     \* the owners that have logged in
  setBy,    \* the owner for whom the text of user.conf was written
  crossed   \* owners in whose directory, or for whom, a stranger's request was done

fileVars == <<dir, conf, roster, off, mail>>
procVars == <<pc, arg, mine, linked>>
vars == <<fileVars, owners, procVars, sess, closing, used, setBy, crossed>>

Init ==
  /\ dir = 0 /\ conf = ABSENT /\ roster = 0 /\ off = FALSE /\ mail = {}
  /\ owners = 0
  /\ pc = [p \in Procs |-> "idle"]
  /\ arg = [p \in Procs |-> EMPTY]
  /\ mine = [p \in Procs |-> 0]
  /\ linked = [p \in Procs |-> FALSE]
  /\ sess = [c \in Sessions |-> 0]
  /\ closing = {}
  /\ used = {}
  /\ setBy = 0
  /\ crossed = {}
-----------------------------------------------------------------------------
At(p, from) == pc[p] = from
Goto(p, next) == pc' = [pc EXCEPT ![p] = next]

(* Something is done for owner o in the directory that is there. *)
Touch(o) == crossed' = IF dir \in {0, o} THEN crossed ELSE crossed \cup {o, dir}

(* user_create, main of useradd: called with a password *)
Create(p, pw) ==
  /\ At(p, "idle") /\ Goto(p, "exists")
  /\ p = SERVER => closing = {}
  /\ arg' = [arg EXCEPT ![p] = pw]
  /\ UNCHANGED <<fileVars, owners, mine, linked, sess, closing, used, setBy, crossed>>

(* The server looks for user.conf, the tool for the directory. *)
Exists(p) ==
  /\ At(p, "exists")
  /\ Goto(p, IF (p = SERVER /\ conf # ABSENT) \/ (p # SERVER /\ dir # 0) THEN "idle" ELSE "mkdir")
  /\ UNCHANGED <<fileVars, owners, arg, mine, linked, sess, closing, used, setBy, crossed>>

(* mutants: the failure of mkdir is ignored; a directory without user.conf is
   taken over *)
Mkdir_Unchecked(p) ==
  /\ At(p, "mkdir") /\ Goto(p, "conf")
  /\ owners < MaxOwners
  /\ owners' = owners + 1
  /\ dir' = IF dir # 0 THEN dir ELSE owners + 1
  /\ mine' = [mine EXCEPT ![p] = owners + 1]
  /\ UNCHANGED <<conf, roster, off, mail, arg, linked, sess, closing, used, setBy, crossed>>
Mkdir_TakesOver(p) ==
  /\ At(p, "mkdir")
  /\ IF dir # 0 /\ conf # ABSENT
       THEN Goto(p, "idle") /\ UNCHANGED <<dir, owners, mine>>
       ELSE /\ Goto(p, "conf")
            /\ owners < MaxOwners
            /\ owners' = owners + 1
            /\ dir' = owners + 1
            /\ mine' = [mine EXCEPT ![p] = owners + 1]
  /\ UNCHANGED <<conf, roster, off, mail, arg, linked, sess, closing, used, setBy, crossed>>

Mkdir(p) ==
  /\ At(p, "mkdir")
  /\ IF dir # 0
       THEN Goto(p, "idle") /\ UNCHANGED <<dir, owners, mine>>
       ELSE /\ Goto(p, "conf")
            /\ owners < MaxOwners
            /\ owners' = owners + 1
            /\ dir' = owners + 1
            /\ mine' = [mine EXCEPT ![p] = owners + 1]
  /\ UNCHANGED <<conf, roster, off, mail, arg, linked, sess, closing, used, setBy, crossed>>

(* fopen(user.conf, "w"), of a creation or of a change of password *)
OpenConf(p) ==
  /\ At(p, "conf") \/ At(p, "chconf")
  /\ IF dir = 0
       THEN Goto(p, "idle") /\ UNCHANGED <<conf, linked>>
       ELSE /\ Goto(p, IF At(p, "conf") THEN "pw" ELSE "chpw")
            /\ conf' = EMPTY
            /\ linked' = [linked EXCEPT ![p] = TRUE]
  /\ IF At(p, "chconf") \/ mine[p] \in crossed THEN Touch(mine[p]) ELSE UNCHANGED crossed
  /\ UNCHANGED <<dir, roster, off, mail, owners, arg, mine, sess, closing, used, setBy>>

(* fclose: the text gets to the file *)
WriteConf(p) ==
  /\ At(p, "pw") \/ At(p, "chpw")
  /\ Goto(p, IF At(p, "pw") THEN "roster" ELSE "idle")
  /\ conf' = IF linked[p] THEN arg[p] ELSE conf
  /\ setBy' = IF linked[p] THEN mine[p] ELSE setBy
  /\ linked' = [linked EXCEPT ![p] = FALSE]
  /\ UNCHANGED <<dir, roster, off, mail, owners, arg, mine, sess, closing, used, crossed>>

(* An empty roster, which has nothing of an earlier owner. *)
MakeRoster(p) ==
  /\ At(p, "roster")
  /\ IF dir = 0
       THEN Goto(p, "idle") /\ UNCHANGED roster
       ELSE Goto(p, "offline") /\ roster' = dir
  /\ UNCHANGED <<dir, conf, off, mail, owners, arg, mine, linked, sess, closing, used, setBy, crossed>>

(* mkdir(offline): success is reported only when it makes the directory. *)
MakeOffline(p) ==
  /\ At(p, "offline") /\ Goto(p, "idle")
  /\ off' = (off \/ dir # 0)
  /\ UNCHANGED <<dir, conf, roster, mail, owners, arg, mine, linked, sess, closing, used, setBy, crossed>>

Creating(p) ==
  Exists(p) \/ Mkdir(p) \/ OpenConf(p) \/ WriteConf(p) \/ MakeRoster(p) \/ MakeOffline(p)
-----------------------------------------------------------------------------
(* Requests the server handles when it has no other at hand; until the end of
   the chunk in which a session asked for its removal, only those of that
   session. *)
Idle(c) == At(SERVER, "idle") /\ closing \subseteq {c}

(* user_check_password succeeds. *)
Login(c, pw) ==
  /\ Idle(c) /\ sess[c] = 0 /\ conf = pw
  /\ sess' = [sess EXCEPT ![c] = dir]
  /\ used' = used \cup {dir}
  /\ UNCHANGED <<fileVars, owners, procVars, closing, setBy, crossed>>

(* session_teardown, at the end of the chunk if it was deferred *)
Logout(c) ==
  /\ Idle(c) /\ sess[c] # 0
  /\ sess' = [sess EXCEPT ![c] = 0]
  /\ closing' = {}
  /\ UNCHANGED <<fileVars, owners, procVars, used, setBy, crossed>>

(* user_change_password *)
ChangePassword(c, pw) ==
  /\ Idle(c) /\ sess[c] # 0
  /\ Goto(SERVER, "chconf")
  /\ arg' = [arg EXCEPT ![SERVER] = pw]
  /\ mine' = [mine EXCEPT ![SERVER] = sess[c]]
  /\ UNCHANGED <<fileVars, owners, linked, sess, closing, used, setBy, crossed>>

(* roster_save of a session, for its own request or for another's *)
SaveRoster(c) ==
  /\ At(SERVER, "idle") /\ sess[c] # 0
  /\ roster' = IF dir = 0 THEN roster ELSE sess[c]
  /\ Touch(sess[c])
  /\ UNCHANGED <<dir, conf, off, mail, owners, procVars, sess, closing, used, setBy>>

(* roster_load_for_user and roster_save_for_user, when another user's presence
   changes the roster in the file: one that is not there becomes an empty one. *)
SaveForUser ==
  /\ At(SERVER, "idle") /\ dir # 0
  /\ roster' = IF roster = 0 THEN dir ELSE roster
  /\ UNCHANGED <<dir, conf, off, mail, owners, procVars, sess, closing, used, setBy, crossed>>

(* handle_message, message_store_offline: a message for whoever has the account,
   when no session has its name *)
StoreMail ==
  /\ At(SERVER, "idle") /\ conf # ABSENT
  /\ \A c \in Sessions : sess[c] = 0
  /\ off' = TRUE
  /\ mail' = mail \cup {dir}
  /\ UNCHANGED <<dir, conf, roster, owners, procVars, sess, closing, used, setBy, crossed>>

(* message_deliver_offline: all that is held, or as much as one scan takes *)
TakeMail(c) ==
  /\ Idle(c) /\ sess[c] # 0
  /\ mail' \in SUBSET mail
  /\ Touch(sess[c])
  /\ UNCHANGED <<dir, conf, roster, off, owners, procVars, sess, closing, used, setBy>>

(* user_delete; the session that asked for it is closed at the end of the chunk *)
Remove(c) ==
  /\ Idle(c) /\ sess[c] # 0
  /\ Goto(SERVER, "rmmail")
  /\ mine' = [mine EXCEPT ![SERVER] = sess[c]]
  /\ closing' = {c}
  /\ UNCHANGED <<fileVars, owners, arg, linked, sess, used, setBy, crossed>>

UnlinkMail ==
  /\ At(SERVER, "rmmail") /\ Goto(SERVER, "rmoff")
  /\ mail' = {}
  /\ Touch(mine[SERVER])
  /\ UNCHANGED <<dir, conf, roster, off, owners, arg, mine, linked, sess, closing, used, setBy>>

RmdirOffline ==
  /\ At(SERVER, "rmoff") /\ Goto(SERVER, "rmconf")
  /\ off' = (off /\ mail # {})
  /\ Touch(mine[SERVER])
  /\ UNCHANGED <<dir, conf, roster, mail, owners, arg, mine, linked, sess, closing, used, setBy>>

UnlinkConf ==
  /\ At(SERVER, "rmconf") /\ Goto(SERVER, "rmroster")
  /\ conf' = ABSENT
  /\ linked' = [p \in Procs |-> FALSE]
  /\ Touch(mine[SERVER])
  /\ UNCHANGED <<dir, roster, off, mail, owners, arg, mine, sess, closing, used, setBy>>

UnlinkRoster ==
  /\ At(SERVER, "rmroster") /\ Goto(SERVER, "rmdir")
  /\ roster' = 0
  /\ Touch(mine[SERVER])
  /\ UNCHANGED <<dir, conf, off, mail, owners, arg, mine, linked, sess, closing, used, setBy>>

(* mutant: what is in the directory does not keep it *)
RmdirUser_Forced ==
  /\ At(SERVER, "rmdir") /\ Goto(SERVER, "idle")
  /\ dir' = 0
  /\ Touch(mine[SERVER])
  /\ UNCHANGED <<conf, roster, off, mail, owners, arg, mine, linked, sess, closing, used, setBy>>

(* rmdir fails, unnoticed, when something is left in the directory. *)
RmdirUser ==
  /\ At(SERVER, "rmdir") /\ Goto(SERVER, "idle")
  /\ dir' = IF conf = ABSENT /\ roster = 0 /\ ~off THEN 0 ELSE dir
  /\ Touch(mine[SERVER])
  /\ UNCHANGED <<conf, roster, off, mail, owners, arg, mine, linked, sess, closing, used, setBy>>

Removing == UnlinkMail \/ RmdirOffline \/ UnlinkConf \/ UnlinkRoster \/ RmdirUser

(* The server dies, with what it had in hand, and is started again; a run of
   the tool is killed. *)
Crash ==
  /\ Goto(SERVER, "idle")
  /\ linked' = [linked EXCEPT ![SERVER] = FALSE]
  /\ sess' = [c \in Sessions |-> 0]
  /\ closing' = {}
  /\ UNCHANGED <<fileVars, owners, arg, mine, used, setBy, crossed>>

Kill(t) ==
  /\ ~At(t, "idle") /\ Goto(t, "idle")
  /\ linked' = [linked EXCEPT ![t] = FALSE]
  /\ UNCHANGED <<fileVars, owners, arg, mine, sess, closing, used, setBy, crossed>>
-----------------------------------------------------------------------------
Next ==
  \/ \E p \in Procs : Creating(p) \/ \E pw \in Passwords : Create(p, pw)
  \/ \E c \in Sessions, pw \in Passwords : Login(c, pw) \/ ChangePassword(c, pw)
  \/ \E c \in Sessions : Logout(c) \/ SaveRoster(c) \/ TakeMail(c) \/ Remove(c)
  \/ SaveForUser \/ StoreMail \/ Removing \/ Crash
  \/ \E t \in Tools : Kill(t)

Spec == Init /\ [][Next]_vars
-----------------------------------------------------------------------------
(* Properties *)

Steps == {"idle", "exists", "mkdir", "conf", "pw", "roster", "offline", "chconf", "chpw",
          "rmmail", "rmoff", "rmconf", "rmroster", "rmdir"}

(* The types of the state; what is in a directory goes with it. *)
TypeOK ==
  /\ dir \in 0..owners /\ owners \in 0..MaxOwners
  /\ conf \in Passwords \cup {EMPTY, ABSENT}
  /\ roster \in 0..owners
  /\ off \in BOOLEAN
  /\ mail \subseteq 1..owners
  /\ pc \in [Procs -> Steps]
  /\ arg \in [Procs -> Passwords \cup {EMPTY}]
  /\ mine \in [Procs -> 0..owners]
  /\ linked \in [Procs -> BOOLEAN]
  /\ sess \in [Sessions -> 0..owners]
  /\ used \subseteq 1..owners
  /\ setBy \in 0..owners
  /\ closing \subseteq Sessions
  /\ crossed \subseteq 0..owners
  /\ dir = 0 => conf = ABSENT /\ roster = 0 /\ ~off /\ mail = {}
  /\ ~off => mail = {}

(* What is in the directory belongs to the owner it was made for: nobody gets
   the roster or the mail of an earlier owner of the name, wherever a removal
   or a creation was cut off, and with any number of sessions.  It is for
   directories that no session of another owner has touched: one that outlives
   the removal of its account writes into what useradd made after it. *)
NoInheritance == (roster \in {0, dir} \/ dir \in crossed) /\ mail \subseteq {dir}

(* The password that opens an account was set for its owner: not by another
   creation of the same name, nor by a late change for an earlier owner (under
   the same condition). *)
OwnPassword == conf \in Passwords => setBy = dir \/ dir \in crossed

(* A creation that reports success has made the whole account, with its own
   password, although the server and runs of the tool create the same name at
   the same time (unless its owner has already logged in and changed it, or a
   session of an earlier owner has). *)
SuccessMeansComplete ==
  [][\A p \in Procs :
       pc[p] = "offline" /\ ~off /\ off' /\ pc'[p] = "idle" /\ mine[p] \notin used \cup crossed =>
         dir' = mine[p] /\ conf' = arg[p] /\ roster' = mine[p]]_vars
=============================================================================
