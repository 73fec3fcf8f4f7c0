--------------------------- MODULE AccountsProofs ---------------------------
(***************************************************************************)
(* Proofs about Accounts, for any number of sessions and of runs of the    *)
(* tool, any passwords and any number of owners: the type invariant, and,  *)
(* for a directory that no session of another owner has touched, that      *)
(* nothing of an earlier owner is inherited, that the password was set for *)
(* the owner, and that a creation that reports success made a complete     *)
(* account.                                                                *)
(*                                                                         *)
(* The file system is the only lock.  The argument is that mkdir gives the *)
(* directory to one process, that user.conf is its alone until it has      *)
(* written it, that without user.conf nobody logs in, and that who has not *)
(* logged in can neither change nor remove.                                *)
(***************************************************************************)
EXTENDS Accounts, TLAPS

Rm == {"rmmail", "rmoff", "rmconf", "rmroster", "rmdir"}
Made == {"conf", "pw", "roster", "offline"}

(* An open user.conf that has not been unlinked is in the directory. *)
LinkedThere == \A p \in Procs : linked[p] => conf # ABSENT /\ pc[p] \in {"pw", "chpw"}

(* Sessions, changes of passwords and removals are those of owners who have
   logged in. *)
Acting ==
  /\ \A c \in Sessions : sess[c] # 0 => sess[c] \in used
  /\ \A p \in Procs : pc[p] \in {"chconf", "chpw"} \cup Rm => p = SERVER /\ mine[p] \in used

(* Whoever is about to create user.conf does so in the directory it made, which
   has none and in which nobody has logged in; who has it open writes for the
   owner. *)
Writers ==
  \A p \in Procs :
    /\ pc[p] = "conf" /\ mine[p] \notin crossed =>
         mine[p] = dir /\ dir # 0 /\ conf = ABSENT /\ mine[p] \notin used
    /\ linked[p] => mine[p] = dir \/ dir \in crossed

(* Each directory was made by one process. *)
Unshared ==
  \A p, q \in Procs : p # q /\ pc[p] \in Made /\ pc[q] \in Made => mine[p] # mine[q]

(* Until its owner logs in, what a creation has made stays as it made it. *)
Built ==
  \A p \in Procs : pc[p] \in {"pw", "roster", "offline"} /\ mine[p] \notin used \cup crossed =>
    /\ dir = mine[p]
    /\ pc[p] = "pw" => linked[p]
    /\ pc[p] # "pw" => conf = arg[p]
    /\ pc[p] = "offline" => roster = mine[p]

IInv ==
  /\ TypeOK /\ LinkedThere /\ Acting /\ Writers /\ Unshared /\ Built
  /\ NoInheritance /\ OwnPassword
-----------------------------------------------------------------------------
(* The initial state. *)
LEMMA InitIInv == ASSUME Init PROVE IInv
<1> USE ConstAssumption DEF Init
<1>a. /\ dir \in 0..owners /\ owners \in 0..MaxOwners /\ roster \in 0..owners /\ setBy \in 0..owners
      /\ mail \subseteq 1..owners /\ used \subseteq 1..owners
      /\ closing \subseteq Sessions /\ crossed \subseteq 0..owners
  OBVIOUS
<1>b. /\ pc \in [Procs -> Steps] /\ arg \in [Procs -> Passwords \cup {EMPTY}]
      /\ linked \in [Procs -> BOOLEAN]
  BY DEF Steps
<1>c. mine \in [Procs -> 0..owners] /\ sess \in [Sessions -> 0..owners]
  BY <1>a
<1>1. TypeOK
  BY <1>a, <1>b, <1>c DEF TypeOK
<1>2. LinkedThere /\ Acting /\ Writers /\ Unshared /\ Built
  BY DEF LinkedThere, Acting, Writers, Unshared, Built, Rm, Made, Procs
<1>3. NoInheritance /\ OwnPassword
  BY DEF NoInheritance, OwnPassword
<1> QED
  BY <1>1, <1>2, <1>3 DEF IInv

(* What is recorded of a request are owners. *)
LEMMA TouchType ==
  ASSUME TypeOK, NEW o \in 0..owners, Touch(o)
  PROVE  crossed' \subseteq 0..owners
  BY DEF TypeOK, Touch

(* Types are kept. *)
LEMMA TypeStep ==
  ASSUME TypeOK, LinkedThere, [Next]_vars
  PROVE  TypeOK'
<1> USE ConstAssumption DEF TypeOK, LinkedThere, Steps, Procs,
       At, Goto, Idle, fileVars, procVars
<1>1. CASE UNCHANGED vars
  BY <1>1 DEF vars
<1>2. CASE \E p \in Procs : Exists(p)
  BY <1>2 DEF Exists
<1>3. CASE \E p \in Procs : Mkdir(p)
  BY <1>3 DEF Mkdir
<1>4. CASE \E p \in Procs : OpenConf(p)
  <2>1. PICK p \in Procs : OpenConf(p)
    BY <1>4
  <2>2. CASE dir = 0
    BY <2>1, <2>2, TouchType DEF OpenConf
  <2>3. CASE dir # 0 /\ At(p, "conf")
    BY <2>1, <2>3, TouchType DEF OpenConf
  <2>4. CASE dir # 0 /\ ~At(p, "conf")
    BY <2>1, <2>4, TouchType DEF OpenConf
  <2> QED
    BY <2>2, <2>3, <2>4
<1>5. CASE \E p \in Procs : WriteConf(p)
  BY <1>5 DEF WriteConf
<1>6. CASE \E p \in Procs : MakeRoster(p)
  BY <1>6 DEF MakeRoster
<1>7. CASE \E p \in Procs : MakeOffline(p)
  BY <1>7 DEF MakeOffline
<1>8. CASE \E p \in Procs, pw \in Passwords : Create(p, pw)
  BY <1>8 DEF Create
<1>9. CASE \E c \in Sessions, pw \in Passwords : Login(c, pw)
  BY <1>9 DEF Login
<1>10. CASE \E c \in Sessions, pw \in Passwords : ChangePassword(c, pw)
  BY <1>10 DEF ChangePassword
<1>11. CASE \E c \in Sessions : Logout(c)
  BY <1>11 DEF Logout
<1>12. CASE \E c \in Sessions : SaveRoster(c)
  BY <1>12, TouchType DEF SaveRoster
<1>13. CASE \E c \in Sessions : TakeMail(c)
  BY <1>13, TouchType DEF TakeMail
<1>14. CASE \E c \in Sessions : Remove(c)
  BY <1>14 DEF Remove
<1>15. CASE SaveForUser
  BY <1>15 DEF SaveForUser
<1>16. CASE StoreMail
  BY <1>16 DEF StoreMail
<1>17. CASE UnlinkMail
  BY <1>17, TouchType DEF UnlinkMail
<1>18. CASE RmdirOffline
  BY <1>18, TouchType DEF RmdirOffline
<1>19. CASE UnlinkConf
  BY <1>19, TouchType DEF UnlinkConf
<1>20. CASE UnlinkRoster
  BY <1>20, TouchType DEF UnlinkRoster
<1>21. CASE RmdirUser
  BY <1>21, TouchType DEF RmdirUser
<1>22. CASE Crash
  BY <1>22 DEF Crash
<1>23. CASE \E t \in Tools : Kill(t)
  BY <1>23 DEF Kill
<1> QED
  BY <1>1, <1>2, <1>3, <1>4, <1>5, <1>6, <1>7, <1>8, <1>9, <1>10, <1>11,
     <1>12, <1>13, <1>14, <1>15, <1>16, <1>17, <1>18, <1>19, <1>20, <1>21, <1>22, <1>23
     DEF Next, Creating, Removing

(* An open file stays in its place until UnlinkConf, which sees to all of them. *)
LEMMA LinkedStep ==
  ASSUME TypeOK, LinkedThere, [Next]_vars
  PROVE  LinkedThere'
<1> USE ConstAssumption DEF TypeOK, LinkedThere, Procs,
       At, Goto, Idle, Touch, fileVars, procVars
<1>1. CASE UNCHANGED vars
  BY <1>1 DEF vars
<1>2. CASE \E p \in Procs : Exists(p)
  BY <1>2 DEF Exists
<1>3. CASE \E p \in Procs : Mkdir(p)
  BY <1>3 DEF Mkdir
<1>4. CASE \E p \in Procs : OpenConf(p)
  BY <1>4 DEF OpenConf
<1>5. CASE \E p \in Procs : WriteConf(p)
  BY <1>5 DEF WriteConf
<1>6. CASE \E p \in Procs : MakeRoster(p)
  BY <1>6 DEF MakeRoster
<1>7. CASE \E p \in Procs : MakeOffline(p)
  BY <1>7 DEF MakeOffline
<1>8. CASE \E p \in Procs, pw \in Passwords : Create(p, pw)
  BY <1>8 DEF Create
<1>9. CASE \E c \in Sessions, pw \in Passwords : Login(c, pw)
  BY <1>9 DEF Login
<1>10. CASE \E c \in Sessions, pw \in Passwords : ChangePassword(c, pw)
  BY <1>10 DEF ChangePassword
<1>11. CASE \E c \in Sessions : Logout(c)
  BY <1>11 DEF Logout
<1>12. CASE \E c \in Sessions : SaveRoster(c)
  BY <1>12 DEF SaveRoster
<1>13. CASE \E c \in Sessions : TakeMail(c)
  BY <1>13 DEF TakeMail
<1>14. CASE \E c \in Sessions : Remove(c)
  BY <1>14 DEF Remove
<1>15. CASE SaveForUser
  BY <1>15 DEF SaveForUser
<1>16. CASE StoreMail
  BY <1>16 DEF StoreMail
<1>17. CASE UnlinkMail
  BY <1>17 DEF UnlinkMail
<1>18. CASE RmdirOffline
  BY <1>18 DEF RmdirOffline
<1>19. CASE UnlinkConf
  BY <1>19 DEF UnlinkConf
<1>20. CASE UnlinkRoster
  BY <1>20 DEF UnlinkRoster
<1>21. CASE RmdirUser
  BY <1>21 DEF RmdirUser
<1>22. CASE Crash
  BY <1>22 DEF Crash
<1>23. CASE \E t \in Tools : Kill(t)
  BY <1>23 DEF Kill
<1> QED
  BY <1>1, <1>2, <1>3, <1>4, <1>5, <1>6, <1>7, <1>8, <1>9, <1>10, <1>11,
     <1>12, <1>13, <1>14, <1>15, <1>16, <1>17, <1>18, <1>19, <1>20, <1>21, <1>22, <1>23
     DEF Next, Creating, Removing

(* Who acts for an owner does so since that owner logged in. *)
LEMMA ActingStep ==
  ASSUME TypeOK, Acting, [Next]_vars
  PROVE  Acting'
<1> USE ConstAssumption DEF TypeOK, Acting, Rm, Procs,
       At, Goto, Idle, Touch, fileVars, procVars
<1>1. CASE UNCHANGED vars
  BY <1>1 DEF vars
<1>2. CASE \E p \in Procs : Exists(p)
  BY <1>2 DEF Exists
<1>3. CASE \E p \in Procs : Mkdir(p)
  BY <1>3 DEF Mkdir
<1>4. CASE \E p \in Procs : OpenConf(p)
  BY <1>4 DEF OpenConf
<1>5. CASE \E p \in Procs : WriteConf(p)
  BY <1>5 DEF WriteConf
<1>6. CASE \E p \in Procs : MakeRoster(p)
  BY <1>6 DEF MakeRoster
<1>7. CASE \E p \in Procs : MakeOffline(p)
  BY <1>7 DEF MakeOffline
<1>8. CASE \E p \in Procs, pw \in Passwords : Create(p, pw)
  BY <1>8 DEF Create
<1>9. CASE \E c \in Sessions, pw \in Passwords : Login(c, pw)
  BY <1>9 DEF Login
<1>10. CASE \E c \in Sessions, pw \in Passwords : ChangePassword(c, pw)
  BY <1>10 DEF ChangePassword
<1>11. CASE \E c \in Sessions : Logout(c)
  BY <1>11 DEF Logout
<1>12. CASE \E c \in Sessions : SaveRoster(c)
  BY <1>12 DEF SaveRoster
<1>13. CASE \E c \in Sessions : TakeMail(c)
  BY <1>13 DEF TakeMail
<1>14. CASE \E c \in Sessions : Remove(c)
  BY <1>14 DEF Remove
<1>15. CASE SaveForUser
  BY <1>15 DEF SaveForUser
<1>16. CASE StoreMail
  BY <1>16 DEF StoreMail
<1>17. CASE UnlinkMail
  BY <1>17 DEF UnlinkMail
<1>18. CASE RmdirOffline
  BY <1>18 DEF RmdirOffline
<1>19. CASE UnlinkConf
  BY <1>19 DEF UnlinkConf
<1>20. CASE UnlinkRoster
  BY <1>20 DEF UnlinkRoster
<1>21. CASE RmdirUser
  BY <1>21 DEF RmdirUser
<1>22. CASE Crash
  BY <1>22 DEF Crash
<1>23. CASE \E t \in Tools : Kill(t)
  BY <1>23 DEF Kill
<1> QED
  BY <1>1, <1>2, <1>3, <1>4, <1>5, <1>6, <1>7, <1>8, <1>9, <1>10, <1>11,
     <1>12, <1>13, <1>14, <1>15, <1>16, <1>17, <1>18, <1>19, <1>20, <1>21, <1>22, <1>23
     DEF Next, Creating, Removing

(* Who writes user.conf writes for the owner. *)
LEMMA WritersStep ==
  ASSUME TypeOK, LinkedThere, Acting, Writers, Unshared, [Next]_vars
  PROVE  Writers'
<1> USE ConstAssumption DEF TypeOK, LinkedThere, Acting, Writers, Rm, Procs,
       At, Goto, Idle, Touch, fileVars, procVars
<1>1. CASE UNCHANGED vars
  BY <1>1 DEF vars
<1>2. CASE \E p \in Procs : Exists(p)
  BY <1>2 DEF Exists
<1>3. CASE \E p \in Procs : Mkdir(p)
  BY <1>3 DEF Mkdir
<1>4. CASE \E p \in Procs : OpenConf(p)
  <2>1. PICK p \in Procs : OpenConf(p)
    BY <1>4
  <2>2. CASE dir = 0
    BY <2>1, <2>2 DEF OpenConf
  <2>3. CASE dir # 0 /\ At(p, "conf")
    BY <2>1, <2>3 DEF OpenConf, Unshared, Made
  <2>4. CASE dir # 0 /\ ~At(p, "conf")
    BY <2>1, <2>4 DEF OpenConf
  <2> QED
    BY <2>2, <2>3, <2>4
<1>5. CASE \E p \in Procs : WriteConf(p)
  BY <1>5 DEF WriteConf
<1>6. CASE \E p \in Procs : MakeRoster(p)
  BY <1>6 DEF MakeRoster
<1>7. CASE \E p \in Procs : MakeOffline(p)
  BY <1>7 DEF MakeOffline
<1>8. CASE \E p \in Procs, pw \in Passwords : Create(p, pw)
  BY <1>8 DEF Create
<1>9. CASE \E c \in Sessions, pw \in Passwords : Login(c, pw)
  BY <1>9 DEF Login
<1>10. CASE \E c \in Sessions, pw \in Passwords : ChangePassword(c, pw)
  BY <1>10 DEF ChangePassword
<1>11. CASE \E c \in Sessions : Logout(c)
  BY <1>11 DEF Logout
<1>12. CASE \E c \in Sessions : SaveRoster(c)
  BY <1>12 DEF SaveRoster
<1>13. CASE \E c \in Sessions : TakeMail(c)
  BY <1>13 DEF TakeMail
<1>14. CASE \E c \in Sessions : Remove(c)
  BY <1>14 DEF Remove
<1>15. CASE SaveForUser
  BY <1>15 DEF SaveForUser
<1>16. CASE StoreMail
  BY <1>16 DEF StoreMail
<1>17. CASE UnlinkMail
  BY <1>17 DEF UnlinkMail
<1>18. CASE RmdirOffline
  BY <1>18 DEF RmdirOffline
<1>19. CASE UnlinkConf
  BY <1>19 DEF UnlinkConf
<1>20. CASE UnlinkRoster
  BY <1>20 DEF UnlinkRoster
<1>21. CASE RmdirUser
  BY <1>21 DEF RmdirUser
<1>22. CASE Crash
  BY <1>22 DEF Crash
<1>23. CASE \E t \in Tools : Kill(t)
  BY <1>23 DEF Kill
<1> QED
  BY <1>1, <1>2, <1>3, <1>4, <1>5, <1>6, <1>7, <1>8, <1>9, <1>10, <1>11,
     <1>12, <1>13, <1>14, <1>15, <1>16, <1>17, <1>18, <1>19, <1>20, <1>21, <1>22, <1>23
     DEF Next, Creating, Removing

(* mkdir gives a directory to one process. *)
LEMMA UnsharedStep ==
  ASSUME TypeOK, Unshared, [Next]_vars
  PROVE  Unshared'
<1> USE ConstAssumption DEF TypeOK, Unshared, Made, Procs,
       At, Goto, Idle, Touch, fileVars, procVars
<1>1. CASE UNCHANGED vars
  BY <1>1 DEF vars
<1>2. CASE \E p \in Procs : Exists(p)
  BY <1>2 DEF Exists
<1>3. CASE \E p \in Procs : Mkdir(p)
  BY <1>3 DEF Mkdir
<1>4. CASE \E p \in Procs : OpenConf(p)
  BY <1>4 DEF OpenConf
<1>5. CASE \E p \in Procs : WriteConf(p)
  BY <1>5 DEF WriteConf
<1>6. CASE \E p \in Procs : MakeRoster(p)
  BY <1>6 DEF MakeRoster
<1>7. CASE \E p \in Procs : MakeOffline(p)
  BY <1>7 DEF MakeOffline
<1>8. CASE \E p \in Procs, pw \in Passwords : Create(p, pw)
  BY <1>8 DEF Create
<1>9. CASE \E c \in Sessions, pw \in Passwords : Login(c, pw)
  BY <1>9 DEF Login
<1>10. CASE \E c \in Sessions, pw \in Passwords : ChangePassword(c, pw)
  BY <1>10 DEF ChangePassword
<1>11. CASE \E c \in Sessions : Logout(c)
  BY <1>11 DEF Logout
<1>12. CASE \E c \in Sessions : SaveRoster(c)
  BY <1>12 DEF SaveRoster
<1>13. CASE \E c \in Sessions : TakeMail(c)
  BY <1>13 DEF TakeMail
<1>14. CASE \E c \in Sessions : Remove(c)
  BY <1>14 DEF Remove
<1>15. CASE SaveForUser
  BY <1>15 DEF SaveForUser
<1>16. CASE StoreMail
  BY <1>16 DEF StoreMail
<1>17. CASE UnlinkMail
  BY <1>17 DEF UnlinkMail
<1>18. CASE RmdirOffline
  BY <1>18 DEF RmdirOffline
<1>19. CASE UnlinkConf
  BY <1>19 DEF UnlinkConf
<1>20. CASE UnlinkRoster
  BY <1>20 DEF UnlinkRoster
<1>21. CASE RmdirUser
  BY <1>21 DEF RmdirUser
<1>22. CASE Crash
  BY <1>22 DEF Crash
<1>23. CASE \E t \in Tools : Kill(t)
  BY <1>23 DEF Kill
<1> QED
  BY <1>1, <1>2, <1>3, <1>4, <1>5, <1>6, <1>7, <1>8, <1>9, <1>10, <1>11,
     <1>12, <1>13, <1>14, <1>15, <1>16, <1>17, <1>18, <1>19, <1>20, <1>21, <1>22, <1>23
     DEF Next, Creating, Removing

(* Nobody touches what a creation has made before its owner has logged in, but for
   sessions of other owners, which is recorded. *)
LEMMA BuiltStep ==
  ASSUME TypeOK, LinkedThere, Acting, Writers, Unshared, Built, [Next]_vars
  PROVE  Built'
<1> USE ConstAssumption DEF TypeOK, LinkedThere, Acting, Writers, Unshared, Built, Made, Rm, Procs,
       At, Goto, Idle, Touch, fileVars, procVars
<1>1. CASE UNCHANGED vars
  BY <1>1 DEF vars
<1>2. CASE \E p \in Procs : Exists(p)
  BY <1>2 DEF Exists
<1>3. CASE \E p \in Procs : Mkdir(p)
  BY <1>3 DEF Mkdir
<1>4. CASE \E p \in Procs : OpenConf(p)
  <2>1. PICK p \in Procs : OpenConf(p)
    BY <1>4
  <2>2. CASE dir = 0
    BY <2>1, <2>2 DEF OpenConf
  <2>3. CASE dir # 0 /\ At(p, "conf")
    BY <2>1, <2>3 DEF OpenConf
  <2>4. CASE dir # 0 /\ ~At(p, "conf")
    BY <2>1, <2>4 DEF OpenConf
  <2> QED
    BY <2>2, <2>3, <2>4
<1>5. CASE \E p \in Procs : WriteConf(p)
  BY <1>5 DEF WriteConf
<1>6. CASE \E p \in Procs : MakeRoster(p)
  BY <1>6 DEF MakeRoster
<1>7. CASE \E p \in Procs : MakeOffline(p)
  BY <1>7 DEF MakeOffline
<1>8. CASE \E p \in Procs, pw \in Passwords : Create(p, pw)
  BY <1>8 DEF Create
<1>9. CASE \E c \in Sessions, pw \in Passwords : Login(c, pw)
  BY <1>9 DEF Login
<1>10. CASE \E c \in Sessions, pw \in Passwords : ChangePassword(c, pw)
  BY <1>10 DEF ChangePassword
<1>11. CASE \E c \in Sessions : Logout(c)
  BY <1>11 DEF Logout
<1>12. CASE \E c \in Sessions : SaveRoster(c)
  BY <1>12 DEF SaveRoster
<1>13. CASE \E c \in Sessions : TakeMail(c)
  BY <1>13 DEF TakeMail
<1>14. CASE \E c \in Sessions : Remove(c)
  BY <1>14 DEF Remove
<1>15. CASE SaveForUser
  BY <1>15 DEF SaveForUser
<1>16. CASE StoreMail
  BY <1>16 DEF StoreMail
<1>17. CASE UnlinkMail
  BY <1>17 DEF UnlinkMail
<1>18. CASE RmdirOffline
  BY <1>18 DEF RmdirOffline
<1>19. CASE UnlinkConf
  BY <1>19 DEF UnlinkConf
<1>20. CASE UnlinkRoster
  BY <1>20 DEF UnlinkRoster
<1>21. CASE RmdirUser
  BY <1>21 DEF RmdirUser
<1>22. CASE Crash
  BY <1>22 DEF Crash
<1>23. CASE \E t \in Tools : Kill(t)
  BY <1>23 DEF Kill
<1> QED
  BY <1>1, <1>2, <1>3, <1>4, <1>5, <1>6, <1>7, <1>8, <1>9, <1>10, <1>11,
     <1>12, <1>13, <1>14, <1>15, <1>16, <1>17, <1>18, <1>19, <1>20, <1>21, <1>22, <1>23
     DEF Next, Creating, Removing

(* Rosters and mail are the owner's. *)
LEMMA InheritStep ==
  ASSUME TypeOK, NoInheritance, [Next]_vars
  PROVE  NoInheritance'
<1> USE ConstAssumption DEF TypeOK, NoInheritance, Procs,
       At, Goto, Idle, Touch, fileVars, procVars
<1>1. CASE UNCHANGED vars
  BY <1>1 DEF vars
<1>2. CASE \E p \in Procs : Exists(p)
  BY <1>2 DEF Exists
<1>3. CASE \E p \in Procs : Mkdir(p)
  BY <1>3 DEF Mkdir
<1>4. CASE \E p \in Procs : OpenConf(p)
  BY <1>4 DEF OpenConf
<1>5. CASE \E p \in Procs : WriteConf(p)
  BY <1>5 DEF WriteConf
<1>6. CASE \E p \in Procs : MakeRoster(p)
  BY <1>6 DEF MakeRoster
<1>7. CASE \E p \in Procs : MakeOffline(p)
  BY <1>7 DEF MakeOffline
<1>8. CASE \E p \in Procs, pw \in Passwords : Create(p, pw)
  BY <1>8 DEF Create
<1>9. CASE \E c \in Sessions, pw \in Passwords : Login(c, pw)
  BY <1>9 DEF Login
<1>10. CASE \E c \in Sessions, pw \in Passwords : ChangePassword(c, pw)
  BY <1>10 DEF ChangePassword
<1>11. CASE \E c \in Sessions : Logout(c)
  BY <1>11 DEF Logout
<1>12. CASE \E c \in Sessions : SaveRoster(c)
  BY <1>12 DEF SaveRoster
<1>13. CASE \E c \in Sessions : TakeMail(c)
  BY <1>13 DEF TakeMail
<1>14. CASE \E c \in Sessions : Remove(c)
  BY <1>14 DEF Remove
<1>15. CASE SaveForUser
  BY <1>15 DEF SaveForUser
<1>16. CASE StoreMail
  BY <1>16 DEF StoreMail
<1>17. CASE UnlinkMail
  BY <1>17 DEF UnlinkMail
<1>18. CASE RmdirOffline
  BY <1>18 DEF RmdirOffline
<1>19. CASE UnlinkConf
  BY <1>19 DEF UnlinkConf
<1>20. CASE UnlinkRoster
  BY <1>20 DEF UnlinkRoster
<1>21. CASE RmdirUser
  BY <1>21 DEF RmdirUser
<1>22. CASE Crash
  BY <1>22 DEF Crash
<1>23. CASE \E t \in Tools : Kill(t)
  BY <1>23 DEF Kill
<1> QED
  BY <1>1, <1>2, <1>3, <1>4, <1>5, <1>6, <1>7, <1>8, <1>9, <1>10, <1>11,
     <1>12, <1>13, <1>14, <1>15, <1>16, <1>17, <1>18, <1>19, <1>20, <1>21, <1>22, <1>23
     DEF Next, Creating, Removing

(* The password is the owner's. *)
LEMMA PasswordStep ==
  ASSUME TypeOK, LinkedThere, Writers, OwnPassword, [Next]_vars
  PROVE  OwnPassword'
<1> USE ConstAssumption DEF TypeOK, LinkedThere, Writers, OwnPassword, Procs,
       At, Goto, Idle, Touch, fileVars, procVars
<1>1. CASE UNCHANGED vars
  BY <1>1 DEF vars
<1>2. CASE \E p \in Procs : Exists(p)
  BY <1>2 DEF Exists
<1>3. CASE \E p \in Procs : Mkdir(p)
  BY <1>3 DEF Mkdir
<1>4. CASE \E p \in Procs : OpenConf(p)
  BY <1>4 DEF OpenConf
<1>5. CASE \E p \in Procs : WriteConf(p)
  BY <1>5 DEF WriteConf
<1>6. CASE \E p \in Procs : MakeRoster(p)
  BY <1>6 DEF MakeRoster
<1>7. CASE \E p \in Procs : MakeOffline(p)
  BY <1>7 DEF MakeOffline
<1>8. CASE \E p \in Procs, pw \in Passwords : Create(p, pw)
  BY <1>8 DEF Create
<1>9. CASE \E c \in Sessions, pw \in Passwords : Login(c, pw)
  BY <1>9 DEF Login
<1>10. CASE \E c \in Sessions, pw \in Passwords : ChangePassword(c, pw)
  BY <1>10 DEF ChangePassword
<1>11. CASE \E c \in Sessions : Logout(c)
  BY <1>11 DEF Logout
<1>12. CASE \E c \in Sessions : SaveRoster(c)
  BY <1>12 DEF SaveRoster
<1>13. CASE \E c \in Sessions : TakeMail(c)
  BY <1>13 DEF TakeMail
<1>14. CASE \E c \in Sessions : Remove(c)
  BY <1>14 DEF Remove
<1>15. CASE SaveForUser
  BY <1>15 DEF SaveForUser
<1>16. CASE StoreMail
  BY <1>16 DEF StoreMail
<1>17. CASE UnlinkMail
  BY <1>17 DEF UnlinkMail
<1>18. CASE RmdirOffline
  BY <1>18 DEF RmdirOffline
<1>19. CASE UnlinkConf
  BY <1>19 DEF UnlinkConf
<1>20. CASE UnlinkRoster
  BY <1>20 DEF UnlinkRoster
<1>21. CASE RmdirUser
  BY <1>21 DEF RmdirUser
<1>22. CASE Crash
  BY <1>22 DEF Crash
<1>23. CASE \E t \in Tools : Kill(t)
  BY <1>23 DEF Kill
<1> QED
  BY <1>1, <1>2, <1>3, <1>4, <1>5, <1>6, <1>7, <1>8, <1>9, <1>10, <1>11,
     <1>12, <1>13, <1>14, <1>15, <1>16, <1>17, <1>18, <1>19, <1>20, <1>21, <1>22, <1>23
     DEF Next, Creating, Removing
-----------------------------------------------------------------------------
(* In every reachable state, with any number of sessions, the variables have
   their types, and there is nothing in a directory that does not exist: the
   server and the runs of useradd never write into a directory that is gone. *)
THEOREM TypeCorrect == Spec => []TypeOK
<1>1. Init => TypeOK /\ LinkedThere
  BY InitIInv DEF IInv
<1>2. (TypeOK /\ LinkedThere) /\ [Next]_vars => (TypeOK /\ LinkedThere)'
  BY TypeStep, LinkedStep
<1> QED
  BY <1>1, <1>2, PTL DEF Spec

(* The inductive invariant holds in every reachable state. *)
THEOREM Invariance == Spec => []IInv
<1>1. Init => IInv
  BY InitIInv
<1>2. IInv /\ [Next]_vars => IInv'
  <2> SUFFICES ASSUME IInv, [Next]_vars PROVE IInv'
    OBVIOUS
  <2>1. TypeOK' /\ LinkedThere' /\ Acting'
    BY TypeStep, LinkedStep, ActingStep DEF IInv
  <2>2. Writers' /\ Unshared' /\ Built'
    BY WritersStep, UnsharedStep, BuiltStep DEF IInv
  <2>3. NoInheritance' /\ OwnPassword'
    BY InheritStep, PasswordStep DEF IInv
  <2> QED
    BY <2>1, <2>2, <2>3 DEF IInv
<1> QED
  BY <1>1, <1>2, PTL DEF Spec

(* Nobody gets the roster or the mail of an earlier owner of the name, wherever
   user_delete, user_create or useradd was cut off, unless a session of another
   owner has touched the directory. *)
THEOREM NoInheritanceHolds == Spec => []NoInheritance
<1>1. IInv => NoInheritance
  BY DEF IInv
<1> QED
  BY <1>1, Invariance, PTL

(* The password in user.conf was written for the owner of the directory, by
   whichever of user_create, user_change_password and useradd wrote it, under
   the same condition. *)
THEOREM OwnPasswordHolds == Spec => []OwnPassword
<1>1. IInv => OwnPassword
  BY DEF IInv
<1> QED
  BY <1>1, Invariance, PTL

(* What SuccessMeansComplete says of a step. *)
SuccessStep ==
  \A p \in Procs :
    pc[p] = "offline" /\ ~off /\ off' /\ pc'[p] = "idle" /\ mine[p] \notin used \cup crossed =>
      dir' = mine[p] /\ conf' = arg[p] /\ roster' = mine[p]

(* The only step that makes offline/ and leaves a creation idle is MakeOffline,
   and Built says what that creation finds. *)
LEMMA SuccessIsComplete == ASSUME IInv, [Next]_vars PROVE SuccessStep
<1> USE DEF SuccessStep
<1> SUFFICES ASSUME NEW p \in Procs,
                    pc[p] = "offline", ~off, off', pc'[p] = "idle", mine[p] \notin used \cup crossed
             PROVE  dir' = mine[p] /\ conf' = arg[p] /\ roster' = mine[p]
  OBVIOUS
<1>1. dir = mine[p] /\ conf = arg[p] /\ roster = mine[p]
  BY DEF IInv, Built
<1>2. dir' = dir /\ conf' = conf /\ roster' = roster
  <2> USE DEF IInv, TypeOK, At, Goto, Idle, fileVars, procVars
  <2>1. ASSUME NEW q \in Procs, Creating(q) \/ \E pw \in Passwords : Create(q, pw)
        PROVE  \E r \in Procs : MakeOffline(r)
    BY <2>1 DEF Creating, Exists, Mkdir, OpenConf, WriteConf, MakeRoster, Create
  <2>2. ASSUME NEW c \in Sessions, NEW pw \in Passwords, Login(c, pw) \/ ChangePassword(c, pw)
        PROVE  FALSE
    BY <2>2 DEF Login, ChangePassword
  <2>3. ASSUME NEW c \in Sessions, Logout(c) \/ SaveRoster(c) \/ TakeMail(c) \/ Remove(c)
        PROVE  FALSE
    BY <2>3 DEF Logout, SaveRoster, TakeMail, Remove
  <2>4. ~SaveForUser /\ ~Removing /\ ~Crash /\ ~UNCHANGED vars /\ ~\E t \in Tools : Kill(t)
    BY DEF SaveForUser, Removing, UnlinkMail, RmdirOffline, UnlinkConf, UnlinkRoster, RmdirUser, Crash, vars,
           Kill
  <2> QED
    BY <2>1, <2>2, <2>3, <2>4 DEF Next, MakeOffline, StoreMail
<1> QED
  BY <1>1, <1>2

(* A creation that reports success has made the whole account with its own
   password, although the server and runs of useradd create the same name at
   the same time, unless a session of that or of another owner has come in. *)
THEOREM SuccessMeansCompleteHolds == Spec => SuccessMeansComplete
<1>1. IInv /\ [Next]_vars => SuccessStep
  BY SuccessIsComplete
<1> QED
  BY <1>1, Invariance, PTL DEF Spec, SuccessMeansComplete, SuccessStep
=============================================================================
