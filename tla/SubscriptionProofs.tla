------------------------- MODULE SubscriptionProofs -------------------------
(***************************************************************************)
(* Proofs about Subscription, for any set of users, any JIDs at other      *)
(* domains and any limit on the rosters: the type invariant, that the      *)
(* rosters in memory and on disk agree, and, when no client removes a      *)
(* roster item, that a subscription has its consent on the other side and  *)
(* that available presence goes to authorised contacts only; when nobody   *)
(* unsubscribes either, that a subscriber has seen the presence it is      *)
(* subscribed to.  Each says nothing of the items that a stanza to another *)
(* domain changed (strayed), and holds of all others whatever those do.    *)
(*                                                                         *)
(* The handlers choose between memory and disk by two conditions, the      *)
(* session and its loaded roster; LoadedOnline says that the second        *)
(* implies the first, and with CacheCoherent it makes the choice           *)
(* immaterial: every handler acts on what is on disk.                      *)
(***************************************************************************)
EXTENDS Subscription, TLAPS

(* Only a session holds a roster. *)
LoadedOnline == \A u \in Users : loaded[u] => online[u]

IInv == TypeOK /\ LoadedOnline /\ CacheCoherent
-----------------------------------------------------------------------------
(* The roster a handler works on is the one on disk, but for the items that
   were changed under an alias. *)
LEMMA MineIsDisk ==
  ASSUME IInv, NEW u \in Users
  PROVE  Mine(u) \in Rosters /\ \A k \in Keys : <<u, k>> \notin strayed => Mine(u)[k] = disk[u][k]
  BY DEF Mine, IInv, CacheCoherent, TypeOK

(* An item stays an item, and a missing one is left missing by all changes
   but the approval by its owner. *)
LEMMA ItemChanges ==
  /\ GainFrom \in [Items -> Items] /\ GainTo \in [Items -> Items]
  /\ LoseFrom \in [Items -> Items] /\ LoseTo \in [Items -> Items]
  /\ \A it \in Items : ~Present(it) => GainTo[it] = it /\ LoseTo[it] = it /\ LoseFrom[it] = it
<1>1. GainFrom \in [Items -> Items]
  BY DEF GainFrom, Items, Subs
<1>2. GainTo \in [Items -> Items]
  BY DEF GainTo, Items, Subs
<1>3. LoseFrom \in [Items -> Items]
  BY DEF LoseFrom, Items, Subs
<1>4. LoseTo \in [Items -> Items]
  BY DEF LoseTo, Items, Subs
<1>5. \A it \in Items : ~Present(it) => GainTo[it] = it /\ LoseTo[it] = it /\ LoseFrom[it] = it
  BY DEF GainTo, LoseTo, LoseFrom, Items, Subs, Present
<1> QED
  BY <1>1, <1>2, <1>3, <1>4, <1>5

(* What each change does to the two directions of a subscription. *)
LEMMA ItemDirections ==
  \A it \in Items :
    /\ sub_has_from(GainFrom[it]) /\ (sub_has_to(GainFrom[it]) <=> sub_has_to(it))
    /\ sub_has_from(GainTo[it]) <=> sub_has_from(it)
    /\ ~sub_has_to(LoseTo[it]) /\ (sub_has_from(LoseTo[it]) <=> sub_has_from(it))
    /\ ~sub_has_from(LoseFrom[it]) /\ (sub_has_to(LoseFrom[it]) <=> sub_has_to(it))
<1> SUFFICES ASSUME NEW it \in Items
    PROVE /\ sub_has_from(GainFrom[it]) /\ (sub_has_to(GainFrom[it]) <=> sub_has_to(it))
          /\ sub_has_from(GainTo[it]) <=> sub_has_from(it)
          /\ ~sub_has_to(LoseTo[it]) /\ (sub_has_from(LoseTo[it]) <=> sub_has_from(it))
          /\ ~sub_has_from(LoseFrom[it]) /\ (sub_has_to(LoseFrom[it]) <=> sub_has_to(it))
  OBVIOUS
<1> USE DEF sub_has_to, sub_has_from, Items, Subs
<1>1. sub_has_from(GainFrom[it]) /\ (sub_has_to(GainFrom[it]) <=> sub_has_to(it))
  BY DEF GainFrom
<1>2. sub_has_from(GainTo[it]) <=> sub_has_from(it)
  BY DEF GainTo
<1>3. ~sub_has_to(LoseTo[it]) /\ (sub_has_from(LoseTo[it]) <=> sub_has_from(it))
  BY DEF LoseTo
<1>4. ~sub_has_from(LoseFrom[it]) /\ (sub_has_to(LoseFrom[it]) <=> sub_has_to(it))
  BY DEF LoseFrom
<1> QED
  BY <1>1, <1>2, <1>3, <1>4

(* What u's item for v becomes when s addresses t: the sender's item by Own,
   then the addressee's item by Their (s and t may be the same user). *)
ItemAfter(s, t, Own, Their, u, v) ==
  LET own == IF u = s /\ v = t THEN Own[disk[u][v]] ELSE disk[u][v]
  IN IF u = t /\ v = s THEN Their[own] ELSE own

Changed(s, t, Own, Their) ==
  \A u, v \in Users : <<u, v>> \notin strayed' => disk'[u][v] = ItemAfter(s, t, Own, Their, u, v)

(* The change of two rosters, whichever of them are in memory: on disk the
   sender's item becomes Own of itself, then the addressee's item Their of
   itself, and memory follows; under an alias the addressee's item is changed
   in the file alone, and that is recorded. *)
LEMMA BothRostersChange ==
  ASSUME IInv, NEW s \in Users, NEW t \in Keys, online[s],
         NEW Own \in [Items -> Items], NEW Their \in [Items -> Items], NEW always \in BOOLEAN,
         always \/ \A it \in Items : ~Present(it) => Own[it] = it,
         \A it \in Items : ~Present(it) => Their[it] = it,
         BothRosters(s, t, Own, Their, always)
  PROVE  /\ Changed(s, t, Own, Their)
         /\ disk' \in [Users -> Rosters]
         /\ cache' \in [Users -> Rosters]
         /\ loaded' = [loaded EXCEPT ![s] = TRUE]
         /\ strayed \subseteq strayed' /\ strayed' \subseteq Users \X Users
         /\ t \in Users => strayed' = strayed
         /\ CacheCoherent'
<1> DEFINE mine == Mine(s)
           mine1 == [mine EXCEPT ![t] = Own[@]]
           loaded1 == [loaded EXCEPT ![s] = TRUE]
           cache1 == [cache EXCEPT ![s] = mine1]
           disk1 == [disk EXCEPT ![s] = IF always \/ Present(mine[t]) THEN mine1 ELSE @]
           inMemory == InMemory(t, loaded1)
           file == FileOf(t)
           theirs == CASE inMemory -> cache1[t]
                       [] ~inMemory /\ file \in Users -> disk1[file]
                       [] OTHER -> EmptyRoster
           theirs1 == [theirs EXCEPT ![s] = Their[@]]
           saved == file \in Users /\ (always \/ Present(theirs[s]))
<1>1. /\ disk \in [Users -> Rosters] /\ cache \in [Users -> Rosters]
      /\ loaded \in [Users -> BOOLEAN] /\ online \in [Users -> BOOLEAN]
      /\ strayed \subseteq Users \X Users
      /\ mine \in Rosters /\ \A k \in Keys : <<s, k>> \notin strayed => mine[k] = disk[s][k]
  BY MineIsDisk DEF IInv, TypeOK
<1>2. /\ loaded' = loaded1
      /\ cache' = IF inMemory THEN [cache1 EXCEPT ![t] = theirs1] ELSE cache1
      /\ disk' = IF saved THEN [disk1 EXCEPT ![file] = theirs1] ELSE disk1
      /\ strayed' = IF t \in Aliases /\ saved /\ theirs1 # theirs
                       THEN strayed \cup {<<file, s>>} ELSE strayed
  BY Zenon DEF BothRosters
<1> HIDE DEF mine
<1>3. mine1 \in Rosters /\ mine1[t] = Own[mine[t]] /\ \A k \in Keys \ {t} : mine1[k] = mine[k]
  BY <1>1 DEF Rosters
<1>4. always \/ Present(mine[t]) \/ mine1 = mine
  <2>1. ASSUME ~always, ~Present(mine[t]) PROVE mine1 = mine
    <3>1. Own[mine[t]] = mine[t]
      BY <1>1, <2>1 DEF Rosters
    <3> QED
      BY <1>1, <3>1 DEF Rosters
  <2> QED
    BY <2>1
<1> HIDE DEF mine1
<1>5. disk1 \in [Users -> Rosters] /\ cache1 \in [Users -> Rosters]
  BY <1>1, <1>3
<1>6. ASSUME NEW k \in Keys, <<s, k>> \notin strayed PROVE disk1[s][k] = mine1[k]
  BY <1>1, <1>4, <1>6
<1>7. ASSUME NEW u \in Users, loaded1[u], NEW k \in Keys, <<u, k>> \notin strayed
      PROVE  cache1[u][k] = disk1[u][k]
  <2>1. CASE u = s
    BY <1>1, <1>6, <1>7, <2>1
  <2>2. CASE u # s
    BY <1>1, <1>7, <2>2 DEF IInv, CacheCoherent
  <2> QED
    BY <2>1, <2>2
<1>8. ASSUME NEW u \in Users, NEW v \in Users, <<u, v>> \notin strayed
      PROVE  disk1[u][v] = IF u = s /\ v = t THEN Own[disk[u][v]] ELSE disk[u][v]
  <2>1. v \in Keys
    BY DEF Keys
  <2>2. CASE u = s
    BY <1>1, <1>3, <1>6, <1>8, <2>1, <2>2
  <2>3. CASE u # s
    BY <1>1, <2>3
  <2> QED
    BY <2>2, <2>3
<1>9. inMemory <=> t \in Users /\ online[t] /\ loaded1[t]
  BY DEF InMemory, Found
<1>10. t \in Users => file = t
  BY DEF FileOf
<1>11. t \notin Users => t \in Aliases
  BY DEF Keys
<1>12. t \in Users => t \notin Aliases
  BY ConstAssumption
<1> HIDE DEF disk1, cache1, inMemory, file
<1>13. EmptyRoster \in Rosters
  BY DEF EmptyRoster, Rosters, NoItem, Items, Subs
<1>14. theirs \in Rosters
  BY <1>5, <1>9, <1>13
<1> HIDE DEF theirs
<1>15. s \in Keys
  BY DEF Keys
<1>16. /\ theirs1 \in Rosters /\ theirs1[s] = Their[theirs[s]]
       /\ \A k \in Keys \ {s} : theirs1[k] = theirs[k]
  BY <1>14, <1>15 DEF Rosters
<1>17. ~Present(theirs[s]) => theirs1 = theirs
  <2>1. ASSUME ~Present(theirs[s]) PROVE theirs1 = theirs
    <3>1. Their[theirs[s]] = theirs[s]
      BY <1>14, <1>15, <2>1 DEF Rosters
    <3> QED
      BY <1>14, <3>1 DEF Rosters
  <2> QED
    BY <2>1
<1> HIDE DEF theirs1
<1>18. disk' \in [Users -> Rosters] /\ cache' \in [Users -> Rosters]
  BY <1>2, <1>5, <1>9, <1>16
<1>19. strayed \subseteq strayed' /\ strayed' \subseteq Users \X Users /\ (t \in Users => strayed' = strayed)
  BY <1>1, <1>2, <1>12
<1>20. t \in Users /\ loaded1[t] => inMemory
  <2>1. t \in Users /\ loaded1[t] => online[t]
    BY <1>1 DEF IInv, LoadedOnline
  <2> QED
    BY <1>9, <2>1
<1>21. ASSUME t \in Users
       PROVE  /\ \A u \in Users \ {t} : cache'[u] = cache1[u] /\ disk'[u] = disk1[u]
              /\ \A k \in Keys : <<t, k>> \notin strayed =>
                   /\ disk'[t][k] = IF k = s THEN Their[disk1[t][k]] ELSE disk1[t][k]
                   /\ loaded1[t] => cache'[t][k] = disk'[t][k]
  <2>1. \A u \in Users \ {t} : cache'[u] = cache1[u] /\ disk'[u] = disk1[u]
    BY <1>2, <1>5, <1>10, <1>21
  <2>2. ASSUME NEW k \in Keys, <<t, k>> \notin strayed
        PROVE  /\ disk'[t][k] = IF k = s THEN Their[disk1[t][k]] ELSE disk1[t][k]
               /\ loaded1[t] => cache'[t][k] = disk'[t][k]
    <3>1. theirs[k] = disk1[t][k]
      <4>1. CASE inMemory
        BY <1>7, <1>9, <1>21, <2>2, <4>1 DEF theirs
      <4>2. CASE ~inMemory
        BY <1>10, <1>21, <4>2 DEF theirs
      <4> QED
        BY <4>1, <4>2
    <3>2. disk'[t][k] = theirs1[k]
      <4>1. CASE saved
        BY <1>2, <1>5, <1>10, <1>21, <4>1
      <4>2. CASE ~saved
        BY <1>2, <1>10, <1>17, <1>21, <3>1, <4>2
      <4> QED
        BY <4>1, <4>2
    <3>3. loaded1[t] => cache'[t] = theirs1
      BY <1>2, <1>5, <1>20, <1>21
    <3> QED
      BY <1>16, <3>1, <3>2, <3>3
  <2> QED
    BY <2>1, <2>2
<1>22. ASSUME t \notin Users
       PROVE  /\ cache' = cache1
              /\ \A u \in Users, k \in Keys : <<u, k>> \notin strayed' => disk'[u][k] = disk1[u][k]
  <2>1. cache' = cache1 /\ ~inMemory
    BY <1>2, <1>9, <1>22
  <2>2. ASSUME NEW u \in Users, NEW k \in Keys, <<u, k>> \notin strayed' PROVE disk'[u][k] = disk1[u][k]
    <3>1. CASE saved /\ u = file
      <4>1. theirs = disk1[u] /\ disk'[u] = theirs1
        BY <1>2, <1>5, <2>1, <3>1 DEF theirs
      <4>2. k # s \/ theirs1 = theirs
        BY <1>2, <1>11, <1>22, <2>2, <3>1
      <4> QED
        BY <1>16, <4>1, <4>2
    <3>2. CASE ~(saved /\ u = file)
      BY <1>2, <1>5, <3>2
    <3> QED
      BY <3>1, <3>2
  <2> QED
    BY <2>1, <2>2
<1> HIDE DEF loaded1
<1>23. CacheCoherent'
  <2> SUFFICES ASSUME NEW u \in Users, loaded'[u], NEW k \in Keys, <<u, k>> \notin strayed'
               PROVE  cache'[u][k] = disk'[u][k]
    BY DEF CacheCoherent
  <2>1. loaded1[u] /\ <<u, k>> \notin strayed
    BY <1>2, <1>19
  <2>2. cache1[u][k] = disk1[u][k]
    BY <1>7, <2>1
  <2>3. CASE t \in Users /\ u = t
    BY <1>21, <2>1, <2>3
  <2>4. CASE t \in Users /\ u # t
    BY <1>21, <2>2, <2>4
  <2>5. CASE t \notin Users
    BY <1>22, <2>2, <2>5
  <2> QED
    BY <2>3, <2>4, <2>5
<1>24. Changed(s, t, Own, Their)
  <2> SUFFICES ASSUME NEW u \in Users, NEW v \in Users, <<u, v>> \notin strayed'
               PROVE  disk'[u][v] = ItemAfter(s, t, Own, Their, u, v)
    BY DEF Changed
  <2>1. <<u, v>> \notin strayed /\ v \in Keys
    BY <1>19 DEF Keys
  <2>2. disk1[u][v] = IF u = s /\ v = t THEN Own[disk[u][v]] ELSE disk[u][v]
    BY <1>8, <2>1
  <2>3. disk'[u][v] = IF u = t /\ v = s THEN Their[disk1[u][v]] ELSE disk1[u][v]
    <3>1. CASE t \in Users /\ u = t
      BY <1>21, <2>1, <3>1
    <3>2. CASE t \in Users /\ u # t
      BY <1>21, <3>2
    <3>3. CASE t \notin Users
      BY <1>22, <2>1, <3>3
    <3> QED
      BY <3>1, <3>2, <3>3
  <2> QED
    BY <2>2, <2>3 DEF ItemAfter
<1> QED
  BY <1>2, <1>18, <1>19, <1>23, <1>24 DEF loaded1
-----------------------------------------------------------------------------
(* The inductive invariant holds of empty rosters and no session. *)
LEMMA InitIInv == Init => IInv
<1>1. EmptyRoster \in Rosters
  BY DEF EmptyRoster, Rosters, NoItem, Items, Subs
<1> QED
  BY <1>1 DEF Init, IInv, TypeOK, LoadedOnline, CacheCoherent

(* Sessions that end take their rosters with them. *)
LEMMA OfflineIInv ==
  ASSUME IInv, NEW U \in SUBSET Users, Offline(U),
         disk' \in [Users -> Rosters], \A u \in Users \ U : disk'[u] = disk[u],
         told' \in [Users -> SUBSET Users], shown' \subseteq Users \X Users, crashed' \in BOOLEAN,
         UNCHANGED strayed
  PROVE  IInv'
<1>1. EmptyRoster \in Rosters
  BY DEF EmptyRoster, Rosters, NoItem, Items, Subs
<1>2. /\ online' \in [Users -> BOOLEAN] /\ loaded' \in [Users -> BOOLEAN]
      /\ available' \in [Users -> BOOLEAN] /\ initial' \in [Users -> BOOLEAN]
  BY Zenon DEF Offline
<1>3. cache' \in [Users -> Rosters] /\ asked' \in [Users -> SUBSET Users]
  BY <1>1 DEF Offline, IInv, TypeOK
<1>4. TypeOK'
  BY <1>2, <1>3 DEF IInv, TypeOK
<1>5. \A u \in Users : loaded'[u] => loaded[u] /\ online'[u] /\ cache'[u] = cache[u] /\ u \notin U
  BY DEF Offline, IInv, LoadedOnline
<1> QED
  BY <1>4, <1>5 DEF IInv, LoadedOnline, CacheCoherent

(* The end of the process, whatever it leaves on disk. *)
LEMMA SessionsLostIInv ==
  ASSUME IInv, SessionsLost, disk' \in [Users -> Rosters], crashed' \in BOOLEAN
  PROVE  IInv'
<1>1. told' \in [Users -> SUBSET Users] /\ shown' \subseteq Users \X Users
  BY DEF SessionsLost
<1> QED
  BY <1>1, OfflineIInv DEF SessionsLost

(* The end of the process between handlers, or by a null item. *)
LEMMA DieIInv ==
  ASSUME IInv, Die, crashed' \in BOOLEAN
  PROVE  IInv'
  BY SessionsLostIInv DEF Die, IInv, TypeOK

(* A crash between the two saves leaves a well-formed roster. *)
LEMMA CrashIInv ==
  ASSUME IInv, NEW s \in Users, NEW t \in Keys, Crash(s, t)
  PROVE  IInv'
<1>1. Mine(s) \in [Keys -> Items]
  BY MineIsDisk DEF Rosters
<1>2. ASSUME NEW Own \in [Items -> Items], NEW always \in BOOLEAN, CrashBetweenSaves(s, t, Own, always)
      PROVE  IInv'
  <2>1. [Mine(s) EXCEPT ![t] = Own[@]] \in Rosters
    BY <1>1 DEF Rosters
  <2>2. disk' \in [Users -> Rosters]
    BY <1>2, <2>1 DEF CrashBetweenSaves, IInv, TypeOK
  <2> QED
    BY <1>2, <2>2, SessionsLostIInv DEF CrashBetweenSaves
<1> QED
  BY <1>2, ItemChanges DEF Crash, CrashSubscribed, CrashUnsubscribe, CrashUnsubscribed

(* A session's own roster, loaded or changed by its owner: memory and disk
   are both r, or were equal and stay so. *)
LEMMA OwnRosterIInv ==
  ASSUME IInv, NEW s \in Users, NEW r \in Rosters, NEW saved \in BOOLEAN, online[s],
         OwnRoster(s, r, saved), saved \/ r = Mine(s),
         UNCHANGED <<online, available, initial, crashed, strayed>>,
         told' \in [Users -> SUBSET Users], asked' \in [Users -> SUBSET Users],
         shown' \subseteq Users \X Users
  PROVE  IInv'
<1>1. disk' \in [Users -> Rosters] /\ \A u \in Users \ {s} : disk'[u] = disk[u]
  BY DEF OwnRoster, IInv, TypeOK
<1>2. TypeOK'
  <2>1. TypeOK
    BY DEF IInv
  <2>2. cache' \in [Users -> Rosters]
    BY <2>1 DEF OwnRoster, TypeOK
  <2>3. loaded' \in [Users -> BOOLEAN]
    BY <2>1 DEF OwnRoster, TypeOK
  <2> QED
    BY <1>1, <2>1, <2>2, <2>3 DEF TypeOK
<1>3. LoadedOnline'
  BY DEF OwnRoster, IInv, TypeOK, LoadedOnline
<1>4. CacheCoherent'
  <2>1. \A k \in Keys : disk'[s][k] = r[k] \/ <<s, k>> \in strayed
    BY MineIsDisk DEF OwnRoster, IInv, TypeOK
  <2>2. cache' = [cache EXCEPT ![s] = r] /\ loaded' = [loaded EXCEPT ![s] = TRUE]
    BY DEF OwnRoster
  <2> QED
    BY <1>1, <2>1, <2>2 DEF IInv, TypeOK, CacheCoherent
<1> QED
  BY <1>2, <1>3, <1>4 DEF IInv

(* The rosters of two users. *)
LEMMA BothRostersIInv ==
  ASSUME IInv, NEW s \in Users, NEW t \in Keys, online[s],
         \/ BothRosters(s, t, GainFrom, GainTo, TRUE)
         \/ BothRosters(s, t, LoseTo, LoseFrom, FALSE)
         \/ BothRosters(s, t, LoseFrom, LoseTo, FALSE),
         UNCHANGED <<online, available, initial, crashed, asked>>,
         told' \in [Users -> SUBSET Users], shown' \subseteq Users \X Users
  PROVE  IInv'
<1>1. /\ disk' \in [Users -> Rosters] /\ cache' \in [Users -> Rosters]
      /\ loaded' = [loaded EXCEPT ![s] = TRUE]
      /\ strayed' \subseteq Users \X Users
      /\ CacheCoherent'
  <2>1. CASE BothRosters(s, t, GainFrom, GainTo, TRUE)
    BY <2>1, ItemChanges, BothRostersChange
  <2>2. CASE BothRosters(s, t, LoseTo, LoseFrom, FALSE)
    BY <2>2, ItemChanges, BothRostersChange
  <2>3. CASE BothRosters(s, t, LoseFrom, LoseTo, FALSE)
    BY <2>3, ItemChanges, BothRostersChange
  <2> QED
    BY <2>1, <2>2, <2>3
<1>2. TypeOK'
  BY <1>1 DEF IInv, TypeOK
<1>3. LoadedOnline'
  BY <1>1 DEF IInv, TypeOK, LoadedOnline
<1> QED
  BY <1>1, <1>2, <1>3 DEF IInv

(* presence_broadcast_unavailable leaves a well-typed record of who was told. *)
LEMMA ToldGoneType ==
  ASSUME TypeOK, NEW u \in Users
  PROVE  ToldGone(u) \in [Users -> SUBSET Users]
  BY DEF ToldGone, TypeOK
(* IInv is inductive. *)
LEMMA NextIInv == IInv /\ [Next]_vars => IInv'
<1> SUFFICES ASSUME IInv, [Next]_vars PROVE IInv'
  OBVIOUS
<1> USE DEF IInv
<1>1. CASE Restart
  BY <1>1, DieIInv DEF Restart
<1>2. ASSUME NEW u \in Users, Login(u) PROVE IInv'
  BY <1>2 DEF Login, TypeOK, LoadedOnline, CacheCoherent
<1>3. ASSUME NEW u \in Users, Logout(u) PROVE IInv'
  <2>1. told' \in [Users -> SUBSET Users]
    BY <1>3, ToldGoneType DEF Logout, TypeOK
  <2> QED
    BY <1>3, <2>1, OfflineIInv DEF Logout, TypeOK
<1>4. ASSUME NEW u \in Users, RosterGet(u) PROVE IInv'
  BY <1>4, MineIsDisk, OwnRosterIInv DEF RosterGet, TypeOK
<1>5. ASSUME NEW u \in Users, presence_handle_available(u) PROVE IInv'
  <2>1. Mine(u) \in Rosters /\ \A k \in Keys : <<u, k>> \notin strayed => Mine(u)[k] = disk[u][k]
    BY MineIsDisk
  <2>2. /\ online[u] /\ disk' = disk /\ online' = online /\ crashed' = crashed /\ strayed' = strayed
        /\ loaded' = [loaded EXCEPT ![u] = TRUE] /\ cache' = [cache EXCEPT ![u] = Mine(u)]
    BY <1>5 DEF presence_handle_available
  <2>3. available' \in [Users -> BOOLEAN] /\ initial' \in [Users -> BOOLEAN]
    BY <1>5 DEF presence_handle_available, TypeOK
  <2>4. shown' \subseteq Users \X Users /\ told' \in [Users -> SUBSET Users]
    BY <1>5 DEF presence_handle_available, Audience, Contacts, TypeOK
  <2>5. asked' \in [Users -> SUBSET Users]
    BY <1>5 DEF presence_handle_available, Pending, TypeOK
  <2>6. TypeOK'
    BY <2>1, <2>2, <2>3, <2>4, <2>5 DEF TypeOK
  <2> QED
    BY <2>1, <2>2, <2>6 DEF TypeOK, LoadedOnline, CacheCoherent
<1>6. ASSUME NEW u \in Users, presence_handle_unavailable(u) PROVE IInv'
  <2>1. Mine(u) \in Rosters /\ \A k \in Keys : <<u, k>> \notin strayed => Mine(u)[k] = disk[u][k]
    BY MineIsDisk
  <2>2. told' \in [Users -> SUBSET Users]
    BY <1>6, ToldGoneType DEF presence_handle_unavailable, TypeOK
  <2>3. CASE available[u] \/ initial[u]
    BY <1>6, <2>1, <2>2, <2>3 DEF presence_handle_unavailable, TypeOK, LoadedOnline, CacheCoherent
  <2>4. CASE ~(available[u] \/ initial[u])
    BY <1>6, <2>2, <2>4 DEF presence_handle_unavailable, TypeOK, LoadedOnline, CacheCoherent
  <2> QED
    BY <2>3, <2>4
<1>7. ASSUME NEW p \in Pairs, Request(p[1], p[2]) PROVE IInv'
  <2> DEFINE s == p[1]
             t == p[2]
  <2>1. s \in Users /\ t \in Keys
    BY ConstAssumption DEF Keys
  <2>2. Mine(s) \in Rosters /\ \A k \in Keys : <<s, k>> \notin strayed => Mine(s)[k] = disk[s][k]
    BY <2>1, MineIsDisk
  <2> HIDE DEF s, t
  <2>3. CASE presence_handle_subscribe(s, t)
    <3>1. CASE NullItem(s, t)
      BY <2>3, <3>1, DieIInv DEF presence_handle_subscribe
    <3>2. CASE ~NullItem(s, t)
      <4> DEFINE r == [Mine(s) EXCEPT ![t] = IF Present(@) THEN [@ EXCEPT !.ask = TRUE]
                                                ELSE [sub |-> "none", ask |-> TRUE]]
      <4>1. r \in Rosters
        BY <2>1, <2>2 DEF Rosters, Items, Subs
      <4>2. OwnRoster(s, r, TRUE) /\ online[s] /\ UNCHANGED <<online, available, initial, crashed, strayed>>
        BY <2>3, <3>2 DEF presence_handle_subscribe
      <4>3. /\ told' \in [Users -> SUBSET Users] /\ shown' \subseteq Users \X Users
            /\ asked' \in [Users -> SUBSET Users]
        BY <2>1, <2>3, <3>2 DEF presence_handle_subscribe, Found, TypeOK
      <4> HIDE DEF r
      <4> QED
        BY <2>1, <4>1, <4>2, <4>3, OwnRosterIInv
    <3> QED
      BY <3>1, <3>2
  <2>4. CASE presence_handle_subscribed(s, t)
    <3>1. CASE NullItem(s, t)
      BY <2>4, <3>1, DieIInv DEF presence_handle_subscribed
    <3>2. CASE ~NullItem(s, t)
      <4>1. told' \in [Users -> SUBSET Users] /\ shown' \subseteq Users \X Users
        BY <2>1, <2>4, <3>2 DEF presence_handle_subscribed, Found, TypeOK
      <4> QED
        BY <2>1, <2>4, <3>2, <4>1, BothRostersIInv DEF presence_handle_subscribed
    <3> QED
      BY <3>1, <3>2
  <2>5. CASE presence_handle_unsubscribe(s, t) \/ presence_handle_unsubscribed(s, t)
    <3>1. Unavailable(s, t)
      BY <2>5 DEF presence_handle_unsubscribe, presence_handle_unsubscribed
    <3>2. told' \in [Users -> SUBSET Users] /\ shown' \subseteq Users \X Users
      BY <2>1, <3>1 DEF Unavailable, InMemory, Found, TypeOK
    <3> QED
      BY <2>1, <2>5, <3>1, <3>2, BothRostersIInv
      DEF presence_handle_unsubscribe, presence_handle_unsubscribed, Unavailable
  <2>6. ASSUME NEW remove \in BOOLEAN, RosterSet(s, t, remove) PROVE IInv'
    <3> DEFINE r == CASE remove -> [Mine(s) EXCEPT ![t] = NoItem]
                      [] ~remove /\ (Present(Mine(s)[t]) \/ Full(Mine(s))) -> Mine(s)
                      [] OTHER -> [Mine(s) EXCEPT ![t].sub = "none"]
    <3>1. r \in Rosters
      BY <2>1, <2>2 DEF Rosters, Items, Subs, NoItem
    <3>2. OwnRoster(s, r, TRUE) /\ online[s] /\ UNCHANGED <<online, available, initial, crashed, told, asked, strayed>>
          /\ shown' = {}
      BY <2>6 DEF RosterSet
    <3> HIDE DEF r
    <3> QED
      BY <2>1, <3>1, <3>2, OwnRosterIInv DEF TypeOK
  <2> QED
    BY <1>7, <2>3, <2>4, <2>5, <2>6 DEF Request, s, t
<1>8. ASSUME NEW p \in Pairs, Crash(p[1], p[2]) PROVE IInv'
  BY <1>8, CrashIInv, ConstAssumption DEF Keys
<1>9. CASE UNCHANGED vars
  BY <1>9 DEF vars, sessVars, TypeOK, LoadedOnline, CacheCoherent
<1> QED
  BY <1>1, <1>2, <1>3, <1>4, <1>5, <1>6, <1>7, <1>8, <1>9 DEF Next

(* The inductive invariant holds in every reachable state. *)
LEMMA IInvAlways == Spec => []IInv
  BY InitIInv, NextIInv, PTL DEF Spec

(* Every state has its types: no handler builds an item, or a record of what
   was sent, out of their sets. *)
THEOREM TypeCorrect == Spec => []TypeOK
<1>1. IInv => TypeOK
  BY DEF IInv
<1> QED
  BY <1>1, IInvAlways, PTL

(* A roster in memory is the one on disk, whoever changed it, in all items but
   those that were changed in the file under an alias of its owner. *)
THEOREM CacheCoherentHolds == Spec => []CacheCoherent
<1>1. IInv => CacheCoherent
  BY DEF IInv
<1> QED
  BY <1>1, IInvAlways, PTL
-----------------------------------------------------------------------------
(* What is proved about consent: without 'remove' (it takes away one side only),
   and if the process does not die in the middle of unsubscribed, the two
   rosters agree, and what a step shows was authorised. *)
Consent == ToHasFrom /\ ShownOnlyAuthorised

Cooperative == "remove" \notin Requests /\ "unsubscribed" \notin CrashIn

(* A change of the sender's own roster that keeps every subscription. *)
LEMMA OwnRosterConsent ==
  ASSUME IInv, ToHasFrom, NEW s \in Users, NEW r \in Rosters,
         NEW saved \in BOOLEAN, OwnRoster(s, r, saved), shown' = {}, UNCHANGED strayed,
         \A v \in Users : <<s, v>> \notin strayed =>
                            /\ sub_has_to(r[v]) <=> sub_has_to(disk[s][v])
                            /\ sub_has_from(r[v]) <=> sub_has_from(disk[s][v])
  PROVE  Consent'
<1>1. disk' = [disk EXCEPT ![s] = IF saved THEN r ELSE disk[s]]
  BY DEF OwnRoster
<1>2. \A u, v \in Users : <<u, v>> \notin strayed =>
                          /\ sub_has_to(disk'[u][v]) <=> sub_has_to(disk[u][v])
                          /\ sub_has_from(disk'[u][v]) <=> sub_has_from(disk[u][v])
  BY <1>1 DEF IInv, TypeOK
<1> QED
  BY <1>2 DEF Consent, ToHasFrom, ShownOnlyAuthorised, Clear

(* A change of the two rosters; the sender may address itself. *)
LEMMA BothRostersConsent ==
  ASSUME IInv, ToHasFrom, NEW s \in Users, NEW t \in Keys, online[s]
  PROVE  /\ BothRosters(s, t, GainFrom, GainTo, TRUE) =>
              ToHasFrom' /\ (t \in Users /\ <<s, t>> \notin strayed' => sub_has_from(disk'[s][t]))
         /\ BothRosters(s, t, LoseTo, LoseFrom, FALSE) => ToHasFrom'
         /\ BothRosters(s, t, LoseFrom, LoseTo, FALSE) => ToHasFrom'
<1>1. \A u, v \in Users : disk[u][v] \in Items
  BY DEF IInv, TypeOK, Rosters, Keys
<1>2. ASSUME BothRosters(s, t, GainFrom, GainTo, TRUE)
      PROVE  ToHasFrom' /\ (t \in Users /\ <<s, t>> \notin strayed' => sub_has_from(disk'[s][t]))
  <2>1. Changed(s, t, GainFrom, GainTo) /\ strayed \subseteq strayed'
    BY <1>2, ItemChanges, BothRostersChange
  <2>2. \A u, v \in Users : (IF u = s /\ v = t THEN GainFrom[disk[u][v]] ELSE disk[u][v]) \in Items
    BY <1>1, ItemChanges
  <2>3. t \in Users /\ <<s, t>> \notin strayed' => sub_has_from(disk'[s][t])
    BY <1>1, <2>1, <2>2, ItemDirections DEF Changed, ItemAfter
  <2>4. \A u, v \in Users : <<u, v>> \notin strayed' /\ sub_has_from(disk[u][v]) => sub_has_from(disk'[u][v])
    BY <1>1, <2>1, <2>2, ItemDirections DEF Changed, ItemAfter
  <2>5. \A u, v \in Users : <<u, v>> \notin strayed' /\ sub_has_to(disk'[u][v]) => sub_has_to(disk[u][v]) \/ (u = t /\ v = s)
    BY <1>1, <2>1, <2>2, ItemDirections DEF Changed, ItemAfter
  <2> QED
    BY <2>1, <2>3, <2>4, <2>5 DEF ToHasFrom, Clear
<1>3. ASSUME BothRosters(s, t, LoseTo, LoseFrom, FALSE) PROVE ToHasFrom'
  <2>1. Changed(s, t, LoseTo, LoseFrom) /\ strayed \subseteq strayed'
    BY <1>3, ItemChanges, BothRostersChange
  <2>2. \A u, v \in Users : (IF u = s /\ v = t THEN LoseTo[disk[u][v]] ELSE disk[u][v]) \in Items
    BY <1>1, ItemChanges
  <2>3. \A u, v \in Users : <<u, v>> \notin strayed' /\ sub_has_from(disk[u][v]) => sub_has_from(disk'[u][v]) \/ (u = t /\ v = s)
    BY <1>1, <2>1, <2>2, ItemDirections DEF Changed, ItemAfter
  <2>4. \A u, v \in Users : <<u, v>> \notin strayed' /\ sub_has_to(disk'[u][v]) => sub_has_to(disk[u][v]) /\ ~(u = s /\ v = t)
    BY <1>1, <2>1, <2>2, ItemDirections DEF Changed, ItemAfter
  <2> QED
    BY <2>1, <2>3, <2>4 DEF ToHasFrom, Clear
<1>4. ASSUME BothRosters(s, t, LoseFrom, LoseTo, FALSE) PROVE ToHasFrom'
  <2>1. Changed(s, t, LoseFrom, LoseTo) /\ strayed \subseteq strayed'
    BY <1>4, ItemChanges, BothRostersChange
  <2>2. \A u, v \in Users : (IF u = s /\ v = t THEN LoseFrom[disk[u][v]] ELSE disk[u][v]) \in Items
    BY <1>1, ItemChanges
  <2>3. \A u, v \in Users : <<u, v>> \notin strayed' /\ sub_has_from(disk[u][v]) => sub_has_from(disk'[u][v]) \/ (u = s /\ v = t)
    BY <1>1, <2>1, <2>2, ItemDirections DEF Changed, ItemAfter
  <2>4. \A u, v \in Users : <<u, v>> \notin strayed' /\ sub_has_to(disk'[u][v]) => sub_has_to(disk[u][v]) /\ ~(u = t /\ v = s)
    BY <1>1, <2>1, <2>2, ItemDirections DEF Changed, ItemAfter
  <2> QED
    BY <2>1, <2>3, <2>4 DEF ToHasFrom, Clear
<1> QED
  BY <1>2, <1>3, <1>4

(* The first of the two saves of subscribed and of unsubscribe is the safe one:
   it adds a consent, or drops a subscription. *)
LEMMA CrashConsent ==
  ASSUME IInv, ToHasFrom, NEW s \in Users, NEW t \in Keys, shown' = {}, UNCHANGED strayed,
         NEW Own \in {GainFrom, LoseTo}, disk' = [disk EXCEPT ![s] = [Mine(s) EXCEPT ![t] = Own[@]]]
  PROVE  Consent'
<1>1. disk \in [Users -> [Keys -> Items]] /\ \A v \in Users : v \in Keys
  BY DEF IInv, TypeOK, Rosters, Keys
<1>2. Mine(s) \in [Keys -> Items] /\ \A k \in Keys : <<s, k>> \notin strayed => Mine(s)[k] = disk[s][k]
  BY MineIsDisk DEF Rosters
<1>3. \A u, v \in Users :
        <<u, v>> \notin strayed => disk'[u][v] \in {disk[u][v], Own[disk[u][v]]}
  BY <1>1, <1>2
<1>4. \A u, v \in Users : <<u, v>> \notin strayed =>
        /\ sub_has_to(disk'[u][v]) => sub_has_to(disk[u][v])
        /\ sub_has_from(disk[u][v]) => sub_has_from(disk'[u][v])
  BY <1>1, <1>3, ItemDirections
<1> QED
  BY <1>4 DEF Consent, ToHasFrom, ShownOnlyAuthorised, Clear

(* Without 'remove' every step keeps consent. *)
LEMMA NextConsent ==
  ASSUME Cooperative, IInv, Consent, [Next]_vars
  PROVE  Consent'
<1> USE DEF Consent
<1>1. ASSUME disk' = disk, shown' = {}, UNCHANGED strayed PROVE Consent'
  BY <1>1 DEF ToHasFrom, ShownOnlyAuthorised, Clear
<1>2. CASE Restart \/ \E u \in Users : Login(u) \/ Logout(u) \/ presence_handle_unavailable(u)
  BY <1>1, <1>2 DEF Restart, Die, SessionsLost, Login, Logout, presence_handle_unavailable
<1>3. ASSUME NEW u \in Users, RosterGet(u) PROVE Consent'
  <2>1. Mine(u) \in Rosters /\ \A v \in Users : <<u, v>> \notin strayed => Mine(u)[v] = disk[u][v]
    BY MineIsDisk DEF Keys
  <2>2. OwnRoster(u, Mine(u), FALSE) /\ shown' = {} /\ UNCHANGED strayed
    BY <1>3 DEF RosterGet
  <2>3. \A v \in Users : <<u, v>> \notin strayed =>
                         /\ sub_has_to(Mine(u)[v]) <=> sub_has_to(disk[u][v])
                         /\ sub_has_from(Mine(u)[v]) <=> sub_has_from(disk[u][v])
    BY <2>1
  <2> QED
    BY <2>1, <2>2, <2>3, OwnRosterConsent
<1>4. ASSUME NEW u \in Users, presence_handle_available(u) PROVE Consent'
  <2>1. \A v \in Users : <<u, v>> \notin strayed => Mine(u)[v] = disk[u][v]
    BY MineIsDisk DEF Keys
  <2>2. disk' = disk /\ strayed' = strayed
    BY <1>4 DEF presence_handle_available
  <2>3. \A p \in shown' : \/ p[2] = u /\ p[1] \in Users /\ sub_has_from(Mine(u)[p[1]])
                          \/ p[1] = u /\ p[2] \in Users /\ sub_has_to(Mine(u)[p[2]])
    BY <1>4 DEF presence_handle_available, Audience, Contacts
  <2> QED
    BY <2>1, <2>2, <2>3 DEF ToHasFrom, ShownOnlyAuthorised, Clear
<1>5. ASSUME NEW p \in Pairs, Request(p[1], p[2]) PROVE Consent'
  <2> DEFINE s == p[1]
             t == p[2]
  <2>1. s \in Users /\ t \in Keys
    BY ConstAssumption DEF Keys
  <2>2. Mine(s) \in Rosters /\ \A k \in Keys : <<s, k>> \notin strayed => Mine(s)[k] = disk[s][k]
    BY <2>1, MineIsDisk
  <2> HIDE DEF s, t
  <2>3. CASE presence_handle_subscribe(s, t)
    <3>1. CASE NullItem(s, t)
      BY <1>1, <2>3, <3>1 DEF presence_handle_subscribe, Die, SessionsLost
    <3>2. CASE ~NullItem(s, t)
      <4> DEFINE r == [Mine(s) EXCEPT ![t] = IF Present(@) THEN [@ EXCEPT !.ask = TRUE]
                                                ELSE [sub |-> "none", ask |-> TRUE]]
      <4>1. r \in Rosters
        BY <2>1, <2>2 DEF Rosters, Items, Subs
      <4>2. \A v \in Users : <<s, v>> \notin strayed =>
                               /\ sub_has_to(r[v]) <=> sub_has_to(disk[s][v])
                               /\ sub_has_from(r[v]) <=> sub_has_from(disk[s][v])
        BY <2>1, <2>2 DEF Keys, Rosters, Items, Subs, Present, sub_has_to, sub_has_from
      <4>3. OwnRoster(s, r, TRUE) /\ shown' = {} /\ UNCHANGED strayed
        BY <2>3, <3>2 DEF presence_handle_subscribe
      <4> HIDE DEF r
      <4> QED
        BY <2>1, <4>1, <4>2, <4>3, OwnRosterConsent
    <3> QED
      BY <3>1, <3>2
  <2>4. CASE presence_handle_subscribed(s, t)
    <3>1. CASE NullItem(s, t)
      BY <1>1, <2>4, <3>1 DEF presence_handle_subscribed, Die, SessionsLost
    <3>2. CASE ~NullItem(s, t)
      <4>1. /\ online[s] /\ BothRosters(s, t, GainFrom, GainTo, TRUE)
            /\ shown' \subseteq {<<t, s>>} /\ (shown' # {} => t \in Users)
        BY <2>4, <3>2 DEF presence_handle_subscribed, Found
      <4>2. ToHasFrom' /\ (t \in Users /\ <<s, t>> \notin strayed' => sub_has_from(disk'[s][t]))
        BY <2>1, <4>1, BothRostersConsent
      <4> QED
        BY <4>1, <4>2 DEF ShownOnlyAuthorised, Clear
    <3> QED
      BY <3>1, <3>2
  <2>5. CASE presence_handle_unsubscribe(s, t) \/ presence_handle_unsubscribed(s, t)
    <3>1. shown' = {} /\ online[s]
      BY <2>5 DEF presence_handle_unsubscribe, presence_handle_unsubscribed, Unavailable
    <3>2. ToHasFrom'
      BY <2>1, <2>5, <3>1, BothRostersConsent
      DEF presence_handle_unsubscribe, presence_handle_unsubscribed
    <3> QED
      BY <3>1, <3>2 DEF ShownOnlyAuthorised
  <2>6. CASE RosterSet(s, t, FALSE)
    <3> DEFINE r == IF Present(Mine(s)[t]) \/ Full(Mine(s)) THEN Mine(s)
                    ELSE [Mine(s) EXCEPT ![t].sub = "none"]
    <3>1. r \in Rosters
      BY <2>1, <2>2 DEF Rosters, Items, Subs
    <3>2. \A v \in Users : <<s, v>> \notin strayed =>
                             /\ sub_has_to(r[v]) <=> sub_has_to(disk[s][v])
                             /\ sub_has_from(r[v]) <=> sub_has_from(disk[s][v])
      BY <2>1, <2>2 DEF Keys, Rosters, Items, Subs, Present, sub_has_to, sub_has_from
    <3>3. OwnRoster(s, r, TRUE) /\ shown' = {} /\ UNCHANGED strayed
      BY <2>6 DEF RosterSet
    <3> HIDE DEF r
    <3> QED
      BY <2>1, <3>1, <3>2, <3>3, OwnRosterConsent
  <2> QED
    BY <1>5, <2>3, <2>4, <2>5, <2>6 DEF Request, s, t, Cooperative
<1>6. ASSUME NEW p \in Pairs, Crash(p[1], p[2]) PROVE Consent'
  <2>1. p[1] \in Users /\ p[2] \in Keys
    BY ConstAssumption DEF Keys
  <2>2. CASE CrashSubscribed(p[1], p[2]) \/ CrashUnsubscribe(p[1], p[2])
    BY <2>1, <2>2, CrashConsent
    DEF CrashSubscribed, CrashUnsubscribe, CrashBetweenSaves, SessionsLost
  <2> QED
    BY <1>6, <2>2 DEF Crash, Cooperative
<1>7. CASE UNCHANGED vars
  BY <1>7 DEF vars, ToHasFrom, ShownOnlyAuthorised, Clear
<1> QED
  BY <1>2, <1>3, <1>4, <1>5, <1>6, <1>7 DEF Next

(* Without roster removals, consent is kept by every handler. *)
LEMMA ConsentAlways == Cooperative /\ Spec => []Consent
<1> SUFFICES ASSUME Cooperative PROVE Spec => []Consent
  OBVIOUS
<1>1. Init => Consent
  BY DEF Init, Consent, ToHasFrom, ShownOnlyAuthorised, EmptyRoster, Keys, NoItem, sub_has_to
<1>2. IInv /\ Consent /\ [Next]_vars => Consent'
  BY NextConsent
<1> QED
  BY <1>1, <1>2, IInvAlways, PTL DEF Spec

(* When no client removes an item, a subscription on one side has its consent
   on the other, unless one of the two has addressed the other under an alias,
   through any sequence of requests, logins, logouts, restarts,
   crashes on a full roster and crashes between the two saves of an approval
   or of an unsubscribe. *)
THEOREM ToHasFromHolds == Cooperative /\ Spec => []ToHasFrom
<1>1. Consent => ToHasFrom
  BY DEF Consent
<1> QED
  BY <1>1, ConsentAlways, PTL

(* When no client removes an item, available presence reaches authorised
   contacts only, under the same conditions. *)
THEOREM ShownOnlyAuthorisedHolds == Cooperative /\ Spec => []ShownOnlyAuthorised
<1>1. Consent => ShownOnlyAuthorised
  BY DEF Consent
<1> QED
  BY <1>1, ConsentAlways, PTL
-----------------------------------------------------------------------------
(* What is proved about the presence that a subscriber has seen: with consent
   on both sides, and without unsubscribe, whose notice also takes the sender
   from a contact that stays subscribed to it. *)
NoUnsubscribe == "unsubscribe" \notin Requests

(* Only a session is available. *)
AvailableOnline == \A u \in Users : available[u] => online[u]

Seen == AvailableOnline /\ SubscriberSees

(* A step is harmless to Seen if every subscription of two available users
   was there before, and was not untold, or is told now. *)
LEMMA SeenKept ==
  ASSUME Seen, strayed \subseteq strayed',
         \A u \in Users : available'[u] => online'[u],
         \A u, v \in Users :
           available'[u] /\ available'[v] /\ Clear(u, v)' /\ sub_has_to(disk'[u][v]) =>
             \/ v \in told'[u]
             \/ /\ available[u] /\ available[v] /\ sub_has_to(disk[u][v])
                /\ v \in told[u] => v \in told'[u]
  PROVE  Seen'
<1>1. AvailableOnline'
  BY DEF AvailableOnline
<1>2. SubscriberSees'
  BY DEF Seen, SubscriberSees, Clear
<1> QED
  BY <1>1, <1>2 DEF Seen

(* Without sessions there is nothing to see. *)
LEMMA SessionsLostSeen ==
  ASSUME Seen, SessionsLost
  PROVE  Seen'
<1>1. \A u \in Users : ~available'[u]
  BY DEF SessionsLost, Offline
<1> QED
  BY <1>1, SeenKept DEF SessionsLost

(* A change of the sender's own roster that adds no subscription. *)
LEMMA OwnRosterSeen ==
  ASSUME IInv, Seen, NEW s \in Users, NEW r \in Rosters, NEW saved \in BOOLEAN, OwnRoster(s, r, saved),
         UNCHANGED <<online, available, told, strayed>>,
         \A v \in Users : <<s, v>> \notin strayed /\ sub_has_to(r[v]) => sub_has_to(disk[s][v])
  PROVE  Seen'
<1>1. disk' = [disk EXCEPT ![s] = IF saved THEN r ELSE disk[s]]
  BY DEF OwnRoster
<1>2. \A u, v \in Users : <<u, v>> \notin strayed /\ sub_has_to(disk'[u][v]) => sub_has_to(disk[u][v])
  BY <1>1 DEF IInv, TypeOK
<1> QED
  BY <1>2, SeenKept DEF Seen, AvailableOnline, Clear

(* A user that ends its session, or its availability, takes its own presence
   from others and is not available itself. *)
LEMMA GoneSeen ==
  ASSUME IInv, Seen, NEW u \in Users, disk' = disk, UNCHANGED strayed, ~available'[u],
         \A v \in Users \ {u} : /\ available'[v] <=> available[v] /\ online'[v] = online[v]
                                /\ told[v] \ {u} \subseteq told'[v]
  PROVE  Seen'
<1>1. \A v \in Users : available'[v] => online'[v]
  BY DEF Seen, AvailableOnline
<1>2. ASSUME NEW v \in Users, NEW w \in Users, available'[v], available'[w], sub_has_to(disk'[v][w])
      PROVE  /\ available[v] /\ available[w] /\ sub_has_to(disk[v][w])
             /\ w \in told[v] => w \in told'[v]
  <2>1. v # u /\ w # u
    BY <1>2
  <2> QED
    BY <1>2, <2>1
<1> QED
  BY <1>1, <1>2, SeenKept

(* Initial presence: the contacts that u is subscribed to are shown to u, and
   u is shown to those subscribed to it, who are in its audience because they
   have its consent. *)
LEMMA AvailableSeen ==
  ASSUME IInv, ToHasFrom, Seen, NEW u \in Users, presence_handle_available(u)
  PROVE  Seen'
<1>1. \A v \in Users : <<u, v>> \notin strayed => Mine(u)[v] = disk[u][v]
  BY MineIsDisk DEF Keys
<1>2. /\ online[u] /\ online' = online /\ disk' = disk /\ strayed' = strayed
      /\ available' = [available EXCEPT ![u] = TRUE] /\ available \in [Users -> BOOLEAN]
  BY DEF presence_handle_available, IInv, TypeOK
<1>3. \A v \in Users : /\ told[v] \subseteq told'[v]
                       /\ v \in Contacts(u) => v \in told'[u]
                       /\ v \in Audience(u) => u \in told'[v]
  BY DEF presence_handle_available
<1>4. \A v \in Users : available'[v] => online'[v]
  BY <1>2 DEF Seen, AvailableOnline
<1>5. ASSUME NEW v \in Users, NEW w \in Users, available'[v], available'[w], sub_has_to(disk'[v][w]),
             Clear(v, w)
      PROVE  \/ w \in told'[v]
             \/ /\ available[v] /\ available[w] /\ sub_has_to(disk[v][w])
                /\ w \in told[v] => w \in told'[v]
  <2>1. CASE v = u
    <3>1. available[w] \/ w = u
      BY <1>2, <1>5
    <3>2. w \in Contacts(u)
      BY <1>1, <1>2, <1>5, <2>1, <3>1 DEF Contacts, Clear
    <3> QED
      BY <1>3, <2>1, <3>2
  <2>2. CASE v # u /\ w = u
    <3>1. online[v] /\ sub_has_from(disk[u][v])
      BY <1>2, <1>4, <1>5, <2>2 DEF ToHasFrom, Clear
    <3>2. v \in Audience(u)
      BY <1>1, <1>5, <2>2, <3>1 DEF Audience, Clear
    <3> QED
      BY <1>3, <2>2, <3>2
  <2>3. CASE v # u /\ w # u
    BY <1>2, <1>3, <1>5, <2>3
  <2> QED
    BY <2>1, <2>2, <2>3
<1> QED
  BY <1>2, <1>4, <1>5, SeenKept DEF Clear

(* An approval makes one subscription, and shows its presence at once. *)
LEMMA SubscribedSeen ==
  ASSUME IInv, Seen, NEW s \in Users, NEW t \in Keys, presence_handle_subscribed(s, t), ~NullItem(s, t)
  PROVE  Seen'
<1>1. /\ online[s] /\ BothRosters(s, t, GainFrom, GainTo, TRUE)
      /\ UNCHANGED <<online, available>>
  BY DEF presence_handle_subscribed
<1>2. \A u, v \in Users : <<u, v>> \notin strayed' /\ sub_has_to(disk'[u][v]) => sub_has_to(disk[u][v]) \/ (u = t /\ v = s)
  <2>1. \A u, v \in Users : disk[u][v] \in Items
    BY DEF IInv, TypeOK, Rosters, Keys
  <2>2. Changed(s, t, GainFrom, GainTo)
    BY <1>1, ItemChanges, BothRostersChange
  <2>3. \A u, v \in Users : (IF u = s /\ v = t THEN GainFrom[disk[u][v]] ELSE disk[u][v]) \in Items
    BY <2>1, ItemChanges
  <2> QED
    BY <2>1, <2>2, <2>3, ItemDirections DEF Changed, ItemAfter
<1>3. /\ \A u \in Users : told[u] \subseteq told'[u]
      /\ t \in Users /\ online[t] /\ available[s] => s \in told'[t]
  <2>1. told' = IF Found(t) /\ available[s] THEN [told EXCEPT ![t] = @ \cup {s}] ELSE told
    BY DEF presence_handle_subscribed
  <2>2. told \in [Users -> SUBSET Users]
    BY DEF IInv, TypeOK
  <2> QED
    BY <2>1, <2>2 DEF Found
<1>4. \A u \in Users : available'[u] => online'[u]
  BY <1>1 DEF Seen, AvailableOnline
<1>5. t \in Users /\ available'[t] => online[t]
  BY <1>1 DEF Seen, AvailableOnline
<1>6. strayed \subseteq strayed'
  BY <1>1, ItemChanges, BothRostersChange
<1> QED
  BY <1>1, <1>2, <1>3, <1>4, <1>5, <1>6, SeenKept DEF Clear

(* A cancelled approval takes the subscription with the presence. *)
LEMMA UnsubscribedSeen ==
  ASSUME IInv, Seen, NEW s \in Users, NEW t \in Keys, presence_handle_unsubscribed(s, t)
  PROVE  Seen'
<1>1. online[s] /\ BothRosters(s, t, LoseFrom, LoseTo, FALSE) /\ Unavailable(s, t)
  BY DEF presence_handle_unsubscribed
<1>2. \A u, v \in Users : <<u, v>> \notin strayed' /\ sub_has_to(disk'[u][v]) => sub_has_to(disk[u][v]) /\ ~(u = t /\ v = s)
  <2>1. \A u, v \in Users : disk[u][v] \in Items
    BY DEF IInv, TypeOK, Rosters, Keys
  <2>2. Changed(s, t, LoseFrom, LoseTo)
    BY <1>1, ItemChanges, BothRostersChange
  <2>3. \A u, v \in Users : (IF u = s /\ v = t THEN LoseFrom[disk[u][v]] ELSE disk[u][v]) \in Items
    BY <2>1, ItemChanges
  <2> QED
    BY <2>1, <2>2, <2>3, ItemDirections DEF Changed, ItemAfter
<1>3. \A u, v \in Users : v \in told[u] => v \in told'[u] \/ (u = t /\ v = s)
  BY <1>1 DEF Unavailable, InMemory, Found, IInv, TypeOK
<1>4. UNCHANGED <<online, available>>
  BY <1>1 DEF Unavailable
<1>5. \A u \in Users : available'[u] => online'[u]
  BY <1>4 DEF Seen, AvailableOnline
<1>6. strayed \subseteq strayed'
  BY <1>1, ItemChanges, BothRostersChange
<1> QED
  BY <1>2, <1>3, <1>4, <1>5, <1>6, SeenKept DEF Clear

(* Every step keeps Seen. *)
LEMMA NextSeen ==
  ASSUME NoUnsubscribe, "remove" \notin Requests, IInv, ToHasFrom, Seen, [Next]_vars
  PROVE  Seen'
<1>1. CASE Restart
  BY <1>1, SessionsLostSeen DEF Restart, Die
<1>2. ASSUME NEW u \in Users, Login(u) PROVE Seen'
  <2>1. online' = [online EXCEPT ![u] = TRUE] /\ online \in [Users -> BOOLEAN] /\ UNCHANGED <<disk, available, told, strayed>>
    BY <1>2 DEF Login, IInv, TypeOK
  <2>2. \A v \in Users : available'[v] => online'[v]
    BY <2>1 DEF Seen, AvailableOnline
  <2> QED
    BY <2>1, <2>2, SeenKept
<1>3. ASSUME NEW u \in Users, Logout(u) \/ presence_handle_unavailable(u) PROVE Seen'
  <2>1. \A v \in Users \ {u} : told[v] \ {u} \subseteq ToldGone(u)[v]
    BY DEF ToldGone
  <2>2. ToldGone(u) \in [Users -> SUBSET Users] /\ told \in [Users -> SUBSET Users]
    BY ToldGoneType DEF IInv, TypeOK
  <2>3. CASE Logout(u)
    <3>1. \A v \in Users \ {u} : told[v] \ {u} \subseteq told'[v]
      <4>1. told' = [ToldGone(u) EXCEPT ![u] = {}] \/ told' = [told EXCEPT ![u] = {}]
        BY <2>3 DEF Logout
      <4> QED
        BY <2>1, <2>2, <4>1
    <3>2. disk' = disk /\ strayed' = strayed /\ ~available'[u]
      BY <2>3 DEF Logout, Offline
    <3>3. \A v \in Users \ {u} : (available'[v] <=> available[v]) /\ online'[v] = online[v]
      BY <2>3 DEF Logout, Offline, IInv, TypeOK
    <3> QED
      BY <3>1, <3>2, <3>3, GoneSeen
  <2>4. CASE presence_handle_unavailable(u)
    <3>1. \A v \in Users \ {u} : told[v] \ {u} \subseteq told'[v]
      BY <2>1, <2>4 DEF presence_handle_unavailable
    <3>2. /\ disk' = disk /\ strayed' = strayed /\ ~available'[u]
          /\ \A v \in Users \ {u} : (available'[v] <=> available[v]) /\ online'[v] = online[v]
      BY <2>4 DEF presence_handle_unavailable, IInv, TypeOK
    <3> QED
      BY <3>1, <3>2, GoneSeen
  <2> QED
    BY <1>3, <2>3, <2>4
<1>4. ASSUME NEW u \in Users, RosterGet(u) PROVE Seen'
  <2>1. Mine(u) \in Rosters /\ \A v \in Users : <<u, v>> \notin strayed => Mine(u)[v] = disk[u][v]
    BY MineIsDisk DEF Keys
  <2>2. OwnRoster(u, Mine(u), FALSE) /\ UNCHANGED <<online, available, told, strayed>>
    BY <1>4 DEF RosterGet
  <2>3. \A v \in Users : <<u, v>> \notin strayed /\ sub_has_to(Mine(u)[v]) => sub_has_to(disk[u][v])
    BY <2>1
  <2> QED
    BY <2>1, <2>2, <2>3, OwnRosterSeen
<1>5. ASSUME NEW u \in Users, presence_handle_available(u) PROVE Seen'
  BY <1>5, AvailableSeen
<1>6. ASSUME NEW p \in Pairs, Request(p[1], p[2]) PROVE Seen'
  <2> DEFINE s == p[1]
             t == p[2]
  <2>1. s \in Users /\ t \in Keys
    BY ConstAssumption DEF Keys
  <2>2. Mine(s) \in Rosters /\ \A k \in Keys : <<s, k>> \notin strayed => Mine(s)[k] = disk[s][k]
    BY <2>1, MineIsDisk
  <2> HIDE DEF s, t
  <2>3. CASE presence_handle_subscribe(s, t)
    <3>1. CASE NullItem(s, t)
      BY <2>3, <3>1, SessionsLostSeen DEF presence_handle_subscribe, Die
    <3>2. CASE ~NullItem(s, t)
      <4> DEFINE r == [Mine(s) EXCEPT ![t] = IF Present(@) THEN [@ EXCEPT !.ask = TRUE]
                                                ELSE [sub |-> "none", ask |-> TRUE]]
      <4>1. r \in Rosters
        BY <2>1, <2>2 DEF Rosters, Items, Subs
      <4>2. \A v \in Users : <<s, v>> \notin strayed /\ sub_has_to(r[v]) => sub_has_to(disk[s][v])
        BY <2>1, <2>2 DEF Keys, Rosters, Items, Subs, Present, sub_has_to
      <4>3. OwnRoster(s, r, TRUE) /\ UNCHANGED <<online, available, told, strayed>>
        BY <2>3, <3>2 DEF presence_handle_subscribe
      <4> HIDE DEF r
      <4> QED
        BY <2>1, <4>1, <4>2, <4>3, OwnRosterSeen
    <3> QED
      BY <3>1, <3>2
  <2>4. CASE presence_handle_subscribed(s, t)
    <3>1. CASE NullItem(s, t)
      BY <2>4, <3>1, SessionsLostSeen DEF presence_handle_subscribed, Die
    <3>2. CASE ~NullItem(s, t)
      BY <2>1, <2>4, <3>2, SubscribedSeen
    <3> QED
      BY <3>1, <3>2
  <2>5. CASE presence_handle_unsubscribed(s, t)
    BY <2>1, <2>5, UnsubscribedSeen
  <2>6. CASE RosterSet(s, t, FALSE)
    <3> DEFINE r == IF Present(Mine(s)[t]) \/ Full(Mine(s)) THEN Mine(s)
                    ELSE [Mine(s) EXCEPT ![t].sub = "none"]
    <3>1. r \in Rosters
      BY <2>1, <2>2 DEF Rosters, Items, Subs
    <3>2. \A v \in Users : <<s, v>> \notin strayed /\ sub_has_to(r[v]) => sub_has_to(disk[s][v])
      BY <2>1, <2>2 DEF Keys, Rosters, Items, Subs, Present, sub_has_to
    <3>3. OwnRoster(s, r, TRUE) /\ UNCHANGED <<online, available, told, strayed>>
      BY <2>6 DEF RosterSet
    <3> HIDE DEF r
    <3> QED
      BY <2>1, <3>1, <3>2, <3>3, OwnRosterSeen
  <2> QED
    BY <1>6, <2>3, <2>4, <2>5, <2>6 DEF Request, s, t, NoUnsubscribe
<1>7. ASSUME NEW p \in Pairs, Crash(p[1], p[2]) PROVE Seen'
  BY <1>7, SessionsLostSeen
  DEF Crash, CrashSubscribed, CrashUnsubscribe, CrashUnsubscribed, CrashBetweenSaves
<1>8. CASE UNCHANGED vars
  BY <1>8 DEF vars, sessVars, Seen, AvailableOnline, SubscriberSees, Clear
<1> QED
  BY <1>1, <1>2, <1>3, <1>4, <1>5, <1>6, <1>7, <1>8 DEF Next

(* Of two available users, one that is subscribed to the other has been shown
   the other's presence, in whatever order they logged in, asked, approved and
   left, and whatever crashes there were, when no client removes an item or
   unsubscribes. *)
THEOREM SubscriberSeesHolds == Cooperative /\ NoUnsubscribe /\ Spec => []SubscriberSees
<1> SUFFICES ASSUME Cooperative, NoUnsubscribe PROVE Spec => []SubscriberSees
  OBVIOUS
<1>1. Init => Seen
  BY DEF Init, Seen, AvailableOnline, SubscriberSees
<1>2. IInv /\ Consent /\ Seen /\ [Next]_vars => Seen'
  BY NextSeen DEF Consent, Cooperative
<1>3. Seen => SubscriberSees
  BY DEF Seen
<1> QED
  BY <1>1, <1>2, <1>3, IInvAlways, ConsentAlways, PTL DEF Spec
=============================================================================
