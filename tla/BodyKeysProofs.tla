--------------------------- MODULE BodyKeysProofs ---------------------------
(***************************************************************************)
(* The keys agree as far as the code can make them, for any number of      *)
(* tabs, users, requests and logins, with restarts and reloads anywhere.   *)
(***************************************************************************)
EXTENDS BodyKeys, TLAPS

\* A key in use is in the store or was there once.
Known(k) == k \in forgotten \/ k \in Held

\* A login in progress is for a user, and once answered its key is that user's.
LoginsStored ==
    \A k \in Keys :
        /\ login[k] \in {"sent", "stored"} => named[k] \in Users
        /\ login[k] = "stored" => k \in forgotten \/ store[named[k]] = k

KeysKnown ==
    /\ \A t \in Tabs : key[t] # Shared => Known(key[t])
    /\ \A r \in Requests : seal[r] # Shared => Known(seal[r])

\* A body not yet sealed has not been read.
Unread == \A r \in Requests : stage[r] \in {"idle", "retry"} => reading[r] = "none"

\* A request on its way, sent under a name, comes from a tab that has its key.
AskedAgrees ==
    \A r \in Requests : stage[r] = "sent" /\ asked[r] # NoUser /\ r \notin changed =>
        /\ key[TabOf[r]] # Shared
        /\ key[TabOf[r]] \in forgotten \/ store[asked[r]] = key[TabOf[r]]

KeysInv ==
    /\ TypeOK
    /\ LoginsStored
    /\ KeysKnown
    /\ Unread
    /\ TabAgrees
    /\ AskedAgrees
    /\ SocketBodiesOpened
    /\ AnswersOpenable

----------------------------------------------------------------------------
LEMMA InitKeys == Init => KeysInv
  <1> SUFFICES ASSUME Init PROVE KeysInv
    OBVIOUS
  <1>1. TypeOK
    BY DEF Init, TypeOK, Shared, Keys
  <1> QED
    BY <1>1 DEF Init, KeysInv, LoginsStored, KeysKnown, Unread, TabAgrees, AskedAgrees,
                SocketBodiesOpened, AnswersOpenable

\* Steps that leave the store alone leave what is known alone.
LEMMA SameKnown ==
    ASSUME UNCHANGED <<store, forgotten>>
    PROVE  \A k : Known(k)' <=> Known(k)
  BY DEF Known, Held

\* A key is never lost sight of: one that leaves the store is remembered.
LEMMA StoreKeyKnown ==
    ASSUME KeysInv, NEW j \in Keys, StoreKey(j)
    PROVE  /\ TypeOK'
           /\ j \in Held'
           /\ \A k \in Keys : Known(k) => Known(k)'
           /\ \A u \in Users, k \in Keys :
                 store[u] = k => k \in forgotten' \/ store'[u] = k
  <1> DEFINE v == named[j]
  <1>1. /\ login[j] = "sent"
        /\ login' = [login EXCEPT ![j] = "stored"]
        /\ store' = [store EXCEPT ![v] = j]
        /\ forgotten' = forgotten \cup ({store[v]} \ {Shared})
        /\ UNCHANGED <<tabs, by, named, requests, changed>>
    BY DEF StoreKey
  <1>2. v \in Users
    BY <1>1 DEF KeysInv, LoginsStored
  <1>3. \A k \in Keys : k # Shared
    BY DEF Keys, Shared
  <1>4. TypeOK'
    BY <1>1, <1>2 DEF KeysInv, TypeOK, tabs, requests
  <1>5. store'[v] = j /\ \A u \in Users : u # v => store'[u] = store[u]
    BY <1>1, <1>2 DEF KeysInv, TypeOK
  <1>6. \A u \in Users, k \in Keys : store[u] = k => k \in forgotten' \/ store'[u] = k
    BY <1>1, <1>3, <1>5
  <1>7. j \in Held'
    BY <1>2, <1>3, <1>5 DEF Held
  <1>8. \A k \in Keys : Known(k) => Known(k)'
    <2> SUFFICES ASSUME NEW k \in Keys, Known(k) PROVE Known(k)'
      OBVIOUS
    <2>1. CASE k \in forgotten
      BY <2>1, <1>1 DEF Known
    <2>2. CASE k \in Held
      BY <2>2, <1>3, <1>6 DEF Known, Held
    <2> QED
      BY <2>1, <2>2 DEF Known
  <1> QED
    BY <1>4, <1>6, <1>7, <1>8

LEMMA StoreKeyPreserves ==
    ASSUME KeysInv, NEW j \in Keys, StoreKey(j)
    PROVE  KeysInv'
  <1>0. /\ TypeOK'
        /\ \A k \in Keys : Known(k) => Known(k)'
        /\ \A u \in Users, k \in Keys :
              store[u] = k => k \in forgotten' \/ store'[u] = k
    BY StoreKeyKnown
  <1>1. /\ login[j] = "sent"
        /\ login' = [login EXCEPT ![j] = "stored"]
        /\ store' = [store EXCEPT ![named[j]] = j]
        /\ forgotten \subseteq forgotten'
        /\ UNCHANGED <<tabs, by, named, requests, changed>>
    BY DEF StoreKey
  <1>2. /\ \A t \in Tabs : key[t] \in Keys \/ key[t] = Shared
        /\ \A r \in Requests : seal[r] \in Keys \/ seal[r] = Shared
        /\ \A r \in Requests : TabOf[r] \in Tabs
    BY BodyKeysAssumption DEF KeysInv, TypeOK
  <1>3. LoginsStored'
    BY <1>0, <1>1 DEF KeysInv, TypeOK, LoginsStored
  <1>4. KeysKnown'
    BY <1>0, <1>1, <1>2 DEF KeysInv, KeysKnown, tabs, requests
  <1>5. Unread'
    BY <1>1 DEF KeysInv, Unread, requests
  <1>6. TabAgrees'
    BY <1>0, <1>1, <1>2 DEF KeysInv, TypeOK, TabAgrees, tabs
  <1>7. AskedAgrees'
    <2> SUFFICES ASSUME NEW r \in Requests, stage[r] = "sent", asked[r] # NoUser,
                        r \notin changed
                 PROVE  /\ key[TabOf[r]] # Shared
                        /\ key[TabOf[r]] \in forgotten' \/ store'[asked[r]] = key[TabOf[r]]
      BY <1>1 DEF AskedAgrees, tabs, requests
    <2>1. /\ key[TabOf[r]] # Shared
          /\ key[TabOf[r]] \in forgotten \/ store[asked[r]] = key[TabOf[r]]
      BY DEF KeysInv, AskedAgrees
    <2>2. asked[r] \in Users
      BY DEF KeysInv, TypeOK
    <2>3. key[TabOf[r]] \in Keys
      BY <2>1, <1>2
    <2> QED
      BY <2>1, <2>2, <2>3, <1>0, <1>1
  <1>8. SocketBodiesOpened'
    BY <1>1 DEF KeysInv, SocketBodiesOpened, requests
  <1>9. AnswersOpenable'
    BY <1>1 DEF KeysInv, AnswersOpenable, tabs, requests
  <1> QED
    BY <1>0, <1>3, <1>4, <1>5, <1>6, <1>7, <1>8, <1>9 DEF KeysInv

\* A restart remembers every key it drops.
LEMMA RestartPreserves ==
    ASSUME KeysInv, Restart
    PROVE  KeysInv'
  <1>1. /\ store' = [u \in Users |-> Shared]
        /\ forgotten' = forgotten \cup Held
        /\ login' = [k \in Keys |-> IF login[k] = "sent" THEN "done" ELSE login[k]]
        /\ UNCHANGED <<tabs, by, named, requests, changed>>
    BY DEF Restart
  <1>2. /\ \A t \in Tabs : key[t] \in Keys \/ key[t] = Shared
        /\ \A r \in Requests : seal[r] \in Keys \/ seal[r] = Shared
        /\ \A r \in Requests : TabOf[r] \in Tabs
        /\ \A k \in Keys : k # Shared
        /\ \A r \in Requests : asked[r] = NoUser \/ asked[r] \in Users
        /\ \A t \in Tabs : header[t] = NoUser \/ header[t] \in Users
        /\ Held \subseteq Keys
    BY BodyKeysAssumption DEF KeysInv, TypeOK, Keys, Shared, Held
  <1>3. TypeOK'
    BY <1>1, <1>2 DEF KeysInv, TypeOK, tabs, requests
  <1>4. \A u \in Users, k \in Keys : store[u] = k => k \in forgotten'
    BY <1>1, <1>2 DEF Held
  <1>5. \A k : Known(k) => Known(k)'
    BY <1>1 DEF Known
  <1>6. LoginsStored'
    BY <1>1, <1>4 DEF KeysInv, TypeOK, LoginsStored
  <1>7. KeysKnown'
    BY <1>1, <1>5 DEF KeysInv, KeysKnown, tabs, requests
  <1>8. Unread' /\ SocketBodiesOpened' /\ AnswersOpenable'
    BY <1>1 DEF KeysInv, Unread, SocketBodiesOpened, AnswersOpenable, tabs, requests
  <1>9. TabAgrees'
    BY <1>1, <1>2, <1>4 DEF KeysInv, TabAgrees, tabs
  <1>10. AskedAgrees'
    BY <1>1, <1>2, <1>4 DEF KeysInv, AskedAgrees, tabs, requests
  <1> QED
    BY <1>3, <1>6, <1>7, <1>8, <1>9, <1>10 DEF KeysInv

----------------------------------------------------------------------------
(* The tabs                                                                *)

\* A tab that gets a key gets one that is in the store, with its user's name.
LEMMA LoginReturnsPreserves ==
    ASSUME KeysInv, NEW k \in Keys, LoginReturns(k)
    PROVE  KeysInv'
  <1> DEFINE t == by[k]
  <1>1. /\ login[k] = "stored"
        /\ t # NoTab
        /\ login' = [login EXCEPT ![k] = "done"]
        /\ token' = [token EXCEPT ![t] = TRUE]
        /\ key' = [key EXCEPT ![t] = k]
        /\ header' = [header EXCEPT ![t] = named[k]]
        /\ saved' = TRUE
        /\ changed' = changed \cup RequestsOf(t)
        /\ UNCHANGED <<by, named, store, requests, forgotten>>
    BY DEF LoginReturns
  <1>2. /\ t \in Tabs
        /\ k # Shared
        /\ named[k] \in Users
        /\ k \in forgotten \/ store[named[k]] = k
        /\ \A r \in Requests : TabOf[r] \in Tabs
    BY <1>1, BodyKeysAssumption DEF KeysInv, TypeOK, LoginsStored, Keys, Shared
  <1>3. /\ key'[t] = k
        /\ header'[t] = named[k]
        /\ \A w \in Tabs : w # t => key'[w] = key[w] /\ header'[w] = header[w]
    BY <1>1, <1>2 DEF KeysInv, TypeOK
  <1>4. \A r \in Requests : r \notin changed' => r \notin changed /\ TabOf[r] # t
    BY <1>1 DEF RequestsOf
  <1>5. TypeOK'
    BY <1>1, <1>2 DEF KeysInv, TypeOK, requests, RequestsOf
  <1>6. \A x : Known(x)' <=> Known(x)
    BY <1>1, SameKnown
  <1>7. Known(k)
    BY <1>2 DEF Known, Held
  <1>8. LoginsStored'
    BY <1>1 DEF KeysInv, TypeOK, LoginsStored
  <1>9. KeysKnown'
    BY <1>1, <1>3, <1>6, <1>7 DEF KeysInv, KeysKnown, requests
  <1>10. TabAgrees'
    BY <1>1, <1>2, <1>3 DEF KeysInv, TabAgrees
  <1>11. Unread' /\ SocketBodiesOpened'
    BY <1>1 DEF KeysInv, Unread, SocketBodiesOpened, requests
  <1>12. AskedAgrees' /\ AnswersOpenable'
    BY <1>1, <1>2, <1>3, <1>4 DEF KeysInv, AskedAgrees, AnswersOpenable, requests
  <1> QED
    BY <1>5, <1>8, <1>9, <1>10, <1>11, <1>12 DEF KeysInv

LEMMA LogoutPreserves ==
    ASSUME KeysInv, NEW t \in Tabs, Logout(t)
    PROVE  KeysInv'
  <1>1. /\ token' = [token EXCEPT ![t] = FALSE]
        /\ key' = [key EXCEPT ![t] = Shared]
        /\ header' = [header EXCEPT ![t] = NoUser]
        /\ saved' = FALSE
        /\ changed' = changed \cup RequestsOf(t)
        /\ UNCHANGED <<logins, store, requests, forgotten>>
    BY DEF Logout
  <1>2. /\ key'[t] = Shared
        /\ header'[t] = NoUser
        /\ \A w \in Tabs : w # t => key'[w] = key[w] /\ header'[w] = header[w]
        /\ \A r \in Requests : TabOf[r] \in Tabs
    BY <1>1, BodyKeysAssumption DEF KeysInv, TypeOK
  <1>3. \A r \in Requests : r \notin changed' => r \notin changed /\ TabOf[r] # t
    BY <1>1 DEF RequestsOf
  <1>4. TypeOK'
    BY <1>1 DEF KeysInv, TypeOK, logins, requests, RequestsOf
  <1>5. \A x : Known(x)' <=> Known(x)
    BY <1>1, SameKnown
  <1>6. LoginsStored'
    BY <1>1 DEF KeysInv, LoginsStored, logins
  <1>7. KeysKnown'
    BY <1>1, <1>2, <1>5 DEF KeysInv, KeysKnown, requests
  <1>8. TabAgrees'
    BY <1>1, <1>2 DEF KeysInv, TabAgrees
  <1>9. Unread' /\ SocketBodiesOpened'
    BY <1>1 DEF KeysInv, Unread, SocketBodiesOpened, requests
  <1>10. AskedAgrees' /\ AnswersOpenable'
    BY <1>1, <1>2, <1>3 DEF KeysInv, AskedAgrees, AnswersOpenable, requests
  <1> QED
    BY <1>4, <1>6, <1>7, <1>8, <1>9, <1>10 DEF KeysInv

LEMMA LoadPreserves ==
    ASSUME KeysInv, NEW t \in Tabs, Load(t)
    PROVE  KeysInv'
  <1>1. /\ token' = [token EXCEPT ![t] = saved]
        /\ header' = [header EXCEPT ![t] = IF saved THEN NoUser ELSE @]
        /\ UNCHANGED <<saved, key, logins, store, requests, forgotten, changed>>
    BY DEF Load
  <1>2. \A w \in Tabs : header'[w] = header[w] \/ header'[w] = NoUser
    BY <1>1 DEF KeysInv, TypeOK
  <1>3. TypeOK'
    BY <1>1 DEF KeysInv, TypeOK, logins, requests
  <1>4. \A x : Known(x)' <=> Known(x)
    BY <1>1, SameKnown
  <1>5. LoginsStored' /\ Unread' /\ AskedAgrees' /\ SocketBodiesOpened' /\ AnswersOpenable'
    BY <1>1 DEF KeysInv, LoginsStored, Unread, AskedAgrees, SocketBodiesOpened,
                AnswersOpenable, logins, requests
  <1>6. KeysKnown'
    BY <1>1, <1>4 DEF KeysInv, KeysKnown, requests
  <1>7. TabAgrees'
    BY <1>1, <1>2 DEF KeysInv, TabAgrees
  <1> QED
    BY <1>3, <1>5, <1>6, <1>7 DEF KeysInv

\* What a tab asked for before it was loaded anew is lost.
LEMMA ReloadPreserves ==
    ASSUME KeysInv, NEW t \in Tabs, Reload(t)
    PROVE  KeysInv'
  <1>1. /\ token' = [token EXCEPT ![t] = FALSE]
        /\ key' = [key EXCEPT ![t] = Shared]
        /\ header' = [header EXCEPT ![t] = NoUser]
        /\ by' = [k \in Keys |-> IF by[k] = t THEN NoTab ELSE by[k]]
        /\ stage' = [r \in Requests |->
                         IF TabOf[r] = t /\ stage[r] # "idle" THEN "lost" ELSE stage[r]]
        /\ UNCHANGED <<saved, login, named, store, via, retried, seal, asked,
                       reading, answer,
                       forgotten, changed>>
    BY DEF Reload
  <1>2. /\ key'[t] = Shared
        /\ header'[t] = NoUser
        /\ \A w \in Tabs : w # t => key'[w] = key[w] /\ header'[w] = header[w]
        /\ \A r \in Requests : TabOf[r] \in Tabs
    BY <1>1, BodyKeysAssumption DEF KeysInv, TypeOK
  <1>3. \A r \in Requests :
            /\ stage'[r] # "lost" => stage'[r] = stage[r]
            /\ stage'[r] \notin {"idle", "lost"} => TabOf[r] # t
    BY <1>1
  <1>4. TypeOK'
    BY <1>1 DEF KeysInv, TypeOK
  <1>5. \A x : Known(x)' <=> Known(x)
    BY <1>1, SameKnown
  <1>6. LoginsStored'
    BY <1>1 DEF KeysInv, LoginsStored
  <1>7. KeysKnown'
    BY <1>1, <1>2, <1>5 DEF KeysInv, KeysKnown
  <1>8. TabAgrees'
    BY <1>1, <1>2 DEF KeysInv, TabAgrees
  <1>9. Unread' /\ SocketBodiesOpened'
    BY <1>1, <1>3 DEF KeysInv, Unread, SocketBodiesOpened
  <1>10. AskedAgrees' /\ AnswersOpenable'
    BY <1>1, <1>2, <1>3 DEF KeysInv, AskedAgrees, AnswersOpenable
  <1> QED
    BY <1>4, <1>6, <1>7, <1>8, <1>9, <1>10 DEF KeysInv

\* Steps of a login that touch neither tab nor store.
LEMMA LoginStepPreserves ==
    ASSUME KeysInv, NEW k \in Keys,
           LoginFails(k) \/ \E t \in Tabs, u \in Users : BeginLogin(k, t, u)
    PROVE  KeysInv'
  <1>1. /\ UNCHANGED <<tabs, store, requests, forgotten, changed>>
        /\ \/ login' = [login EXCEPT ![k] = "done"] /\ UNCHANGED <<by, named>>
           \/ \E t \in Tabs, u \in Users :
                 /\ login' = [login EXCEPT ![k] = "sent"]
                 /\ by' = [by EXCEPT ![k] = t]
                 /\ named' = [named EXCEPT ![k] = u]
    BY DEF LoginFails, BeginLogin
  <1>2. TypeOK'
    BY <1>1 DEF KeysInv, TypeOK, tabs, requests
  <1>3. LoginsStored'
    BY <1>1 DEF KeysInv, TypeOK, LoginsStored
  <1>4. \A x : Known(x)' <=> Known(x)
    BY <1>1, SameKnown
  <1>5. KeysKnown'
    BY <1>1, <1>4 DEF KeysInv, KeysKnown, tabs, requests
  <1>6. Unread' /\ TabAgrees' /\ AskedAgrees' /\ SocketBodiesOpened' /\ AnswersOpenable'
    BY <1>1 DEF KeysInv, Unread, TabAgrees, AskedAgrees, SocketBodiesOpened,
                AnswersOpenable, tabs, requests
  <1> QED
    BY <1>2, <1>3, <1>5, <1>6 DEF KeysInv

----------------------------------------------------------------------------
(* The requests                                                            *)

LEMMA SealPreserves ==
    ASSUME KeysInv, NEW r \in Requests, Seal(r)
    PROVE  KeysInv'
  <1>1. /\ stage[r] \in {"idle", "retry"}
        /\ stage' = [stage EXCEPT ![r] = "sealed"]
        /\ seal' = [seal EXCEPT ![r] = key[TabOf[r]]]
        /\ UNCHANGED <<tabs, logins, store, via, retried, asked, reading, answer,
                       forgotten, changed>>
    BY DEF Seal
  <1>2. /\ TabOf[r] \in Tabs
        /\ stage'[r] = "sealed" /\ seal'[r] = key[TabOf[r]]
        /\ \A q \in Requests : q # r => stage'[q] = stage[q] /\ seal'[q] = seal[q]
    BY <1>1, BodyKeysAssumption DEF KeysInv, TypeOK
  <1>3. TypeOK'
    BY <1>1, <1>2 DEF KeysInv, TypeOK, tabs, logins
  <1>4. \A x : Known(x)' <=> Known(x)
    BY <1>1, SameKnown
  <1>5. KeysKnown'
    BY <1>1, <1>2, <1>4 DEF KeysInv, KeysKnown, tabs
  <1>6. SocketBodiesOpened'
    BY <1>1, <1>2 DEF KeysInv, SocketBodiesOpened, Unread
  <1>7. LoginsStored' /\ TabAgrees'
    BY <1>1 DEF KeysInv, LoginsStored, TabAgrees, tabs, logins
  <1>8. Unread' /\ AskedAgrees' /\ AnswersOpenable'
    BY <1>1, <1>2 DEF KeysInv, Unread, AskedAgrees, AnswersOpenable, tabs
  <1> QED
    BY <1>3, <1>5, <1>6, <1>7, <1>8 DEF KeysInv

\* What the tab knows of its user when it sends, the request knows.
LEMMA SendPreserves ==
    ASSUME KeysInv, NEW r \in Requests, Send(r)
    PROVE  KeysInv'
  <1>1. /\ stage[r] = "sealed"
        /\ stage' = [stage EXCEPT ![r] = "sent"]
        /\ asked' = [asked EXCEPT ![r] =
                         IF via[r] = "http" THEN header[TabOf[r]] ELSE NoUser]
        /\ changed' = changed \ {r}
        /\ UNCHANGED <<tabs, logins, store, via, retried, seal, reading, answer,
                       forgotten>>
    BY DEF Send
  <1>2. /\ TabOf[r] \in Tabs
        /\ stage'[r] = "sent"
        /\ asked'[r] = NoUser \/ asked'[r] = header[TabOf[r]]
        /\ \A q \in Requests : q # r =>
              /\ stage'[q] = stage[q]
              /\ asked'[q] = asked[q]
              /\ q \notin changed' => q \notin changed
    BY <1>1, BodyKeysAssumption DEF KeysInv, TypeOK
  <1>3. TypeOK'
    BY <1>1, <1>2 DEF KeysInv, TypeOK, tabs, logins
  <1>4. \A x : Known(x)' <=> Known(x)
    BY <1>1, SameKnown
  <1>5. KeysKnown'
    BY <1>1, <1>4 DEF KeysInv, KeysKnown, tabs
  <1>6. AskedAgrees'
    BY <1>1, <1>2 DEF KeysInv, AskedAgrees, TabAgrees, tabs
  <1>7. LoginsStored' /\ TabAgrees' /\ SocketBodiesOpened'
    BY <1>1 DEF KeysInv, LoginsStored, TabAgrees, SocketBodiesOpened, tabs, logins
  <1>8. Unread' /\ AnswersOpenable'
    BY <1>1, <1>2 DEF KeysInv, Unread, AnswersOpenable, tabs
  <1> QED
    BY <1>3, <1>5, <1>6, <1>7, <1>8 DEF KeysInv

\* A body stays sealed on the socket only if no user has its key any more.
LEMMA ArrivePreserves ==
    ASSUME KeysInv, NEW r \in Requests, Arrive(r)
    PROVE  KeysInv'
  <1>1. /\ stage[r] = "sent"
        /\ stage' = [stage EXCEPT ![r] = "handled"]
        /\ answer' = [answer EXCEPT ![r] =
                         IF asked[r] = NoUser THEN Shared ELSE store[asked[r]]]
        /\ UNCHANGED <<tabs, logins, store, via, retried, seal, asked,
                       forgotten, changed>>
    BY DEF Arrive
  <1>2. PICK x \in Readings(r) : reading' = [reading EXCEPT ![r] = x]
    BY DEF Arrive
  <1>3. /\ x \in {"right", "garbled", "sealed"}
        /\ x = "sealed" /\ via[r] = "socket" => seal[r] # Shared /\ seal[r] \notin Held
    BY DEF Readings, Tried
  <1>4. /\ stage'[r] = "handled"
        /\ reading'[r] = x
        /\ answer'[r] = IF asked[r] = NoUser THEN Shared ELSE store[asked[r]]
        /\ \A q \in Requests : q # r =>
              stage'[q] = stage[q] /\ reading'[q] = reading[q] /\ answer'[q] = answer[q]
    BY <1>1, <1>2 DEF KeysInv, TypeOK
  <1>5. TypeOK'
    BY <1>1, <1>2, <1>3 DEF KeysInv, TypeOK, tabs, logins
  <1>6. \A y : Known(y)' <=> Known(y)
    BY <1>1, SameKnown
  <1>7. KeysKnown'
    BY <1>1, <1>6 DEF KeysInv, KeysKnown, tabs
  <1>8. SocketBodiesOpened'
    BY <1>1, <1>3, <1>4 DEF KeysInv, SocketBodiesOpened, KeysKnown, Known
  <1>9. AnswersOpenable'
    BY <1>1, <1>4 DEF KeysInv, AnswersOpenable, AskedAgrees, tabs
  <1>10. LoginsStored' /\ TabAgrees'
    BY <1>1 DEF KeysInv, LoginsStored, TabAgrees, tabs, logins
  <1>11. Unread' /\ AskedAgrees'
    BY <1>1, <1>4 DEF KeysInv, Unread, AskedAgrees, tabs
  <1> QED
    BY <1>5, <1>7, <1>8, <1>9, <1>10, <1>11 DEF KeysInv

LEMMA UnauthorizedPreserves ==
    ASSUME KeysInv, NEW r \in Requests, Unauthorized(r)
    PROVE  KeysInv'
  <1>1. /\ stage' = [stage EXCEPT ![r] = "retry"]
        /\ reading' = [reading EXCEPT ![r] = "none"]
        /\ answer' = [answer EXCEPT ![r] = Shared]
        /\ retried' = retried \cup {r}
        /\ UNCHANGED <<tabs, logins, store, via, seal, asked, forgotten, changed>>
    BY DEF Unauthorized
  <1>2. /\ stage'[r] = "retry" /\ reading'[r] = "none"
        /\ \A q \in Requests : q # r =>
              stage'[q] = stage[q] /\ reading'[q] = reading[q] /\ answer'[q] = answer[q]
    BY <1>1 DEF KeysInv, TypeOK
  <1>3. TypeOK'
    BY <1>1 DEF KeysInv, TypeOK, tabs, logins
  <1>4. \A x : Known(x)' <=> Known(x)
    BY <1>1, SameKnown
  <1>5. KeysKnown'
    BY <1>1, <1>4 DEF KeysInv, KeysKnown, tabs
  <1>6. LoginsStored' /\ TabAgrees'
    BY <1>1 DEF KeysInv, LoginsStored, TabAgrees, tabs, logins
  <1>7. Unread' /\ AskedAgrees' /\ SocketBodiesOpened' /\ AnswersOpenable'
    BY <1>1, <1>2 DEF KeysInv, Unread, AskedAgrees, SocketBodiesOpened,
                      AnswersOpenable, tabs
  <1> QED
    BY <1>3, <1>5, <1>6, <1>7 DEF KeysInv

LEMMA EndPreserves ==
    ASSUME KeysInv, NEW r \in Requests, Receive(r) \/ Lost(r)
    PROVE  KeysInv'
  <1>1. /\ \E s \in {"opened", "unopened", "lost"} : stage' = [stage EXCEPT ![r] = s]
        /\ UNCHANGED <<tabs, logins, store, via, retried, seal, asked, reading,
                       answer,
                       forgotten, changed>>
    BY DEF Receive, Lost
  <1>2. \A q \in Requests : \/ stage'[q] = stage[q]
                            \/ stage'[q] \in {"opened", "unopened", "lost"}
    BY <1>1 DEF KeysInv, TypeOK
  <1>3. TypeOK'
    BY <1>1 DEF KeysInv, TypeOK, tabs, logins
  <1>4. \A x : Known(x)' <=> Known(x)
    BY <1>1, SameKnown
  <1>5. KeysKnown'
    BY <1>1, <1>4 DEF KeysInv, KeysKnown, tabs
  <1>6. LoginsStored' /\ TabAgrees' /\ SocketBodiesOpened'
    BY <1>1 DEF KeysInv, LoginsStored, TabAgrees, SocketBodiesOpened, tabs, logins
  <1>7. Unread' /\ AskedAgrees' /\ AnswersOpenable'
    BY <1>1, <1>2 DEF KeysInv, Unread, AskedAgrees, AnswersOpenable, tabs
  <1> QED
    BY <1>3, <1>5, <1>6, <1>7 DEF KeysInv

----------------------------------------------------------------------------
(* The theorems                                                            *)

LEMMA StepKeys == KeysInv /\ [Next]_vars => KeysInv'
  <1> SUFFICES ASSUME KeysInv, [Next]_vars PROVE KeysInv'
    OBVIOUS
  <1>1. CASE Restart
    BY <1>1, RestartPreserves
  <1>2. ASSUME NEW k \in Keys, StoreKey(k) PROVE KeysInv'
    BY <1>2, StoreKeyPreserves
  <1>3. ASSUME NEW k \in Keys, LoginReturns(k) PROVE KeysInv'
    BY <1>3, LoginReturnsPreserves
  <1>4. ASSUME NEW k \in Keys,
               LoginFails(k) \/ \E t \in Tabs, u \in Users : BeginLogin(k, t, u)
        PROVE  KeysInv'
    BY <1>4, LoginStepPreserves
  <1>5. ASSUME NEW t \in Tabs, Logout(t) \/ Load(t) \/ Reload(t) PROVE KeysInv'
    BY <1>5, LogoutPreserves, LoadPreserves, ReloadPreserves
  <1>6. ASSUME NEW r \in Requests,
               Seal(r) \/ Send(r) \/ Arrive(r) \/ Unauthorized(r) \/ Receive(r) \/ Lost(r)
        PROVE  KeysInv'
    BY <1>6, SealPreserves, SendPreserves, ArrivePreserves, UnauthorizedPreserves,
       EndPreserves
  <1>7. CASE UNCHANGED vars
    <2>1. \A x : Known(x)' <=> Known(x)
      BY <1>7, SameKnown DEF vars
    <2>2. KeysKnown'
      BY <1>7, <2>1 DEF KeysInv, KeysKnown, vars, tabs, requests
    <2> QED
      BY <1>7, <2>2 DEF KeysInv, TypeOK, LoginsStored, Unread, TabAgrees, AskedAgrees,
             SocketBodiesOpened, AnswersOpenable, vars, tabs, logins, requests
  <1> QED
    BY <1>1, <1>2, <1>3, <1>4, <1>5, <1>6, <1>7 DEF Next

\* The inductive invariant holds in every reachable state.
THEOREM KeysInvariant == Spec => []KeysInv
  BY InitKeys, StepKeys, PTL DEF Spec

\* Type correctness, for any tabs, users and number of logins.
THEOREM KeysTypeCorrect == Spec => []TypeOK
  <1>1. KeysInv => TypeOK
    BY DEF KeysInv
  <1> QED
    BY <1>1, KeysInvariant, PTL

\* A tab and the store agree on the key of the tab's user, unless the key was
\* replaced or lost.
THEOREM TabsAgree == Spec => []TabAgrees
  <1>1. KeysInv => TabAgrees
    BY DEF KeysInv
  <1> QED
    BY <1>1, KeysInvariant, PTL

\* No body arrives sealed on the socket unless its key was replaced or lost.
THEOREM SocketOpens == Spec => []SocketBodiesOpened
  <1>1. KeysInv => SocketBodiesOpened
    BY DEF KeysInv
  <1> QED
    BY <1>1, KeysInvariant, PTL

\* An answer is sealed with a key of the tab that asked, unless the tab or the user
\* logged in or out meanwhile.
THEOREM AnswersOpen == Spec => []AnswersOpenable
  <1>1. KeysInv => AnswersOpenable
    BY DEF KeysInv
  <1> QED
    BY <1>1, KeysInvariant, PTL
=============================================================================
