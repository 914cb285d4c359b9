------------------------------ MODULE BodyKeys ------------------------------
(***************************************************************************)
(* Which key seals a body, and which keys the other side tries.  The       *)
(* client (AuthService, EncryptionService, CommunicationService) takes the *)
(* key it was given at login, or the shared key without one; the server    *)
(* holds one key per user in memory (AesKeyStore) and tries                *)
(*                                                                         *)
(*   on the socket (WebSocketHandler)   the shared key, then every key,    *)
(*   on HTTP (RequestDecryption...)     the shared key.                    *)
(*                                                                         *)
(* Answers on the socket are sealed with the shared key; those of HTTP     *)
(* with the key of the user named by the header X-Username, if there is    *)
(* one (ResponseEncryption...).                                            *)
(*                                                                         *)
(* A login is numbered by the key it is given.  Users type their names as  *)
(* the database spells them, and the crypto library of the page is loaded. *)
(***************************************************************************)
EXTENDS Integers

CONSTANTS
    Tabs,          \* pages of the client, in one browser
    Users,         \* user names
    NoUser, NoTab, \* none
    Requests,      \* calls with a body: POST, PUT
    TabOf,         \* the tab each is made in
    MaxKey         \* bound on the logins

Keys == 1..MaxKey

\* The key both sides are configured with; as a key of a tab or of the store it
\* stands for none.
Shared == 0

ASSUME BodyKeysAssumption ==
    /\ NoUser \notin Users
    /\ NoTab \notin Tabs
    /\ TabOf \in [Requests -> Tabs]
    /\ MaxKey \in Nat

VARIABLES
    token,      \* Token of each tab is set
    saved,      \* auth_token is in localStorage, which the tabs share
    key,        \* _aesKey of each tab
    header,     \* X-Username among the headers of each tab's HttpClient
    login,      \* where each login is
    by, named,  \* the tab it is made in and the user it is for
    store,      \* _keys of AesKeyStore
    stage,      \* where each request is
    via,        \* its transport
    retried,    \* those that were sent once more after a 401
    seal,       \* the key its body is sealed with
    asked,      \* the X-Username it was sent with
    reading,    \* what the handler on the server gets for a body
    answer,     \* the key its answer is sealed with, Shared for none
    forgotten,  \* history: keys the store held once
    changed     \* history: requests whose tab got, or lost, a key since they
                \* were sent

tabs == <<token, saved, key, header>>
logins == <<login, by, named>>
requests == <<stage, via, retried, seal, asked, reading, answer>>
vars == <<tabs, logins, store, requests, forgotten, changed>>

TypeOK ==
    /\ token \in [Tabs -> BOOLEAN]
    /\ saved \in BOOLEAN
    /\ key \in [Tabs -> Keys \cup {Shared}]
    /\ header \in [Tabs -> Users \cup {NoUser}]
    /\ login \in [Keys -> {"none", "sent", "stored", "done"}]
    /\ by \in [Keys -> Tabs \cup {NoTab}]
    /\ named \in [Keys -> Users \cup {NoUser}]
    /\ store \in [Users -> Keys \cup {Shared}]
    /\ stage \in [Requests -> {"idle", "sealed", "sent", "handled", "retry",
                               "opened", "unopened", "lost"}]
    /\ via \in [Requests -> {"socket", "http"}]
    /\ retried \subseteq Requests
    /\ seal \in [Requests -> Keys \cup {Shared}]
    /\ asked \in [Requests -> Users \cup {NoUser}]
    /\ reading \in [Requests -> {"none", "right", "garbled", "sealed"}]
    /\ answer \in [Requests -> Keys \cup {Shared}]
    /\ forgotten \subseteq Keys
    /\ changed \subseteq Requests

Init ==
    /\ token = [t \in Tabs |-> FALSE]
    /\ saved = FALSE
    /\ key = [t \in Tabs |-> Shared]
    /\ header = [t \in Tabs |-> NoUser]
    /\ login = [k \in Keys |-> "none"]
    /\ by = [k \in Keys |-> NoTab]
    /\ named = [k \in Keys |-> NoUser]
    /\ store = [u \in Users |-> Shared]
    /\ stage = [r \in Requests |-> "idle"]
    /\ via \in [Requests -> {"socket", "http"}]
    /\ retried = {}
    /\ seal = [r \in Requests |-> Shared]
    /\ asked = [r \in Requests |-> NoUser]
    /\ reading = [r \in Requests |-> "none"]
    /\ answer = [r \in Requests |-> Shared]
    /\ forgotten = {}
    /\ changed = {}

Held == {store[u] : u \in Users} \ {Shared}

RequestsOf(t) == {r \in Requests : TabOf[r] = t}

----------------------------------------------------------------------------
(* Login, logout, load                                                     *)

\* LoginAsync of a tab posts user name and password.  The form can be submitted
\* again while a login is under way (the Enter key is not blocked).
BeginLogin(k, t, u) ==
    /\ \A j \in Keys : j < k <=> login[j] # "none"
    /\ login' = [login EXCEPT ![k] = "sent"]
    /\ by' = [by EXCEPT ![k] = t]
    /\ named' = [named EXCEPT ![k] = u]
    /\ UNCHANGED <<tabs, store, requests, forgotten, changed>>

\* A mutant of StoreKey: a user who has a key keeps it.
StoreKeyUnlessHeld(k) ==
    /\ login[k] = "sent"
    /\ login' = [login EXCEPT ![k] = "stored"]
    /\ store' = [store EXCEPT ![named[k]] = IF @ = Shared THEN k ELSE @]
    /\ UNCHANGED <<tabs, by, named, requests, forgotten, changed>>

\* The server: the password is right, a key is made and put in the place of the
\* user's earlier one.
StoreKey(k) ==
    /\ login[k] = "sent"
    /\ login' = [login EXCEPT ![k] = "stored"]
    /\ store' = [store EXCEPT ![named[k]] = k]
    /\ forgotten' = forgotten \cup ({store[named[k]]} \ {Shared})
    /\ UNCHANGED <<tabs, by, named, requests, changed>>

\* The answer reaches the tab: token, key and headers are set in one go, then the
\* token is saved.
LoginReturns(k) ==
    LET t == by[k]
    IN  /\ login[k] = "stored"
        /\ t # NoTab
        /\ login' = [login EXCEPT ![k] = "done"]
        /\ token' = [token EXCEPT ![t] = TRUE]
        /\ key' = [key EXCEPT ![t] = k]
        /\ header' = [header EXCEPT ![t] = named[k]]
        /\ saved' = TRUE
        /\ changed' = changed \cup RequestsOf(t)
        /\ UNCHANGED <<by, named, store, requests, forgotten>>

\* The login is refused, or its answer is lost: LoginAsync returns false.
LoginFails(k) ==
    /\ login[k] \in {"sent", "stored"}
    /\ login' = [login EXCEPT ![k] = "done"]
    /\ UNCHANGED <<tabs, by, named, store, requests, forgotten, changed>>

\* Logout: the server is not told (api/auth/logout has no caller).
Logout(t) ==
    /\ token' = [token EXCEPT ![t] = FALSE]
    /\ key' = [key EXCEPT ![t] = Shared]
    /\ header' = [header EXCEPT ![t] = NoUser]
    /\ saved' = FALSE
    /\ changed' = changed \cup RequestsOf(t)
    /\ UNCHANGED <<logins, store, requests, forgotten>>

\* LoadFromStorageAsync, on the way to a page of the panel: the token is that of
\* the storage, and if there is one the name is removed from the headers.
Load(t) ==
    /\ token' = [token EXCEPT ![t] = saved]
    /\ header' = [header EXCEPT ![t] = IF saved THEN NoUser ELSE @]
    /\ UNCHANGED <<saved, key, logins, store, requests, forgotten, changed>>

----------------------------------------------------------------------------
(* Requests                                                                *)

\* The body is sealed with the key of the tab, with the shared key if it has none.
Seal(r) ==
    /\ stage[r] \in {"idle", "retry"}
    /\ stage' = [stage EXCEPT ![r] = "sealed"]
    /\ seal' = [seal EXCEPT ![r] = key[TabOf[r]]]
    /\ UNCHANGED <<tabs, logins, store, via, retried, asked, reading, answer,
                   forgotten, changed>>

\* It is sent, over HTTP with the headers the tab has by now.
Send(r) ==
    /\ stage[r] = "sealed"
    /\ stage' = [stage EXCEPT ![r] = "sent"]
    /\ asked' = [asked EXCEPT ![r] = IF via[r] = "http" THEN header[TabOf[r]] ELSE NoUser]
    /\ changed' = changed \ {r}
    /\ UNCHANGED <<tabs, logins, store, via, retried, seal, reading, answer,
                   forgotten>>

\* The keys tried after the shared one: on the socket each that the store holds,
\* over HTTP none.
Tried(transport) == {k \in Held : transport = "socket"}

\* A mutant of Readings: of the keys, only the first is tried.
ReadingsFirst(r) ==
    IF seal[r] = Shared THEN {"right"} ELSE
    {"garbled"} \cup
    IF Tried(via[r]) = {seal[r]} THEN {"right"} ELSE {"sealed"}

\* What comes of a body.  A wrong key is refused by the padding, except by chance
\* (one in 256), and then the text is garbage and no further key is tried.  The
\* keys are tried one after the other while logins replace them; each user's is
\* looked at once.
Readings(r) ==
    IF seal[r] = Shared THEN {"right"} ELSE
    {"garbled"} \cup
    IF seal[r] \in Tried(via[r]) THEN {"right"} ELSE {"sealed"}

\* A mutant of Arrive: the answer is sealed with any key of the store.
ArriveAnyKey(r) ==
    /\ stage[r] = "sent"
    /\ stage' = [stage EXCEPT ![r] = "handled"]
    /\ \E x \in Readings(r) : reading' = [reading EXCEPT ![r] = x]
    /\ \E u \in Users :
          answer' = [answer EXCEPT ![r] = IF asked[r] = NoUser THEN Shared ELSE store[u]]
    /\ UNCHANGED <<tabs, logins, store, via, retried, seal, asked,
                   forgotten, changed>>

\* The request arrives: its body is opened, or handed on as it came; the key of the
\* answer is looked up before the handler runs.
Arrive(r) ==
    /\ stage[r] = "sent"
    /\ stage' = [stage EXCEPT ![r] = "handled"]
    /\ \E x \in Readings(r) : reading' = [reading EXCEPT ![r] = x]
    /\ answer' = [answer EXCEPT ![r] =
                     IF asked[r] = NoUser THEN Shared ELSE store[asked[r]]]
    /\ UNCHANGED <<tabs, logins, store, via, retried, seal, asked,
                   forgotten, changed>>

\* 401 over HTTP: after a new handshake the body is sealed and sent once more.
Unauthorized(r) ==
    /\ stage[r] = "handled"
    /\ via[r] = "http"
    /\ r \notin retried
    /\ retried' = retried \cup {r}
    /\ stage' = [stage EXCEPT ![r] = "retry"]
    /\ reading' = [reading EXCEPT ![r] = "none"]
    /\ answer' = [answer EXCEPT ![r] = Shared]
    /\ UNCHANGED <<tabs, logins, store, via, seal, asked, forgotten, changed>>

\* The answer arrives.  Over HTTP, one that is sealed is opened with the key the tab
\* has by now; DecryptHttpResponse waits for the page's crypto library without
\* yielding, which the runtime may refuse.  What is not opened is taken as it is.
Receive(r) ==
    /\ stage[r] = "handled"
    /\ \/ /\ answer[r] \in {Shared, key[TabOf[r]]}
          /\ stage' = [stage EXCEPT ![r] = "opened"]
       \/ /\ answer[r] # Shared
          /\ stage' = [stage EXCEPT ![r] = "unopened"]
    /\ UNCHANGED <<tabs, logins, store, via, retried, seal, asked, reading, answer,
                   forgotten, changed>>

----------------------------------------------------------------------------
(* Failures                                                                *)

\* The connection breaks or the time is over.
Lost(r) ==
    /\ stage[r] \in {"sent", "handled"}
    /\ stage' = [stage EXCEPT ![r] = "lost"]
    /\ UNCHANGED <<tabs, logins, store, via, retried, seal, asked, reading, answer,
                   forgotten, changed>>

\* A tab is loaded anew: it has nothing but the storage, and what it waited for
\* will reach nobody.
Reload(t) ==
    /\ token' = [token EXCEPT ![t] = FALSE]
    /\ key' = [key EXCEPT ![t] = Shared]
    /\ header' = [header EXCEPT ![t] = NoUser]
    /\ by' = [k \in Keys |-> IF by[k] = t THEN NoTab ELSE by[k]]
    /\ stage' = [r \in Requests |->
                    IF TabOf[r] = t /\ stage[r] # "idle" THEN "lost" ELSE stage[r]]
    /\ UNCHANGED <<saved, login, named, store, via, retried, seal, asked, reading,
                   answer,
                   forgotten, changed>>

\* The server restarts: its keys are gone, and so are the requests and the logins
\* it was working on.
Restart ==
    /\ store' = [u \in Users |-> Shared]
    /\ forgotten' = forgotten \cup Held
    /\ login' = [k \in Keys |-> IF login[k] = "sent" THEN "done" ELSE login[k]]
    /\ UNCHANGED <<tabs, by, named, requests, changed>>

Next ==
    \/ \E k \in Keys :
          \/ \E t \in Tabs, u \in Users : BeginLogin(k, t, u)
          \/ StoreKey(k)
          \/ LoginReturns(k)
          \/ LoginFails(k)
    \/ \E t \in Tabs : Logout(t) \/ Load(t) \/ Reload(t)
    \/ \E r \in Requests :
          \/ Seal(r)
          \/ Send(r)
          \/ Arrive(r)
          \/ Unauthorized(r)
          \/ Receive(r)
          \/ Lost(r)
    \/ Restart

Spec == Init /\ [][Next]_vars

----------------------------------------------------------------------------
(* Properties                                                              *)

\* A tab that names its user in its headers, and so asks for sealed answers, has a
\* key, and it is the one the server holds for that user, unless a later login of
\* the user or a restart took it from the store.
TabAgrees ==
    \A t \in Tabs : header[t] # NoUser =>
        /\ key[t] # Shared
        /\ key[t] \in forgotten \/ store[header[t]] = key[t]

\* On the socket no handler is given a body that is still sealed, unless the store
\* has forgotten its key: a key reaches no tab before it is in the store.
SocketBodiesOpened ==
    \A r \in Requests : via[r] = "socket" /\ reading[r] = "sealed" =>
        seal[r] \in forgotten

\* An answer on its way can be opened by the tab that asked, unless the tab logged
\* in or out meanwhile, or its key was replaced by a later login of its user.
AnswersOpenable ==
    \A r \in Requests : stage[r] = "handled" /\ answer[r] # Shared /\ r \notin changed =>
        \/ answer[r] = key[TabOf[r]]
        \/ key[TabOf[r]] \in forgotten

\* "Server decrypts and replaces HttpContext.Request.Body with the decrypted JSON"
\* (RequestDecryptionMiddleware.cs:9): no sealed body gets past it.
HttpBodiesOpened ==
    \A r \in Requests : via[r] = "http" => reading[r] # "sealed"
=============================================================================
