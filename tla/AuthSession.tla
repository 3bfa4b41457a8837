------------------------------ MODULE AuthSession ------------------------------
(****************************************************************************)
(* The session a browser tab keeps: the token pair, the identity read from  *)
(* it, the user's profile and permission state, the calls that use and      *)
(* change them, and the one refresh they share.                             *)
(*                                                                          *)
(* Every call goes through the interceptor of core/web/rpc: it renews a     *)
(* pair that is nearly over, attaches the access token, and renews and      *)
(* sends once more when the server does not accept it. A refresh token is   *)
(* accepted once, so all of them must wait for the same refresh; whatever   *)
(* ends or replaces the session meanwhile does not stop the replies that    *)
(* are on their way.                                                        *)
(*                                                                          *)
(* A token pair is its index in `pairs`, 0 for none. The steps between two  *)
(* awaits of a call are one action, the interceptor's included.             *)
(****************************************************************************)
EXTENDS Integers, Sequences

CONSTANTS Calls,       \* calls of the tab that may be under way at once
          Renewal,     \* the shared refresh, refreshInFlight
          Users,
          NoUser,
          Kinds,       \* the kinds of call that are begun
          MaxCalls,    \* bound on the calls begun
          MaxEvents    \* bound on what happens elsewhere: time passes, messages
                       \* are lost, tokens revoked, accounts closed and
                       \* permissions changed

ASSUME BoundsAssumption ==
    {MaxCalls, MaxEvents} \subseteq Nat

ASSUME NamesAssumption ==
    Renewal \notin Calls /\ NoUser \notin Users /\ Users # {}

VARIABLES call,     \* per call and for the refresh: where it is
          store,    \* the auth store
          pairs,    \* the token pairs issued, with the metadata in them
          used,     \* pairs whose refresh token is no longer accepted
          revoked,  \* pairs whose access token was revoked
          closed,   \* users whose account was disabled or removed
          version,  \* per user: UpdatedAt
          perm,     \* per user: permStateVersion
          harmed,   \* history: a message was lost, tokens were revoked or a
                    \* refresh token never used was refused
          left      \* what the bounds leave

vars == <<call, store, pairs, used, revoked, closed, version, perm, harmed, left>>

Waits == {"pre", "post", "renew"}
AllKinds == {"api", "login", "logout", "switch", "perms", "prefer", "init"}

NoReply == [code |-> "none", pair |-> 0, user |-> NoUser, perm |-> 0]

\* pair: the access token sent; arg: the token that is an argument; epoch: the
\* session the call was made in; before, profile and perms: prevIdentity and
\* what a refresh is still to load.
Idle == [kind |-> "none", rpc |-> "none", at |-> "idle", pair |-> 0, arg |-> 0,
         user |-> NoUser, retried |-> FALSE, epoch |-> 0, before |-> 0,
         profile |-> FALSE, perms |-> FALSE, reply |-> NoReply]

NoPerms == [user |-> NoUser, perm |-> 0]

\* The ages of a pair: its access token is good, nearly over, over; its refresh
\* token is over too.
Fresh == 0
Ended == 2
Outdated == 3

(****************************************************************************)
(* The store                                                                *)
(****************************************************************************)

InFlight == call[Renewal].at # "idle"

\* shouldRefreshToken
Due(s) == ~s.refreshing /\ s.tokens # 0 /\ pairs[s.tokens].age # Fresh

\* Mutant: the permission state stays.
ClearedButPerms(s) ==
    [s EXCEPT !.tokens = 0, !.identity = 0, !.user = NoUser,
              !.refreshing = FALSE, !.epoch = @ + 1]

\* clearAuth. The refresh under way is not told.
Cleared(s) ==
    [s EXCEPT !.tokens = 0, !.identity = 0, !.user = NoUser, !.perms = NoPerms,
              !.refreshing = FALSE, !.epoch = @ + 1]

\* What a reply writes lands in the session there is now.
Landed(c, s) == [s EXCEPT !.crossed = @ \/ c.epoch # s.epoch]

WithPair(c, s) ==
    [Landed(c, s) EXCEPT !.tokens = c.reply.pair, !.identity = c.reply.pair]

WithUser(c, s) == [Landed(c, s) EXCEPT !.user = c.reply.user]

WithPerms(c, s) ==
    [Landed(c, s) EXCEPT !.perms = [user |-> c.reply.user, perm |-> c.reply.perm]]

(****************************************************************************)
(* Calls                                                                    *)
(****************************************************************************)

Rpc(c, name, s) ==
    [c EXCEPT !.rpc = name, !.epoch = s.epoch, !.retried = FALSE, !.reply = NoReply]

\* A call about the user whose profile is shown, else the identity's.
AboutUser(c, name, s) ==
    [Rpc(c, name, s) EXCEPT
        !.user = IF s.user # NoUser THEN s.user ELSE pairs[s.identity].user]

\* loadUser
Browse(c, s) == AboutUser(c, "Browse", s)

Sent(c, s) == [c EXCEPT !.at = "sent", !.pair = s.tokens, !.reply = NoReply]

Waiting(c, where) == [c EXCEPT !.at = where, !.reply = NoReply]

\* A new refresh over the pair of s.
Refreshing(s, profile) ==
    [Sent(Rpc(Idle, "RefreshTokens", s), s) EXCEPT
        !.kind = "refresh", !.arg = s.tokens, !.before = s.identity,
        !.profile = profile]

\* Mutant: every call refreshes by itself.
AwaitOwn(t, c, s, profile) ==
    IF s.tokens = 0
      THEN /\ call' = [call EXCEPT ![t] = c]
           /\ store' = s
      ELSE /\ call' = [call EXCEPT ![t] = c, ![Renewal] = Refreshing(s, profile)]
           /\ store' = [s EXCEPT !.refreshing = TRUE]

\* refreshToken: call t waits for the refresh under way, or for a new one.
Await(t, c, s, profile) ==
    IF InFlight
      THEN /\ call' = [call EXCEPT ![t] = c]
           /\ store' = s
      ELSE /\ call' = [call EXCEPT ![t] = c, ![Renewal] = Refreshing(s, profile)]
           /\ store' = [s EXCEPT !.refreshing = TRUE]

\* The interceptor before the request is sent.
Enter(t, c, s) ==
    IF Due(s) THEN Await(t, Waiting(c, "pre"), s, FALSE)
              ELSE /\ call' = [call EXCEPT ![t] = Sent(c, s)]
                   /\ store' = s

End(t, s) ==
    /\ call' = [call EXCEPT ![t] = Idle]
    /\ store' = [s EXCEPT !.initialized = @ \/ call[t].kind = "init"]

\* The call's promise is rejected.
Fails(t) ==
    End(t, IF call[t].kind = "logout" THEN Cleared(store)
           ELSE IF call[t].rpc = "GetPermissionState"
                  THEN [store EXCEPT !.perms = NoPerms]
           ELSE store)

(****************************************************************************)
(* What begins a call                                                       *)
(****************************************************************************)

New(kind) == [Idle EXCEPT !.kind = kind]

BeginApi(t) == Enter(t, Rpc(New("api"), "Api", store), store)

\* login waits for an initialization under way, and clears what there is.
BeginLogin(t) ==
    /\ \A o \in Calls : call[o].kind # "init"
    /\ LET s == Cleared(store) IN Enter(t, Rpc(New("login"), "Login", s), s)

BeginLogout(t) ==
    IF store.tokens = 0
      THEN store' = Cleared(store) /\ UNCHANGED call
      ELSE Enter(t, [Rpc(New("logout"), "Logout", store) EXCEPT !.arg = store.tokens],
                 store)

BeginSwitch(t) ==
    /\ store.tokens # 0 /\ store.identity # 0
    /\ Enter(t, Rpc(New("switch"), "SwitchCompanyScope", store), store)

BeginPerms(t) ==
    /\ store.identity # 0
    /\ store.perms.user = NoUser \/ store.perms.perm # pairs[store.identity].perm
    /\ Enter(t, Rpc(New("perms"), "GetPermissionState", store), store)

\* persistLanguagePreference, from the write of the user's record on.
BeginPrefer(t) ==
    /\ store.tokens # 0 /\ pairs[store.tokens].age < Ended
    /\ store.user # NoUser \/ store.identity # 0
    /\ Enter(t, AboutUser(New("prefer"), "UpdateById", store), store)

\* initAuth, over the store as it was persisted.
BeginInit(t) ==
    /\ ~store.initialized
    /\ \A o \in Calls : call[o].kind # "init"
    /\ LET s == [store EXCEPT !.identity = store.tokens]
           c == New("init")
       IN  IF store.tokens = 0
             THEN /\ store' = [Cleared(store) EXCEPT !.initialized = TRUE]
                  /\ UNCHANGED call
           ELSE IF Due(s) THEN Await(t, Waiting(c, "renew"), s, FALSE)
           ELSE IF s.user # NoUser
             THEN /\ store' = [s EXCEPT !.initialized = TRUE]
                  /\ UNCHANGED call
           ELSE Enter(t, Browse(c, s), s)

Begin(t) ==
    /\ call[t].at = "idle"
    /\ left.calls > 0
    /\ left' = [left EXCEPT !.calls = @ - 1]
    /\ \/ "api" \in Kinds /\ BeginApi(t)
       \/ "login" \in Kinds /\ BeginLogin(t)
       \/ "logout" \in Kinds /\ BeginLogout(t)
       \/ "switch" \in Kinds /\ BeginSwitch(t)
       \/ "perms" \in Kinds /\ BeginPerms(t)
       \/ "prefer" \in Kinds /\ BeginPrefer(t)
       \/ "init" \in Kinds /\ BeginInit(t)
    /\ UNCHANGED <<pairs, used, revoked, closed, version, perm, harmed>>

(****************************************************************************)
(* The server                                                               *)
(****************************************************************************)

Accepts(p) == p # 0 /\ pairs[p].age < Ended /\ p \notin revoked

\* The reply is on its way.
Answers(t, reply) ==
    call' = [call EXCEPT ![t].at = "served", ![t].pair = 0, ![t].reply = reply]

Refuses(t, code) ==
    /\ Answers(t, [NoReply EXCEPT !.code = code])
    /\ UNCHANGED <<pairs, used, revoked, version>>

\* createTokenPair, over the user's record as it is at version v.
Issues(t, u, v) ==
    /\ Answers(t, [NoReply EXCEPT !.code = "ok", !.pair = Len(pairs) + 1])
    /\ pairs' = Append(pairs, [user |-> u, version |-> v, perm |-> perm[u], age |-> Fresh])

\* Login: the pair is issued before LastLogin is written.  A wrong password is
\* answered as an unaccepted token is, an unknown or closed account is not.
ServeLogin(t) ==
    \/ \E u \in Users \ closed :
          /\ Issues(t, u, version[u])
          /\ version' = [version EXCEPT ![u] = @ + 1]
          /\ UNCHANGED <<used, revoked>>
    \/ \E code \in {"unauth", "error"} : Refuses(t, code)

\* A refresh token is accepted once, while it lasts and its user has an account.
ServeRefresh(t) ==
    LET p == call[t].arg
        u == pairs[p].user
    IN  IF p \in used \/ pairs[p].age = Outdated \/ u \in closed
          THEN /\ Refuses(t, "error")
               /\ harmed' = (harmed \/ p \notin used)
          ELSE /\ Issues(t, u, version[u])
               /\ used' = used \cup {p}
               /\ UNCHANGED <<revoked, version, harmed>>

ServeLogout(t) ==
    LET p == call[t].arg
    IN  IF ~Accepts(p)
          THEN Refuses(t, "error")
          ELSE /\ Answers(t, [NoReply EXCEPT !.code = "ok"])
               /\ revoked' = revoked \cup {p}
               /\ UNCHANGED <<pairs, used, version>>

\* UpdateById of the user's record, and the pair SwitchCompanyScope adds to it.
ServeWrite(t) ==
    LET c == call[t]
        u == IF c.rpc = "UpdateById" THEN c.user ELSE pairs[c.pair].user
        v == version[u] + 1
    IN  /\ version' = [version EXCEPT ![u] = v]
        /\ IF c.rpc = "SwitchCompanyScope"
              THEN Issues(t, u, v)
              ELSE Answers(t, [NoReply EXCEPT !.code = "ok"]) /\ UNCHANGED pairs
        /\ UNCHANGED <<used, revoked>>

\* Any other call, Browse and GetPermissionState among them.
ServeRead(t) ==
    LET c == call[t]
        u == pairs[c.pair].user
        reply == [NoReply EXCEPT !.code = "ok"]
    IN  /\ CASE c.rpc = "Api" -> Answers(t, reply)
             [] c.rpc = "Browse" -> Answers(t, [reply EXCEPT !.user = c.user])
             [] c.rpc = "GetPermissionState" ->
                  Answers(t, [reply EXCEPT !.user = u, !.perm = perm[u]])
        /\ UNCHANGED <<pairs, used, revoked, version>>

Serve(t) ==
    /\ call[t].at = "sent"
    /\ \/ call[t].rpc = "RefreshTokens" /\ ServeRefresh(t)
       \/ /\ UNCHANGED harmed
          /\ \/ call[t].rpc = "Login" /\ ServeLogin(t)
             \/ call[t].rpc \notin {"Login", "RefreshTokens"}
                /\ ~Accepts(call[t].pair) /\ Refuses(t, "unauth")
             \/ Accepts(call[t].pair)
                /\ \/ call[t].rpc = "Logout" /\ ServeLogout(t)
                   \/ call[t].rpc \in {"UpdateById", "SwitchCompanyScope"} /\ ServeWrite(t)
                   \/ call[t].rpc \in {"Api", "Browse", "GetPermissionState"} /\ ServeRead(t)
    /\ UNCHANGED <<store, closed, perm, left>>

\* The request or its reply is lost.
Lose(t) ==
    /\ call[t].at \in {"sent", "served"}
    /\ left.events > 0
    /\ left' = [left EXCEPT !.events = @ - 1]
    /\ harmed' = TRUE
    /\ Answers(t, [NoReply EXCEPT !.code = "error"])
    /\ UNCHANGED <<store, pairs, used, revoked, closed, version, perm>>

(****************************************************************************)
(* Replies                                                                  *)
(****************************************************************************)

\* The interceptor after a reply: the first refusal of the token renews it.
Renews(t) ==
    LET c == call[t]
    IN  c.reply.code = "unauth" /\ ~c.retried /\ (InFlight \/ store.tokens # 0)

Continue(t) ==
    LET c == call[t]
    IN  CASE c.rpc = "Login" ->
               LET s == WithPair(c, store) IN Enter(t, Browse(c, s), s)
          [] c.rpc = "SwitchCompanyScope" ->
               LET s == WithPair(c, store)
               IN  Enter(t, Rpc(c, "GetPermissionState", s), s)
          [] c.rpc = "GetPermissionState" -> End(t, WithPerms(c, store))
          [] c.rpc = "Browse" -> End(t, WithUser(c, store))
          [] c.rpc = "UpdateById" ->
               IF InFlight \/ store.tokens # 0
                 THEN Await(t, Waiting(c, "renew"), store, TRUE)
                 ELSE End(t, store)
          [] c.rpc = "Logout" -> End(t, Cleared(store))
          [] OTHER -> End(t, store)

Deliver(t) ==
    /\ call[t].at = "served"
    /\ IF Renews(t) THEN Await(t, Waiting(call[t], "post"), store, FALSE)
       ELSE IF call[t].reply.code = "ok" THEN Continue(t)
       ELSE Fails(t)
    /\ UNCHANGED <<pairs, used, revoked, closed, version, perm, left, harmed>>

\* Mutant: the refresh still counts as running.
SettleKeepsRefreshing(code, s) ==
    /\ store' = s
    /\ call' = [t \in DOMAIN call |->
                   IF t = Renewal THEN Idle
                   ELSE IF call[t].at \in Waits /\ call[t].reply = NoReply
                     THEN [call[t] EXCEPT !.reply.code = code]
                   ELSE call[t]]

\* Mutant: a failure is not passed on to those that wait.
SettleUnheard(code, s) ==
    /\ store' = [s EXCEPT !.refreshing = FALSE]
    /\ call' = [t \in DOMAIN call |->
                   IF t = Renewal THEN Idle
                   ELSE IF call[t].at \in Waits /\ call[t].reply = NoReply /\ code = "ok"
                     THEN [call[t] EXCEPT !.reply.code = code]
                   ELSE call[t]]

\* The refresh is over: refreshing and refreshInFlight are reset and whoever
\* waited hears of it.
Settle(code, s) ==
    /\ store' = [s EXCEPT !.refreshing = FALSE]
    /\ call' = [t \in DOMAIN call |->
                   IF t = Renewal THEN Idle
                   ELSE IF call[t].at \in Waits /\ call[t].reply = NoReply
                     THEN [call[t] EXCEPT !.reply.code = code]
                   ELSE call[t]]

\* loadPermissionState at the end of a refresh, if the version changed.
LoadPerms(c, s) ==
    IF c.perms /\ s.identity # 0
      THEN Enter(Renewal, Rpc(c, "GetPermissionState", s), s)
      ELSE Settle("ok", s)

ContinueRefresh ==
    LET c == call[Renewal]
    IN  CASE c.rpc = "RefreshTokens" ->
               LET s == WithPair(c, store)
                   Changed(f) == c.before = 0 \/ pairs[c.reply.pair][f] # pairs[c.before][f]
                   r == [c EXCEPT !.perms = Changed("perm")]
               IN  IF c.profile \/ Changed("version")
                     THEN Enter(Renewal, Browse(r, s), s)
                     ELSE LoadPerms(r, s)
          [] c.rpc = "Browse" -> LoadPerms(c, WithUser(c, store))
          [] c.rpc = "GetPermissionState" -> Settle("ok", WithPerms(c, store))

\* A refusal of a call the refresh makes is awaited like any other: the
\* refresh then waits for itself.
DeliverRefresh ==
    /\ call[Renewal].at = "served"
    /\ IF Renews(Renewal)
         THEN Await(Renewal, Waiting(call[Renewal], "post"), store, FALSE)
       ELSE IF call[Renewal].reply.code = "ok" THEN ContinueRefresh
       ELSE Settle("error", Cleared(store))
    /\ UNCHANGED <<pairs, used, revoked, closed, version, perm, left, harmed>>

\* A call that waited for the refresh goes on.
Resume(t) ==
    /\ call[t].at \in Waits
    /\ call[t].reply # NoReply
    /\ LET c == call[t]
           renewed == c.reply.code = "ok"
       IN  CASE c.at = "pre" ->
                  /\ call' = [call EXCEPT ![t] = Sent(c, store)]
                  /\ UNCHANGED store
             [] c.at = "post" ->
                  IF renewed /\ store.tokens # 0
                    THEN /\ call' = [call EXCEPT ![t] =
                                       [Sent(c, store) EXCEPT !.retried = TRUE]]
                         /\ UNCHANGED store
                    ELSE Fails(t)
             [] c.at = "renew" /\ c.kind = "prefer" -> End(t, store)
             [] c.at = "renew" /\ c.kind = "init" ->
                  IF ~renewed THEN End(t, Cleared(store))
                  ELSE IF store.identity # 0 /\ store.user = NoUser
                    THEN Enter(t, Browse(c, store), store)
                  ELSE End(t, store)
    /\ UNCHANGED <<pairs, used, revoked, closed, version, perm, left, harmed>>

(****************************************************************************)
(* What happens elsewhere                                                   *)
(****************************************************************************)

Tick ==
    /\ left.events > 0
    /\ left' = [left EXCEPT !.events = @ - 1]
    /\ pairs' = [p \in DOMAIN pairs |->
                   [pairs[p] EXCEPT !.age = IF @ = Outdated THEN @ ELSE @ + 1]]
    /\ UNCHANGED <<call, store, used, revoked, closed, version, perm, harmed>>

\* Every token of a user is revoked: a logout of all devices.
Revoke(u) ==
    /\ left.events > 0
    /\ left' = [left EXCEPT !.events = @ - 1]
    /\ harmed' = TRUE
    /\ LET all == {p \in DOMAIN pairs : pairs[p].user = u}
       IN  /\ all # {}
           /\ used' = used \cup all
           /\ revoked' = revoked \cup all
    /\ UNCHANGED <<call, store, pairs, closed, version, perm>>

\* An administrator disables or removes the account; its tokens stay.
Close(u) ==
    /\ left.events > 0 /\ u \notin closed
    /\ left' = [left EXCEPT !.events = @ - 1]
    /\ closed' = closed \cup {u}
    /\ UNCHANGED <<call, store, pairs, used, revoked, version, perm, harmed>>

Grant(u) ==
    /\ left.events > 0
    /\ left' = [left EXCEPT !.events = @ - 1]
    /\ perm' = [perm EXCEPT ![u] = @ + 1]
    /\ UNCHANGED <<call, store, pairs, used, revoked, closed, version, harmed>>

(****************************************************************************)
(* The specification                                                        *)
(****************************************************************************)

\* A page just opened, without tokens or with the pair and maybe the permission
\* state that were persisted, or a page with a session, its pair of any age.
Init ==
    /\ call = [t \in Calls \cup {Renewal} |-> Idle]
    /\ \E age \in Fresh..Outdated, tokens \in 0..1, opened, permitted \in BOOLEAN :
         LET u == CHOOSE u \in Users : TRUE
             signed == tokens = 1 /\ opened
         IN  /\ pairs = IF tokens = 0 THEN <<>>
                        ELSE <<[user |-> u, version |-> 0, perm |-> 0, age |-> age]>>
             /\ store = [tokens |-> tokens, identity |-> IF signed THEN 1 ELSE 0,
                         user |-> IF signed THEN u ELSE NoUser,
                         perms |-> IF tokens = 1 /\ permitted
                                     THEN [user |-> u, perm |-> 0] ELSE NoPerms,
                         refreshing |-> FALSE, initialized |-> opened,
                         epoch |-> 0, crossed |-> FALSE]
    /\ used = {} /\ revoked = {} /\ closed = {}
    /\ version = [u \in Users |-> 0]
    /\ perm = [u \in Users |-> 0]
    /\ left = [calls |-> MaxCalls, events |-> MaxEvents]
    /\ harmed = FALSE

Work(t) == Serve(t) \/ Deliver(t) \/ Resume(t)

Renew == Serve(Renewal) \/ DeliverRefresh

Next ==
    \/ \E t \in Calls : Begin(t) \/ Work(t) \/ Lose(t)
    \/ Renew \/ Lose(Renewal)
    \/ Tick
    \/ \E u \in Users : Revoke(u) \/ Close(u) \/ Grant(u)

Spec == Init /\ [][Next]_vars

\* Every request is answered or lost, and what a reply causes is run.
FairSpec == Spec /\ WF_vars(Renew) /\ \A t \in Calls : WF_vars(Work(t))

(****************************************************************************)
(* Properties                                                               *)
(****************************************************************************)

\* The calls and the store keep their types, and the store counts as refreshing
\* only while a refresh is under way.
TypeOK ==
    /\ \A t \in Calls \cup {Renewal} :
         /\ call[t].at \in {"idle", "sent", "served"} \cup Waits
         /\ call[t].kind \in AllKinds \cup {"none", "refresh"}
         /\ {call[t].pair, call[t].arg, call[t].before} \subseteq 0..Len(pairs)
         /\ call[t].user \in Users \cup {NoUser}
    /\ {store.tokens, store.identity} \subseteq 0..Len(pairs)
    /\ store.user \in Users \cup {NoUser}
    /\ store.perms.user \in Users \cup {NoUser}
    /\ store.refreshing => InFlight
    /\ used \cup revoked \subseteq 1..Len(pairs) /\ closed \subseteq Users

\* Tokens, identity, profile and permission state are of one user, and there
\* are none without tokens, at every moment of every renewal, login, switch
\* and logout, until a reply to a call of a session that has ended is written.
SessionAgrees ==
    ~store.crossed =>
        /\ store.identity = store.tokens \/ (store.identity = 0 /\ ~store.initialized)
        /\ \A u \in {store.user, store.perms.user} \ {NoUser} :
             store.tokens # 0 /\ pairs[store.tokens].user = u

\* However many calls find the pair over at once, they do not end the session:
\* the tokens are given up only by a login, a logout, or after a lost message, a
\* revocation, or the refusal of a refresh token that was never used, because it
\* was too old or its user's account closed.
SessionSurvives ==
    [][store.tokens # 0 /\ store'.tokens = 0 =>
         \/ harmed'
         \/ \E t \in Calls :
              \/ call[t].kind = "logout" /\ call'[t] = Idle
              \/ call[t] = Idle /\ call'[t].kind = "login"]_vars

\* A refresh whose own call waits for the refresh.
WaitsForItself == call[Renewal].at \in Waits

\* Every call ends, whatever is lost, refused or revoked and whoever it waits
\* for, unless the refresh waits for itself.
CallsEnd ==
    \A t \in Calls : call[t].at # "idle" ~> call[t].at = "idle" \/ WaitsForItself

=============================================================================
