------------------------- MODULE AuthSessionProofs -------------------------
(* What the runs of AuthSession check of every state and of every step, for  *)
(* any number of calls, users and refreshes.                                 *)
EXTENDS AuthSession, TLAPS

----------------------------------------------------------------------------
(* Types *)

Rpcs == {"none", "Api", "Login", "Logout", "SwitchCompanyScope", "GetPermissionState",
         "UpdateById", "RefreshTokens", "Browse"}
Codes == {"none", "ok", "unauth", "error"}

PairRecord == [user : Users, version : Nat, perm : Nat, age : Fresh .. Outdated]

ReplyRecord(n) == [code : Codes, pair : 0 .. n, user : Users \cup {NoUser}, perm : Nat]

CallRecord(n) ==
    [kind : AllKinds \cup {"none", "refresh"}, rpc : Rpcs,
     at : {"idle", "sent", "served"} \cup Waits, pair : 0 .. n, arg : 0 .. n,
     user : Users \cup {NoUser}, retried : BOOLEAN, epoch : Nat, before : 0 .. n,
     profile : BOOLEAN, perms : BOOLEAN, reply : ReplyRecord(n)]

StoreRecord(n) ==
    [tokens : 0 .. n, identity : 0 .. n, user : Users \cup {NoUser},
     perms : [user : Users \cup {NoUser}, perm : Nat], refreshing : BOOLEAN,
     initialized : BOOLEAN, epoch : Nat, crossed : BOOLEAN]

All == Calls \cup {Renewal}

\* The reply of c is a token pair on its way to the store.
Brings(c) == /\ c.at = "served" /\ c.reply.code = "ok"
             /\ c.rpc \in {"Login", "RefreshTokens", "SwitchCompanyScope"}

\* What a call is, wherever it is.
Form(t, c, n) ==
    /\ c \in CallRecord(n)
    /\ c.rpc = "RefreshTokens" => c.arg # 0
    /\ c.rpc = "Logout" => c.kind = "logout"
    /\ c.rpc = "UpdateById" => c.kind = "prefer"
    /\ t = Renewal => /\ ~c.retried
                      /\ c.rpc \in {"none", "RefreshTokens", "Browse", "GetPermissionState"}
    /\ t # Renewal => c.rpc # "RefreshTokens"

\* Where it is.
Place(t, c) ==
    /\ c.at = "idle" => c = Idle
    /\ c.at = "served" => c.reply.code # "none"
    /\ Brings(c) => c.reply.pair # 0
    /\ c.at \in Waits => c.reply = NoReply \/ c.reply.code \in {"ok", "error"}
    /\ t = Renewal /\ c.at # "idle" => c.rpc # "none"
    /\ t # Renewal /\ c.at = "renew" => c.kind \in {"init", "prefer"}

CallsOK == /\ call \in [All -> CallRecord(Len(pairs))]
           /\ \A t \in All : Form(t, call[t], Len(pairs)) /\ Place(t, call[t])

ServerOK == /\ pairs \in Seq(PairRecord)
            /\ used \subseteq 1 .. Len(pairs) /\ revoked \subseteq 1 .. Len(pairs)
            /\ version \in [Users -> Nat] /\ perm \in [Users -> Nat]
            /\ closed \subseteq Users /\ harmed \in BOOLEAN

StoreOK == /\ store \in StoreRecord(Len(pairs))
           /\ store.refreshing => InFlight

Types == CallsOK /\ ServerOK /\ StoreOK

LEMMA Names == Renewal \notin Calls /\ NoUser \notin Users /\ Users # {}
  BY NamesAssumption

LEMMA NoReplyIs ==
    ASSUME NEW n \in Nat
    PROVE  NoReply \in ReplyRecord(n) /\ NoReply.code = "none"
  BY DEF NoReply, ReplyRecord, Codes

LEMMA IdleIs ==
    ASSUME NEW n \in Nat
    PROVE  /\ Idle \in CallRecord(n)
           /\ Idle.kind = "none" /\ Idle.rpc = "none" /\ Idle.at = "idle" /\ Idle.arg = 0
           /\ Idle.epoch = 0 /\ ~Idle.retried /\ Idle.reply = NoReply
  BY NoReplyIs DEF Idle, CallRecord, Rpcs, Waits

\* The records of a call that is begun, sent, or waits.
LEMMA NewIs ==
    ASSUME NEW n \in Nat, NEW kind \in AllKinds
    PROVE  /\ New(kind) \in CallRecord(n) /\ New(kind).kind = kind /\ New(kind).rpc = "none"
           /\ New(kind).arg = 0 /\ ~New(kind).retried /\ New(kind).epoch = 0
  BY IdleIs DEF New, CallRecord

LEMMA RpcIs ==
    ASSUME NEW n \in Nat, NEW c \in CallRecord(n), NEW s \in StoreRecord(n), NEW name \in Rpcs,
           NEW r, r = Rpc(c, name, s)
    PROVE  /\ r \in CallRecord(n) /\ r.rpc = name /\ r.epoch = s.epoch /\ ~r.retried
           /\ r.kind = c.kind /\ r.arg = c.arg /\ r.user = c.user
  BY NoReplyIs DEF Rpc, CallRecord, StoreRecord

LEMMA SentIs ==
    ASSUME NEW n \in Nat, NEW c \in CallRecord(n), NEW s \in StoreRecord(n), NEW r, r = Sent(c, s)
    PROVE  /\ r \in CallRecord(n) /\ r.at = "sent" /\ r.pair = s.tokens /\ r.reply = NoReply
           /\ r.kind = c.kind /\ r.rpc = c.rpc /\ r.arg = c.arg /\ r.user = c.user
           /\ r.epoch = c.epoch /\ r.retried = c.retried
  BY NoReplyIs DEF Sent, CallRecord, StoreRecord

LEMMA WaitingIs ==
    ASSUME NEW n \in Nat, NEW c \in CallRecord(n), NEW w \in Waits, NEW r, r = Waiting(c, w)
    PROVE  /\ r \in CallRecord(n) /\ r.at = w /\ r.reply = NoReply
           /\ r.kind = c.kind /\ r.rpc = c.rpc /\ r.arg = c.arg /\ r.user = c.user
           /\ r.epoch = c.epoch /\ r.retried = c.retried
  BY NoReplyIs DEF Waiting, CallRecord

LEMMA RefreshingIs ==
    ASSUME NEW n \in Nat, NEW s \in StoreRecord(n), NEW profile \in BOOLEAN,
           NEW r, r = Refreshing(s, profile)
    PROVE  /\ r \in CallRecord(n) /\ r.kind = "refresh" /\ r.rpc = "RefreshTokens" /\ r.at = "sent"
           /\ r.arg = s.tokens /\ r.pair = s.tokens /\ r.epoch = s.epoch /\ ~r.retried
           /\ r.reply = NoReply
<1>1. PICK i : i = Rpc(Idle, "RefreshTokens", s)
  OBVIOUS
<1>2. i \in CallRecord(n) /\ i.rpc = "RefreshTokens" /\ i.epoch = s.epoch /\ ~i.retried
  <2>1. Idle \in CallRecord(n)
    BY IdleIs
  <2>2. "RefreshTokens" \in Rpcs
    BY DEF Rpcs
  <2> QED
    BY <1>1, <2>1, <2>2, RpcIs
<1>3. PICK j : j = Sent(i, s)
  OBVIOUS
<1>4. /\ j \in CallRecord(n) /\ j.at = "sent" /\ j.pair = s.tokens /\ j.reply = NoReply
      /\ j.rpc = "RefreshTokens" /\ j.epoch = s.epoch /\ ~j.retried
  BY <1>2, <1>3, SentIs
<1>5. r = [j EXCEPT !.kind = "refresh", !.arg = s.tokens, !.before = s.identity,
                    !.profile = profile]
  BY <1>1, <1>3 DEF Refreshing
<1> QED
  BY <1>4, <1>5 DEF CallRecord, StoreRecord

\* Browse and UpdateById are about a user: that of the profile shown, else of the identity.
LEMMA AboutUserIs ==
    ASSUME NEW n \in Nat, n = Len(pairs), pairs \in Seq(PairRecord),
           NEW c \in CallRecord(n), NEW s \in StoreRecord(n), NEW name \in Rpcs,
           NEW r, r = AboutUser(c, name, s), s.user # NoUser \/ s.identity # 0
    PROVE  /\ r \in CallRecord(n) /\ r.rpc = name /\ r.epoch = s.epoch /\ ~r.retried
           /\ r.kind = c.kind /\ r.arg = c.arg
           /\ r.user = IF s.user # NoUser THEN s.user ELSE pairs[s.identity].user
<1>1. PICK q : q = Rpc(c, name, s)
  OBVIOUS
<1>2. /\ q \in CallRecord(n) /\ q.rpc = name /\ q.epoch = s.epoch /\ ~q.retried
      /\ q.kind = c.kind /\ q.arg = c.arg
  BY <1>1, RpcIs
<1>3. PICK u : u = IF s.user # NoUser THEN s.user ELSE pairs[s.identity].user
  OBVIOUS
<1>4. u \in Users \cup {NoUser}
  <2>1. CASE s.user # NoUser
    BY <1>3, <2>1 DEF StoreRecord
  <2>2. CASE s.user = NoUser
    <3>1. s.identity \in 1 .. Len(pairs)
      BY <2>2 DEF StoreRecord
    <3>2. pairs[s.identity] \in PairRecord
      BY <3>1
    <3> QED
      BY <1>3, <2>2, <3>2 DEF PairRecord
  <2> QED
    BY <2>1, <2>2
<1>5. r = [q EXCEPT !.user = u]
  BY <1>1, <1>3 DEF AboutUser
<1> QED
  BY <1>2, <1>3, <1>4, <1>5 DEF CallRecord

\* What the store becomes: the pairs, the profile and the permission state that a
\* reply brings, or nothing.
LEMMA ClearedIs ==
    ASSUME NEW n \in Nat, NEW s \in StoreRecord(n), NEW r, r = Cleared(s)
    PROVE  /\ r \in StoreRecord(n)
           /\ r.tokens = 0 /\ r.identity = 0 /\ r.user = NoUser
           /\ r.perms.user = NoUser /\ ~r.refreshing
           /\ r.epoch = s.epoch + 1 /\ r.crossed = s.crossed
           /\ r.initialized = s.initialized
<1>1. NoPerms \in [user : Users \cup {NoUser}, perm : Nat] /\ NoPerms.user = NoUser
  BY DEF NoPerms
<1>2. PICK p : p = NoPerms
  OBVIOUS
<1>3. PICK e \in Nat : e = s.epoch + 1
  BY DEF StoreRecord
<1>4. PICK q : q = [s EXCEPT !.tokens = 0, !.identity = 0, !.user = NoUser]
  OBVIOUS
<1>5. /\ q \in StoreRecord(n) /\ q.tokens = 0 /\ q.identity = 0 /\ q.user = NoUser
      /\ q.initialized = s.initialized /\ q.crossed = s.crossed
  <2>1. PICK z \in 0 .. n : z = 0
    OBVIOUS
  <2>2. PICK u \in Users \cup {NoUser} : u = NoUser
    OBVIOUS
  <2>3. q = [s EXCEPT !.tokens = z, !.identity = z, !.user = u]
    BY <1>4, <2>1, <2>2
  <2>4. /\ q \in StoreRecord(n) /\ q.tokens = z /\ q.identity = z /\ q.user = u
        /\ q.initialized = s.initialized /\ q.crossed = s.crossed
    BY <2>3 DEF StoreRecord
  <2> QED
    BY <2>1, <2>2, <2>4
<1>6. r = [q EXCEPT !.perms = p, !.refreshing = FALSE, !.epoch = e]
  BY <1>2, <1>3, <1>4, <1>5 DEF Cleared, StoreRecord
<1>7. /\ r \in StoreRecord(n) /\ r.tokens = q.tokens /\ r.identity = q.identity
      /\ r.user = q.user /\ r.perms = p /\ ~r.refreshing /\ r.epoch = e
      /\ r.initialized = q.initialized /\ r.crossed = q.crossed
  BY <1>1, <1>2, <1>3, <1>5, <1>6 DEF StoreRecord
<1> QED
  BY <1>1, <1>2, <1>3, <1>5, <1>7

LEMMA LandedIs ==
    ASSUME NEW n \in Nat, NEW s \in StoreRecord(n), NEW c \in CallRecord(n)
    PROVE  /\ Landed(c, s) \in StoreRecord(n)
           /\ Landed(c, s).tokens = s.tokens /\ Landed(c, s).identity = s.identity
           /\ Landed(c, s).user = s.user /\ Landed(c, s).perms = s.perms
           /\ Landed(c, s).refreshing = s.refreshing /\ Landed(c, s).epoch = s.epoch
           /\ Landed(c, s).initialized = s.initialized
           /\ Landed(c, s).crossed <=> s.crossed \/ c.epoch # s.epoch
  BY DEF Landed, StoreRecord, CallRecord

LEMMA WithPairIs ==
    ASSUME NEW n \in Nat, NEW s \in StoreRecord(n), NEW c \in CallRecord(n), NEW r,
           r = WithPair(c, s)
    PROVE  /\ r \in StoreRecord(n)
           /\ r.tokens = c.reply.pair /\ r.identity = c.reply.pair
           /\ r.user = s.user /\ r.perms = s.perms
           /\ r.refreshing = s.refreshing /\ r.epoch = s.epoch
           /\ r.initialized = s.initialized
           /\ r.crossed <=> s.crossed \/ c.epoch # s.epoch
<1>1. PICK l : l = Landed(c, s)
  OBVIOUS
<1>2. /\ l \in StoreRecord(n) /\ l.user = s.user /\ l.perms = s.perms
      /\ l.refreshing = s.refreshing /\ l.epoch = s.epoch /\ l.initialized = s.initialized
      /\ l.crossed <=> s.crossed \/ c.epoch # s.epoch
  BY <1>1, LandedIs
<1>3. c.reply.pair \in 0 .. n
  BY DEF CallRecord, ReplyRecord
<1>4. r = [l EXCEPT !.tokens = c.reply.pair, !.identity = c.reply.pair]
  BY <1>1 DEF WithPair
<1> QED
  BY <1>2, <1>3, <1>4 DEF StoreRecord

LEMMA WithUserIs ==
    ASSUME NEW n \in Nat, NEW s \in StoreRecord(n), NEW c \in CallRecord(n), NEW r,
           r = WithUser(c, s)
    PROVE  /\ r \in StoreRecord(n)
           /\ r.tokens = s.tokens /\ r.identity = s.identity
           /\ r.user = c.reply.user /\ r.perms = s.perms
           /\ r.refreshing = s.refreshing /\ r.epoch = s.epoch
           /\ r.initialized = s.initialized
           /\ r.crossed <=> s.crossed \/ c.epoch # s.epoch
<1>1. PICK l : l = Landed(c, s)
  OBVIOUS
<1>2. /\ l \in StoreRecord(n) /\ l.tokens = s.tokens /\ l.identity = s.identity
      /\ l.perms = s.perms
      /\ l.refreshing = s.refreshing /\ l.epoch = s.epoch /\ l.initialized = s.initialized
      /\ l.crossed <=> s.crossed \/ c.epoch # s.epoch
  BY <1>1, LandedIs
<1>3. c.reply.user \in Users \cup {NoUser}
  BY DEF CallRecord, ReplyRecord
<1>4. r = [l EXCEPT !.user = c.reply.user]
  BY <1>1 DEF WithUser
<1> QED
  BY <1>2, <1>3, <1>4 DEF StoreRecord

LEMMA WithPermsIs ==
    ASSUME NEW n \in Nat, NEW s \in StoreRecord(n), NEW c \in CallRecord(n), NEW r,
           r = WithPerms(c, s)
    PROVE  /\ r \in StoreRecord(n)
           /\ r.tokens = s.tokens /\ r.identity = s.identity
           /\ r.user = s.user /\ r.perms.user = c.reply.user
           /\ r.refreshing = s.refreshing /\ r.epoch = s.epoch
           /\ r.initialized = s.initialized
           /\ r.crossed <=> s.crossed \/ c.epoch # s.epoch
<1>1. PICK l : l = Landed(c, s)
  OBVIOUS
<1>2. /\ l \in StoreRecord(n) /\ l.tokens = s.tokens /\ l.identity = s.identity
      /\ l.user = s.user
      /\ l.refreshing = s.refreshing /\ l.epoch = s.epoch /\ l.initialized = s.initialized
      /\ l.crossed <=> s.crossed \/ c.epoch # s.epoch
  BY <1>1, LandedIs
<1>3. PICK p : p = [user |-> c.reply.user, perm |-> c.reply.perm]
  OBVIOUS
<1>4. p \in [user : Users \cup {NoUser}, perm : Nat] /\ p.user = c.reply.user
  BY <1>3 DEF CallRecord, ReplyRecord
<1>5. r = [l EXCEPT !.perms = p]
  BY <1>1, <1>3 DEF WithPerms
<1> QED
  BY <1>2, <1>4, <1>5 DEF StoreRecord

\* With tokens but no permission state; initialized; with its identity restored.
LEMMA StoreFields ==
    ASSUME NEW n \in Nat, NEW s \in StoreRecord(n), NEW b \in BOOLEAN
    PROVE  /\ [s EXCEPT !.perms = NoPerms] \in StoreRecord(n)
           /\ [s EXCEPT !.initialized = b] \in StoreRecord(n)
           /\ [s EXCEPT !.refreshing = b] \in StoreRecord(n)
           /\ [s EXCEPT !.identity = s.tokens] \in StoreRecord(n)
<1>1. NoPerms \in [user : Users \cup {NoUser}, perm : Nat]
  BY DEF NoPerms
<1> QED
  BY <1>1 DEF StoreRecord

\* The forms of a step: one call moves on, one waits for a new refresh.
Put(t, c, s) == call' = [call EXCEPT ![t] = c] /\ store' = s
PutBoth(t, c, s, profile) ==
    /\ call' = [call EXCEPT ![t] = c, ![Renewal] = Refreshing(s, profile)]
    /\ store' = [s EXCEPT !.refreshing = TRUE]

server == <<pairs, used, revoked, closed, version, perm, harmed>>

LEMMA AwaitForms ==
    ASSUME NEW t, NEW c, NEW s, NEW profile, Await(t, c, s, profile)
    PROVE  \/ InFlight /\ Put(t, c, s)
           \/ ~InFlight /\ PutBoth(t, c, s, profile)
  BY DEF Await, Put, PutBoth

LEMMA EnterForms ==
    ASSUME NEW t, NEW c, NEW s, Enter(t, c, s)
    PROVE  \/ Put(t, Sent(c, s), s)
           \/ InFlight /\ Put(t, Waiting(c, "pre"), s)
           \/ ~InFlight /\ s.tokens # 0 /\ PutBoth(t, Waiting(c, "pre"), s, FALSE)
  BY AwaitForms DEF Enter, Due, Put

LEMMA PutIs ==
    ASSUME Types, NEW t \in All, NEW c, NEW s, Put(t, c, s)
    PROVE  /\ store' = s
           /\ \A o \in All : call'[o] = IF o = t THEN c ELSE call[o]
           /\ c \in CallRecord(Len(pairs)) => call' \in [All -> CallRecord(Len(pairs))]
  BY DEF Put, Types, CallsOK

LEMMA PutBothIs ==
    ASSUME Types, NEW t \in Calls, NEW c, NEW s, NEW profile, PutBoth(t, c, s, profile)
    PROVE  /\ store' = [s EXCEPT !.refreshing = TRUE]
           /\ \A o \in All : call'[o] = IF o = Renewal THEN Refreshing(s, profile)
                                        ELSE IF o = t THEN c ELSE call[o]
           /\ c \in CallRecord(Len(pairs))
              /\ Refreshing(s, profile) \in CallRecord(Len(pairs)) =>
                    call' \in [All -> CallRecord(Len(pairs))]
<1>1. PICK r : r = Refreshing(s, profile)
  OBVIOUS
<1>2. call' = [call EXCEPT ![t] = c, ![Renewal] = r]
  BY <1>1 DEF PutBoth
<1>3. call \in [All -> CallRecord(Len(pairs))] /\ t \in All /\ Renewal \in All /\ t # Renewal
  BY Names DEF Types, CallsOK, All
<1>4. /\ \A o \in All : call'[o] = IF o = Renewal THEN r ELSE IF o = t THEN c ELSE call[o]
      /\ c \in CallRecord(Len(pairs)) /\ r \in CallRecord(Len(pairs)) =>
            call' \in [All -> CallRecord(Len(pairs))]
  BY <1>2, <1>3
<1> QED
  BY <1>1, <1>4 DEF PutBoth

LEMMA PairsIs ==
    ASSUME Types
    PROVE  /\ Len(pairs) \in Nat /\ pairs \in Seq(PairRecord)
           /\ \A p \in 1 .. Len(pairs) : pairs[p] \in PairRecord /\ pairs[p].user \in Users
<1>1. pairs \in Seq(PairRecord)
  BY DEF Types, ServerOK
<1>2. Len(pairs) \in Nat /\ \A p \in 1 .. Len(pairs) : pairs[p] \in PairRecord
  BY <1>1
<1> QED
  BY <1>1, <1>2 DEF PairRecord

LEMMA PutTypes ==
    ASSUME Types, NEW t \in All, NEW c, NEW s \in StoreRecord(Len(pairs)),
           Form(t, c, Len(pairs)), Place(t, c), Put(t, c, s), UNCHANGED server,
           s.refreshing => IF t = Renewal THEN c.at # "idle" ELSE InFlight
    PROVE  Types'
<1>1. /\ UNCHANGED pairs /\ store' = s
      /\ \A o \in All : call'[o] = IF o = t THEN c ELSE call[o]
      /\ call' \in [All -> CallRecord(Len(pairs))]
  BY PutIs DEF server, Form
<1>2. CallsOK'
  BY <1>1 DEF Types, CallsOK
<1>3. StoreOK'
  BY <1>1 DEF StoreOK, InFlight, All
<1>4. ServerOK'
  BY DEF Types, ServerOK, server
<1> QED
  BY <1>2, <1>3, <1>4 DEF Types

LEMMA PutBothTypes ==
    ASSUME Types, NEW t \in Calls, NEW c, NEW s \in StoreRecord(Len(pairs)), NEW profile \in BOOLEAN,
           Form(t, c, Len(pairs)), Place(t, c), PutBoth(t, c, s, profile), UNCHANGED server,
           s.tokens # 0
    PROVE  Types'
<1>1. PICK r : r = Refreshing(s, profile)
  OBVIOUS
<1>2. /\ r \in CallRecord(Len(pairs)) /\ r.kind = "refresh" /\ r.rpc = "RefreshTokens"
      /\ r.at = "sent" /\ r.arg = s.tokens /\ ~r.retried
  BY <1>1, RefreshingIs, PairsIs
<1>3. /\ \A o \in All : call'[o] = IF o = Renewal THEN r ELSE IF o = t THEN c ELSE call[o]
      /\ call' \in [All -> CallRecord(Len(pairs))]
  BY <1>1, <1>2, PutBothIs DEF Form
<1>4. UNCHANGED pairs
  BY DEF server
<1>5. Form(Renewal, r, Len(pairs)) /\ Place(Renewal, r)
  BY <1>2 DEF Form, Place, Brings, Waits
<1>6. CallsOK'
  BY <1>3, <1>4, <1>5 DEF Types, CallsOK
<1>7. StoreOK'
  <2>1. store' \in StoreRecord(Len(pairs))
    <3>1. [s EXCEPT !.refreshing = TRUE] \in StoreRecord(Len(pairs))
      BY StoreFields, PairsIs
    <3> QED
      BY <3>1, PutBothIs
  <2>2. InFlight'
    BY <1>2, <1>3 DEF InFlight, All
  <2> QED
    BY <1>4, <2>1, <2>2 DEF StoreOK
<1>8. ServerOK'
  BY DEF Types, ServerOK, server
<1> QED
  BY <1>6, <1>7, <1>8 DEF Types

\* A call before its request is sent.
LEMMA EnterTypes ==
    ASSUME Types, NEW t \in All, NEW c, NEW s \in StoreRecord(Len(pairs)),
           Form(t, c, Len(pairs)), Enter(t, c, s), UNCHANGED server,
           s.refreshing => InFlight, t = Renewal => InFlight /\ c.rpc # "none"
    PROVE  Types'
<1>1. c \in CallRecord(Len(pairs)) /\ Len(pairs) \in Nat /\ "pre" \in Waits
  BY PairsIs DEF Form, Waits
<1>2. PICK q, w : q = Sent(c, s) /\ w = Waiting(c, "pre")
  OBVIOUS
<1>3. /\ q \in CallRecord(Len(pairs)) /\ q.at = "sent" /\ q.rpc = c.rpc /\ q.arg = c.arg
      /\ q.kind = c.kind /\ q.retried = c.retried
  BY <1>1, <1>2, SentIs
<1>4. /\ w \in CallRecord(Len(pairs)) /\ w.at = "pre" /\ w.rpc = c.rpc /\ w.arg = c.arg
      /\ w.kind = c.kind /\ w.retried = c.retried /\ w.reply = NoReply
  BY <1>1, <1>2, WaitingIs
<1>5. Form(t, q, Len(pairs)) /\ Place(t, q)
  BY <1>3 DEF Form, Place, Brings, Waits
<1>6. Form(t, w, Len(pairs)) /\ Place(t, w)
  BY <1>4 DEF Form, Place, Brings, Waits
<1>7. CASE Put(t, q, s)
  BY <1>3, <1>5, <1>7, PutTypes
<1>8. CASE InFlight /\ Put(t, w, s)
  BY <1>4, <1>6, <1>8, PutTypes
<1>9. CASE ~InFlight /\ s.tokens # 0 /\ PutBoth(t, w, s, FALSE)
  <2>1. t \in Calls
    BY <1>9 DEF All
  <2> QED
    BY <1>6, <1>9, <2>1, PutBothTypes
<1> QED
  BY <1>2, <1>7, <1>8, <1>9, EnterForms

\* A call that waits for the refresh under way, or a new one.
LEMMA AwaitTypes ==
    ASSUME Types, NEW t \in All, NEW c, NEW s \in StoreRecord(Len(pairs)), NEW profile \in BOOLEAN,
           Form(t, c, Len(pairs)), Place(t, c), c.at # "idle", Await(t, c, s, profile),
           UNCHANGED server, s.refreshing => InFlight, t = Renewal => InFlight,
           InFlight \/ s.tokens # 0
    PROVE  Types'
<1>1. CASE InFlight /\ Put(t, c, s)
  BY <1>1, PutTypes
<1>2. CASE ~InFlight /\ PutBoth(t, c, s, profile)
  <2>1. t \in Calls
    BY <1>2 DEF All
  <2> QED
    BY <1>2, <2>1, PutBothTypes
<1> QED
  BY <1>1, <1>2, AwaitForms

LEMMA EndTypes ==
    ASSUME Types, NEW t \in Calls, NEW s \in StoreRecord(Len(pairs)), End(t, s), UNCHANGED server,
           s.refreshing => InFlight
    PROVE  Types'
<1>1. PICK b \in BOOLEAN : b = (s.initialized \/ call[t].kind = "init")
  OBVIOUS
<1>2. PICK q : q = [s EXCEPT !.initialized = b]
  OBVIOUS
<1>3. q \in StoreRecord(Len(pairs)) /\ q.refreshing = s.refreshing
  BY <1>2, PairsIs DEF StoreRecord
<1>4. Put(t, Idle, q)
  BY <1>1, <1>2 DEF End, Put
<1>5. Form(t, Idle, Len(pairs)) /\ Place(t, Idle)
  BY IdleIs, PairsIs, Names DEF Form, Place, Brings, Waits
<1> QED
  BY <1>3, <1>4, <1>5, PutTypes, Names DEF All

\* A call that waited hears how the refresh ended.
Heard(c, code) == [c EXCEPT !.reply.code = code]

LEMMA HeardIs ==
    ASSUME NEW n \in Nat, NEW c \in CallRecord(n), NEW code \in {"ok", "error"}, NEW r,
           r = Heard(c, code)
    PROVE  /\ r \in CallRecord(n) /\ r.reply.code = code
           /\ r.kind = c.kind /\ r.rpc = c.rpc /\ r.at = c.at /\ r.arg = c.arg
           /\ r.pair = c.pair /\ r.user = c.user /\ r.retried = c.retried /\ r.epoch = c.epoch
<1>1. PICK q : q = [c.reply EXCEPT !.code = code]
  OBVIOUS
<1>2. c.reply \in ReplyRecord(n)
  BY DEF CallRecord
<1>3. q \in ReplyRecord(n) /\ q.code = code
  BY <1>1, <1>2 DEF ReplyRecord, Codes
<1>4. r = [c EXCEPT !.reply = q]
  BY <1>1, <1>2 DEF Heard, CallRecord
<1> QED
  BY <1>3, <1>4 DEF CallRecord

LEMMA SettleIs ==
    ASSUME Types, NEW code, NEW s, Settle(code, s)
    PROVE  /\ store' = [s EXCEPT !.refreshing = FALSE]
           /\ call'[Renewal] = Idle
           /\ \A o \in Calls :
                 call'[o] = IF call[o].at \in Waits /\ call[o].reply = NoReply
                              THEN Heard(call[o], code) ELSE call[o]
<1>1. DOMAIN call = All /\ Renewal \notin Calls
  BY Names DEF Types, CallsOK
<1> QED
  BY <1>1 DEF Settle, Heard, All

LEMMA SettleTypes ==
    ASSUME Types, NEW code \in {"ok", "error"}, NEW s \in StoreRecord(Len(pairs)),
           Settle(code, s), UNCHANGED server
    PROVE  Types'
<1>1. UNCHANGED pairs
  BY DEF server
<1>2. /\ Len(pairs) \in Nat /\ Idle \in CallRecord(Len(pairs))
      /\ \A o \in All : call[o] \in CallRecord(Len(pairs))
  BY PairsIs, IdleIs DEF Types, CallsOK
<1>3. ASSUME NEW o \in All
      PROVE  Form(o, call'[o], Len(pairs)) /\ Place(o, call'[o])
  <2>1. CASE o = Renewal
    <3>1. call'[o] = Idle
      BY <2>1, SettleIs
    <3>2. Form(o, Idle, Len(pairs)) /\ Place(o, Idle)
      BY <1>2, IdleIs DEF Form, Place, Brings, Waits
    <3> QED
      BY <3>1, <3>2
  <2>2. CASE o # Renewal /\ call[o].at \in Waits /\ call[o].reply = NoReply
    <3>1. PICK r : r = Heard(call[o], code)
      OBVIOUS
    <3>2. /\ r \in CallRecord(Len(pairs)) /\ r.reply.code = code
          /\ r.kind = call[o].kind /\ r.rpc = call[o].rpc /\ r.at = call[o].at
          /\ r.arg = call[o].arg /\ r.retried = call[o].retried
      BY <1>2, <3>1, HeardIs
    <3>3. call'[o] = r
      BY <2>2, <3>1, SettleIs DEF All
    <3>4. Form(o, call[o], Len(pairs)) /\ Place(o, call[o])
      BY DEF Types, CallsOK
    <3>5. Form(o, r, Len(pairs))
      BY <2>2, <3>2, <3>4 DEF Form
    <3>6. Place(o, r)
      BY <2>2, <3>2, <3>4 DEF Place, Brings, Waits
    <3> QED
      BY <3>3, <3>5, <3>6
  <2>3. CASE o # Renewal /\ ~(call[o].at \in Waits /\ call[o].reply = NoReply)
    <3>1. call'[o] = call[o]
      BY <2>3, SettleIs DEF All
    <3> QED
      BY <3>1 DEF Types, CallsOK
  <2> QED
    BY <2>1, <2>2, <2>3
<1>4. call' \in [All -> CallRecord(Len(pairs))]
  <2>1. DOMAIN call = All
    BY DEF Types, CallsOK
  <2>2. call' = [t \in All |-> call'[t]]
    BY <2>1 DEF Settle
  <2>3. \A t \in All : call'[t] \in CallRecord(Len(pairs))
    BY <1>3 DEF Form
  <2> QED
    BY <2>2, <2>3
<1>5. CallsOK'
  BY <1>1, <1>3, <1>4 DEF CallsOK
<1>6. StoreOK'
  <2>1. PICK q : q = [s EXCEPT !.refreshing = FALSE]
    OBVIOUS
  <2>2. q \in StoreRecord(Len(pairs)) /\ ~q.refreshing
    BY <2>1 DEF StoreRecord
  <2> QED
    BY <1>1, <2>1, <2>2, SettleIs DEF StoreOK
<1>7. ServerOK'
  BY DEF Types, ServerOK, server
<1> QED
  BY <1>5, <1>6, <1>7 DEF Types

\* The store as it is, and as it is once it is cleared.
LEMMA StoreIs ==
    ASSUME Types
    PROVE  /\ store \in StoreRecord(Len(pairs)) /\ Len(pairs) \in Nat
           /\ Cleared(store) \in StoreRecord(Len(pairs)) /\ ~Cleared(store).refreshing
           /\ store.refreshing => InFlight
<1>1. store \in StoreRecord(Len(pairs)) /\ Len(pairs) \in Nat /\ (store.refreshing => InFlight)
  BY PairsIs DEF Types, StoreOK
<1>2. PICK r : r = Cleared(store)
  OBVIOUS
<1> QED
  BY <1>1, <1>2, ClearedIs

LEMMA BeginTypes ==
    ASSUME Types, NEW t \in Calls, Begin(t)
    PROVE  Types'
<1>1. UNCHANGED server /\ t \in All /\ t # Renewal
  BY Names DEF Begin, server, All
<1>2. /\ store \in StoreRecord(Len(pairs)) /\ Len(pairs) \in Nat
      /\ Cleared(store) \in StoreRecord(Len(pairs)) /\ ~Cleared(store).refreshing
      /\ store.refreshing => InFlight
  BY StoreIs
\* A new call, its request about to be sent.
<1>3. ASSUME NEW kind \in AllKinds, NEW name \in Rpcs, NEW s \in StoreRecord(Len(pairs)), NEW r,
             r = Rpc(New(kind), name, s), name \notin {"RefreshTokens", "UpdateById"},
             name = "Logout" => kind = "logout"
      PROVE  Form(t, r, Len(pairs))
  <2>1. PICK k : k = New(kind)
    OBVIOUS
  <2>2. k \in CallRecord(Len(pairs)) /\ k.kind = kind
    BY <1>2, <2>1, NewIs
  <2>3. r \in CallRecord(Len(pairs)) /\ r.rpc = name /\ r.kind = kind
    BY <1>2, <1>3, <2>1, <2>2, RpcIs
  <2> QED
    BY <1>1, <1>3, <2>3 DEF Form
<1>4. ASSUME NEW kind \in AllKinds, NEW name \in {"Browse", "UpdateById"},
             NEW s \in StoreRecord(Len(pairs)), NEW r, r = AboutUser(New(kind), name, s),
             s.user # NoUser \/ s.identity # 0, name = "UpdateById" => kind = "prefer"
      PROVE  Form(t, r, Len(pairs))
  <2>1. PICK k : k = New(kind)
    OBVIOUS
  <2>2. k \in CallRecord(Len(pairs)) /\ k.kind = kind
    BY <1>2, <2>1, NewIs
  <2>3. name \in Rpcs
    BY DEF Rpcs
  <2>4. r \in CallRecord(Len(pairs)) /\ r.rpc = name /\ r.kind = kind
    BY <1>2, <1>4, <2>1, <2>2, <2>3, AboutUserIs, PairsIs
  <2> QED
    BY <1>1, <1>4, <2>4 DEF Form
<1>5. CASE BeginApi(t)
  <2>1. PICK r : r = Rpc(New("api"), "Api", store)
    OBVIOUS
  <2>2. Form(t, r, Len(pairs))
    BY <1>2, <1>3, <2>1 DEF AllKinds, Rpcs
  <2> QED
    BY <1>1, <1>2, <1>5, <2>1, <2>2, EnterTypes DEF BeginApi
<1>6. CASE BeginLogin(t)
  <2>1. PICK s : s = Cleared(store)
    OBVIOUS
  <2>2. PICK r : r = Rpc(New("login"), "Login", s)
    OBVIOUS
  <2>3. Form(t, r, Len(pairs))
    BY <1>2, <1>3, <2>1, <2>2 DEF AllKinds, Rpcs
  <2>4. Enter(t, r, s)
    BY <1>6, <2>1, <2>2 DEF BeginLogin
  <2> QED
    BY <1>1, <1>2, <2>1, <2>3, <2>4, EnterTypes
<1>7. CASE BeginLogout(t)
  <2>1. CASE store.tokens = 0
    <3>1. store' = Cleared(store) /\ UNCHANGED call
      BY <1>7, <2>1 DEF BeginLogout
    <3> QED
      BY <1>1, <1>2, <3>1 DEF Types, CallsOK, ServerOK, StoreOK, server
  <2>2. CASE store.tokens # 0
    <3>1. PICK r : r = Rpc(New("logout"), "Logout", store)
      OBVIOUS
    <3>2. PICK q : q = [r EXCEPT !.arg = store.tokens]
      OBVIOUS
    <3>3. Form(t, r, Len(pairs))
      BY <1>2, <1>3, <3>1 DEF AllKinds, Rpcs
    <3>4. r.rpc = "Logout"
      <4>1. PICK k : k = New("logout")
        OBVIOUS
      <4>2. k \in CallRecord(Len(pairs)) /\ "Logout" \in Rpcs
        BY <1>2, <4>1, NewIs DEF AllKinds, Rpcs
      <4> QED
        BY <1>2, <3>1, <4>1, <4>2, RpcIs
    <3>5. Form(t, q, Len(pairs))
      BY <1>1, <1>2, <3>2, <3>3, <3>4 DEF Form, CallRecord, StoreRecord
    <3>6. Enter(t, q, store)
      BY <1>7, <2>2, <3>1, <3>2 DEF BeginLogout
    <3> QED
      BY <1>1, <1>2, <3>5, <3>6, EnterTypes
  <2> QED
    BY <2>1, <2>2
<1>8. CASE BeginSwitch(t)
  <2>1. PICK r : r = Rpc(New("switch"), "SwitchCompanyScope", store)
    OBVIOUS
  <2>2. Form(t, r, Len(pairs))
    BY <1>2, <1>3, <2>1 DEF AllKinds, Rpcs
  <2> QED
    BY <1>1, <1>2, <1>8, <2>1, <2>2, EnterTypes DEF BeginSwitch
<1>9. CASE BeginPerms(t)
  <2>1. PICK r : r = Rpc(New("perms"), "GetPermissionState", store)
    OBVIOUS
  <2>2. Form(t, r, Len(pairs))
    BY <1>2, <1>3, <2>1 DEF AllKinds, Rpcs
  <2> QED
    BY <1>1, <1>2, <1>9, <2>1, <2>2, EnterTypes DEF BeginPerms
<1>10. CASE BeginPrefer(t)
  <2>1. PICK r : r = AboutUser(New("prefer"), "UpdateById", store)
    OBVIOUS
  <2>2. Form(t, r, Len(pairs))
    BY <1>2, <1>4, <1>10, <2>1 DEF AllKinds, BeginPrefer
  <2> QED
    BY <1>1, <1>2, <1>10, <2>1, <2>2, EnterTypes DEF BeginPrefer
<1>11. CASE BeginInit(t)
  <2>1. PICK s, c : s = [store EXCEPT !.identity = store.tokens] /\ c = New("init")
    OBVIOUS
  <2>2. /\ s \in StoreRecord(Len(pairs)) /\ s.identity = s.tokens
        /\ s.refreshing = store.refreshing /\ s.tokens = store.tokens
    BY <1>2, <2>1 DEF StoreRecord
  <2>3. CASE store' = [Cleared(store) EXCEPT !.initialized = TRUE] /\ UNCHANGED call
    <3>1. PICK q : q = Cleared(store)
      OBVIOUS
    <3>2. q \in StoreRecord(Len(pairs)) /\ ~q.refreshing
      BY <1>2, <3>1
    <3>3. store' \in StoreRecord(Len(pairs)) /\ ~store'.refreshing
      BY <2>3, <3>1, <3>2 DEF StoreRecord
    <3> QED
      BY <1>1, <2>3, <3>3 DEF Types, CallsOK, ServerOK, StoreOK, server
  <2>4. CASE s.tokens # 0 /\ Await(t, Waiting(c, "renew"), s, FALSE)
    <3>1. PICK w : w = Waiting(c, "renew")
      OBVIOUS
    <3>2. c \in CallRecord(Len(pairs)) /\ c.kind = "init" /\ c.rpc = "none"
      BY <1>2, <2>1, NewIs DEF AllKinds
    <3>3. /\ w \in CallRecord(Len(pairs)) /\ w.at = "renew" /\ w.reply = NoReply
          /\ w.kind = "init" /\ w.rpc = "none"
      BY <1>2, <3>1, <3>2, WaitingIs DEF Waits
    <3>4. Form(t, w, Len(pairs)) /\ Place(t, w)
      BY <1>1, <3>3 DEF Form, Place, Brings, Waits
    <3> QED
      BY <1>1, <1>2, <2>2, <2>4, <3>1, <3>3, <3>4, AwaitTypes
  <2>5. CASE store' = [s EXCEPT !.initialized = TRUE] /\ UNCHANGED call
    <3>1. store' \in StoreRecord(Len(pairs)) /\ store'.refreshing = store.refreshing
      BY <2>2, <2>5 DEF StoreRecord
    <3> QED
      BY <1>1, <1>2, <2>5, <3>1 DEF Types, CallsOK, ServerOK, StoreOK, server, InFlight
  <2>6. CASE s.tokens # 0 /\ Enter(t, Browse(c, s), s)
    <3>1. PICK r : r = AboutUser(New("init"), "Browse", s)
      OBVIOUS
    <3>2. Form(t, r, Len(pairs))
      BY <1>4, <2>2, <2>6, <3>1 DEF AllKinds
    <3>3. Enter(t, r, s)
      BY <2>1, <2>6, <3>1 DEF Browse
    <3> QED
      BY <1>1, <1>2, <2>2, <3>2, <3>3, EnterTypes
  <2> QED
    BY <1>11, <2>1, <2>2, <2>3, <2>4, <2>5, <2>6 DEF BeginInit, Due
<1> QED
  BY <1>5, <1>6, <1>7, <1>8, <1>9, <1>10, <1>11 DEF Begin

\* Pairs are issued: what was a call or the store stays one.
LEMMA Widen ==
    ASSUME NEW n \in Nat, NEW m \in Nat, n <= m
    PROVE  /\ ReplyRecord(n) \subseteq ReplyRecord(m)
           /\ CallRecord(n) \subseteq CallRecord(m) /\ StoreRecord(n) \subseteq StoreRecord(m)
           /\ \A t, c : Form(t, c, n) => Form(t, c, m)
<1>1. 0 .. n \subseteq 0 .. m
  OBVIOUS
<1>2. ReplyRecord(n) \subseteq ReplyRecord(m)
  BY <1>1 DEF ReplyRecord
<1>3. CallRecord(n) \subseteq CallRecord(m)
  BY <1>1, <1>2 DEF CallRecord
<1>4. StoreRecord(n) \subseteq StoreRecord(m)
  BY <1>1 DEF StoreRecord
<1> QED
  BY <1>2, <1>3, <1>4 DEF Form

Answer(c, reply) == [c EXCEPT !.at = "served", !.pair = 0, !.reply = reply]

LEMMA AnswerIs ==
    ASSUME NEW m \in Nat, NEW c \in CallRecord(m), NEW reply \in ReplyRecord(m), NEW r,
           r = Answer(c, reply)
    PROVE  /\ r \in CallRecord(m) /\ r.at = "served" /\ r.reply = reply
           /\ r.kind = c.kind /\ r.rpc = c.rpc /\ r.arg = c.arg /\ r.user = c.user
           /\ r.epoch = c.epoch /\ r.retried = c.retried
<1>1. PICK z \in 0 .. m : z = 0
  OBVIOUS
<1>2. r = [c EXCEPT !.at = "served", !.pair = z, !.reply = reply]
  BY <1>1 DEF Answer
<1> QED
  BY <1>2 DEF CallRecord

LEMMA AnswersIs ==
    ASSUME Types, NEW t \in All, NEW reply, Answers(t, reply)
    PROVE  /\ \A o \in All : call'[o] = IF o = t THEN Answer(call[t], reply) ELSE call[o]
           /\ DOMAIN call' = All /\ call' = [o \in All |-> call'[o]]
<1>1. call \in [All -> CallRecord(Len(pairs))]
  BY DEF Types, CallsOK
<1>2. PICK c : c = call[t]
  OBVIOUS
<1>3. c \in CallRecord(Len(pairs))
  BY <1>1, <1>2
<1>4. PICK r : r = Answer(c, reply)
  OBVIOUS
<1>5. call' = [call EXCEPT ![t] = r]
  BY <1>1, <1>2, <1>3, <1>4 DEF Answers, Answer, CallRecord
<1> QED
  BY <1>1, <1>2, <1>4, <1>5

LEMMA AnswersTypes ==
    ASSUME Types, NEW t \in All, call[t].at # "idle", NEW reply, Answers(t, reply),
           pairs' \in Seq(PairRecord), Len(pairs) <= Len(pairs'),
           reply \in ReplyRecord(Len(pairs')), reply.code # "none",
           reply.code = "ok" /\ call[t].rpc \in {"Login", "RefreshTokens", "SwitchCompanyScope"} =>
              reply.pair # 0,
           UNCHANGED store
    PROVE  CallsOK' /\ StoreOK'
<1>1. PICK n, m : n = Len(pairs) /\ m = Len(pairs')
  OBVIOUS
<1>2. n \in Nat /\ m \in Nat /\ n <= m
  BY <1>1, PairsIs
<1>3. \A o \in All : call[o] \in CallRecord(m) /\ Form(o, call[o], m) /\ Place(o, call[o])
  BY <1>1, <1>2, Widen DEF Types, CallsOK
<1>4. PICK r : r = Answer(call[t], reply)
  OBVIOUS
<1>5. /\ r \in CallRecord(m) /\ r.at = "served" /\ r.reply = reply
      /\ r.kind = call[t].kind /\ r.rpc = call[t].rpc /\ r.arg = call[t].arg
      /\ r.retried = call[t].retried
  BY <1>1, <1>2, <1>3, <1>4, AnswerIs
<1>6. Form(t, call[t], m) /\ Place(t, call[t])
  BY <1>3
<1>7. Form(t, r, m)
  BY <1>5, <1>6 DEF Form
<1>8. Place(t, r)
  BY <1>5, <1>6 DEF Place, Brings, Waits
<1>9. \A o \in All : call'[o] = IF o = t THEN r ELSE call[o]
  BY <1>4, AnswersIs
<1>10. \A o \in All : Form(o, call'[o], m) /\ Place(o, call'[o])
  BY <1>3, <1>7, <1>8, <1>9
<1>11. call' \in [All -> CallRecord(m)]
  <2>1. \A o \in All : call'[o] \in CallRecord(m)
    BY <1>10 DEF Form
  <2>2. call' = [o \in All |-> call'[o]]
    BY AnswersIs
  <2> QED
    BY <2>1, <2>2
<1>12. CallsOK'
  BY <1>1, <1>10, <1>11 DEF CallsOK
<1>13. store' \in StoreRecord(m)
  BY <1>1, <1>2, Widen DEF Types, StoreOK
<1>14. store'.refreshing => InFlight'
  BY <1>5, <1>9 DEF Types, StoreOK, InFlight, All
<1> QED
  BY <1>1, <1>12, <1>13, <1>14 DEF StoreOK

\* An answer that brings no pair.
LEMMA PlainTypes ==
    ASSUME Types, NEW t \in All, call[t].at # "idle", NEW reply \in ReplyRecord(Len(pairs)),
           Answers(t, reply), reply.code # "none", UNCHANGED <<store, pairs>>,
           reply.code = "ok" => call[t].rpc \notin {"Login", "RefreshTokens", "SwitchCompanyScope"}
    PROVE  CallsOK' /\ StoreOK'
<1>1. pairs' \in Seq(PairRecord) /\ Len(pairs) <= Len(pairs') /\ Len(pairs') = Len(pairs)
  BY PairsIs
<1> QED
  BY <1>1, AnswersTypes

LEMMA CodeIs ==
    ASSUME NEW n \in Nat, NEW code \in {"ok", "unauth", "error"}, NEW r,
           r = [NoReply EXCEPT !.code = code]
    PROVE  r \in ReplyRecord(n) /\ r.code = code
  BY DEF NoReply, ReplyRecord, Codes

LEMMA RefusesTypes ==
    ASSUME Types, NEW t \in All, call[t].at # "idle", NEW code \in {"unauth", "error"},
           Refuses(t, code), UNCHANGED store
    PROVE  CallsOK' /\ StoreOK'
<1>1. PICK r : r = [NoReply EXCEPT !.code = code]
  OBVIOUS
<1>2. r \in ReplyRecord(Len(pairs)) /\ r.code = code
  BY <1>1, CodeIs, PairsIs
<1>3. Answers(t, r) /\ UNCHANGED pairs
  BY <1>1 DEF Refuses
<1> QED
  BY <1>2, <1>3, PlainTypes

\* A pair is issued: the pairs there were stay, and the reply carries the new one.
LEMMA IssuesIs ==
    ASSUME Types, NEW t \in All, NEW u \in Users, NEW v \in Nat, Issues(t, u, v)
    PROVE  \E r : /\ Answers(t, r) /\ r \in ReplyRecord(Len(pairs) + 1) /\ r.code = "ok"
                  /\ r.pair = Len(pairs) + 1
                  /\ pairs' \in Seq(PairRecord) /\ Len(pairs') = Len(pairs) + 1
                  /\ \A p \in 1 .. Len(pairs) : pairs'[p] = pairs[p]
                  /\ pairs'[Len(pairs) + 1].user = u
<1>1. PICK n \in Nat : n = Len(pairs)
  BY PairsIs
<1>2. PICK r : r = [NoReply EXCEPT !.code = "ok", !.pair = n + 1]
  OBVIOUS
<1>3. r \in ReplyRecord(n + 1) /\ r.code = "ok" /\ r.pair = n + 1
  <2>1. PICK k \in 0 .. (n + 1) : k = n + 1
    OBVIOUS
  <2>2. NoReply \in ReplyRecord(n + 1) /\ r = [NoReply EXCEPT !.code = "ok", !.pair = k]
    BY <1>2, <2>1, NoReplyIs
  <2>3. r \in ReplyRecord(n + 1) /\ r.code = "ok" /\ r.pair = k
    BY <2>2 DEF ReplyRecord, Codes
  <2> QED
    BY <2>1, <2>3
<1>4. PICK p : p = [user |-> u, version |-> v, perm |-> perm[u], age |-> Fresh]
  OBVIOUS
<1>5. p \in PairRecord /\ p.user = u
  BY <1>4 DEF PairRecord, Types, ServerOK, Fresh, Outdated
<1>6. pairs' = Append(pairs, p) /\ Answers(t, r)
  BY <1>1, <1>2, <1>4 DEF Issues
<1>7. pairs \in Seq(PairRecord)
  BY PairsIs
<1>8. /\ pairs' \in Seq(PairRecord) /\ Len(pairs') = n + 1
      /\ \A k \in 1 .. n : pairs'[k] = pairs[k]
      /\ pairs'[n + 1] = p
  BY <1>1, <1>5, <1>6, <1>7
<1> QED
  BY <1>1, <1>3, <1>5, <1>6, <1>8

LEMMA IssuesTypes ==
    ASSUME Types, NEW t \in All, call[t].at # "idle", NEW u \in Users, NEW v \in Nat,
           Issues(t, u, v), UNCHANGED store
    PROVE  /\ CallsOK' /\ StoreOK' /\ pairs' \in Seq(PairRecord)
           /\ Len(pairs') = Len(pairs) + 1
<1>1. PICK r : /\ Answers(t, r) /\ r \in ReplyRecord(Len(pairs) + 1) /\ r.code = "ok"
               /\ r.pair = Len(pairs) + 1
               /\ pairs' \in Seq(PairRecord) /\ Len(pairs') = Len(pairs) + 1
  BY IssuesIs
<1>2. Len(pairs) \in Nat
  BY PairsIs
<1>3. Len(pairs) <= Len(pairs') /\ r.code # "none" /\ r.pair # 0
  BY <1>1, <1>2
<1>4. r \in ReplyRecord(Len(pairs'))
  BY <1>1
<1> QED
  BY <1>1, <1>3, <1>4, AnswersTypes

LEMMA ServeTypes ==
    ASSUME Types, NEW t \in All, Serve(t)
    PROVE  Types'
<1> USE PairsIs
<1>1. call[t].at = "sent" /\ UNCHANGED <<store, closed, perm>>
  BY DEF Serve
<1>h. harmed' \in BOOLEAN
  <2>1. CASE UNCHANGED harmed
    BY <2>1 DEF Types, ServerOK
  <2>2. CASE ServeRefresh(t)
    <3>1. UNCHANGED harmed \/ harmed' = (harmed \/ call[t].arg \notin used)
      BY <2>2 DEF ServeRefresh
    <3> QED
      BY <2>1, <3>1
  <2> QED
    BY <2>1, <2>2 DEF Serve
<1>2. PICK c : c = call[t]
  OBVIOUS
<1>3. c \in CallRecord(Len(pairs)) /\ Form(t, c, Len(pairs)) /\ c.at # "idle"
  BY <1>1, <1>2 DEF Types, CallsOK
<1>4. /\ used \subseteq 1 .. Len(pairs) /\ revoked \subseteq 1 .. Len(pairs)
      /\ version \in [Users -> Nat] /\ perm' \in [Users -> Nat]
      /\ closed' \subseteq Users /\ harmed' \in BOOLEAN
  BY <1>1, <1>h DEF Types, ServerOK
\* The server's side of an answer with no pair, and of one with a pair.
<1>5. ASSUME UNCHANGED pairs, used' \subseteq 1 .. Len(pairs), revoked' \subseteq 1 .. Len(pairs),
             version' \in [Users -> Nat], CallsOK', StoreOK'
      PROVE  Types'
  BY <1>4, <1>5 DEF Types, ServerOK
<1>6. ASSUME NEW u \in Users, NEW v \in Nat, Issues(t, u, v), used' \subseteq 1 .. Len(pairs),
             revoked' \subseteq 1 .. Len(pairs), version' \in [Users -> Nat]
      PROVE  Types'
  <2>1. CallsOK' /\ StoreOK' /\ pairs' \in Seq(PairRecord) /\ Len(pairs') = Len(pairs) + 1
    BY <1>1, <1>2, <1>3, <1>6, IssuesTypes
  <2>2. used' \subseteq 1 .. Len(pairs') /\ revoked' \subseteq 1 .. Len(pairs')
    BY <1>6, <2>1
  <2> QED
    BY <1>4, <1>6, <2>1, <2>2 DEF Types, ServerOK
<1>7. ASSUME NEW code \in {"unauth", "error"}, Refuses(t, code)
      PROVE  Types'
  <2>1. UNCHANGED <<pairs, used, revoked, version>>
    BY <1>7 DEF Refuses
  <2>2. CallsOK' /\ StoreOK'
    BY <1>1, <1>2, <1>3, <1>7, RefusesTypes
  <2> QED
    BY <1>4, <1>5, <2>1, <2>2
<1>8. PICK k : k = [NoReply EXCEPT !.code = "ok"]
  OBVIOUS
<1>9. k \in ReplyRecord(Len(pairs)) /\ k.code = "ok"
  BY <1>8, CodeIs
<1>10. CASE c.rpc = "Login" /\ ServeLogin(t)
  <2>1. ASSUME NEW code \in {"unauth", "error"}, Refuses(t, code)
        PROVE  Types'
    BY <1>7, <2>1
  <2>2. ASSUME NEW u \in Users, Issues(t, u, version[u]), UNCHANGED <<used, revoked>>,
               version' = [version EXCEPT ![u] = @ + 1]
        PROVE  Types'
    <3>1. version[u] \in Nat /\ version' \in [Users -> Nat]
      BY <1>4, <2>2
    <3> QED
      BY <1>4, <1>6, <2>2, <3>1
  <2> QED
    BY <1>10, <2>1, <2>2 DEF ServeLogin
<1>11. CASE c.rpc = "RefreshTokens" /\ ServeRefresh(t)
  <2>1. c.arg \in 1 .. Len(pairs)
    BY <1>3, <1>11 DEF Form, CallRecord
  <2>2. pairs[c.arg].user \in Users
    BY <2>1
  <2>3. CASE Refuses(t, "error")
    BY <1>7, <2>3
  <2>4. CASE /\ Issues(t, pairs[c.arg].user, version[pairs[c.arg].user])
             /\ used' = used \cup {c.arg} /\ UNCHANGED <<revoked, version>>
    <3>1. version[pairs[c.arg].user] \in Nat /\ used' \subseteq 1 .. Len(pairs)
      BY <1>4, <2>1, <2>2, <2>4
    <3> QED
      BY <1>4, <1>6, <2>2, <2>4, <3>1
  <2> QED
    BY <1>2, <1>11, <2>3, <2>4 DEF ServeRefresh
<1>12. CASE Refuses(t, "unauth")
  BY <1>7, <1>12
<1>13. CASE Accepts(c.pair) /\ c.rpc = "Logout" /\ ServeLogout(t)
  <2>1. CASE Refuses(t, "error")
    BY <1>7, <2>1
  <2>2. CASE /\ Accepts(c.arg) /\ Answers(t, k) /\ revoked' = revoked \cup {c.arg}
             /\ UNCHANGED <<pairs, used, version>>
    <3>1. c.arg \in 1 .. Len(pairs)
      BY <1>3, <2>2 DEF Accepts, CallRecord
    <3>2. revoked' \subseteq 1 .. Len(pairs)
      BY <1>4, <2>2, <3>1
    <3>3. CallsOK' /\ StoreOK'
      BY <1>1, <1>2, <1>3, <1>9, <1>13, <2>2, PlainTypes
    <3> QED
      BY <1>4, <1>5, <2>2, <3>2, <3>3
  <2> QED
    BY <1>2, <1>8, <1>13, <2>1, <2>2 DEF ServeLogout
<1>14. CASE Accepts(c.pair) /\ c.rpc \in {"UpdateById", "SwitchCompanyScope"} /\ ServeWrite(t)
  <2>1. PICK u : u = IF c.rpc = "UpdateById" THEN c.user ELSE pairs[c.pair].user
    OBVIOUS
  <2>2. /\ version' = [version EXCEPT ![u] = version[u] + 1]
        /\ IF c.rpc = "SwitchCompanyScope" THEN Issues(t, u, version[u] + 1)
                                           ELSE Answers(t, k) /\ UNCHANGED pairs
        /\ UNCHANGED <<used, revoked>>
    BY <1>2, <1>8, <1>14, <2>1 DEF ServeWrite
  <2>3. version' \in [Users -> Nat]
    <3>1. CASE u \in Users
      <4>1. version[u] + 1 \in Nat
        BY <1>4, <3>1
      <4> QED
        BY <1>4, <2>2, <4>1
    <3>2. CASE u \notin Users
      BY <1>4, <2>2, <3>2
    <3> QED
      BY <3>1, <3>2
  <2>4. CASE c.rpc = "SwitchCompanyScope"
    <3>1. c.pair \in 1 .. Len(pairs)
      BY <1>3, <1>14 DEF Accepts, CallRecord
    <3>2. u \in Users
      BY <2>1, <2>4, <3>1
    <3>3. version[u] + 1 \in Nat
      BY <1>4, <3>2
    <3> QED
      BY <1>4, <1>6, <2>2, <2>3, <2>4, <3>2, <3>3
  <2>5. CASE c.rpc # "SwitchCompanyScope"
    <3>1. Answers(t, k) /\ UNCHANGED pairs
      BY <2>2, <2>5
    <3>2. CallsOK' /\ StoreOK'
      BY <1>1, <1>2, <1>3, <1>9, <1>14, <2>5, <3>1, PlainTypes
    <3> QED
      BY <1>4, <1>5, <2>2, <2>3, <3>1, <3>2
  <2> QED
    BY <2>4, <2>5
<1>15. CASE /\ Accepts(c.pair) /\ c.rpc \in {"Api", "Browse", "GetPermissionState"}
            /\ ServeRead(t)
  <2>1. UNCHANGED <<pairs, used, revoked, version>>
    BY <1>15 DEF ServeRead
  <2>2. \E r : Answers(t, r) /\ r \in ReplyRecord(Len(pairs)) /\ r.code = "ok"
    <3>1. CASE c.rpc = "Api"
      BY <1>2, <1>8, <1>9, <1>15, <3>1 DEF ServeRead
    <3>2. CASE c.rpc = "Browse"
      <4>1. PICK r : r = [k EXCEPT !.user = c.user]
        OBVIOUS
      <4>2. r \in ReplyRecord(Len(pairs)) /\ r.code = "ok"
        BY <1>3, <1>9, <4>1 DEF ReplyRecord, CallRecord
      <4> QED
        BY <1>2, <1>8, <1>15, <3>2, <4>1, <4>2 DEF ServeRead
    <3>3. CASE c.rpc = "GetPermissionState"
      <4>1. c.pair \in 1 .. Len(pairs)
        BY <1>3, <1>15 DEF Accepts, CallRecord
      <4>2. PICK u \in Users : u = pairs[c.pair].user
        BY <4>1
      <4>3. PICK p \in Nat : p = perm[u]
        BY DEF Types, ServerOK
      <4>4. PICK r : r = [k EXCEPT !.user = u, !.perm = p]
        OBVIOUS
      <4>5. r \in ReplyRecord(Len(pairs)) /\ r.code = "ok"
        BY <1>9, <4>4 DEF ReplyRecord
      <4> QED
        BY <1>2, <1>8, <1>15, <3>3, <4>2, <4>3, <4>4, <4>5 DEF ServeRead
    <3> QED
      BY <1>15, <3>1, <3>2, <3>3
  <2>3. CallsOK' /\ StoreOK'
    BY <1>1, <1>2, <1>3, <1>15, <2>1, <2>2, PlainTypes
  <2> QED
    BY <1>4, <1>5, <2>1, <2>3
<1> QED
  BY <1>2, <1>10, <1>11, <1>12, <1>13, <1>14, <1>15 DEF Serve

LEMMA LoseTypes ==
    ASSUME Types, NEW t \in All, Lose(t)
    PROVE  Types'
<1>1. PICK r : r = [NoReply EXCEPT !.code = "error"]
  OBVIOUS
<1>2. r \in ReplyRecord(Len(pairs)) /\ r.code = "error"
  BY <1>1, CodeIs, PairsIs
<1>3. /\ Answers(t, r) /\ call[t].at # "idle" /\ harmed' = TRUE
      /\ UNCHANGED <<store, pairs, used, revoked, closed, version, perm>>
  BY <1>1 DEF Lose
<1>4. CallsOK' /\ StoreOK'
  BY <1>2, <1>3, PlainTypes
<1>5. ServerOK'
  BY <1>3 DEF Types, ServerOK
<1> QED
  BY <1>4, <1>5 DEF Types

\* The next request of a call.
LEMMA NextRpc ==
    ASSUME Types, NEW t \in All, NEW c, Form(t, c, Len(pairs)), NEW s \in StoreRecord(Len(pairs)),
           NEW r, \/ r = Rpc(c, "GetPermissionState", s)
                  \/ r = Browse(c, s) /\ (s.user # NoUser \/ s.identity # 0)
    PROVE  /\ Form(t, r, Len(pairs)) /\ r.rpc \in {"GetPermissionState", "Browse"}
           /\ r.epoch = s.epoch /\ r.kind = c.kind /\ r.arg = c.arg
           /\ r.rpc = "Browse" =>
                 r.user = IF s.user # NoUser THEN s.user ELSE pairs[s.identity].user
           /\ r.rpc = "Browse" => s.user # NoUser \/ s.identity # 0
<1>1. c \in CallRecord(Len(pairs)) /\ "GetPermissionState" \in Rpcs /\ "Browse" \in Rpcs
  BY DEF Form, Rpcs
<1>2. CASE r = Rpc(c, "GetPermissionState", s)
  <2>1. /\ r \in CallRecord(Len(pairs)) /\ r.rpc = "GetPermissionState" /\ ~r.retried
        /\ r.epoch = s.epoch /\ r.kind = c.kind /\ r.arg = c.arg
    BY <1>1, <1>2, RpcIs, PairsIs
  <2> QED
    BY <2>1 DEF Form
<1>3. CASE r = Browse(c, s) /\ (s.user # NoUser \/ s.identity # 0)
  <2>1. r = AboutUser(c, "Browse", s)
    BY <1>3 DEF Browse
  <2>2. /\ r \in CallRecord(Len(pairs)) /\ r.rpc = "Browse" /\ ~r.retried
        /\ r.epoch = s.epoch /\ r.kind = c.kind /\ r.arg = c.arg
        /\ r.user = IF s.user # NoUser THEN s.user ELSE pairs[s.identity].user
    BY <1>1, <1>3, <2>1, AboutUserIs, PairsIs
  <2> QED
    BY <1>3, <2>2 DEF Form
<1> QED
  BY <1>2, <1>3

LEMMA FailsTypes ==
    ASSUME Types, NEW t \in Calls, Fails(t), UNCHANGED server
    PROVE  Types'
<1>1. PICK s : /\ End(t, s)
               /\ s \in {Cleared(store), [store EXCEPT !.perms = NoPerms], store}
  BY DEF Fails
<1>2. s \in StoreRecord(Len(pairs)) /\ (s.refreshing => InFlight)
  <2>1. PICK q : q = [store EXCEPT !.perms = NoPerms]
    OBVIOUS
  <2>2. q \in StoreRecord(Len(pairs)) /\ q.refreshing = store.refreshing
    BY <2>1, StoreIs, StoreFields DEF StoreRecord
  <2> QED
    BY <1>1, <2>1, <2>2, StoreIs
<1> QED
  BY <1>1, <1>2, EndTypes

LEMMA DeliverTypes ==
    ASSUME Types, NEW t \in Calls, Deliver(t)
    PROVE  Types'
<1>1. UNCHANGED server /\ t \in All /\ t # Renewal /\ call[t].at = "served"
  BY Names DEF Deliver, server, All
<1>2. /\ store \in StoreRecord(Len(pairs)) /\ Len(pairs) \in Nat
      /\ Cleared(store) \in StoreRecord(Len(pairs)) /\ ~Cleared(store).refreshing
      /\ store.refreshing => InFlight
  BY StoreIs
<1>3. PICK c : c = call[t]
  OBVIOUS
<1>4. c \in CallRecord(Len(pairs)) /\ Form(t, c, Len(pairs)) /\ Place(t, c)
  BY <1>1, <1>3 DEF Types, CallsOK
<1>5. PICK p, u, q : p = WithPair(c, store) /\ u = WithUser(c, store) /\ q = WithPerms(c, store)
  OBVIOUS
<1>6. /\ p \in StoreRecord(Len(pairs)) /\ p.refreshing = store.refreshing
      /\ p.identity = c.reply.pair
  BY <1>2, <1>4, <1>5, WithPairIs
<1>7. u \in StoreRecord(Len(pairs)) /\ u.refreshing = store.refreshing
  BY <1>2, <1>4, <1>5, WithUserIs
<1>8. q \in StoreRecord(Len(pairs)) /\ q.refreshing = store.refreshing
  BY <1>2, <1>4, <1>5, WithPermsIs
\* A call that waits for the refresh.
<1>9. ASSUME NEW where \in {"post", "renew"}, NEW profile \in BOOLEAN,
             Await(t, Waiting(c, where), store, profile), InFlight \/ store.tokens # 0,
             where = "renew" => c.kind = "prefer"
      PROVE  Types'
  <2>1. PICK w : w = Waiting(c, where)
    OBVIOUS
  <2>2. where \in Waits
    BY DEF Waits
  <2>3. /\ w \in CallRecord(Len(pairs)) /\ w.at = where /\ w.reply = NoReply
        /\ w.kind = c.kind /\ w.rpc = c.rpc /\ w.arg = c.arg
    BY <1>2, <1>4, <2>1, <2>2, WaitingIs
  <2>4. Form(t, w, Len(pairs))
    BY <1>1, <1>4, <2>3 DEF Form
  <2>5. Place(t, w)
    BY <1>1, <1>9, <2>3 DEF Place, Brings, Waits
  <2> QED
    BY <1>1, <1>2, <1>9, <2>1, <2>3, <2>4, <2>5, AwaitTypes
<1>10. ASSUME NEW s \in StoreRecord(Len(pairs)), End(t, s), s.refreshing => InFlight
       PROVE  Types'
  BY <1>1, <1>10, EndTypes
<1>11. CASE Renews(t) /\ Await(t, Waiting(c, "post"), store, FALSE)
  BY <1>9, <1>11 DEF Renews
<1>12. CASE c.reply.code = "ok" /\ Continue(t)
  <2>1. CASE c.rpc = "Login"
    <3>1. PICK r : r = Browse(c, p)
      OBVIOUS
    <3>2. Enter(t, r, p)
      BY <1>3, <1>5, <1>12, <2>1, <3>1 DEF Continue
    <3>3. p.identity # 0
      BY <1>1, <1>3, <1>4, <1>6, <1>12, <2>1 DEF Place, Brings
    <3>4. Form(t, r, Len(pairs))
      BY <1>1, <1>4, <1>6, <3>1, <3>3, NextRpc
    <3> QED
      BY <1>1, <1>2, <1>6, <3>2, <3>4, EnterTypes
  <2>2. CASE c.rpc = "SwitchCompanyScope"
    <3>1. PICK r : r = Rpc(c, "GetPermissionState", p)
      OBVIOUS
    <3>2. Enter(t, r, p)
      BY <1>3, <1>5, <1>12, <2>2, <3>1 DEF Continue
    <3>3. Form(t, r, Len(pairs))
      BY <1>1, <1>4, <1>6, <3>1, NextRpc
    <3> QED
      BY <1>1, <1>2, <1>6, <3>2, <3>3, EnterTypes
  <2>3. CASE c.rpc = "GetPermissionState"
    BY <1>2, <1>3, <1>5, <1>8, <1>10, <1>12, <2>3 DEF Continue
  <2>4. CASE c.rpc = "Browse"
    BY <1>2, <1>3, <1>5, <1>7, <1>10, <1>12, <2>4 DEF Continue
  <2>5. CASE c.rpc = "UpdateById" /\ (InFlight \/ store.tokens # 0)
    <3>1. Await(t, Waiting(c, "renew"), store, TRUE)
      BY <1>3, <1>12, <2>5 DEF Continue
    <3>2. c.kind = "prefer"
      BY <1>4, <2>5 DEF Form
    <3> QED
      BY <1>9, <2>5, <3>1, <3>2
  <2>6. CASE \/ c.rpc = "UpdateById" /\ ~(InFlight \/ store.tokens # 0)
             \/ c.rpc \notin {"Login", "SwitchCompanyScope", "GetPermissionState", "Browse",
                              "UpdateById"}
    <3>1. End(t, store) \/ End(t, Cleared(store))
      BY <1>3, <1>12, <2>6 DEF Continue
    <3> QED
      BY <1>2, <1>10, <3>1
  <2> QED
    BY <2>1, <2>2, <2>3, <2>4, <2>5, <2>6
<1>13. CASE Fails(t)
  BY <1>1, <1>13, FailsTypes
<1> QED
  BY <1>3, <1>11, <1>12, <1>13 DEF Deliver

LEMMA LoadPermsTypes ==
    ASSUME Types, NEW c, Form(Renewal, c, Len(pairs)), NEW s \in StoreRecord(Len(pairs)),
           LoadPerms(c, s), UNCHANGED server, InFlight
    PROVE  Types'
<1>1. CASE Settle("ok", s)
  BY <1>1, SettleTypes
<1>2. CASE Enter(Renewal, Rpc(c, "GetPermissionState", s), s)
  <2>1. PICK r : r = Rpc(c, "GetPermissionState", s)
    OBVIOUS
  <2>2. Form(Renewal, r, Len(pairs)) /\ r.rpc # "none"
    BY <2>1, NextRpc DEF All
  <2> QED
    BY <1>2, <2>1, <2>2, EnterTypes DEF All
<1> QED
  BY <1>1, <1>2 DEF LoadPerms

LEMMA DeliverRefreshTypes ==
    ASSUME Types, DeliverRefresh
    PROVE  Types'
<1>1. /\ UNCHANGED server /\ Renewal \in All /\ call[Renewal].at = "served" /\ InFlight
  BY DEF DeliverRefresh, server, All, InFlight
<1>2. /\ store \in StoreRecord(Len(pairs)) /\ Len(pairs) \in Nat
      /\ Cleared(store) \in StoreRecord(Len(pairs))
  BY StoreIs
<1>3. PICK c : c = call[Renewal]
  OBVIOUS
<1>4. c \in CallRecord(Len(pairs)) /\ Form(Renewal, c, Len(pairs)) /\ Place(Renewal, c)
  BY <1>1, <1>3 DEF Types, CallsOK
<1>5. CASE Renews(Renewal) /\ Await(Renewal, Waiting(c, "post"), store, FALSE)
  <2>1. PICK w : w = Waiting(c, "post")
    OBVIOUS
  <2>2. "post" \in Waits
    BY DEF Waits
  <2>3. /\ w \in CallRecord(Len(pairs)) /\ w.at = "post" /\ w.reply = NoReply
        /\ w.kind = c.kind /\ w.rpc = c.rpc /\ w.arg = c.arg /\ w.retried = c.retried
    BY <1>2, <1>4, <2>1, <2>2, WaitingIs
  <2>4. Form(Renewal, w, Len(pairs))
    BY <1>4, <2>3 DEF Form
  <2>5. Place(Renewal, w)
    BY <1>1, <1>3, <1>4, <2>3 DEF Place, Brings, Waits
  <2> QED
    BY <1>1, <1>2, <1>5, <2>1, <2>3, <2>4, <2>5, AwaitTypes
<1>6. CASE c.reply.code = "ok" /\ ContinueRefresh
  <2>1. CASE c.rpc = "RefreshTokens"
    <3>1. PICK s : s = WithPair(c, store)
      OBVIOUS
    <3>2. PICK b \in BOOLEAN :
             b = (c.before = 0 \/ pairs[c.reply.pair]["perm"] # pairs[c.before]["perm"])
      OBVIOUS
    <3>3. PICK r : r = [c EXCEPT !.perms = b]
      OBVIOUS
    <3>4. Enter(Renewal, Browse(r, s), s) \/ LoadPerms(r, s)
      BY <1>3, <1>6, <2>1, <3>1, <3>2, <3>3 DEF ContinueRefresh
    <3>5. s \in StoreRecord(Len(pairs)) /\ s.identity # 0
      BY <1>1, <1>2, <1>3, <1>4, <1>6, <2>1, <3>1, WithPairIs DEF Place, Brings
    <3>6. Form(Renewal, r, Len(pairs))
      BY <1>4, <3>3 DEF Form, CallRecord
    <3>7. CASE Enter(Renewal, Browse(r, s), s)
      <4>1. PICK q : q = Browse(r, s)
        OBVIOUS
      <4>2. Form(Renewal, q, Len(pairs)) /\ q.rpc # "none"
        BY <1>1, <3>5, <3>6, <4>1, NextRpc
      <4> QED
        BY <1>1, <3>5, <3>7, <4>1, <4>2, EnterTypes
    <3> QED
      BY <1>1, <3>4, <3>5, <3>6, <3>7, LoadPermsTypes
  <2>2. CASE c.rpc = "Browse"
    <3>1. PICK s : s = WithUser(c, store)
      OBVIOUS
    <3>2. s \in StoreRecord(Len(pairs))
      BY <1>2, <1>4, <3>1, WithUserIs
    <3> QED
      BY <1>1, <1>3, <1>4, <1>6, <2>2, <3>1, <3>2, LoadPermsTypes DEF ContinueRefresh
  <2>3. CASE c.rpc = "GetPermissionState"
    <3>1. PICK s : s = WithPerms(c, store)
      OBVIOUS
    <3>2. s \in StoreRecord(Len(pairs))
      BY <1>2, <1>4, <3>1, WithPermsIs
    <3> QED
      BY <1>1, <1>3, <1>6, <2>3, <3>1, <3>2, SettleTypes DEF ContinueRefresh
  <2> QED
    BY <1>1, <1>3, <1>4, <2>1, <2>2, <2>3 DEF Form, Place
<1>7. CASE Settle("error", Cleared(store))
  BY <1>1, <1>2, <1>7, SettleTypes
<1> QED
  BY <1>3, <1>5, <1>6, <1>7 DEF DeliverRefresh

LEMMA ResumeTypes ==
    ASSUME Types, NEW t \in Calls, Resume(t)
    PROVE  Types'
<1>1. UNCHANGED server /\ t \in All /\ t # Renewal /\ call[t].at \in Waits
  BY Names DEF Resume, server, All
<1>2. /\ store \in StoreRecord(Len(pairs)) /\ Len(pairs) \in Nat
      /\ Cleared(store) \in StoreRecord(Len(pairs)) /\ ~Cleared(store).refreshing
      /\ store.refreshing => InFlight
  BY StoreIs
<1>3. PICK c : c = call[t]
  OBVIOUS
<1>4. c \in CallRecord(Len(pairs)) /\ Form(t, c, Len(pairs)) /\ Place(t, c)
  BY <1>1, <1>3 DEF Types, CallsOK
<1>5. PICK q : q = Sent(c, store)
  OBVIOUS
<1>6. /\ q \in CallRecord(Len(pairs)) /\ q.at = "sent" /\ q.kind = c.kind /\ q.rpc = c.rpc
      /\ q.arg = c.arg
  BY <1>2, <1>4, <1>5, SentIs
<1>7. CASE Put(t, q, store)
  <2>1. Form(t, q, Len(pairs)) /\ Place(t, q)
    BY <1>1, <1>4, <1>6 DEF Form, Place, Brings, Waits
  <2> QED
    BY <1>1, <1>2, <1>7, <2>1, PutTypes
<1>8. CASE call' = [call EXCEPT ![t] = [q EXCEPT !.retried = TRUE]] /\ UNCHANGED store
  <2>1. PICK r : r = [q EXCEPT !.retried = TRUE]
    OBVIOUS
  <2>2. /\ r \in CallRecord(Len(pairs)) /\ r.at = "sent" /\ r.kind = c.kind /\ r.rpc = c.rpc
        /\ r.arg = c.arg
    BY <1>6, <2>1 DEF CallRecord
  <2>3. Form(t, r, Len(pairs)) /\ Place(t, r)
    BY <1>1, <1>4, <2>2 DEF Form, Place, Brings, Waits
  <2> QED
    BY <1>1, <1>2, <1>8, <2>1, <2>3, PutTypes DEF Put
<1>9. CASE Fails(t)
  BY <1>1, <1>9, FailsTypes
<1>10. CASE End(t, store) \/ End(t, Cleared(store))
  BY <1>1, <1>2, <1>10, EndTypes
<1>11. CASE store.identity # 0 /\ Enter(t, Browse(c, store), store)
  <2>1. PICK r : r = Browse(c, store)
    OBVIOUS
  <2>2. Form(t, r, Len(pairs))
    BY <1>1, <1>2, <1>4, <1>11, <2>1, NextRpc
  <2> QED
    BY <1>1, <1>2, <1>11, <2>1, <2>2, EnterTypes
<1>12. c.at \in {"pre", "post"} \/ (c.at = "renew" /\ c.kind \in {"init", "prefer"})
  BY <1>1, <1>3, <1>4 DEF Place, Waits
<1> QED
  BY <1>3, <1>5, <1>7, <1>8, <1>9, <1>10, <1>11, <1>12 DEF Resume, Put

\* Time passes: the pairs grow old.
LEMMA TickIs ==
    ASSUME Types, Tick
    PROVE  /\ pairs' \in Seq(PairRecord) /\ Len(pairs') = Len(pairs)
           /\ \A p \in 1 .. Len(pairs) : pairs'[p].user = pairs[p].user
           /\ UNCHANGED <<call, store, used, revoked, closed, version, perm, harmed>>
<1>1. PICK n \in Nat : n = Len(pairs)
  BY PairsIs
<1>2. DOMAIN pairs = 1 .. n /\ \A p \in 1 .. n : pairs[p] \in PairRecord
  BY <1>1, PairsIs
<1>3. pairs' = [p \in 1 .. n |-> pairs'[p]]
  BY <1>2 DEF Tick
<1>4. ASSUME NEW p \in 1 .. n
      PROVE  pairs'[p] \in PairRecord /\ pairs'[p].user = pairs[p].user
  <2>1. PICK r : r = pairs[p]
    OBVIOUS
  <2>2. r \in PairRecord
    BY <1>2, <2>1
  <2>3. pairs'[p] = [r EXCEPT !.age = IF r.age = Outdated THEN r.age ELSE r.age + 1]
    BY <1>2, <2>1, <2>2 DEF Tick, PairRecord
  <2>4. PICK a \in Fresh .. Outdated : a = IF r.age = Outdated THEN r.age ELSE r.age + 1
    BY <2>2 DEF PairRecord, Fresh, Outdated
  <2> QED
    BY <2>1, <2>2, <2>3, <2>4 DEF PairRecord
<1>5. pairs' \in [1 .. n -> PairRecord]
  BY <1>3, <1>4
<1>6. pairs' \in Seq(PairRecord) /\ Len(pairs') = n
  BY <1>5
<1> QED
  BY <1>1, <1>4, <1>6 DEF Tick

LEMMA ElsewhereTypes ==
    ASSUME Types, Tick \/ \E u \in Users : Revoke(u) \/ Close(u) \/ Grant(u)
    PROVE  Types'
<1>1. CASE Tick
  <2>1. /\ UNCHANGED <<call, store, used, revoked, closed, version, perm, harmed>>
        /\ Len(pairs') = Len(pairs)
    BY <1>1, TickIs
  <2>2. CallsOK'
    BY <2>1 DEF Types, CallsOK
  <2>3. StoreOK'
    BY <2>1 DEF Types, StoreOK, InFlight
  <2>4. ServerOK'
    BY <1>1, <2>1, TickIs DEF Types, ServerOK
  <2> QED
    BY <2>2, <2>3, <2>4 DEF Types
<1>2. ASSUME NEW u \in Users, Revoke(u)
      PROVE  Types'
  <2>1. /\ used' \subseteq 1 .. Len(pairs) /\ revoked' \subseteq 1 .. Len(pairs)
        /\ harmed' \in BOOLEAN /\ UNCHANGED <<call, store, pairs, closed, version, perm>>
    BY <1>2, PairsIs DEF Revoke, Types, ServerOK
  <2> QED
    BY <2>1 DEF Types, CallsOK, ServerOK, StoreOK, InFlight
<1>3. ASSUME NEW u \in Users, Grant(u)
      PROVE  Types'
  <2>1. /\ perm' \in [Users -> Nat]
        /\ UNCHANGED <<call, store, pairs, used, revoked, closed, version, harmed>>
    BY <1>3 DEF Grant, Types, ServerOK
  <2> QED
    BY <2>1 DEF Types, CallsOK, ServerOK, StoreOK, InFlight
<1>4. ASSUME NEW u \in Users, Close(u)
      PROVE  Types'
  <2>1. /\ closed' \subseteq Users
        /\ UNCHANGED <<call, store, pairs, used, revoked, version, perm, harmed>>
    BY <1>4 DEF Close, Types, ServerOK
  <2> QED
    BY <2>1 DEF Types, CallsOK, ServerOK, StoreOK, InFlight
<1> QED
  BY <1>1, <1>2, <1>3, <1>4

LEMMA InitTypes == Init => Types
<1> SUFFICES ASSUME Init PROVE Types
  OBVIOUS
<1>1. PICK u : u = CHOOSE v \in Users : TRUE
  OBVIOUS
<1>2. u \in Users
  BY <1>1, Names
<1>3. PICK age \in Fresh .. Outdated, tokens \in 0 .. 1, opened \in BOOLEAN, permitted \in BOOLEAN :
         /\ pairs = IF tokens = 0 THEN <<>>
                    ELSE <<[user |-> u, version |-> 0, perm |-> 0, age |-> age]>>
         /\ store = [tokens |-> tokens,
                     identity |-> IF tokens = 1 /\ opened THEN 1 ELSE 0,
                     user |-> IF tokens = 1 /\ opened THEN u ELSE NoUser,
                     perms |-> IF tokens = 1 /\ permitted
                                 THEN [user |-> u, perm |-> 0] ELSE NoPerms,
                     refreshing |-> FALSE, initialized |-> opened,
                     epoch |-> 0, crossed |-> FALSE]
  BY <1>1 DEF Init
<1>4. pairs \in Seq(PairRecord) /\ Len(pairs) = tokens
  <2>1. CASE tokens = 0
    BY <1>3, <2>1
  <2>2. CASE tokens = 1
    <3>1. PICK r : r = [user |-> u, version |-> 0, perm |-> 0, age |-> age]
      OBVIOUS
    <3>2. r \in PairRecord
      BY <1>2, <3>1 DEF PairRecord
    <3>3. pairs = <<r>>
      BY <1>3, <2>2, <3>1
    <3> QED
      BY <2>2, <3>2, <3>3
  <2> QED
    BY <2>1, <2>2
<1>5. PICK p : p = IF tokens = 1 /\ permitted THEN [user |-> u, perm |-> 0] ELSE NoPerms
  OBVIOUS
<1>6. p \in [user : Users \cup {NoUser}, perm : Nat]
  BY <1>2, <1>5 DEF NoPerms
<1>7. store \in StoreRecord(tokens) /\ ~store.refreshing
  <2>1. PICK i \in 0 .. tokens : i = IF tokens = 1 /\ opened THEN 1 ELSE 0
    OBVIOUS
  <2>2. PICK v \in Users \cup {NoUser} : v = IF tokens = 1 /\ opened THEN u ELSE NoUser
    BY <1>2
  <2>3. store = [tokens |-> tokens, identity |-> i, user |-> v, perms |-> p, refreshing |-> FALSE,
                 initialized |-> opened, epoch |-> 0, crossed |-> FALSE]
    BY <1>3, <1>5, <2>1, <2>2
  <2> QED
    BY <1>6, <2>3 DEF StoreRecord
<1>8. CallsOK
  <2>1. Idle \in CallRecord(tokens)
    BY IdleIs
  <2>2. call = [t \in All |-> Idle]
    BY DEF Init, All
  <2>3. \A t \in All : Form(t, Idle, tokens) /\ Place(t, Idle)
    BY <2>1, IdleIs, Names DEF Form, Place, Brings, Waits
  <2> QED
    BY <1>4, <2>1, <2>2, <2>3 DEF CallsOK
<1>9. ServerOK
  BY <1>4 DEF Init, ServerOK
<1> QED
  BY <1>4, <1>7, <1>8, <1>9 DEF Types, StoreOK

LEMMA NextTypes == Types /\ [Next]_vars => Types'
<1> SUFFICES ASSUME Types, [Next]_vars PROVE Types'
  OBVIOUS
<1>1. CASE UNCHANGED vars
  BY <1>1 DEF vars, Types, CallsOK, ServerOK, StoreOK, InFlight
<1>2. ASSUME NEW t \in Calls, Begin(t) \/ Work(t) \/ Lose(t)
      PROVE  Types'
  BY <1>2, BeginTypes, ServeTypes, DeliverTypes, ResumeTypes, LoseTypes DEF Work, All
<1>3. CASE Renew \/ Lose(Renewal)
  BY <1>3, ServeTypes, DeliverRefreshTypes, LoseTypes DEF Renew, All
<1>4. CASE Tick \/ \E u \in Users : Revoke(u) \/ Close(u) \/ Grant(u)
  BY <1>4, ElsewhereTypes
<1> QED
  BY <1>1, <1>2, <1>3, <1>4 DEF Next

LEMMA TypesInvariant == Spec => []Types
<1> QED
  BY InitTypes, NextTypes, PTL DEF Spec

\* The calls and the store keep the shape callWithAuth and useAuthStore give
\* them, and the store never counts as refreshing once refreshInFlight is over:
\* `refreshing` is set where the refresh is begun and reset by its end, by
\* clearAuth and by nothing else, for any number of calls and users.
THEOREM TypeCorrect == Spec => []TypeOK
<1>1. Types => TypeOK
  <2> SUFFICES ASSUME Types PROVE TypeOK
    OBVIOUS
  <2>1. ASSUME NEW t \in All
        PROVE  /\ call[t].at \in {"idle", "sent", "served"} \cup Waits
               /\ call[t].kind \in AllKinds \cup {"none", "refresh"}
               /\ {call[t].pair, call[t].arg, call[t].before} \subseteq 0 .. Len(pairs)
               /\ call[t].user \in Users \cup {NoUser}
    <3>1. call[t] \in CallRecord(Len(pairs))
      BY DEF Types, CallsOK
    <3> QED
      BY <3>1 DEF CallRecord
  <2>2. /\ {store.tokens, store.identity} \subseteq 0 .. Len(pairs)
        /\ store.user \in Users \cup {NoUser}
        /\ store.perms.user \in Users \cup {NoUser}
        /\ store.refreshing => InFlight
    BY DEF Types, StoreOK, StoreRecord
  <2>3. used \cup revoked \subseteq 1 .. Len(pairs) /\ closed \subseteq Users
    BY DEF Types, ServerOK
  <2> QED
    BY <2>1, <2>2, <2>3 DEF TypeOK, All
<1> QED
  BY <1>1, TypesInvariant, PTL

----------------------------------------------------------------------------
(* One user *)

Mine(p, s, ps) == p # 0 => s.tokens # 0 /\ ps[p].user = ps[s.tokens].user
Known(u, s, ps) == s.tokens # 0 /\ ps[s.tokens].user = u

\* What the store shows is of the user of its tokens.
Whole(s, ps) ==
    /\ s.identity = s.tokens \/ (s.identity = 0 /\ ~s.initialized)
    /\ ~s.crossed => /\ s.user # NoUser => Known(s.user, s, ps)
                     /\ s.perms.user # NoUser => Known(s.perms.user, s, ps)

\* What a call of the session there is now asks for is of that user; before a
\* login there is none.
Asks(c, s, ps) ==
    /\ c.kind = "init" => s.identity = s.tokens /\ c.arg = 0
    /\ c.epoch <= s.epoch
    /\ ~s.crossed /\ c.epoch = s.epoch => /\ c.rpc = "Login" => s.tokens = 0
                                          /\ Mine(c.arg, s, ps)
                                          /\ c.rpc = "Browse" => Known(c.user, s, ps)

\* And so is what it is sent with and what it gets.
Gets(c, s, ps) ==
    ~s.crossed /\ c.epoch = s.epoch =>
        /\ c.at = "sent" => Mine(c.pair, s, ps)
        /\ Brings(c) /\ c.rpc # "Login" => Mine(c.reply.pair, s, ps)
        /\ c.at = "served" /\ c.reply.code = "ok" /\ c.rpc \in {"Browse", "GetPermissionState"} =>
              Known(c.reply.user, s, ps)

\* No call but t is a login of the session of s.
Alone(t, s) == \A o \in All : o # t /\ call[o].rpc = "Login" => call[o].epoch # s.epoch

Joins(t, c, s) == /\ Asks(c, s, pairs)
                  /\ c.rpc = "Login" /\ c.epoch = s.epoch => Alone(t, s)

\* Everything but call t is as it should be in the session of s.
Room(t, s) ==
    /\ Whole(s, pairs)
    /\ \A o \in All : o # t => Joins(o, call[o], s) /\ Gets(call[o], s, pairs)

Agree == /\ Whole(store, pairs)
         /\ \A t \in All : Joins(t, call[t], store) /\ Gets(call[t], store, pairs)

LEMMA RoomNow ==
    ASSUME Agree, NEW t \in All
    PROVE  /\ Room(t, store) /\ Joins(t, call[t], store) /\ Gets(call[t], store, pairs)
           /\ Asks(call[t], store, pairs)
  BY DEF Agree, Room, Joins

\* The session of s and what belongs to it do not depend on the rest of the store.
LEMMA SameSession ==
    ASSUME NEW s, NEW r, NEW ps,
           r.tokens = s.tokens, r.identity = s.identity, r.epoch = s.epoch,
           r.crossed <=> s.crossed
    PROVE  /\ \A c : Asks(c, s, ps) => Asks(c, r, ps)
           /\ \A c : Gets(c, s, ps) => Gets(c, r, ps)
           /\ \A t, c : Joins(t, c, s) => Joins(t, c, r)
  BY DEF Asks, Gets, Joins, Mine, Known, Alone

LEMMA PutAgree ==
    ASSUME Types, NEW t \in All, NEW c, NEW s, Put(t, c, s), UNCHANGED pairs,
           Room(t, s), Joins(t, c, s), Gets(c, s, pairs)
    PROVE  Agree'
<1>1. store' = s /\ \A o \in All : call'[o] = IF o = t THEN c ELSE call[o]
  BY PutIs
<1>2. Whole(s, pairs)
  BY DEF Room
<1>3. ASSUME NEW o \in All
      PROVE  /\ Asks(call'[o], s, pairs) /\ Gets(call'[o], s, pairs)
             /\ call'[o].rpc = "Login" /\ call'[o].epoch = s.epoch =>
                   \A x \in All : x # o /\ call'[x].rpc = "Login" => call'[x].epoch # s.epoch
  <2>1. CASE o = t
    <3>1. call'[o] = c /\ \A x \in All : x # o => call'[x] = call[x]
      BY <1>1, <2>1
    <3> QED
      BY <2>1, <3>1 DEF Joins, Alone
  <2>2. CASE o # t
    <3>1. call'[o] = call[o] /\ Joins(o, call[o], s) /\ Gets(call[o], s, pairs)
      BY <1>1, <2>2 DEF Room
    <3>2. ASSUME call[o].rpc = "Login", call[o].epoch = s.epoch, NEW x \in All, x # o,
                 call'[x].rpc = "Login"
          PROVE  call'[x].epoch # s.epoch
      <4>1. CASE x = t
        <5>1. call'[x] = c
          BY <1>1, <4>1
        <5>2. CASE c.epoch = s.epoch
          <6>1. Alone(t, s)
            BY <3>2, <5>1, <5>2 DEF Joins
          <6> QED
            BY <2>2, <3>2, <6>1 DEF Alone
        <5> QED
          BY <5>1, <5>2
      <4>2. CASE x # t
        <5>1. call'[x] = call[x] /\ Alone(o, s)
          BY <1>1, <3>1, <3>2, <4>2 DEF Joins
        <5> QED
          BY <3>2, <5>1 DEF Alone
      <4> QED
        BY <4>1, <4>2
    <3> QED
      BY <3>1, <3>2 DEF Joins
  <2> QED
    BY <2>1, <2>2
<1> QED
  BY <1>1, <1>2, <1>3 DEF Agree, Joins, Alone

\* A new refresh belongs to the session it renews.
LEMMA RefreshingJoins ==
    ASSUME NEW n \in Nat, NEW s \in StoreRecord(n), NEW profile \in BOOLEAN, NEW r,
           r = Refreshing(s, profile)
    PROVE  Asks(r, s, pairs) /\ Gets(r, s, pairs) /\ r.rpc # "Login" /\ Joins(Renewal, r, s)
<1>1. /\ r.kind = "refresh" /\ r.rpc = "RefreshTokens" /\ r.at = "sent"
      /\ r.arg = s.tokens /\ r.pair = s.tokens /\ r.epoch = s.epoch
  BY RefreshingIs
<1>2. s.epoch \in Nat
  BY DEF StoreRecord
<1> QED
  BY <1>1, <1>2 DEF Asks, Gets, Mine, Brings, Joins

LEMMA PutBothAgree ==
    ASSUME Types, NEW t \in Calls, NEW c, NEW s \in StoreRecord(Len(pairs)),
           NEW profile \in BOOLEAN, PutBoth(t, c, s, profile), UNCHANGED pairs,
           ~InFlight, Room(t, s), Joins(t, c, s), Gets(c, s, pairs)
    PROVE  Agree'
<1>1. PICK r : r = Refreshing(s, profile)
  OBVIOUS
<1>2. Asks(r, s, pairs) /\ Gets(r, s, pairs) /\ r.rpc # "Login"
  BY <1>1, RefreshingJoins, PairsIs
<1>3. PICK q : q = [s EXCEPT !.refreshing = TRUE]
  OBVIOUS
<1>4. /\ q.tokens = s.tokens /\ q.identity = s.identity /\ q.epoch = s.epoch
      /\ q.user = s.user /\ q.perms = s.perms /\ q.initialized = s.initialized
      /\ q.crossed = s.crossed
  BY <1>3 DEF StoreRecord
<1>5. /\ store' = q /\ t \in All /\ t # Renewal
      /\ \A o \in All : call'[o] = IF o = Renewal THEN r ELSE IF o = t THEN c ELSE call[o]
  BY <1>1, <1>3, PutBothIs, Names DEF All
<1>6. Whole(q, pairs)
  BY <1>4 DEF Room, Whole, Known
<1>7. ASSUME NEW o \in All
      PROVE  /\ Asks(call'[o], s, pairs) /\ Gets(call'[o], s, pairs)
             /\ call'[o].rpc = "Login" /\ call'[o].epoch = s.epoch =>
                   \A x \in All : x # o /\ call'[x].rpc = "Login" => call'[x].epoch # s.epoch
  <2>1. CASE o = Renewal
    BY <1>2, <1>5, <2>1
  <2>2. CASE o = t
    <3>1. call'[o] = c
      BY <1>5, <2>2
    <3>2. \A x \in All : x # o /\ call'[x].rpc = "Login" => call'[x] = call[x]
      BY <1>2, <1>5, <2>2
    <3> QED
      BY <2>2, <3>1, <3>2 DEF Joins, Alone
  <2>3. CASE o # t /\ o # Renewal
    <3>1. call'[o] = call[o] /\ Joins(o, call[o], s) /\ Gets(call[o], s, pairs)
      BY <1>5, <2>3 DEF Room
    <3>2. ASSUME call[o].rpc = "Login", call[o].epoch = s.epoch, NEW x \in All, x # o,
                 call'[x].rpc = "Login"
          PROVE  call'[x].epoch # s.epoch
      <4>1. CASE x = t
        <5>1. call'[x] = c
          BY <1>5, <4>1
        <5>2. CASE c.epoch = s.epoch
          <6>1. Alone(t, s)
            BY <3>2, <5>1, <5>2 DEF Joins
          <6> QED
            BY <2>3, <3>2, <6>1 DEF Alone
        <5> QED
          BY <5>1, <5>2
      <4>2. CASE x # t
        <5>1. call'[x] = call[x] /\ Alone(o, s)
          BY <1>2, <1>5, <3>1, <3>2, <4>2 DEF Joins
        <5> QED
          BY <3>2, <5>1 DEF Alone
      <4> QED
        BY <4>1, <4>2
    <3> QED
      BY <3>1, <3>2 DEF Joins
  <2> QED
    BY <2>1, <2>2, <2>3
<1>8. ASSUME NEW o \in All
      PROVE  Asks(call'[o], q, pairs) /\ Gets(call'[o], q, pairs)
  BY <1>4, <1>7, SameSession
<1> QED
  BY <1>4, <1>5, <1>6, <1>7, <1>8 DEF Agree, Joins, Alone

LEMMA SentJoins ==
    ASSUME NEW n \in Nat, NEW t, NEW c \in CallRecord(n), NEW s \in StoreRecord(n), NEW r,
           r = Sent(c, s), Joins(t, c, s)
    PROVE  Joins(t, r, s) /\ Gets(r, s, pairs)
<1>1. /\ r.at = "sent" /\ r.pair = s.tokens /\ r.kind = c.kind /\ r.rpc = c.rpc /\ r.arg = c.arg
      /\ r.user = c.user /\ r.epoch = c.epoch
  BY SentIs
<1> QED
  BY <1>1 DEF Joins, Asks, Gets, Mine, Brings

LEMMA WaitingJoins ==
    ASSUME NEW n \in Nat, NEW t, NEW c \in CallRecord(n), NEW s \in StoreRecord(n),
           NEW w \in Waits, NEW r, r = Waiting(c, w), Joins(t, c, s)
    PROVE  Joins(t, r, s) /\ Gets(r, s, pairs)
<1>1. /\ r.at = w /\ r.kind = c.kind /\ r.rpc = c.rpc /\ r.arg = c.arg
      /\ r.user = c.user /\ r.epoch = c.epoch
  BY WaitingIs
<1>2. w # "sent" /\ w # "served"
  BY DEF Waits
<1> QED
  BY <1>1, <1>2 DEF Joins, Asks, Gets, Brings

LEMMA EnterAgree ==
    ASSUME Types, NEW t \in All, NEW c \in CallRecord(Len(pairs)), NEW s \in StoreRecord(Len(pairs)),
           Enter(t, c, s), UNCHANGED pairs, t = Renewal => InFlight, Room(t, s), Joins(t, c, s)
    PROVE  Agree'
<1>1. Len(pairs) \in Nat /\ "pre" \in Waits
  BY PairsIs DEF Waits
<1>2. PICK q, w : q = Sent(c, s) /\ w = Waiting(c, "pre")
  OBVIOUS
<1>3. Joins(t, q, s) /\ Gets(q, s, pairs)
  BY <1>1, <1>2, SentJoins
<1>4. Joins(t, w, s) /\ Gets(w, s, pairs)
  BY <1>1, <1>2, WaitingJoins
<1>5. CASE Put(t, q, s)
  BY <1>3, <1>5, PutAgree
<1>6. CASE Put(t, w, s)
  BY <1>4, <1>6, PutAgree
<1>7. CASE ~InFlight /\ PutBoth(t, w, s, FALSE)
  <2>1. t \in Calls
    BY <1>7 DEF All
  <2> QED
    BY <1>4, <1>7, <2>1, PutBothAgree
<1> QED
  BY <1>2, <1>5, <1>6, <1>7, EnterForms

LEMMA AwaitAgree ==
    ASSUME Types, NEW t \in All, NEW c \in CallRecord(Len(pairs)), NEW s \in StoreRecord(Len(pairs)),
           NEW where \in Waits, NEW profile \in BOOLEAN, Await(t, Waiting(c, where), s, profile),
           UNCHANGED pairs, t = Renewal => InFlight, Room(t, s), Joins(t, c, s)
    PROVE  Agree'
<1>1. PICK w : w = Waiting(c, where)
  OBVIOUS
<1>2. Joins(t, w, s) /\ Gets(w, s, pairs)
  BY <1>1, WaitingJoins, PairsIs
<1>3. CASE Put(t, w, s)
  BY <1>2, <1>3, PutAgree
<1>4. CASE ~InFlight /\ PutBoth(t, w, s, profile)
  <2>1. t \in Calls
    BY <1>4 DEF All
  <2> QED
    BY <1>2, <1>4, <2>1, PutBothAgree
<1> QED
  BY <1>1, <1>3, <1>4, AwaitForms

\* A call that is over belongs to every session.
LEMMA IdleJoins ==
    ASSUME NEW n \in Nat, NEW t, NEW s \in StoreRecord(n)
    PROVE  Joins(t, Idle, s) /\ Gets(Idle, s, pairs)
<1>1. /\ Idle.kind = "none" /\ Idle.rpc = "none" /\ Idle.at = "idle" /\ Idle.arg = 0
      /\ Idle.epoch = 0
  BY IdleIs
<1>2. s.epoch \in Nat
  BY DEF StoreRecord
<1> QED
  BY <1>1, <1>2 DEF Joins, Asks, Gets, Mine, Brings

LEMMA EndAgree ==
    ASSUME Types, NEW t \in Calls, NEW s \in StoreRecord(Len(pairs)), End(t, s), UNCHANGED pairs,
           Room(t, s), call[t].kind = "init" => s.identity = s.tokens
    PROVE  Agree'
<1>1. PICK b \in BOOLEAN : b = (s.initialized \/ call[t].kind = "init")
  OBVIOUS
<1>2. PICK q : q = [s EXCEPT !.initialized = b]
  OBVIOUS
<1>3. /\ q \in StoreRecord(Len(pairs)) /\ q.tokens = s.tokens /\ q.identity = s.identity
      /\ q.epoch = s.epoch /\ q.user = s.user /\ q.perms = s.perms /\ q.crossed = s.crossed
      /\ q.initialized = b
  BY <1>2 DEF StoreRecord
<1>4. Put(t, Idle, q) /\ t \in All
  BY <1>1, <1>2 DEF End, Put, All
<1>5. Whole(q, pairs)
  BY <1>1, <1>3 DEF Room, Whole, Known
<1>6. Room(t, q)
  BY <1>3, <1>5, SameSession DEF Room
<1> QED
  BY <1>3, <1>4, <1>6, PutAgree, IdleJoins, PairsIs

LEMMA SettleAgree ==
    ASSUME Types, NEW code \in {"ok", "error"}, NEW s \in StoreRecord(Len(pairs)),
           Settle(code, s), UNCHANGED pairs, Room(Renewal, s)
    PROVE  Agree'
<1>1. PICK q : q = [s EXCEPT !.refreshing = FALSE]
  OBVIOUS
<1>2. /\ q \in StoreRecord(Len(pairs)) /\ q.tokens = s.tokens /\ q.identity = s.identity
      /\ q.epoch = s.epoch /\ q.user = s.user /\ q.perms = s.perms /\ q.crossed = s.crossed
      /\ q.initialized = s.initialized
  BY <1>1 DEF StoreRecord
<1>3. Whole(q, pairs)
  BY <1>2 DEF Room, Whole, Known
<1>4. ASSUME NEW o \in All
      PROVE  /\ Asks(call'[o], q, pairs) /\ Gets(call'[o], q, pairs)
             /\ call'[o].rpc = "Login" =>
                  /\ o # Renewal /\ call[o].rpc = "Login" /\ call'[o].epoch = call[o].epoch
  <2>1. CASE o = Renewal
    BY <1>2, <2>1, SettleIs, IdleJoins, IdleIs, PairsIs DEF Joins
  <2>2. CASE o # Renewal
    <3>1. PICK c : c = call[o]
      OBVIOUS
    <3>2. PICK r : r = Heard(c, code)
      OBVIOUS
    <3>3. c \in CallRecord(Len(pairs)) /\ o \in Calls
      BY <2>2, <3>1 DEF Types, CallsOK, All
    <3>4. Asks(c, q, pairs) /\ Gets(c, q, pairs)
      BY <1>2, <2>2, <3>1, SameSession DEF Room, Joins
    <3>5. /\ r.kind = c.kind /\ r.rpc = c.rpc /\ r.at = c.at /\ r.arg = c.arg
          /\ r.pair = c.pair /\ r.user = c.user /\ r.epoch = c.epoch
      BY <3>2, <3>3, HeardIs, PairsIs
    <3>6. c.at \in Waits => Asks(r, q, pairs) /\ Gets(r, q, pairs)
      BY <3>4, <3>5 DEF Asks, Gets, Brings, Waits
    <3>7. call'[o] = IF c.at \in Waits /\ c.reply = NoReply THEN r ELSE c
      BY <3>1, <3>2, <3>3, SettleIs
    <3> QED
      BY <2>2, <3>1, <3>4, <3>5, <3>6, <3>7
  <2> QED
    BY <2>1, <2>2
<1>5. ASSUME NEW o \in All, NEW x \in All, x # o, call'[o].rpc = "Login", call'[x].rpc = "Login",
             call'[o].epoch = q.epoch
      PROVE  call'[x].epoch # q.epoch
  <2>1. /\ o # Renewal /\ call[o].rpc = "Login" /\ call[o].epoch = s.epoch
        /\ call[x].rpc = "Login" /\ call'[x].epoch = call[x].epoch
    BY <1>2, <1>4, <1>5
  <2>2. Alone(o, s)
    BY <2>1 DEF Room, Joins
  <2> QED
    BY <1>2, <1>5, <2>1, <2>2 DEF Alone
<1>6. store' = q
  BY <1>1, SettleIs
<1> QED
  BY <1>3, <1>4, <1>5, <1>6 DEF Agree, Joins, Alone

\* What the store becomes leaves room for every other call. A session that ends
\* leaves none of its calls in the next one.
LEMMA ClearedRoom ==
    ASSUME Types, Agree, NEW t \in All, NEW s, s = Cleared(store)
    PROVE  /\ Room(t, s) /\ Alone(t, s) /\ s.identity = s.tokens
           /\ s \in StoreRecord(Len(pairs)) /\ s.tokens = 0
<1>1. store \in StoreRecord(Len(pairs)) /\ Len(pairs) \in Nat /\ store.epoch \in Nat
  BY StoreIs DEF StoreRecord
<1>2. /\ s \in StoreRecord(Len(pairs)) /\ s.tokens = 0 /\ s.identity = 0 /\ s.user = NoUser
      /\ s.perms.user = NoUser /\ s.epoch = store.epoch + 1
  BY <1>1, ClearedIs
<1>3. ASSUME NEW o \in All
      PROVE  /\ call[o].epoch <= s.epoch /\ call[o].epoch # s.epoch
             /\ call[o].kind = "init" => call[o].arg = 0
  <2>1. call[o].epoch <= store.epoch /\ (call[o].kind = "init" => call[o].arg = 0)
    BY DEF Agree, Joins, Asks
  <2>2. call[o].epoch \in Nat
    BY DEF Types, CallsOK, CallRecord
  <2> QED
    BY <1>1, <1>2, <2>1, <2>2
<1> QED
  BY <1>2, <1>3 DEF Room, Whole, Joins, Asks, Gets, Alone

\* A pair from a login: there were no tokens, and no other login. From a renewal
\* or a switch: of the same user.
LEMMA PairRoom ==
    ASSUME Types, Agree, NEW t \in All, NEW c, c = call[t], Brings(c), NEW s, s = WithPair(c, store)
    PROVE  /\ Room(t, s) /\ s.identity = s.tokens /\ s.tokens # 0
           /\ s \in StoreRecord(Len(pairs)) /\ s.refreshing = store.refreshing
           /\ ~s.crossed => Mine(c.arg, s, pairs)
<1>1. store \in StoreRecord(Len(pairs)) /\ Len(pairs) \in Nat
  BY StoreIs
<1>2. c \in CallRecord(Len(pairs)) /\ c.reply.pair # 0
  BY DEF Types, CallsOK, Form, Place
<1>3. /\ s \in StoreRecord(Len(pairs)) /\ s.tokens = c.reply.pair /\ s.identity = c.reply.pair
      /\ s.user = store.user /\ s.perms = store.perms /\ s.refreshing = store.refreshing
      /\ s.epoch = store.epoch
      /\ s.crossed <=> store.crossed \/ c.epoch # store.epoch
  BY <1>1, <1>2, WithPairIs
<1>4. Asks(c, store, pairs) /\ Gets(c, store, pairs) /\ Joins(t, c, store) /\ Room(t, store)
  BY RoomNow
<1>5. CASE s.crossed
  <2>1. ASSUME NEW o \in All, o # t
        PROVE  Joins(o, call[o], s) /\ Gets(call[o], s, pairs)
    <3>1. Joins(o, call[o], store)
      BY <1>4, <2>1 DEF Room
    <3> QED
      BY <1>3, <1>5, <3>1 DEF Joins, Asks, Gets, Alone
  <2>2. Whole(s, pairs)
    BY <1>3, <1>5 DEF Whole
  <2> QED
    BY <1>2, <1>3, <1>5, <2>1, <2>2 DEF Room
<1>6. CASE ~s.crossed /\ c.rpc = "Login"
  <2>1. ~store.crossed /\ c.epoch = store.epoch /\ store.tokens = 0 /\ Alone(t, store)
    BY <1>3, <1>4, <1>6 DEF Asks, Joins
  <2>2. c.arg = 0 /\ store.user = NoUser /\ store.perms.user = NoUser
    BY <1>4, <2>1 DEF Asks, Mine, Room, Whole, Known
  <2>3. ASSUME NEW o \in All, o # t
        PROVE  Joins(o, call[o], s) /\ Gets(call[o], s, pairs)
    <3>1. PICK d : d = call[o]
      OBVIOUS
    <3>2. Joins(o, d, store) /\ Asks(d, store, pairs) /\ Gets(d, store, pairs)
      BY <1>4, <2>3, <3>1 DEF Room, Joins
    <3>3. d.kind = "init" => d.arg = 0
      BY <3>2 DEF Asks
    <3>4. d.epoch <= s.epoch
      BY <1>3, <3>2 DEF Asks
    <3>5. CASE d.epoch # store.epoch
      BY <1>3, <3>1, <3>3, <3>4, <3>5 DEF Joins, Asks, Gets
    <3>6. CASE d.epoch = store.epoch
      <4>1. d.rpc # "Login"
        BY <2>1, <2>3, <3>1, <3>6 DEF Alone
      <4>2. d.arg = 0 /\ d.rpc # "Browse" /\ (d.at = "sent" => d.pair = 0)
        BY <2>1, <3>2, <3>6 DEF Asks, Gets, Mine, Known
      <4>3. ~Brings(d)
        <5>1. Brings(d) => d.reply.pair # 0
          BY <3>1 DEF Types, CallsOK, Place
        <5> QED
          BY <2>1, <3>2, <3>6, <4>1, <5>1 DEF Gets, Mine
      <4>4. ~(d.at = "served" /\ d.reply.code = "ok"
              /\ d.rpc \in {"Browse", "GetPermissionState"})
        BY <2>1, <3>2, <3>6 DEF Gets, Known
      <4> QED
        BY <1>3, <3>1, <3>3, <3>4, <4>1, <4>2, <4>3, <4>4 DEF Joins, Asks, Gets, Mine
    <3> QED
      BY <3>5, <3>6
  <2>4. Whole(s, pairs)
    BY <1>3, <2>2 DEF Whole
  <2> QED
    BY <1>2, <1>3, <2>2, <2>3, <2>4 DEF Room, Mine
<1>7. CASE ~s.crossed /\ c.rpc # "Login"
  <2>1. ~store.crossed /\ c.epoch = store.epoch
    BY <1>3, <1>7
  <2>2. store.tokens # 0 /\ pairs[s.tokens].user = pairs[store.tokens].user
    BY <1>2, <1>3, <1>4, <1>7, <2>1 DEF Gets, Mine
  <2>3. s.tokens # 0
    BY <1>2, <1>3
  <2>4. \A p : Mine(p, store, pairs) => Mine(p, s, pairs)
    BY <2>2, <2>3 DEF Mine
  <2>5. \A u : Known(u, store, pairs) => Known(u, s, pairs)
    BY <2>2, <2>3 DEF Known
  <2>6. ASSUME NEW o \in All, o # t
        PROVE  Joins(o, call[o], s) /\ Gets(call[o], s, pairs)
    <3>1. Joins(o, call[o], store) /\ Gets(call[o], store, pairs)
      BY <1>4, <2>6 DEF Room
    <3>2. call[o].epoch = store.epoch => call[o].rpc # "Login"
      BY <2>1, <2>2, <3>1 DEF Joins, Asks
    <3> QED
      BY <1>3, <1>7, <2>1, <2>4, <2>5, <3>1, <3>2 DEF Joins, Asks, Gets
  <2>7. Whole(s, pairs)
    BY <1>3, <1>4, <2>1, <2>5 DEF Room, Whole
  <2> QED
    BY <1>3, <1>4, <2>1, <2>3, <2>4, <2>6, <2>7 DEF Room, Asks
<1> QED
  BY <1>5, <1>6, <1>7

\* The profile or the permission state of a reply, or none.
LEMMA ShownRoom ==
    ASSUME Types, Agree, NEW t \in All, NEW c, c = call[t], NEW s,
           \/ /\ s = WithUser(c, store) /\ c.at = "served" /\ c.reply.code = "ok"
              /\ c.rpc = "Browse"
           \/ /\ s = WithPerms(c, store) /\ c.at = "served" /\ c.reply.code = "ok"
              /\ c.rpc = "GetPermissionState"
           \/ s = [store EXCEPT !.perms = NoPerms]
    PROVE  /\ Room(t, s) /\ s \in StoreRecord(Len(pairs)) /\ s.refreshing = store.refreshing
           /\ c.kind = "init" => s.identity = s.tokens
           /\ ~s.crossed /\ s \in {WithUser(c, store), WithPerms(c, store)} =>
                 Mine(c.arg, s, pairs)
<1>1. store \in StoreRecord(Len(pairs)) /\ Len(pairs) \in Nat
  BY StoreIs
<1>2. c \in CallRecord(Len(pairs))
  BY DEF Types, CallsOK
<1>3. Asks(c, store, pairs) /\ Gets(c, store, pairs) /\ Room(t, store)
  BY RoomNow
<1>4. /\ s \in StoreRecord(Len(pairs)) /\ s.tokens = store.tokens /\ s.identity = store.identity
      /\ s.epoch = store.epoch /\ s.initialized = store.initialized
      /\ s.refreshing = store.refreshing
      /\ ~s.crossed => ~store.crossed
      /\ ~s.crossed /\ s \in {WithUser(c, store), WithPerms(c, store)} =>
            c.epoch = store.epoch
      /\ ~s.crossed /\ s.user # NoUser => Known(s.user, store, pairs)
      /\ ~s.crossed /\ s.perms.user # NoUser => Known(s.perms.user, store, pairs)
  <2>1. /\ ~store.crossed /\ store.user # NoUser => Known(store.user, store, pairs)
        /\ ~store.crossed /\ store.perms.user # NoUser => Known(store.perms.user, store, pairs)
    BY <1>3 DEF Room, Whole
  <2>2. CASE /\ s = WithUser(c, store) /\ c.at = "served" /\ c.reply.code = "ok"
             /\ c.rpc = "Browse"
    <3>1. /\ s \in StoreRecord(Len(pairs)) /\ s.tokens = store.tokens
          /\ s.identity = store.identity /\ s.user = c.reply.user /\ s.perms = store.perms
          /\ s.epoch = store.epoch /\ s.initialized = store.initialized
          /\ s.refreshing = store.refreshing
          /\ s.crossed <=> store.crossed \/ c.epoch # store.epoch
      BY <1>1, <1>2, <2>2, WithUserIs
    <3> QED
      BY <1>3, <2>1, <2>2, <3>1 DEF Gets
  <2>3. CASE /\ s = WithPerms(c, store) /\ c.at = "served" /\ c.reply.code = "ok"
             /\ c.rpc = "GetPermissionState"
    <3>1. /\ s \in StoreRecord(Len(pairs)) /\ s.tokens = store.tokens
          /\ s.identity = store.identity /\ s.user = store.user
          /\ s.perms.user = c.reply.user
          /\ s.epoch = store.epoch /\ s.initialized = store.initialized
          /\ s.refreshing = store.refreshing
          /\ s.crossed <=> store.crossed \/ c.epoch # store.epoch
      BY <1>1, <1>2, <2>3, WithPermsIs
    <3> QED
      BY <1>3, <2>1, <2>3, <3>1 DEF Gets
  <2>4. CASE s = [store EXCEPT !.perms = NoPerms]
    <3>1. NoPerms.user = NoUser /\ s \in StoreRecord(Len(pairs))
      BY <1>1, <2>4, StoreFields DEF NoPerms
    <3>2. /\ s.tokens = store.tokens
          /\ s.identity = store.identity /\ s.user = store.user /\ s.perms = NoPerms
          /\ s.epoch = store.epoch /\ s.initialized = store.initialized
          /\ s.refreshing = store.refreshing /\ s.crossed = store.crossed
      BY <1>1, <2>4 DEF StoreRecord
    <3>3. s = WithUser(c, store) => (s.crossed <=> store.crossed \/ c.epoch # store.epoch)
      BY <1>1, <1>2, WithUserIs
    <3>4. s = WithPerms(c, store) => (s.crossed <=> store.crossed \/ c.epoch # store.epoch)
      BY <1>1, <1>2, WithPermsIs
    <3> QED
      BY <2>1, <2>4, <3>1, <3>2, <3>3, <3>4
  <2> QED
    BY <2>2, <2>3, <2>4
<1>5. \A p : Mine(p, store, pairs) <=> Mine(p, s, pairs)
  BY <1>4 DEF Mine
<1>6. \A u : Known(u, store, pairs) <=> Known(u, s, pairs)
  BY <1>4 DEF Known
<1>7. Whole(s, pairs)
  BY <1>3, <1>4, <1>6 DEF Room, Whole
<1>8. ASSUME NEW o \in All, o # t
      PROVE  Joins(o, call[o], s) /\ Gets(call[o], s, pairs)
  <2>1. Joins(o, call[o], store) /\ Gets(call[o], store, pairs)
    BY <1>3, <1>8 DEF Room
  <2> QED
    BY <1>4, <1>5, <1>6, <2>1 DEF Joins, Asks, Gets, Alone
<1> QED
  BY <1>3, <1>4, <1>5, <1>7, <1>8 DEF Room, Asks

\* The next request of a call joins the session it is made in.
LEMMA NextJoins ==
    ASSUME Types, NEW t \in All, NEW c, Form(t, c, Len(pairs)), NEW s \in StoreRecord(Len(pairs)),
           NEW r, \/ r = Rpc(c, "GetPermissionState", s)
                  \/ r = Browse(c, s) /\ (s.user # NoUser \/ s.identity # 0),
           Whole(s, pairs), c.kind = "init" => s.identity = s.tokens /\ c.arg = 0,
           ~s.crossed => Mine(c.arg, s, pairs)
    PROVE  /\ Joins(t, r, s) /\ r \in CallRecord(Len(pairs))
<1>1. /\ Form(t, r, Len(pairs)) /\ r.rpc \in {"GetPermissionState", "Browse"}
      /\ r.epoch = s.epoch /\ r.kind = c.kind /\ r.arg = c.arg
      /\ r.rpc = "Browse" =>
            r.user = IF s.user # NoUser THEN s.user ELSE pairs[s.identity].user
      /\ r.rpc = "Browse" => s.user # NoUser \/ s.identity # 0
  BY NextRpc
<1>2. ~s.crossed /\ r.rpc = "Browse" => Known(r.user, s, pairs)
  BY <1>1 DEF Whole, Known
<1>3. s.epoch \in Nat
  BY DEF StoreRecord
<1> QED
  BY <1>1, <1>2, <1>3 DEF Joins, Asks, Form

LEMMA FailsAgree ==
    ASSUME Types, Agree, NEW t \in Calls, Fails(t), UNCHANGED pairs
    PROVE  Agree'
<1>1. t \in All /\ store \in StoreRecord(Len(pairs))
  BY StoreIs DEF All
<1>2. Room(t, store) /\ (call[t].kind = "init" => store.identity = store.tokens)
  BY <1>1, RoomNow DEF Asks
<1>3. PICK s : /\ End(t, s)
               /\ s \in {Cleared(store), [store EXCEPT !.perms = NoPerms], store}
  BY DEF Fails
<1>4. CASE s = Cleared(store)
  <2>1. Room(t, s) /\ s.identity = s.tokens /\ s \in StoreRecord(Len(pairs))
    BY <1>1, <1>4, ClearedRoom
  <2> QED
    BY <1>3, <2>1, EndAgree
<1>5. CASE s = [store EXCEPT !.perms = NoPerms]
  <2>1. /\ Room(t, s) /\ s \in StoreRecord(Len(pairs))
        /\ call[t].kind = "init" => s.identity = s.tokens
    BY <1>1, <1>5, ShownRoom
  <2> QED
    BY <1>3, <2>1, EndAgree
<1>6. CASE s = store
  BY <1>1, <1>2, <1>3, <1>6, EndAgree
<1> QED
  BY <1>3, <1>4, <1>5, <1>6

LEMMA DeliverAgree ==
    ASSUME Types, Agree, NEW t \in Calls, Deliver(t)
    PROVE  Agree'
<1>1. UNCHANGED pairs /\ t \in All /\ t # Renewal /\ call[t].at = "served"
  BY Names DEF Deliver, All
<1>2. store \in StoreRecord(Len(pairs)) /\ Len(pairs) \in Nat
  BY StoreIs
<1>3. PICK c : c = call[t]
  OBVIOUS
<1>4. c \in CallRecord(Len(pairs)) /\ Form(t, c, Len(pairs))
  BY <1>1, <1>3 DEF Types, CallsOK
<1>5. Room(t, store) /\ Joins(t, c, store) /\ Asks(c, store, pairs)
  BY <1>1, <1>3, RoomNow
<1>6. CASE Renews(t) /\ Await(t, Waiting(c, "post"), store, FALSE)
  <2>1. "post" \in Waits
    BY DEF Waits
  <2> QED
    BY <1>1, <1>2, <1>4, <1>5, <1>6, <2>1, AwaitAgree
<1>7. CASE c.reply.code = "ok" /\ Continue(t)
  <2>1. CASE c.rpc \in {"Login", "SwitchCompanyScope"}
    <3>1. PICK s : s = WithPair(c, store)
      OBVIOUS
    <3>2. Brings(c)
      BY <1>1, <1>3, <1>7, <2>1 DEF Brings
    <3>3. /\ Room(t, s) /\ s.identity = s.tokens /\ s.tokens # 0
          /\ s \in StoreRecord(Len(pairs))
          /\ ~s.crossed => Mine(c.arg, s, pairs)
      BY <1>1, <1>3, <3>1, <3>2, PairRoom
    <3>4. Whole(s, pairs)
      BY <3>3 DEF Room
    <3>5. c.kind = "init" => s.identity = s.tokens /\ c.arg = 0
      BY <1>5, <3>3 DEF Asks
    <3>6. PICK r : r = IF c.rpc = "Login" THEN Browse(c, s) ELSE Rpc(c, "GetPermissionState", s)
      OBVIOUS
    <3>7. Enter(t, r, s)
      BY <1>3, <1>7, <2>1, <3>1, <3>6 DEF Continue
    <3>8. Joins(t, r, s) /\ r \in CallRecord(Len(pairs))
      BY <1>1, <1>4, <3>3, <3>4, <3>5, <3>6, NextJoins
    <3> QED
      BY <1>1, <3>3, <3>7, <3>8, EnterAgree
  <2>2. CASE c.rpc \in {"GetPermissionState", "Browse"}
    <3>1. PICK s : s = IF c.rpc = "Browse" THEN WithUser(c, store) ELSE WithPerms(c, store)
      OBVIOUS
    <3>2. End(t, s)
      BY <1>3, <1>7, <2>2, <3>1 DEF Continue
    <3>3. /\ Room(t, s) /\ s \in StoreRecord(Len(pairs))
          /\ c.kind = "init" => s.identity = s.tokens
      BY <1>1, <1>3, <1>7, <2>2, <3>1, ShownRoom
    <3> QED
      BY <1>1, <1>3, <3>2, <3>3, EndAgree
  <2>3. CASE c.rpc = "UpdateById" /\ (InFlight \/ store.tokens # 0)
    <3>1. Await(t, Waiting(c, "renew"), store, TRUE) /\ "renew" \in Waits
      BY <1>3, <1>7, <2>3 DEF Continue, Waits
    <3> QED
      BY <1>1, <1>2, <1>4, <1>5, <3>1, AwaitAgree
  <2>4. CASE c.rpc = "Logout"
    <3>1. PICK s : s = Cleared(store)
      OBVIOUS
    <3>2. End(t, s)
      BY <1>3, <1>7, <2>4, <3>1 DEF Continue
    <3>3. Room(t, s) /\ s.identity = s.tokens /\ s \in StoreRecord(Len(pairs))
      BY <1>1, <3>1, ClearedRoom
    <3> QED
      BY <1>1, <3>2, <3>3, EndAgree
  <2>5. CASE \/ c.rpc = "UpdateById" /\ ~(InFlight \/ store.tokens # 0)
             \/ c.rpc \notin {"Login", "SwitchCompanyScope", "GetPermissionState", "Browse",
                              "UpdateById", "Logout"}
    <3>1. End(t, store)
      BY <1>3, <1>7, <2>5 DEF Continue
    <3>2. call[t].kind = "init" => store.identity = store.tokens
      BY <1>3, <1>5 DEF Asks
    <3> QED
      BY <1>1, <1>2, <1>5, <3>1, <3>2, EndAgree
  <2> QED
    BY <2>1, <2>2, <2>3, <2>4, <2>5
<1>8. CASE Fails(t)
  BY <1>1, <1>8, FailsAgree
<1> QED
  BY <1>3, <1>6, <1>7, <1>8 DEF Deliver

LEMMA LoadPermsAgree ==
    ASSUME Types, NEW c, Form(Renewal, c, Len(pairs)), NEW s \in StoreRecord(Len(pairs)),
           LoadPerms(c, s), UNCHANGED pairs, InFlight, Room(Renewal, s),
           c.kind = "init" => s.identity = s.tokens /\ c.arg = 0,
           ~s.crossed => Mine(c.arg, s, pairs)
    PROVE  Agree'
<1>1. CASE Settle("ok", s)
  BY <1>1, SettleAgree
<1>2. CASE Enter(Renewal, Rpc(c, "GetPermissionState", s), s)
  <2>1. PICK r : r = Rpc(c, "GetPermissionState", s)
    OBVIOUS
  <2>2. Renewal \in All /\ Whole(s, pairs)
    BY DEF All, Room
  <2>3. Joins(Renewal, r, s) /\ r \in CallRecord(Len(pairs))
    BY <2>1, <2>2, NextJoins
  <2> QED
    BY <1>2, <2>1, <2>2, <2>3, EnterAgree
<1> QED
  BY <1>1, <1>2 DEF LoadPerms

LEMMA DeliverRefreshAgree ==
    ASSUME Types, Agree, DeliverRefresh
    PROVE  Agree'
<1>1. /\ UNCHANGED pairs /\ Renewal \in All /\ call[Renewal].at = "served" /\ InFlight
  BY DEF DeliverRefresh, All, InFlight
<1>2. store \in StoreRecord(Len(pairs)) /\ Len(pairs) \in Nat
  BY StoreIs
<1>3. PICK c : c = call[Renewal]
  OBVIOUS
<1>4. c \in CallRecord(Len(pairs)) /\ Form(Renewal, c, Len(pairs)) /\ Place(Renewal, c)
  BY <1>1, <1>3 DEF Types, CallsOK
<1>5. Room(Renewal, store) /\ Joins(Renewal, c, store) /\ Asks(c, store, pairs)
  BY <1>1, <1>3, RoomNow
<1>6. CASE Renews(Renewal) /\ Await(Renewal, Waiting(c, "post"), store, FALSE)
  <2>1. "post" \in Waits
    BY DEF Waits
  <2> QED
    BY <1>1, <1>2, <1>4, <1>5, <1>6, <2>1, AwaitAgree
<1>7. CASE c.reply.code = "ok" /\ ContinueRefresh
  <2>1. CASE c.rpc = "RefreshTokens"
    <3>1. PICK s : s = WithPair(c, store)
      OBVIOUS
    <3>2. PICK b \in BOOLEAN :
             b = (c.before = 0 \/ pairs[c.reply.pair]["perm"] # pairs[c.before]["perm"])
      OBVIOUS
    <3>3. PICK r : r = [c EXCEPT !.perms = b]
      OBVIOUS
    <3>4. Enter(Renewal, Browse(r, s), s) \/ LoadPerms(r, s)
      BY <1>3, <1>7, <2>1, <3>1, <3>2, <3>3 DEF ContinueRefresh
    <3>5. Brings(c)
      BY <1>1, <1>3, <1>7, <2>1 DEF Brings
    <3>6. /\ Room(Renewal, s) /\ s.identity = s.tokens /\ s.tokens # 0
          /\ s \in StoreRecord(Len(pairs))
          /\ ~s.crossed => Mine(c.arg, s, pairs)
      BY <1>1, <1>3, <3>1, <3>5, PairRoom
    <3>7. Form(Renewal, r, Len(pairs)) /\ r.kind = c.kind /\ r.arg = c.arg
      BY <1>4, <3>3 DEF Form, CallRecord
    <3>8. r.kind = "init" => s.identity = s.tokens /\ r.arg = 0
      BY <1>5, <3>6, <3>7 DEF Asks
    <3>9. CASE Enter(Renewal, Browse(r, s), s)
      <4>1. PICK q : q = Browse(r, s)
        OBVIOUS
      <4>2. Whole(s, pairs)
        BY <3>6 DEF Room
      <4>3. Joins(Renewal, q, s) /\ q \in CallRecord(Len(pairs))
        BY <1>1, <3>6, <3>7, <3>8, <4>1, <4>2, NextJoins
      <4> QED
        BY <1>1, <3>6, <3>9, <4>1, <4>3, EnterAgree
    <3>10. CASE LoadPerms(r, s)
      BY <1>1, <3>6, <3>7, <3>8, <3>10, LoadPermsAgree
    <3> QED
      BY <3>4, <3>9, <3>10
  <2>2. CASE c.rpc \in {"Browse", "GetPermissionState"}
    <3>1. PICK s : s = IF c.rpc = "Browse" THEN WithUser(c, store) ELSE WithPerms(c, store)
      OBVIOUS
    <3>2. /\ Room(Renewal, s) /\ s \in StoreRecord(Len(pairs))
          /\ c.kind = "init" => s.identity = s.tokens
          /\ ~s.crossed => Mine(c.arg, s, pairs)
      BY <1>1, <1>3, <1>7, <2>2, <3>1, ShownRoom
    <3>3. c.kind = "init" => s.identity = s.tokens /\ c.arg = 0
      BY <1>5, <3>2 DEF Asks
    <3>4. LoadPerms(c, s) \/ Settle("ok", s)
      BY <1>3, <1>7, <2>2, <3>1 DEF ContinueRefresh
    <3> QED
      BY <1>1, <1>4, <3>2, <3>3, <3>4, LoadPermsAgree, SettleAgree
  <2> QED
    BY <1>1, <1>3, <1>4, <2>1, <2>2 DEF Form, Place
<1>8. CASE Settle("error", Cleared(store))
  <2>1. PICK s : s = Cleared(store)
    OBVIOUS
  <2>2. Room(Renewal, s) /\ s \in StoreRecord(Len(pairs))
    BY <1>1, <2>1, ClearedRoom
  <2> QED
    BY <1>1, <1>8, <2>1, <2>2, SettleAgree
<1> QED
  BY <1>3, <1>6, <1>7, <1>8 DEF DeliverRefresh

LEMMA ResumeAgree ==
    ASSUME Types, Agree, NEW t \in Calls, Resume(t)
    PROVE  Agree'
<1>1. UNCHANGED pairs /\ t \in All /\ t # Renewal /\ call[t].at \in Waits
  BY Names DEF Resume, All
<1>2. store \in StoreRecord(Len(pairs)) /\ Len(pairs) \in Nat
  BY StoreIs
<1>3. PICK c : c = call[t]
  OBVIOUS
<1>4. c \in CallRecord(Len(pairs)) /\ Form(t, c, Len(pairs)) /\ Place(t, c)
  BY <1>1, <1>3 DEF Types, CallsOK
<1>5. /\ Room(t, store) /\ Joins(t, c, store)
      /\ c.kind = "init" => store.identity = store.tokens /\ c.arg = 0
  BY <1>1, <1>3, RoomNow DEF Asks
<1>6. PICK q : q = Sent(c, store)
  OBVIOUS
<1>7. /\ Joins(t, q, store) /\ Gets(q, store, pairs) /\ q \in CallRecord(Len(pairs))
      /\ q.at = "sent"
  BY <1>2, <1>4, <1>5, <1>6, SentJoins, SentIs
<1>8. CASE Put(t, q, store)
  BY <1>1, <1>7, <1>5, <1>8, PutAgree
<1>9. CASE call' = [call EXCEPT ![t] = [q EXCEPT !.retried = TRUE]] /\ UNCHANGED store
  <2>1. PICK r : r = [q EXCEPT !.retried = TRUE]
    OBVIOUS
  <2>2. /\ r.kind = q.kind /\ r.rpc = q.rpc /\ r.arg = q.arg /\ r.user = q.user
        /\ r.epoch = q.epoch /\ r.at = q.at /\ r.pair = q.pair /\ r.reply = q.reply
    BY <1>7, <2>1 DEF CallRecord
  <2>3. Joins(t, r, store) /\ Gets(r, store, pairs)
    BY <1>7, <2>2 DEF Joins, Asks, Gets, Brings
  <2> QED
    BY <1>1, <1>5, <1>9, <2>1, <2>3, PutAgree DEF Put
<1>10. CASE Fails(t)
  BY <1>1, <1>10, FailsAgree
<1>11. CASE End(t, store)
  BY <1>1, <1>2, <1>3, <1>5, <1>11, EndAgree
<1>12. CASE End(t, Cleared(store))
  <2>1. PICK s : s = Cleared(store)
    OBVIOUS
  <2>2. Room(t, s) /\ s.identity = s.tokens /\ s \in StoreRecord(Len(pairs))
    BY <1>1, <2>1, ClearedRoom
  <2> QED
    BY <1>1, <1>12, <2>1, <2>2, EndAgree
<1>13. CASE c.kind = "init" /\ store.identity # 0 /\ Enter(t, Browse(c, store), store)
  <2>1. PICK r : r = Browse(c, store)
    OBVIOUS
  <2>2. Whole(store, pairs) /\ Mine(c.arg, store, pairs)
    BY <1>5, <1>13 DEF Room, Mine
  <2>3. Joins(t, r, store) /\ r \in CallRecord(Len(pairs))
    BY <1>1, <1>2, <1>4, <1>5, <1>13, <2>1, <2>2, NextJoins
  <2> QED
    BY <1>1, <1>2, <1>5, <1>13, <2>1, <2>3, EnterAgree
<1>14. c.at \in {"pre", "post"} \/ (c.at = "renew" /\ c.kind \in {"init", "prefer"})
  BY <1>1, <1>3, <1>4 DEF Place, Waits
<1> QED
  BY <1>3, <1>6, <1>8, <1>9, <1>10, <1>11, <1>12, <1>13, <1>14 DEF Resume, Put

LEMMA BeginAgree ==
    ASSUME Types, Agree, NEW t \in Calls, Begin(t)
    PROVE  Agree'
<1>1. UNCHANGED pairs /\ t \in All /\ t # Renewal
  BY Names DEF Begin, All
<1>2. store \in StoreRecord(Len(pairs)) /\ Len(pairs) \in Nat
  BY StoreIs
<1>3. Room(t, store) /\ Whole(store, pairs)
  BY <1>1, RoomNow DEF Room
\* A new call belongs to the session it is made in.
<1>4. ASSUME NEW kind \in AllKinds \ {"init"}, NEW name \in Rpcs \ {"Browse"},
             NEW s \in StoreRecord(Len(pairs)), NEW r, r = Rpc(New(kind), name, s),
             name = "Login" => s.tokens = 0 /\ Alone(t, s)
      PROVE  Joins(t, r, s) /\ r \in CallRecord(Len(pairs)) /\ r.kind = kind
  <2>1. PICK k : k = New(kind)
    OBVIOUS
  <2>2. k \in CallRecord(Len(pairs)) /\ k.kind = kind /\ k.arg = 0
    BY <1>2, <2>1, NewIs
  <2>3. /\ r \in CallRecord(Len(pairs)) /\ r.rpc = name /\ r.kind = kind /\ r.arg = 0
        /\ r.epoch = s.epoch
    BY <1>2, <1>4, <2>1, <2>2, RpcIs
  <2>4. s.epoch \in Nat
    BY DEF StoreRecord
  <2> QED
    BY <1>4, <2>3, <2>4 DEF Joins, Asks, Mine
<1>5. CASE BeginApi(t)
  <2>1. PICK r : r = Rpc(New("api"), "Api", store)
    OBVIOUS
  <2>2. Joins(t, r, store) /\ r \in CallRecord(Len(pairs))
    BY <1>2, <1>4, <2>1 DEF AllKinds, Rpcs
  <2> QED
    BY <1>1, <1>2, <1>3, <1>5, <2>1, <2>2, EnterAgree DEF BeginApi
<1>6. CASE BeginLogin(t)
  <2>1. PICK s : s = Cleared(store)
    OBVIOUS
  <2>2. /\ Room(t, s) /\ Alone(t, s) /\ s \in StoreRecord(Len(pairs)) /\ s.tokens = 0
    BY <1>1, <2>1, ClearedRoom
  <2>3. PICK r : r = Rpc(New("login"), "Login", s)
    OBVIOUS
  <2>4. Joins(t, r, s) /\ r \in CallRecord(Len(pairs))
    BY <1>2, <1>4, <2>2, <2>3 DEF AllKinds, Rpcs
  <2>5. Enter(t, r, s)
    BY <1>6, <2>1, <2>3 DEF BeginLogin
  <2> QED
    BY <1>1, <2>2, <2>4, <2>5, EnterAgree
<1>7. CASE BeginLogout(t)
  <2>1. CASE store' = Cleared(store) /\ UNCHANGED call
    <3>1. PICK s : s = Cleared(store)
      OBVIOUS
    <3>2. /\ \A o \in All : Room(o, s)
          /\ s \in StoreRecord(Len(pairs))
      BY <1>1, <3>1, ClearedRoom
    <3>3. Whole(s, pairs)
      BY <1>1, <3>2 DEF Room
    <3>4. \A o \in All : Joins(o, call[o], s) /\ Gets(call[o], s, pairs)
      <4>1. \A o \in All : \E x \in All : o # x
        BY <1>1 DEF All
      <4> QED
        BY <3>2, <4>1 DEF Room
    <3> QED
      BY <1>1, <2>1, <3>1, <3>3, <3>4 DEF Agree, Joins, Alone
  <2>2. CASE store.tokens # 0
    <3>1. PICK r : r = Rpc(New("logout"), "Logout", store)
      OBVIOUS
    <3>2. PICK q : q = [r EXCEPT !.arg = store.tokens]
      OBVIOUS
    <3>3. Joins(t, r, store) /\ r \in CallRecord(Len(pairs)) /\ r.kind = "logout"
      BY <1>2, <1>4, <3>1 DEF AllKinds, Rpcs
    <3>4. /\ q \in CallRecord(Len(pairs)) /\ q.kind = r.kind /\ q.epoch = r.epoch
          /\ q.rpc = r.rpc /\ q.user = r.user /\ q.arg = store.tokens
      BY <1>2, <3>2, <3>3 DEF CallRecord, StoreRecord
    <3>5. Joins(t, q, store)
      BY <3>3, <3>4 DEF Joins, Asks, Mine
    <3>6. Enter(t, q, store)
      BY <1>7, <2>2, <3>1, <3>2 DEF BeginLogout
    <3> QED
      BY <1>1, <1>2, <1>3, <3>4, <3>5, <3>6, EnterAgree
  <2> QED
    BY <1>7, <2>1, <2>2 DEF BeginLogout
<1>8. CASE BeginSwitch(t) \/ BeginPerms(t)
  <2>1. ASSUME NEW q, \/ q = Rpc(New("switch"), "SwitchCompanyScope", store)
                      \/ q = Rpc(New("perms"), "GetPermissionState", store)
        PROVE  Joins(t, q, store) /\ q \in CallRecord(Len(pairs))
    BY <1>2, <1>4, <2>1 DEF AllKinds, Rpcs
  <2>2. \E q : /\ \/ q = Rpc(New("switch"), "SwitchCompanyScope", store)
                  \/ q = Rpc(New("perms"), "GetPermissionState", store)
               /\ Enter(t, q, store)
    BY <1>8 DEF BeginSwitch, BeginPerms
  <2> QED
    BY <1>1, <1>2, <1>3, <2>1, <2>2, EnterAgree
<1>9. CASE BeginPrefer(t)
  <2>1. PICK k, r : k = New("prefer") /\ r = AboutUser(k, "UpdateById", store)
    OBVIOUS
  <2>2. k \in CallRecord(Len(pairs)) /\ k.kind = "prefer" /\ k.arg = 0 /\ "UpdateById" \in Rpcs
    BY <1>2, <2>1, NewIs DEF AllKinds, Rpcs
  <2>3. /\ r \in CallRecord(Len(pairs)) /\ r.rpc = "UpdateById" /\ r.epoch = store.epoch
        /\ r.kind = "prefer" /\ r.arg = 0
    BY <1>2, <1>9, <2>1, <2>2, AboutUserIs, PairsIs DEF BeginPrefer
  <2>4. store.epoch \in Nat
    BY <1>2 DEF StoreRecord
  <2>5. Joins(t, r, store)
    BY <2>3, <2>4 DEF Joins, Asks, Mine
  <2> QED
    BY <1>1, <1>2, <1>3, <1>9, <2>1, <2>3, <2>5, EnterAgree DEF BeginPrefer
<1>10. CASE BeginInit(t)
  <2>1. PICK s, c : s = [store EXCEPT !.identity = store.tokens] /\ c = New("init")
    OBVIOUS
  <2>2. /\ s \in StoreRecord(Len(pairs)) /\ s.identity = s.tokens /\ s.epoch = store.epoch
        /\ s.tokens = store.tokens /\ s.user = store.user /\ s.perms = store.perms
        /\ s.crossed = store.crossed
    BY <1>2, <2>1 DEF StoreRecord
  <2>3. /\ c \in CallRecord(Len(pairs)) /\ c.kind = "init" /\ c.rpc = "none" /\ c.arg = 0
        /\ c.epoch = 0 /\ ~c.retried
    BY <1>2, <2>1, NewIs DEF AllKinds
  <2>4. Whole(s, pairs)
    BY <1>3, <2>2 DEF Whole, Known
  <2>5. ASSUME NEW o \in All
        PROVE  Joins(o, call[o], s) /\ Gets(call[o], s, pairs)
    <3>1. Joins(o, call[o], store) /\ Gets(call[o], store, pairs)
      BY DEF Agree
    <3> QED
      BY <2>2, <3>1 DEF Joins, Asks, Gets, Mine, Known, Alone
  <2>6. Room(t, s)
    BY <2>4, <2>5 DEF Room
  <2>7. CASE s.tokens = 0 /\ store' = [Cleared(store) EXCEPT !.initialized = TRUE] /\ UNCHANGED call
    <3>1. PICK q : q = Cleared(store)
      OBVIOUS
    <3>2. \A o \in All : Room(o, q)
      BY <3>1, ClearedRoom
    <3>3. q \in StoreRecord(Len(pairs)) /\ q.identity = q.tokens
      BY <1>1, <3>1, ClearedRoom
    <3>4. PICK r : r = [q EXCEPT !.initialized = TRUE]
      OBVIOUS
    <3>5. /\ r.tokens = q.tokens /\ r.identity = q.identity /\ r.epoch = q.epoch
          /\ r.user = q.user /\ r.perms = q.perms /\ r.crossed = q.crossed
      BY <3>3, <3>4 DEF StoreRecord
    <3>6. Whole(r, pairs)
      BY <1>1, <3>2, <3>3, <3>5 DEF Room, Whole, Known
    <3>7. \A o \in All : Joins(o, call[o], r) /\ Gets(call[o], r, pairs)
      <4>1. \A o \in All : \E x \in All : o # x
        BY <1>1 DEF All
      <4>2. \A o \in All : Joins(o, call[o], q) /\ Gets(call[o], q, pairs)
        BY <3>2, <4>1 DEF Room
      <4> QED
        BY <3>5, <4>2, SameSession
    <3> QED
      BY <1>1, <2>7, <3>1, <3>4, <3>6, <3>7 DEF Agree, Joins, Alone
  <2>8. CASE Await(t, Waiting(c, "renew"), s, FALSE)
    <3>1. s.epoch \in Nat /\ "renew" \in Waits
      BY <2>2 DEF StoreRecord, Waits
    <3>2. Joins(t, c, s)
      BY <2>2, <2>3, <3>1 DEF Joins, Asks, Mine
    <3> QED
      BY <1>1, <2>2, <2>3, <2>6, <2>8, <3>1, <3>2, AwaitAgree
  <2>9. CASE store' = [s EXCEPT !.initialized = TRUE] /\ UNCHANGED call
    <3>1. PICK r : r = [s EXCEPT !.initialized = TRUE]
      OBVIOUS
    <3>2. /\ r.tokens = s.tokens /\ r.identity = s.identity /\ r.epoch = s.epoch
          /\ r.user = s.user /\ r.perms = s.perms /\ r.crossed = s.crossed
      BY <2>2, <3>1 DEF StoreRecord
    <3>3. Whole(r, pairs)
      BY <2>2, <2>4, <3>2 DEF Whole, Known
    <3>4. \A o \in All : Joins(o, call[o], r) /\ Gets(call[o], r, pairs)
      BY <2>5, <3>2, SameSession
    <3> QED
      BY <1>1, <2>9, <3>1, <3>3, <3>4 DEF Agree, Joins, Alone
  <2>10. CASE s.tokens # 0 /\ Enter(t, Browse(c, s), s)
    <3>1. PICK r : r = Browse(c, s)
      OBVIOUS
    <3>2. Form(t, c, Len(pairs)) /\ Mine(c.arg, s, pairs)
      BY <1>1, <2>3 DEF Form, Mine
    <3>3. Joins(t, r, s) /\ r \in CallRecord(Len(pairs))
      BY <1>1, <2>2, <2>3, <2>4, <2>10, <3>1, <3>2, NextJoins
    <3> QED
      BY <1>1, <2>2, <2>6, <2>10, <3>1, <3>3, EnterAgree
  <2> QED
    BY <1>10, <2>1, <2>2, <2>7, <2>8, <2>9, <2>10 DEF BeginInit, Due
<1> QED
  BY <1>5, <1>6, <1>7, <1>8, <1>9, <1>10 DEF Begin

\* Pairs that are issued or grow old keep their users.
LEMMA GrowAgree ==
    ASSUME Types, \A p \in 1 .. Len(pairs) : pairs'[p].user = pairs[p].user
    PROVE  /\ \A p \in 0 .. Len(pairs) : Mine(p, store, pairs) => Mine(p, store, pairs')
           /\ \A u : Known(u, store, pairs) => Known(u, store, pairs')
           /\ Whole(store, pairs) => Whole(store, pairs')
           /\ \A c \in CallRecord(Len(pairs)) :
                 /\ Asks(c, store, pairs) => Asks(c, store, pairs')
                 /\ Gets(c, store, pairs) => Gets(c, store, pairs')
<1>1. store.tokens \in 0 .. Len(pairs) /\ Len(pairs) \in Nat
  BY StoreIs DEF StoreRecord
<1>2. \A p \in 0 .. Len(pairs) : Mine(p, store, pairs) => Mine(p, store, pairs')
  BY <1>1 DEF Mine
<1>3. \A u : Known(u, store, pairs) => Known(u, store, pairs')
  BY <1>1 DEF Known
<1>4. Whole(store, pairs) => Whole(store, pairs')
  BY <1>3 DEF Whole
<1>5. ASSUME NEW c \in CallRecord(Len(pairs))
      PROVE  /\ Asks(c, store, pairs) => Asks(c, store, pairs')
             /\ Gets(c, store, pairs) => Gets(c, store, pairs')
  <2>1. /\ c.arg \in 0 .. Len(pairs) /\ c.pair \in 0 .. Len(pairs)
        /\ c.reply.pair \in 0 .. Len(pairs)
    BY DEF CallRecord, ReplyRecord
  <2>2. Asks(c, store, pairs) => Asks(c, store, pairs')
    BY <1>2, <1>3, <2>1 DEF Asks
  <2>3. Gets(c, store, pairs) => Gets(c, store, pairs')
    BY <1>2, <1>3, <2>1 DEF Gets
  <2> QED
    BY <2>2, <2>3
<1> QED
  BY <1>2, <1>3, <1>4, <1>5

LEMMA AnswersAgree ==
    ASSUME Types, Agree, NEW t \in All, NEW m \in Nat, Len(pairs) <= m,
           NEW reply \in ReplyRecord(m), Answers(t, reply), UNCHANGED store,
           \A p \in 1 .. Len(pairs) : pairs'[p].user = pairs[p].user,
           ~store.crossed /\ call[t].epoch = store.epoch /\ reply.code = "ok" =>
              /\ call[t].rpc \in {"RefreshTokens", "SwitchCompanyScope"} =>
                    Mine(reply.pair, store, pairs')
              /\ call[t].rpc \in {"Browse", "GetPermissionState"} =>
                    Known(reply.user, store, pairs')
    PROVE  Agree'
<1>1. PICK c, r : c = call[t] /\ r = Answer(c, reply)
  OBVIOUS
<1>2. c \in CallRecord(Len(pairs)) /\ Len(pairs) \in Nat
  BY <1>1, PairsIs DEF Types, CallsOK
<1>3. c \in CallRecord(m)
  BY <1>2, Widen
<1>4. /\ r.at = "served" /\ r.reply = reply /\ r.kind = c.kind /\ r.rpc = c.rpc /\ r.arg = c.arg
      /\ r.user = c.user /\ r.epoch = c.epoch
  BY <1>1, <1>3, AnswerIs
<1>5. /\ Asks(c, store, pairs') /\ Whole(store, pairs')
      /\ \A o \in All : Asks(call[o], store, pairs') /\ Gets(call[o], store, pairs')
  <2>1. \A o \in All : /\ call[o] \in CallRecord(Len(pairs))
                       /\ Asks(call[o], store, pairs) /\ Gets(call[o], store, pairs)
    BY DEF Agree, Joins, Types, CallsOK
  <2> QED
    BY <1>1, <2>1, GrowAgree DEF Agree
<1>6. Asks(r, store, pairs') /\ Gets(r, store, pairs')
  BY <1>1, <1>4, <1>5 DEF Asks, Gets, Brings
<1>7. \A o \in All : call'[o] = IF o = t THEN r ELSE call[o]
  BY <1>1, AnswersIs
<1>8. \A o \in All : call'[o].rpc = call[o].rpc /\ call'[o].epoch = call[o].epoch
  BY <1>1, <1>4, <1>7
<1>9. ASSUME NEW o \in All
      PROVE  /\ Asks(call'[o], store', pairs') /\ Gets(call'[o], store', pairs')
             /\ call'[o].rpc = "Login" /\ call'[o].epoch = store'.epoch =>
                   \A x \in All : x # o /\ call'[x].rpc = "Login" => call'[x].epoch # store'.epoch
  <2>1. Asks(call'[o], store', pairs') /\ Gets(call'[o], store', pairs')
    BY <1>5, <1>6, <1>7
  <2>2. call[o].rpc = "Login" /\ call[o].epoch = store.epoch => Alone(o, store)
    BY DEF Agree, Joins
  <2> QED
    BY <1>8, <2>1, <2>2 DEF Alone
<1> QED
  BY <1>5, <1>9 DEF Agree, Joins, Alone

LEMMA RefusesAgree ==
    ASSUME Types, Agree, NEW t \in All, NEW code \in {"unauth", "error"},
           Answers(t, [NoReply EXCEPT !.code = code]), UNCHANGED <<store, pairs>>
    PROVE  Agree'
<1>1. PICK r : r = [NoReply EXCEPT !.code = code]
  OBVIOUS
<1>2. r \in ReplyRecord(Len(pairs)) /\ r.code = code /\ Len(pairs) \in Nat
  BY <1>1, CodeIs, PairsIs
<1>3. \A p \in 1 .. Len(pairs) : pairs'[p].user = pairs[p].user
  OBVIOUS
<1>4. Answers(t, r) /\ r.code # "ok"
  BY <1>1, <1>2
<1>5. Len(pairs) <= Len(pairs)
  BY <1>2
<1> HIDE DEF Answers
<1> QED
  BY <1>2, <1>3, <1>4, <1>5, AnswersAgree

\* A pair is issued to whom the token presented belongs.
LEMMA IssuesAgree ==
    ASSUME Types, Agree, NEW t \in All, NEW u \in Users, NEW v \in Nat, Issues(t, u, v),
           UNCHANGED store, call[t].rpc \in {"Login", "RefreshTokens", "SwitchCompanyScope"},
           ~store.crossed /\ call[t].epoch = store.epoch /\ call[t].rpc # "Login" =>
              Known(u, store, pairs)
    PROVE  Agree'
<1>1. PICK n \in Nat : n = Len(pairs)
  BY PairsIs
<1>2. PICK r : /\ Answers(t, r) /\ r \in ReplyRecord(n + 1) /\ r.code = "ok" /\ r.pair = n + 1
               /\ \A p \in 1 .. n : pairs'[p] = pairs[p]
               /\ pairs'[n + 1].user = u
  BY <1>1, IssuesIs
<1>3. \A p \in 1 .. Len(pairs) : pairs'[p].user = pairs[p].user
  BY <1>1, <1>2
<1>4. Known(u, store, pairs) => Mine(r.pair, store, pairs')
  <2>1. Known(u, store, pairs) => Known(u, store, pairs')
    BY <1>3, GrowAgree
  <2> QED
    BY <1>2, <2>1 DEF Mine, Known
<1>5. Len(pairs) <= n + 1 /\ n + 1 \in Nat
  BY <1>1
<1>6. ~store.crossed /\ call[t].epoch = store.epoch /\ r.code = "ok" =>
         /\ call[t].rpc \in {"RefreshTokens", "SwitchCompanyScope"} =>
               Mine(r.pair, store, pairs')
         /\ call[t].rpc \in {"Browse", "GetPermissionState"} =>
               Known(r.user, store, pairs')
  BY <1>4
<1> QED
  BY <1>2, <1>3, <1>5, <1>6, AnswersAgree

LEMMA ServeAgree ==
    ASSUME Types, Agree, NEW t \in All, Serve(t)
    PROVE  Agree'
<1>1. call[t].at = "sent" /\ UNCHANGED <<store, perm>>
  BY DEF Serve
<1>2. PICK c : c = call[t]
  OBVIOUS
<1>3. c \in CallRecord(Len(pairs)) /\ Form(t, c, Len(pairs)) /\ c.at = "sent"
  BY <1>1, <1>2 DEF Types, CallsOK
<1>4. /\ Len(pairs) \in Nat /\ \A p \in 1 .. Len(pairs) : pairs[p].user \in Users
      /\ \A u \in Users : version[u] \in Nat /\ perm[u] \in Nat
  BY PairsIs DEF Types, ServerOK
<1>5. /\ Asks(c, store, pairs) /\ Gets(c, store, pairs)
      /\ ~store.crossed /\ c.epoch = store.epoch =>
            /\ Mine(c.arg, store, pairs) /\ Mine(c.pair, store, pairs)
            /\ c.rpc = "Browse" => Known(c.user, store, pairs)
  BY <1>2, <1>3, RoomNow DEF Asks, Gets
<1>6. ASSUME NEW code \in {"unauth", "error"}, Refuses(t, code)
      PROVE  Agree'
  BY <1>1, <1>6, RefusesAgree DEF Refuses
<1>7. PICK k : k = [NoReply EXCEPT !.code = "ok"]
  OBVIOUS
<1>8. k \in ReplyRecord(Len(pairs)) /\ k.code = "ok"
  BY <1>4, <1>7, CodeIs
\* An answer without a pair.
<1>9. ASSUME NEW r \in ReplyRecord(Len(pairs)), Answers(t, r), UNCHANGED pairs,
             c.rpc \notin {"RefreshTokens", "SwitchCompanyScope"},
             ~store.crossed /\ c.epoch = store.epoch
                /\ c.rpc \in {"Browse", "GetPermissionState"} => Known(r.user, store, pairs)
      PROVE  Agree'
  <2>1. /\ Len(pairs) <= Len(pairs)
        /\ \A p \in 1 .. Len(pairs) : pairs'[p].user = pairs[p].user
    BY <1>4, <1>9
  <2>2. ~store.crossed /\ call[t].epoch = store.epoch /\ r.code = "ok" =>
           /\ call[t].rpc \in {"RefreshTokens", "SwitchCompanyScope"} =>
                 Mine(r.pair, store, pairs')
           /\ call[t].rpc \in {"Browse", "GetPermissionState"} =>
                 Known(r.user, store, pairs')
    BY <1>2, <1>9
  <2> QED
    BY <1>1, <1>4, <1>9, <2>1, <2>2, AnswersAgree
<1>10. CASE c.rpc = "Login" /\ ServeLogin(t)
  <2>1. ASSUME NEW code \in {"unauth", "error"}, Refuses(t, code)
        PROVE  Agree'
    BY <1>6, <2>1
  <2>2. ASSUME NEW u \in Users, Issues(t, u, version[u])
        PROVE  Agree'
    BY <1>1, <1>2, <1>4, <1>10, <2>2, IssuesAgree
  <2> QED
    BY <1>10, <2>1, <2>2 DEF ServeLogin
<1>11. CASE c.rpc = "RefreshTokens" /\ ServeRefresh(t)
  <2>1. c.arg \in 1 .. Len(pairs)
    BY <1>3, <1>11 DEF Form, CallRecord
  <2>2. CASE Refuses(t, "error")
    BY <1>6, <2>2
  <2>3. CASE Issues(t, pairs[c.arg].user, version[pairs[c.arg].user])
    <3>1. pairs[c.arg].user \in Users /\ version[pairs[c.arg].user] \in Nat
      BY <1>4, <2>1
    <3>2. ~store.crossed /\ c.epoch = store.epoch => Known(pairs[c.arg].user, store, pairs)
      BY <1>5, <2>1 DEF Mine, Known
    <3> QED
      BY <1>1, <1>2, <1>11, <2>3, <3>1, <3>2, IssuesAgree
  <2> QED
    BY <1>2, <1>11, <2>2, <2>3 DEF ServeRefresh
<1>12. CASE Refuses(t, "unauth")
  BY <1>6, <1>12
<1>13. CASE c.rpc = "Logout" /\ ServeLogout(t)
  <2>1. CASE Refuses(t, "error")
    BY <1>6, <2>1
  <2>2. CASE Answers(t, k) /\ UNCHANGED pairs
    BY <1>8, <1>9, <1>13, <2>2
  <2> QED
    BY <1>7, <1>13, <2>1, <2>2 DEF ServeLogout
<1>14. CASE Accepts(c.pair) /\ c.rpc \in {"UpdateById", "SwitchCompanyScope"} /\ ServeWrite(t)
  <2>1. PICK u : u = pairs[c.pair].user
    OBVIOUS
  <2>2. CASE c.rpc = "UpdateById"
    <3>1. Answers(t, k) /\ UNCHANGED pairs
      BY <1>2, <1>7, <1>14, <2>2 DEF ServeWrite
    <3> QED
      BY <1>8, <1>9, <2>2, <3>1
  <2>3. CASE c.rpc = "SwitchCompanyScope"
    <3>1. Issues(t, u, version[u] + 1)
      BY <1>2, <1>14, <2>1, <2>3 DEF ServeWrite
    <3>2. c.pair \in 1 .. Len(pairs)
      BY <1>3, <1>14 DEF Accepts, CallRecord
    <3>3. u \in Users /\ version[u] + 1 \in Nat
      BY <1>4, <2>1, <3>2
    <3>4. ~store.crossed /\ c.epoch = store.epoch => Known(u, store, pairs)
      BY <1>5, <2>1, <3>2 DEF Mine, Known
    <3> QED
      BY <1>1, <1>2, <2>3, <3>1, <3>3, <3>4, IssuesAgree
  <2> QED
    BY <1>14, <2>2, <2>3
<1>15. CASE /\ Accepts(c.pair) /\ c.rpc \in {"Api", "Browse", "GetPermissionState"}
            /\ ServeRead(t)
  <2>1. UNCHANGED pairs
    BY <1>15 DEF ServeRead
  <2>2. CASE c.rpc = "Api"
    <3>1. Answers(t, k)
      BY <1>2, <1>7, <1>15, <2>2 DEF ServeRead
    <3> QED
      BY <1>8, <1>9, <2>1, <2>2, <3>1
  <2>3. CASE c.rpc = "Browse"
    <3>1. PICK r : r = [k EXCEPT !.user = c.user]
      OBVIOUS
    <3>2. r \in ReplyRecord(Len(pairs)) /\ r.user = c.user
      BY <1>3, <1>8, <3>1 DEF ReplyRecord, CallRecord
    <3>3. Answers(t, r)
      BY <1>2, <1>7, <1>15, <2>3, <3>1 DEF ServeRead
    <3> QED
      BY <1>5, <1>9, <2>1, <2>3, <3>2, <3>3
  <2>4. CASE c.rpc = "GetPermissionState"
    <3>1. c.pair \in 1 .. Len(pairs)
      BY <1>3, <1>15 DEF Accepts, CallRecord
    <3>2. PICK u \in Users : u = pairs[c.pair].user
      BY <1>4, <3>1
    <3>3. PICK p \in Nat : p = perm[u]
      BY <1>4
    <3>4. PICK r : r = [k EXCEPT !.user = u, !.perm = p]
      OBVIOUS
    <3>5. r \in ReplyRecord(Len(pairs)) /\ r.user = u
      BY <1>8, <3>4 DEF ReplyRecord
    <3>6. Answers(t, r)
      BY <1>2, <1>7, <1>15, <2>4, <3>2, <3>3, <3>4 DEF ServeRead
    <3>7. ~store.crossed /\ c.epoch = store.epoch => Known(r.user, store, pairs)
      BY <1>5, <3>1, <3>2, <3>5 DEF Mine, Known
    <3> QED
      BY <1>9, <2>1, <2>4, <3>5, <3>6, <3>7
  <2> QED
    BY <1>15, <2>2, <2>3, <2>4
<1> QED
  BY <1>2, <1>10, <1>11, <1>12, <1>13, <1>14, <1>15 DEF Serve

LEMMA LoseAgree ==
    ASSUME Types, Agree, NEW t \in All, Lose(t)
    PROVE  Agree'
<1>1. Answers(t, [NoReply EXCEPT !.code = "error"]) /\ UNCHANGED <<store, pairs>>
  BY DEF Lose
<1> HIDE DEF Answers
<1> QED
  BY <1>1, RefusesAgree

LEMMA ElsewhereAgree ==
    ASSUME Types, Agree, Tick \/ \E u \in Users : Revoke(u) \/ Close(u) \/ Grant(u)
    PROVE  Agree'
<1>1. CASE Tick
  <2>1. /\ \A p \in 1 .. Len(pairs) : pairs'[p].user = pairs[p].user
        /\ UNCHANGED <<call, store>>
    BY <1>1, TickIs
  <2>2. \A o \in All : /\ call[o] \in CallRecord(Len(pairs))
                       /\ Asks(call[o], store, pairs) /\ Gets(call[o], store, pairs)
    BY DEF Agree, Joins, Types, CallsOK
  <2>3. /\ Whole(store, pairs')
        /\ \A o \in All : Asks(call[o], store, pairs') /\ Gets(call[o], store, pairs')
    BY <2>1, <2>2, GrowAgree DEF Agree
  <2> QED
    BY <2>1, <2>3 DEF Agree, Joins, Alone
<1>2. CASE \E u \in Users : Revoke(u) \/ Close(u) \/ Grant(u)
  <2>1. UNCHANGED <<call, store, pairs>>
    BY <1>2 DEF Revoke, Close, Grant
  <2> QED
    BY <2>1 DEF Agree, Joins, Alone
<1> QED
  BY <1>1, <1>2

LEMMA InitAgree == Init => Agree
<1> SUFFICES ASSUME Init PROVE Agree
  OBVIOUS
<1>1. Types
  BY InitTypes
<1>2. store \in StoreRecord(Len(pairs)) /\ Len(pairs) \in Nat
  BY <1>1, StoreIs
<1>3. \A t \in All : call[t] = Idle
  BY DEF Init, All
<1>4. \A t \in All : Joins(t, Idle, store) /\ Gets(Idle, store, pairs)
  BY <1>2, IdleJoins
<1>5. Whole(store, pairs)
  <2>1. PICK u : u = CHOOSE v \in Users : TRUE
    OBVIOUS
  <2>2. PICK age \in Fresh .. Outdated, tokens \in 0 .. 1, opened \in BOOLEAN, permitted \in BOOLEAN :
           /\ pairs = IF tokens = 0 THEN <<>>
                      ELSE <<[user |-> u, version |-> 0, perm |-> 0, age |-> age]>>
           /\ store = [tokens |-> tokens,
                       identity |-> IF tokens = 1 /\ opened THEN 1 ELSE 0,
                       user |-> IF tokens = 1 /\ opened THEN u ELSE NoUser,
                       perms |-> IF tokens = 1 /\ permitted
                                   THEN [user |-> u, perm |-> 0] ELSE NoPerms,
                       refreshing |-> FALSE, initialized |-> opened,
                       epoch |-> 0, crossed |-> FALSE]
    BY <2>1 DEF Init
  <2>3. tokens = 1 => pairs[1].user = u
    BY <2>2
  <2>4. /\ store.tokens = tokens /\ store.initialized = opened
        /\ store.identity = IF tokens = 1 /\ opened THEN 1 ELSE 0
        /\ store.user = IF tokens = 1 /\ opened THEN u ELSE NoUser
        /\ store.perms.user = IF tokens = 1 /\ permitted THEN u ELSE NoUser
    BY <2>2 DEF NoPerms
  <2>5. CASE tokens = 0
    BY <2>4, <2>5 DEF Whole
  <2>6. CASE tokens = 1
    BY <2>3, <2>4, <2>6 DEF Whole, Known
  <2> QED
    BY <2>5, <2>6
<1> QED
  BY <1>3, <1>4, <1>5 DEF Agree

LEMMA NextAgree == Types /\ Agree /\ [Next]_vars => Agree'
<1> SUFFICES ASSUME Types, Agree, [Next]_vars PROVE Agree'
  OBVIOUS
<1>1. CASE UNCHANGED vars
  BY <1>1 DEF vars, Agree, Joins, Alone
<1>2. ASSUME NEW t \in Calls, Begin(t) \/ Work(t) \/ Lose(t)
      PROVE  Agree'
  BY <1>2, BeginAgree, ServeAgree, DeliverAgree, ResumeAgree, LoseAgree DEF Work, All
<1>3. CASE Renew \/ Lose(Renewal)
  BY <1>3, ServeAgree, DeliverRefreshAgree, LoseAgree DEF Renew, All
<1>4. CASE Tick \/ \E u \in Users : Revoke(u) \/ Close(u) \/ Grant(u)
  BY <1>4, ElsewhereAgree
<1> QED
  BY <1>1, <1>2, <1>3, <1>4 DEF Next

LEMMA AgreeInvariant == Spec => []Agree
<1> QED
  BY InitAgree, NextAgree, TypesInvariant, PTL DEF Spec

\* Tokens, identity, profile and permission state stay of one user through every
\* login, renewal, switch and logout, whatever is lost, refused, delayed or
\* revoked, as long as no reply to a call of a session that has ended is written:
\* setTokenPair, loadUser and loadPermissionState write what a reply of the
\* session brings, that was asked with the tokens of the session.
THEOREM SessionHolds == Spec => []SessionAgrees
<1>1. Agree => SessionAgrees
  BY DEF Agree, Whole, Known, SessionAgrees
<1> QED
  BY <1>1, AgreeInvariant, PTL

----------------------------------------------------------------------------
(* The session outlives its renewals *)

\* The refresh presents its token.
Presents == call[Renewal].at = "sent" /\ call[Renewal].rpc = "RefreshTokens"

\* The token that is presented, the tokens of the store and those on their way are
\* all different and none of them was presented before, but the store's while the
\* pair that replaces it is on its way; and nobody hears of a failure.
Sound ==
    /\ Presents => call[Renewal].arg \notin used
    /\ store.tokens \notin used \/ Brings(call[Renewal])
    /\ \A t \in All : Brings(call[t]) =>
          /\ call[t].reply.pair \notin used /\ call[t].reply.pair # store.tokens
          /\ Presents => call[t].reply.pair # call[Renewal].arg
          /\ \A o \in All : Brings(call[o]) /\ call[o].reply.pair = call[t].reply.pair => o = t
    /\ \A t \in All : call[t].at \in Waits => call[t].reply.code # "error"
    /\ call[Renewal].reply.code # "error"

Guarded == harmed \/ Sound

\* With the tokens of s in the store, every call but t is as it should be.
Spare(t, s) ==
    /\ s.tokens \notin used \/ (t # Renewal /\ Brings(call[Renewal]))
    /\ \A o \in All : o # t /\ Brings(call[o]) => call[o].reply.pair # s.tokens

LEMMA SpareTokens ==
    ASSUME Types, Sound, NEW t \in All, NEW s,
           \/ s.tokens = store.tokens /\ (t = Renewal => ~Brings(call[t]))
           \/ s.tokens = 0
           \/ Brings(call[t]) /\ s.tokens = call[t].reply.pair
    PROVE  Spare(t, s)
<1>1. CASE s.tokens = store.tokens /\ (t = Renewal => ~Brings(call[t]))
  BY <1>1 DEF Sound, Spare
<1>2. CASE s.tokens = 0
  <2>1. 0 \notin used
    BY PairsIs DEF Types, ServerOK
  <2>2. \A o \in All : Brings(call[o]) => call[o].reply.pair # 0
    BY DEF Types, CallsOK, Place
  <2> QED
    BY <1>2, <2>1, <2>2 DEF Spare
<1>3. CASE Brings(call[t]) /\ s.tokens = call[t].reply.pair
  BY <1>3 DEF Sound, Spare
<1> QED
  BY <1>1, <1>2, <1>3

LEMMA PutSound ==
    ASSUME Types, Sound, NEW t \in All, NEW c, NEW s, Put(t, c, s), UNCHANGED used, Spare(t, s),
           ~Brings(c), c.at \in Waits => c.reply.code # "error",
           t = Renewal => c.reply.code # "error" /\ ~(c.at = "sent" /\ c.rpc = "RefreshTokens")
    PROVE  Sound'
<1>1. store' = s /\ \A o \in All : call'[o] = IF o = t THEN c ELSE call[o]
  BY PutIs
<1>2. Renewal \in All
  BY DEF All
<1>3. Presents' => Presents /\ call'[Renewal] = call[Renewal]
  BY <1>1, <1>2 DEF Presents
<1>4. \A o \in All : Brings(call'[o]) => o # t /\ Brings(call[o]) /\ call'[o] = call[o]
  BY <1>1
<1>5. \A o \in All : call'[o].at \in Waits => call'[o].reply.code # "error"
  BY <1>1 DEF Sound
<1>6. call'[Renewal].reply.code # "error"
  BY <1>1, <1>2 DEF Sound
<1>7. store'.tokens \notin used' \/ Brings(call'[Renewal])
  BY <1>1, <1>2 DEF Spare
<1>8. ASSUME NEW o \in All, Brings(call'[o])
      PROVE  /\ call'[o].reply.pair \notin used' /\ call'[o].reply.pair # store'.tokens
             /\ Presents' => call'[o].reply.pair # call'[Renewal].arg
             /\ \A x \in All : Brings(call'[x]) /\ call'[x].reply.pair = call'[o].reply.pair => x = o
  <2>1. o # t /\ Brings(call[o]) /\ call'[o] = call[o]
    BY <1>4, <1>8
  <2>2. /\ call[o].reply.pair \notin used /\ call[o].reply.pair # s.tokens
        /\ Presents => call[o].reply.pair # call[Renewal].arg
        /\ \A x \in All : Brings(call[x]) /\ call[x].reply.pair = call[o].reply.pair => x = o
    BY <2>1 DEF Sound, Spare
  <2> QED
    BY <1>1, <1>3, <1>4, <2>1, <2>2
<1> QED
  BY <1>3, <1>5, <1>6, <1>7, <1>8 DEF Sound, Brings, Presents

LEMMA PutBothSound ==
    ASSUME Types, Sound, NEW t \in Calls, NEW c, NEW s \in StoreRecord(Len(pairs)),
           NEW profile \in BOOLEAN, PutBoth(t, c, s, profile), UNCHANGED used, ~InFlight,
           Spare(t, s), ~Brings(c), c.at \in Waits => c.reply.code # "error"
    PROVE  Sound'
<1>1. PICK r : r = Refreshing(s, profile)
  OBVIOUS
<1>2. r.at = "sent" /\ r.arg = s.tokens /\ r.reply = NoReply
  BY <1>1, RefreshingIs, PairsIs
<1>3. NoReply.code = "none" /\ ~Brings(r) /\ r.at \notin Waits
  BY <1>2, NoReplyIs, PairsIs DEF Brings, Waits
<1>4. /\ t \in All /\ t # Renewal /\ Renewal \in All
      /\ \A o \in All : call'[o] = IF o = Renewal THEN r ELSE IF o = t THEN c ELSE call[o]
  BY <1>1, PutBothIs, Names DEF All
<1>5. store'.tokens = s.tokens
  <2>1. [s EXCEPT !.refreshing = TRUE].tokens = s.tokens
    BY DEF StoreRecord
  <2> QED
    BY <2>1, PutBothIs
<1>6. ~Brings(call[Renewal])
  BY DEF Brings, InFlight
<1>7. s.tokens \notin used
  BY <1>6 DEF Spare
<1>8. \A o \in All : Brings(call'[o]) =>
         o # t /\ o # Renewal /\ Brings(call[o]) /\ call'[o] = call[o]
  BY <1>3, <1>4
<1>9. \A o \in All : call'[o].at \in Waits => call'[o].reply.code # "error"
  BY <1>3, <1>4 DEF Sound
<1>10. ASSUME NEW o \in All, Brings(call'[o])
       PROVE  /\ call'[o].reply.pair \notin used' /\ call'[o].reply.pair # store'.tokens
              /\ call'[o].reply.pair # call'[Renewal].arg
              /\ \A x \in All : Brings(call'[x]) /\ call'[x].reply.pair = call'[o].reply.pair => x = o
  <2>1. o # t /\ Brings(call[o]) /\ call'[o] = call[o]
    BY <1>8, <1>10
  <2>2. /\ call[o].reply.pair \notin used /\ call[o].reply.pair # s.tokens
        /\ \A x \in All : Brings(call[x]) /\ call[x].reply.pair = call[o].reply.pair => x = o
    BY <2>1 DEF Sound, Spare
  <2> QED
    BY <1>2, <1>4, <1>5, <1>8, <2>1, <2>2
<1> QED
  BY <1>2, <1>3, <1>4, <1>5, <1>7, <1>9, <1>10 DEF Sound, Brings, Presents

LEMMA EnterSound ==
    ASSUME Types, Sound, NEW t \in All, NEW c \in CallRecord(Len(pairs)),
           NEW s \in StoreRecord(Len(pairs)), Enter(t, c, s), UNCHANGED used, Spare(t, s),
           t = Renewal => InFlight /\ c.rpc # "RefreshTokens"
    PROVE  Sound'
<1>1. Len(pairs) \in Nat /\ "pre" \in Waits /\ NoReply.code = "none"
  BY PairsIs, NoReplyIs DEF Waits
<1>2. PICK q, w : q = Sent(c, s) /\ w = Waiting(c, "pre")
  OBVIOUS
<1>3. q.at = "sent" /\ q.reply.code = "none" /\ q.rpc = c.rpc
  BY <1>1, <1>2, SentIs
<1>4. w.at = "pre" /\ w.reply.code = "none"
  BY <1>1, <1>2, WaitingIs
<1>5. CASE Put(t, q, s)
  BY <1>3, <1>5, PutSound DEF Brings, Waits
<1>6. CASE Put(t, w, s)
  BY <1>4, <1>6, PutSound DEF Brings, Waits
<1>7. CASE ~InFlight /\ PutBoth(t, w, s, FALSE)
  <2>1. t \in Calls
    BY <1>7 DEF All
  <2>2. ~Brings(w) /\ w.reply.code # "error"
    BY <1>4 DEF Brings
  <2> QED
    BY <1>7, <2>1, <2>2, PutBothSound
<1> QED
  BY <1>2, <1>5, <1>6, <1>7, EnterForms

LEMMA AwaitSound ==
    ASSUME Types, Sound, NEW t \in All, NEW c \in CallRecord(Len(pairs)),
           NEW s \in StoreRecord(Len(pairs)), NEW where \in Waits, NEW profile \in BOOLEAN,
           Await(t, Waiting(c, where), s, profile), UNCHANGED used, Spare(t, s),
           t = Renewal => InFlight
    PROVE  Sound'
<1>1. Len(pairs) \in Nat /\ NoReply.code = "none"
  BY PairsIs, NoReplyIs
<1>2. PICK w : w = Waiting(c, where)
  OBVIOUS
<1>3. w.at = where /\ w.reply.code = "none"
  BY <1>1, <1>2, WaitingIs
<1>4. ~Brings(w) /\ w.at # "sent" /\ w.reply.code # "error"
  BY <1>3 DEF Brings, Waits
<1>5. CASE Put(t, w, s)
  BY <1>4, <1>5, PutSound
<1>6. CASE ~InFlight /\ PutBoth(t, w, s, profile)
  <2>1. t \in Calls
    BY <1>6 DEF All
  <2> QED
    BY <1>4, <1>6, <2>1, PutBothSound
<1> QED
  BY <1>2, <1>5, <1>6, AwaitForms

LEMMA EndSound ==
    ASSUME Types, Sound, NEW t \in Calls, NEW s \in StoreRecord(Len(pairs)), End(t, s),
           UNCHANGED used, Spare(t, s)
    PROVE  Sound'
<1>1. PICK b \in BOOLEAN : b = (s.initialized \/ call[t].kind = "init")
  OBVIOUS
<1>2. PICK q : q = [s EXCEPT !.initialized = b]
  OBVIOUS
<1>3. q.tokens = s.tokens
  BY <1>2 DEF StoreRecord
<1>4. Put(t, Idle, q) /\ t \in All /\ t # Renewal
  BY <1>1, <1>2, Names DEF End, Put, All
<1>5. Idle.at = "idle" /\ ~Brings(Idle) /\ Idle.at \notin Waits
  BY IdleIs, PairsIs DEF Brings, Waits
<1>6. Spare(t, q)
  BY <1>3 DEF Spare
<1> QED
  BY <1>4, <1>5, <1>6, PutSound

LEMMA SettleSound ==
    ASSUME Types, Sound, NEW s \in StoreRecord(Len(pairs)), Settle("ok", s), UNCHANGED used,
           Spare(Renewal, s)
    PROVE  Sound'
<1>1. store'.tokens = s.tokens
  <2>1. [s EXCEPT !.refreshing = FALSE].tokens = s.tokens
    BY DEF StoreRecord
  <2> QED
    BY <2>1, SettleIs
<1>2. call'[Renewal] = Idle /\ Idle.at = "idle" /\ Idle.reply.code # "error"
  BY SettleIs, IdleIs, NoReplyIs, PairsIs
<1>3. ~Brings(call'[Renewal]) /\ ~Presents'
  BY <1>2 DEF Brings, Presents
<1>4. ASSUME NEW o \in All, o # Renewal
      PROVE  /\ Brings(call'[o]) => call'[o] = call[o]
             /\ call'[o].at \in Waits => call'[o].reply.code # "error"
  <2>1. PICK c : c = call[o]
    OBVIOUS
  <2>2. PICK r : r = Heard(c, "ok")
    OBVIOUS
  <2>3. c \in CallRecord(Len(pairs)) /\ o \in Calls
    BY <1>4, <2>1 DEF Types, CallsOK, All
  <2>4. r.at = c.at /\ r.reply.code = "ok"
    BY <2>2, <2>3, HeardIs, PairsIs
  <2>5. call'[o] = IF c.at \in Waits /\ c.reply = NoReply THEN r ELSE c
    BY <2>1, <2>2, <2>3, SettleIs
  <2>6. c.at \in Waits => c.reply.code # "error"
    BY <2>1 DEF Sound
  <2> QED
    BY <2>1, <2>4, <2>5, <2>6 DEF Brings, Waits
<1>5. ASSUME NEW o \in All, Brings(call'[o])
      PROVE  /\ call'[o].reply.pair \notin used' /\ call'[o].reply.pair # store'.tokens
             /\ \A x \in All : Brings(call'[x]) /\ call'[x].reply.pair = call'[o].reply.pair => x = o
  <2>1. o # Renewal /\ call'[o] = call[o] /\ Brings(call[o])
    BY <1>3, <1>4, <1>5
  <2>2. /\ call[o].reply.pair \notin used /\ call[o].reply.pair # s.tokens
        /\ \A x \in All : Brings(call[x]) /\ call[x].reply.pair = call[o].reply.pair => x = o
    BY <2>1 DEF Sound, Spare
  <2>3. \A x \in All : Brings(call'[x]) => Brings(call[x]) /\ call'[x] = call[x]
    BY <1>3, <1>4
  <2> QED
    BY <1>1, <2>1, <2>2, <2>3
<1>6. store'.tokens \notin used'
  BY <1>1 DEF Spare
<1>7. \A o \in All : call'[o].at \in Waits => call'[o].reply.code # "error"
  BY <1>2, <1>4
<1> QED
  BY <1>2, <1>3, <1>5, <1>6, <1>7 DEF Sound, Brings, Presents

\* The tokens are given up only as a login begins or a logout ends.
Keeps ==
    store.tokens # 0 /\ store'.tokens = 0 =>
        \E t \in Calls : \/ call[t].kind = "logout" /\ call'[t] = Idle
                         \/ call[t] = Idle /\ call'[t].kind = "login"

LEMMA TokensAre ==
    ASSUME NEW n \in Nat, NEW s \in StoreRecord(n), NEW t, NEW c, NEW code, NEW profile,
           Enter(t, c, s) \/ Await(t, c, s, profile) \/ End(t, s) \/ Settle(code, s)
    PROVE  store'.tokens = s.tokens
<1>1. \A b : [s EXCEPT !.refreshing = b].tokens = s.tokens
  BY DEF StoreRecord
<1>2. \A b : [s EXCEPT !.initialized = b].tokens = s.tokens
  BY DEF StoreRecord
<1>3. ASSUME NEW d, NEW p, Await(t, d, s, p)
      PROVE  store'.tokens = s.tokens
  BY <1>1, <1>3 DEF Await
<1>4. Enter(t, c, s) => store'.tokens = s.tokens
  BY <1>3 DEF Enter
<1>5. End(t, s) => store'.tokens = s.tokens
  BY <1>2 DEF End
<1>6. Settle(code, s) => store'.tokens = s.tokens
  BY <1>1 DEF Settle
<1> QED
  BY <1>3, <1>4, <1>5, <1>6

\* A step of a call that leaves the tokens of s, not none.
LEMMA EnterKeeps ==
    ASSUME Types, Sound, NEW t \in All, NEW c \in CallRecord(Len(pairs)),
           NEW s \in StoreRecord(Len(pairs)), Enter(t, c, s), UNCHANGED used, Spare(t, s),
           t = Renewal => InFlight /\ c.rpc # "RefreshTokens",
           store.tokens # 0 => s.tokens # 0
    PROVE  Sound' /\ Keeps
<1>1. store'.tokens = s.tokens
  BY TokensAre, PairsIs
<1> QED
  BY <1>1, EnterSound DEF Keeps

LEMMA AwaitKeeps ==
    ASSUME Types, Sound, NEW t \in All, NEW c \in CallRecord(Len(pairs)),
           NEW s \in StoreRecord(Len(pairs)), NEW where \in Waits, NEW profile \in BOOLEAN,
           Await(t, Waiting(c, where), s, profile), UNCHANGED used, Spare(t, s),
           t = Renewal => InFlight, store.tokens # 0 => s.tokens # 0
    PROVE  Sound' /\ Keeps
<1>1. PICK w : w = Waiting(c, where)
  OBVIOUS
<1>2. store'.tokens = s.tokens
  BY <1>1, TokensAre, PairsIs
<1> QED
  BY <1>2, AwaitSound DEF Keeps

LEMMA EndKeeps ==
    ASSUME Types, Sound, NEW t \in Calls, NEW s \in StoreRecord(Len(pairs)), End(t, s),
           UNCHANGED used, Spare(t, s),
           store.tokens # 0 => s.tokens # 0 \/ call[t].kind = "logout"
    PROVE  Sound' /\ Keeps
<1>1. store'.tokens = s.tokens
  BY TokensAre, PairsIs
<1>2. call'[t] = Idle
  BY DEF End, Types, CallsOK, All
<1> QED
  BY <1>1, <1>2, EndSound DEF Keeps

LEMMA SettleKeeps ==
    ASSUME Types, Sound, NEW s \in StoreRecord(Len(pairs)), Settle("ok", s), UNCHANGED used,
           Spare(Renewal, s), store.tokens # 0 => s.tokens # 0
    PROVE  Sound' /\ Keeps
<1>1. store'.tokens = s.tokens
  BY TokensAre, PairsIs
<1> QED
  BY <1>1, SettleSound DEF Keeps

\* The store alone changes.
LEMMA StoreKeeps ==
    ASSUME Types, Sound, UNCHANGED <<call, used>>, store'.tokens = store.tokens
    PROVE  Sound' /\ Keeps
  BY DEF Sound, Presents, Brings, Keeps

LEMMA FailsKeeps ==
    ASSUME Types, Sound, NEW t \in Calls, Fails(t), UNCHANGED used
    PROVE  Sound' /\ Keeps
<1>1. t \in All /\ t # Renewal /\ store \in StoreRecord(Len(pairs))
  BY StoreIs, Names DEF All
<1>2. PICK s : /\ End(t, s)
               /\ \/ s = Cleared(store) /\ call[t].kind = "logout"
                  \/ s = [store EXCEPT !.perms = NoPerms]
                  \/ s = store
  BY DEF Fails
<1>3. s \in StoreRecord(Len(pairs))
  BY <1>1, <1>2, StoreIs, StoreFields
<1>4. CASE s = Cleared(store) /\ call[t].kind = "logout"
  <2>1. s.tokens = 0
    BY <1>1, <1>4, ClearedIs, PairsIs
  <2> QED
    BY <1>1, <1>2, <1>3, <1>4, <2>1, SpareTokens, EndKeeps
<1>5. CASE s = [store EXCEPT !.perms = NoPerms] \/ s = store
  <2>1. s.tokens = store.tokens
    BY <1>1, <1>5 DEF StoreRecord
  <2> QED
    BY <1>1, <1>2, <1>3, <2>1, SpareTokens, EndKeeps
<1> QED
  BY <1>2, <1>4, <1>5

LEMMA DeliverKeeps ==
    ASSUME Types, Sound, NEW t \in Calls, Deliver(t)
    PROVE  Sound' /\ Keeps
<1>1. UNCHANGED used /\ t \in All /\ t # Renewal /\ call[t].at = "served"
  BY Names DEF Deliver, All
<1>2. store \in StoreRecord(Len(pairs)) /\ Len(pairs) \in Nat
  BY StoreIs
<1>3. PICK c : c = call[t]
  OBVIOUS
<1>4. c \in CallRecord(Len(pairs)) /\ Form(t, c, Len(pairs)) /\ Place(t, c)
  BY <1>1, <1>3 DEF Types, CallsOK
<1>5. Spare(t, store)
  BY <1>1, SpareTokens
<1>6. CASE Renews(t) /\ Await(t, Waiting(c, "post"), store, FALSE)
  <2>1. "post" \in Waits
    BY DEF Waits
  <2> QED
    BY <1>1, <1>2, <1>4, <1>5, <1>6, <2>1, AwaitKeeps
<1>7. CASE c.reply.code = "ok" /\ Continue(t)
  <2>1. CASE c.rpc \in {"Login", "SwitchCompanyScope"}
    <3>1. PICK s : s = WithPair(c, store)
      OBVIOUS
    <3>2. Brings(c) /\ c.reply.pair # 0
      BY <1>1, <1>3, <1>4, <1>7, <2>1 DEF Brings, Place
    <3>3. s \in StoreRecord(Len(pairs)) /\ s.tokens = c.reply.pair /\ s.identity = c.reply.pair
      BY <1>2, <1>4, <3>1, WithPairIs
    <3>4. Spare(t, s)
      BY <1>1, <1>3, <3>2, <3>3, SpareTokens
    <3>5. PICK r : r = IF c.rpc = "Login" THEN Browse(c, s) ELSE Rpc(c, "GetPermissionState", s)
      OBVIOUS
    <3>6. Enter(t, r, s)
      BY <1>3, <1>7, <2>1, <3>1, <3>5 DEF Continue
    <3>7. r \in CallRecord(Len(pairs))
      BY <1>1, <1>4, <3>2, <3>3, <3>5, NextRpc DEF Form
    <3> QED
      BY <1>1, <3>2, <3>3, <3>4, <3>6, <3>7, EnterKeeps
  <2>2. CASE c.rpc \in {"GetPermissionState", "Browse"}
    <3>1. PICK s : s = IF c.rpc = "Browse" THEN WithUser(c, store) ELSE WithPerms(c, store)
      OBVIOUS
    <3>2. End(t, s)
      BY <1>3, <1>7, <2>2, <3>1 DEF Continue
    <3>3. s \in StoreRecord(Len(pairs)) /\ s.tokens = store.tokens
      BY <1>2, <1>4, <3>1, WithUserIs, WithPermsIs
    <3>4. Spare(t, s)
      BY <1>1, <3>3, SpareTokens
    <3> QED
      BY <1>1, <3>2, <3>3, <3>4, EndKeeps
  <2>3. CASE c.rpc = "UpdateById" /\ (InFlight \/ store.tokens # 0)
    <3>1. Await(t, Waiting(c, "renew"), store, TRUE) /\ "renew" \in Waits
      BY <1>3, <1>7, <2>3 DEF Continue, Waits
    <3> QED
      BY <1>1, <1>2, <1>4, <1>5, <3>1, AwaitKeeps
  <2>4. CASE c.rpc = "Logout"
    <3>1. PICK s : s = Cleared(store)
      OBVIOUS
    <3>2. End(t, s) /\ c.kind = "logout"
      BY <1>3, <1>4, <1>7, <2>4, <3>1 DEF Continue, Form
    <3>3. s \in StoreRecord(Len(pairs)) /\ s.tokens = 0
      BY <1>2, <3>1, ClearedIs
    <3>4. Spare(t, s)
      BY <1>1, <3>3, SpareTokens
    <3> QED
      BY <1>1, <1>3, <3>2, <3>3, <3>4, EndKeeps
  <2>5. CASE \/ c.rpc = "UpdateById" /\ ~(InFlight \/ store.tokens # 0)
             \/ c.rpc \notin {"Login", "SwitchCompanyScope", "GetPermissionState", "Browse",
                              "UpdateById", "Logout"}
    <3>1. End(t, store)
      BY <1>3, <1>7, <2>5 DEF Continue
    <3> QED
      BY <1>1, <1>2, <1>5, <3>1, EndKeeps
  <2> QED
    BY <2>1, <2>2, <2>3, <2>4, <2>5
<1>8. CASE Fails(t)
  BY <1>1, <1>8, FailsKeeps
<1> QED
  BY <1>3, <1>6, <1>7, <1>8 DEF Deliver

LEMMA LoadPermsKeeps ==
    ASSUME Types, Sound, NEW c, Form(Renewal, c, Len(pairs)), NEW s \in StoreRecord(Len(pairs)),
           LoadPerms(c, s), UNCHANGED used, InFlight, Spare(Renewal, s),
           store.tokens # 0 => s.tokens # 0
    PROVE  Sound' /\ Keeps
<1>1. CASE Settle("ok", s)
  BY <1>1, SettleKeeps
<1>2. CASE Enter(Renewal, Rpc(c, "GetPermissionState", s), s)
  <2>1. PICK r : r = Rpc(c, "GetPermissionState", s)
    OBVIOUS
  <2>2. Renewal \in All
    BY DEF All
  <2>3. r \in CallRecord(Len(pairs)) /\ r.rpc # "RefreshTokens"
    BY <2>1, <2>2, NextRpc DEF Form
  <2> QED
    BY <1>2, <2>1, <2>2, <2>3, EnterKeeps
<1> QED
  BY <1>1, <1>2 DEF LoadPerms

LEMMA DeliverRefreshKeeps ==
    ASSUME Types, Sound, DeliverRefresh
    PROVE  Sound' /\ Keeps
<1>1. /\ UNCHANGED used /\ Renewal \in All /\ call[Renewal].at = "served" /\ InFlight
  BY DEF DeliverRefresh, All, InFlight
<1>2. store \in StoreRecord(Len(pairs)) /\ Len(pairs) \in Nat
  BY StoreIs
<1>3. PICK c : c = call[Renewal]
  OBVIOUS
<1>4. c \in CallRecord(Len(pairs)) /\ Form(Renewal, c, Len(pairs)) /\ Place(Renewal, c)
  BY <1>1, <1>3 DEF Types, CallsOK
\* A refusal is answered by another wait, and an error there is none.
<1>5. \/ Renews(Renewal) /\ Await(Renewal, Waiting(c, "post"), store, FALSE)
      \/ c.reply.code = "ok" /\ ContinueRefresh
  <2>1. c.reply.code \in {"ok", "unauth"}
    <3>1. c.reply.code \in Codes
      BY <1>4 DEF CallRecord, ReplyRecord
    <3> QED
      BY <1>1, <1>3, <1>4, <3>1 DEF Place, Sound, Codes
  <2>2. c.reply.code = "unauth" => Renews(Renewal)
    BY <1>1, <1>3, <1>4 DEF Form, Renews
  <2> QED
    BY <1>3, <2>1, <2>2 DEF DeliverRefresh
<1>6. CASE Renews(Renewal) /\ Await(Renewal, Waiting(c, "post"), store, FALSE)
  <2>1. "post" \in Waits /\ ~Brings(call[Renewal])
    BY <1>6 DEF Waits, Renews, Brings
  <2>2. Spare(Renewal, store)
    BY <1>1, <2>1, SpareTokens
  <2> QED
    BY <1>1, <1>2, <1>4, <1>6, <2>1, <2>2, AwaitKeeps
<1>7. CASE c.reply.code = "ok" /\ ContinueRefresh
  <2>1. CASE c.rpc = "RefreshTokens"
    <3>1. PICK s : s = WithPair(c, store)
      OBVIOUS
    <3>2. PICK b \in BOOLEAN :
             b = (c.before = 0 \/ pairs[c.reply.pair]["perm"] # pairs[c.before]["perm"])
      OBVIOUS
    <3>3. PICK r : r = [c EXCEPT !.perms = b]
      OBVIOUS
    <3>4. Enter(Renewal, Browse(r, s), s) \/ LoadPerms(r, s)
      BY <1>3, <1>7, <2>1, <3>1, <3>2, <3>3 DEF ContinueRefresh
    <3>5. Brings(c) /\ c.reply.pair # 0
      BY <1>1, <1>3, <1>4, <1>7, <2>1 DEF Brings, Place
    <3>6. s \in StoreRecord(Len(pairs)) /\ s.tokens = c.reply.pair /\ s.identity = c.reply.pair
      BY <1>2, <1>4, <3>1, WithPairIs
    <3>7. Spare(Renewal, s)
      BY <1>1, <1>3, <3>5, <3>6, SpareTokens
    <3>8. Form(Renewal, r, Len(pairs))
      BY <1>4, <3>3 DEF Form, CallRecord
    <3>9. CASE Enter(Renewal, Browse(r, s), s)
      <4>1. PICK q : q = Browse(r, s)
        OBVIOUS
      <4>2. q \in CallRecord(Len(pairs)) /\ q.rpc # "RefreshTokens"
        BY <1>1, <3>5, <3>6, <3>8, <4>1, NextRpc DEF Form
      <4> QED
        BY <1>1, <3>5, <3>6, <3>7, <3>9, <4>1, <4>2, EnterKeeps
    <3>10. CASE LoadPerms(r, s)
      BY <1>1, <3>5, <3>6, <3>7, <3>8, <3>10, LoadPermsKeeps
    <3> QED
      BY <3>4, <3>9, <3>10
  <2>2. CASE c.rpc \in {"Browse", "GetPermissionState"}
    <3>1. PICK s : s = IF c.rpc = "Browse" THEN WithUser(c, store) ELSE WithPerms(c, store)
      OBVIOUS
    <3>2. s \in StoreRecord(Len(pairs)) /\ s.tokens = store.tokens
      BY <1>2, <1>4, <3>1, WithUserIs, WithPermsIs
    <3>3. Spare(Renewal, s)
      BY <1>1, <1>3, <2>2, <3>2, SpareTokens DEF Brings
    <3>4. LoadPerms(c, s) \/ Settle("ok", s)
      BY <1>3, <1>7, <2>2, <3>1 DEF ContinueRefresh
    <3> QED
      BY <1>1, <1>4, <3>2, <3>3, <3>4, LoadPermsKeeps, SettleKeeps
  <2> QED
    BY <1>1, <1>3, <1>4, <2>1, <2>2 DEF Form, Place
<1> QED
  BY <1>5, <1>6, <1>7

LEMMA ResumeKeeps ==
    ASSUME Types, Sound, NEW t \in Calls, Resume(t)
    PROVE  Sound' /\ Keeps
<1>1. UNCHANGED used /\ t \in All /\ t # Renewal /\ call[t].at \in Waits
  BY Names DEF Resume, All
<1>2. store \in StoreRecord(Len(pairs)) /\ Len(pairs) \in Nat
  BY StoreIs
<1>3. PICK c : c = call[t]
  OBVIOUS
<1>4. c \in CallRecord(Len(pairs)) /\ Form(t, c, Len(pairs)) /\ Place(t, c)
  BY <1>1, <1>3 DEF Types, CallsOK
<1>5. Spare(t, store)
  BY <1>1, SpareTokens
\* Nobody hears of a failure.
<1>6. c.reply.code = "ok"
  <2>1. c.reply # NoReply /\ c.reply.code # "error"
    BY <1>1, <1>3 DEF Resume, Sound
  <2> QED
    BY <1>1, <1>3, <1>4, <2>1 DEF Place
<1>7. PICK q : q = Sent(c, store)
  OBVIOUS
<1>8. q \in CallRecord(Len(pairs)) /\ q.at = "sent" /\ ~Brings(q) /\ q.at \notin Waits
  BY <1>2, <1>4, <1>7, SentIs DEF Brings, Waits
<1>9. CASE Put(t, q, store)
  <2>1. store'.tokens = store.tokens
    BY <1>9 DEF Put
  <2> QED
    BY <1>1, <1>5, <1>8, <1>9, <2>1, PutSound DEF Keeps
<1>10. CASE call' = [call EXCEPT ![t] = [q EXCEPT !.retried = TRUE]] /\ UNCHANGED store
  <2>1. PICK r : r = [q EXCEPT !.retried = TRUE]
    OBVIOUS
  <2>2. r.at = "sent" /\ ~Brings(r) /\ r.at \notin Waits
    BY <1>8, <2>1 DEF CallRecord, Brings, Waits
  <2>3. Put(t, r, store)
    BY <1>10, <2>1 DEF Put
  <2> QED
    BY <1>1, <1>5, <1>10, <2>2, <2>3, PutSound DEF Keeps
<1>11. CASE Fails(t)
  BY <1>1, <1>11, FailsKeeps
<1>12. CASE End(t, store)
  BY <1>1, <1>2, <1>5, <1>12, EndKeeps
<1>13. CASE store.identity # 0 /\ Enter(t, Browse(c, store), store)
  <2>1. PICK r : r = Browse(c, store)
    OBVIOUS
  <2>2. r \in CallRecord(Len(pairs))
    BY <1>1, <1>2, <1>4, <1>13, <2>1, NextRpc DEF Form
  <2> QED
    BY <1>1, <1>2, <1>5, <1>13, <2>1, <2>2, EnterKeeps
<1>14. c.at \in {"pre", "post"} \/ (c.at = "renew" /\ c.kind \in {"init", "prefer"})
  BY <1>1, <1>3, <1>4 DEF Place, Waits
<1> QED
  BY <1>3, <1>6, <1>7, <1>9, <1>10, <1>11, <1>12, <1>13, <1>14 DEF Resume, Put

LEMMA BeginKeeps ==
    ASSUME Types, Sound, NEW t \in Calls, Begin(t)
    PROVE  Sound' /\ Keeps
<1>1. UNCHANGED <<pairs, used>> /\ t \in All /\ t # Renewal /\ call[t].at = "idle"
  BY Names DEF Begin, All
<1>2. store \in StoreRecord(Len(pairs)) /\ Len(pairs) \in Nat
  BY StoreIs
<1>3. Spare(t, store)
  BY <1>1, SpareTokens
<1>4. ASSUME NEW kind \in AllKinds, NEW name \in Rpcs, NEW s \in StoreRecord(Len(pairs)), NEW r,
             r = Rpc(New(kind), name, s)
      PROVE  r \in CallRecord(Len(pairs)) /\ r.kind = kind
  <2>1. PICK k : k = New(kind)
    OBVIOUS
  <2>2. k \in CallRecord(Len(pairs)) /\ k.kind = kind
    BY <1>2, <2>1, NewIs
  <2> QED
    BY <1>2, <1>4, <2>1, <2>2, RpcIs
<1>5. ASSUME NEW r \in CallRecord(Len(pairs)), Enter(t, r, store)
      PROVE  Sound' /\ Keeps
  BY <1>1, <1>2, <1>3, <1>5, EnterKeeps
<1>6. CASE BeginApi(t)
  BY <1>2, <1>4, <1>5, <1>6 DEF BeginApi, AllKinds, Rpcs
<1>7. CASE BeginLogin(t)
  <2>1. PICK s : s = Cleared(store)
    OBVIOUS
  <2>2. s \in StoreRecord(Len(pairs)) /\ s.tokens = 0
    BY <1>2, <2>1, ClearedIs
  <2>3. PICK r : r = Rpc(New("login"), "Login", s)
    OBVIOUS
  <2>4. r \in CallRecord(Len(pairs)) /\ r.kind = "login"
    BY <1>4, <2>2, <2>3 DEF AllKinds, Rpcs
  <2>5. Enter(t, r, s)
    BY <1>7, <2>1, <2>3 DEF BeginLogin
  <2>6. Sound'
    BY <1>1, <2>2, <2>4, <2>5, SpareTokens, EnterSound
  <2>7. call'[t].kind = "login"
    <3>1. PICK q : q = Sent(r, s)
      OBVIOUS
    <3>2. q.kind = "login"
      BY <1>2, <2>2, <2>4, <3>1, SentIs
    <3>3. Put(t, q, s)
      BY <2>2, <2>5, <3>1 DEF Enter, Due, Put
    <3> QED
      BY <1>1, <3>2, <3>3, PutIs
  <2>8. call[t] = Idle
    BY <1>1 DEF Types, CallsOK, Place
  <2> QED
    BY <2>6, <2>7, <2>8 DEF Keeps
<1>8. CASE BeginLogout(t)
  <2>1. CASE store.tokens = 0 /\ store' = Cleared(store) /\ UNCHANGED call
    <3>1. Cleared(store).tokens = 0
      <4>1. PICK s : s = Cleared(store)
        OBVIOUS
      <4> QED
        BY <1>2, <4>1, ClearedIs
    <3> QED
      BY <1>1, <2>1, <3>1, StoreKeeps
  <2>2. CASE store.tokens # 0
    <3>1. PICK r : r = Rpc(New("logout"), "Logout", store)
      OBVIOUS
    <3>2. PICK q : q = [r EXCEPT !.arg = store.tokens]
      OBVIOUS
    <3>3. r \in CallRecord(Len(pairs))
      BY <1>2, <1>4, <3>1 DEF AllKinds, Rpcs
    <3>4. q \in CallRecord(Len(pairs))
      BY <1>2, <3>2, <3>3 DEF CallRecord, StoreRecord
    <3>5. Enter(t, q, store)
      BY <1>8, <2>2, <3>1, <3>2 DEF BeginLogout
    <3> QED
      BY <1>5, <3>4, <3>5
  <2> QED
    BY <1>8, <2>1, <2>2 DEF BeginLogout
<1>9. CASE BeginSwitch(t) \/ BeginPerms(t)
  <2>1. ASSUME NEW q, \/ q = Rpc(New("switch"), "SwitchCompanyScope", store)
                      \/ q = Rpc(New("perms"), "GetPermissionState", store)
        PROVE  q \in CallRecord(Len(pairs))
    BY <1>2, <1>4, <2>1 DEF AllKinds, Rpcs
  <2> QED
    BY <1>5, <1>9, <2>1 DEF BeginSwitch, BeginPerms
<1>10. CASE BeginPrefer(t)
  <2>1. PICK k, r : k = New("prefer") /\ r = AboutUser(k, "UpdateById", store)
    OBVIOUS
  <2>2. k \in CallRecord(Len(pairs)) /\ "UpdateById" \in Rpcs
    BY <1>2, <2>1, NewIs DEF AllKinds, Rpcs
  <2>3. r \in CallRecord(Len(pairs))
    BY <1>2, <1>10, <2>1, <2>2, AboutUserIs, PairsIs DEF BeginPrefer
  <2> QED
    BY <1>5, <1>10, <2>1, <2>3 DEF BeginPrefer
<1>11. CASE BeginInit(t)
  <2>1. PICK s, c : s = [store EXCEPT !.identity = store.tokens] /\ c = New("init")
    OBVIOUS
  <2>2. s \in StoreRecord(Len(pairs)) /\ s.tokens = store.tokens /\ s.identity = store.tokens
    BY <1>2, <2>1 DEF StoreRecord
  <2>3. c \in CallRecord(Len(pairs)) /\ "renew" \in Waits /\ "Browse" \in Rpcs
    BY <1>2, <2>1, NewIs DEF AllKinds, Waits, Rpcs
  <2>4. Spare(t, s)
    BY <1>1, <2>2, SpareTokens
  <2>5. CASE store.tokens = 0 /\ store' = [Cleared(store) EXCEPT !.initialized = TRUE] /\ UNCHANGED call
    <3>1. PICK q : q = Cleared(store)
      OBVIOUS
    <3>2. q \in StoreRecord(Len(pairs)) /\ q.tokens = 0
      BY <1>2, <3>1, ClearedIs
    <3>3. store'.tokens = 0
      BY <2>5, <3>1, <3>2 DEF StoreRecord
    <3> QED
      BY <1>1, <2>5, <3>3, StoreKeeps
  <2>6. CASE Await(t, Waiting(c, "renew"), s, FALSE)
    BY <1>1, <2>2, <2>3, <2>4, <2>6, AwaitKeeps
  <2>7. CASE store' = [s EXCEPT !.initialized = TRUE] /\ UNCHANGED call
    <3>1. store'.tokens = store.tokens
      BY <2>2, <2>7 DEF StoreRecord
    <3>2. UNCHANGED <<call, used>>
      BY <1>1, <2>7
    <3> QED
      BY <3>1, <3>2, StoreKeeps
  <2>8. CASE s.tokens # 0 /\ Enter(t, Browse(c, s), s)
    <3>1. PICK r : r = AboutUser(c, "Browse", s)
      OBVIOUS
    <3>2. r \in CallRecord(Len(pairs))
      BY <1>2, <2>2, <2>3, <2>8, <3>1, AboutUserIs, PairsIs
    <3>3. Enter(t, r, s)
      BY <2>8, <3>1 DEF Browse
    <3> QED
      BY <1>1, <2>2, <2>4, <3>2, <3>3, EnterKeeps
  <2> QED
    BY <1>11, <2>1, <2>2, <2>5, <2>6, <2>7, <2>8 DEF BeginInit, Due
<1> QED
  BY <1>6, <1>7, <1>8, <1>9, <1>10, <1>11 DEF Begin

\* An answer without a pair.
LEMMA PlainSound ==
    ASSUME Types, Sound, NEW t \in All, call[t].at = "sent", NEW reply \in ReplyRecord(Len(pairs)),
           Answers(t, reply), UNCHANGED <<store, used>>,
           reply.code # "ok" \/ call[t].rpc \notin {"Login", "RefreshTokens", "SwitchCompanyScope"},
           t = Renewal => reply.code # "error"
    PROVE  Sound' /\ Keeps
<1>1. PICK c, r : c = call[t] /\ r = Answer(c, reply)
  OBVIOUS
<1>2. c \in CallRecord(Len(pairs)) /\ Len(pairs) \in Nat
  BY <1>1, PairsIs DEF Types, CallsOK
<1>3. r.at = "served" /\ r.reply = reply /\ r.rpc = c.rpc
  BY <1>1, <1>2, AnswerIs
<1>4. /\ ~Brings(r) /\ r.at \notin Waits /\ ~Brings(call[t])
      /\ t = Renewal => r.reply.code # "error" /\ r.at # "sent"
  BY <1>1, <1>3 DEF Brings, Waits
<1>5. Put(t, r, store)
  <2>1. call \in [All -> CallRecord(Len(pairs))]
    BY DEF Types, CallsOK
  <2> QED
    BY <1>1, <1>2, <2>1 DEF Put, Answers, Answer, CallRecord
<1>6. Spare(t, store)
  BY <1>4, SpareTokens
<1> QED
  BY <1>4, <1>5, <1>6, PutSound DEF Keeps

\* An answer with a new pair; the refresh has used up the one it presented.
LEMMA IssuesSound ==
    ASSUME Types, Sound, NEW t \in All, call[t].at = "sent", NEW u \in Users, NEW v \in Nat,
           Issues(t, u, v), UNCHANGED store,
           call[t].rpc \in {"Login", "RefreshTokens", "SwitchCompanyScope"},
           used' = IF t = Renewal THEN used \cup {call[t].arg} ELSE used
    PROVE  Sound' /\ Keeps
<1>1. PICK n \in Nat : n = Len(pairs)
  BY PairsIs
<1>2. PICK reply : /\ Answers(t, reply) /\ reply \in ReplyRecord(n + 1) /\ reply.code = "ok"
                   /\ reply.pair = n + 1
  BY <1>1, IssuesIs
<1>3. PICK c, r : c = call[t] /\ r = Answer(c, reply)
  OBVIOUS
<1>4. c \in CallRecord(n) /\ c \in CallRecord(n + 1)
  BY <1>1, <1>3, Widen DEF Types, CallsOK
<1>5. r.at = "served" /\ r.reply = reply /\ r.rpc = c.rpc /\ r.arg = c.arg
  BY <1>1, <1>3, <1>4, <1>2, AnswerIs
<1>6. Brings(r) /\ r.at \notin Waits /\ r.at # "sent" /\ ~Brings(c)
  BY <1>2, <1>3, <1>5 DEF Brings, Waits
<1>7. /\ Renewal \in All
      /\ \A o \in All : call'[o] = IF o = t THEN r ELSE call[o]
  BY <1>2, <1>3, AnswersIs DEF All
<1>8. /\ \A p \in used : p \in 1 .. n
      /\ store.tokens \in 0 .. n
      /\ \A o \in All : call[o].arg \in 0 .. n /\ call[o].reply.pair \in 0 .. n
  BY <1>1, StoreIs DEF Types, CallsOK, ServerOK, CallRecord, ReplyRecord, StoreRecord
<1>9. n + 1 \notin used' /\ n + 1 # store.tokens
      /\ \A o \in All : n + 1 # call[o].arg /\ n + 1 # call[o].reply.pair
  BY <1>1, <1>8
<1>10. Presents' => t # Renewal /\ Presents /\ call'[Renewal] = call[Renewal]
  BY <1>6, <1>7 DEF Presents
<1>11. t = Renewal => Presents
  <2>1. ASSUME t = Renewal
        PROVE  call[t].rpc = "RefreshTokens"
    BY <2>1 DEF Types, CallsOK, Form
  <2> QED
    BY <2>1 DEF Presents
<1>12. \A o \in All : Brings(call[o]) => o # t /\ call[o].reply.pair \notin used'
  BY <1>3, <1>6, <1>11 DEF Sound
<1>13. ASSUME NEW o \in All, Brings(call'[o])
       PROVE  /\ call'[o].reply.pair \notin used' /\ call'[o].reply.pair # store'.tokens
              /\ Presents' => call'[o].reply.pair # call'[Renewal].arg
              /\ \A x \in All : Brings(call'[x]) /\ call'[x].reply.pair = call'[o].reply.pair => x = o
  <2>1. CASE o = t
    <3>1. call'[o].reply.pair = n + 1
      BY <1>2, <1>5, <1>7, <2>1
    <3>2. \A x \in All : x # o => call'[x].reply.pair # n + 1
      BY <1>7, <1>9, <2>1
    <3> QED
      BY <1>7, <1>9, <1>10, <3>1, <3>2
  <2>2. CASE o # t
    <3>1. call'[o] = call[o] /\ Brings(call[o])
      BY <1>7, <1>13, <2>2
    <3>2. /\ call[o].reply.pair # store.tokens
          /\ Presents => call[o].reply.pair # call[Renewal].arg
          /\ \A x \in All : Brings(call[x]) /\ call[x].reply.pair = call[o].reply.pair => x = o
      BY <3>1 DEF Sound
    <3>3. call'[t].reply.pair # call[o].reply.pair
      BY <1>2, <1>5, <1>7, <1>9
    <3>4. \A x \in All : Brings(call'[x]) /\ call'[x].reply.pair = call'[o].reply.pair => x = o
      BY <1>7, <3>1, <3>2, <3>3
    <3> QED
      BY <1>10, <1>12, <3>1, <3>2, <3>4
  <2> QED
    BY <2>1, <2>2
<1>14. store'.tokens \notin used' \/ Brings(call'[Renewal])
  <2>1. CASE t = Renewal
    BY <1>6, <1>7, <2>1
  <2>2. CASE t # Renewal
    BY <1>7, <2>2 DEF Sound
  <2> QED
    BY <2>1, <2>2
<1>15. Presents' => call'[Renewal].arg \notin used'
  BY <1>10 DEF Sound
<1>16. \A o \in All : call'[o].at \in Waits => call'[o].reply.code # "error"
  BY <1>6, <1>7 DEF Sound
<1>17. call'[Renewal].reply.code # "error"
  BY <1>2, <1>5, <1>7 DEF Sound
<1>18. Sound'
  BY <1>13, <1>14, <1>15, <1>16, <1>17 DEF Sound
<1> QED
  BY <1>18 DEF Keeps

LEMMA ServeKeeps ==
    ASSUME Types, Sound, NEW t \in All, Serve(t), ~harmed'
    PROVE  Sound' /\ Keeps
<1>1. call[t].at = "sent" /\ UNCHANGED <<store, perm>>
  BY DEF Serve
<1>2. PICK c : c = call[t]
  OBVIOUS
<1>3. /\ c \in CallRecord(Len(pairs)) /\ Form(t, c, Len(pairs)) /\ Place(t, c)
      /\ t = Renewal => c.rpc \in {"RefreshTokens", "Browse", "GetPermissionState"}
      /\ t # Renewal => c.rpc # "RefreshTokens"
  BY <1>1, <1>2 DEF Types, CallsOK, Form, Place
<1>4. /\ Len(pairs) \in Nat /\ \A p \in 1 .. Len(pairs) : pairs[p].user \in Users
      /\ \A u \in Users : version[u] \in Nat /\ perm[u] \in Nat
  BY PairsIs DEF Types, ServerOK
<1>5. ASSUME NEW code \in {"unauth", "error"}, Refuses(t, code), t = Renewal => code # "error"
      PROVE  Sound' /\ Keeps
  <2>1. PICK r : r = [NoReply EXCEPT !.code = code]
    OBVIOUS
  <2>2. r \in ReplyRecord(Len(pairs)) /\ r.code = code
    BY <1>4, <2>1, CodeIs
  <2>3. Answers(t, r) /\ UNCHANGED used
    BY <1>5, <2>1 DEF Refuses
  <2> QED
    BY <1>1, <1>5, <2>2, <2>3, PlainSound
<1>6. PICK k : k = [NoReply EXCEPT !.code = "ok"]
  OBVIOUS
<1>7. k \in ReplyRecord(Len(pairs)) /\ k.code = "ok"
  BY <1>4, <1>6, CodeIs
<1>8. ASSUME NEW r \in ReplyRecord(Len(pairs)), r.code = "ok", Answers(t, r), UNCHANGED used,
             c.rpc \notin {"Login", "RefreshTokens", "SwitchCompanyScope"}
      PROVE  Sound' /\ Keeps
  BY <1>1, <1>2, <1>8, PlainSound
<1>9. CASE c.rpc = "Login" /\ ServeLogin(t)
  <2>1. ASSUME NEW code \in {"unauth", "error"}, Refuses(t, code)
        PROVE  Sound' /\ Keeps
    BY <1>3, <1>5, <1>9, <2>1
  <2>2. ASSUME NEW u \in Users, Issues(t, u, version[u]), UNCHANGED used
        PROVE  Sound' /\ Keeps
    BY <1>1, <1>2, <1>3, <1>4, <1>9, <2>2, IssuesSound
  <2> QED
    BY <1>9, <2>1, <2>2 DEF ServeLogin
<1>10. CASE c.rpc = "RefreshTokens" /\ ServeRefresh(t)
  <2>1. t = Renewal /\ c.arg \notin used
    BY <1>1, <1>2, <1>3, <1>10 DEF Sound, Presents
  <2>2. c.arg \in 1 .. Len(pairs)
    BY <1>3, <1>10 DEF Form, CallRecord
  <2>3. PICK u \in Users : u = pairs[c.arg].user
    BY <1>4, <2>2
  <2>4. Issues(t, u, version[u]) /\ used' = used \cup {c.arg}
    BY <1>2, <1>10, <2>1, <2>3 DEF ServeRefresh
  <2> QED
    BY <1>1, <1>2, <1>4, <1>10, <2>1, <2>4, IssuesSound
<1>11. CASE Refuses(t, "unauth")
  BY <1>5, <1>11
<1>12. CASE c.rpc = "Logout" /\ ServeLogout(t)
  <2>1. CASE Refuses(t, "error")
    BY <1>3, <1>5, <1>12, <2>1
  <2>2. CASE Answers(t, k) /\ UNCHANGED used
    BY <1>7, <1>8, <1>12, <2>2
  <2> QED
    BY <1>6, <1>12, <2>1, <2>2 DEF ServeLogout
<1>13. CASE Accepts(c.pair) /\ c.rpc \in {"UpdateById", "SwitchCompanyScope"} /\ ServeWrite(t)
  <2>1. PICK u : u = pairs[c.pair].user
    OBVIOUS
  <2>2. UNCHANGED used
    BY <1>13 DEF ServeWrite
  <2>3. CASE c.rpc = "UpdateById"
    <3>1. Answers(t, k)
      BY <1>2, <1>6, <1>13, <2>3 DEF ServeWrite
    <3> QED
      BY <1>7, <1>8, <2>2, <2>3, <3>1
  <2>4. CASE c.rpc = "SwitchCompanyScope"
    <3>1. Issues(t, u, version[u] + 1)
      BY <1>2, <1>13, <2>1, <2>4 DEF ServeWrite
    <3>2. c.pair \in 1 .. Len(pairs)
      BY <1>3, <1>13 DEF Accepts, CallRecord
    <3>3. u \in Users /\ version[u] + 1 \in Nat
      BY <1>4, <2>1, <3>2
    <3> QED
      BY <1>1, <1>2, <1>3, <2>2, <2>4, <3>1, <3>3, IssuesSound
  <2> QED
    BY <1>13, <2>3, <2>4
<1>14. CASE /\ Accepts(c.pair) /\ c.rpc \in {"Api", "Browse", "GetPermissionState"}
            /\ ServeRead(t)
  <2>1. UNCHANGED used
    BY <1>14 DEF ServeRead
  <2>2. CASE c.rpc = "Api"
    <3>1. Answers(t, k)
      BY <1>2, <1>6, <1>14, <2>2 DEF ServeRead
    <3> QED
      BY <1>7, <1>8, <2>1, <2>2, <3>1
  <2>3. CASE c.rpc = "Browse"
    <3>1. PICK r : r = [k EXCEPT !.user = c.user]
      OBVIOUS
    <3>2. r \in ReplyRecord(Len(pairs)) /\ r.code = "ok"
      BY <1>3, <1>7, <3>1 DEF ReplyRecord, CallRecord
    <3>3. Answers(t, r)
      BY <1>2, <1>6, <1>14, <2>3, <3>1 DEF ServeRead
    <3> QED
      BY <1>8, <2>1, <2>3, <3>2, <3>3
  <2>4. CASE c.rpc = "GetPermissionState"
    <3>1. c.pair \in 1 .. Len(pairs)
      BY <1>3, <1>14 DEF Accepts, CallRecord
    <3>2. PICK u \in Users : u = pairs[c.pair].user
      BY <1>4, <3>1
    <3>3. PICK p \in Nat : p = perm[u]
      BY <1>4
    <3>4. PICK r : r = [k EXCEPT !.user = u, !.perm = p]
      OBVIOUS
    <3>5. r \in ReplyRecord(Len(pairs)) /\ r.code = "ok"
      BY <1>7, <3>4 DEF ReplyRecord
    <3>6. Answers(t, r)
      BY <1>2, <1>6, <1>14, <2>4, <3>2, <3>3, <3>4 DEF ServeRead
    <3> QED
      BY <1>8, <2>1, <2>4, <3>5, <3>6
  <2> QED
    BY <1>14, <2>2, <2>3, <2>4
<1> QED
  BY <1>2, <1>9, <1>10, <1>11, <1>12, <1>13, <1>14 DEF Serve

LEMMA InitGuarded == Init => Guarded
<1> SUFFICES ASSUME Init PROVE Sound
  BY DEF Guarded
<1>1. \A t \in All : call[t] = Idle
  BY DEF Init, All
<1>2. Idle.at = "idle" /\ Idle.reply.code = "none"
  BY IdleIs, NoReplyIs
<1>3. used = {} /\ Renewal \in All
  BY DEF Init, All
<1> QED
  BY <1>1, <1>2, <1>3 DEF Sound, Presents, Brings, Waits

\* A step that harms nothing keeps what there is, and the tokens.
LEMMA NextKeeps ==
    Types /\ Guarded /\ [Next]_vars => Guarded' /\ (~harmed' => Keeps)
<1> SUFFICES ASSUME Types, Guarded, [Next]_vars, ~harmed' PROVE Sound' /\ Keeps
  BY DEF Guarded
<1>1. Sound
  <2>1. harmed => harmed'
    <3>1. CASE UNCHANGED vars
      BY <3>1 DEF vars
    <3>2. ASSUME NEW t, Begin(t) \/ Serve(t) \/ Deliver(t) \/ Resume(t) \/ Lose(t)
          PROVE  harmed => harmed'
      BY <3>2 DEF Begin, Serve, ServeRefresh, Deliver, Resume, Lose
    <3>3. CASE DeliverRefresh \/ Tick \/ \E u \in Users : Revoke(u) \/ Close(u) \/ Grant(u)
      BY <3>3 DEF DeliverRefresh, Tick, Revoke, Close, Grant
    <3> QED
      BY <3>1, <3>2, <3>3 DEF Next, Work, Renew
  <2> QED
    BY <2>1 DEF Guarded
<1>2. CASE UNCHANGED vars
  BY <1>1, <1>2 DEF vars, Sound, Presents, Brings, Keeps
<1>3. ASSUME NEW t \in Calls, Begin(t) \/ Work(t) \/ Lose(t)
      PROVE  Sound' /\ Keeps
  <2>1. ~Lose(t)
    BY DEF Lose
  <2> QED
    BY <1>1, <1>3, <2>1, BeginKeeps, ServeKeeps, DeliverKeeps, ResumeKeeps DEF Work, All
<1>4. CASE Renew \/ Lose(Renewal)
  <2>1. ~Lose(Renewal)
    BY DEF Lose
  <2> QED
    BY <1>1, <1>4, <2>1, ServeKeeps, DeliverRefreshKeeps DEF Renew, All
<1>5. CASE Tick \/ \E u \in Users : Revoke(u) \/ Close(u) \/ Grant(u)
  <2>1. UNCHANGED <<call, store, used>>
    BY <1>5 DEF Tick, Revoke, Close, Grant
  <2> QED
    BY <1>1, <2>1 DEF Sound, Presents, Brings, Keeps
<1> QED
  BY <1>2, <1>3, <1>4, <1>5 DEF Next

\* However many calls find the pair over at once and whatever they are answered,
\* they do not end the session: refreshToken hands every one of them the same
\* refresh, so no refresh fails for a token that another refresh used. Until a
\* message is lost, tokens are revoked or a token never used is refused, because
\* it is too old or the account is closed, clearAuth runs for a login and a logout
\* only.
THEOREM SessionOutlives == Spec => SessionSurvives
<1>1. Types /\ Guarded /\ [Next]_vars => Guarded'
  BY NextKeeps
<1>2. Types /\ Guarded /\ [Next]_vars =>
         [store.tokens # 0 /\ store'.tokens = 0 =>
            \/ harmed'
            \/ \E t \in Calls :
                 \/ call[t].kind = "logout" /\ call'[t] = Idle
                 \/ call[t] = Idle /\ call'[t].kind = "login"]_vars
  BY NextKeeps DEF Keeps
<1> QED
  BY <1>1, <1>2, InitGuarded, TypesInvariant, PTL DEF Spec, SessionSurvives
=============================================================================
