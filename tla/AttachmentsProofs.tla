------------------------- MODULE AttachmentsProofs -------------------------
(* The safety properties that the runs of Attachments check, for any number *)
(* of sessions, contents, bindings, mutations and calls in flight.          *)
EXTENDS Attachments, FiniteSetTheorems, TLAPS

----------------------------------------------------------------------------
(* Types *)

Asks == {None} \cup [op : {"bind"}, field : Fields, of : Contents]
               \cup [op : {"unbind"}, field : {None}, of : Bindings]

CallRecord ==
    {Idle}
    \cup [op : {"put"}, on : Sessions, seen : Payloads \cup {None}]
    \cup [op : {"commit_put"}, on : Sessions, seen : Payloads]
    \cup [op : {"finalize"}, on : Sessions, seen : Contents \cup {None}]
    \cup [op : {"bind"}, on : Mutations, seen : Bindings \cup {None}]
    \cup [op : {"unbind"}, on : Mutations, seen : {"absent", "active", "unbound", "purged"}]

GcRecord == [running : BOOLEAN, expire : SUBSET Sessions, purge : SUBSET Sessions,
             doomed : SUBSET Contents, deleted : SUBSET Contents, failed : SUBSET Contents]

\* The contents the garbage collection in progress has chosen.
Handled == gc.doomed \cup gc.deleted \cup gc.failed

\* A call works on what it is for, and a mutation in flight has been asked for.
CallsOK ==
    /\ call \in [Calls -> CallRecord] /\ asked \in [Mutations -> Asks]
    /\ \A k \in Calls : call[k].op \in {"bind", "unbind"} => Asked(call[k].on, call[k].op)

\* The garbage collection only handles contents that it may still try.
GcOK ==
    /\ gc \in GcRecord
    /\ \A c \in Handled : content[c].status = "active" /\ content[c].attempts < MaxAttempts

\* A finalized session has its content, an uploaded one its payload.
SessionsOK ==
    \A u \in Sessions : /\ session[u].status = "finalized" => session[u].content \in Contents
                        /\ session[u].status = "uploaded" => session[u].payload \in Payloads

Types == TypeOK /\ CallsOK /\ GcOK /\ SessionsOK

LEMMA Constants ==
    /\ MaxAttempts \in Nat \ {0} /\ {SerialUploads, LateBinds, InsertAborts} \subseteq BOOLEAN
    /\ None \notin Sessions /\ None \notin Payloads /\ None \notin Contents
    /\ None \notin Bindings /\ None \notin Fields
  BY AttachmentsAssumption

\* A new row gets an identifier no row has.
LEMMA NewIdIs ==
    ASSUME NEW S, NewId(S) # None
    PROVE  NewId(S) \in S
<1>1. S # {}
  BY DEF NewId
<1>2. PICK x : x \in S
  BY <1>1
<1> QED
  BY <1>1, <1>2 DEF NewId

LEMMA CallIs ==
    ASSUME Types, NEW k \in Calls
    PROVE  /\ call[k].op = "put" => call[k].on \in Sessions /\ call[k].seen \in Payloads \cup {None}
           /\ call[k].op = "commit_put" => call[k].on \in Sessions /\ call[k].seen \in Payloads
           /\ call[k].op = "finalize" =>
                 call[k].on \in Sessions /\ call[k].seen \in Contents \cup {None}
           /\ call[k].op = "bind" => call[k].on \in Mutations /\ call[k].seen \in Bindings \cup {None}
           /\ call[k].op = "unbind" => call[k].on \in Mutations
<1>1. call[k] \in CallRecord
  BY DEF Types, CallsOK
<1> QED
  BY <1>1 DEF CallRecord, Idle

LEMMA AskIs ==
    ASSUME Types, NEW m \in Mutations
    PROVE  /\ Asked(m, "bind") => asked[m].field \in Fields /\ asked[m].of \in Contents
           /\ Asked(m, "unbind") => asked[m].of \in Bindings
<1>1. asked[m] \in Asks
  BY DEF Types, CallsOK
<1> QED
  BY <1>1 DEF Asks, Asked

\* A call in flight that reads, or ends.
LEMMA BeginTypes ==
    ASSUME Types, NEW k \in Calls, NEW op, NEW on, NEW seen, Begin(k, op, on, seen),
           [op |-> op, on |-> on, seen |-> seen] \in CallRecord,
           op \in {"bind", "unbind"} => Asked(on, op), UNCHANGED asked
    PROVE  CallsOK'
<1>1. call \in [Calls -> CallRecord]
  BY DEF Types, CallsOK
<1>2. PICK r \in CallRecord : r = [op |-> op, on |-> on, seen |-> seen]
  OBVIOUS
<1>3. r.op = op /\ r.on = on
  BY <1>2
<1>4. call' = [call EXCEPT ![k] = r]
  BY <1>2 DEF Begin
<1>5. call' \in [Calls -> CallRecord] /\ \A o \in Calls : call'[o] = IF o = k THEN r ELSE call[o]
  BY <1>1, <1>4
<1>6. \A o \in Calls : call'[o].op \in {"bind", "unbind"} =>
                      asked[call'[o].on] # None /\ asked[call'[o].on].op = call'[o].op
  BY <1>3, <1>5 DEF Types, CallsOK, Asked
<1> QED
  BY <1>5, <1>6 DEF Types, CallsOK, Asked

LEMMA EndTypes ==
    ASSUME Types, NEW k \in Calls, End(k), UNCHANGED asked
    PROVE  CallsOK'
<1>1. call \in [Calls -> CallRecord] /\ Idle \in CallRecord /\ Idle.op = "idle"
  BY DEF Types, CallsOK, CallRecord, Idle
<1>2. call' \in [Calls -> CallRecord] /\ \A o \in Calls : call'[o] = IF o = k THEN Idle ELSE call[o]
  BY <1>1 DEF End
<1>3. \A o \in Calls : call'[o].op \in {"bind", "unbind"} =>
                      asked[call'[o].on] # None /\ asked[call'[o].on].op = call'[o].op
  BY <1>1, <1>2 DEF Types, CallsOK, Asked
<1> QED
  BY <1>2, <1>3 DEF Types, CallsOK, Asked

LEMMA InitTypes == Init => Types
<1> SUFFICES ASSUME Init PROVE Types
  OBVIOUS
<1>1. NoSession \in SessionRow /\ NoContent \in ContentRow /\ NoBinding \in BindingRow
  BY Constants DEF NoSession, NoContent, NoBinding, SessionRow, ContentRow, BindingRow
<1>2. \A f \in Fields : EarlierBinding(f) \in BindingRow
  BY DEF EarlierBinding, BindingRow
<1>3. binding \in [Bindings -> BindingRow]
  BY <1>1, <1>2 DEF Init
<1>4. /\ session \in [Sessions -> SessionRow] /\ content \in [Contents -> ContentRow]
      /\ payload \in [Payloads -> {"absent", "active", "deleted"}] /\ object \in [Payloads -> BOOLEAN]
      /\ ledger \in [Mutations -> Bindings \cup {None}]
      /\ finalized \in [Sessions -> SUBSET Contents] /\ answered \in [Mutations -> SUBSET Bindings]
  BY <1>1 DEF Init
<1>5. gc \in GcRecord /\ gc.expire \cup gc.purge = {} /\ Handled = {}
  BY DEF Init, GcIdle, GcRecord, Handled
<1>6. TypeOK
  BY <1>3, <1>4, <1>5 DEF TypeOK, Handled
<1>7. CallsOK
  BY DEF Init, CallsOK, CallRecord, Idle, Asks
<1>8. SessionsOK
  BY DEF Init, NoSession, SessionsOK
<1> QED
  BY <1>5, <1>6, <1>7, <1>8 DEF Types, GcOK

\* A step that leaves the garbage collection and the contents alone.
LEMMA GcKept ==
    ASSUME Types, UNCHANGED <<gc, content>>
    PROVE  GcOK'
  BY DEF Types, GcOK, Handled

\* Session u becomes r.
LEMMA SessionTypes ==
    ASSUME Types, NEW u \in Sessions, NEW r \in SessionRow, session' = [session EXCEPT ![u] = r],
           r.status = "finalized" => r.content \in Contents,
           r.status = "uploaded" => r.payload \in Payloads
    PROVE  session' \in [Sessions -> SessionRow] /\ SessionsOK'
<1>1. session \in [Sessions -> SessionRow]
  BY DEF Types, TypeOK
<1>2. /\ session' \in [Sessions -> SessionRow]
      /\ \A v \in Sessions : session'[v] = IF v = u THEN r ELSE session[v]
  BY <1>1
<1> QED
  BY <1>2 DEF Types, SessionsOK

LEMMA SessionIs ==
    ASSUME Types, NEW u \in Sessions
    PROVE  session[u] \in SessionRow
  BY DEF Types, TypeOK

\* The reads of the upload calls, and their dropping.
LEMMA UploadReadTypes ==
    ASSUME Types, NEW k \in Calls,
           \/ \E u \in Sessions : AuthorizePut(k, u) \/ Finalize(k, u)
           \/ CommitPut(k) \/ Drop(k)
    PROVE  Types'
<1>1. UNCHANGED <<rows, object, asked, gc, finalized, answered>>
  BY DEF AuthorizePut, Finalize, CommitPut, Drop
<1>2. CallsOK'
  <2>1. CASE End(k)
    BY <1>1, <2>1, EndTypes
  <2>2. ASSUME NEW u \in Sessions, AuthorizePut(k, u)
        PROVE  CallsOK'
    <3>1. [op |-> "put", on |-> u, seen |-> None] \in CallRecord
      BY DEF CallRecord
    <3>2. Begin(k, "put", u, None)
      BY <2>2 DEF AuthorizePut
    <3> QED
      BY <1>1, <3>1, <3>2, BeginTypes
  <2>3. ASSUME NEW u \in Sessions, Finalize(k, u)
        PROVE  CallsOK'
    <3>1. PICK c \in Contents \cup {None} : Begin(k, "finalize", u, c)
      BY <2>3 DEF Finalize
    <3>2. [op |-> "finalize", on |-> u, seen |-> c] \in CallRecord
      BY DEF CallRecord
    <3> QED
      BY <1>1, <3>1, <3>2, BeginTypes
  <2>4. CASE CommitPut(k) /\ ~End(k)
    <3>1. /\ Begin(k, "commit_put", call[k].on, call[k].seen)
          /\ call[k].op = "put" /\ call[k].seen # None
      BY <2>4 DEF CommitPut, Waiting
    <3>2. call[k].on \in Sessions /\ call[k].seen \in Payloads
      BY <3>1, CallIs
    <3>3. [op |-> "commit_put", on |-> call[k].on, seen |-> call[k].seen] \in CallRecord
      BY <3>2 DEF CallRecord
    <3> QED
      BY <1>1, <3>1, <3>3, BeginTypes
  <2> QED
    BY <2>1, <2>2, <2>3, <2>4 DEF Drop
<1>3. TypeOK'
  BY <1>1 DEF Types, TypeOK, rows
<1>4. GcOK' /\ SessionsOK'
  BY <1>1, GcKept DEF Types, SessionsOK, rows
<1> QED
  BY <1>2, <1>3, <1>4 DEF Types

\* The writes of the upload calls.
LEMMA UploadWriteTypes ==
    ASSUME Types, NEW k \in Calls,
           \/ \E u \in Sessions : Prepare(k, u) \/ FinalizeReplay(k, u)
           \/ \E p \in Payloads : StorePayload(k, p)
           \/ CommitPutCommit(k)
    PROVE  Types'
<1>1. UNCHANGED <<content, binding, ledger, asked, gc, answered>>
  BY DEF Prepare, FinalizeReplay, StorePayload, CommitPutCommit, rows
<1>2. GcOK'
  BY <1>1, GcKept
<1>3. CASE \E u \in Sessions : Prepare(k, u)
  <2>1. PICK u \in Sessions : Prepare(k, u)
    BY <1>3
  <2>2. PICK r : r = [NoSession EXCEPT !.status = "prepared"]
    OBVIOUS
  <2>3. r \in SessionRow /\ r.status = "prepared"
    BY <2>2 DEF NoSession, SessionRow
  <2>4. session' = [session EXCEPT ![u] = r]
    BY <2>1, <2>2 DEF Prepare
  <2>5. session' \in [Sessions -> SessionRow] /\ SessionsOK'
    BY <2>3, <2>4, SessionTypes
  <2>6. UNCHANGED <<payload, object, call, finalized>>
    BY <2>1 DEF Prepare
  <2> QED
    BY <1>1, <1>2, <2>5, <2>6 DEF Types, TypeOK, CallsOK, Asked
<1>4. CASE \E u \in Sessions : FinalizeReplay(k, u)
  <2>1. PICK u \in Sessions : FinalizeReplay(k, u)
    BY <1>4
  <2>2. session[u].content \in Contents
    BY <2>1 DEF FinalizeReplay, Types, SessionsOK
  <2>3. finalized' \in [Sessions -> SUBSET Contents]
    BY <2>1, <2>2 DEF FinalizeReplay, Types, TypeOK
  <2>4. UNCHANGED <<session, payload, object, call>>
    BY <2>1 DEF FinalizeReplay, rows
  <2> QED
    BY <1>1, <1>2, <2>3, <2>4 DEF Types, TypeOK, CallsOK, SessionsOK, Asked
<1>5. CASE \E p \in Payloads : StorePayload(k, p)
  <2>1. PICK p \in Payloads : StorePayload(k, p)
    BY <1>5
  <2>2. call[k].on \in Sessions
    BY <2>1, CallIs DEF StorePayload, Waiting
  <2>3. [op |-> "put", on |-> call[k].on, seen |-> p] \in CallRecord
    BY <2>2 DEF CallRecord
  <2>4. CallsOK'
    BY <1>1, <2>1, <2>3, BeginTypes DEF StorePayload
  <2>5. payload' \in [Payloads -> {"absent", "active", "deleted"}] /\ object' \in [Payloads -> BOOLEAN]
    BY <2>1 DEF StorePayload, Types, TypeOK
  <2>6. UNCHANGED <<session, finalized>>
    BY <2>1 DEF StorePayload
  <2> QED
    BY <1>1, <1>2, <2>4, <2>5, <2>6 DEF Types, TypeOK, SessionsOK
<1>6. CASE CommitPutCommit(k)
  <2>1. PICK u \in Sessions, p \in Payloads : u = call[k].on /\ p = call[k].seen
    BY <1>6, CallIs DEF CommitPutCommit, Waiting
  <2>2. PICK r : r = [session[u] EXCEPT !.status = "uploaded", !.payload = p]
    OBVIOUS
  <2>3. session[u] \in SessionRow /\ session \in [Sessions -> SessionRow]
    BY SessionIs DEF Types, TypeOK
  <2>4. r \in SessionRow /\ r.status = "uploaded" /\ r.payload = p
    BY <2>2, <2>3 DEF SessionRow
  <2>5. session' = [session EXCEPT ![u] = r]
    BY <1>6, <2>1, <2>2, <2>3 DEF CommitPutCommit, SessionRow
  <2>6. session' \in [Sessions -> SessionRow] /\ SessionsOK'
    BY <2>4, <2>5, SessionTypes
  <2>7. CallsOK'
    BY <1>1, <1>6, EndTypes DEF CommitPutCommit
  <2>8. UNCHANGED <<payload, object, finalized>>
    BY <1>6 DEF CommitPutCommit
  <2> QED
    BY <1>1, <1>2, <2>6, <2>7, <2>8 DEF Types, TypeOK
<1> QED
  BY <1>3, <1>4, <1>5, <1>6

NewContent(p) == [NoContent EXCEPT !.status = "active", !.payload = p]

LEMMA NewContentIs ==
    ASSUME NEW p \in Payloads \cup {None}
    PROVE  /\ NewContent(p) \in ContentRow
           /\ NewContent(p).status = "active" /\ NewContent(p).payload = p
           /\ ~NewContent(p).old /\ NewContent(p).attempts = 0
<1>1. NoContent \in ContentRow /\ NoContent.old = FALSE /\ NoContent.attempts = 0
  BY Constants DEF NoContent, ContentRow
<1> QED
  BY <1>1 DEF NewContent, ContentRow

\* The session that is finalized, and its content, new or reused.
LEMMA FinalizeCommitIs ==
    ASSUME Types, NEW k \in Calls, NEW c \in Contents, NEW u, u = call[k].on, FinalizeCommit(k, c)
    PROVE  /\ u \in Sessions /\ Finalized(session[u], c) \in SessionRow
           /\ session' = [session EXCEPT ![u] = Finalized(session[u], c)]
           /\ Finalized(session[u], c).status = "finalized"
           /\ Finalized(session[u], c).content = c
           /\ Finalized(session[u], c).payload = session[u].payload
           /\ call[k].seen # None => c = call[k].seen /\ UNCHANGED content
           /\ call[k].seen = None =>
                 /\ content[c].status = "absent"
                 /\ content' = [content EXCEPT ![c] = NewContent(session[u].payload)]
<1>1. u \in Sessions /\ session[u] \in SessionRow /\ session \in [Sessions -> SessionRow]
  BY CallIs, SessionIs DEF FinalizeCommit, Waiting, Types, TypeOK
<1>2. /\ Finalized(session[u], c) \in SessionRow
      /\ Finalized(session[u], c).status = "finalized"
      /\ Finalized(session[u], c).content = c
      /\ Finalized(session[u], c).payload = session[u].payload
  BY <1>1 DEF Finalized, SessionRow
<1>3. session' = [session EXCEPT ![u] = Finalized(session[u], c)]
  BY DEF FinalizeCommit
<1>4. ASSUME call[k].seen = None
      PROVE  content[c].status = "absent"
  <2>1. c = NewId({x \in Contents : content[x].status = "absent"}) /\ c # None
    BY <1>4, Constants DEF FinalizeCommit
  <2> QED
    BY <2>1, NewIdIs
<1> QED
  BY <1>1, <1>2, <1>3, <1>4 DEF FinalizeCommit, NewContent

LEMMA FinalizeCommitTypes ==
    ASSUME Types, NEW k \in Calls, NEW c \in Contents, FinalizeCommit(k, c)
    PROVE  Types'
<1>1. PICK u : u = call[k].on
  OBVIOUS
<1>2. PICK r : r = Finalized(session[u], c)
  OBVIOUS
<1>3. /\ u \in Sessions /\ r \in SessionRow /\ r.status = "finalized" /\ r.content = c
      /\ session' = [session EXCEPT ![u] = r]
  BY <1>1, <1>2, FinalizeCommitIs
<1>4. session' \in [Sessions -> SessionRow] /\ SessionsOK'
  BY <1>3, SessionTypes
<1>5. PICK q : q = NewContent(session[u].payload)
  OBVIOUS
<1>6. q \in ContentRow
  <2>1. session[u].payload \in Payloads \cup {None}
    BY <1>3, SessionIs DEF SessionRow
  <2> QED
    BY <1>5, <2>1, NewContentIs
<1>7. \/ UNCHANGED content
      \/ content[c].status = "absent" /\ content' = [content EXCEPT ![c] = q]
  BY <1>1, <1>5, FinalizeCommitIs
<1>8. content' \in [Contents -> ContentRow]
  BY <1>6, <1>7 DEF Types, TypeOK
<1>9. GcOK'
  <2>1. UNCHANGED gc
    BY DEF FinalizeCommit
  <2>2. \A x \in Handled : x \in Contents
    BY DEF Handled, Types, GcOK, GcRecord
  <2>3. content \in [Contents -> ContentRow]
    BY DEF Types, TypeOK
  <2>4. \A x \in Handled : content'[x] = content[x]
    BY <1>7, <2>2, <2>3 DEF Types, GcOK
  <2> QED
    BY <2>1, <2>4 DEF Types, GcOK, Handled
<1>10. finalized' \in [Sessions -> SUBSET Contents]
  BY <1>1, <1>3 DEF FinalizeCommit, Types, TypeOK
<1>11. UNCHANGED <<payload, binding, ledger, object, asked, gc, answered>>
  BY DEF FinalizeCommit
<1>12. CallsOK'
  BY <1>11, EndTypes DEF FinalizeCommit
<1> QED
  BY <1>4, <1>8, <1>9, <1>10, <1>11, <1>12 DEF Types, TypeOK

\* What a call in flight may answer: the ledger's binding.
LEMMA ReplayTypes ==
    ASSUME Types, NEW k \in Calls, NEW m \in Mutations, Replay(k, m)
    PROVE  Types'
<1>1. ledger[m] \in Bindings
  BY DEF Replay, Types, TypeOK
<1>2. answered' \in [Mutations -> SUBSET Bindings]
  BY <1>1 DEF Replay, Types, TypeOK
<1>3. UNCHANGED <<rows, object, asked, call, gc, finalized>>
  BY DEF Replay
<1> QED
  BY <1>2, <1>3, GcKept DEF Types, TypeOK, CallsOK, SessionsOK, Asked, rows

LEMMA AskTypes ==
    ASSUME Types, NEW m \in Mutations, Ask(m)
    PROVE  Types'
<1>1. \E a \in Asks : asked' = [asked EXCEPT ![m] = a]
  <2>1. CASE \E f \in Fields, u \in Sessions :
               \E c \in finalized[u] :
                 asked' = [asked EXCEPT ![m] = [op |-> "bind", field |-> f, of |-> c]]
    <3>1. PICK f \in Fields, u \in Sessions : \E c \in finalized[u] :
                 asked' = [asked EXCEPT ![m] = [op |-> "bind", field |-> f, of |-> c]]
      BY <2>1
    <3>2. PICK c \in finalized[u] :
                 asked' = [asked EXCEPT ![m] = [op |-> "bind", field |-> f, of |-> c]]
      BY <3>1
    <3>3. c \in Contents
      BY <3>2 DEF Types, TypeOK
    <3>4. [op |-> "bind", field |-> f, of |-> c] \in Asks
      BY <3>3 DEF Asks
    <3> QED
      BY <3>2, <3>4
  <2>2. CASE \E b \in Bindings :
               asked' = [asked EXCEPT ![m] = [op |-> "unbind", field |-> None, of |-> b]]
    <3>1. \A b \in Bindings : [op |-> "unbind", field |-> None, of |-> b] \in Asks
      BY DEF Asks
    <3> QED
      BY <2>2, <3>1
  <2> QED
    BY <2>1, <2>2 DEF Ask
<1>2. asked \in [Mutations -> Asks] /\ asked[m] = None
  BY DEF Ask, Types, CallsOK
<1>3. asked' \in [Mutations -> Asks] /\ \A o : asked[o] # None => asked'[o] = asked[o]
  BY <1>1, <1>2
<1>4. UNCHANGED <<rows, object, call, gc, finalized, answered>>
  BY DEF Ask
<1>5. CallsOK'
  BY <1>3, <1>4 DEF Types, CallsOK, Asked
<1> QED
  BY <1>4, <1>5, GcKept DEF Types, TypeOK, SessionsOK, rows

LEMMA MutateReadTypes ==
    ASSUME Types, NEW k \in Calls, NEW m \in Mutations, Bind(k, m) \/ Unbind(k, m)
    PROVE  Types'
<1>1. UNCHANGED <<rows, object, asked, gc, finalized, answered>>
  BY DEF Bind, Unbind
<1>2. CallsOK'
  <2>1. CASE Bind(k, m)
    <3>1. PICK b \in Bindings \cup {None} : Begin(k, "bind", m, b)
      BY <2>1 DEF Bind, ActiveBindings
    <3>2. [op |-> "bind", on |-> m, seen |-> b] \in CallRecord
      BY DEF CallRecord
    <3> QED
      BY <1>1, <2>1, <3>1, <3>2, BeginTypes DEF Bind
  <2>2. CASE Unbind(k, m)
    <3>1. PICK b : b = asked[m].of
      OBVIOUS
    <3>2. b \in Bindings
      BY <2>2, <3>1, AskIs DEF Unbind
    <3>3. binding[b].status \in {"absent", "active", "unbound", "purged"}
      BY <3>2 DEF Types, TypeOK, BindingRow
    <3>4. [op |-> "unbind", on |-> m, seen |-> binding[b].status] \in CallRecord
      BY <3>3 DEF CallRecord
    <3> QED
      BY <1>1, <2>2, <3>1, <3>4, BeginTypes DEF Unbind
  <2> QED
    BY <2>1, <2>2
<1>3. TypeOK'
  BY <1>1 DEF Types, TypeOK, rows
<1>4. GcOK' /\ SessionsOK'
  BY <1>1, GcKept DEF Types, SessionsOK, rows
<1> QED
  BY <1>2, <1>3, <1>4 DEF Types

\* Unbinding changes the status of rows only.
LEMMA UnboundIs ==
    ASSUME Types, NEW f, NEW b, NEW u, u = Unbound(binding, f, b)
    PROVE  /\ u \in [Bindings -> BindingRow]
           /\ \A x \in Bindings :
                 /\ u[x].field = binding[x].field /\ u[x].content = binding[x].content
                 /\ u[x].status = "active" => binding[x].status = "active"
                 /\ u[x].status = "absent" => binding[x].status = "absent"
<1> DEFINE row(x) == IF x = b THEN [binding[x] EXCEPT !.status = "unbound"]
                     ELSE IF binding[x].status = "unbound" /\ binding[x].field = f
                            THEN [binding[x] EXCEPT !.status = "purged"]
                            ELSE binding[x]
<1>1. ASSUME NEW x \in Bindings
      PROVE  /\ row(x) \in BindingRow
             /\ row(x).field = binding[x].field /\ row(x).content = binding[x].content
             /\ row(x).status = "active" => binding[x].status = "active"
             /\ row(x).status = "absent" => binding[x].status = "absent"
  <2>1. binding[x] \in BindingRow
    BY DEF Types, TypeOK
  <2>2. \A st \in {"unbound", "purged"} :
           /\ [binding[x] EXCEPT !.status = st] \in BindingRow
           /\ [binding[x] EXCEPT !.status = st].field = binding[x].field
           /\ [binding[x] EXCEPT !.status = st].content = binding[x].content
           /\ [binding[x] EXCEPT !.status = st].status = st
    BY <2>1 DEF BindingRow
  <2> QED
    BY <2>1, <2>2
<1>2. u = [x \in Bindings |-> row(x)]
  BY DEF Unbound
<1> HIDE DEF row
<1> QED
  BY <1>1, <1>2

\* The new row of a Bind, and the rows it leaves.
LEMMA BindNewIs ==
    ASSUME Types, NEW k \in Calls, NEW b \in Bindings, BindNew(k, b), NEW m, m = call[k].on
    PROVE  /\ m \in Mutations /\ Asked(m, "bind")
           /\ asked[m].of \in Contents /\ asked[m].field \in Fields
           /\ binding' \in [Bindings -> BindingRow]
           /\ binding'[b] = [status |-> "active", field |-> asked[m].field, content |-> asked[m].of]
           /\ \A x \in Bindings : x # b =>
                 /\ binding'[x].content = binding[x].content
                 /\ binding'[x].status = "active" => binding[x].status = "active"
<1>1. m \in Mutations /\ Asked(m, "bind")
  BY CallIs DEF BindNew, Waiting, Types, CallsOK
<1>2. asked[m].of \in Contents /\ asked[m].field \in Fields
  BY <1>1, AskIs
<1>3. PICK r : r = [status |-> "active", field |-> asked[m].field, content |-> asked[m].of]
  OBVIOUS
<1>4. r \in BindingRow
  BY <1>2, <1>3 DEF BindingRow
<1>5. PICK left : /\ left = IF call[k].seen = None THEN binding
                            ELSE Unbound(binding, asked[m].field, call[k].seen)
                  /\ binding' = [left EXCEPT ![b] = r]
  BY <1>3 DEF BindNew
<1>6. /\ left \in [Bindings -> BindingRow]
      /\ \A x \in Bindings : /\ left[x].content = binding[x].content
                             /\ left[x].status = "active" => binding[x].status = "active"
  <2>1. CASE call[k].seen = None
    BY <1>5, <2>1 DEF Types, TypeOK
  <2>2. CASE call[k].seen # None
    BY <1>5, <2>2, UnboundIs
  <2> QED
    BY <2>1, <2>2
<1>7. /\ binding' \in [Bindings -> BindingRow]
      /\ \A x \in Bindings : binding'[x] = IF x = b THEN r ELSE left[x]
  BY <1>4, <1>5, <1>6
<1>8. binding'[b] = [status |-> "active", field |-> asked[m].field, content |-> asked[m].of]
  BY <1>3, <1>7
<1>9. ASSUME NEW x \in Bindings, x # b
      PROVE  /\ binding'[x].content = binding[x].content
             /\ binding'[x].status = "active" => binding[x].status = "active"
  <2>1. binding'[x] = left[x]
    BY <1>7, <1>9
  <2> QED
    BY <1>6, <2>1
<1> QED
  BY <1>1, <1>2, <1>7, <1>8, <1>9

LEMMA RecordTypes ==
    ASSUME Types, NEW m \in Mutations, NEW b \in Bindings, RecordMutation(m, b)
    PROVE  ledger' \in [Mutations -> Bindings \cup {None}]
  BY DEF RecordMutation, Types, TypeOK

LEMMA MutateWriteTypes ==
    ASSUME Types, NEW k \in Calls,
           BindSame(k) \/ UnbindCommit(k) \/ \E b \in Bindings : BindNew(k, b)
    PROVE  Types'
<1>1. UNCHANGED <<session, payload, content, object, asked, gc, finalized>> /\ End(k)
  BY DEF BindSame, UnbindCommit, BindNew
<1>2. CallsOK' /\ GcOK' /\ SessionsOK'
  BY <1>1, EndTypes, GcKept DEF Types, SessionsOK
<1>3. PICK m : m = call[k].on
  OBVIOUS
<1>4. \E b \in Bindings : /\ m \in Mutations /\ RecordMutation(m, b)
                          /\ answered' = [answered EXCEPT ![m] = @ \cup {b}]
                          /\ binding' \in [Bindings -> BindingRow]
  <2>1. CASE BindSame(k)
    BY <1>3, <2>1, CallIs DEF BindSame, Waiting, Types, TypeOK
  <2>2. CASE UnbindCommit(k)
    <3>1. m \in Mutations /\ Asked(m, "unbind")
      BY <1>3, <2>2, CallIs DEF UnbindCommit, Waiting, Types, CallsOK
    <3>2. PICK b \in Bindings : b = asked[m].of
      BY <3>1, AskIs
    <3>3. UNCHANGED binding \/ binding' = Unbound(binding, binding[b].field, b)
      BY <1>3, <2>2, <3>2 DEF UnbindCommit
    <3>4. binding' \in [Bindings -> BindingRow]
      BY <3>3, UnboundIs DEF Types, TypeOK
    <3> QED
      BY <1>3, <2>2, <3>1, <3>2, <3>4 DEF UnbindCommit
  <2>3. CASE \E b \in Bindings : BindNew(k, b)
    <3>1. PICK b \in Bindings : BindNew(k, b)
      BY <2>3
    <3> QED
      BY <1>3, <3>1, BindNewIs DEF BindNew
  <2> QED
    BY <2>1, <2>2, <2>3
<1>5. ledger' \in [Mutations -> Bindings \cup {None}]
  BY <1>4, RecordTypes
<1>6. answered' \in [Mutations -> SUBSET Bindings]
  BY <1>4 DEF Types, TypeOK
<1> QED
  BY <1>1, <1>2, <1>4, <1>5, <1>6 DEF Types, TypeOK

\* A deletion, done or failed, moves one content from one set to another.
LEMMA GcDeleteIs ==
    ASSUME Types, NEW c \in Contents, GcDelete(c)
    PROVE  /\ gc' \in GcRecord /\ c \in gc.doomed
           /\ gc'.running = gc.running /\ gc'.expire = gc.expire /\ gc'.purge = gc.purge
           /\ Handled' = Handled
<1>1. gc \in GcRecord /\ c \in gc.doomed
  BY DEF Types, GcOK, GcDelete
<1>2. CASE gc' = [gc EXCEPT !.doomed = @ \ {c}, !.deleted = @ \cup {c}]
  <2>1. /\ gc' \in GcRecord /\ gc'.doomed = gc.doomed \ {c} /\ gc'.deleted = gc.deleted \cup {c}
        /\ gc'.running = gc.running /\ gc'.expire = gc.expire /\ gc'.purge = gc.purge
        /\ gc'.failed = gc.failed
    BY <1>1, <1>2 DEF GcRecord
  <2> QED
    BY <1>1, <2>1 DEF Handled
<1>3. CASE gc' = [gc EXCEPT !.doomed = @ \ {c}, !.failed = @ \cup {c}]
  <2>1. /\ gc' \in GcRecord /\ gc'.doomed = gc.doomed \ {c} /\ gc'.failed = gc.failed \cup {c}
        /\ gc'.running = gc.running /\ gc'.expire = gc.expire /\ gc'.purge = gc.purge
        /\ gc'.deleted = gc.deleted
    BY <1>1, <1>3 DEF GcRecord
  <2> QED
    BY <1>1, <2>1 DEF Handled
<1> QED
  BY <1>2, <1>3 DEF GcDelete

LEMMA CollectTypes ==
    ASSUME Types, GcRead \/ GcAbort \/ GcCommit \/ \E c \in Contents : GcDelete(c)
    PROVE  Types'
<1>g. gc \in GcRecord /\ GcIdle \in GcRecord
  BY DEF Types, GcOK, GcIdle, GcRecord
<1>c. content \in [Contents -> ContentRow] /\ session \in [Sessions -> SessionRow]
  BY DEF Types, TypeOK
<1>1. UNCHANGED <<binding, ledger, asked, call, finalized, answered>>
  BY DEF GcRead, GcAbort, GcCommit, GcDelete, rows
<1>2. CallsOK'
  BY <1>1 DEF Types, CallsOK, Asked
<1>3. CASE GcRead
  <2>1. PICK e, q, d : /\ e \in SUBSET Sessions /\ q \in SUBSET Sessions /\ d = Doomed
                       /\ gc' = [GcIdle EXCEPT !.running = TRUE, !.expire = e, !.purge = q,
                                              !.doomed = d]
    BY <1>3 DEF GcRead
  <2>2. /\ gc' \in GcRecord /\ gc'.expire = e /\ gc'.purge = q
        /\ gc'.doomed = Doomed /\ gc'.deleted = {} /\ gc'.failed = {}
    BY <2>1 DEF GcIdle, GcRecord, Doomed
  <2>3. UNCHANGED <<rows, object>>
    BY <1>3 DEF GcRead
  <2>4. GcOK'
    BY <2>2, <2>3 DEF GcOK, Handled, Doomed, rows
  <2> QED
    BY <1>1, <1>2, <2>2, <2>3, <2>4 DEF Types, TypeOK, SessionsOK, rows, GcRecord
<1>4. CASE GcAbort
  <2>1. /\ gc' = GcIdle /\ UNCHANGED <<rows, object>>
    BY <1>4 DEF GcAbort
  <2>2. GcOK'
    BY <1>g, <2>1 DEF GcOK, Handled, GcIdle
  <2> QED
    BY <1>g, <1>1, <1>2, <2>1, <2>2 DEF Types, TypeOK, SessionsOK, rows, GcIdle
<1>5. CASE \E c \in Contents : GcDelete(c)
  <2>1. PICK c \in Contents : GcDelete(c)
    BY <1>5
  <2>2. object' \in [Payloads -> BOOLEAN] /\ UNCHANGED rows
    BY <2>1 DEF GcDelete, Types, TypeOK
  <2>3. /\ gc' \in GcRecord /\ gc'.expire = gc.expire /\ gc'.purge = gc.purge
        /\ Handled' = Handled
    BY <2>1, GcDeleteIs
  <2>4. GcOK'
    BY <2>2, <2>3 DEF Types, GcOK, rows
  <2> QED
    BY <1>1, <1>2, <2>2, <2>3, <2>4 DEF Types, TypeOK, SessionsOK, rows, GcRecord
<1>6. CASE GcCommit
  <2>1. gc' = GcIdle /\ UNCHANGED object
    BY <1>6 DEF GcCommit
  <2>2. GcOK'
    BY <1>g, <2>1 DEF GcOK, Handled, GcIdle
  <2>3. payload' \in [Payloads -> {"absent", "active", "deleted"}]
    BY <1>6 DEF GcCommit, Types, TypeOK
  <2>4. ASSUME NEW u \in Sessions
        PROVE  /\ Swept(session[u], u) \in SessionRow
               /\ Swept(session[u], u).payload = session[u].payload
               /\ Swept(session[u], u).content = session[u].content
               /\ Swept(session[u], u).status \in {session[u].status, "expired", "purged"}
    BY <1>c DEF Swept, SessionRow
  <2>5. session' = [u \in Sessions |-> Swept(session[u], u)]
    BY <1>6 DEF GcCommit
  <2>6. session' \in [Sessions -> SessionRow] /\ SessionsOK'
    BY <2>4, <2>5 DEF Types, SessionsOK
  <2>7. content' \in [Contents -> ContentRow]
    <3> DEFINE row(c) == IF c \in gc.deleted THEN [content[c] EXCEPT !.status = "deleted"]
                         ELSE IF c \in gc.failed
                           THEN [content[c] EXCEPT !.attempts = @ + 1, !.old = FALSE]
                           ELSE content[c]
    <3>1. ASSUME NEW c \in Contents
          PROVE  row(c) \in ContentRow
      <4>1. content[c] \in ContentRow
        BY <1>c
      <4>2. c \in gc.failed => content[c].attempts + 1 \in 0 .. MaxAttempts
        BY <4>1, Constants DEF Types, GcOK, Handled, ContentRow
      <4>3. [content[c] EXCEPT !.status = "deleted"] \in ContentRow
        BY <4>1 DEF ContentRow
      <4>4. c \in gc.failed => [content[c] EXCEPT !.attempts = @ + 1, !.old = FALSE] \in ContentRow
        BY <4>1, <4>2 DEF ContentRow
      <4> QED
        BY <4>1, <4>3, <4>4
    <3>2. content' = [c \in Contents |-> row(c)]
      BY <1>6 DEF GcCommit
    <3> HIDE DEF row
    <3> QED
      BY <3>1, <3>2
  <2> QED
    BY <1>1, <1>2, <2>1, <2>2, <2>3, <2>6, <2>7 DEF Types, TypeOK, GcIdle
<1> QED
  BY <1>3, <1>4, <1>5, <1>6

LEMMA TimeTypes ==
    ASSUME Types,
           \/ \E u \in Sessions : SessionAges(u)
           \/ \E c \in Contents : ContentAges(c)
    PROVE  Types'
<1>1. UNCHANGED <<payload, binding, ledger, object, asked, call, gc, finalized, answered>>
  BY DEF SessionAges, ContentAges
<1>2. CallsOK'
  BY <1>1 DEF Types, CallsOK, Asked
<1>3. CASE \E u \in Sessions : SessionAges(u)
  <2>1. PICK u \in Sessions : SessionAges(u)
    BY <1>3
  <2>2. session[u] \in SessionRow
    BY SessionIs
  <2>3. PICK r : r = [session[u] EXCEPT !.late = TRUE]
    OBVIOUS
  <2>4. /\ r \in SessionRow /\ r.status = session[u].status
        /\ r.content = session[u].content /\ r.payload = session[u].payload
    BY <2>2, <2>3 DEF SessionRow
  <2>5. session' = [session EXCEPT ![u] = r]
    BY <2>1, <2>3 DEF SessionAges
  <2>6. session' \in [Sessions -> SessionRow] /\ SessionsOK'
    BY <2>4, <2>5, SessionTypes DEF Types, SessionsOK
  <2>7. UNCHANGED content
    BY <2>1 DEF SessionAges
  <2> QED
    BY <1>1, <1>2, <2>6, <2>7, GcKept DEF Types, TypeOK
<1>4. CASE \E c \in Contents : ContentAges(c)
  <2>1. PICK c \in Contents : ContentAges(c)
    BY <1>4
  <2>2. content \in [Contents -> ContentRow] /\ content[c] \in ContentRow
    BY DEF Types, TypeOK
  <2>3. PICK r : r = [content[c] EXCEPT !.old = TRUE]
    OBVIOUS
  <2>4. r \in ContentRow /\ r.status = content[c].status /\ r.attempts = content[c].attempts
    BY <2>2, <2>3 DEF ContentRow
  <2>5. content' = [content EXCEPT ![c] = r]
    BY <2>1, <2>3 DEF ContentAges
  <2>6. /\ content' \in [Contents -> ContentRow]
        /\ \A x \in Contents : /\ content'[x].status = content[x].status
                               /\ content'[x].attempts = content[x].attempts
    BY <2>2, <2>4, <2>5
  <2>7. Handled \subseteq Contents
    BY DEF Types, GcOK, GcRecord, Handled
  <2>8. GcOK'
    BY <1>1, <2>6, <2>7 DEF Types, GcOK, Handled
  <2>9. UNCHANGED session
    BY <2>1 DEF ContentAges
  <2> QED
    BY <1>1, <1>2, <2>6, <2>8, <2>9 DEF Types, TypeOK, SessionsOK
<1> QED
  BY <1>3, <1>4

LEMMA NextTypes ==
    ASSUME Types, [Next]_vars
    PROVE  Types'
<1>1. CASE UNCHANGED vars
  BY <1>1 DEF vars, rows, Types, TypeOK, CallsOK, GcOK, SessionsOK, Asked, Handled
<1>2. CASE \E k \in Calls : Upload(k) \/ Drop(k)
  BY <1>2, UploadReadTypes, UploadWriteTypes, FinalizeCommitTypes DEF Upload
<1>3. CASE \E k \in Calls : Mutate(k)
  BY <1>3, MutateReadTypes, ReplayTypes, MutateWriteTypes DEF Mutate
<1> QED
  BY <1>1, <1>2, <1>3, AskTypes, CollectTypes, TimeTypes DEF Next, Collect

\* The rows of the five collections, the calls in flight and the garbage
\* collection hold only values of their types; a content is never tried more
\* often than the collection allows itself
\* (modules/document/service/models/_attachment_gc.ts).
THEOREM TypeCorrect == Spec => []TypeOK
<1>1. Types => TypeOK
  BY DEF Types
<1>2. Spec => []Types
  BY InitTypes, NextTypes, PTL DEF Spec
<1> QED
  BY <1>1, <1>2, PTL

----------------------------------------------------------------------------
(* A set with one possible member *)

LEMMA AtMostOne ==
    ASSUME NEW S, NEW x, S \subseteq {x}
    PROVE  Cardinality(S) <= 1
<1>1. S = {} \/ S = {x}
  OBVIOUS
<1>2. Cardinality({}) = 0 /\ Cardinality({x}) = 1
  BY FS_EmptySet, FS_Singleton
<1> QED
  BY <1>1, <1>2

----------------------------------------------------------------------------
(* A mutation is applied once *)

\* All that was answered for a mutation is what the ledger holds.
MutationInv ==
    \A m \in Mutations : /\ answered[m] \subseteq {ledger[m]}
                         /\ ledger[m] = None => answered[m] = {}

LEMMA RecordAnswers ==
    ASSUME Types, MutationInv, InsertAborts, NEW m \in Mutations, NEW b \in Bindings,
           RecordMutation(m, b), answered' = [answered EXCEPT ![m] = @ \cup {b}]
    PROVE  MutationInv'
<1>1. ledger[m] = None /\ ledger' = [ledger EXCEPT ![m] = b]
  BY DEF RecordMutation
<1>2. answered[m] = {} /\ b # None
  BY <1>1, Constants DEF MutationInv
<1> QED
  BY <1>1, <1>2 DEF MutationInv, Types, TypeOK

LEMMA NextMutation ==
    ASSUME Types, MutationInv, InsertAborts, [Next]_vars
    PROVE  MutationInv'
<1>1. ASSUME UNCHANGED <<ledger, answered>>
      PROVE  MutationInv'
  BY <1>1 DEF MutationInv
<1>2. ASSUME NEW k \in Calls, NEW m \in Mutations, Replay(k, m)
      PROVE  MutationInv'
  BY <1>2 DEF Replay, MutationInv, Types, TypeOK, rows
<1>3. ASSUME NEW k \in Calls, BindSame(k)
      PROVE  MutationInv'
  <2>1. call[k].on \in Mutations /\ call[k].seen \in Bindings
    BY <1>3, CallIs DEF BindSame, Waiting
  <2> QED
    BY <1>3, <2>1, RecordAnswers DEF BindSame
<1>4. ASSUME NEW k \in Calls, UnbindCommit(k)
      PROVE  MutationInv'
  <2>1. call[k].on \in Mutations /\ Asked(call[k].on, "unbind")
    BY <1>4, CallIs DEF UnbindCommit, Waiting, Types, CallsOK
  <2>2. asked[call[k].on].of \in Bindings
    BY <2>1, AskIs
  <2> QED
    BY <1>4, <2>1, <2>2, RecordAnswers DEF UnbindCommit
<1>5. ASSUME NEW k \in Calls, NEW b \in Bindings, BindNew(k, b)
      PROVE  MutationInv'
  <2>1. call[k].on \in Mutations
    BY <1>5, CallIs DEF BindNew, Waiting
  <2> QED
    BY <1>5, <2>1, RecordAnswers DEF BindNew
<1>6. ASSUME NEW k \in Calls, Upload(k) \/ Drop(k)
      PROVE  UNCHANGED <<ledger, answered>>
  BY <1>6 DEF Upload, Drop, Prepare, AuthorizePut, StorePayload, CommitPut, CommitPutCommit,
              FinalizeReplay, Finalize, FinalizeCommit, rows
<1>7. ASSUME NEW k \in Calls, NEW m \in Mutations, Bind(k, m) \/ Unbind(k, m)
      PROVE  UNCHANGED <<ledger, answered>>
  BY <1>7 DEF Bind, Unbind, rows
<1>8. ASSUME \/ \E m \in Mutations : Ask(m)
             \/ Collect \/ GcAbort
             \/ \E u \in Sessions : SessionAges(u)
             \/ \E c \in Contents : ContentAges(c)
      PROVE  UNCHANGED <<ledger, answered>>
  BY <1>8 DEF Ask, Collect, GcRead, GcDelete, GcCommit, GcAbort, SessionAges, ContentAges, rows
<1>9. UNCHANGED vars => UNCHANGED <<ledger, answered>>
  BY DEF vars, rows
<1> QED
  BY <1>1, <1>2, <1>3, <1>4, <1>5, <1>6, <1>7, <1>8, <1>9 DEF Next, Mutate

\* However often a Bind or an Unbind is sent, lost and repeated, all its answers
\* name one binding, on a database whose failed INSERT ends the transaction: the
\* ledger is written in the transaction of the mutation, once, and an answer is
\* what it holds (modules/document/service/models/attachment_binding.ts).
THEOREM MutationsAgree ==
    ASSUME InsertAborts
    PROVE  Spec => []MutationAnswersAgree
<1>1. Init => MutationInv
  BY DEF Init, MutationInv
<1>2. Types /\ MutationInv /\ [Next]_vars => MutationInv'
  BY NextMutation
<1>3. MutationInv => MutationAnswersAgree
  BY AtMostOne DEF MutationInv, MutationAnswersAgree
<1>4. Spec => [](Types /\ MutationInv)
  BY InitTypes, NextTypes, <1>1, <1>2, PTL DEF Spec
<1> QED
  BY <1>3, <1>4, PTL

----------------------------------------------------------------------------
(* An upload is finalized once *)

Uploading(k) == call[k].op \in {"put", "commit_put", "finalize"}

\* The client's uploads are one at a time, none of them is for a session that was
\* already answered with a content, and the content answered is the session's.
OnceInv ==
    /\ \A k, o \in Calls : Uploading(k) /\ Uploading(o) => k = o
    /\ \A k \in Calls : call[k].op \in {"commit_put", "finalize"} => finalized[call[k].on] = {}
    /\ \A u \in Sessions :
          /\ finalized[u] \subseteq {session[u].content}
          /\ finalized[u] # {} => session[u].status \in {"finalized", "expired", "purged"}

\* A step that begins no upload, finalizes nothing and lets no session go back.
LEMMA OnceKept ==
    ASSUME Types, OnceInv, UNCHANGED finalized,
           \A k \in Calls : call'[k] = call[k] \/ ~Uploading(k)',
           \A u \in Sessions : finalized[u] # {} =>
              /\ session'[u].content = session[u].content
              /\ session'[u].status \in {session[u].status, "expired", "purged"}
    PROVE  OnceInv'
<1>1. \A k \in Calls : Uploading(k)' => Uploading(k) /\ call'[k] = call[k]
  BY DEF Uploading
<1>2. \A k, o \in Calls : Uploading(k)' /\ Uploading(o)' => k = o
  BY <1>1 DEF OnceInv
<1>3. \A k \in Calls : call'[k].op \in {"commit_put", "finalize"} => finalized'[call'[k].on] = {}
  BY DEF OnceInv, Uploading
<1>4. \A u \in Sessions :
         /\ finalized'[u] \subseteq {session'[u].content}
         /\ finalized'[u] # {} => session'[u].status \in {"finalized", "expired", "purged"}
  BY DEF OnceInv
<1> QED
  BY <1>2, <1>3, <1>4 DEF OnceInv

\* A free slot for an upload means that none is under way.
LEMMA MayCallAlone ==
    ASSUME Types, SerialUploads, NEW k \in Calls, MayCall(k)
    PROVE  \A o \in Calls : ~Uploading(o)
<1>1. \A o \in Calls : call[o].on \notin Sessions
  BY DEF MayCall
<1> QED
  BY <1>1, CallIs DEF Uploading

\* A call that ends, or becomes another one.
LEMMA EndIs ==
    ASSUME Types, NEW k \in Calls, End(k)
    PROVE  \A o \in Calls : call'[o] = IF o = k THEN Idle ELSE call[o]
<1>1. call \in [Calls -> CallRecord]
  BY DEF Types, CallsOK
<1> QED
  BY <1>1 DEF End

LEMMA BeginIs ==
    ASSUME Types, NEW k \in Calls, NEW op, NEW on, NEW seen, Begin(k, op, on, seen)
    PROVE  /\ call'[k].op = op /\ call'[k].on = on /\ call'[k].seen = seen
           /\ \A o \in Calls : o # k => call'[o] = call[o]
<1>1. call \in [Calls -> CallRecord]
  BY DEF Types, CallsOK
<1>2. PICK r : r = [op |-> op, on |-> on, seen |-> seen]
  OBVIOUS
<1>3. call' = [call EXCEPT ![k] = r]
  BY <1>2 DEF Begin
<1>4. call'[k] = r /\ \A o \in Calls : o # k => call'[o] = call[o]
  BY <1>1, <1>3
<1> QED
  BY <1>2, <1>4

LEMMA UploadOnce ==
    ASSUME Types, OnceInv, SerialUploads, NEW k \in Calls, Upload(k)
    PROVE  OnceInv'
<1>i. Idle.op = "idle"
  BY DEF Idle
<1>1. ASSUME NEW u \in Sessions, Prepare(k, u)
      PROVE  OnceInv'
  <2>1. \A v \in Sessions : v # u => session'[v] = session[v]
    BY <1>1 DEF Prepare, Types, TypeOK
  <2>2. finalized[u] = {}
    BY <1>1 DEF Prepare, OnceInv
  <2> QED
    BY <1>1, <2>1, <2>2, OnceKept DEF Prepare
<1>2. ASSUME NEW u \in Sessions, NEW op \in {"put", "finalize"}, NEW seen,
             MayCall(k), Begin(k, op, u, seen), UNCHANGED <<rows, finalized>>,
             op = "finalize" => finalized[u] = {}
      PROVE  OnceInv'
  <2>1. \A o \in Calls : ~Uploading(o)
    BY <1>2, MayCallAlone
  <2>2. /\ call'[k].op = op /\ call'[k].on = u
        /\ \A o \in Calls : o # k => call'[o] = call[o]
    BY <1>2, BeginIs
  <2>3. \A o \in Calls : Uploading(o)' => o = k
    BY <2>1, <2>2 DEF Uploading
  <2>4. UNCHANGED session
    BY <1>2 DEF rows
  <2>5. \A o \in Calls : call'[o].op \in {"commit_put", "finalize"} => finalized'[call'[o].on] = {}
    BY <1>2, <2>2, <2>3 DEF Uploading
  <2> QED
    BY <1>2, <2>3, <2>4, <2>5 DEF OnceInv
<1>3. ASSUME NEW u \in Sessions, AuthorizePut(k, u)
      PROVE  OnceInv'
  BY <1>2, <1>3 DEF AuthorizePut
<1>4. ASSUME NEW u \in Sessions, Finalize(k, u)
      PROVE  OnceInv'
  <2>1. finalized[u] = {}
    BY <1>4 DEF Finalize, OnceInv
  <2> QED
    BY <1>2, <1>4, <2>1 DEF Finalize
<1>5. ASSUME NEW u \in Sessions, FinalizeReplay(k, u)
      PROVE  OnceInv'
  <2>1. \A o \in Calls : ~Uploading(o)
    BY <1>5, MayCallAlone DEF FinalizeReplay
  <2>2. UNCHANGED <<session, call>>
    BY <1>5 DEF FinalizeReplay, rows
  <2>3. \A v \in Sessions : finalized'[v] = IF v = u THEN finalized[u] \cup {session[u].content}
                                           ELSE finalized[v]
    BY <1>5 DEF FinalizeReplay, Types, TypeOK
  <2>4. session[u].status = "finalized"
    BY <1>5 DEF FinalizeReplay
  <2>5. \A o \in Calls : ~Uploading(o)'
    BY <2>1, <2>2 DEF Uploading
  <2>6. ASSUME NEW v \in Sessions
        PROVE  /\ finalized'[v] \subseteq {session'[v].content}
               /\ finalized'[v] # {} => session'[v].status \in {"finalized", "expired", "purged"}
    BY <2>2, <2>3, <2>4 DEF OnceInv
  <2> QED
    BY <2>5, <2>6 DEF OnceInv, Uploading
<1>6. ASSUME CommitPut(k)
      PROVE  OnceInv'
  <2>1. UNCHANGED <<session, finalized>> /\ call[k].op = "put" /\ call[k].on \in Sessions
    BY <1>6, CallIs DEF CommitPut, Waiting, rows
  <2>2. CASE End(k)
    <3>1. \A o \in Calls : call'[o] = call[o] \/ ~Uploading(o)'
      BY <1>i, <2>2, EndIs DEF Uploading
    <3> QED
      BY <2>1, <3>1, OnceKept
  <2>3. CASE /\ session[call[k].on].status = "prepared"
             /\ Begin(k, "commit_put", call[k].on, call[k].seen)
    <3>1. PICK u \in Sessions : u = call[k].on
      BY <2>1
    <3>2. finalized[u] = {}
      BY <2>3, <3>1 DEF OnceInv
    <3>3. /\ call'[k].op = "commit_put" /\ call'[k].on = u
          /\ \A o \in Calls : o # k => call'[o] = call[o]
      BY <2>3, <3>1, BeginIs
    <3>4. \A o \in Calls : Uploading(o)' => Uploading(o)
      BY <2>1, <3>3 DEF Uploading
    <3>5. \A o \in Calls : call'[o].op \in {"commit_put", "finalize"} =>
                           finalized'[call'[o].on] = {}
      BY <2>1, <3>2, <3>3 DEF OnceInv
    <3> QED
      BY <2>1, <3>4, <3>5 DEF OnceInv
  <2> QED
    BY <1>6, <2>2, <2>3 DEF CommitPut
<1>7. ASSUME CommitPutCommit(k)
      PROVE  OnceInv'
  <2>1. PICK u \in Sessions : u = call[k].on
    BY <1>7, CallIs DEF CommitPutCommit, Waiting
  <2>2. finalized[u] = {}
    BY <1>7, <2>1 DEF CommitPutCommit, Waiting, OnceInv
  <2>3. \A v \in Sessions : v # u => session'[v] = session[v]
    BY <1>7, <2>1 DEF CommitPutCommit, Types, TypeOK
  <2>4. \A o \in Calls : call'[o] = call[o] \/ ~Uploading(o)'
    BY <1>i, <1>7, EndIs DEF CommitPutCommit, Uploading
  <2> QED
    BY <1>7, <2>2, <2>3, <2>4, OnceKept DEF CommitPutCommit
<1>8. ASSUME NEW p \in Payloads, StorePayload(k, p)
      PROVE  OnceInv'
  <2>1. call[k].op = "put" /\ UNCHANGED <<session, finalized>>
    BY <1>8 DEF StorePayload, Waiting
  <2>2. call'[k].op = "put" /\ \A o \in Calls : o # k => call'[o] = call[o]
    BY <1>8, BeginIs DEF StorePayload
  <2>3. \A o \in Calls : Uploading(o)' => Uploading(o)
    BY <2>1, <2>2 DEF Uploading
  <2> QED
    BY <2>1, <2>2, <2>3 DEF OnceInv
<1>9. ASSUME NEW c \in Contents, FinalizeCommit(k, c)
      PROVE  OnceInv'
  <2>1. PICK u : u = call[k].on
    OBVIOUS
  <2>2. PICK r : r = Finalized(session[u], c)
    OBVIOUS
  <2>3. /\ u \in Sessions /\ session' = [session EXCEPT ![u] = r]
        /\ r.status = "finalized" /\ r.content = c
    BY <1>9, <2>1, <2>2, FinalizeCommitIs
  <2>4. finalized[u] = {} /\ Uploading(k)
    BY <1>9, <2>1 DEF FinalizeCommit, Waiting, OnceInv, Uploading
  <2>5. \A v \in Sessions : /\ session'[v] = IF v = u THEN r ELSE session[v]
                            /\ finalized'[v] = IF v = u THEN {c} ELSE finalized[v]
    BY <1>9, <2>1, <2>3, <2>4 DEF FinalizeCommit, Types, TypeOK
  <2>6. \A o \in Calls : ~Uploading(o)'
    BY <1>i, <1>9, <2>4, EndIs DEF FinalizeCommit, OnceInv, Uploading
  <2>7. ASSUME NEW v \in Sessions
        PROVE  /\ finalized'[v] \subseteq {session'[v].content}
               /\ finalized'[v] # {} => session'[v].status \in {"finalized", "expired", "purged"}
    BY <2>3, <2>5 DEF OnceInv
  <2> QED
    BY <2>6, <2>7 DEF OnceInv, Uploading
<1> QED
  BY <1>1, <1>3, <1>4, <1>5, <1>6, <1>7, <1>8, <1>9 DEF Upload

LEMMA RestOnce ==
    ASSUME Types, OnceInv,
           \/ \E k \in Calls : Mutate(k) \/ Drop(k)
           \/ \E m \in Mutations : Ask(m)
           \/ Collect \/ GcAbort
           \/ \E u \in Sessions : SessionAges(u)
           \/ \E c \in Contents : ContentAges(c)
    PROVE  OnceInv'
<1>1. UNCHANGED finalized
  BY DEF Mutate, Bind, Unbind, Replay, BindSame, UnbindCommit, BindNew, Drop, Ask, Collect, GcRead,
         GcDelete, GcCommit, GcAbort, SessionAges, ContentAges
<1>2. \A o \in Calls : call'[o] = call[o] \/ ~Uploading(o)'
  <2>1. CASE UNCHANGED call
    BY <2>1
  <2>2. CASE \E k \in Calls : End(k)
    BY <2>2, EndIs DEF Idle, Uploading
  <2>3. CASE \E k \in Calls, op \in {"bind", "unbind"} : \E on, seen : Begin(k, op, on, seen)
    <3>1. PICK k \in Calls, op \in {"bind", "unbind"} : \E on, seen : Begin(k, op, on, seen)
      BY <2>3
    <3>2. call'[k].op = op /\ \A o \in Calls : o # k => call'[o] = call[o]
      BY <3>1, BeginIs
    <3> QED
      BY <3>2 DEF Uploading
  <2> QED
    BY <2>1, <2>2, <2>3
       DEF Mutate, Bind, Unbind, Replay, BindSame, UnbindCommit, BindNew, Drop, Ask, Collect, GcRead,
           GcDelete, GcCommit, GcAbort, SessionAges, ContentAges
<1>3. ASSUME NEW u \in Sessions
      PROVE  /\ session'[u].content = session[u].content
             /\ session'[u].status \in {session[u].status, "expired", "purged"}
  <2>1. session \in [Sessions -> SessionRow] /\ session[u] \in SessionRow
    BY DEF Types, TypeOK
  <2>2. CASE UNCHANGED session
    BY <2>2
  <2>3. CASE GcCommit
    BY <2>1, <2>3 DEF GcCommit, Swept, SessionRow
  <2>4. CASE \E v \in Sessions : SessionAges(v)
    BY <2>1, <2>4 DEF SessionAges, SessionRow
  <2> QED
    BY <2>2, <2>3, <2>4
       DEF Mutate, Bind, Unbind, Replay, BindSame, UnbindCommit, BindNew, Drop, Ask, Collect, GcRead,
           GcDelete, GcAbort, ContentAges, rows
<1> QED
  BY <1>1, <1>2, <1>3, OnceKept

LEMMA NextOnce ==
    ASSUME Types, OnceInv, SerialUploads, [Next]_vars
    PROVE  OnceInv'
<1>1. CASE UNCHANGED vars
  BY <1>1, OnceKept DEF vars, rows
<1> QED
  BY <1>1, UploadOnce, RestOnce DEF Next

\* However often FinalizeUpload of a session is called, lost and repeated, it
\* answers with one content, as long as the client uploads one file at a time: a
\* session that was answered stays with its content, whatever the garbage
\* collection makes of it (modules/document/service/models/attachment_object.ts).
THEOREM FinalizesAgree ==
    ASSUME SerialUploads
    PROVE  Spec => []FinalizeAnswersAgree
<1>1. Init => OnceInv
  BY DEF Init, OnceInv, Uploading, Idle
<1>2. Types /\ OnceInv /\ [Next]_vars => OnceInv'
  BY NextOnce
<1>3. OnceInv => FinalizeAnswersAgree
  BY AtMostOne DEF OnceInv, FinalizeAnswersAgree
<1>4. Spec => [](Types /\ OnceInv)
  BY InitTypes, NextTypes, <1>1, <1>2, PTL DEF Spec
<1> QED
  BY <1>3, <1>4, PTL

----------------------------------------------------------------------------
(* An attachment that is shown is there *)

\* A payload whose row is active and whose object is in the storage.
Live(p) == p \in Payloads /\ payload[p] = "active" /\ object[p]

\* The payload an upload has stored is there and belongs to no session yet.
Puts == \A k \in Calls :
          call[k].op \in {"put", "commit_put"} /\ call[k].seen # None =>
             /\ Live(call[k].seen)
             /\ \A u \in Sessions : session[u].payload # call[k].seen

\* A session is finalized with a content of its own.
Finalizes == \A k \in Calls :
               call[k].op = "finalize" => call[k].seen = None /\ session[call[k].on].payload # None

\* The payload of a session that has no content yet is there.
Stored == \A u \in Sessions :
            session[u].payload # None =>
               /\ payload[session[u].payload] # "absent"
               /\ finalized[u] = {} => Live(session[u].payload)

\* No two sessions share a payload, and a content has the payload of the session that
\* was answered with it.
Distinct == \A u, v \in Sessions :
              session[u].payload # None /\ session[u].payload = session[v].payload => u = v
Owners == \A c \in Contents :
            content[c].status # "absent" =>
               /\ content[c].payload # None
               /\ \E u \in Sessions : c \in finalized[u] /\ session[u].payload = content[c].payload

StoreInv == Puts /\ Finalizes /\ Stored /\ Distinct /\ Owners

\* A content in its grace period is there, and so is one that is bound.
Freshes == \A c \in Contents :
             content[c].status = "active" /\ Fresh(c) => Live(content[c].payload)
Shows == \A b \in Bindings :
           binding[b].status = "active" =>
              /\ binding[b].content \in Contents
              /\ content[binding[b].content].status = "active"
              /\ Live(content[binding[b].content].payload)

\* The garbage collection handles no bound content and none in its grace period, and
\* a Bind in flight is for one that is.
Spares == \A c \in Handled : content[c].old /\ ~Bound(c)
Binds == \A k \in Calls :
           call[k].op = "bind" => /\ content[asked[call[k].on].of].status = "active"
                                  /\ Fresh(asked[call[k].on].of)

ShownInv == Freshes /\ Shows /\ Spares /\ Binds

ServedInv == StoreInv /\ ShownInv

LEMMA HandledIs ==
    ASSUME Types
    PROVE  /\ Handled \subseteq Contents
           /\ \A c \in Handled : content[c].status = "active" /\ content[c].attempts < MaxAttempts
  BY DEF Types, GcOK, GcRecord, Handled

\* Two contents never share a payload.
LEMMA OwnPayload ==
    ASSUME Types, OnceInv, StoreInv, NEW c \in Contents, NEW d \in Contents,
           content[c].status # "absent", content[d].status # "absent",
           content[c].payload = content[d].payload
    PROVE  c = d
<1>1. PICK u \in Sessions : c \in finalized[u] /\ session[u].payload = content[c].payload
  BY DEF StoreInv, Owners
<1>2. PICK v \in Sessions : d \in finalized[v] /\ session[v].payload = content[d].payload
  BY DEF StoreInv, Owners
<1>3. content[c].payload # None
  BY DEF StoreInv, Owners
<1>4. u = v
  BY <1>1, <1>2, <1>3 DEF StoreInv, Distinct
<1> QED
  BY <1>1, <1>2, <1>4 DEF OnceInv

\* What the garbage collection deletes is nobody else's: no upload's, no unfinished
\* session's, and no content's that is fresh or bound.
LEMMA Loss ==
    ASSUME Types, OnceInv, ServedInv, NEW c \in Handled
    PROVE  /\ \A k \in Calls : call[k].op \in {"put", "commit_put"} /\ call[k].seen # None =>
                 call[k].seen # content[c].payload
           /\ \A u \in Sessions : session[u].payload # None /\ finalized[u] = {} =>
                 session[u].payload # content[c].payload
           /\ \A d \in Contents : content[d].status = "active" /\ (Fresh(d) \/ Bound(d)) =>
                 content[d].payload # content[c].payload
<1>1. c \in Contents /\ content[c].status = "active"
  BY HandledIs
<1>2. PICK v \in Sessions : c \in finalized[v] /\ session[v].payload = content[c].payload
  BY <1>1 DEF ServedInv, StoreInv, Owners
<1>3. \A k \in Calls : call[k].op \in {"put", "commit_put"} /\ call[k].seen # None =>
                       call[k].seen # content[c].payload
  BY <1>2 DEF ServedInv, StoreInv, Puts
<1>4. ASSUME NEW u \in Sessions, session[u].payload # None, finalized[u] = {}
      PROVE  session[u].payload # content[c].payload
  BY <1>2, <1>4 DEF ServedInv, StoreInv, Distinct
<1>5. ASSUME NEW d \in Contents, content[d].status = "active", Fresh(d) \/ Bound(d)
      PROVE  content[d].payload # content[c].payload
  <2>1. d # c
    BY <1>5 DEF ServedInv, ShownInv, Spares, Fresh
  <2> QED
    BY <1>1, <1>5, <2>1, OwnPayload DEF ServedInv
<1> QED
  BY <1>3, <1>4, <1>5

\* A step that begins no upload and changes no session's payload; what payloads it
\* loses are those of contents the garbage collection handles.
LEMMA StoreKept ==
    ASSUME Types, OnceInv, ServedInv, UNCHANGED finalized,
           \A u \in Sessions : session'[u].payload = session[u].payload,
           \A k \in Calls : call'[k] = call[k] \/ ~Uploading(k)',
           \A c \in Contents : content'[c].status # "absent" =>
              content[c].status # "absent" /\ content'[c].payload = content[c].payload,
           \A p \in Payloads : payload[p] # "absent" => payload'[p] # "absent",
           \A p : Live(p) => Live(p)' \/ \E c \in Handled : content[c].payload = p
    PROVE  StoreInv'
<1>1. Puts'
  <2> SUFFICES ASSUME NEW k \in Calls, call'[k].op \in {"put", "commit_put"}, call'[k].seen # None
               PROVE  /\ Live(call[k].seen)'
                      /\ \A u \in Sessions : session'[u].payload # call'[k].seen
    BY DEF Puts
  <2>1. call'[k] = call[k]
    BY DEF Uploading
  <2>2. PICK p : p = call[k].seen
    OBVIOUS
  <2>3. Live(p) /\ \A u \in Sessions : session[u].payload # p
    BY <2>1, <2>2 DEF ServedInv, StoreInv, Puts
  <2>4. Live(p)'
    BY <2>1, <2>2, <2>3, Loss
  <2> QED
    BY <2>1, <2>2, <2>3, <2>4 DEF Live
<1>2. Finalizes'
  <2> SUFFICES ASSUME NEW k \in Calls, call'[k].op = "finalize"
               PROVE  call'[k].seen = None /\ session'[call'[k].on].payload # None
    BY DEF Finalizes
  <2>1. call'[k] = call[k]
    BY DEF Uploading
  <2>2. call[k].on \in Sessions
    BY <2>1, CallIs
  <2> QED
    BY <2>1, <2>2 DEF ServedInv, StoreInv, Finalizes
<1>3. Stored'
  <2> SUFFICES ASSUME NEW u \in Sessions, session'[u].payload # None
               PROVE  /\ payload'[session'[u].payload] # "absent"
                      /\ finalized'[u] = {} => Live(session[u].payload)'
    BY DEF Stored
  <2>1. PICK p \in Payloads : p = session[u].payload /\ p = session'[u].payload
    BY SessionIs DEF SessionRow
  <2>2. payload[p] # "absent" /\ (finalized[u] = {} => Live(p))
    BY <2>1 DEF ServedInv, StoreInv, Stored
  <2>3. finalized[u] = {} => Live(p)'
    BY <2>1, <2>2, Loss
  <2> QED
    BY <2>1, <2>2, <2>3 DEF Live
<1>4. Distinct'
  BY DEF ServedInv, StoreInv, Distinct
<1>5. Owners'
  BY DEF ServedInv, StoreInv, Owners
<1> QED
  BY <1>1, <1>2, <1>3, <1>4, <1>5 DEF StoreInv

\* A step that begins no Bind and changes no content and no binding.
LEMMA ShownKept ==
    ASSUME Types, OnceInv, ServedInv, UNCHANGED <<content, binding>>, Handled' = Handled,
           \A k \in Calls : call[k].op = "bind" => asked'[call[k].on] = asked[call[k].on],
           \A k \in Calls : call'[k] = call[k] \/ call'[k].op # "bind",
           \A p : Live(p) => Live(p)' \/ \E c \in Handled : content[c].payload = p
    PROVE  ShownInv'
<1>b. Freshes /\ Shows /\ Spares /\ Binds
  BY DEF ServedInv, ShownInv
<1>f. \A c : (Fresh(c)' <=> Fresh(c)) /\ (Bound(c)' <=> Bound(c))
  BY DEF Fresh, Bound
<1>1. Freshes'
  <2> SUFFICES ASSUME NEW c \in Contents, content[c].status = "active", Fresh(c)
               PROVE  Live(content[c].payload)'
    BY <1>f DEF Freshes
  <2>1. PICK p : p = content[c].payload
    OBVIOUS
  <2>2. Live(p)'
    BY <1>b, <2>1, Loss DEF Freshes
  <2> QED
    BY <2>1, <2>2
<1>2. Shows'
  <2> SUFFICES ASSUME NEW b \in Bindings, binding[b].status = "active"
               PROVE  /\ binding[b].content \in Contents
                      /\ content[binding[b].content].status = "active"
                      /\ Live(content[binding[b].content].payload)'
    BY DEF Shows
  <2>1. PICK c \in Contents : c = binding[b].content
    BY <1>b DEF Shows
  <2>2. content[c].status = "active" /\ Live(content[c].payload) /\ Bound(c)
    BY <1>b, <2>1 DEF Shows, Bound
  <2>3. PICK p : p = content[c].payload
    OBVIOUS
  <2>4. Live(p)'
    BY <2>2, <2>3, Loss
  <2> QED
    BY <2>1, <2>2, <2>3, <2>4
<1>3. Spares'
  BY <1>b, <1>f DEF Spares
<1>4. Binds'
  <2> SUFFICES ASSUME NEW k \in Calls, call'[k].op = "bind"
               PROVE  /\ content[asked'[call'[k].on].of].status = "active"
                      /\ Fresh(asked'[call'[k].on].of)
    BY <1>f DEF Binds
  <2>1. call'[k] = call[k]
    OBVIOUS
  <2>2. asked'[call'[k].on] = asked[call[k].on]
    BY <2>1
  <2> QED
    BY <1>b, <2>1, <2>2 DEF Binds
<1> QED
  BY <1>1, <1>2, <1>3, <1>4 DEF ShownInv

\* The payload a session is finalized with is no content's yet.
LEMMA NoneShares ==
    ASSUME Types, OnceInv, StoreInv, NEW u \in Sessions, finalized[u] = {},
           session[u].payload # None, NEW c \in Contents, content[c].status # "absent"
    PROVE  content[c].payload # session[u].payload
<1>1. PICK v \in Sessions : c \in finalized[v] /\ session[v].payload = content[c].payload
  BY DEF StoreInv, Owners
<1> QED
  BY <1>1 DEF StoreInv, Distinct

LEMMA UploadReadServed ==
    ASSUME Types, OnceInv, ServedInv, SerialUploads, NEW k \in Calls,
           \/ \E u \in Sessions : AuthorizePut(k, u) \/ Finalize(k, u)
           \/ CommitPut(k)
    PROVE  ServedInv'
<1>1. UNCHANGED <<rows, object, asked, gc, finalized>>
  BY DEF AuthorizePut, Finalize, CommitPut
<1>2. PICK op, on, seen :
         \/ End(k)
         \/ /\ Begin(k, op, on, seen)
            /\ op \in {"put", "finalize", "commit_put"}
            /\ op = "put" => seen = None
            /\ op = "finalize" => /\ on \in Sessions /\ seen = None
                                  /\ session[on].payload # None
            /\ op = "commit_put" => call[k].op = "put" /\ call[k].seen = seen
  <2>1. CASE \E u \in Sessions : AuthorizePut(k, u)
    BY <2>1 DEF AuthorizePut
  <2>2. CASE \E u \in Sessions : Finalize(k, u)
    <3>1. PICK u \in Sessions : Finalize(k, u)
      BY <2>2
    <3>2. session[u].payload # None
      BY <3>1, Constants DEF Finalize, Types, SessionsOK
    <3>3. finalized[u] = {}
      BY <3>1 DEF Finalize, OnceInv
    <3>4. \A c \in Contents : content[c].status = "active" => content[c].payload # session[u].payload
      BY <3>2, <3>3, NoneShares DEF ServedInv
    <3>5. {c \in Contents : content[c].status = "active"
                            /\ content[c].payload = session[u].payload} = {}
      BY <3>4
    <3>6. Begin(k, "finalize", u, None)
      BY <3>1, <3>5 DEF Finalize
    <3> QED
      BY <3>2, <3>6
  <2>3. CASE CommitPut(k)
    BY <2>3 DEF CommitPut, Waiting
  <2> QED
    BY <2>1, <2>2, <2>3
<1>u. UNCHANGED <<session, payload, content, binding>> /\ Handled' = Handled
  BY <1>1 DEF rows, Handled
<1>l. \A p : Live(p)' <=> Live(p)
  BY <1>1, <1>u DEF Live
<1>3. CASE End(k)
  <2>1. \A o \in Calls : call'[o] = call[o] \/ (~Uploading(o)' /\ call'[o].op # "bind")
    BY <1>3, EndIs DEF Idle, Uploading
  <2>2. StoreInv'
    BY <1>1, <1>u, <1>l, <2>1, StoreKept
  <2>3. ShownInv'
    BY <1>1, <1>u, <1>l, <2>1, ShownKept
  <2> QED
    BY <2>2, <2>3 DEF ServedInv
<1>4. CASE Begin(k, op, on, seen)
  <2>0. CASE End(k)
    BY <1>3, <2>0
  <2>1. CASE ~End(k)
    <3>1. /\ op \in {"put", "finalize", "commit_put"}
          /\ op = "put" => seen = None
          /\ op = "finalize" => /\ on \in Sessions /\ seen = None /\ session[on].payload # None
          /\ op = "commit_put" => call[k].op = "put" /\ call[k].seen = seen
      BY <1>2, <2>1
    <3>2. /\ call'[k].op = op /\ call'[k].on = on /\ call'[k].seen = seen
          /\ \A o \in Calls : o # k => call'[o] = call[o]
      BY <1>4, BeginIs
    <3>3. Puts'
      <4>1. ASSUME NEW o \in Calls, call'[o].op \in {"put", "commit_put"}, call'[o].seen # None
            PROVE  /\ call[o].op \in {"put", "commit_put"} /\ call[o].seen = call'[o].seen
        BY <3>1, <3>2, <4>1
      <4> QED
        BY <1>u, <1>1, <4>1 DEF ServedInv, StoreInv, Puts, Live
    <3>4. Finalizes'
      BY <1>u, <3>1, <3>2 DEF ServedInv, StoreInv, Finalizes
    <3>5. Stored' /\ Distinct' /\ Owners'
      BY <1>1, <1>u DEF ServedInv, StoreInv, Stored, Distinct, Owners, Live
    <3>6. ShownInv'
      BY <1>1, <1>u, <1>l, <3>1, <3>2, ShownKept
    <3> QED
      BY <3>3, <3>4, <3>5, <3>6 DEF ServedInv, StoreInv
  <2> QED
    BY <2>0, <2>1
<1> QED
  BY <1>2, <1>3, <1>4

LEMMA PrepareServed ==
    ASSUME Types, OnceInv, ServedInv, SerialUploads, NEW k \in Calls, NEW u \in Sessions,
           Prepare(k, u)
    PROVE  ServedInv'
<1>1. UNCHANGED <<payload, content, binding, object, asked, call, gc, finalized>>
  BY DEF Prepare
<1>2. /\ session'[u].payload = None
      /\ \A v \in Sessions : v # u => session'[v] = session[v]
  BY DEF Prepare, NoSession, Types, TypeOK
<1>3. finalized[u] = {}
  BY DEF Prepare, OnceInv
<1>4. Puts'
  BY <1>1, <1>2 DEF ServedInv, StoreInv, Puts, Live
<1>5. Finalizes'
  <2>1. \A o \in Calls : ~Uploading(o)
    BY MayCallAlone DEF Prepare
  <2> QED
    BY <1>1, <2>1 DEF Finalizes, Uploading
<1>6. Stored' /\ Distinct'
  BY <1>1, <1>2 DEF ServedInv, StoreInv, Stored, Distinct, Live
<1>7. Owners'
  BY <1>1, <1>2, <1>3 DEF ServedInv, StoreInv, Owners
<1>8. ShownInv'
  <2>1. \A p : Live(p)' <=> Live(p)
    BY <1>1 DEF Live
  <2>2. Handled' = Handled
    BY <1>1 DEF Handled
  <2> QED
    BY <1>1, <2>1, <2>2, ShownKept
<1> QED
  BY <1>4, <1>5, <1>6, <1>7, <1>8 DEF ServedInv, StoreInv

LEMMA StorePayloadServed ==
    ASSUME Types, OnceInv, ServedInv, NEW k \in Calls, NEW q \in Payloads, StorePayload(k, q)
    PROVE  ServedInv'
<1>1. UNCHANGED <<session, content, binding, asked, gc, finalized>> /\ call[k].op = "put"
  BY DEF StorePayload, Waiting
<1>2. payload[q] = "absent"
  <2>1. q = NewId({p \in Payloads : payload[p] = "absent"}) /\ q # None
    BY Constants DEF StorePayload
  <2> QED
    BY <2>1, NewIdIs
<1>3. /\ payload' = [payload EXCEPT ![q] = "active"] /\ object' = [object EXCEPT ![q] = TRUE]
      /\ payload \in [Payloads -> {"absent", "active", "deleted"}] /\ object \in [Payloads -> BOOLEAN]
  BY DEF StorePayload, Types, TypeOK
<1>4. /\ \A p : Live(p) => Live(p)'
      /\ \A p : payload[p] # "absent" => payload'[p] # "absent"
      /\ Live(q)'
  BY <1>2, <1>3 DEF Live
<1>5. /\ call'[k].op = "put" /\ call'[k].seen = q
      /\ \A o \in Calls : o # k => call'[o] = call[o]
  BY BeginIs DEF StorePayload
<1>6. \A u \in Sessions : session[u].payload # q
  BY <1>2, Constants DEF ServedInv, StoreInv, Stored
<1>7. Puts'
  <2> SUFFICES ASSUME NEW o \in Calls, call'[o].op \in {"put", "commit_put"}, call'[o].seen # None
               PROVE  /\ Live(call[o].seen)'
                      /\ \A u \in Sessions : session'[u].payload # call'[o].seen
    BY DEF Puts
  <2>1. CASE o = k
    BY <1>1, <1>4, <1>5, <1>6, <2>1 DEF Live
  <2>2. CASE o # k
    <3>1. PICK p : p = call[o].seen /\ p = call'[o].seen
      BY <1>5, <2>2
    <3>2. Live(p) /\ \A u \in Sessions : session[u].payload # p
      BY <1>5, <2>2, <3>1 DEF ServedInv, StoreInv, Puts
    <3> QED
      BY <1>1, <1>4, <3>1, <3>2 DEF Live
  <2> QED
    BY <2>1, <2>2
<1>8. Finalizes'
  BY <1>1, <1>5 DEF ServedInv, StoreInv, Finalizes
<1>9. Stored'
  BY <1>1, <1>4 DEF ServedInv, StoreInv, Stored, Live
<1>10. Distinct' /\ Owners'
  BY <1>1 DEF ServedInv, StoreInv, Distinct, Owners
<1>11. ShownInv'
  <2>1. Handled' = Handled /\ \A o \in Calls : call'[o] = call[o] \/ call'[o].op # "bind"
    BY <1>1, <1>5 DEF Handled
  <2> QED
    BY <1>1, <1>4, <2>1, ShownKept
<1> QED
  BY <1>7, <1>8, <1>9, <1>10, <1>11 DEF ServedInv, StoreInv

LEMMA CommitPutServed ==
    ASSUME Types, OnceInv, ServedInv, NEW k \in Calls, CommitPutCommit(k)
    PROVE  ServedInv'
<1>1. UNCHANGED <<payload, content, binding, object, asked, gc, finalized>>
  BY DEF CommitPutCommit
<1>2. PICK u \in Sessions, q \in Payloads : u = call[k].on /\ q = call[k].seen
  BY CallIs DEF CommitPutCommit, Waiting
<1>3. /\ call[k].op = "commit_put" /\ q # None /\ finalized[u] = {}
      /\ Live(q) /\ \A v \in Sessions : session[v].payload # q
  BY <1>2, Constants DEF CommitPutCommit, Waiting, OnceInv, ServedInv, StoreInv, Puts
<1>4. session'[u].payload = q /\ \A v \in Sessions : v # u => session'[v] = session[v]
  BY <1>2 DEF CommitPutCommit, Types, TypeOK, SessionRow
<1>5. \A o \in Calls : ~Uploading(o)'
  <2>1. \A o \in Calls : call'[o] = IF o = k THEN Idle ELSE call[o]
    BY EndIs DEF CommitPutCommit
  <2> QED
    BY <1>3, <2>1 DEF OnceInv, Uploading, Idle
<1>6. Puts' /\ Finalizes'
  BY <1>5 DEF Puts, Finalizes, Uploading
<1>7. Stored'
  <2>1. payload[q] # "absent"
    BY <1>3 DEF Live
  <2> QED
    BY <1>1, <1>3, <1>4, <2>1 DEF ServedInv, StoreInv, Stored, Live
<1>8. Distinct'
  BY <1>3, <1>4 DEF ServedInv, StoreInv, Distinct
<1>9. Owners'
  BY <1>1, <1>3, <1>4 DEF ServedInv, StoreInv, Owners
<1>10. ShownInv'
  <2>1. Handled' = Handled /\ \A p : Live(p)' <=> Live(p)
    BY <1>1 DEF Handled, Live
  <2>2. \A o \in Calls : call'[o] = call[o] \/ call'[o].op # "bind"
    BY EndIs DEF CommitPutCommit, Idle
  <2> QED
    BY <1>1, <2>1, <2>2, ShownKept
<1> QED
  BY <1>6, <1>7, <1>8, <1>9, <1>10 DEF ServedInv, StoreInv

LEMMA FinalizeReplayServed ==
    ASSUME Types, OnceInv, ServedInv, NEW k \in Calls, NEW u \in Sessions, FinalizeReplay(k, u)
    PROVE  ServedInv'
<1>1. UNCHANGED <<rows, object, asked, call, gc>>
  BY DEF FinalizeReplay
<1>2. \A v \in Sessions : finalized[v] \subseteq finalized'[v]
  BY DEF FinalizeReplay, Types, TypeOK
<1>3. \A p : Live(p)' <=> Live(p)
  BY <1>1 DEF Live, rows
<1>4. StoreInv'
  BY <1>1, <1>2, <1>3
     DEF ServedInv, StoreInv, Puts, Finalizes, Stored, Distinct, Owners, rows, Live
<1>5. ShownInv'
  <2>1. Handled' = Handled /\ UNCHANGED <<content, binding>>
    BY <1>1 DEF Handled, rows
  <2> QED
    BY <1>1, <1>3, <2>1, ShownKept
<1> QED
  BY <1>4, <1>5 DEF ServedInv

LEMMA FinalizeCommitServed ==
    ASSUME Types, OnceInv, ServedInv, NEW k \in Calls, NEW c \in Contents, FinalizeCommit(k, c)
    PROVE  ServedInv'
<1>1. UNCHANGED <<payload, binding, object, asked, gc>> /\ call[k].op = "finalize"
  BY DEF FinalizeCommit, Waiting
<1>2. PICK u : u = call[k].on
  OBVIOUS
<1>3. u \in Sessions /\ call[k].seen = None /\ session[u].payload # None /\ finalized[u] = {}
  BY <1>1, <1>2, CallIs DEF ServedInv, StoreInv, Finalizes, OnceInv
<1>4. PICK q, r, n : /\ q = session[u].payload
                     /\ r = Finalized(session[u], c) /\ n = NewContent(q)
  OBVIOUS
<1>5. q \in Payloads /\ Live(q) /\ payload[q] # "absent"
  <2>1. q \in Payloads
    BY <1>3, <1>4, SessionIs DEF SessionRow
  <2> QED
    BY <1>3, <1>4, <2>1 DEF ServedInv, StoreInv, Stored
<1>6. /\ session' = [session EXCEPT ![u] = r] /\ r.payload = q
      /\ content[c].status = "absent" /\ content' = [content EXCEPT ![c] = n]
  BY <1>2, <1>3, <1>4, FinalizeCommitIs
<1>7. n.status = "active" /\ n.payload = q
  BY <1>4, <1>5, NewContentIs
<1>8. \A x \in Contents : content'[x] = IF x = c THEN n ELSE content[x]
  BY <1>6 DEF Types, TypeOK
<1>9. \A v \in Sessions : session'[v].payload = session[v].payload
  BY <1>4, <1>6 DEF Types, TypeOK
<1>10. \A v \in Sessions : finalized'[v] = IF v = u THEN {c} ELSE finalized[v]
  BY <1>2, <1>3 DEF FinalizeCommit, Types, TypeOK
<1>11. \A o \in Calls : call'[o] = IF o = k THEN Idle ELSE call[o]
  BY EndIs DEF FinalizeCommit
<1>12. \A p : Live(p)' <=> Live(p)
  BY <1>1 DEF Live
<1>13. Puts' /\ Finalizes'
  <2>1. \A o \in Calls : ~Uploading(o)'
    BY <1>1, <1>11 DEF OnceInv, Uploading, Idle
  <2> QED
    BY <2>1 DEF Puts, Finalizes, Uploading
<1>14. Stored'
  BY <1>1, <1>9, <1>10 DEF ServedInv, StoreInv, Stored, Live
<1>15. Distinct'
  BY <1>9 DEF ServedInv, StoreInv, Distinct
<1>16. Owners'
  <2> SUFFICES ASSUME NEW x \in Contents, content'[x].status # "absent"
               PROVE  /\ content'[x].payload # None
                      /\ \E v \in Sessions : /\ x \in finalized'[v]
                                             /\ session'[v].payload = content'[x].payload
    BY DEF Owners
  <2>1. CASE x = c
    BY <1>3, <1>4, <1>7, <1>8, <1>9, <1>10, <2>1
  <2>2. CASE x # c
    <3>1. content'[x] = content[x]
      BY <1>8, <2>2
    <3>2. PICK v \in Sessions : x \in finalized[v] /\ session[v].payload = content[x].payload
      BY <3>1 DEF ServedInv, StoreInv, Owners
    <3>3. content[x].payload # None
      BY <3>1 DEF ServedInv, StoreInv, Owners
    <3>4. v # u
      BY <1>3, <3>2
    <3> QED
      BY <1>9, <1>10, <3>1, <3>2, <3>3, <3>4
  <2> QED
    BY <2>1, <2>2
\* The other contents are what they were; the new one is there.
<1>17. \A x \in Contents : x # c => (Fresh(x)' <=> Fresh(x)) /\ (Bound(x)' <=> Bound(x))
  BY <1>1, <1>8 DEF Fresh, Bound
<1>18. ~Bound(c)
  BY <1>6 DEF Bound, ServedInv, ShownInv, Shows
<1>19. Freshes'
  <2> SUFFICES ASSUME NEW x \in Contents, content'[x].status = "active", Fresh(x)'
               PROVE  Live(content[x].payload)'
    BY DEF Freshes
  <2>1. CASE x = c
    BY <1>1, <1>5, <1>7, <1>8, <2>1 DEF Live
  <2>2. CASE x # c
    BY <1>1, <1>8, <1>17, <2>2 DEF ServedInv, ShownInv, Freshes, Live
  <2> QED
    BY <2>1, <2>2
<1>20. Shows'
  <2> SUFFICES ASSUME NEW b \in Bindings, binding[b].status = "active"
               PROVE  /\ binding[b].content \in Contents
                      /\ content'[binding[b].content].status = "active"
                      /\ Live(content[binding[b].content].payload)'
    BY <1>1 DEF Shows
  <2>1. PICK x \in Contents : x = binding[b].content
    BY DEF ServedInv, ShownInv, Shows
  <2>2. content[x].status = "active" /\ Live(content[x].payload)
    BY <2>1 DEF ServedInv, ShownInv, Shows
  <2>3. content'[x] = content[x]
    BY <1>6, <1>8, <2>2
  <2> QED
    BY <1>1, <2>1, <2>2, <2>3 DEF Live
<1>21. Spares'
  <2>1. \A x \in Handled : x \in Contents /\ x # c
    BY <1>6, HandledIs
  <2> QED
    BY <1>1, <1>8, <1>17, <2>1 DEF ServedInv, ShownInv, Spares, Handled
<1>22. Binds'
  <2> SUFFICES ASSUME NEW o \in Calls, call'[o].op = "bind"
               PROVE  /\ content'[asked[call'[o].on].of].status = "active"
                      /\ Fresh(asked[call[o].on].of)'
    BY <1>1 DEF Binds
  <2>1. call'[o] = call[o]
    BY <1>11 DEF Idle
  <2>2. PICK x : x = asked[call[o].on].of
    OBVIOUS
  <2>3. content[x].status = "active" /\ Fresh(x) /\ x \in Contents
    <3>1. call[o].on \in Mutations /\ Asked(call[o].on, "bind")
      BY <2>1, CallIs DEF Types, CallsOK
    <3> QED
      BY <2>1, <2>2, <3>1, AskIs DEF ServedInv, ShownInv, Binds
  <2>4. content'[x] = content[x]
    BY <1>6, <1>8, <2>3
  <2> QED
    BY <1>1, <2>1, <2>2, <2>3, <2>4 DEF Fresh
<1> QED
  BY <1>13, <1>14, <1>15, <1>16, <1>19, <1>20, <1>21, <1>22 DEF ServedInv, StoreInv, ShownInv

\* The steps that change no content, no payload and no binding.
LEMMA QuietServed ==
    ASSUME Types, OnceInv, ServedInv,
           \/ \E k \in Calls : Drop(k) \/ BindSame(k)
                               \/ \E m \in Mutations : Replay(k, m) \/ Unbind(k, m)
           \/ \E m \in Mutations : Ask(m)
           \/ \E u \in Sessions : SessionAges(u)
    PROVE  ServedInv'
<1>1. UNCHANGED <<payload, content, binding, object, gc, finalized>>
  BY DEF Drop, BindSame, Replay, Unbind, Ask, SessionAges, rows
<1>2. \A u \in Sessions : session'[u].payload = session[u].payload
  <2>1. CASE UNCHANGED session
    BY <2>1
  <2>2. ASSUME NEW v \in Sessions, SessionAges(v)
        PROVE  \A u \in Sessions : session'[u].payload = session[u].payload
    <3>1. session \in [Sessions -> SessionRow] /\ session[v] \in SessionRow
      BY DEF Types, TypeOK
    <3>2. PICK r : r = [session[v] EXCEPT !.late = TRUE]
      OBVIOUS
    <3>3. r.payload = session[v].payload
      BY <3>1, <3>2 DEF SessionRow
    <3>4. session' = [session EXCEPT ![v] = r]
      BY <2>2, <3>2 DEF SessionAges
    <3> QED
      BY <3>1, <3>3, <3>4
  <2> QED
    BY <2>1, <2>2 DEF Drop, BindSame, Replay, Unbind, Ask, rows
<1>3. \A k \in Calls : call'[k] = call[k] \/ (~Uploading(k)' /\ call'[k].op # "bind")
  <2>1. CASE UNCHANGED call
    BY <2>1
  <2>2. CASE \E k \in Calls : End(k)
    BY <2>2, EndIs DEF Idle, Uploading
  <2>3. CASE \E k \in Calls : \E m \in Mutations : Unbind(k, m)
    <3>1. PICK k \in Calls : \E on, seen : Begin(k, "unbind", on, seen)
      BY <2>3 DEF Unbind
    <3>2. call'[k].op = "unbind" /\ \A o \in Calls : o # k => call'[o] = call[o]
      BY <3>1, BeginIs
    <3> QED
      BY <3>2 DEF Uploading
  <2> QED
    BY <2>1, <2>2, <2>3 DEF Drop, BindSame, Replay, Ask, SessionAges
<1>4. \A k \in Calls : call[k].op = "bind" => asked'[call[k].on] = asked[call[k].on]
  <2>1. CASE UNCHANGED asked
    BY <2>1
  <2>2. ASSUME NEW m \in Mutations, Ask(m), NEW k \in Calls, call[k].op = "bind"
        PROVE  asked'[call[k].on] = asked[call[k].on]
    <3>1. call[k].on \in Mutations /\ asked[call[k].on] # None
      BY <2>2, CallIs DEF Types, CallsOK, Asked
    <3>2. call[k].on # m
      BY <2>2, <3>1 DEF Ask
    <3>3. \E a : asked' = [asked EXCEPT ![m] = a]
      BY <2>2 DEF Ask
    <3>4. asked \in [Mutations -> Asks]
      BY DEF Types, CallsOK
    <3> QED
      BY <3>1, <3>2, <3>3, <3>4
  <2> QED
    BY <2>1, <2>2 DEF Drop, BindSame, Replay, Unbind, SessionAges
<1>5. Handled' = Handled /\ \A p : Live(p)' <=> Live(p)
  BY <1>1 DEF Handled, Live
<1>6. StoreInv'
  BY <1>1, <1>2, <1>3, <1>5, StoreKept
<1>7. ShownInv'
  BY <1>1, <1>3, <1>4, <1>5, ShownKept
<1> QED
  BY <1>6, <1>7 DEF ServedInv

\* What the steps of Bind and Unbind leave of the store.
LEMMA MutateStore ==
    ASSUME Types, OnceInv, ServedInv, NEW k \in Calls,
           \/ \E m \in Mutations : Bind(k, m)
           \/ UnbindCommit(k)
           \/ \E b \in Bindings : BindNew(k, b)
    PROVE  StoreInv' /\ UNCHANGED <<payload, object, content, asked, gc>>
<1>1. UNCHANGED <<session, payload, content, object, asked, gc, finalized>>
  BY DEF Bind, UnbindCommit, BindNew, rows
<1>2. \A o \in Calls : call'[o] = call[o] \/ ~Uploading(o)'
  <2>1. CASE \E m \in Mutations : Bind(k, m)
    <3>1. PICK on, seen : Begin(k, "bind", on, seen)
      BY <2>1 DEF Bind
    <3>2. call'[k].op = "bind" /\ \A o \in Calls : o # k => call'[o] = call[o]
      BY <3>1, BeginIs
    <3> QED
      BY <3>2 DEF Uploading
  <2>2. CASE End(k)
    BY <2>2, EndIs DEF Idle, Uploading
  <2> QED
    BY <2>1, <2>2 DEF UnbindCommit, BindNew
<1>3. \A p : Live(p)' <=> Live(p)
  BY <1>1 DEF Live
<1>4. StoreInv'
  BY <1>1, <1>2, <1>3, StoreKept
<1> QED
  BY <1>1, <1>4

\* A Bind begins for a content in its grace period.
LEMMA BindServed ==
    ASSUME Types, OnceInv, ServedInv, ~LateBinds, NEW k \in Calls, NEW m \in Mutations, Bind(k, m)
    PROVE  ServedInv'
<1>1. StoreInv' /\ UNCHANGED <<payload, object, content, asked, gc>>
  BY MutateStore
<1>2. UNCHANGED binding
  BY DEF Bind, rows
<1>3. PICK seen : Begin(k, "bind", m, seen)
  BY DEF Bind
<1>4. call'[k].on = m /\ \A o \in Calls : o # k => call'[o] = call[o]
  BY <1>3, BeginIs
<1>5. \A c : (Fresh(c)' <=> Fresh(c)) /\ (Bound(c)' <=> Bound(c)) /\ (Live(c)' <=> Live(c))
  BY <1>1, <1>2 DEF Fresh, Bound, Live
<1>6. Freshes' /\ Shows'
  BY <1>1, <1>2, <1>5 DEF ServedInv, ShownInv, Freshes, Shows, Live, Fresh
<1>7. Spares'
  BY <1>1, <1>2, <1>5 DEF ServedInv, ShownInv, Spares, Handled
<1>8. Binds'
  <2>1. content[asked[m].of].status = "active" /\ Fresh(asked[m].of)
    BY DEF Bind
  <2>2. \A o \in Calls : call'[o].op = "bind" =>
                         /\ content[asked[call'[o].on].of].status = "active"
                         /\ Fresh(asked[call'[o].on].of)
    BY <1>4, <2>1 DEF ServedInv, ShownInv, Binds
  <2> QED
    BY <1>1, <2>2 DEF Binds, Fresh
<1> QED
  BY <1>1, <1>6, <1>7, <1>8 DEF ServedInv, ShownInv

\* The new row of a Bind shows a content in its grace period, which the garbage
\* collection does not handle.
LEMMA BindNewServed ==
    ASSUME Types, OnceInv, ServedInv, NEW k \in Calls, NEW b \in Bindings, BindNew(k, b)
    PROVE  ServedInv'
<1>1. StoreInv' /\ UNCHANGED <<payload, object, content, asked, gc>>
  BY MutateStore
<1>2. PICK c : c = asked[call[k].on].of
  OBVIOUS
<1>3. /\ c \in Contents /\ binding'[b].content = c
      /\ \A x \in Bindings : x # b =>
            /\ binding'[x].content = binding[x].content
            /\ binding'[x].status = "active" => binding[x].status = "active"
  <2>1. PICK m : m = call[k].on
    OBVIOUS
  <2>2. binding'[b] = [status |-> "active", field |-> asked[m].field, content |-> asked[m].of]
    BY <2>1, BindNewIs
  <2> QED
    BY <1>2, <2>1, <2>2, BindNewIs
<1>4. content[c].status = "active" /\ Fresh(c) /\ Live(content[c].payload)
  BY <1>2, <1>3 DEF BindNew, Waiting, ServedInv, ShownInv, Binds, Freshes
<1>5. \A d : Bound(d)' => Bound(d) \/ d = c
  BY <1>3 DEF Bound
<1>6. Freshes'
  BY <1>1 DEF ServedInv, ShownInv, Freshes, Live, Fresh
<1>7. Shows'
  BY <1>1, <1>3, <1>4 DEF ServedInv, ShownInv, Shows, Live
<1>8. Spares'
  <2>1. \A d \in Handled : content[d].old /\ ~Bound(d)'
    BY <1>4, <1>5 DEF ServedInv, ShownInv, Spares, Fresh
  <2> QED
    BY <1>1, <2>1 DEF Spares, Handled
<1>9. Binds'
  <2>1. \A o \in Calls : call'[o] = IF o = k THEN Idle ELSE call[o]
    BY EndIs DEF BindNew
  <2> QED
    BY <1>1, <2>1 DEF ServedInv, ShownInv, Binds, Fresh, Idle
<1> QED
  BY <1>1, <1>6, <1>7, <1>8, <1>9 DEF ServedInv, ShownInv

LEMMA UnbindServed ==
    ASSUME Types, OnceInv, ServedInv, NEW k \in Calls, UnbindCommit(k)
    PROVE  ServedInv'
<1>1. StoreInv' /\ UNCHANGED <<payload, object, content, asked, gc>>
  BY MutateStore
<1>2. \A x \in Bindings : /\ binding'[x].content = binding[x].content
                          /\ binding'[x].status = "active" => binding[x].status = "active"
  <2>1. CASE UNCHANGED binding
    BY <2>1
  <2>2. CASE \E f, b : binding' = Unbound(binding, f, b)
    BY <2>2, UnboundIs
  <2> QED
    BY <2>1, <2>2 DEF UnbindCommit
<1>3. \A d : Bound(d)' => Bound(d)
  BY <1>2 DEF Bound
<1>4. Freshes'
  BY <1>1 DEF ServedInv, ShownInv, Freshes, Live, Fresh
<1>5. Shows'
  BY <1>1, <1>2 DEF ServedInv, ShownInv, Shows, Live
<1>6. Spares'
  <2>1. \A d \in Handled : content[d].old /\ ~Bound(d)'
    BY <1>3 DEF ServedInv, ShownInv, Spares
  <2> QED
    BY <1>1, <2>1 DEF Spares, Handled
<1>7. Binds'
  <2>1. \A o \in Calls : call'[o] = IF o = k THEN Idle ELSE call[o]
    BY EndIs DEF UnbindCommit
  <2> QED
    BY <1>1, <2>1 DEF ServedInv, ShownInv, Binds, Fresh, Idle
<1> QED
  BY <1>1, <1>4, <1>5, <1>6, <1>7 DEF ServedInv, ShownInv

\* The garbage collection chooses contents that are old and not bound, and lets go
\* of those it has chosen.
LEMMA GcReadServed ==
    ASSUME Types, OnceInv, ServedInv, GcRead \/ GcAbort
    PROVE  ServedInv'
<1>1. UNCHANGED <<session, payload, content, binding, object, asked, call, finalized>>
  BY DEF GcRead, GcAbort, rows
<1>2. \A p : Live(p)' <=> Live(p)
  BY <1>1 DEF Live
<1>3. StoreInv'
  BY <1>1, <1>2, StoreKept
<1>4. Freshes' /\ Shows' /\ Binds'
  BY <1>1 DEF ServedInv, ShownInv, Freshes, Shows, Binds, Live, Fresh
<1>5. \A c \in Handled' : content[c].old /\ ~Bound(c)
  <2>1. CASE GcRead
    <3>1. PICK e, q : gc' = [GcIdle EXCEPT !.running = TRUE, !.expire = e, !.purge = q,
                                          !.doomed = Doomed]
      BY <2>1 DEF GcRead
    <3>2. gc'.doomed = Doomed /\ gc'.deleted = {} /\ gc'.failed = {}
      BY <3>1 DEF GcIdle
    <3> QED
      BY <3>2 DEF Handled, Doomed
  <2>2. CASE GcAbort
    BY <2>2 DEF GcAbort, GcIdle, Handled
  <2> QED
    BY <2>1, <2>2
<1>6. Spares'
  BY <1>1, <1>5 DEF Spares, Bound
<1> QED
  BY <1>3, <1>4, <1>6 DEF ServedInv, ShownInv

\* An object leaves the storage: that of a content the garbage collection handles.
LEMMA GcDeleteServed ==
    ASSUME Types, OnceInv, ServedInv, NEW c \in Contents, GcDelete(c)
    PROVE  ServedInv'
<1>1. UNCHANGED <<session, payload, content, binding, asked, call, finalized>>
  BY DEF GcDelete, rows
<1>2. c \in Handled /\ Handled' = Handled
  BY GcDeleteIs DEF Handled
<1>3. \A p : Live(p) => Live(p)' \/ content[c].payload = p
  BY <1>1 DEF Live, GcDelete, Types, TypeOK
<1>4. StoreInv'
  BY <1>1, <1>2, <1>3, StoreKept
<1>5. ShownInv'
  BY <1>1, <1>2, <1>3, ShownKept
<1> QED
  BY <1>4, <1>5 DEF ServedInv

\* The garbage collection commits: the contents it deleted lose their payload, those it
\* failed on are tried later, the others are what they were.
LEMMA GcCommitIs ==
    ASSUME Types, GcCommit
    PROVE  /\ \A u \in Sessions : session'[u].payload = session[u].payload
           /\ \A c \in Contents :
                 /\ content'[c].payload = content[c].payload
                 /\ content'[c].status # "absent" => content[c].status # "absent"
                 /\ c \notin Handled => content'[c] = content[c]
                 /\ c \in gc.deleted => content'[c].status = "deleted"
                 /\ c \in Handled => content'[c].status = "deleted" \/ content'[c].attempts # 0
           /\ \A p \in Payloads : payload[p] # "absent" => payload'[p] # "absent"
           /\ \A p : Live(p) => Live(p)' \/ \E c \in gc.deleted : content[c].payload = p
           /\ Handled' = {}
<1>1. /\ content \in [Contents -> ContentRow] /\ session \in [Sessions -> SessionRow]
      /\ payload \in [Payloads -> {"absent", "active", "deleted"}]
  BY DEF Types, TypeOK
<1>2. ASSUME NEW u \in Sessions
      PROVE  session'[u].payload = session[u].payload
  BY <1>1 DEF GcCommit, Swept, SessionRow
<1>3. ASSUME NEW c \in Contents
      PROVE  /\ content'[c].payload = content[c].payload
             /\ content'[c].status # "absent" => content[c].status # "absent"
             /\ c \notin Handled => content'[c] = content[c]
             /\ c \in gc.deleted => content'[c].status = "deleted"
             /\ c \in Handled => content'[c].status = "deleted" \/ content'[c].attempts # 0
  <2>1. content[c] \in ContentRow
    BY <1>1
  <2>2. PICK d, f : /\ d = [content[c] EXCEPT !.status = "deleted"]
                    /\ f = [content[c] EXCEPT !.attempts = @ + 1, !.old = FALSE]
    OBVIOUS
  <2>3. /\ d.status = "deleted" /\ d.payload = content[c].payload
        /\ f.status = content[c].status /\ f.payload = content[c].payload
        /\ f.attempts = content[c].attempts + 1
    BY <2>1, <2>2 DEF ContentRow
  <2>4. f.attempts # 0
    BY <2>1, <2>3, Constants DEF ContentRow
  <2>5. content'[c] = IF c \in gc.deleted THEN d ELSE IF c \in gc.failed THEN f ELSE content[c]
    BY <2>2 DEF GcCommit
  <2>6. c \in Handled => c \in gc.deleted \/ c \in gc.failed
    BY DEF GcCommit, Handled
  <2>7. c \in gc.deleted \/ c \in gc.failed => c \in Handled /\ content[c].status = "active"
    BY HandledIs DEF Handled
  <2> QED
    BY <2>3, <2>4, <2>5, <2>6, <2>7
<1>4. ASSUME NEW p \in Payloads
      PROVE  /\ payload[p] # "absent" => payload'[p] # "absent"
             /\ Live(p) => Live(p)' \/ \E c \in gc.deleted : content[c].payload = p
  BY DEF GcCommit, Live
<1>5. Handled' = {}
  BY DEF GcCommit, GcIdle, Handled
<1> QED
  BY <1>2, <1>3, <1>4, <1>5 DEF Live

LEMMA GcCommitServed ==
    ASSUME Types, OnceInv, ServedInv, GcCommit
    PROVE  ServedInv'
<1>1. UNCHANGED <<binding, object, asked, call, finalized>>
  BY DEF GcCommit
<1>2. gc.deleted \subseteq Handled
  BY DEF Handled
<1>3. StoreInv'
  BY <1>1, <1>2, GcCommitIs, StoreKept
<1>4. \A c \in Contents : content'[c].status = "active" /\ (Fresh(c)' \/ Bound(c)) =>
                          c \notin Handled /\ content'[c] = content[c]
  BY <1>1, GcCommitIs DEF Fresh, ServedInv, ShownInv, Spares
<1>5. ASSUME NEW c \in Contents, content[c].status = "active", Fresh(c) \/ Bound(c)
      PROVE  /\ content'[c] = content[c] /\ (Fresh(c)' <=> Fresh(c))
             /\ Live(content[c].payload) => Live(content[c].payload)'
  <2>1. c \notin Handled
    BY <1>5 DEF Fresh, ServedInv, ShownInv, Spares
  <2>2. content'[c] = content[c]
    BY <2>1, GcCommitIs
  <2>3. PICK p : p = content[c].payload /\ p = content'[c].payload
    BY <2>2
  <2>4. Live(p) => Live(p)'
    BY <1>2, <1>5, <2>3, GcCommitIs, Loss
  <2> QED
    BY <2>2, <2>3, <2>4 DEF Fresh
<1>6. Freshes'
  BY <1>4, <1>5 DEF ServedInv, ShownInv, Freshes, Fresh
<1>7. Shows'
  <2> SUFFICES ASSUME NEW b \in Bindings, binding[b].status = "active"
               PROVE  /\ binding[b].content \in Contents
                      /\ content'[binding[b].content].status = "active"
                      /\ Live(content[binding[b].content].payload)'
    BY <1>1 DEF Shows
  <2>1. PICK c \in Contents : c = binding[b].content
    BY DEF ServedInv, ShownInv, Shows
  <2>2. content[c].status = "active" /\ Live(content[c].payload) /\ Bound(c)
    BY <2>1 DEF ServedInv, ShownInv, Shows, Bound
  <2> QED
    BY <1>1, <1>5, <2>1, <2>2
<1>8. Spares'
  BY GcCommitIs DEF Spares
<1>9. Binds'
  <2> SUFFICES ASSUME NEW k \in Calls, call[k].op = "bind"
               PROVE  /\ content'[asked[call[k].on].of].status = "active"
                      /\ Fresh(asked[call[k].on].of)'
    BY <1>1 DEF Binds
  <2>1. call[k].on \in Mutations /\ Asked(call[k].on, "bind")
    BY CallIs DEF Types, CallsOK
  <2>2. PICK c \in Contents : c = asked[call[k].on].of
    BY <2>1, AskIs
  <2>3. content[c].status = "active" /\ Fresh(c)
    BY <2>2 DEF ServedInv, ShownInv, Binds
  <2> QED
    BY <1>1, <1>5, <2>2, <2>3
<1> QED
  BY <1>3, <1>6, <1>7, <1>8, <1>9 DEF ServedInv, ShownInv

\* A content leaves its grace period: no Bind is in flight for it.
LEMMA ContentAgesServed ==
    ASSUME Types, OnceInv, ServedInv, NEW c \in Contents, ContentAges(c)
    PROVE  ServedInv'
<1>1. UNCHANGED <<session, payload, binding, object, asked, call, gc, finalized>>
  BY DEF ContentAges
<1>2. PICK r : r = [content[c] EXCEPT !.old = TRUE]
  OBVIOUS
<1>3. content \in [Contents -> ContentRow] /\ content[c] \in ContentRow
  BY DEF Types, TypeOK
<1>4. r.old /\ r.status = content[c].status /\ r.payload = content[c].payload
  BY <1>2, <1>3 DEF ContentRow
<1>5. \A x \in Contents : content'[x] = IF x = c THEN r ELSE content[x]
  BY <1>2, <1>3 DEF ContentAges
<1>6. /\ \A p : Live(p)' <=> Live(p)
      /\ \A x : Bound(x)' <=> Bound(x)
  BY <1>1 DEF Live, Bound
<1>7. StoreInv'
  BY <1>1, <1>4, <1>5, <1>6, StoreKept
<1>8. Freshes'
  BY <1>1, <1>4, <1>5 DEF ServedInv, ShownInv, Freshes, Fresh, Live
<1>9. Shows'
  BY <1>1, <1>4, <1>5 DEF ServedInv, ShownInv, Shows, Live
<1>10. Spares'
  <2>1. \A x \in Handled : content'[x].old /\ ~Bound(x)
    BY <1>4, <1>5, HandledIs DEF ServedInv, ShownInv, Spares
  <2> QED
    BY <1>1, <1>6, <2>1 DEF Spares, Handled
<1>11. Binds'
  <2> SUFFICES ASSUME NEW k \in Calls, call[k].op = "bind"
               PROVE  /\ content'[asked[call[k].on].of].status = "active"
                      /\ Fresh(asked[call[k].on].of)'
    BY <1>1 DEF Binds
  <2>1. call[k].on \in Mutations /\ Asked(call[k].on, "bind")
    BY CallIs DEF Types, CallsOK
  <2>2. PICK x \in Contents : x = asked[call[k].on].of
    BY <2>1, AskIs
  <2>3. x # c
    BY <2>2 DEF ContentAges, Waiting
  <2>4. content[x].status = "active" /\ Fresh(x) /\ content'[x] = content[x]
    BY <1>5, <2>2, <2>3 DEF ServedInv, ShownInv, Binds
  <2> QED
    BY <1>1, <2>2, <2>4 DEF Fresh
<1> QED
  BY <1>7, <1>8, <1>9, <1>10, <1>11 DEF ServedInv, ShownInv

LEMMA NextServed ==
    ASSUME Types, OnceInv, ServedInv, SerialUploads, ~LateBinds, [Next]_vars
    PROVE  ServedInv'
<1>1. CASE UNCHANGED vars
  <2>1. UNCHANGED <<session, payload, content, binding, object, asked, call, gc, finalized>>
    BY <1>1 DEF vars, rows
  <2>2. Handled' = Handled /\ \A p : Live(p)' <=> Live(p)
    BY <2>1 DEF Handled, Live
  <2> QED
    BY <2>1, <2>2, StoreKept, ShownKept DEF ServedInv
<1>2. CASE \E k \in Calls : Upload(k)
  BY <1>2, UploadReadServed, PrepareServed, StorePayloadServed, CommitPutServed,
     FinalizeReplayServed, FinalizeCommitServed DEF Upload
<1>3. CASE \E k \in Calls : Mutate(k)
  BY <1>3, QuietServed, BindServed, BindNewServed, UnbindServed DEF Mutate
<1> QED
  BY <1>1, <1>2, <1>3, QuietServed, GcReadServed, GcDeleteServed, GcCommitServed,
     ContentAgesServed DEF Next, Collect

\* An attachment shown on an owner field can be downloaded: a Bind takes a content
\* in its grace period, which the garbage collection cannot have chosen, and no other
\* content has its payload, so that no deletion, committed or not, reaches what a
\* binding shows.  The client uploads one file at a time and binds within the grace
\* period (modules/document/service/models/_attachment_gc.ts).
THEOREM ShownAttachmentsServed ==
    ASSUME SerialUploads, ~LateBinds
    PROVE  Spec => []ActiveBindingServed
<1>1. Init => OnceInv
  BY DEF Init, OnceInv, Uploading, Idle
<1>2. Init => ServedInv
  <2> SUFFICES ASSUME Init PROVE ServedInv
    OBVIOUS
  <2>1. StoreInv
    BY DEF Init, StoreInv, Puts, Finalizes, Stored, Distinct, Owners, Idle, NoSession, NoContent
  <2>2. \A b \in Bindings : binding[b].status # "active"
    BY DEF Init, EarlierBinding, NoBinding
  <2>3. ShownInv
    BY <2>2 DEF Init, ShownInv, Freshes, Shows, Spares, Binds, Handled, Idle, GcIdle, NoContent
  <2> QED
    BY <2>1, <2>3 DEF ServedInv
<1>3. Types /\ OnceInv /\ ServedInv /\ [Next]_vars => ServedInv'
  BY NextServed
<1>4. Types /\ OnceInv /\ [Next]_vars => OnceInv'
  BY NextOnce
<1>5. ServedInv => ActiveBindingServed
  BY DEF ServedInv, ShownInv, Shows, ActiveBindingServed, Downloadable, Live
<1>6. Spec => [](Types /\ OnceInv /\ ServedInv)
  BY InitTypes, NextTypes, <1>1, <1>2, <1>3, <1>4, PTL DEF Spec
<1> QED
  BY <1>5, <1>6, PTL
============================================================================
