---------------------------- MODULE Attachments ----------------------------
(* The document module's attachments: upload sessions, attachment contents, *)
(* bindings of contents to owner fields, the mutation ledger and the        *)
(* scheduled garbage collection.                                            *)
(*                                                                          *)
(* Every service call is one database transaction (internal/service), so a  *)
(* call is two actions: one reads and decides, the other commits what was   *)
(* decided, by row id, on the rows of that moment; in between other calls   *)
(* commit.  A call that fails, times out or loses its server rolls back.    *)
(* Payload objects live in external storage and take no part in rollbacks.  *)
EXTENDS Naturals, FiniteSets

CONSTANTS
    Sessions,       \* upload sessions, one per businessRequestId
    Payloads,       \* stored contents: a row and an object in the storage
    Contents,       \* attachment contents
    Bindings,       \* attachment bindings
    Fields,         \* owner fields: an owner record and one of its fields
    Mutations,      \* mutationIds of Bind and Unbind
    Calls,          \* service calls that can be in flight at once
    MaxAttempts,    \* failed deletions of a content before it is given up
    SerialUploads,  \* the client uploads one file at a time
    LateBinds,      \* a client may bind a content older than the grace period
    InsertAborts,   \* a failed INSERT ends the transaction (PostgreSQL)
    None

ASSUME AttachmentsAssumption ==
    /\ MaxAttempts \in Nat \ {0}
    /\ {SerialUploads, LateBinds, InsertAborts} \subseteq BOOLEAN
    /\ None \notin Sessions \cup Payloads \cup Contents \cup Bindings \cup Fields

VARIABLES
    session,    \* [Sessions -> row of document_upload_session]
    payload,    \* [Payloads -> status of the stored content row]
    object,     \* [Payloads -> the payload is in the external storage]
    content,    \* [Contents -> row of document_attachment_content]
    binding,    \* [Bindings -> row of document_attachment_binding]
    asked,      \* [Mutations -> what the client asks for under this id]
    ledger,     \* [Mutations -> binding of the recorded answer, or None]
    call,       \* [Calls -> a call in flight: what it is and what it has read]
    gc,         \* the garbage collection in progress: what it has read and done
    finalized,  \* [Sessions -> contents FinalizeUpload has answered with]
    answered    \* [Mutations -> bindings Bind and Unbind have answered with]

rows == <<session, payload, content, binding, ledger>>
vars == <<rows, object, asked, call, gc, finalized, answered>>

----------------------------------------------------------------------------
(* Rows *)

SessionRow == [status : {"absent", "prepared", "uploaded", "finalized", "expired", "purged"},
               payload : Payloads \cup {None}, content : Contents \cup {None},
               late : BOOLEAN]  \* past ExpiresAt; once final, past retention
ContentRow == [status : {"absent", "active", "deleted"}, payload : Payloads \cup {None},
               old : BOOLEAN, attempts : 0 .. MaxAttempts]
BindingRow == [status : {"absent", "active", "unbound", "purged"},
               field : Fields \cup {None}, content : Contents \cup {None}]

NoSession == [status |-> "absent", payload |-> None, content |-> None, late |-> FALSE]
NoContent == [status |-> "absent", payload |-> None, old |-> FALSE, attempts |-> 0]
NoBinding == [status |-> "absent", field |-> None, content |-> None]

\* Identifiers are interchangeable: the one a new row gets is not a choice.
NewId(unused) == IF unused = {} THEN None ELSE CHOOSE x \in unused : TRUE

\* The row left of an attachment removed from the field before.
EarlierBinding(f) == [status |-> "unbound", field |-> f, content |-> None]

Idle == [op |-> "idle", on |-> None, seen |-> None]
GcIdle == [running |-> FALSE, expire |-> {}, purge |-> {}, doomed |-> {},
           deleted |-> {}, failed |-> {}]

Init ==
    /\ session = [u \in Sessions |-> NoSession]
    /\ payload = [p \in Payloads |-> "absent"]
    /\ object = [p \in Payloads |-> FALSE]
    /\ content = [c \in Contents |-> NoContent]
    /\ binding \in {[b \in Bindings |-> IF b \in r THEN EarlierBinding(f) ELSE NoBinding] :
                        r \in {{}, {NewId(Bindings)}}, f \in Fields}
    /\ asked = [m \in Mutations |-> None]
    /\ ledger = [m \in Mutations |-> None]
    /\ call = [k \in Calls |-> Idle]
    /\ gc = GcIdle
    /\ finalized = [u \in Sessions |-> {}]
    /\ answered = [m \in Mutations |-> {}]

Pending(s) == s.status \in {"prepared", "uploaded"} /\ ~s.late

ActiveBindings(f) == {b \in Bindings : binding[b].status = "active" /\ binding[b].field = f}

\* A free call slot, for a client that uploads one file at a time.
MayCall(k) ==
    /\ call[k] = Idle
    /\ SerialUploads => \A o \in Calls : call[o].on \notin Sessions

Waiting(k, op) == call[k].op = op
Begin(k, op, on, seen) == call' = [call EXCEPT ![k] = [op |-> op, on |-> on, seen |-> seen]]
End(k) == call' = [call EXCEPT ![k] = Idle]

\* The call fails, times out or loses its server: nothing it wrote remains.
Drop(k) ==
    /\ call[k] # Idle
    /\ End(k)
    /\ UNCHANGED <<rows, object, asked, gc, finalized, answered>>

----------------------------------------------------------------------------
(* Uploads *)

\* PrepareUpload: the session of this businessRequestId as it is, or a new one.
\* Of two calls that both find none, the unique index lets one create it.
Prepare(k, u) ==
    /\ MayCall(k)
    /\ session[u].status = "absent"
    /\ session' = [session EXCEPT ![u] = [NoSession EXCEPT !.status = "prepared"]]
    /\ UNCHANGED <<payload, content, binding, ledger, object, asked, call, gc, finalized, answered>>

\* The upload gateway: AuthorizeUploadPut, the payload written to the storage
\* under a row of its own, then CommitUploadPut.  A session found late is
\* marked expired and the call throws, so that its mark is rolled back.
AuthorizePut(k, u) ==
    /\ MayCall(k)
    /\ Pending(session[u])
    /\ Begin(k, "put", u, None)
    /\ UNCHANGED <<rows, object, asked, gc, finalized, answered>>

StorePayload(k, p) ==
    /\ Waiting(k, "put") /\ call[k].seen = None
    /\ p = NewId({q \in Payloads : payload[q] = "absent"})
    /\ payload' = [payload EXCEPT ![p] = "active"]
    /\ object' = [object EXCEPT ![p] = TRUE]
    /\ Begin(k, "put", call[k].on, p)
    /\ UNCHANGED <<session, content, binding, ledger, asked, gc, finalized, answered>>

\* CommitUploadPut reads the session: 'uploaded' is answered without a change,
\* finalized and expired sessions are refused.
CommitPut(k) ==
    LET s == session[call[k].on] IN
    /\ Waiting(k, "put") /\ call[k].seen # None
    /\ IF s.status = "prepared" /\ ~s.late
         THEN Begin(k, "commit_put", call[k].on, call[k].seen)
         ELSE End(k)
    /\ UNCHANGED <<rows, object, asked, gc, finalized, answered>>

CommitPutCommit(k) ==
    LET u == call[k].on IN
    /\ Waiting(k, "commit_put")
    /\ session[u].status # "purged"
    /\ session' = [session EXCEPT ![u].status = "uploaded", ![u].payload = call[k].seen]
    /\ End(k)
    /\ UNCHANGED <<payload, content, binding, ledger, object, asked, gc, finalized, answered>>

\* FinalizeUpload of a finalized session answers with the recorded content.
FinalizeReplay(k, u) ==
    /\ MayCall(k)
    /\ session[u].status = "finalized"
    /\ finalized' = [finalized EXCEPT ![u] = @ \cup {session[u].content}]
    /\ UNCHANGED <<rows, object, asked, call, gc, answered>>

\* FinalizeUpload of an uploaded session looks for an active content of the
\* same payload; it creates one when there is none.
Finalize(k, u) ==
    LET same == {c \in Contents : content[c].status = "active"
                                  /\ content[c].payload = session[u].payload}
    IN
    /\ MayCall(k)
    /\ session[u].status = "uploaded" /\ ~session[u].late
    /\ payload[session[u].payload] = "active"
    /\ \E c \in (IF same = {} THEN {None} ELSE same) : Begin(k, "finalize", u, c)
    /\ UNCHANGED <<rows, object, asked, gc, finalized, answered>>

\* Mutant: the content is not recorded in the session.
FinalizedWithout(s, c) == [s EXCEPT !.status = "finalized", !.late = FALSE]

Finalized(s, c) == [s EXCEPT !.status = "finalized", !.content = c, !.late = FALSE]

FinalizeCommit(k, c) ==
    LET u == call[k].on
        reused == call[k].seen
    IN
    /\ Waiting(k, "finalize")
    /\ session[u].status # "purged"
    /\ IF reused = None
         THEN /\ c = NewId({x \in Contents : content[x].status = "absent"})
              /\ content' = [content EXCEPT ![c] = [NoContent EXCEPT
                                !.status = "active", !.payload = session[u].payload]]
         ELSE c = reused /\ UNCHANGED content
    /\ session' = [session EXCEPT ![u] = Finalized(@, c)]
    /\ finalized' = [finalized EXCEPT ![u] = @ \cup {c}]
    /\ End(k)
    /\ UNCHANGED <<payload, binding, ledger, object, asked, gc, answered>>

----------------------------------------------------------------------------
(* Bindings *)

\* The client decides once what a mutationId stands for and repeats the same
\* request until it is answered.
Ask(m) ==
    /\ asked[m] = None
    /\ \/ \E f \in Fields, u \in Sessions :
            \E c \in finalized[u] :
                asked' = [asked EXCEPT ![m] = [op |-> "bind", field |-> f, of |-> c]]
       \/ \E b \in Bindings :
            /\ \E o \in Mutations : b \in answered[o]
            /\ asked' = [asked EXCEPT ![m] = [op |-> "unbind", field |-> None, of |-> b]]
    /\ UNCHANGED <<rows, object, call, gc, finalized, answered>>

Asked(m, op) == asked[m] # None /\ asked[m].op = op

\* A mutation found in the ledger is answered from there; Unbind loads its
\* binding first.
Replay(k, m) ==
    /\ call[k] = Idle
    /\ ledger[m] # None
    /\ Asked(m, "unbind") => binding[asked[m].of].status # "purged"
    /\ answered' = [answered EXCEPT ![m] = @ \cup {ledger[m]}]
    /\ UNCHANGED <<rows, object, asked, call, gc, finalized>>

\* Within the grace period of its creation (a failed deletion makes it young
\* again, not fresh).
Fresh(c) == ~content[c].old /\ content[c].attempts = 0

Bind(k, m) ==
    LET c == asked[m].of IN
    /\ call[k] = Idle
    /\ Asked(m, "bind") /\ ledger[m] = None
    /\ content[c].status = "active"
    /\ LateBinds \/ Fresh(c)
    /\ LET existing == ActiveBindings(asked[m].field) IN
       \E b \in (IF existing = {} THEN {None} ELSE existing) : Begin(k, "bind", m, b)
    /\ UNCHANGED <<rows, object, asked, gc, finalized, answered>>

\* Mutant: the success is not recorded.
RecordNothing(m, b) == UNCHANGED ledger

\* recordMutationSuccess: an id already in the ledger fails the insert, which
\* ends the transaction or is taken for a replay.
RecordMutation(m, b) ==
    \/ /\ ledger[m] = None
       /\ ledger' = [ledger EXCEPT ![m] = b]
    \/ /\ ledger[m] # None /\ ~InsertAborts
       /\ UNCHANGED ledger

\* Clears the other unbound rows of b's field and unbinds b: an owner field
\* has at most one unbound row (unique index).
Unbound(rowsOf, f, b) ==
    [x \in Bindings |->
        IF x = b THEN [rowsOf[x] EXCEPT !.status = "unbound"]
        ELSE IF rowsOf[x].status = "unbound" /\ rowsOf[x].field = f
               THEN [rowsOf[x] EXCEPT !.status = "purged"]
               ELSE rowsOf[x]]

\* The binding the call found already holds the content: its presentation is
\* patched.
BindSame(k) ==
    LET m == call[k].on
        b == call[k].seen
    IN
    /\ Waiting(k, "bind")
    /\ b # None /\ binding[b].content = asked[m].of
    /\ binding[b].status # "purged"
    /\ RecordMutation(m, b)
    /\ answered' = [answered EXCEPT ![m] = @ \cup {b}]
    /\ End(k)
    /\ UNCHANGED <<session, payload, content, binding, object, asked, gc, finalized>>

\* The binding the call found is unbound and a new one created; the unique
\* index refuses a second active row of the field.
BindNew(k, b) ==
    LET m == call[k].on
        old == call[k].seen
        f == asked[m].field
        left == IF old = None THEN binding ELSE Unbound(binding, f, old)
    IN
    /\ Waiting(k, "bind")
    /\ old # None => binding[old].content # asked[m].of /\ binding[old].status # "purged"
    /\ ActiveBindings(f) \subseteq {old}
    /\ b = NewId({x \in Bindings : binding[x].status = "absent"})
    /\ binding' = [left EXCEPT ![b] = [status |-> "active", field |-> f, content |-> asked[m].of]]
    /\ RecordMutation(m, b)
    /\ answered' = [answered EXCEPT ![m] = @ \cup {b}]
    /\ End(k)
    /\ UNCHANGED <<session, payload, content, object, asked, gc, finalized>>

Unbind(k, m) ==
    LET b == asked[m].of IN
    /\ call[k] = Idle
    /\ Asked(m, "unbind") /\ ledger[m] = None
    /\ binding[b].status # "purged"
    /\ Begin(k, "unbind", m, binding[b].status)
    /\ UNCHANGED <<rows, object, asked, gc, finalized, answered>>

UnbindCommit(k) ==
    LET m == call[k].on
        b == asked[m].of
    IN
    /\ Waiting(k, "unbind")
    /\ IF call[k].seen = "unbound"
         THEN UNCHANGED binding
         ELSE /\ binding[b].status # "purged"
              /\ binding' = Unbound(binding, binding[b].field, b)
    /\ RecordMutation(m, b)
    /\ answered' = [answered EXCEPT ![m] = @ \cup {b}]
    /\ End(k)
    /\ UNCHANGED <<session, payload, content, object, asked, gc, finalized>>

----------------------------------------------------------------------------
(* Garbage collection: one call, scheduled every five minutes *)

Bound(c) == \E b \in Bindings : binding[b].status = "active" /\ binding[b].content = c

\* Mutants: bound contents are not excepted, those given up are tried again.
DoomedThoughBound == {c \in Contents : /\ content[c].status = "active" /\ content[c].old
                                       /\ content[c].attempts < MaxAttempts}
DoomedAgain == {c \in Contents : /\ content[c].status = "active" /\ content[c].old
                                 /\ ~Bound(c)}

\* Active contents last written before the grace period, less the bound ones
\* and those given up.  A failed attempt stamps UpdatedAt, so the content is
\* young again for longer than its backoff: nextRetryAt has always passed.
Doomed == {c \in Contents : /\ content[c].status = "active" /\ content[c].old
                            /\ ~Bound(c)
                            /\ content[c].attempts < MaxAttempts}

\* The sessions past their time and the contents to delete.
GcRead ==
    /\ gc = GcIdle
    /\ gc' = [GcIdle EXCEPT
           !.running = TRUE,
           !.expire = {u \in Sessions : session[u].late
                                        /\ session[u].status \in {"prepared", "uploaded"}},
           !.purge = {u \in Sessions : session[u].late
                                       /\ session[u].status \in {"finalized", "expired"}},
           !.doomed = Doomed]
    /\ gc'.expire \cup gc'.purge \cup gc'.doomed # {}
    /\ UNCHANGED <<rows, object, asked, call, finalized, answered>>

\* deleteStoredContent: the object leaves the storage at once, its row with
\* the transaction.
GcDelete(c) ==
    /\ c \in gc.doomed
    /\ \/ /\ object' = [object EXCEPT ![content[c].payload] = FALSE]
          /\ gc' = [gc EXCEPT !.doomed = @ \ {c}, !.deleted = @ \cup {c}]
       \/ /\ gc' = [gc EXCEPT !.doomed = @ \ {c}, !.failed = @ \cup {c}]
          /\ UNCHANGED object
    /\ UNCHANGED <<rows, asked, call, finalized, answered>>

Swept(s, u) ==
    IF u \in gc.expire THEN [s EXCEPT !.status = "expired", !.late = FALSE]
    ELSE IF u \in gc.purge THEN [s EXCEPT !.status = "purged"]
    ELSE s

GcCommit ==
    /\ gc.running /\ gc.doomed = {}
    /\ session' = [u \in Sessions |-> Swept(session[u], u)]
    /\ payload' = [p \in Payloads |->
           IF \E c \in gc.deleted : content[c].payload = p THEN "deleted" ELSE payload[p]]
    /\ content' = [c \in Contents |->
           IF c \in gc.deleted THEN [content[c] EXCEPT !.status = "deleted"]
           ELSE IF c \in gc.failed
             THEN [content[c] EXCEPT !.attempts = @ + 1, !.old = FALSE]
             ELSE content[c]]
    /\ gc' = GcIdle
    /\ UNCHANGED <<binding, ledger, object, asked, call, finalized, answered>>

GcAbort ==
    /\ gc # GcIdle
    /\ gc' = GcIdle
    /\ UNCHANGED <<rows, object, asked, call, finalized, answered>>

----------------------------------------------------------------------------
(* Time *)

SessionAges(u) ==
    /\ session[u].status \notin {"absent", "purged"} /\ ~session[u].late
    /\ session' = [session EXCEPT ![u].late = TRUE]
    /\ UNCHANGED <<payload, content, binding, ledger, object, asked, call, gc, finalized, answered>>

\* A call is much shorter than the grace period.
ContentAges(c) ==
    /\ content[c].status = "active" /\ ~content[c].old
    /\ \A k \in Calls : Waiting(k, "bind") => asked[call[k].on].of # c
    /\ content' = [content EXCEPT ![c].old = TRUE]
    /\ UNCHANGED <<session, payload, binding, ledger, object, asked, call, gc, finalized, answered>>

----------------------------------------------------------------------------
Upload(k) ==
    \/ \E u \in Sessions : Prepare(k, u) \/ AuthorizePut(k, u)
                           \/ Finalize(k, u) \/ FinalizeReplay(k, u)
    \/ CommitPut(k) \/ CommitPutCommit(k)
    \/ \E p \in Payloads : StorePayload(k, p)
    \/ \E c \in Contents : FinalizeCommit(k, c)

Mutate(k) ==
    \/ \E m \in Mutations : Bind(k, m) \/ Unbind(k, m) \/ Replay(k, m)
    \/ BindSame(k) \/ UnbindCommit(k)
    \/ \E b \in Bindings : BindNew(k, b)

Collect == GcRead \/ (\E c \in Contents : GcDelete(c)) \/ GcCommit

Next ==
    \/ \E k \in Calls : Upload(k) \/ Mutate(k) \/ Drop(k)
    \/ \E m \in Mutations : Ask(m)
    \/ Collect \/ GcAbort
    \/ \E u \in Sessions : SessionAges(u)
    \/ \E c \in Contents : ContentAges(c)

Spec == Init /\ [][Next]_vars

----------------------------------------------------------------------------
(* Properties *)

\* Every row is one the collections can hold; a content's failed deletions
\* never exceed the attempts the garbage collection allows itself.
TypeOK ==
    /\ session \in [Sessions -> SessionRow]
    /\ payload \in [Payloads -> {"absent", "active", "deleted"}]
    /\ object \in [Payloads -> BOOLEAN]
    /\ content \in [Contents -> ContentRow]
    /\ binding \in [Bindings -> BindingRow]
    /\ ledger \in [Mutations -> Bindings \cup {None}]
    /\ gc.expire \cup gc.purge \subseteq Sessions
    /\ gc.doomed \cup gc.deleted \cup gc.failed \subseteq Contents
    /\ finalized \in [Sessions -> SUBSET Contents]
    /\ answered \in [Mutations -> SUBSET Bindings]

\* What ResolveDownloadContent and the read of the object behind it accept.
Downloadable(b) ==
    LET c == content[binding[b].content] IN
    /\ binding[b].status = "active"
    /\ c.status = "active"
    /\ payload[c.payload] = "active"
    /\ object[c.payload]

\* An attachment shown on an owner field can be downloaded: whatever the
\* garbage collection decided on before, no active binding leads to a deleted
\* content, a deleted payload row or an object gone from the storage.
ActiveBindingServed ==
    \A b \in Bindings : binding[b].status = "active" => Downloadable(b)

\* However often FinalizeUpload of a session is called, lost and repeated, it
\* answers with one content.
FinalizeAnswersAgree == \A u \in Sessions : Cardinality(finalized[u]) <= 1

\* A mutationId is applied once: all the answers of a repeated Bind or Unbind
\* name the same binding.
MutationAnswersAgree == \A m \in Mutations : Cardinality(answered[m]) <= 1

============================================================================
