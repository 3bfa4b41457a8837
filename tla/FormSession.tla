---------------------------- MODULE FormSession ----------------------------
(***************************************************************************)
(* One form page of the web client: the view model of the form controller  *)
(* (web/controllers/formController.ts), the handlers of the page           *)
(* (web/composables/useFormViewLifecycle.ts, useFormViewSubmit.ts), the    *)
(* abortable load (web/query/utils/abortable.ts) and the cache that hands  *)
(* a saved record to the next page (handoff.ts).                           *)
(*                                                                         *)
(* The browser runs one handler at a time, but every RPC, dialog and tick  *)
(* a handler awaits lets the others run: a handler is therefore cut at its *)
(* awaits, and what it still has to do is kept in loads, defaults, save,   *)
(* deletion or dialog; a handler that only awaits ticks is one step.       *)
(***************************************************************************)
EXTENDS Naturals, FiniteSets

CONSTANTS
    Records,           \* ids of the records the user may open
    Fresh,             \* the id the server gives the record created here
    New,               \* stands for a record that is not saved yet
    Nothing,           \* null
    MaxLoads,          \* bound on the loads and creations the user asks for
    MaxEdits,          \* bound on the edits typed into one draft
    Overlaps,          \* what the user may do too early, see Overlap
    OpensInEdit        \* the host opens the form with viewMode = 'edit'

\* The page forbids none of these: "write" another action during a save or a
\* delete, or a save or a delete during a load or a DefaultGet; "copy" a copy
\* during a load, or a move before its DefaultGet has answered; "cancel" a move,
\* a cancel or a refresh of an edit, before a cancelled edit is loaded again;
\* "defaults" typing before DefaultGet has answered.
Overlap == {"write", "copy", "cancel", "defaults"}
ASSUME OverlapsAssumption == Overlaps \subseteq Overlap
ASSUME BoundsAssumption == {MaxLoads, MaxEdits} \subseteq Nat /\ OpensInEdit \in BOOLEAN

Ids == Records \cup {Fresh}
ASSUME NamesAssumption == New \notin Ids /\ Nothing \notin Ids \cup {New}

Modes == {"display", "edit", "create"}

VARIABLES
    identity,  \* effectiveRecordId: a record, New, or Nothing once the page is left
    initSeq,   \* initializeSeq
    vm,        \* the form view model
    loadSeq,   \* the controller's loadSeq
    loads,     \* calls of beginDisplay that await their record
    defaults,  \* calls of beginCreate that await DefaultGet
    save,      \* the handleSubmit under way
    deletion,  \* the confirmed delete under way
    dialog,    \* the confirmation dialog
    handoff,   \* handoffCache: id -> the record kept under it
    baseline,  \* createBaseline
    unread     \* history: the records whose last load failed

vars == <<identity, initSeq, vm, loadSeq, loads, defaults, save,
          deletion, dialog, handoff, baseline, unread>>

---------------------------------------------------------------------------
\* A draft is a clone of a record with the edits typed since.
DraftOf(r) == [of |-> r, edits |-> 0]
NoDraft == DraftOf(Nothing)

View == [mode : Modes, original : Ids \cup {Nothing},
         draft : [of : Ids \cup {New, Nothing}, edits : 0 .. MaxEdits],
         loading : BOOLEAN, error : {"none", "load", "save"}]

\* Why beginDisplay or beginCreate was called: what its caller does after it.
Call(why, init) == [why |-> why, init |-> init]
NoSave == [stage |-> "none", mode |-> "none", kind |-> "none", draft |-> NoDraft]
NoDeletion == [asked |-> Nothing, target |-> Nothing]
NoDialog == [kind |-> "none", to |-> Nothing]

\* vm once record r is shown: original and draft are two clones of it.
Shown(v, r) == [v EXCEPT !.original = r, !.draft = DraftOf(r)]

\* beginEdit
Edited(v) ==
    IF v.original = Nothing THEN v
    ELSE [v EXCEPT !.mode = "edit", !.draft = DraftOf(v.original)]

\* isFormDirty: an edit against the record, a creation against createBaseline.
Dirty ==
    \/ vm.mode = "edit" /\ vm.original # Nothing /\ vm.draft.edits > 0
    \/ vm.mode = "create" /\ baseline # NoDraft /\ vm.draft # baseline

\* leaving: handleCancel has its confirmation and awaits the record.
Leaving == \E l \in loads : l.call.why = "cancel"

Editing == vm.mode \in {"edit", "create"}
Submitting == save.stage # "none"
ControlsLocked == vm.loading \/ Submitting
Writing == Submitting \/ deletion # NoDeletion
Settled == loads = {} /\ defaults = {}
OnPage == identity # Nothing /\ dialog = NoDialog

\* The bound on what the user starts.
MayAsk == loadSeq < MaxLoads

---------------------------------------------------------------------------
(* beginDisplay and what follows its await in each caller. *)

\* After a beginDisplay that did not throw: initializeForm (dropped when a
\* newer identity came in) and then the watcher's beginEdit, which is not;
\* handleCancel; submit's refresh after an attachment was written.
Continue(call, id, v, h) ==
    /\ vm' = CASE call.why = "open" /\ OpensInEdit -> Edited(v)
               [] call.why = "saved" -> [v EXCEPT !.loading = FALSE]
               [] OTHER -> v
    /\ baseline' = IF call.why = "cancel" \/ (call.why = "open" /\ call.init = initSeq')
                   THEN NoDraft ELSE baseline
    /\ handoff' = IF call.why = "saved"
                  THEN [h EXCEPT ![id] = IF v.original = Nothing THEN id ELSE v.original]
                  ELSE h

\* After a beginDisplay that threw: initializeForm, handleCancel and
\* handleRefresh report the error, submit falls back on the record it holds.
Fail(call, id, v) ==
    /\ vm' = CASE call.why = "open" /\ OpensInEdit -> Edited(v)
               [] call.why = "saved" ->
                    [Shown(v, id) EXCEPT !.mode = "display", !.loading = FALSE, !.error = "none"]
               [] OTHER -> v
    /\ baseline' = IF call.why = "cancel" THEN NoDraft ELSE baseline
    /\ handoff' = IF call.why = "saved" THEN [handoff EXCEPT ![id] = id] ELSE handoff

\* A record handed over is shown at once; otherwise the load is sent, and
\* aborts the one before it. The await of the field selection before it needs
\* no fields (requireNonEmpty = false): it lets no other event in.
BeginDisplay(v, h, id, call) ==
    LET started == [v EXCEPT !.mode = "display", !.error = "none"] IN
    /\ loadSeq' = loadSeq + 1
    /\ IF h[id] # Nothing
       THEN /\ Continue(call, id, [Shown(started, h[id]) EXCEPT !.loading = FALSE],
                        [h EXCEPT ![id] = Nothing])
            /\ UNCHANGED loads
       ELSE /\ vm' = [started EXCEPT !.loading = TRUE]
            /\ loads' = {[l EXCEPT !.aborted = TRUE] : l \in loads}
                        \cup {[seq |-> loadSeq + 1, id |-> id, call |-> call, aborted |-> FALSE]}
            /\ handoff' = h
            /\ UNCHANGED baseline

Finish(v, seq) == IF seq = loadSeq THEN [v EXCEPT !.loading = FALSE] ELSE v

\* Mutant: A load that answers is shown unless it was aborted: its sequence is not compared.
LoadAnswersUnlessAborted(l) ==
    /\ loads' = loads \ {l}
    /\ save' = IF l.call.why = "saved" THEN NoSave ELSE save
    /\ UNCHANGED <<identity, initSeq, loadSeq, defaults, deletion, dialog>>
    /\ \/ /\ l.aborted
          /\ Continue(l.call, l.id, Finish(vm, l.seq), handoff)
          /\ UNCHANGED unread
       \/ /\ ~l.aborted
          /\ unread' = unread \ {l.id}
          /\ \/ Continue(l.call, l.id, Finish(Shown(vm, l.id), l.seq), handoff)
             \/ Continue(l.call, l.id, Finish(Shown(vm, Nothing), l.seq), handoff)

\* The load answers: an aborted or superseded one is swallowed as a
\* cancellation, a current one shows the record, or nothing when it is gone.
LoadAnswers(l) ==
    /\ loads' = loads \ {l}
    /\ save' = IF l.call.why = "saved" THEN NoSave ELSE save
    /\ UNCHANGED <<identity, initSeq, loadSeq, defaults, deletion, dialog>>
    /\ \/ /\ l.aborted \/ l.seq # loadSeq
          /\ Continue(l.call, l.id, Finish(vm, l.seq), handoff)
          /\ UNCHANGED unread
       \/ /\ ~l.aborted /\ l.seq = loadSeq
          /\ unread' = unread \ {l.id}
          /\ \/ Continue(l.call, l.id, Finish(Shown(vm, l.id), l.seq), handoff)
             \/ Continue(l.call, l.id, Finish(Shown(vm, Nothing), l.seq), handoff)

\* Mutant: A load that fails leaves the form locked.
LoadFailsLocked(l) ==
    /\ ~l.aborted
    /\ loads' = loads \ {l}
    /\ save' = IF l.call.why = "saved" THEN NoSave ELSE save
    /\ Fail(l.call, l.id, [vm EXCEPT !.error = "load"])
    /\ unread' = unread \cup {l.id}
    /\ UNCHANGED <<identity, initSeq, loadSeq, defaults, deletion, dialog>>

\* The load fails, superseded or not.
LoadFails(l) ==
    /\ ~l.aborted
    /\ loads' = loads \ {l}
    /\ save' = IF l.call.why = "saved" THEN NoSave ELSE save
    /\ Fail(l.call, l.id, Finish([vm EXCEPT !.error = "load"], l.seq))
    /\ unread' = unread \cup {l.id}
    /\ UNCHANGED <<identity, initSeq, loadSeq, defaults, deletion, dialog>>

---------------------------------------------------------------------------
(* beginCreate: the form opens with the seed, DefaultGet completes it. *)

\* Mutant: beginCreate leaves the spinner of the load it supersedes.
BeginCreateLocked(call) ==
    /\ loadSeq' = loadSeq + 1
    /\ vm' = [vm EXCEPT !.mode = "create", !.original = Nothing, !.draft = DraftOf(New),
                        !.error = "none"]
    /\ defaults' = defaults \cup {[seq |-> loadSeq + 1, call |-> call]}

BeginCreate(call) ==
    /\ loadSeq' = loadSeq + 1
    /\ vm' = [mode |-> "create", original |-> Nothing, draft |-> DraftOf(New),
              loading |-> FALSE, error |-> "none"]
    /\ defaults' = defaults \cup {[seq |-> loadSeq + 1, call |-> call]}

\* Mutant: A DefaultGet that was superseded still fills the draft.
DefaultsAnswerLate(d) ==
    /\ defaults' = defaults \ {d}
    /\ vm' = [vm EXCEPT !.draft = DraftOf(New)]
    /\ baseline' = IF d.call.why = "copy" \/ d.call.init = initSeq THEN vm'.draft ELSE baseline
    /\ UNCHANGED <<identity, initSeq, loadSeq, loads, save, deletion, dialog, handoff, unread>>

\* DefaultGet answers or fails: unless it was superseded, the draft becomes the
\* seed, over the defaults or alone. The caller then takes its baseline: the
\* page for a new identity only if it is still that one, a copy always.
DefaultsAnswer(d) ==
    /\ defaults' = defaults \ {d}
    /\ vm' = IF d.seq = loadSeq THEN [vm EXCEPT !.draft = DraftOf(New)] ELSE vm
    /\ baseline' = IF d.call.why = "copy" \/ d.call.init = initSeq THEN vm'.draft ELSE baseline
    /\ UNCHANGED <<identity, initSeq, loadSeq, loads, save, deletion, dialog, handoff, unread>>

---------------------------------------------------------------------------
(* The identity of the page: its record id, from its props or its route. *)

\* watchFormIdentity and initializeForm: the new identity is loaded, or a
\* creation begins. v and h are the view model and the cache as they are then.
Identify(v, h, to) ==
    /\ identity' = to
    /\ initSeq' = initSeq + 1
    /\ \/ /\ to \in Ids
          /\ BeginDisplay(v, h, to, Call("open", initSeq + 1))
          /\ UNCHANGED defaults
       \/ /\ to = New
          /\ BeginCreate(Call("open", initSeq + 1))
          /\ handoff' = h
          /\ UNCHANGED <<loads, baseline>>

\* The user opens another record: the leave guard asks first when the form is
\* dirty. A dialog of another handler does not hold back the browser.
Navigate(to) ==
    /\ identity # Nothing /\ to # identity /\ MayAsk
    /\ "write" \in Overlaps \/ ~Writing
    /\ "copy" \in Overlaps \/ \A d \in defaults : d.call.why # "copy"
    /\ "cancel" \in Overlaps \/ ~Leaving
    /\ IF Dirty /\ ~Leaving
       THEN /\ dialog.kind \notin {"leave", "cancel", "refresh"}
            /\ dialog' = [kind |-> "leave", to |-> to]
            /\ UNCHANGED <<identity, initSeq, vm, loadSeq, loads, defaults, handoff, baseline>>
       ELSE /\ Identify(vm, handoff, to)
            /\ UNCHANGED dialog
    /\ UNCHANGED <<save, deletion, unread>>

---------------------------------------------------------------------------
(* The buttons of the page. Those of display mode stay enabled during loads. *)

Type ==
    /\ OnPage /\ Editing /\ ~ControlsLocked
    /\ vm.draft.of # Nothing /\ vm.draft.edits < MaxEdits
    /\ "defaults" \in Overlaps \/ \A d \in defaults : d.seq # loadSeq
    /\ vm' = [vm EXCEPT !.draft.edits = @ + 1]
    /\ UNCHANGED <<identity, initSeq, loadSeq, loads, defaults, save,
                   deletion, dialog, handoff, baseline, unread>>

Edit ==
    /\ OnPage /\ vm.mode = "display" /\ identity \in Ids
    /\ "write" \in Overlaps \/ ~Writing
    /\ vm.original # Nothing
    /\ vm' = Edited(vm)
    /\ UNCHANGED <<identity, initSeq, loadSeq, loads, defaults, save,
                   deletion, dialog, handoff, baseline, unread>>

\* handleReset
Reset ==
    /\ OnPage /\ Editing /\ ~ControlsLocked
    /\ vm' = [vm EXCEPT !.draft = DraftOf(vm.original)]
    /\ UNCHANGED <<identity, initSeq, loadSeq, loads, defaults, save,
                   deletion, dialog, handoff, baseline, unread>>

\* handleRefresh once nothing is to be discarded.
Reload ==
    /\ IF identity \in Ids
       THEN BeginDisplay(vm, handoff, identity, Call("refresh", initSeq))
       ELSE UNCHANGED <<vm, loadSeq, loads, handoff, baseline>>
    /\ UNCHANGED <<identity, initSeq, defaults>>

\* The button of display mode, or the host while a record is edited.
Refresh ==
    /\ OnPage /\ vm.mode # "create" /\ MayAsk
    /\ "write" \in Overlaps \/ ~Writing
    /\ "cancel" \in Overlaps \/ vm.mode = "display" \/ ~Leaving
    /\ IF Dirty /\ ~Leaving
       THEN /\ dialog' = [kind |-> "refresh", to |-> Nothing]
            /\ UNCHANGED <<identity, initSeq, vm, loadSeq, loads, defaults, handoff, baseline>>
       ELSE /\ Reload
            /\ UNCHANGED dialog
    /\ UNCHANGED <<save, deletion, unread>>

Copy ==
    /\ OnPage /\ vm.mode = "display" /\ identity \in Ids /\ MayAsk
    /\ "write" \in Overlaps \/ ~Writing
    /\ "copy" \in Overlaps \/ loads = {}
    /\ vm.original # Nothing
    /\ BeginCreate(Call("copy", initSeq))
    /\ UNCHANGED <<identity, initSeq, loads, save, deletion, dialog, handoff, baseline, unread>>

\* handleCancel once nothing is to be discarded: a creation goes back to the
\* page before, or stays where it is if there is none; an edit loads the record
\* again.
Leave ==
    /\ \/ /\ vm.mode = "create"
          /\ identity' \in {identity, Nothing}
          /\ UNCHANGED <<vm, loadSeq, loads, handoff, baseline>>
       \/ /\ vm.mode = "edit"
          /\ IF identity \in Ids
             THEN BeginDisplay(vm, handoff, identity, Call("cancel", initSeq))
             ELSE /\ baseline' = NoDraft
                  /\ UNCHANGED <<vm, loadSeq, loads, handoff>>
          /\ UNCHANGED identity
    /\ UNCHANGED <<initSeq, defaults>>

Cancel ==
    /\ OnPage /\ Editing /\ ~ControlsLocked /\ MayAsk
    /\ "cancel" \in Overlaps \/ ~Leaving
    /\ IF Dirty /\ ~Leaving
       THEN /\ dialog' = [kind |-> "cancel", to |-> Nothing]
            /\ UNCHANGED <<identity, initSeq, vm, loadSeq, loads, defaults, handoff, baseline>>
       ELSE /\ Leave
            /\ UNCHANGED dialog
    /\ UNCHANGED <<save, deletion, unread>>

\* handleDelete takes the id of the record shown and asks.
AskDelete ==
    /\ OnPage /\ vm.mode = "display" /\ identity \in Ids
    /\ vm.original # Nothing /\ deletion = NoDeletion
    /\ dialog' = [kind |-> "delete", to |-> vm.original]
    /\ UNCHANGED <<identity, initSeq, vm, loadSeq, loads, defaults, save,
                   deletion, handoff, baseline, unread>>

\* After the confirmation and before-delete, which may refuse, the controller's
\* remove deletes the record shown now; with none shown it returns at once and
\* the page is left as after a delete.
Remove(asked) ==
    \/ UNCHANGED <<identity, vm, deletion>>
    \/ /\ vm.original # Nothing
       /\ deletion' = [asked |-> asked, target |-> vm.original]
       /\ vm' = [vm EXCEPT !.loading = TRUE, !.error = "none"]
       /\ UNCHANGED identity
    \/ /\ vm.original = Nothing
       /\ vm' = [vm EXCEPT !.loading = FALSE, !.error = "none"]
       /\ identity' = Nothing
       /\ UNCHANGED deletion

\* The dialog is confirmed: leave, cancel, refresh and delete go on with what they
\* asked for, unless before-refresh or before-delete refuses.
Confirm ==
    /\ dialog # NoDialog /\ identity # Nothing
    /\ dialog' = NoDialog
    /\ \/ /\ dialog.kind = "leave"
          /\ Identify(vm, handoff, dialog.to)
          /\ UNCHANGED deletion
       \/ /\ dialog.kind = "cancel"
          /\ Leave
          /\ UNCHANGED deletion
       \/ /\ dialog.kind = "refresh"
          /\ \/ Reload
             \/ UNCHANGED <<identity, initSeq, vm, loadSeq, loads, defaults, handoff, baseline>>
          /\ UNCHANGED deletion
       \/ /\ dialog.kind = "delete"
          /\ "write" \in Overlaps \/ Settled
          /\ Remove(dialog.to)
          /\ UNCHANGED <<initSeq, loadSeq, loads, defaults, handoff, baseline>>
    /\ UNCHANGED <<save, unread>>

Dismiss ==
    /\ dialog # NoDialog
    /\ dialog' = NoDialog
    /\ UNCHANGED <<identity, initSeq, vm, loadSeq, loads, defaults, save,
                   deletion, handoff, baseline, unread>>

---------------------------------------------------------------------------
(* handleSubmit and the controller's submit. *)

HandleSubmit ==
    /\ OnPage /\ Editing /\ ~ControlsLocked
    /\ vm.mode = "create" => identity # Fresh
    /\ "write" \in Overlaps \/ Settled
    /\ save' = [NoSave EXCEPT !.stage = "validating", !.mode = vm.mode]
    /\ UNCHANGED <<identity, initSeq, vm, loadSeq, loads, defaults,
                   deletion, dialog, handoff, baseline, unread>>

\* A field rule or the before-submit handler refuses.
RefuseSubmit ==
    /\ save.stage = "validating"
    /\ save' = NoSave
    /\ UNCHANGED <<identity, initSeq, vm, loadSeq, loads, defaults,
                   deletion, dialog, handoff, baseline, unread>>

\* submit takes the draft and the record it edits as they are now.
Submit ==
    /\ save.stage = "validating"
    /\ \/ /\ vm.mode = "create" \/ vm.original # Nothing
          /\ vm' = [vm EXCEPT !.loading = TRUE, !.error = "none"]
          /\ save' = [save EXCEPT !.stage = "sent", !.draft = vm.draft,
                                  !.kind = IF vm.mode = "create" THEN "create" ELSE "update"]
       \/ /\ vm.mode # "create" /\ vm.original = Nothing
          /\ vm' = [vm EXCEPT !.loading = FALSE, !.error = "save"]
          /\ save' = NoSave
    /\ UNCHANGED <<identity, initSeq, loadSeq, loads, defaults,
                   deletion, dialog, handoff, baseline, unread>>

AwaitsSave == save.stage = "sent" /\ ~\E l \in loads : l.call.why = "saved"

\* The server has written: the form shows what it returned, keeps it for the
\* next page, and moves to the new record's page after a creation.
SaveAnswers ==
    /\ AwaitsSave
    /\ \/ /\ save.kind = "create"
          /\ LET v == [Shown(vm, Fresh) EXCEPT !.loading = FALSE]
                 h == [handoff EXCEPT ![Fresh] = Fresh]
             IN IF save.mode = "create"
                THEN Identify([v EXCEPT !.mode = "display"], h, Fresh)
                ELSE /\ vm' = v /\ handoff' = h
                     /\ UNCHANGED <<identity, initSeq, loadSeq, loads, defaults, baseline>>
          /\ save' = NoSave
       \/ /\ save.kind = "update"
          /\ vm' = [Shown(vm, save.draft.of) EXCEPT !.mode = "display", !.loading = FALSE]
          /\ handoff' = [handoff EXCEPT ![save.draft.of] = save.draft.of]
          /\ save' = NoSave
          /\ UNCHANGED <<identity, initSeq, loadSeq, loads, defaults, baseline>>
       \/ /\ save.kind = "update"     \* an attachment was written: read it back
          /\ loadSeq <= MaxLoads
          /\ BeginDisplay(Shown(vm, save.draft.of), handoff, save.draft.of, Call("saved", initSeq))
          /\ save' = IF loads' = loads THEN NoSave ELSE save
          /\ UNCHANGED <<identity, initSeq, defaults>>
    /\ UNCHANGED <<deletion, dialog, unread>>

SaveFails ==
    /\ AwaitsSave
    /\ save' = NoSave
    /\ vm' = [vm EXCEPT !.loading = FALSE, !.error = "save"]
    /\ UNCHANGED <<identity, initSeq, loadSeq, loads, defaults,
                   deletion, dialog, handoff, baseline, unread>>

\* The answer to the controller's remove: the form is empty, the page is left.
DeleteAnswers ==
    /\ deletion.target # Nothing
    /\ deletion' = NoDeletion
    /\ \/ /\ vm' = [mode |-> "display", original |-> Nothing, draft |-> NoDraft,
                     loading |-> FALSE, error |-> vm.error]
          /\ identity' = Nothing
       \/ /\ vm' = [vm EXCEPT !.loading = FALSE, !.error = "save"]
          /\ UNCHANGED identity
    /\ UNCHANGED <<initSeq, loadSeq, loads, defaults, save, dialog, handoff,
                   baseline, unread>>

---------------------------------------------------------------------------
\* The page has just been mounted: its identity is being loaded, or created.
Init ==
    /\ identity \in Records \cup {New}
    /\ initSeq = 1 /\ loadSeq = 1
    /\ LET call == Call("open", 1) IN
       \/ /\ identity \in Records
          /\ vm = [mode |-> "display", original |-> Nothing, draft |-> NoDraft,
                   loading |-> TRUE, error |-> "none"]
          /\ loads = {[seq |-> 1, id |-> identity, call |-> call, aborted |-> FALSE]}
          /\ defaults = {}
       \/ /\ identity = New
          /\ vm = [mode |-> "create", original |-> Nothing, draft |-> DraftOf(New),
                   loading |-> FALSE, error |-> "none"]
          /\ loads = {}
          /\ defaults = {[seq |-> 1, call |-> call]}
    /\ save = NoSave /\ deletion = NoDeletion /\ dialog = NoDialog
    /\ handoff = [r \in Ids |-> Nothing]
    /\ baseline = NoDraft /\ unread = {}

Loaded == \E l \in loads : LoadAnswers(l) \/ LoadFails(l)
Defaulted == \E d \in defaults : DefaultsAnswer(d)
Saved == Submit \/ RefuseSubmit \/ SaveAnswers \/ SaveFails
User ==
    \/ \E to \in Records \cup {New} : Navigate(to)
    \/ Type \/ Edit \/ Reset \/ Refresh \/ Copy \/ Cancel
    \/ AskDelete \/ Confirm \/ Dismiss \/ HandleSubmit

Next == Loaded \/ Defaulted \/ Saved \/ DeleteAnswers \/ User

Spec == Init /\ [][Next]_vars

\* Every call settles, with an answer or an error; nothing obliges the user.
FairSpec == /\ Spec
            /\ WF_vars(Loaded) /\ WF_vars(Defaulted)
            /\ WF_vars(Saved) /\ WF_vars(DeleteAnswers)

---------------------------------------------------------------------------
\* The variables have their types, and a locked form waits for a call that will
\* unlock it.
TypeOK ==
    /\ identity \in Ids \cup {New, Nothing}
    /\ initSeq \in Nat
    /\ vm \in View
    /\ vm.loading => Writing \/ \E l \in loads : l.seq = loadSeq
    /\ loadSeq \in Nat
    /\ \A l \in loads : l.seq \in 1 .. loadSeq /\ l.id \in Ids /\ l.aborted \in BOOLEAN
    /\ \A d \in defaults : d.seq \in 1 .. loadSeq
    /\ save.stage \in {"none", "validating", "sent"}
    /\ deletion \in [asked : Ids \cup {Nothing}, target : Ids \cup {Nothing}]
    /\ dialog.kind \in {"none", "leave", "cancel", "refresh", "delete"}
    /\ handoff \in [Ids -> Ids \cup {Nothing}]

Quiet == Settled /\ ~Writing

\* Once nothing is under way the form shows the record its page is for, or
\* nothing, whatever loads, copies, hand-overs and saves overlapped before;
\* only a record whose load failed may leave the one before it on the page.
ShownIsCurrent ==
    Quiet /\ identity \in Ids /\ vm.mode # "create" =>
        \/ vm.original \in {identity, Nothing}
        \/ identity \in unread

\* What the user typed leaves the form only with a save of it, a reset, a
\* confirmed dialog, or a confirmed delete that leaves the page; never because
\* an answer came late.
EditsSurvive ==
    [][Editing /\ vm.draft.edits > 0
         /\ ~(/\ vm'.mode \in {"edit", "create"}
               /\ vm'.draft.of = vm.draft.of
               /\ vm'.draft.edits >= vm.draft.edits)
       => \/ save.draft = vm.draft /\ SaveAnswers
          \/ Reset \/ Confirm \/ DeleteAnswers]_vars

\* The form never stays locked behind its spinner.
LoadingEnds == vm.loading ~> ~vm.loading

\* The record deleted is the one the user was asked about.
DeletesTheConfirmed ==
    deletion.target # Nothing => deletion.target = deletion.asked

=============================================================================
