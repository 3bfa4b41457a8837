--------------------------- MODULE FormSessionProofs ---------------------------
(***************************************************************************)
(* Proofs about FormSession, for any records, bounds and view mode.        *)
(*                                                                         *)
(* As long as the user starts nothing during a save or a delete, TypeOK    *)
(* and ShownIsCurrent hold (Inv). If he also waits for copies, defaults    *)
(* and cancelled edits, and the host does not open the form in edit mode,  *)
(* EditsSurvive holds (Kept and Refreshing, with Inv).                     *)
(***************************************************************************)
EXTENDS FormSession, TLAPS

Whys == {"open", "refresh", "cancel", "saved", "copy"}
Callers == [why : Whys, init : Nat]
Drafts == [of : Ids \cup {New, Nothing}, edits : 0 .. MaxEdits]
Load == [seq : Nat, id : Ids, call : Callers, aborted : BOOLEAN]
Default == [seq : Nat, call : Callers]
Saving == [stage : {"none", "validating", "sent"}, mode : Modes \cup {"none"},
           kind : {"none", "create", "update"}, draft : Drafts]
Deleting == [asked : Ids \cup {Nothing}, target : Ids \cup {Nothing}]
Asking == [kind : {"none", "leave", "cancel", "refresh", "delete"}, to : Ids \cup {New, Nothing}]
Cache == [Ids -> Ids \cup {Nothing}]

---------------------------------------------------------------------------
(* The inductive invariant behind TypeOK and ShownIsCurrent. *)

Types ==
    /\ identity \in Ids \cup {New, Nothing}
    /\ initSeq \in Nat /\ loadSeq \in Nat
    /\ vm \in View
    /\ loads \subseteq Load
    /\ defaults \subseteq Default
    /\ save \in Saving
    /\ deletion \in Deleting
    /\ dialog \in Asking
    /\ handoff \in Cache
    /\ baseline \in Drafts

\* What a dialog asks about; discarding edits is never asked during a write.
Asks ==
    /\ dialog.kind = "leave" => dialog.to \in Records \cup {New}
    /\ dialog.kind = "delete" => dialog.to \in Ids
    /\ dialog.kind \in {"leave", "cancel", "refresh"} => ~Writing

\* A delete runs alone, behind the spinner.
Deletes ==
    deletion # NoDeletion =>
        /\ Settled /\ dialog = NoDialog /\ ~Submitting /\ vm.loading

\* So does a save, until its refresh, which is the only load then.
Saves ==
    /\ save.stage = "validating" =>
         /\ Settled /\ dialog = NoDialog /\ ~vm.loading /\ Editing
         /\ save.mode = vm.mode
    /\ save.stage = "sent" =>
         /\ vm.loading /\ defaults = {}
         /\ save.kind # "none"
         /\ \A l \in loads : l.call.why = "saved"
         /\ save.kind = "update" => save.draft.of \in Ids /\ vm.original = save.draft.of
         /\ save.kind = "create" => save.mode = "create" /\ vm.mode = "create"
         /\ loads = {} => dialog = NoDialog /\ Editing /\ vm.draft = save.draft

\* The last load keeps the form locked and reads the record of the page, unless
\* that one could not be read before; the refresh after a save is the last load.
Loading(l) ==
    /\ l.seq \in 1 .. loadSeq
    /\ l.aborted => l.seq # loadSeq
    /\ l.seq = loadSeq =>
         /\ vm.loading /\ vm.mode # "create"
         /\ identity \in Ids => l.id = identity \/ identity \in unread
    /\ l.call.why = "saved" =>
         /\ l.seq = loadSeq /\ save.stage = "sent" /\ save.kind = "update"
         /\ vm.mode = "display" /\ l.id = save.draft.of

Defaulting(d) ==
    /\ d.seq \in 1 .. loadSeq
    /\ d.seq = loadSeq => vm.mode = "create"

Calls ==
    /\ \A l \in loads : Loading(l)
    /\ \A l, k \in loads : l.seq = loadSeq /\ k.seq = loadSeq => l = k
    /\ \A d \in defaults : Defaulting(d)

Locks == vm.loading => Writing \/ \E l \in loads : l.seq = loadSeq

\* The record shown is the one of the page, or it is being loaded.
Shows ==
    /\ vm.mode = "create" => vm.original = Nothing
    /\ vm.original # Nothing => vm.draft.of = vm.original
    /\ identity \in Ids =>
         \/ vm.original \in {identity, Nothing}
         \/ identity \in unread
         \/ \E l \in loads : l.seq = loadSeq

\* A record is kept under its own id.
Keeps(h) == h \in Cache /\ \A id \in Ids : h[id] \in {id, Nothing}

Inv == Types /\ Asks /\ Deletes /\ Saves /\ Calls /\ Locks /\ Shows /\ Keeps(handoff)

---------------------------------------------------------------------------
(* beginDisplay, and what follows it. *)

\* The view model w that a callback leaves of v.
Follows(call, v, w) ==
    /\ w \in View
    /\ w.original = v.original
    /\ w.loading <=> v.loading /\ call.why # "saved"
    /\ \/ w.mode = v.mode /\ w.draft = v.draft
       \/ /\ call.why = "open" /\ OpensInEdit /\ v.original # Nothing
          /\ w.mode = "edit" /\ w.draft = DraftOf(v.original)

LEMMA DraftsOk ==
    ASSUME NEW r \in Ids \cup {New, Nothing}
    PROVE  DraftOf(r) \in Drafts /\ DraftOf(r).of = r /\ DraftOf(r).edits = 0
  BY BoundsAssumption DEF DraftOf, Drafts

LEMMA ViewsOk ==
    ASSUME NEW v \in View
    PROVE  /\ v.original \in Ids \cup {Nothing} /\ v.draft \in Drafts
           /\ v.mode \in Modes /\ v.loading \in BOOLEAN
           /\ v.error \in {"none", "load", "save"}
  BY DEF View, Drafts

\* Edited, Shown and Finish field by field.
LEMMA EditedView ==
    ASSUME NEW v \in View, NEW w, w = Edited(v)
    PROVE  /\ w \in View /\ w.original = v.original /\ w.loading = v.loading
           /\ \/ v.original = Nothing /\ w = v
              \/ v.original # Nothing /\ w.mode = "edit" /\ w.draft = DraftOf(v.original)
  <1>1. DraftOf(v.original) \in Drafts
    BY DraftsOk, ViewsOk
  <1>2. CASE v.original = Nothing
    BY <1>2 DEF Edited
  <1>3. CASE v.original # Nothing
    <2>1. w = [v EXCEPT !.mode = "edit", !.draft = DraftOf(v.original)]
      BY <1>3 DEF Edited
    <2> QED BY <1>1, <1>3, <2>1 DEF View, Modes, Drafts
  <1> QED BY <1>2, <1>3

LEMMA ShownView ==
    ASSUME NEW v \in View, NEW r \in Ids \cup {Nothing}, NEW w, w = Shown(v, r)
    PROVE  /\ w \in View /\ w.original = r /\ w.draft = DraftOf(r)
           /\ w.mode = v.mode /\ w.loading = v.loading /\ w.error = v.error
  <1>1. DraftOf(r) \in Drafts
    BY DraftsOk
  <1>2. w = [v EXCEPT !.original = r, !.draft = DraftOf(r)]
    BY DEF Shown
  <1> QED BY <1>1, <1>2 DEF View, Drafts

LEMMA FinishedView ==
    ASSUME NEW v \in View, NEW seq, NEW w, w = Finish(v, seq)
    PROVE  /\ w \in View /\ w.original = v.original /\ w.draft = v.draft
           /\ w.mode = v.mode /\ w.error = v.error
           /\ w.loading <=> v.loading /\ seq # loadSeq
  BY DEF View, Finish

\* Continue: the view model, the baseline and the cache.
LEMMA Continued ==
    ASSUME NEW call \in Callers, NEW id \in Ids, NEW v \in View, NEW h, Keeps(h),
           baseline \in Drafts,
           call.why = "saved" => v.original \in {id, Nothing},
           Continue(call, id, v, h)
    PROVE  /\ Follows(call, v, vm')
           /\ baseline' \in Drafts
           /\ Keeps(handoff')
           /\ baseline' = IF call.why = "cancel" \/ (call.why = "open" /\ call.init = initSeq')
                          THEN NoDraft ELSE baseline
  <1>1. vm' = CASE call.why = "open" /\ OpensInEdit -> Edited(v)
                [] call.why = "saved" -> [v EXCEPT !.loading = FALSE]
                [] OTHER -> v
    BY DEF Continue
  <1>2. Follows(call, v, vm')
    <2>1. CASE call.why = "open" /\ OpensInEdit
      <3>1. vm' = Edited(v)
        BY <1>1, <2>1
      <3> QED BY <2>1, <3>1, EditedView DEF Follows
    <2>2. CASE call.why = "saved"
      <3>1. vm' = [v EXCEPT !.loading = FALSE]
        BY <1>1, <2>2
      <3> QED BY <2>2, <3>1 DEF Follows, View
    <2>3. CASE ~(call.why = "open" /\ OpensInEdit) /\ call.why # "saved"
      <3>1. vm' = v
        BY <1>1, <2>3
      <3> QED BY <2>3, <3>1, ViewsOk DEF Follows
    <2> QED BY <2>1, <2>2, <2>3
  <1>3. NoDraft \in Drafts
    BY DraftsOk DEF NoDraft
  <1>4. Keeps(handoff')
    BY DEF Continue, Keeps, Cache
  <1> QED BY <1>2, <1>3, <1>4 DEF Continue

\* beginDisplay(id): the record handed over is shown, or its load is the last one.
Handed(id, call) ==
    /\ UNCHANGED loads
    /\ vm'.original = id /\ vm'.draft.of = id /\ ~vm'.loading
    /\ \/ vm'.mode = "display"
       \/ call.why = "open" /\ OpensInEdit /\ vm'.mode = "edit"

Sent(v, id, call) ==
    /\ vm'.original = v.original /\ vm'.draft = v.draft
    /\ vm'.loading /\ vm'.mode = "display"
    /\ \E n \in Load :
         /\ n.seq = loadSeq + 1 /\ n.id = id /\ n.call = call /\ ~n.aborted
         /\ loads' = {[l EXCEPT !.aborted = TRUE] : l \in loads} \cup {n}
    /\ UNCHANGED baseline

Displays(v, id, call) ==
    /\ loadSeq' = loadSeq + 1
    /\ vm' \in View /\ baseline' \in Drafts /\ Keeps(handoff')
    /\ Handed(id, call) \/ Sent(v, id, call)

LEMMA Displayed ==
    ASSUME NEW v \in View, NEW h, Keeps(h), NEW id \in Ids, NEW call \in Callers,
           baseline \in Drafts, loadSeq \in Nat,
           BeginDisplay(v, h, id, call)
    PROVE  Displays(v, id, call)
  <1> DEFINE started == [v EXCEPT !.mode = "display", !.error = "none"]
  <1>1. loadSeq' = loadSeq + 1
    BY DEF BeginDisplay
  <1>2. /\ started \in View /\ started.original = v.original /\ started.draft = v.draft
        /\ started.mode = "display"
    BY DEF View, Modes
  <1> HIDE DEF started
  <1>3. CASE h[id] # Nothing
    <2> DEFINE handed == Shown(started, h[id])
               w == [handed EXCEPT !.loading = FALSE]
               g == [h EXCEPT ![id] = Nothing]
    <2>1. h[id] = id
      BY <1>3 DEF Keeps
    <2>2. /\ handed \in View /\ handed.original = id /\ handed.draft = DraftOf(id)
          /\ handed.mode = "display"
      BY <1>2, <2>1, ShownView
    <2>3. /\ w \in View /\ w.original = id /\ w.draft = DraftOf(id) /\ ~w.loading
          /\ w.mode = "display"
      BY <2>2 DEF View
    <2>4. Keeps(g)
      BY DEF Keeps, Cache
    <2>5. Continue(call, id, w, g) /\ UNCHANGED loads
      BY <1>3 DEF BeginDisplay, started
    <2> HIDE DEF w, g
    <2>6. Follows(call, w, vm') /\ baseline' \in Drafts /\ Keeps(handoff')
      BY <2>3, <2>4, <2>5, Continued
    <2>7. DraftOf(id).of = id
      BY DraftsOk
    <2>8. /\ vm'.original = id /\ ~vm'.loading
          /\ \/ vm'.mode = "display" /\ vm'.draft = DraftOf(id)
             \/ /\ call.why = "open" /\ OpensInEdit
                /\ vm'.mode = "edit" /\ vm'.draft = DraftOf(id)
      BY <2>3, <2>6 DEF Follows
    <2>9. UNCHANGED loads /\ vm'.draft.of = id
      BY <2>5, <2>7, <2>8
    <2>10. Handed(id, call)
      BY <2>8, <2>9 DEF Handed
    <2> QED BY <1>1, <2>6, <2>10 DEF Displays, Follows
  <1>4. CASE h[id] = Nothing
    <2> DEFINE n == [seq |-> loadSeq + 1, id |-> id, call |-> call, aborted |-> FALSE]
    <2>1. /\ vm' = [started EXCEPT !.loading = TRUE]
          /\ loads' = {[l EXCEPT !.aborted = TRUE] : l \in loads} \cup {n}
          /\ handoff' = h
          /\ UNCHANGED baseline
      BY <1>4 DEF BeginDisplay, started
    <2>2. n \in Load
      BY DEF Load
    <2>3. /\ vm' \in View /\ vm'.original = v.original /\ vm'.draft = v.draft
          /\ vm'.loading /\ vm'.mode = "display"
      BY <1>2, <2>1 DEF View
    <2>4. \E m \in Load :
            /\ m.seq = loadSeq + 1 /\ m.id = id /\ m.call = call /\ ~m.aborted
            /\ loads' = {[l EXCEPT !.aborted = TRUE] : l \in loads} \cup {m}
      BY <2>1, <2>2
    <2>5. Sent(v, id, call)
      BY <2>1, <2>3, <2>4 DEF Sent
    <2> QED BY <1>1, <2>1, <2>3, <2>5 DEF Displays
  <1> QED BY <1>3, <1>4

LEMMA NonesOk == NoSave \in Saving /\ NoDeletion \in Deleting /\ NoDialog \in Asking
  <1>1. NoDraft \in Drafts
    BY DraftsOk DEF NoDraft
  <1> QED BY <1>1 DEF NoSave, Saving, NoDeletion, Deleting, NoDialog, Asking

LEMMA NotWriting ==
    /\ ~Writing <=> save.stage = "none" /\ deletion = NoDeletion
    /\ NoSave.stage = "none"
  BY DEF Writing, Submitting, NoSave

\* The loads under way after beginDisplay: the one it sent, and those before it.
LEMMA DisplayedLoads ==
    ASSUME loads \subseteq Load, loadSeq \in Nat, \A l \in loads : l.seq \in 1 .. loadSeq,
           NEW v \in View, NEW id \in Ids, NEW call \in Callers, Displays(v, id, call)
    PROVE  /\ loads' \subseteq Load
           /\ vm'.loading => \E n \in loads' : n.seq = loadSeq'
           /\ \A l, k \in loads' : l.seq = loadSeq' /\ k.seq = loadSeq' => l = k
           /\ \A l \in loads' :
                \/ /\ l.seq = loadSeq' /\ l.id = id /\ l.call = call /\ ~l.aborted
                   /\ vm'.loading /\ vm'.mode = "display"
                \/ /\ l.seq \in 1 .. loadSeq
                   /\ \E k \in loads : l.seq = k.seq /\ l.call = k.call
  <1>1. CASE Handed(id, call)
    BY <1>1 DEF Handed, Displays
  <1>2. CASE Sent(v, id, call)
    <2>1. PICK n \in Load :
            /\ n.seq = loadSeq + 1 /\ n.id = id /\ n.call = call /\ ~n.aborted
            /\ loads' = {[l EXCEPT !.aborted = TRUE] : l \in loads} \cup {n}
      BY <1>2 DEF Sent
    <2>2. loadSeq' = loadSeq + 1 /\ vm'.loading /\ vm'.mode = "display"
      BY <1>2 DEF Sent, Displays
    <2>3. ASSUME NEW k \in loads, NEW l, l = [k EXCEPT !.aborted = TRUE]
          PROVE  l \in Load /\ l.seq = k.seq /\ l.call = k.call
      BY <2>3 DEF Load
    <2>4. loads' \subseteq Load
      BY <2>1, <2>3
    <2>5. \E m \in loads' : m.seq = loadSeq'
      BY <2>1, <2>2
    <2>6. ASSUME NEW l \in loads', l # n
          PROVE  l.seq \in 1 .. loadSeq /\ \E k \in loads : l.seq = k.seq /\ l.call = k.call
      BY <2>1, <2>3, <2>6
    <2>7. \A l, k \in loads' : l.seq = loadSeq' /\ k.seq = loadSeq' => l = k
      BY <2>2, <2>6
    <2> QED BY <2>1, <2>2, <2>4, <2>5, <2>6, <2>7
  <1> QED BY <1>1, <1>2 DEF Displays

\* What a page may be left with when it turns to another record: no write, no
\* refresh after one, and no other question.
Turns ==
    /\ save' \in Saving /\ deletion' \in Deleting /\ ~Writing'
    /\ dialog' \in {dialog, NoDialog}
    /\ \A l \in loads : l.call.why # "saved"
    /\ initSeq' \in Nat
    /\ UNCHANGED unread

LEMMA Opened ==
    ASSUME Inv, Turns, UNCHANGED defaults,
           NEW v \in View, v.original # Nothing => v.draft.of = v.original,
           NEW id \in Ids, NEW call \in Callers, call.why # "saved", identity' = id,
           Displays(v, id, call)
    PROVE  Inv'
  <1>1. ~Writing' /\ save'.stage = "none" /\ deletion' = NoDeletion
    BY DEF Turns, Writing, Submitting
  <1>2. /\ loads \subseteq Load /\ loadSeq \in Nat /\ loadSeq' = loadSeq + 1
        /\ \A l \in loads : l.seq \in 1 .. loadSeq
    BY DEF Inv, Types, Calls, Loading, Displays
  <1>3. /\ loads' \subseteq Load
        /\ vm'.loading => \E n \in loads' : n.seq = loadSeq'
        /\ \A l, k \in loads' : l.seq = loadSeq' /\ k.seq = loadSeq' => l = k
        /\ \A l \in loads' :
             \/ /\ l.seq = loadSeq' /\ l.id = id /\ l.call = call /\ ~l.aborted
                /\ vm'.loading /\ vm'.mode = "display"
             \/ /\ l.seq \in 1 .. loadSeq
                /\ \E k \in loads : l.seq = k.seq /\ l.call = k.call
    BY <1>2, DisplayedLoads
  <1>4. Types'
    <2>1. dialog' \in Asking
      BY NonesOk DEF Inv, Types, Turns
    <2> QED BY <1>2, <1>3, <2>1 DEF Inv, Types, Turns, Displays, Keeps
  <1>5. Asks'
    BY <1>1 DEF Inv, Asks, Turns, NoDialog
  <1>6. Deletes' /\ Saves'
    BY <1>1 DEF Deletes, Saves
  <1>7. Calls'
    <2>1. ASSUME NEW l \in loads' PROVE Loading(l)'
      <3>1. l.call.why # "saved"
        BY <1>3 DEF Turns
      <3>2. CASE l.seq = loadSeq'
        BY <1>2, <1>3, <3>1, <3>2 DEF Loading
      <3>3. CASE l.seq \in 1 .. loadSeq
        BY <1>2, <3>1, <3>3 DEF Loading
      <3> QED BY <1>3, <3>2, <3>3
    <2>2. ASSUME NEW d \in defaults' PROVE Defaulting(d)'
      BY <1>2 DEF Inv, Calls, Defaulting
    <2> QED BY <1>3, <2>1, <2>2 DEF Calls
  <1>8. Locks'
    BY <1>3 DEF Locks
  <1>9. Shows'
    <2>1. vm'.mode # "create"
      BY DEF Displays, Handed, Sent
    <2>2. CASE Handed(id, call)
      BY <2>1, <2>2 DEF Shows, Handed
    <2>3. CASE Sent(v, id, call)
      <3>1. \E n \in loads' : n.seq = loadSeq'
        BY <1>3, <2>3 DEF Sent
      <3> QED BY <2>1, <2>3, <3>1 DEF Shows, Sent
    <2> QED BY <2>2, <2>3 DEF Displays
  <1>10. Keeps(handoff')
    BY DEF Displays
  <1> QED BY <1>4, <1>5, <1>6, <1>7, <1>8, <1>9, <1>10 DEF Inv, Keeps

LEMMA Created ==
    ASSUME Inv, Turns, UNCHANGED loads,
           NEW call \in Callers, BeginCreate(call),
           identity' \in Ids \cup {New}, baseline' \in Drafts, Keeps(handoff')
    PROVE  Inv'
  <1>1. ~Writing' /\ save'.stage = "none" /\ deletion' = NoDeletion
    BY DEF Turns, Writing, Submitting
  <1>2. /\ loadSeq \in Nat /\ loadSeq' = loadSeq + 1
        /\ \A l \in loads : l.seq \in 1 .. loadSeq
        /\ \A d \in defaults : d.seq \in 1 .. loadSeq
    BY DEF Inv, Types, Calls, Loading, Defaulting, BeginCreate
  <1>3. DraftOf(New) \in Drafts
    BY DraftsOk
  <1>4. /\ vm'.mode = "create" /\ vm'.original = Nothing /\ ~vm'.loading
        /\ vm' \in View
    BY <1>3 DEF BeginCreate, View, Modes, Drafts
  <1>5. /\ defaults' \subseteq Default
        /\ \A d \in defaults' : d.seq \in 1 .. loadSeq'
    <2>1. defaults' = defaults \cup {[seq |-> loadSeq + 1, call |-> call]}
      BY DEF BeginCreate
    <2>2. [seq |-> loadSeq + 1, call |-> call] \in Default
      BY <1>2 DEF Default
    <2> QED BY <1>2, <2>1, <2>2 DEF Inv, Types
  <1>6. Types'
    <2>1. dialog' \in Asking
      BY NonesOk DEF Inv, Types, Turns
    <2> QED BY <1>2, <1>4, <1>5, <2>1 DEF Inv, Types, Turns, Keeps
  <1>7. Asks'
    BY <1>1 DEF Inv, Asks, Turns, NoDialog
  <1>8. Deletes' /\ Saves'
    BY <1>1 DEF Deletes, Saves
  <1>9. Calls'
    <2>1. ASSUME NEW l \in loads' PROVE Loading(l)'
      BY <1>2 DEF Loading, Turns
    <2>2. ASSUME NEW d \in defaults' PROVE Defaulting(d)'
      BY <1>4, <1>5 DEF Defaulting
    <2> QED BY <1>2, <2>1, <2>2 DEF Calls
  <1>10. Locks' /\ Shows'
    BY <1>4 DEF Locks, Shows
  <1> QED BY <1>6, <1>7, <1>8, <1>9, <1>10 DEF Inv, Keeps

LEMMA Identified ==
    ASSUME Inv, Turns,
           NEW v \in View, v.original # Nothing => v.draft.of = v.original,
           NEW h, Keeps(h), NEW to, Identify(v, h, to)
    PROVE  Inv'
  <1>1. initSeq \in Nat /\ loadSeq \in Nat /\ baseline \in Drafts /\ identity' = to
    BY DEF Inv, Types, Identify
  <1> DEFINE call == Call("open", initSeq + 1)
  <1>2. call \in Callers /\ call.why = "open"
    BY <1>1 DEF Call, Callers, Whys
  <1> HIDE DEF call
  <1>3. CASE to \in Ids /\ BeginDisplay(v, h, to, call) /\ UNCHANGED defaults
    <2>1. Displays(v, to, call)
      BY <1>1, <1>2, <1>3, Displayed
    <2> QED BY <1>1, <1>2, <1>3, <2>1, Opened
  <1>4. CASE to = New /\ BeginCreate(call) /\ handoff' = h /\ UNCHANGED <<loads, baseline>>
    BY <1>1, <1>2, <1>4, Created
  <1> QED BY <1>3, <1>4 DEF Identify, call

---------------------------------------------------------------------------
(* Each step keeps the invariant: the calls that answer. *)

LEMMA FormerLoad ==
    ASSUME Inv, NEW l \in loads
    PROVE  /\ Loading(l) /\ l \in Load
           /\ deletion = NoDeletion
           /\ save.stage = "none" \/ (save.stage = "sent" /\ l.call.why = "saved")
  BY DEF Inv, Types, Calls, Deletes, Saves, Settled, Saving

LEMMA NoRefresh ==
    ASSUME Inv, ~Writing, NEW l \in loads
    PROVE  l.call.why # "saved"
  BY DEF Inv, Calls, Loading, Writing, Submitting

\* A load is over: the current one unlocks the form, another changes nothing.
LEMMA LoadOver ==
    ASSUME Inv, NEW l \in loads, loads' = loads \ {l},
           save' = IF l.call.why = "saved" THEN NoSave ELSE save,
           UNCHANGED <<identity, initSeq, loadSeq, defaults, deletion, dialog>>,
           vm' \in View, baseline' \in Drafts, Keeps(handoff'),
           vm'.mode = "create" <=> vm.mode = "create",
           vm'.mode = "create" => vm'.original = Nothing,
           vm'.original # Nothing => vm'.draft.of = vm'.original,
           l.seq = loadSeq =>
             /\ ~vm'.loading
             /\ identity \in Ids => vm'.original \in {identity, Nothing} \/ identity \in unread',
           l.seq # loadSeq =>
             /\ vm'.loading = vm.loading
             /\ identity \in unread => identity \in unread'
             /\ vm'.original = vm.original
    PROVE  Inv'
  <1>1. /\ Loading(l) /\ deletion = NoDeletion
        /\ save.stage = "none" \/ (save.stage = "sent" /\ l.call.why = "saved")
    BY FormerLoad
  <1>2. ~Writing' /\ save'.stage = "none" /\ deletion' = NoDeletion
    BY <1>1, NotWriting DEF Writing, Submitting
  <1>3. Types'
    <2>1. save' \in Saving
      BY NonesOk DEF Inv, Types
    <2> QED BY <2>1 DEF Inv, Types, Keeps
  <1>4. Asks'
    BY <1>2 DEF Inv, Asks
  <1>5. Deletes' /\ Saves'
    BY <1>2 DEF Deletes, Saves
  <1>6. ASSUME NEW k \in loads'
        PROVE  /\ k \in loads /\ k # l /\ Loading(k) /\ k.call.why # "saved"
               /\ k.seq = loadSeq => l.seq # loadSeq
    <2>1. k \in loads /\ k # l /\ Loading(k)
      BY DEF Inv, Calls
    <2>2. k.seq = loadSeq => l.seq # loadSeq
      BY <2>1 DEF Inv, Calls
    <2>3. k.call.why # "saved"
      BY <1>1, <2>1, <2>2 DEF Loading
    <2> QED BY <2>1, <2>2, <2>3
  <1>7. Calls'
    <2>1. ASSUME NEW k \in loads' PROVE Loading(k)'
      <3>1. /\ k.seq \in 1 .. loadSeq
            /\ k.aborted => k.seq # loadSeq
            /\ k.seq = loadSeq =>
                 /\ vm.loading /\ vm.mode # "create"
                 /\ identity \in Ids => k.id = identity \/ identity \in unread
        BY <1>6 DEF Loading
      <3>2. k.seq = loadSeq => l.seq # loadSeq
        BY <1>6
      <3> QED BY <1>6, <3>1, <3>2 DEF Loading
    <2>2. ASSUME NEW d \in defaults' PROVE Defaulting(d)'
      BY DEF Inv, Calls, Defaulting
    <2>3. \A i, k \in loads' : i.seq = loadSeq' /\ k.seq = loadSeq' => i = k
      BY DEF Inv, Calls
    <2> QED BY <2>1, <2>2, <2>3 DEF Calls
  <1>8. ASSUME l.seq # loadSeq, NEW k \in loads, k.seq = loadSeq
        PROVE  \E i \in loads' : i.seq = loadSeq'
    BY <1>8
  <1>9. Locks'
    <2>1. SUFFICES ASSUME vm'.loading PROVE \E k \in loads' : k.seq = loadSeq'
      BY DEF Locks
    <2>2. l.seq # loadSeq /\ vm.loading /\ ~Writing
      BY <1>1, <2>1, NotWriting DEF Loading
    <2> QED BY <1>8, <2>2 DEF Inv, Locks
  <1>10. Shows'
    <2>1. vm'.mode = "create" => vm'.original = Nothing
      OBVIOUS
    <2>2. ASSUME identity' \in Ids
          PROVE  \/ vm'.original \in {identity', Nothing}
                 \/ identity' \in unread'
                 \/ \E k \in loads' : k.seq = loadSeq'
      <3>1. CASE l.seq = loadSeq
        BY <2>2, <3>1
      <3>2. CASE l.seq # loadSeq
        BY <1>8, <2>2, <3>2 DEF Inv, Shows
      <3> QED BY <3>1, <3>2
    <2> QED BY <2>1, <2>2 DEF Shows
  <1> QED BY <1>3, <1>4, <1>5, <1>7, <1>9, <1>10 DEF Inv, Keeps

LEMMA LoadAnswersStep ==
    ASSUME Inv, NEW l \in loads, LoadAnswers(l)
    PROVE  Inv'
  <1>1. /\ loads' = loads \ {l}
        /\ save' = IF l.call.why = "saved" THEN NoSave ELSE save
        /\ UNCHANGED <<identity, initSeq, loadSeq, defaults, deletion, dialog>>
    BY DEF LoadAnswers
  <1>2. /\ Loading(l) /\ l.call \in Callers /\ l.id \in Ids
        /\ vm \in View /\ baseline \in Drafts /\ Keeps(handoff)
    BY FormerLoad DEF Inv, Types, Load
  <1>3. /\ vm.mode = "create" => vm.original = Nothing
        /\ vm.original # Nothing => vm.draft.of = vm.original
    BY DEF Inv, Shows
  <1>4. CASE /\ l.seq # loadSeq
             /\ Continue(l.call, l.id, Finish(vm, l.seq), handoff)
             /\ UNCHANGED unread
    <2> DEFINE v == Finish(vm, l.seq)
    <2>1. /\ v \in View /\ v.original = vm.original /\ v.draft = vm.draft
          /\ v.mode = vm.mode /\ (v.loading <=> vm.loading)
      BY <1>2, <1>4, FinishedView
    <2> HIDE DEF v
    <2>2. l.call.why # "saved"
      BY <1>2, <1>4 DEF Loading
    <2>3. Follows(l.call, v, vm') /\ baseline' \in Drafts /\ Keeps(handoff')
      BY <1>2, <1>4, <2>1, <2>2, Continued DEF v
    <2>4. /\ vm' \in View /\ vm'.original = vm.original /\ vm'.loading = vm.loading
          /\ vm'.mode = "create" <=> vm.mode = "create"
          /\ vm'.original # Nothing => vm'.draft.of = vm'.original
      <3>1. vm' \in View /\ vm'.original = vm.original /\ (vm'.loading <=> vm.loading)
        BY <2>1, <2>2, <2>3 DEF Follows
      <3>2. vm'.loading = vm.loading
        BY <1>2, <3>1, ViewsOk
      <3>3. \/ vm'.mode = vm.mode /\ vm'.draft = vm.draft
            \/ /\ vm.original # Nothing
               /\ vm'.mode = "edit" /\ vm'.draft = DraftOf(vm.original)
        BY <2>1, <2>3 DEF Follows
      <3>4. DraftOf(vm.original).of = vm.original
        BY <1>2, ViewsOk, DraftsOk
      <3> QED BY <1>3, <3>1, <3>2, <3>3, <3>4
    <2> QED BY <1>1, <1>2, <1>3, <1>4, <2>3, <2>4, LoadOver
  <1>5. ASSUME l.seq = loadSeq, unread' = unread \ {l.id},
               NEW r \in {l.id, Nothing},
               Continue(l.call, l.id, Finish(Shown(vm, r), l.seq), handoff)
        PROVE  Inv'
    <2> DEFINE u == Shown(vm, r)
               v == Finish(u, l.seq)
    <2>1. /\ u \in View /\ u.original = r /\ u.draft = DraftOf(r)
          /\ u.mode = vm.mode
      BY <1>2, <1>5, ShownView
    <2> HIDE DEF u
    <2>2. /\ v \in View /\ v.original = r /\ v.draft = DraftOf(r)
          /\ v.mode = vm.mode /\ ~v.loading
      BY <1>5, <2>1, FinishedView
    <2> HIDE DEF v
    <2>3. Follows(l.call, v, vm') /\ baseline' \in Drafts /\ Keeps(handoff')
      BY <1>2, <1>5, <2>2, Continued DEF u, v
    <2>4. vm.mode # "create" /\ (identity \in Ids => l.id = identity \/ identity \in unread)
      BY <1>2, <1>5 DEF Loading
    <2>5. DraftOf(r).of = r
      BY <1>2, DraftsOk
    <2>6. /\ vm' \in View /\ vm'.original = r /\ ~vm'.loading
          /\ vm'.mode # "create" /\ vm'.draft.of = r
      BY <2>2, <2>3, <2>4, <2>5 DEF Follows
    <2>7. identity \in Ids => vm'.original \in {identity, Nothing} \/ identity \in unread'
      BY <1>5, <2>4, <2>6
    <2> QED BY <1>1, <1>5, <2>3, <2>4, <2>6, <2>7, LoadOver
  <1>6. CASE /\ ~l.aborted /\ l.seq = loadSeq
             /\ unread' = unread \ {l.id}
             /\ \/ Continue(l.call, l.id, Finish(Shown(vm, l.id), l.seq), handoff)
                \/ Continue(l.call, l.id, Finish(Shown(vm, Nothing), l.seq), handoff)
    BY <1>5, <1>6
  <1>7. l.aborted => l.seq # loadSeq
    BY <1>2 DEF Loading
  <1> QED BY <1>4, <1>6, <1>7 DEF LoadAnswers

LEMMA LoadFailsStep ==
    ASSUME Inv, NEW l \in loads, LoadFails(l)
    PROVE  Inv'
  <1>1. /\ loads' = loads \ {l}
        /\ save' = IF l.call.why = "saved" THEN NoSave ELSE save
        /\ unread' = unread \cup {l.id}
        /\ UNCHANGED <<identity, initSeq, loadSeq, defaults, deletion, dialog>>
    BY DEF LoadFails
  <1>2. /\ Loading(l) /\ l.call \in Callers /\ l.id \in Ids
        /\ vm \in View /\ baseline \in Drafts /\ Keeps(handoff)
    BY FormerLoad DEF Inv, Types, Load
  <1>3. /\ vm.mode = "create" => vm.original = Nothing
        /\ vm.original # Nothing => vm.draft.of = vm.original
        /\ identity \in Ids =>
             \/ vm.original \in {identity, Nothing}
             \/ identity \in unread
             \/ \E k \in loads : k.seq = loadSeq
    BY DEF Inv, Shows
  <1> DEFINE u == [vm EXCEPT !.error = "load"]
             v == Finish(u, l.seq)
  <1>4. /\ u \in View /\ u.original = vm.original /\ u.draft = vm.draft
        /\ u.mode = vm.mode /\ u.loading = vm.loading
    BY <1>2 DEF View
  <1> HIDE DEF u
  <1>5. /\ v \in View /\ v.original = vm.original /\ v.draft = vm.draft
        /\ v.mode = vm.mode /\ (v.loading <=> vm.loading /\ l.seq # loadSeq)
    BY <1>4, FinishedView
  <1>6. Fail(l.call, l.id, v)
    BY DEF LoadFails, u
  <1> HIDE DEF v
  <1>7. NoDraft \in Drafts
    BY DraftsOk DEF NoDraft
  <1>8. baseline' \in Drafts /\ Keeps(handoff')
    BY <1>2, <1>6, <1>7 DEF Fail, Keeps, Cache
  <1>9. l.seq = loadSeq /\ identity \in Ids => identity \in unread'
    BY <1>1, <1>2 DEF Loading
  <1>10. CASE l.call.why = "saved"
    <2>1. vm' = [Shown(v, l.id) EXCEPT !.mode = "display", !.loading = FALSE, !.error = "none"]
      BY <1>6, <1>10 DEF Fail
    <2> DEFINE w == Shown(v, l.id)
    <2>2. w \in View /\ w.original = l.id /\ w.draft = DraftOf(l.id)
      BY <1>2, <1>5, ShownView
    <2> HIDE DEF w
    <2>3. /\ vm' \in View /\ vm'.original = l.id /\ vm'.draft = DraftOf(l.id)
          /\ vm'.mode = "display" /\ ~vm'.loading
      BY <2>1, <2>2 DEF View, Modes, w
    <2>4. DraftOf(l.id).of = l.id
      BY <1>2, DraftsOk
    <2>5. l.seq = loadSeq /\ vm.mode = "display"
      BY <1>2, <1>10 DEF Loading
    <2>6. vm'.draft.of = vm'.original
      BY <2>3, <2>4
    <2> QED BY <1>1, <1>8, <1>9, <2>3, <2>5, <2>6, LoadOver
  <1>11. CASE l.call.why # "saved"
    <2>1. vm' = IF l.call.why = "open" /\ OpensInEdit THEN Edited(v) ELSE v
      BY <1>6, <1>11 DEF Fail
    <2>2. /\ vm' \in View /\ vm'.original = vm.original /\ vm'.loading = v.loading
          /\ \/ vm'.mode = vm.mode /\ vm'.draft = vm.draft
             \/ /\ vm.original # Nothing
                /\ vm'.mode = "edit" /\ vm'.draft = DraftOf(vm.original)
      <3>1. CASE l.call.why = "open" /\ OpensInEdit
        BY <1>5, <2>1, <3>1, EditedView
      <3>2. CASE ~(l.call.why = "open" /\ OpensInEdit)
        BY <1>5, <2>1, <3>2
      <3> QED BY <3>1, <3>2
    <2>3. DraftOf(vm.original).of = vm.original
      BY <1>2, ViewsOk, DraftsOk
    <2>4. /\ vm'.mode = "create" <=> vm.mode = "create"
          /\ vm'.mode = "create" => vm'.original = Nothing
          /\ vm'.original # Nothing => vm'.draft.of = vm'.original
      BY <1>3, <2>2, <2>3
    <2>5. l.seq = loadSeq => ~vm'.loading
      BY <1>5, <2>2
    <2>6. l.seq # loadSeq => vm'.loading = vm.loading
      BY <1>2, <1>5, <2>2, ViewsOk
    <2> QED BY <1>1, <1>8, <1>9, <2>2, <2>4, <2>5, <2>6, LoadOver
  <1> QED BY <1>10, <1>11

\* What a handler changes when nothing is being written, loaded or asked for anew:
\* the view model, still about the same record.
LEMMA Retouched ==
    ASSUME Inv, ~Writing, ~Writing',
           UNCHANGED <<identity, loadSeq, loads, dialog, handoff, unread>>,
           initSeq' \in Nat, save' \in Saving, deletion' \in Deleting, baseline' \in Drafts,
           defaults' \subseteq defaults,
           vm' \in View, vm'.loading = vm.loading, vm'.original = vm.original,
           vm'.mode = "create" <=> vm.mode = "create",
           vm'.original # Nothing => vm'.draft.of = vm'.original
    PROVE  Inv'
  <1>1. /\ save.stage = "none" /\ deletion = NoDeletion
        /\ save'.stage = "none" /\ deletion' = NoDeletion
    BY DEF Writing, Submitting
  <1>2. Types'
    BY DEF Inv, Types
  <1>3. Asks' /\ Deletes' /\ Saves'
    BY <1>1 DEF Inv, Asks, Deletes, Saves
  <1>4. Calls'
    <2>1. ASSUME NEW l \in loads' PROVE Loading(l)'
      <3>1. Loading(l) /\ l.call.why # "saved"
        BY NoRefresh DEF Inv, Calls
      <3> QED BY <3>1 DEF Loading
    <2>2. ASSUME NEW d \in defaults' PROVE Defaulting(d)'
      BY DEF Inv, Calls, Defaulting
    <2> QED BY <2>1, <2>2 DEF Inv, Calls
  <1>5. Locks'
    BY DEF Inv, Locks
  <1>6. Shows'
    BY DEF Inv, Shows
  <1> QED BY <1>2, <1>3, <1>4, <1>5, <1>6 DEF Inv, Keeps

LEMMA DefaultsAnswerStep ==
    ASSUME Inv, NEW d \in defaults, DefaultsAnswer(d)
    PROVE  Inv'
  <1>1. /\ defaults' = defaults \ {d}
        /\ vm' = IF d.seq = loadSeq THEN [vm EXCEPT !.draft = DraftOf(New)] ELSE vm
        /\ baseline' = vm'.draft \/ baseline' = baseline
        /\ UNCHANGED <<identity, initSeq, loadSeq, loads, save, deletion, dialog, handoff, unread>>
    BY DEF DefaultsAnswer
  <1>2. /\ vm \in View /\ Defaulting(d)
        /\ vm.mode = "create" => vm.original = Nothing
        /\ vm.original # Nothing => vm.draft.of = vm.original
    BY DEF Inv, Types, Calls, Shows
  <1>3. ~Writing
    <2>1. deletion = NoDeletion /\ save.stage \notin {"validating", "sent"}
      BY DEF Inv, Deletes, Saves, Settled
    <2> QED BY <2>1 DEF Inv, Types, Saving, Writing, Submitting
  <1>4. ~Writing'
    BY <1>1, <1>3 DEF Writing, Submitting
  <1>5. /\ vm' \in View /\ vm'.loading = vm.loading /\ vm'.original = vm.original
        /\ vm'.mode = vm.mode
        /\ vm'.original # Nothing => vm'.draft.of = vm'.original
    <2>1. CASE d.seq = loadSeq
      <3>1. vm.original = Nothing
        BY <1>2, <2>1 DEF Defaulting
      <3>2. DraftOf(New) \in Drafts
        BY DraftsOk
      <3> QED BY <1>1, <1>2, <2>1, <3>1, <3>2 DEF View, Drafts
    <2>2. CASE d.seq # loadSeq
      BY <1>1, <1>2, <2>2
    <2> QED BY <2>1, <2>2
  <1>6. baseline' \in Drafts
    BY <1>1, <1>5, ViewsOk DEF Inv, Types
  <1>7. initSeq' \in Nat /\ save' \in Saving /\ deletion' \in Deleting
    BY <1>1 DEF Inv, Types
  <1> QED BY <1>1, <1>3, <1>4, <1>5, <1>6, <1>7, Retouched

---------------------------------------------------------------------------
(* The save and the delete. *)

LEMMA SubmitStep ==
    ASSUME Inv, Submit
    PROVE  Inv'
  <1>1. /\ save.stage = "validating"
        /\ UNCHANGED <<identity, initSeq, loadSeq, loads, defaults,
                       deletion, dialog, handoff, baseline, unread>>
    BY DEF Submit
  <1>2. /\ vm \in View /\ save \in Saving
        /\ loads = {} /\ defaults = {} /\ dialog = NoDialog /\ deletion = NoDeletion
        /\ save.mode = vm.mode /\ vm.mode \in {"edit", "create"}
        /\ vm.original # Nothing => vm.draft.of = vm.original
        /\ vm.original \in Ids \cup {Nothing} /\ vm.draft \in Drafts
    BY <1>1, ViewsOk DEF Inv, Types, Saves, Deletes, Shows, Settled, Editing, Submitting
  <1>3. CASE /\ vm.mode = "create" \/ vm.original # Nothing
             /\ vm' = [vm EXCEPT !.loading = TRUE, !.error = "none"]
             /\ save' = [save EXCEPT !.stage = "sent", !.draft = vm.draft,
                                     !.kind = IF vm.mode = "create" THEN "create" ELSE "update"]
    <2>1. /\ vm' \in View /\ vm'.mode = vm.mode /\ vm'.original = vm.original
          /\ vm'.draft = vm.draft /\ vm'.loading
      BY <1>2, <1>3 DEF View
    <2>2. /\ save' \in Saving /\ save'.stage = "sent" /\ save'.draft = vm.draft
          /\ save'.mode = vm.mode
          /\ save'.kind = IF vm.mode = "create" THEN "create" ELSE "update"
      BY <1>2, <1>3 DEF Saving
    <2>3. Types'
      BY <1>1, <2>1, <2>2 DEF Inv, Types
    <2>4. Asks' /\ Deletes'
      BY <1>1, <1>2 DEF Asks, Deletes, NoDialog, NoDeletion
    <2>5. Saves'
      <3>1. save'.kind = "update" => save'.draft.of \in Ids /\ vm'.original = save'.draft.of
        BY <1>2, <1>3, <2>1, <2>2
      <3>2. save'.kind = "create" => save'.mode = "create" /\ vm'.mode = "create"
        BY <2>1, <2>2
      <3>3. /\ save'.kind # "none" /\ defaults' = {} /\ loads' = {}
            /\ dialog' = NoDialog /\ Editing' /\ vm'.draft = save'.draft
        BY <1>1, <1>2, <2>1, <2>2 DEF Editing
      <3> QED BY <2>1, <2>2, <3>1, <3>2, <3>3 DEF Saves
    <2>6. Calls'
      BY <1>1, <1>2 DEF Calls
    <2>7. Locks'
      BY <2>2 DEF Locks, Writing, Submitting
    <2>8. Shows'
      BY <1>1, <2>1 DEF Inv, Shows
    <2> QED BY <1>1, <2>3, <2>4, <2>5, <2>6, <2>7, <2>8 DEF Inv, Keeps
  <1>4. CASE /\ vm.mode # "create" /\ vm.original = Nothing
             /\ vm' = [vm EXCEPT !.loading = FALSE, !.error = "save"]
             /\ save' = NoSave
    <2>1. /\ vm' \in View /\ vm'.mode = vm.mode /\ vm'.original = vm.original
          /\ vm'.draft = vm.draft /\ ~vm'.loading
      BY <1>2, <1>4 DEF View
    <2>2. ~Writing' /\ save' \in Saving /\ save'.stage = "none" /\ deletion' = NoDeletion
      BY <1>1, <1>2, <1>4, NonesOk, NotWriting DEF Writing, Submitting
    <2>3. Types'
      BY <1>1, <2>1, <2>2 DEF Inv, Types
    <2>4. Asks' /\ Deletes' /\ Saves'
      BY <1>1, <1>2, <2>2 DEF Asks, Deletes, Saves, NoDialog
    <2>5. Calls' /\ Locks'
      BY <1>1, <1>2, <2>1 DEF Calls, Locks
    <2>6. Shows'
      BY <1>1, <2>1 DEF Inv, Shows
    <2> QED BY <1>1, <2>3, <2>4, <2>5, <2>6 DEF Inv, Keeps
  <1> QED BY <1>3, <1>4 DEF Submit

LEMMA RefuseSubmitStep ==
    ASSUME Inv, RefuseSubmit
    PROVE  Inv'
  <1>1. /\ save.stage = "validating" /\ save' = NoSave
        /\ UNCHANGED <<identity, initSeq, vm, loadSeq, loads, defaults,
                       deletion, dialog, handoff, baseline, unread>>
    BY DEF RefuseSubmit
  <1>2. loads = {} /\ defaults = {} /\ dialog = NoDialog /\ deletion = NoDeletion /\ ~vm.loading
    BY <1>1 DEF Inv, Saves, Deletes, Settled
  <1>3. save' \in Saving /\ save'.stage = "none" /\ deletion' = NoDeletion
    BY <1>1, <1>2, NonesOk, NotWriting
  <1>4. Types'
    BY <1>1, <1>3 DEF Inv, Types
  <1>5. Asks' /\ Deletes' /\ Saves'
    BY <1>1, <1>2, <1>3 DEF Asks, Deletes, Saves, NoDialog
  <1>6. Calls' /\ Locks'
    BY <1>1, <1>2 DEF Calls, Locks
  <1>7. Shows'
    BY <1>1 DEF Inv, Shows
  <1> QED BY <1>1, <1>4, <1>5, <1>6, <1>7 DEF Inv, Keeps

\* While the server is asked to write, nothing else is under way.
LEMMA AwaitingSave ==
    ASSUME Inv, AwaitsSave
    PROVE  /\ save.stage = "sent" /\ save.kind \in {"create", "update"}
           /\ loads = {} /\ defaults = {} /\ deletion = NoDeletion /\ dialog = NoDialog
           /\ save.kind = "create" => save.mode = "create" /\ vm.mode = "create"
           /\ save.kind = "update" => save.draft.of \in Ids /\ vm.original = save.draft.of
           /\ Editing /\ vm.draft = save.draft
  <1>1. save.stage = "sent" /\ loads = {}
    BY DEF AwaitsSave, Inv, Saves
  <1> QED BY <1>1 DEF Inv, Types, Saving, Saves, Deletes, Submitting

\* A write is over and nothing is under way: the form is unlocked.
LEMMA WriteOver ==
    ASSUME Inv, save' = NoSave, deletion = NoDeletion, loads = {}, defaults = {},
           dialog = NoDialog,
           UNCHANGED <<identity, initSeq, loadSeq, loads, defaults, deletion,
                       dialog, baseline, unread>>,
           Keeps(handoff'), vm' \in View, ~vm'.loading, vm'.original = vm.original,
           vm'.mode = "create" => vm.mode = "create",
           vm'.original # Nothing => vm'.draft.of = vm'.original
    PROVE  Inv'
  <1>1. ~Writing' /\ save'.stage = "none" /\ deletion' = NoDeletion /\ save' \in Saving
    BY NonesOk, NotWriting DEF Writing, Submitting
  <1>2. Types'
    BY <1>1 DEF Inv, Types, Keeps
  <1>3. Asks' /\ Deletes' /\ Saves'
    BY <1>1 DEF Asks, Deletes, Saves, NoDialog
  <1>4. Calls' /\ Locks'
    BY DEF Calls, Locks
  <1>5. Shows'
    BY DEF Inv, Shows
  <1> QED BY <1>2, <1>3, <1>4, <1>5 DEF Inv, Keeps

LEMMA SaveFailsStep ==
    ASSUME Inv, SaveFails
    PROVE  Inv'
  <1>1. loads = {} /\ defaults = {} /\ deletion = NoDeletion /\ dialog = NoDialog
    BY AwaitingSave DEF SaveFails
  <1>2. /\ vm \in View
        /\ vm.original # Nothing => vm.draft.of = vm.original
    BY DEF Inv, Types, Shows
  <1>3. /\ vm' \in View /\ vm'.mode = vm.mode /\ vm'.original = vm.original
        /\ vm'.draft = vm.draft /\ ~vm'.loading
    <2>1. vm' = [vm EXCEPT !.loading = FALSE, !.error = "save"]
      BY DEF SaveFails
    <2> QED BY <1>2, <2>1 DEF View
  <1>4. Keeps(handoff')
    BY DEF Inv, SaveFails
  <1>5. save' = NoSave /\ UNCHANGED <<identity, initSeq, loadSeq, loads, defaults, deletion,
                                      dialog, baseline, unread>>
    BY DEF SaveFails
  <1> QED BY <1>1, <1>2, <1>3, <1>4, <1>5, WriteOver

\* An update that wrote an attachment: its refresh is the only load.
LEMMA SaveRefreshes ==
    ASSUME Inv, AwaitsSave, save.kind = "update",
           NEW v \in View, v.original = save.draft.of, v.draft.of = v.original,
           Displays(v, save.draft.of, Call("saved", initSeq)),
           save' = IF loads' = loads THEN NoSave ELSE save,
           UNCHANGED <<identity, initSeq, defaults, deletion, dialog, unread>>
    PROVE  Inv'
  <1>1. /\ save.stage = "sent" /\ loads = {} /\ defaults = {}
        /\ deletion = NoDeletion /\ dialog = NoDialog
        /\ save.draft.of \in Ids /\ vm.original = save.draft.of
    BY AwaitingSave
  <1> DEFINE id == save.draft.of
             call == Call("saved", initSeq)
  <1>2. call \in Callers /\ call.why = "saved"
    BY DEF Inv, Types, Call, Callers, Whys
  <1>3. /\ loadSeq \in Nat /\ loadSeq' = loadSeq + 1 /\ loads \subseteq Load
        /\ \A l \in loads : l.seq \in 1 .. loadSeq
    BY <1>1 DEF Inv, Types, Displays
  <1> HIDE DEF call
  <1>4. /\ loads' \subseteq Load
        /\ vm'.loading => \E n \in loads' : n.seq = loadSeq'
        /\ \A l, k \in loads' : l.seq = loadSeq' /\ k.seq = loadSeq' => l = k
        /\ \A l \in loads' :
             /\ l.seq = loadSeq' /\ l.id = id /\ l.call = call /\ ~l.aborted
             /\ vm'.loading /\ vm'.mode = "display"
    BY <1>1, <1>2, <1>3, DisplayedLoads DEF call
  <1>5. /\ vm' \in View /\ vm'.original = id /\ vm'.draft.of = id /\ vm'.mode # "create"
        /\ baseline' \in Drafts /\ Keeps(handoff')
        /\ \/ loads' = {} /\ ~vm'.loading
           \/ loads' # {} /\ vm'.loading
    <2>1. CASE Handed(id, call)
      BY <1>1, <2>1 DEF Handed, Displays, call
    <2>2. CASE Sent(v, id, call)
      BY <1>1, <1>4, <2>2 DEF Sent, Displays, call
    <2> QED BY <2>1, <2>2 DEF Displays, call
  <1>6. identity \in Ids => identity = id \/ identity \in unread
    BY <1>1, NamesAssumption DEF Inv, Shows
  <1>7. /\ save' \in Saving
        /\ loads' = {} => save'.stage = "none"
        /\ loads' # {} => save' = save
    BY <1>1, NonesOk, NotWriting DEF Inv, Types
  <1>8. Types'
    BY <1>3, <1>4, <1>5, <1>7 DEF Inv, Types, Keeps
  <1>9. Asks' /\ Deletes'
    BY <1>1 DEF Asks, Deletes, NoDialog
  <1>10. Saves'
    <2>1. CASE loads' = {}
      BY <1>7, <2>1 DEF Saves
    <2>2. CASE loads' # {}
      <3>1. save' = save /\ vm'.loading /\ defaults' = {}
        BY <1>1, <1>5, <1>7, <2>2
      <3>2. \A l \in loads' : l.call.why = "saved"
        BY <1>2, <1>4
      <3> QED BY <1>1, <1>5, <2>2, <3>1, <3>2 DEF Saves
    <2> QED BY <2>1, <2>2
  <1>11. Calls'
    <2>1. ASSUME NEW l \in loads' PROVE Loading(l)'
      <3>1. save' = save
        BY <1>7
      <3>2. l.seq \in 1 .. loadSeq'
        BY <1>3, <1>4
      <3> QED BY <1>1, <1>4, <1>6, <3>1, <3>2 DEF Loading
    <2> QED BY <1>1, <1>4, <2>1 DEF Calls
  <1>12. Locks'
    BY <1>4 DEF Locks
  <1>13. Shows'
    BY <1>5, <1>6 DEF Shows
  <1> QED BY <1>5, <1>8, <1>9, <1>10, <1>11, <1>12, <1>13 DEF Inv, Keeps

LEMMA SaveAnswersStep ==
    ASSUME Inv, SaveAnswers
    PROVE  Inv'
  <1>1. AwaitsSave /\ UNCHANGED <<deletion, dialog, unread>>
    BY DEF SaveAnswers
  <1>2. /\ save.stage = "sent" /\ save.kind \in {"create", "update"}
        /\ loads = {} /\ defaults = {} /\ deletion = NoDeletion /\ dialog = NoDialog
        /\ save.kind = "create" => save.mode = "create"
        /\ save.kind = "update" => save.draft.of \in Ids /\ vm.original = save.draft.of
    BY <1>1, AwaitingSave
  <1>3. /\ vm \in View /\ Keeps(handoff) /\ initSeq \in Nat
    BY DEF Inv, Types
  <1>4. CASE save.kind = "create"
    <2> DEFINE u == Shown(vm, Fresh)
               v == [u EXCEPT !.loading = FALSE]
               w == [v EXCEPT !.mode = "display"]
               h == [handoff EXCEPT ![Fresh] = Fresh]
    <2>1. Identify(w, h, Fresh) /\ save' = NoSave
      BY <1>2, <1>4 DEF SaveAnswers
    <2>2. Fresh \in Ids /\ DraftOf(Fresh).of = Fresh
      BY DraftsOk DEF Ids
    <2>3. u \in View /\ u.original = Fresh /\ u.draft = DraftOf(Fresh)
      BY <1>3, <2>2, ShownView
    <2> HIDE DEF u
    <2>4. w \in View /\ w.original = Fresh /\ w.draft = DraftOf(Fresh)
      BY <2>3 DEF View, Modes
    <2>5. Keeps(h)
      BY <1>3, <2>2 DEF Keeps, Cache
    <2> HIDE DEF w, h
    <2>6. initSeq' \in Nat
      BY <1>3, <2>1 DEF Identify
    <2>7. Turns
      <3>1. save' \in Saving /\ deletion' \in Deleting /\ ~Writing'
        BY <1>1, <1>2, <2>1, NonesOk, NotWriting DEF Writing, Submitting
      <3> QED BY <1>1, <1>2, <2>6, <3>1 DEF Turns
    <2>8. w.draft.of = w.original
      BY <2>2, <2>4
    <2> QED BY <2>1, <2>4, <2>5, <2>7, <2>8, Identified
  <1>5. CASE /\ save.kind = "update"
             /\ vm' = [Shown(vm, save.draft.of) EXCEPT !.mode = "display", !.loading = FALSE]
             /\ handoff' = [handoff EXCEPT ![save.draft.of] = save.draft.of]
             /\ save' = NoSave
             /\ UNCHANGED <<identity, initSeq, loadSeq, loads, defaults, baseline>>
    <2> DEFINE u == Shown(vm, save.draft.of)
    <2>1. /\ u \in View /\ u.original = save.draft.of /\ u.draft = DraftOf(save.draft.of)
      BY <1>2, <1>3, <1>5, ShownView
    <2> HIDE DEF u
    <2>2. /\ vm' \in View /\ vm'.original = save.draft.of /\ vm'.draft = DraftOf(save.draft.of)
          /\ vm'.mode = "display" /\ ~vm'.loading
      BY <1>5, <2>1 DEF View, Modes, u
    <2>3. DraftOf(save.draft.of).of = save.draft.of
      BY <1>2, <1>5, DraftsOk
    <2>4. Keeps(handoff')
      BY <1>2, <1>3, <1>5 DEF Keeps, Cache
    <2>5. vm'.original = vm.original /\ vm'.draft.of = vm'.original
      BY <1>2, <1>5, <2>2, <2>3
    <2> QED BY <1>1, <1>2, <1>5, <2>2, <2>4, <2>5, WriteOver
  <1>6. CASE /\ save.kind = "update"
             /\ BeginDisplay(Shown(vm, save.draft.of), handoff, save.draft.of,
                             Call("saved", initSeq))
             /\ save' = IF loads' = loads THEN NoSave ELSE save
             /\ UNCHANGED <<identity, initSeq, defaults>>
    <2> DEFINE u == Shown(vm, save.draft.of)
               call == Call("saved", initSeq)
    <2>1. /\ u \in View /\ u.original = save.draft.of /\ u.draft = DraftOf(save.draft.of)
      BY <1>2, <1>3, <1>6, ShownView
    <2>2. call \in Callers
      BY <1>3 DEF Call, Callers, Whys
    <2>3. DraftOf(save.draft.of).of = save.draft.of
      BY <1>2, <1>6, DraftsOk
    <2> HIDE DEF u
    <2>4. u.draft.of = u.original
      BY <2>1, <2>3
    <2>5. loadSeq \in Nat /\ baseline \in Drafts
      BY DEF Inv, Types
    <2>6. Displays(u, save.draft.of, call)
      BY <1>2, <1>3, <1>6, <2>1, <2>2, <2>5, Displayed DEF u
    <2> QED BY <1>1, <1>6, <2>1, <2>4, <2>6, SaveRefreshes
  <1> QED BY <1>4, <1>5, <1>6 DEF SaveAnswers

LEMMA DeleteAnswersStep ==
    ASSUME Inv, DeleteAnswers
    PROVE  Inv'
  <1>1. /\ deletion.target # Nothing /\ deletion' = NoDeletion
        /\ UNCHANGED <<initSeq, loadSeq, loads, defaults, save, dialog, handoff,
                       baseline, unread>>
    BY DEF DeleteAnswers
  <1>2. deletion # NoDeletion
    BY <1>1 DEF NoDeletion
  <1>3. loads = {} /\ defaults = {} /\ dialog = NoDialog /\ save.stage = "none"
    BY <1>2 DEF Inv, Deletes, Settled, Submitting
  <1>4. deletion' \in Deleting /\ save'.stage = "none"
    BY <1>1, <1>3, NonesOk
  <1>5. Asks' /\ Deletes' /\ Saves'
    BY <1>1, <1>3, <1>4 DEF Asks, Deletes, Saves, NoDialog
  <1>6. /\ vm \in View
        /\ vm.mode = "create" => vm.original = Nothing
        /\ vm.original # Nothing => vm.draft.of = vm.original
        /\ identity \in Ids => vm.original \in {identity, Nothing} \/ identity \in unread
    BY <1>3 DEF Inv, Types, Shows
  <1>7. /\ vm' \in View /\ ~vm'.loading
        /\ vm'.mode = "create" => vm'.original = Nothing
        /\ vm'.original # Nothing => vm'.draft.of = vm'.original
        /\ identity' \in Ids \cup {New, Nothing}
        /\ identity' \in Ids => vm'.original \in {identity', Nothing} \/ identity' \in unread
    <2>1. CASE /\ vm' = [mode |-> "display", original |-> Nothing, draft |-> NoDraft,
                         loading |-> FALSE, error |-> vm.error]
               /\ identity' = Nothing
      <3>1. NoDraft \in Drafts
        BY DraftsOk DEF NoDraft
      <3>2. vm.error \in {"none", "load", "save"}
        BY <1>6, ViewsOk
      <3>3. vm' \in View
        BY <2>1, <3>1, <3>2 DEF View, Modes, Drafts
      <3> QED BY <2>1, <3>3
    <2>2. CASE /\ vm' = [vm EXCEPT !.loading = FALSE, !.error = "save"]
               /\ UNCHANGED identity
      <3>1. /\ vm' \in View /\ vm'.mode = vm.mode /\ vm'.original = vm.original
            /\ vm'.draft = vm.draft /\ ~vm'.loading
        BY <1>6, <2>2 DEF View
      <3> QED BY <1>6, <2>2, <3>1 DEF Inv, Types
    <2> QED BY <2>1, <2>2 DEF DeleteAnswers
  <1>8. Types'
    BY <1>1, <1>4, <1>7 DEF Inv, Types
  <1>9. Calls' /\ Locks'
    BY <1>1, <1>3, <1>7 DEF Calls, Locks
  <1>10. Shows'
    BY <1>1, <1>7 DEF Shows
  <1> QED BY <1>1, <1>5, <1>8, <1>9, <1>10 DEF Inv, Keeps

---------------------------------------------------------------------------
(* The user. *)

LEMMA Idle ==
    ASSUME Inv, ~ControlsLocked
    PROVE  ~Writing
  BY DEF Inv, Deletes, ControlsLocked, Writing

LEMMA TypeStep ==
    ASSUME Inv, Type
    PROVE  Inv'
  <1>1. ~Writing
    BY Idle DEF Type
  <1>2. /\ UNCHANGED <<identity, initSeq, loadSeq, loads, defaults, save,
                       deletion, dialog, handoff, baseline, unread>>
        /\ vm' = [vm EXCEPT !.draft.edits = @ + 1]
        /\ vm.draft.edits < MaxEdits
    BY DEF Type
  <1>3. /\ vm \in View /\ vm.draft \in Drafts
        /\ vm.original # Nothing => vm.draft.of = vm.original
    BY ViewsOk DEF Inv, Types, Shows
  <1> DEFINE w == [vm.draft EXCEPT !.edits = @ + 1]
  <1>4. w \in Drafts /\ w.of = vm.draft.of
    BY <1>2, <1>3, BoundsAssumption DEF Drafts
  <1>5. vm' = [vm EXCEPT !.draft = w]
    BY <1>2, <1>3 DEF View
  <1> HIDE DEF w
  <1>6. /\ vm' \in View /\ vm'.loading = vm.loading /\ vm'.original = vm.original
        /\ vm'.mode = vm.mode /\ vm'.draft = w
    BY <1>3, <1>4, <1>5 DEF View, Drafts
  <1>7. vm'.original # Nothing => vm'.draft.of = vm'.original
    BY <1>3, <1>4, <1>6
  <1>8. ~Writing'
    BY <1>1, <1>2 DEF Writing, Submitting
  <1>9. initSeq' \in Nat /\ save' \in Saving /\ deletion' \in Deleting /\ baseline' \in Drafts
    BY <1>2 DEF Inv, Types
  <1> QED BY <1>1, <1>2, <1>6, <1>7, <1>8, <1>9, Retouched

LEMMA EditStep ==
    ASSUME Inv, "write" \notin Overlaps, Edit
    PROVE  Inv'
  <1>1. /\ ~Writing /\ vm.mode = "display" /\ vm.original # Nothing /\ vm' = Edited(vm)
        /\ UNCHANGED <<identity, initSeq, loadSeq, loads, defaults, save,
                       deletion, dialog, handoff, baseline, unread>>
    BY DEF Edit
  <1>2. vm \in View /\ vm.original \in Ids
    BY <1>1, ViewsOk DEF Inv, Types
  <1>3. /\ vm' \in View /\ vm'.loading = vm.loading /\ vm'.original = vm.original
        /\ vm'.mode = "edit" /\ vm'.draft = DraftOf(vm.original)
    BY <1>1, <1>2, EditedView
  <1>4. vm'.draft.of = vm'.original
    BY <1>2, <1>3, DraftsOk
  <1>5. ~Writing'
    BY <1>1 DEF Writing, Submitting
  <1>6. initSeq' \in Nat /\ save' \in Saving /\ deletion' \in Deleting /\ baseline' \in Drafts
    BY <1>1 DEF Inv, Types
  <1> QED BY <1>1, <1>3, <1>4, <1>5, <1>6, Retouched

LEMMA ResetStep ==
    ASSUME Inv, Reset
    PROVE  Inv'
  <1>1. ~Writing
    BY Idle DEF Reset
  <1>2. /\ vm' = [vm EXCEPT !.draft = DraftOf(vm.original)]
        /\ UNCHANGED <<identity, initSeq, loadSeq, loads, defaults, save,
                       deletion, dialog, handoff, baseline, unread>>
    BY DEF Reset
  <1>3. vm \in View /\ vm.original \in Ids \cup {Nothing}
    BY ViewsOk DEF Inv, Types
  <1>4. DraftOf(vm.original) \in Drafts /\ DraftOf(vm.original).of = vm.original
    BY <1>3, DraftsOk
  <1>5. /\ vm' \in View /\ vm'.loading = vm.loading /\ vm'.original = vm.original
        /\ vm'.mode = vm.mode /\ vm'.draft = DraftOf(vm.original)
    BY <1>2, <1>3, <1>4 DEF View, Drafts
  <1>6. vm'.draft.of = vm'.original
    BY <1>4, <1>5
  <1>7. ~Writing'
    BY <1>1, <1>2 DEF Writing, Submitting
  <1>8. initSeq' \in Nat /\ save' \in Saving /\ deletion' \in Deleting /\ baseline' \in Drafts
    BY <1>2 DEF Inv, Types
  <1> QED BY <1>1, <1>2, <1>5, <1>6, <1>7, <1>8, Retouched

\* Outside writes a handler may turn the page to another record.
LEMMA MayTurn ==
    ASSUME Inv, ~Writing, UNCHANGED <<save, deletion, unread>>,
           initSeq' \in Nat, dialog' \in {dialog, NoDialog}
    PROVE  Turns
  <1>1. ~Writing'
    BY DEF Writing, Submitting
  <1>2. save' \in Saving /\ deletion' \in Deleting
    BY DEF Inv, Types
  <1> QED BY <1>1, <1>2, NoRefresh DEF Turns

LEMMA NavigateStep ==
    ASSUME Inv, "write" \notin Overlaps, NEW to \in Records \cup {New}, Navigate(to)
    PROVE  Inv'
  <1>1. ~Writing /\ UNCHANGED <<save, deletion, unread>>
    BY DEF Navigate
  <1>2. /\ vm \in View /\ Keeps(handoff) /\ initSeq \in Nat
        /\ vm.original # Nothing => vm.draft.of = vm.original
    BY DEF Inv, Types, Shows
  <1>3. CASE Identify(vm, handoff, to) /\ UNCHANGED dialog
    <2>1. initSeq' \in Nat
      BY <1>2, <1>3 DEF Identify
    <2>2. Turns
      BY <1>1, <1>3, <2>1, MayTurn
    <2> QED BY <1>2, <1>3, <2>2, Identified
  <1>4. CASE /\ dialog' = [kind |-> "leave", to |-> to]
             /\ UNCHANGED <<identity, initSeq, vm, loadSeq, loads, defaults, handoff, baseline>>
    <2>1. dialog' \in Asking
      BY <1>4 DEF Asking, Ids
    <2>2. Types'
      BY <1>1, <1>4, <2>1 DEF Inv, Types
    <2>3. ~Writing' /\ save'.stage = "none" /\ deletion' = NoDeletion
      BY <1>1 DEF Writing, Submitting
    <2>4. Asks' /\ Deletes' /\ Saves'
      BY <1>4, <2>3 DEF Asks, Deletes, Saves
    <2>5. Calls'
      <3>1. ASSUME NEW l \in loads' PROVE Loading(l)'
        BY <1>1, <1>4 DEF Inv, Calls, Loading
      <3>2. ASSUME NEW d \in defaults' PROVE Defaulting(d)'
        BY <1>4 DEF Inv, Calls, Defaulting
      <3> QED BY <1>4, <3>1, <3>2 DEF Inv, Calls
    <2>6. Locks' /\ Shows'
      BY <1>1, <1>4 DEF Inv, Locks, Shows
    <2> QED BY <1>4, <2>2, <2>4, <2>5, <2>6 DEF Inv, Keeps
  <1> QED BY <1>3, <1>4 DEF Navigate

LEMMA CopyStep ==
    ASSUME Inv, "write" \notin Overlaps, Copy
    PROVE  Inv'
  <1> DEFINE call == Call("copy", initSeq)
  <1>1. /\ ~Writing /\ identity \in Ids /\ BeginCreate(call)
        /\ UNCHANGED <<identity, initSeq, loads, save, deletion, dialog, handoff,
                       baseline, unread>>
    BY DEF Copy
  <1>2. initSeq \in Nat /\ baseline \in Drafts /\ Keeps(handoff)
    BY DEF Inv, Types
  <1>3. call \in Callers
    BY <1>2 DEF Call, Callers, Whys
  <1> HIDE DEF call
  <1>4. Turns
    BY <1>1, <1>2, MayTurn
  <1>5. Keeps(handoff')
    BY <1>1, <1>2
  <1> QED BY <1>1, <1>2, <1>3, <1>4, <1>5, Created

\* The page is left, or its baseline forgotten, with nothing being written.
LEMMA PageLeft ==
    ASSUME Inv, ~Writing, UNCHANGED <<initSeq, vm, loadSeq, loads, defaults, save,
                                      deletion, handoff, unread>>,
           dialog' \in {dialog, NoDialog}, identity' \in {identity, Nothing},
           baseline' \in Drafts
    PROVE  Inv'
  <1>1. ~Writing' /\ save'.stage = "none" /\ deletion' = NoDeletion
    BY DEF Writing, Submitting
  <1>2. Types'
    BY NonesOk DEF Inv, Types
  <1>3. Asks' /\ Deletes' /\ Saves'
    BY <1>1 DEF Inv, Asks, Deletes, Saves, NoDialog
  <1>4. identity' \in Ids => identity' = identity
    BY NamesAssumption
  <1>5. Calls'
    <2>1. ASSUME NEW l \in loads' PROVE Loading(l)'
      BY <1>4 DEF Inv, Calls, Loading
    <2>2. ASSUME NEW d \in defaults' PROVE Defaulting(d)'
      BY DEF Inv, Calls, Defaulting
    <2> QED BY <2>1, <2>2 DEF Inv, Calls
  <1>6. Locks' /\ Shows'
    BY <1>1, <1>4 DEF Inv, Locks, Shows, Writing, Submitting
  <1> QED BY <1>2, <1>3, <1>5, <1>6 DEF Inv, Keeps

LEMMA ReloadStep ==
    ASSUME Inv, ~Writing, Reload, UNCHANGED <<save, deletion, unread>>,
           dialog' \in {dialog, NoDialog}
    PROVE  Inv'
  <1> DEFINE call == Call("refresh", initSeq)
  <1>1. UNCHANGED <<identity, initSeq, defaults>>
    BY DEF Reload
  <1>2. /\ vm \in View /\ Keeps(handoff) /\ initSeq \in Nat
        /\ baseline \in Drafts /\ loadSeq \in Nat
        /\ vm.original # Nothing => vm.draft.of = vm.original
    BY DEF Inv, Types, Shows
  <1>3. CASE identity \in Ids /\ BeginDisplay(vm, handoff, identity, call)
    <2>1. call \in Callers /\ call.why = "refresh"
      BY <1>2 DEF Call, Callers, Whys
    <2> HIDE DEF call
    <2>2. Displays(vm, identity, call)
      BY <1>2, <1>3, <2>1, Displayed
    <2>3. Turns
      BY <1>1, <1>2, MayTurn
    <2> QED BY <1>1, <1>2, <1>3, <2>1, <2>2, <2>3, Opened
  <1>4. CASE UNCHANGED <<vm, loadSeq, loads, handoff, baseline>>
    BY <1>1, <1>2, <1>4, PageLeft
  <1> QED BY <1>3, <1>4 DEF Reload

LEMMA LeaveStep ==
    ASSUME Inv, ~Writing, Leave, UNCHANGED <<save, deletion, unread>>,
           dialog' \in {dialog, NoDialog}
    PROVE  Inv'
  <1> DEFINE call == Call("cancel", initSeq)
  <1>1. UNCHANGED <<initSeq, defaults>>
    BY DEF Leave
  <1>2. /\ vm \in View /\ Keeps(handoff) /\ initSeq \in Nat
        /\ baseline \in Drafts /\ loadSeq \in Nat
        /\ vm.original # Nothing => vm.draft.of = vm.original
    BY DEF Inv, Types, Shows
  <1>3. NoDraft \in Drafts
    BY DraftsOk DEF NoDraft
  <1>4. CASE /\ identity' \in {identity, Nothing}
             /\ UNCHANGED <<vm, loadSeq, loads, handoff, baseline>>
    BY <1>1, <1>2, <1>4, PageLeft
  <1>5. CASE identity \in Ids /\ BeginDisplay(vm, handoff, identity, call) /\ UNCHANGED identity
    <2>1. call \in Callers /\ call.why = "cancel"
      BY <1>2 DEF Call, Callers, Whys
    <2> HIDE DEF call
    <2>2. Displays(vm, identity, call)
      BY <1>2, <1>5, <2>1, Displayed
    <2>3. Turns
      BY <1>1, <1>2, MayTurn
    <2> QED BY <1>1, <1>2, <1>5, <2>1, <2>2, <2>3, Opened
  <1>6. CASE /\ baseline' = NoDraft
             /\ UNCHANGED <<identity, vm, loadSeq, loads, handoff>>
    BY <1>1, <1>3, <1>6, PageLeft
  <1> QED BY <1>4, <1>5, <1>6 DEF Leave

\* A dialog opens, and nothing else changes.
LEMMA DialogStep ==
    ASSUME Inv, dialog' \in Asking, Asks', deletion = NoDeletion,
           save.stage = "none" \/ dialog' = NoDialog
             \/ (save.stage = "sent" /\ loads # {}),
           UNCHANGED <<identity, initSeq, vm, loadSeq, loads, defaults, save,
                       deletion, handoff, baseline, unread>>
    PROVE  Inv'
  <1>1. Types'
    BY DEF Inv, Types
  <1>2. Deletes'
    BY DEF Deletes
  <1>3. Saves'
    BY DEF Inv, Saves, Settled, Editing
  <1>4. Calls'
    <2>1. ASSUME NEW l \in loads' PROVE Loading(l)'
      BY DEF Inv, Calls, Loading
    <2>2. ASSUME NEW d \in defaults' PROVE Defaulting(d)'
      BY DEF Inv, Calls, Defaulting
    <2> QED BY <2>1, <2>2 DEF Inv, Calls
  <1>5. Locks' /\ Shows'
    BY DEF Inv, Locks, Shows, Writing, Submitting
  <1> QED BY <1>1, <1>2, <1>3, <1>4, <1>5 DEF Inv, Keeps

LEMMA CancelStep ==
    ASSUME Inv, Cancel
    PROVE  Inv'
  <1>1. ~Writing
    BY Idle DEF Cancel
  <1>2. UNCHANGED <<save, deletion, unread>>
    BY DEF Cancel
  <1>3. CASE /\ dialog' = [kind |-> "cancel", to |-> Nothing]
             /\ UNCHANGED <<identity, initSeq, vm, loadSeq, loads, defaults, handoff, baseline>>
    <2>1. save.stage = "none" /\ deletion = NoDeletion
      BY <1>1 DEF Writing, Submitting
    <2>2. dialog' \in Asking
      BY <1>3 DEF Asking
    <2>3. ~Writing'
      BY <1>1, <1>2 DEF Writing, Submitting
    <2>4. Asks'
      BY <1>3, <2>3 DEF Asks
    <2> QED BY <1>2, <1>3, <2>1, <2>2, <2>4, DialogStep
  <1>4. CASE Leave /\ UNCHANGED dialog
    BY <1>1, <1>2, <1>4, LeaveStep
  <1> QED BY <1>3, <1>4 DEF Cancel

LEMMA RefreshStep ==
    ASSUME Inv, "write" \notin Overlaps, Refresh
    PROVE  Inv'
  <1>1. ~Writing /\ UNCHANGED <<save, deletion, unread>>
    BY DEF Refresh
  <1>2. CASE /\ dialog' = [kind |-> "refresh", to |-> Nothing]
             /\ UNCHANGED <<identity, initSeq, vm, loadSeq, loads, defaults, handoff, baseline>>
    <2>1. save.stage = "none" /\ deletion = NoDeletion
      BY <1>1 DEF Writing, Submitting
    <2>2. dialog' \in Asking
      BY <1>2 DEF Asking
    <2>3. ~Writing'
      BY <1>1 DEF Writing, Submitting
    <2>4. Asks'
      BY <1>2, <2>3 DEF Asks
    <2> QED BY <1>1, <1>2, <2>1, <2>2, <2>4, DialogStep
  <1>3. CASE Reload /\ UNCHANGED dialog
    BY <1>1, <1>3, ReloadStep
  <1> QED BY <1>2, <1>3 DEF Refresh

LEMMA AskDeleteStep ==
    ASSUME Inv, AskDelete
    PROVE  Inv'
  <1>1. /\ vm.mode = "display" /\ vm.original # Nothing /\ deletion = NoDeletion
        /\ dialog' = [kind |-> "delete", to |-> vm.original]
        /\ UNCHANGED <<identity, initSeq, vm, loadSeq, loads, defaults, save,
                       deletion, handoff, baseline, unread>>
    BY DEF AskDelete
  <1>2. vm.original \in Ids
    BY <1>1, ViewsOk DEF Inv, Types
  <1>3. dialog' \in Asking
    BY <1>1, <1>2 DEF Asking
  <1>4. Asks'
    BY <1>1, <1>2 DEF Asks
  <1>5. save.stage = "none" \/ (save.stage = "sent" /\ loads # {})
    BY <1>1 DEF Inv, Types, Saving, Saves, Editing
  <1> QED BY <1>1, <1>3, <1>4, <1>5, DialogStep

LEMMA DismissStep ==
    ASSUME Inv, Dismiss
    PROVE  Inv'
  <1>1. /\ dialog # NoDialog /\ dialog' = NoDialog
        /\ UNCHANGED <<identity, initSeq, vm, loadSeq, loads, defaults, save,
                       deletion, handoff, baseline, unread>>
    BY DEF Dismiss
  <1>2. deletion = NoDeletion
    BY <1>1 DEF Inv, Deletes
  <1>3. Asks'
    BY <1>1 DEF Asks, NoDialog
  <1> QED BY <1>1, <1>2, <1>3, NonesOk, DialogStep

LEMMA RemoveStep ==
    ASSUME Inv, ~Writing, Settled, NEW asked \in Ids, Remove(asked), dialog' = NoDialog,
           UNCHANGED <<initSeq, loadSeq, loads, defaults, handoff, baseline, save, unread>>
    PROVE  Inv'
  <1>1. /\ loads = {} /\ defaults = {}
        /\ save.stage = "none" /\ deletion = NoDeletion
    BY DEF Settled, Writing, Submitting
  <1>2. /\ vm \in View /\ vm.original \in Ids \cup {Nothing}
        /\ vm.original # Nothing => vm.draft.of = vm.original
        /\ vm.mode = "create" => vm.original = Nothing
    BY ViewsOk DEF Inv, Types, Shows
  <1>3. CASE UNCHANGED <<identity, vm, deletion>>
    <2>1. Asks'
      BY DEF Asks, NoDialog
    <2> QED BY <1>1, <1>3, <2>1, NonesOk, DialogStep
  <1>4. CASE /\ vm.original # Nothing
             /\ deletion' = [asked |-> asked, target |-> vm.original]
             /\ vm' = [vm EXCEPT !.loading = TRUE, !.error = "none"]
             /\ UNCHANGED identity
    <2>1. /\ vm' \in View /\ vm'.mode = vm.mode /\ vm'.original = vm.original
          /\ vm'.draft = vm.draft /\ vm'.loading
      BY <1>2, <1>4 DEF View
    <2>2. deletion' \in Deleting /\ deletion' # NoDeletion
      BY <1>2, <1>4 DEF Deleting, NoDeletion
    <2>3. Types'
      BY <1>4, <2>1, <2>2, NonesOk DEF Inv, Types
    <2>4. Asks' /\ Deletes' /\ Saves'
      BY <1>1, <2>1 DEF Asks, Deletes, Saves, NoDialog, Settled, Submitting
    <2>5. Calls' /\ Locks'
      BY <1>1, <2>2 DEF Calls, Locks, Writing
    <2>6. Shows'
      BY <1>4, <2>1 DEF Inv, Shows
    <2> QED BY <2>3, <2>4, <2>5, <2>6 DEF Inv, Keeps
  <1>5. CASE /\ vm.original = Nothing
             /\ vm' = [vm EXCEPT !.loading = FALSE, !.error = "none"]
             /\ identity' = Nothing
             /\ UNCHANGED deletion
    <2>1. /\ vm' \in View /\ vm'.original = Nothing /\ ~vm'.loading
      BY <1>2, <1>5 DEF View
    <2>2. Types'
      BY <1>5, <2>1, NonesOk DEF Inv, Types
    <2>3. Asks' /\ Deletes' /\ Saves'
      BY <1>1, <1>5 DEF Asks, Deletes, Saves, NoDialog
    <2>4. Calls' /\ Locks'
      BY <1>1, <2>1 DEF Calls, Locks
    <2>5. Shows'
      BY <2>1 DEF Shows
    <2> QED BY <2>2, <2>3, <2>4, <2>5 DEF Inv, Keeps
  <1> QED BY <1>3, <1>4, <1>5 DEF Remove

LEMMA ConfirmStep ==
    ASSUME Inv, "write" \notin Overlaps, Confirm
    PROVE  Inv'
  <1>1. dialog # NoDialog /\ dialog' = NoDialog /\ UNCHANGED <<save, unread>>
    BY DEF Confirm
  <1>2. deletion = NoDeletion
    BY <1>1 DEF Inv, Deletes
  <1>3. /\ vm \in View /\ Keeps(handoff) /\ initSeq \in Nat
        /\ vm.original # Nothing => vm.draft.of = vm.original
    BY DEF Inv, Types, Shows
  <1>4. CASE /\ dialog.kind = "leave"
             /\ Identify(vm, handoff, dialog.to)
             /\ UNCHANGED deletion
    <2>1. ~Writing
      BY <1>4 DEF Inv, Asks
    <2>2. initSeq' \in Nat
      BY <1>3, <1>4 DEF Identify
    <2>3. Turns
      BY <1>1, <1>4, <2>1, <2>2, MayTurn
    <2> QED BY <1>3, <1>4, <2>3, Identified
  <1>5. CASE dialog.kind = "cancel" /\ Leave /\ UNCHANGED deletion
    <2>1. ~Writing
      BY <1>5 DEF Inv, Asks
    <2> QED BY <1>1, <1>5, <2>1, LeaveStep
  <1>6. CASE /\ dialog.kind = "delete" /\ Settled
             /\ Remove(dialog.to)
             /\ UNCHANGED <<initSeq, loadSeq, loads, defaults, handoff, baseline>>
    <2>1. ~Writing
      BY <1>1, <1>2, <1>6 DEF Inv, Types, Saving, Saves, Settled, Writing, Submitting
    <2>2. dialog.to \in Ids
      BY <1>6 DEF Inv, Asks
    <2> QED BY <1>1, <1>6, <2>1, <2>2, RemoveStep
  <1>7. CASE dialog.kind = "refresh" /\ UNCHANGED deletion
    <2>1. ~Writing
      BY <1>7 DEF Inv, Asks
    <2>2. CASE Reload
      BY <1>1, <1>7, <2>1, <2>2, ReloadStep
    <2>3. CASE UNCHANGED <<identity, initSeq, vm, loadSeq, loads, defaults, handoff, baseline>>
      <3>1. baseline \in Drafts
        BY DEF Inv, Types
      <3> QED BY <1>1, <1>7, <2>1, <2>3, <3>1, PageLeft
    <2> QED BY <1>7, <2>2, <2>3 DEF Confirm
  <1> QED BY <1>4, <1>5, <1>6, <1>7 DEF Confirm

LEMMA HandleSubmitStep ==
    ASSUME Inv, "write" \notin Overlaps, HandleSubmit
    PROVE  Inv'
  <1>1. /\ OnPage /\ Editing /\ ~ControlsLocked /\ Settled
        /\ save' = [NoSave EXCEPT !.stage = "validating", !.mode = vm.mode]
        /\ UNCHANGED <<identity, initSeq, vm, loadSeq, loads, defaults,
                       deletion, dialog, handoff, baseline, unread>>
    BY DEF HandleSubmit
  <1>2. ~Writing /\ ~vm.loading /\ dialog = NoDialog
    BY <1>1, Idle DEF ControlsLocked, OnPage
  <1>3. loads = {} /\ defaults = {} /\ deletion = NoDeletion
    BY <1>1, <1>2 DEF Settled, Writing
  <1>4. vm.mode \in Modes /\ NoSave \in Saving
    BY ViewsOk, NonesOk DEF Inv, Types
  <1>5. save' \in Saving /\ save'.stage = "validating" /\ save'.mode = vm.mode
    BY <1>1, <1>4 DEF Saving
  <1>6. Types'
    BY <1>1, <1>5 DEF Inv, Types
  <1>7. Asks' /\ Deletes'
    BY <1>1, <1>2, <1>3 DEF Asks, Deletes, NoDialog
  <1>8. Saves'
    BY <1>1, <1>2, <1>3, <1>5 DEF Saves, Settled, Editing
  <1>9. Calls' /\ Locks'
    BY <1>1, <1>2, <1>3 DEF Calls, Locks
  <1>10. Shows'
    BY <1>1 DEF Inv, Shows
  <1> QED BY <1>1, <1>6, <1>7, <1>8, <1>9, <1>10 DEF Inv, Keeps

---------------------------------------------------------------------------
LEMMA InitInv == Init => Inv
  <1> SUFFICES ASSUME Init PROVE Inv
    OBVIOUS
  <1> DEFINE call == Call("open", 1)
  <1>1. /\ identity \in Records \cup {New}
        /\ initSeq = 1 /\ loadSeq = 1
        /\ save = NoSave /\ deletion = NoDeletion /\ dialog = NoDialog
        /\ handoff = [r \in Ids |-> Nothing]
        /\ baseline = NoDraft /\ unread = {}
    BY DEF Init
  <1>2. call \in Callers /\ call.why = "open"
    BY DEF Call, Callers, Whys
  <1>3. NoDraft \in Drafts /\ DraftOf(New) \in Drafts
    BY DraftsOk DEF NoDraft
  <1>4. Keeps(handoff)
    BY <1>1 DEF Keeps, Cache
  <1>5. save \in Saving /\ deletion \in Deleting /\ dialog \in Asking
    BY <1>1, NonesOk
  <1>6. Asks /\ Deletes /\ Saves
    BY <1>1, NotWriting DEF Asks, Deletes, Saves, NoDialog
  <1>7. CASE /\ identity \in Records
             /\ vm = [mode |-> "display", original |-> Nothing, draft |-> NoDraft,
                      loading |-> TRUE, error |-> "none"]
             /\ loads = {[seq |-> 1, id |-> identity, call |-> call, aborted |-> FALSE]}
             /\ defaults = {}
    <2> DEFINE n == [seq |-> 1, id |-> identity, call |-> call, aborted |-> FALSE]
    <2>1. vm \in View
      BY <1>3, <1>7 DEF View, Modes, Drafts
    <2>2. n \in Load
      BY <1>2, <1>7 DEF Load, Ids
    <2>3. Types
      BY <1>1, <1>3, <1>4, <1>5, <1>7, <2>1, <2>2 DEF Types, Keeps, Ids
    <2>4. Calls
      BY <1>1, <1>2, <1>7 DEF Calls, Loading
    <2>5. Locks
      BY <1>1, <1>7 DEF Locks
    <2>6. Shows
      BY <1>7 DEF Shows
    <2> QED BY <1>4, <1>6, <2>3, <2>4, <2>5, <2>6 DEF Inv
  <1>8. CASE /\ identity = New
             /\ vm = [mode |-> "create", original |-> Nothing, draft |-> DraftOf(New),
                      loading |-> FALSE, error |-> "none"]
             /\ loads = {}
             /\ defaults = {[seq |-> 1, call |-> call]}
    <2>1. vm \in View
      BY <1>3, <1>8 DEF View, Modes, Drafts
    <2>2. [seq |-> 1, call |-> call] \in Default
      BY <1>2 DEF Default
    <2>3. Types
      BY <1>1, <1>3, <1>4, <1>5, <1>8, <2>1, <2>2 DEF Types, Keeps
    <2>4. Calls
      BY <1>1, <1>8 DEF Calls, Defaulting
    <2>5. Locks /\ Shows
      BY <1>8 DEF Locks, Shows
    <2> QED BY <1>4, <1>6, <2>3, <2>4, <2>5 DEF Inv
  <1> QED BY <1>7, <1>8 DEF Init

LEMMA NextInv ==
    ASSUME "write" \notin Overlaps, Inv, [Next]_vars
    PROVE  Inv'
  <1>1. CASE Next
    <2>1. CASE Loaded
      BY <2>1, LoadAnswersStep, LoadFailsStep DEF Loaded
    <2>2. CASE Defaulted
      BY <2>2, DefaultsAnswerStep DEF Defaulted
    <2>3. CASE Saved
      BY <2>3, SubmitStep, RefuseSubmitStep, SaveAnswersStep, SaveFailsStep DEF Saved
    <2>4. CASE DeleteAnswers
      BY <2>4, DeleteAnswersStep
    <2>5. CASE User
      BY <2>5, NavigateStep, TypeStep, EditStep, ResetStep, RefreshStep, CopyStep,
         CancelStep, AskDeleteStep, ConfirmStep, DismissStep, HandleSubmitStep DEF User
    <2> QED BY <1>1, <2>1, <2>2, <2>3, <2>4, <2>5 DEF Next
  <1>2. CASE UNCHANGED vars
    BY <1>2 DEF vars, Inv, Types, Asks, Deletes, Saves, Calls, Loading, Defaulting, Locks,
                Shows, Writing, Submitting, Settled, Editing
  <1> QED BY <1>1, <1>2

\* Unless the user acts during a save or a delete, Inv holds throughout.
THEOREM Invariant == "write" \notin Overlaps => (Spec => []Inv)
  <1> SUFFICES ASSUME "write" \notin Overlaps PROVE Spec => []Inv
    OBVIOUS
  <1> QED BY InitInv, NextInv, PTL DEF Spec

\* Every variable of the page keeps its type and a form behind its spinner has a
\* load, a save or a delete to wait for, whichever loads, copies, hand-overs and
\* dialogs overlap, unless the user acts during a save or a delete.
THEOREM TypeCorrect == "write" \notin Overlaps => (Spec => []TypeOK)
  <1> SUFFICES ASSUME "write" \notin Overlaps PROVE Spec => []TypeOK
    OBVIOUS
  <1>1. Inv => TypeOK
    BY DEF Inv, Types, Saving, Deleting, Asking, Cache, Load, Default, Calls, Loading,
           Defaulting, Locks, TypeOK
  <1> QED BY <1>1, Invariant, PTL

\* The quiet form shows the record its page is for: a superseded or aborted load,
\* a record handed over and a save that answers late never leave another one there.
THEOREM ShowsCurrent == "write" \notin Overlaps => (Spec => []ShownIsCurrent)
  <1> SUFFICES ASSUME "write" \notin Overlaps PROVE Spec => []ShownIsCurrent
    OBVIOUS
  <1>1. Inv => ShownIsCurrent
    BY DEF Inv, Shows, ShownIsCurrent, Quiet, Settled
  <1> QED BY <1>1, Invariant, PTL

---------------------------------------------------------------------------
(* The edits of the user. Overlaps = {}: he waits for copies, for defaults and  *)
(* for cancelled edits too; ~OpensInEdit: only the Edit button begins an edit.  *)

LastLoad == \E l \in loads : l.seq = loadSeq
LastDefaults == \E d \in defaults : d.seq = loadSeq

\* A draft with edits is not about to be replaced: no load or defaults that
\* would be shown are under way, and it is measured against a record or a baseline.
Drafting ==
    /\ LastLoad /\ Editing => vm.draft.edits = 0
    /\ LastDefaults => vm.draft.edits = 0
    /\ vm.mode = "edit" /\ vm.original = Nothing =>
         vm.draft.edits = 0 /\ vm.draft.of = Nothing
    /\ vm.mode = "create" /\ ~LastDefaults => baseline = DraftOf(New)
    /\ vm.mode = "create" => vm.draft.of \notin Ids

\* Of the loads that are over late, none forgets the baseline of a creation.
Origin(l) ==
    /\ l.call.init <= initSeq
    /\ vm.mode = "create" =>
         /\ l.call.why # "cancel"
         /\ l.call.why = "open" => l.call.init # initSeq

\* The defaults that give a baseline are those of the draft shown.
Seed(d) ==
    /\ d.call.init <= initSeq
    /\ (d.call.why = "copy" \/ d.call.init = initSeq) <=> d.seq = loadSeq

Unasked ==
    dialog.kind = "leave" => ~Leaving /\ \A d \in defaults : d.call.why # "copy"

Kept ==
    /\ Drafting /\ Unasked
    /\ \A l \in loads : Origin(l)
    /\ \A d \in defaults : Seed(d)

\* While a refresh is asked for, the edits of a record wait for the answer.
Refreshing ==
    dialog.kind = "refresh" =>
        Editing /\ vm.draft.edits > 0 /\ vm.draft.of \in Ids

Waiting == Overlaps = {} /\ ~OpensInEdit

\* The edits are still there after the step.
Survives ==
    Editing /\ vm.draft.edits > 0 =>
        /\ vm'.mode \in {"edit", "create"}
        /\ vm'.draft.of = vm.draft.of
        /\ vm'.draft.edits >= vm.draft.edits

LEMMA SameSurvives ==
    ASSUME vm \in View, vm'.mode = vm.mode, vm'.draft = vm.draft
    PROVE  Survives
  <1>1. vm.draft.edits \in Nat
    BY BoundsAssumption DEF View
  <1> QED BY <1>1 DEF Survives, Editing

\* Edits make the form dirty, so it is not left unasked.
LEMMA EditsAreDirty ==
    ASSUME Inv, Kept, Editing, vm.draft.edits > 0
    PROVE  Dirty
  <1>1. vm \in View /\ vm.draft.edits # 0 /\ vm.mode \in {"edit", "create"}
    BY BoundsAssumption DEF Inv, Types, View, Editing
  <1>2. CASE vm.mode = "edit"
    BY <1>1, <1>2 DEF Kept, Drafting, Dirty
  <1>3. CASE vm.mode = "create"
    <2>1. baseline = DraftOf(New)
      BY <1>1, <1>3 DEF Kept, Drafting
    <2>2. baseline # NoDraft
      BY <2>1, NamesAssumption DEF DraftOf, NoDraft
    <2>3. vm.draft # baseline
      BY <1>1, <2>1 DEF DraftOf
    <2> QED BY <1>3, <2>2, <2>3 DEF Dirty
  <1> QED BY <1>1, <1>2, <1>3

\* Nothing of the draft changes, nor of the calls under way.
LEMMA KeptSame ==
    ASSUME Inv, Kept, UNCHANGED <<initSeq, loadSeq, loads, defaults>>,
           vm'.mode = vm.mode, vm'.draft = vm.draft, vm'.original = vm.original,
           vm.mode = "create" => UNCHANGED baseline,
           dialog'.kind = "leave" => ~Leaving /\ \A d \in defaults : d.call.why # "copy"
    PROVE  Kept' /\ Survives
  <1>1. Drafting'
    BY DEF Kept, Drafting, LastLoad, LastDefaults, Editing
  <1>2. Unasked'
    BY DEF Unasked, Leaving
  <1>3. ASSUME NEW l \in loads' PROVE Origin(l)'
    BY DEF Kept, Origin
  <1>4. ASSUME NEW d \in defaults' PROVE Seed(d)'
    BY DEF Kept, Seed
  <1>5. Survives
    BY SameSurvives DEF Inv, Types
  <1> QED BY <1>1, <1>2, <1>3, <1>4, <1>5 DEF Kept

\* Nothing is under way and the form shows a record.
LEMMA KeptQuiet ==
    ASSUME loads' = {}, defaults' = {}, vm'.mode = "display"
    PROVE  Kept'
  BY DEF Kept, Drafting, LastLoad, LastDefaults, Editing, Unasked, Leaving

\* The calls of a page that turns: none of those under way is about its next draft.
Past == \A d \in defaults : d.call.why # "copy" /\ d.call.init # initSeq'

LEMMA KeptOpened ==
    ASSUME Inv, Kept, Waiting, Past,
           NEW v \in View, NEW id \in Ids, NEW call \in Callers, call.init = initSeq',
           Displays(v, id, call), UNCHANGED defaults,
           initSeq' \in Nat, initSeq <= initSeq',
           dialog' \in {dialog, NoDialog},
           call.why = "cancel" => dialog'.kind # "leave"
    PROVE  Kept'
  <1>1. vm'.mode = "display" /\ initSeq \in Nat
    BY DEF Displays, Handed, Sent, Waiting, Inv, Types
  <1>2. /\ loads \subseteq Load /\ loadSeq \in Nat /\ loadSeq' = loadSeq + 1
        /\ \A l \in loads : l.seq \in 1 .. loadSeq
        /\ \A d \in defaults : d.seq \in 1 .. loadSeq /\ d \in Default
    BY DEF Inv, Types, Calls, Loading, Defaulting, Displays
  <1>3. \A l \in loads' : l.call = call \/ \E k \in loads : l.call = k.call
    BY <1>2, DisplayedLoads
  <1>4. Drafting'
    BY <1>1, <1>2 DEF Drafting, LastDefaults, Editing
  <1>5. Unasked'
    <2>1. SUFFICES ASSUME dialog'.kind = "leave"
                   PROVE  /\ \A l \in loads' : l.call.why # "cancel"
                          /\ \A d \in defaults : d.call.why # "copy"
      BY DEF Unasked, Leaving
    <2>2. dialog.kind = "leave" /\ call.why # "cancel"
      BY <2>1 DEF NoDialog
    <2> QED BY <1>3, <2>2 DEF Kept, Unasked, Leaving
  <1>6. ASSUME NEW l \in loads' PROVE Origin(l)'
    <2>1. CASE l.call = call
      BY <1>1, <2>1 DEF Origin
    <2>2. CASE \E k \in loads : l.call = k.call
      <3>1. PICK k \in loads : l.call = k.call
        BY <2>2
      <3>2. k.call.init \in Nat /\ k.call.init <= initSeq
        BY <1>2 DEF Kept, Origin, Load, Callers
      <3> QED BY <1>1, <3>1, <3>2 DEF Origin
    <2> QED BY <1>3, <2>1, <2>2
  <1>7. ASSUME NEW d \in defaults' PROVE Seed(d)'
    <2>1. d.call.init \in Nat /\ d.call.init <= initSeq
      BY <1>2 DEF Kept, Seed, Default, Callers
    <2>2. d.seq # loadSeq'
      BY <1>2
    <2> QED BY <1>1, <2>1, <2>2 DEF Past, Seed
  <1> QED BY <1>4, <1>5, <1>6, <1>7 DEF Kept

LEMMA KeptCreated ==
    ASSUME Inv, Kept, Past,
           NEW call \in Callers, call.init = initSeq', BeginCreate(call),
           UNCHANGED loads, initSeq' \in Nat, initSeq <= initSeq',
           \A l \in loads : /\ l.call.why # "cancel"
                            /\ l.call.why = "open" => l.call.init # initSeq',
           dialog' \in {dialog, NoDialog},
           call.why = "copy" => dialog'.kind # "leave"
    PROVE  Kept'
  <1>1. /\ loads \subseteq Load /\ loadSeq \in Nat /\ initSeq \in Nat
        /\ loadSeq' = loadSeq + 1
        /\ \A l \in loads : l.seq \in 1 .. loadSeq
        /\ \A d \in defaults : d.seq \in 1 .. loadSeq /\ d \in Default
    BY DEF Inv, Types, Calls, Loading, Defaulting, BeginCreate
  <1> DEFINE n == [seq |-> loadSeq + 1, call |-> call]
  <1>2. /\ defaults' = defaults \cup {n} /\ vm'.mode = "create"
        /\ vm'.draft.edits = 0 /\ vm'.draft.of = New
    BY DraftsOk DEF BeginCreate
  <1>3. n.seq = loadSeq' /\ n.call = call
    BY <1>1
  <1> HIDE DEF n
  <1>4. Drafting'
    <2>1. LastDefaults'
      BY <1>2, <1>3 DEF LastDefaults
    <2> QED BY <1>2, <2>1, NamesAssumption DEF Drafting
  <1>5. Unasked'
    <2>1. SUFFICES ASSUME dialog'.kind = "leave"
                   PROVE  \A d \in defaults' : d.call.why # "copy"
      BY DEF Unasked, Leaving
    <2> QED BY <1>2, <1>3, <2>1 DEF Past
  <1>6. ASSUME NEW l \in loads' PROVE Origin(l)'
    <2>1. l.call.init \in Nat /\ l.call.init <= initSeq
      BY <1>1 DEF Kept, Origin, Load, Callers
    <2> QED BY <1>1, <2>1 DEF Origin
  <1>7. ASSUME NEW d \in defaults' PROVE Seed(d)'
    <2>1. CASE d = n
      BY <1>3, <2>1 DEF Seed
    <2>2. CASE d \in defaults
      <3>1. d.call.init \in Nat /\ d.call.init <= initSeq
        BY <1>1, <2>2 DEF Kept, Seed, Default, Callers
      <3>2. d.seq # loadSeq'
        BY <1>1, <2>2
      <3> QED BY <1>1, <2>2, <3>1, <3>2 DEF Past, Seed
    <2> QED BY <1>2, <2>1, <2>2
  <1> QED BY <1>4, <1>5, <1>6, <1>7 DEF Kept

LEMMA KeptIdentified ==
    ASSUME Inv, Kept, Waiting, ~Leaving, \A d \in defaults : d.call.why # "copy",
           NEW v \in View, NEW h, Keeps(h), NEW to, Identify(v, h, to),
           dialog' \in {dialog, NoDialog}
    PROVE  Kept'
  <1>1. /\ initSeq \in Nat /\ initSeq' = initSeq + 1 /\ loadSeq \in Nat
        /\ baseline \in Drafts /\ loads \subseteq Load /\ defaults \subseteq Default
    BY DEF Inv, Types, Identify
  <1>2. ASSUME NEW d \in defaults PROVE d.call.init # initSeq'
    <2>1. d.call.init \in Nat /\ d.call.init <= initSeq
      BY <1>1 DEF Kept, Seed, Default, Callers
    <2> QED BY <1>1, <2>1
  <1>3. ASSUME NEW l \in loads PROVE l.call.why # "cancel" /\ l.call.init # initSeq'
    <2>1. l.call.init \in Nat /\ l.call.init <= initSeq
      BY <1>1 DEF Kept, Origin, Load, Callers
    <2> QED BY <1>1, <2>1 DEF Leaving
  <1>4. Past
    BY <1>2 DEF Past
  <1> DEFINE call == Call("open", initSeq + 1)
  <1>5. call \in Callers /\ call.why = "open" /\ call.init = initSeq'
    BY <1>1 DEF Call, Callers, Whys
  <1> HIDE DEF call
  <1>6. CASE to \in Ids /\ BeginDisplay(v, h, to, call) /\ UNCHANGED defaults
    <2>1. Displays(v, to, call)
      BY <1>1, <1>5, <1>6, Displayed
    <2> QED BY <1>1, <1>4, <1>5, <1>6, <2>1, KeptOpened
  <1>7. CASE to = New /\ BeginCreate(call) /\ handoff' = h /\ UNCHANGED <<loads, baseline>>
    BY <1>1, <1>3, <1>4, <1>5, <1>7, KeptCreated
  <1> QED BY <1>6, <1>7 DEF Identify, call

\* A load is over: either it changes nothing of the draft, or it was the last one
\* and no edit was typed yet.
LEMMA KeptLoadOver ==
    ASSUME Inv, Kept, NEW l \in loads, loads' = loads \ {l},
           UNCHANGED <<initSeq, loadSeq, defaults, dialog>>,
           vm.mode = "create" => UNCHANGED baseline,
           \/ /\ vm'.mode = vm.mode /\ vm'.draft = vm.draft
              /\ vm'.original = vm.original
           \/ /\ l.seq = loadSeq /\ vm'.draft = DraftOf(vm'.original)
              /\ vm'.original \in Ids \cup {Nothing}
              /\ vm'.mode = vm.mode \/ (vm.mode = "display" /\ vm'.mode = "display")
    PROVE  Kept' /\ Survives
  <1>1. CASE vm'.mode = vm.mode /\ vm'.draft = vm.draft /\ vm'.original = vm.original
    <2>1. Drafting'
      BY <1>1 DEF Kept, Drafting, LastLoad, LastDefaults, Editing
    <2>2. Unasked'
      BY DEF Kept, Unasked, Leaving
    <2>3. ASSUME NEW k \in loads' PROVE Origin(k)'
      BY <1>1 DEF Kept, Origin
    <2>4. ASSUME NEW d \in defaults' PROVE Seed(d)'
      BY DEF Kept, Seed
    <2>5. Survives
      BY <1>1, SameSurvives DEF Inv, Types
    <2> QED BY <2>1, <2>2, <2>3, <2>4, <2>5 DEF Kept
  <1>2. CASE /\ l.seq = loadSeq /\ vm'.draft = DraftOf(vm'.original)
             /\ vm'.original \in Ids \cup {Nothing} /\ vm'.mode = vm.mode
    <2>1. vm.mode # "create"
      BY <1>2 DEF Inv, Calls, Loading
    <2>2. vm'.draft.edits = 0 /\ vm'.draft.of = vm'.original
      BY <1>2, DraftsOk
    <2>3. Drafting'
      BY <1>2, <2>1, <2>2 DEF Drafting
    <2>4. Unasked'
      BY DEF Kept, Unasked, Leaving
    <2>5. ASSUME NEW k \in loads' PROVE Origin(k)'
      BY <1>2, <2>1 DEF Kept, Origin
    <2>6. ASSUME NEW d \in defaults' PROVE Seed(d)'
      BY DEF Kept, Seed
    <2>7. Editing => vm.draft.edits = 0
      BY <1>2 DEF Kept, Drafting, LastLoad
    <2>8. Survives
      BY <2>7 DEF Survives
    <2> QED BY <2>3, <2>4, <2>5, <2>6, <2>8 DEF Kept
  <1> QED BY <1>1, <1>2

LEMMA KeptLoadAnswers ==
    ASSUME Waiting, Inv, Kept, NEW l \in loads, LoadAnswers(l)
    PROVE  Kept' /\ Survives
  <1>1. /\ loads' = loads \ {l}
        /\ UNCHANGED <<identity, initSeq, loadSeq, defaults, deletion, dialog>>
    BY DEF LoadAnswers
  <1>2. /\ Loading(l) /\ l.call \in Callers /\ l.id \in Ids
        /\ vm \in View /\ baseline \in Drafts /\ Keeps(handoff)
    BY FormerLoad DEF Inv, Types, Load
  <1>3. ASSUME vm.mode = "create", NEW v, NEW h, Continue(l.call, l.id, v, h)
        PROVE  UNCHANGED baseline
    BY <1>1, <1>3 DEF Continue, Kept, Origin
  <1>4. CASE /\ l.seq # loadSeq
             /\ Continue(l.call, l.id, Finish(vm, l.seq), handoff)
    <2> DEFINE v == Finish(vm, l.seq)
    <2>1. /\ v \in View /\ v.original = vm.original /\ v.draft = vm.draft
          /\ v.mode = vm.mode
      BY <1>2, FinishedView
    <2>2. l.call.why # "saved"
      BY <1>2, <1>4 DEF Loading
    <2>3. vm.mode = "create" => UNCHANGED baseline
      BY <1>3, <1>4
    <2> HIDE DEF v
    <2>4. Follows(l.call, v, vm')
      BY <1>2, <1>4, <2>1, <2>2, Continued DEF v
    <2>5. vm'.mode = vm.mode /\ vm'.draft = vm.draft /\ vm'.original = vm.original
      BY <2>1, <2>4 DEF Follows, Waiting
    <2> QED BY <1>1, <2>3, <2>5, KeptLoadOver
  <1>5. ASSUME l.seq = loadSeq, NEW r \in {l.id, Nothing},
               Continue(l.call, l.id, Finish(Shown(vm, r), l.seq), handoff)
        PROVE  Kept' /\ Survives
    <2> DEFINE u == Shown(vm, r)
               v == Finish(u, l.seq)
    <2>1. /\ u \in View /\ u.original = r /\ u.draft = DraftOf(r)
          /\ u.mode = vm.mode
      BY <1>2, <1>5, ShownView
    <2>2. vm.mode = "create" => UNCHANGED baseline
      BY <1>3, <1>5
    <2> HIDE DEF u
    <2>3. /\ v \in View /\ v.original = r /\ v.draft = DraftOf(r) /\ v.mode = vm.mode
      BY <2>1, FinishedView
    <2> HIDE DEF v
    <2>4. Follows(l.call, v, vm')
      BY <1>2, <1>5, <2>3, Continued DEF u, v
    <2>5. vm'.mode = vm.mode /\ vm'.draft = DraftOf(r) /\ vm'.original = r
      BY <2>3, <2>4 DEF Follows, Waiting
    <2>6. vm'.draft = DraftOf(vm'.original) /\ vm'.original \in Ids \cup {Nothing}
      BY <1>2, <2>5
    <2> QED BY <1>1, <1>5, <2>2, <2>5, <2>6, KeptLoadOver
  <1>6. CASE /\ ~l.aborted /\ l.seq = loadSeq
             /\ \/ Continue(l.call, l.id, Finish(Shown(vm, l.id), l.seq), handoff)
                \/ Continue(l.call, l.id, Finish(Shown(vm, Nothing), l.seq), handoff)
    BY <1>5, <1>6
  <1>7. l.aborted => l.seq # loadSeq
    BY <1>2 DEF Loading
  <1> QED BY <1>4, <1>6, <1>7 DEF LoadAnswers

LEMMA KeptLoadFails ==
    ASSUME Waiting, Inv, Kept, NEW l \in loads, LoadFails(l)
    PROVE  Kept' /\ Survives
  <1>1. /\ loads' = loads \ {l}
        /\ UNCHANGED <<identity, initSeq, loadSeq, defaults, deletion, dialog>>
    BY DEF LoadFails
  <1>2. /\ Loading(l) /\ l.call \in Callers /\ l.id \in Ids /\ vm \in View
    BY FormerLoad DEF Inv, Types, Load
  <1> DEFINE u == [vm EXCEPT !.error = "load"]
             v == Finish(u, l.seq)
  <1>3. /\ u \in View /\ u.original = vm.original /\ u.draft = vm.draft
        /\ u.mode = vm.mode
    BY <1>2 DEF View
  <1> HIDE DEF u
  <1>4. /\ v \in View /\ v.original = vm.original /\ v.draft = vm.draft
        /\ v.mode = vm.mode
    BY <1>3, FinishedView
  <1>5. Fail(l.call, l.id, v)
    BY DEF LoadFails, u
  <1> HIDE DEF v
  <1>6. vm.mode = "create" => UNCHANGED baseline
    BY <1>5 DEF Fail, Kept, Origin
  <1>7. CASE l.call.why = "saved"
    <2>1. vm' = [Shown(v, l.id) EXCEPT !.mode = "display", !.loading = FALSE, !.error = "none"]
      BY <1>5, <1>7 DEF Fail
    <2> DEFINE w == Shown(v, l.id)
    <2>2. w \in View /\ w.original = l.id /\ w.draft = DraftOf(l.id)
      BY <1>2, <1>4, ShownView
    <2> HIDE DEF w
    <2>3. vm'.original = l.id /\ vm'.draft = DraftOf(l.id) /\ vm'.mode = "display"
      BY <2>1, <2>2 DEF View, w
    <2>4. l.seq = loadSeq /\ vm.mode = "display"
      BY <1>2, <1>7 DEF Loading
    <2>5. vm'.draft = DraftOf(vm'.original) /\ vm'.original \in Ids \cup {Nothing}
      BY <1>2, <2>3
    <2> QED BY <1>1, <1>6, <2>3, <2>4, <2>5, KeptLoadOver
  <1>8. CASE l.call.why # "saved"
    <2>1. vm' = v
      BY <1>5, <1>8 DEF Fail, Waiting
    <2> QED BY <1>1, <1>4, <1>6, <2>1, KeptLoadOver
  <1> QED BY <1>7, <1>8

LEMMA KeptDefaultsAnswer ==
    ASSUME Inv, Kept, NEW d \in defaults, DefaultsAnswer(d)
    PROVE  Kept' /\ Survives
  <1>1. /\ defaults' = defaults \ {d}
        /\ UNCHANGED <<identity, initSeq, loadSeq, loads, save, deletion, dialog>>
        /\ vm' = IF d.seq = loadSeq THEN [vm EXCEPT !.draft = DraftOf(New)] ELSE vm
        /\ baseline' = IF d.call.why = "copy" \/ d.call.init = initSeq THEN vm'.draft
                                                                       ELSE baseline
    BY DEF DefaultsAnswer
  <1>2. Defaulting(d) /\ Seed(d) /\ vm \in View
    BY DEF Inv, Types, Calls, Kept
  <1>3. Unasked'
    BY <1>1 DEF Kept, Unasked, Leaving
  <1>4. vm'.mode = vm.mode /\ vm'.original = vm.original
    BY <1>1, <1>2 DEF View
  <1>5. \A l \in loads' : Origin(l)'
    BY <1>1, <1>4 DEF Kept, Origin
  <1>6. \A e \in defaults' : Seed(e)'
    BY <1>1 DEF Kept, Seed
  <1>7. CASE d.seq = loadSeq
    <2>1. vm.mode = "create" /\ vm.draft.edits = 0
      BY <1>2, <1>7 DEF Defaulting, Kept, Drafting, LastDefaults
    <2>2. vm'.draft = DraftOf(New) /\ DraftOf(New).edits = 0
      BY <1>1, <1>2, <1>7, DraftsOk DEF View
    <2>3. vm'.draft.edits = 0 /\ vm'.draft.of \notin Ids
      BY <2>2, DraftsOk, NamesAssumption
    <2>4. baseline' = DraftOf(New)
      BY <1>1, <1>2, <1>7, <2>2 DEF Seed
    <2>5. Drafting'
      BY <1>4, <2>1, <2>3, <2>4 DEF Drafting
    <2>6. Survives
      BY <2>1 DEF Survives
    <2> QED BY <1>3, <1>5, <1>6, <2>5, <2>6 DEF Kept
  <1>8. CASE d.seq # loadSeq
    <2>1. vm' = vm /\ baseline' = baseline
      BY <1>1, <1>2, <1>8 DEF Seed
    <2>2. LastDefaults' <=> LastDefaults
      BY <1>1, <1>8 DEF LastDefaults
    <2>3. Drafting'
      BY <1>1, <2>1, <2>2 DEF Kept, Drafting, LastLoad, Editing
    <2>4. Survives
      BY <1>2, <2>1, SameSurvives
    <2> QED BY <1>3, <1>5, <1>6, <2>3, <2>4 DEF Kept
  <1> QED BY <1>7, <1>8

LEMMA KeptType ==
    ASSUME Waiting, Inv, Kept, Type
    PROVE  Kept' /\ Survives
  <1>1. /\ UNCHANGED <<identity, initSeq, loadSeq, loads, defaults, save,
                       deletion, dialog, handoff, baseline, unread>>
        /\ vm' = [vm EXCEPT !.draft.edits = @ + 1]
        /\ vm.draft.edits < MaxEdits /\ vm.draft.of # Nothing /\ ~vm.loading
        /\ \A d \in defaults : d.seq # loadSeq
    BY DEF Type, Waiting, ControlsLocked
  <1>2. vm \in View /\ vm.draft \in Drafts
    BY ViewsOk DEF Inv, Types
  <1> DEFINE w == [vm.draft EXCEPT !.edits = @ + 1]
  <1>3. vm.draft.edits \in Nat /\ w.edits = vm.draft.edits + 1 /\ w.of = vm.draft.of
    BY <1>2, BoundsAssumption DEF Drafts
  <1>4. vm' = [vm EXCEPT !.draft = w]
    BY <1>1, <1>2 DEF View
  <1> HIDE DEF w
  <1>5. vm'.mode = vm.mode /\ vm'.original = vm.original /\ vm'.draft = w
    BY <1>2, <1>4 DEF View
  <1>6. ~LastLoad /\ ~LastDefaults
    BY <1>1 DEF Inv, Calls, Loading, LastLoad, LastDefaults
  <1>7. Drafting'
    BY <1>1, <1>3, <1>5, <1>6 DEF Kept, Drafting, LastLoad, LastDefaults
  <1>8. Unasked'
    BY <1>1 DEF Kept, Unasked, Leaving
  <1>9. (\A l \in loads' : Origin(l)') /\ (\A d \in defaults' : Seed(d)')
    BY <1>1, <1>5 DEF Kept, Origin, Seed
  <1>10. Survives
    BY <1>3, <1>5 DEF Survives, Editing
  <1> QED BY <1>7, <1>8, <1>9, <1>10 DEF Kept

\* Edit and Reset: a clone of the record shown, with no edits.
LEMMA KeptCloned ==
    ASSUME Inv, Kept, UNCHANGED <<initSeq, loadSeq, loads, defaults, dialog, baseline>>,
           vm'.original = vm.original, vm'.draft = DraftOf(vm.original),
           vm'.mode = vm.mode \/ (vm.mode = "display" /\ vm'.mode = "edit")
    PROVE  Kept'
  <1>1. vm'.draft.edits = 0 /\ vm'.draft.of = vm.original
    BY ViewsOk, DraftsOk DEF Inv, Types
  <1>2. vm'.mode = "create" => vm'.draft.of \notin Ids
    BY <1>1, NamesAssumption DEF Inv, Shows
  <1>3. Drafting'
    BY <1>1, <1>2 DEF Kept, Drafting, LastLoad, LastDefaults
  <1>4. Unasked'
    BY DEF Kept, Unasked, Leaving
  <1>5. (\A l \in loads' : Origin(l)') /\ (\A d \in defaults' : Seed(d)')
    BY DEF Kept, Origin, Seed
  <1> QED BY <1>3, <1>4, <1>5 DEF Kept

LEMMA KeptEdit ==
    ASSUME Inv, Kept, Edit
    PROVE  Kept' /\ Survives
  <1>1. /\ vm.mode = "display" /\ vm.original # Nothing /\ vm' = Edited(vm) /\ vm \in View
        /\ UNCHANGED <<initSeq, loadSeq, loads, defaults, dialog, baseline>>
    BY DEF Edit, Inv, Types
  <1>2. vm'.original = vm.original /\ vm'.mode = "edit" /\ vm'.draft = DraftOf(vm.original)
    BY <1>1, EditedView
  <1>3. Survives
    BY <1>1 DEF Survives, Editing
  <1> QED BY <1>1, <1>2, <1>3, KeptCloned

LEMMA KeptReset ==
    ASSUME Inv, Kept, Reset
    PROVE  Kept'
  <1>1. /\ vm' = [vm EXCEPT !.draft = DraftOf(vm.original)] /\ vm \in View
        /\ UNCHANGED <<initSeq, loadSeq, loads, defaults, dialog, baseline>>
    BY DEF Reset, Inv, Types
  <1>2. vm'.original = vm.original /\ vm'.mode = vm.mode /\ vm'.draft = DraftOf(vm.original)
    BY <1>1 DEF View
  <1> QED BY <1>1, <1>2, KeptCloned

LEMMA NoneAsked == NoDialog.kind # "leave"
  BY DEF NoDialog

\* A page in display mode has no defaults of its own under way.
LEMMA PastDisplayed ==
    ASSUME Inv, Kept, vm.mode # "create", UNCHANGED initSeq
    PROVE  Past
  BY DEF Inv, Calls, Defaulting, Kept, Seed, Past

LEMMA KeptNavigate ==
    ASSUME Waiting, Inv, Kept, NEW to, Navigate(to)
    PROVE  Kept' /\ Survives
  <1>1. ~Leaving /\ \A d \in defaults : d.call.why # "copy"
    BY DEF Navigate, Waiting
  <1>2. vm \in View /\ Keeps(handoff)
    BY DEF Inv, Types
  <1>3. CASE ~Dirty /\ Identify(vm, handoff, to) /\ UNCHANGED dialog
    <2>1. Kept'
      BY <1>1, <1>2, <1>3, KeptIdentified
    <2>2. Survives
      BY <1>3, EditsAreDirty DEF Survives
    <2> QED BY <2>1, <2>2
  <1>4. CASE UNCHANGED <<identity, initSeq, vm, loadSeq, loads, defaults, handoff, baseline>>
    BY <1>1, <1>4, KeptSame
  <1> QED BY <1>1, <1>3, <1>4 DEF Navigate

LEMMA KeptReload ==
    ASSUME Waiting, Inv, Kept, Reload, vm.mode # "create", dialog' \in {dialog, NoDialog}
    PROVE  Kept'
  <1> DEFINE call == Call("refresh", initSeq)
  <1>1. UNCHANGED <<initSeq, defaults>>
    BY DEF Reload
  <1>2. CASE identity \in Ids /\ BeginDisplay(vm, handoff, identity, call)
    <2>1. /\ vm \in View /\ Keeps(handoff) /\ initSeq \in Nat
          /\ baseline \in Drafts /\ loadSeq \in Nat
      BY DEF Inv, Types
    <2>2. call \in Callers /\ call.why = "refresh" /\ call.init = initSeq
      BY <2>1 DEF Call, Callers, Whys
    <2> HIDE DEF call
    <2>3. Displays(vm, identity, call)
      BY <1>2, <2>1, <2>2, Displayed
    <2>4. Past
      BY <1>1, PastDisplayed
    <2> QED BY <1>1, <1>2, <2>1, <2>2, <2>3, <2>4, KeptOpened
  <1>3. CASE UNCHANGED <<vm, loadSeq, loads, baseline>>
    <2>1. dialog'.kind = "leave" => ~Leaving /\ \A d \in defaults : d.call.why # "copy"
      BY NoneAsked DEF Kept, Unasked
    <2> QED BY <1>1, <1>3, <2>1, KeptSame
  <1> QED BY <1>2, <1>3 DEF Reload

LEMMA KeptRefresh ==
    ASSUME Waiting, Inv, Kept, Refresh
    PROVE  Kept' /\ Survives
  <1>1. CASE /\ dialog' = [kind |-> "refresh", to |-> Nothing]
             /\ UNCHANGED <<identity, initSeq, vm, loadSeq, loads, defaults, handoff, baseline>>
    BY <1>1, KeptSame
  <1>2. CASE ~Dirty /\ Reload /\ UNCHANGED dialog
    <2>1. Kept'
      BY <1>2, KeptReload DEF Refresh
    <2>2. Survives
      BY <1>2, EditsAreDirty DEF Survives
    <2> QED BY <2>1, <2>2
  <1>3. vm.mode = "display" => ~Dirty
    BY DEF Dirty
  <1>4. vm.mode = "display" \/ ~Leaving
    BY DEF Refresh, Waiting
  <1> QED BY <1>1, <1>2, <1>3, <1>4 DEF Refresh

LEMMA KeptCopy ==
    ASSUME Waiting, Inv, Kept, Copy
    PROVE  Kept' /\ Survives
  <1> DEFINE call == Call("copy", initSeq)
  <1>1. /\ vm.mode = "display" /\ dialog = NoDialog /\ loads = {}
        /\ BeginCreate(call) /\ UNCHANGED <<initSeq, loads, dialog>>
    BY DEF Copy, OnPage, Waiting
  <1>2. initSeq \in Nat
    BY DEF Inv, Types
  <1>3. call \in Callers /\ call.init = initSeq
    BY <1>2 DEF Call, Callers, Whys
  <1> HIDE DEF call
  <1>4. Past
    BY <1>1, PastDisplayed
  <1>5. Kept'
    BY <1>1, <1>2, <1>3, <1>4, NoneAsked, KeptCreated
  <1>6. Survives
    BY <1>1 DEF Survives, Editing
  <1> QED BY <1>5, <1>6

LEMMA KeptLeave ==
    ASSUME Waiting, Inv, Kept, Leave, dialog' = NoDialog
    PROVE  Kept'
  <1> DEFINE call == Call("cancel", initSeq)
  <1>1. UNCHANGED <<initSeq, defaults>> /\ vm \in View
    BY DEF Leave, Inv, Types
  <1>2. CASE UNCHANGED <<vm, loadSeq, loads, handoff, baseline>>
    BY <1>1, <1>2, NoneAsked, KeptSame
  <1>3. CASE /\ vm.mode = "edit" /\ identity \in Ids
             /\ BeginDisplay(vm, handoff, identity, call)
    <2>1. /\ Keeps(handoff) /\ initSeq \in Nat
          /\ baseline \in Drafts /\ loadSeq \in Nat
      BY DEF Inv, Types
    <2>2. call \in Callers /\ call.init = initSeq
      BY <2>1 DEF Call, Callers, Whys
    <2> HIDE DEF call
    <2>3. Displays(vm, identity, call)
      BY <1>1, <1>3, <2>1, <2>2, Displayed
    <2>4. Past
      BY <1>1, <1>3, PastDisplayed
    <2> QED BY <1>1, <1>3, <2>1, <2>2, <2>3, <2>4, NoneAsked, KeptOpened
  <1>4. CASE vm.mode = "edit" /\ UNCHANGED <<vm, loadSeq, loads, handoff>>
    BY <1>1, <1>4, NoneAsked, KeptSame
  <1> QED BY <1>2, <1>3, <1>4 DEF Leave

LEMMA KeptCancel ==
    ASSUME Waiting, Inv, Kept, Cancel
    PROVE  Kept' /\ Survives
  <1>1. CASE /\ dialog' = [kind |-> "cancel", to |-> Nothing]
             /\ UNCHANGED <<identity, initSeq, vm, loadSeq, loads, defaults, handoff, baseline>>
    BY <1>1, KeptSame
  <1>2. CASE ~Dirty /\ Leave /\ UNCHANGED dialog
    <2>1. dialog' = NoDialog
      BY <1>2 DEF Cancel, OnPage
    <2>2. Kept'
      BY <1>2, <2>1, KeptLeave
    <2>3. Survives
      BY <1>2, EditsAreDirty DEF Survives
    <2> QED BY <2>2, <2>3
  <1> QED BY <1>1, <1>2 DEF Cancel, Waiting

LEMMA KeptConfirm ==
    ASSUME Waiting, Inv, Kept, Refreshing, Confirm
    PROVE  Kept'
  <1>1. dialog' = NoDialog /\ vm \in View /\ Keeps(handoff)
    BY DEF Confirm, Inv, Types
  <1>2. CASE dialog.kind = "leave" /\ Identify(vm, handoff, dialog.to)
    <2>1. ~Leaving /\ \A d \in defaults : d.call.why # "copy"
      BY <1>2 DEF Kept, Unasked
    <2> QED BY <1>1, <1>2, <2>1, KeptIdentified
  <1>3. CASE Leave
    BY <1>1, <1>3, KeptLeave
  <1>4. CASE /\ Remove(dialog.to)
             /\ UNCHANGED <<initSeq, loadSeq, loads, defaults, handoff, baseline>>
    <2>1. vm'.mode = vm.mode /\ vm'.original = vm.original /\ vm'.draft = vm.draft
      BY <1>1, <1>4 DEF Remove, View
    <2> QED BY <1>1, <1>4, <2>1, NoneAsked, KeptSame
  <1>5. CASE dialog.kind = "refresh" /\ Reload
    <2>1. vm.mode # "create"
      BY <1>5 DEF Refreshing, Kept, Drafting
    <2> QED BY <1>1, <1>5, <2>1, KeptReload
  <1>6. CASE UNCHANGED <<identity, initSeq, vm, loadSeq, loads, defaults, handoff, baseline>>
    BY <1>1, <1>6, NoneAsked, KeptSame
  <1> QED BY <1>2, <1>3, <1>4, <1>5, <1>6 DEF Confirm

\* The steps that only open or close a dialog, or begin, refuse or end a save.
LEMMA KeptAside ==
    ASSUME Inv, Kept, AskDelete \/ Dismiss \/ HandleSubmit \/ Submit \/ RefuseSubmit \/ SaveFails
    PROVE  Kept' /\ Survives
  <1>1. UNCHANGED <<initSeq, loadSeq, loads, defaults, baseline>> /\ vm \in View
    BY DEF AskDelete, Dismiss, HandleSubmit, Submit, RefuseSubmit, SaveFails, Inv, Types
  <1>2. vm'.mode = vm.mode /\ vm'.original = vm.original /\ vm'.draft = vm.draft
    <2>1. CASE UNCHANGED vm
      BY <2>1
    <2>2. CASE \/ vm' = [vm EXCEPT !.loading = TRUE, !.error = "none"]
               \/ vm' = [vm EXCEPT !.loading = FALSE, !.error = "save"]
      BY <1>1, <2>2 DEF View
    <2> QED BY <2>1, <2>2 DEF AskDelete, Dismiss, HandleSubmit, Submit, RefuseSubmit, SaveFails
  <1>3. dialog' = dialog \/ dialog'.kind # "leave"
    BY NoneAsked DEF AskDelete, Dismiss, HandleSubmit, Submit, RefuseSubmit, SaveFails
  <1>4. dialog'.kind = "leave" => ~Leaving /\ \A d \in defaults : d.call.why # "copy"
    BY <1>3 DEF Kept, Unasked
  <1> QED BY <1>1, <1>2, <1>4, KeptSame

LEMMA KeptSaveAnswers ==
    ASSUME Waiting, Inv, Kept, SaveAnswers
    PROVE  Kept' /\ save.draft = vm.draft
  <1>1. /\ loads = {} /\ defaults = {} /\ dialog = NoDialog /\ dialog' = dialog
        /\ save.kind = "create" => save.mode = "create"
        /\ save.kind = "update" => save.draft.of \in Ids
        /\ save.draft = vm.draft
    BY AwaitingSave DEF SaveAnswers
  <1>2. /\ vm \in View /\ Keeps(handoff) /\ initSeq \in Nat /\ loadSeq \in Nat
        /\ baseline \in Drafts
    BY DEF Inv, Types
  <1>3. CASE save.kind = "create"
    <2> DEFINE u == Shown(vm, Fresh)
               v == [u EXCEPT !.loading = FALSE]
               w == [v EXCEPT !.mode = "display"]
               h == [handoff EXCEPT ![Fresh] = Fresh]
    <2>1. Identify(w, h, Fresh)
      BY <1>1, <1>3 DEF SaveAnswers
    <2>2. Fresh \in Ids
      BY DEF Ids
    <2>3. u \in View
      BY <1>2, <2>2, ShownView
    <2> HIDE DEF u
    <2>4. w \in View
      BY <2>3 DEF View, Modes
    <2>5. Keeps(h)
      BY <1>2, <2>2 DEF Keeps, Cache
    <2> HIDE DEF w, h
    <2>6. ~Leaving
      BY <1>1 DEF Leaving
    <2> QED BY <1>1, <2>1, <2>4, <2>5, <2>6, KeptIdentified
  <1>4. CASE /\ save.kind = "update"
             /\ vm' = [Shown(vm, save.draft.of) EXCEPT !.mode = "display", !.loading = FALSE]
             /\ UNCHANGED <<loads, defaults>>
    <2> DEFINE u == Shown(vm, save.draft.of)
    <2>1. u \in View
      BY <1>1, <1>2, <1>4, ShownView
    <2> HIDE DEF u
    <2>2. vm'.mode = "display"
      BY <1>4, <2>1 DEF View, u
    <2> QED BY <1>1, <1>4, <2>2, KeptQuiet
  <1>5. CASE /\ save.kind = "update"
             /\ BeginDisplay(Shown(vm, save.draft.of), handoff, save.draft.of,
                             Call("saved", initSeq))
             /\ UNCHANGED <<initSeq, defaults>>
    <2> DEFINE u == Shown(vm, save.draft.of)
               call == Call("saved", initSeq)
    <2>1. u \in View
      BY <1>1, <1>2, <1>5, ShownView
    <2>2. call \in Callers /\ call.why = "saved" /\ call.init = initSeq
      BY <1>2 DEF Call, Callers, Whys
    <2> HIDE DEF u, call
    <2>3. Displays(u, save.draft.of, call)
      BY <1>1, <1>2, <1>5, <2>1, <2>2, Displayed DEF u, call
    <2>4. Past
      BY <1>1 DEF Past
    <2> QED BY <1>1, <1>2, <1>5, <2>1, <2>2, <2>3, <2>4, KeptOpened
  <1> QED BY <1>1, <1>3, <1>4, <1>5 DEF SaveAnswers

LEMMA KeptDeleteAnswers ==
    ASSUME Inv, Kept, DeleteAnswers
    PROVE  Kept'
  <1>1. deletion # NoDeletion /\ UNCHANGED <<initSeq, loadSeq, loads, defaults, dialog, baseline>>
    BY DEF DeleteAnswers, NoDeletion
  <1>2. loads = {} /\ defaults = {} /\ dialog = NoDialog /\ vm \in View
    BY <1>1 DEF Inv, Types, Deletes, Settled
  <1>3. CASE vm'.mode = "display"
    BY <1>1, <1>2, <1>3, KeptQuiet
  <1>4. CASE vm' = [vm EXCEPT !.loading = FALSE, !.error = "save"]
    <2>1. vm'.mode = vm.mode /\ vm'.original = vm.original /\ vm'.draft = vm.draft
      BY <1>2, <1>4 DEF View
    <2> QED BY <1>1, <1>2, <2>1, NoneAsked, KeptSame
  <1> QED BY <1>3, <1>4 DEF DeleteAnswers

LEMMA InitKept == Init => Kept
  <1> SUFFICES ASSUME Init PROVE Kept
    OBVIOUS
  <1> DEFINE call == Call("open", 1)
  <1>1. call.why = "open" /\ call.init = 1
    BY DEF Call
  <1> HIDE DEF call
  <1>2. /\ initSeq = 1 /\ loadSeq = 1 /\ dialog.kind # "leave"
        /\ \/ /\ loads = {[seq |-> 1, id |-> identity, call |-> call, aborted |-> FALSE]}
              /\ defaults = {} /\ vm.mode = "display"
           \/ /\ loads = {} /\ defaults = {[seq |-> 1, call |-> call]}
              /\ vm.mode = "create" /\ vm.draft = DraftOf(New)
    BY NoneAsked DEF Init, call
  <1>3. DraftOf(New).edits = 0 /\ DraftOf(New).of \notin Ids
    BY DraftsOk, NamesAssumption
  <1>4. Drafting
    <2>1. CASE loads = {} /\ vm.mode = "create" /\ vm.draft = DraftOf(New) /\ LastDefaults
      <3>1. vm.draft.edits = 0 /\ vm.draft.of \notin Ids
        BY <1>3, <2>1
      <3> QED BY <2>1, <3>1 DEF Drafting
    <2>2. CASE defaults = {} /\ vm.mode = "display"
      BY <2>2 DEF Drafting, LastDefaults, Editing
    <2>3. defaults = {[seq |-> 1, call |-> call]} => LastDefaults
      BY <1>2 DEF LastDefaults
    <2> QED BY <1>2, <2>1, <2>2, <2>3
  <1>5. Unasked
    BY <1>2 DEF Unasked
  <1>6. ASSUME NEW l \in loads PROVE Origin(l)
    BY <1>1, <1>2 DEF Origin
  <1>7. ASSUME NEW d \in defaults PROVE Seed(d)
    BY <1>1, <1>2 DEF Seed
  <1> QED BY <1>4, <1>5, <1>6, <1>7 DEF Kept

\* What takes the edits away, if a step does.
Takes == (save.draft = vm.draft /\ SaveAnswers) \/ Reset \/ Confirm \/ DeleteAnswers

LEMMA NextKept ==
    ASSUME Waiting, Inv, Kept, Refreshing, [Next]_vars
    PROVE  Kept' /\ (Survives \/ Takes)
  <1>1. CASE Next
    <2>1. CASE Loaded
      BY <2>1, KeptLoadAnswers, KeptLoadFails DEF Loaded
    <2>2. CASE Defaulted
      BY <2>2, KeptDefaultsAnswer DEF Defaulted
    <2>3. CASE Saved
      BY <2>3, KeptAside, KeptSaveAnswers DEF Saved, Takes
    <2>4. CASE DeleteAnswers
      BY <2>4, KeptDeleteAnswers DEF Takes
    <2>5. CASE User
      BY <2>5, KeptNavigate, KeptType, KeptEdit, KeptReset, KeptRefresh, KeptCopy,
         KeptCancel, KeptAside, KeptConfirm DEF User, Takes
    <2> QED BY <1>1, <2>1, <2>2, <2>3, <2>4, <2>5 DEF Next
  <1>2. CASE UNCHANGED vars
    <2>1. dialog'.kind = "leave" => ~Leaving /\ \A d \in defaults : d.call.why # "copy"
      BY <1>2 DEF vars, Kept, Unasked
    <2> QED BY <1>2, <2>1, KeptSame DEF vars
  <1> QED BY <1>1, <1>2

\* Only Refresh asks whether to discard the edits for a refresh.
LEMMA AskedByRefresh ==
    ASSUME Inv, [Next]_vars
    PROVE  \/ UNCHANGED dialog
           \/ dialog'.kind # "refresh"
           \/ Refresh /\ Dirty /\ UNCHANGED vm
  <1>1. NoDialog.kind # "refresh"
    BY DEF NoDialog
  <1>2. CASE Loaded
    BY <1>2 DEF Loaded, LoadAnswers, LoadFails
  <1>3. CASE Defaulted
    BY <1>3 DEF Defaulted, DefaultsAnswer
  <1>4. CASE Saved
    BY <1>4 DEF Saved, Submit, RefuseSubmit, SaveAnswers, SaveFails
  <1>5. CASE DeleteAnswers
    BY <1>5 DEF DeleteAnswers
  <1>6. CASE \E to \in Records \cup {New} : Navigate(to)
    BY <1>6 DEF Navigate
  <1>7. CASE Type \/ Edit \/ Reset \/ Copy \/ HandleSubmit
    BY <1>7 DEF Type, Edit, Reset, Copy, HandleSubmit
  <1>8. CASE Cancel \/ AskDelete
    BY <1>8 DEF Cancel, AskDelete
  <1>9. CASE Confirm \/ Dismiss
    BY <1>1, <1>9 DEF Confirm, Dismiss
  <1>10. CASE Refresh
    BY <1>10 DEF Refresh
  <1> QED BY <1>2, <1>3, <1>4, <1>5, <1>6, <1>7, <1>8, <1>9, <1>10 DEF Next, User, vars

\* A dialog holds back everything that takes edits away, but its own confirmation.
LEMMA NextRefreshing ==
    ASSUME Waiting, Inv, Kept, Refreshing, [Next]_vars
    PROVE  Refreshing'
  <1> SUFFICES ASSUME dialog'.kind = "refresh"
               PROVE  Editing' /\ vm'.draft.edits > 0 /\ vm'.draft.of \in Ids
    BY DEF Refreshing
  <1>1. NoDialog.kind # "refresh"
    BY DEF NoDialog
  <1>2. CASE UNCHANGED dialog
    <2>1. Editing /\ vm.draft.edits > 0 /\ vm.draft.of \in Ids /\ dialog # NoDialog
      BY <1>1, <1>2 DEF Refreshing
    <2>2. ~SaveAnswers
      BY <2>1, AwaitingSave DEF SaveAnswers
    <2>3. ~Reset /\ ~Confirm
      BY <1>1, <2>1 DEF Reset, OnPage, Confirm
    <2>4. ~DeleteAnswers
      <3>1. deletion = NoDeletion
        BY <2>1 DEF Inv, Deletes
      <3> QED BY <3>1 DEF DeleteAnswers, NoDeletion
    <2>5. Survives
      BY <2>2, <2>3, <2>4, NextKept DEF Takes
    <2>6. "write" \notin Overlaps
      BY DEF Waiting
    <2>7. vm' \in View
      BY <2>6, NextInv DEF Inv, Types
    <2>8. vm.draft.edits \in Nat /\ vm'.draft.edits \in Nat
      BY <2>7, BoundsAssumption DEF Inv, Types, View
    <2> QED BY <2>1, <2>5, <2>8 DEF Survives, Editing
  <1>3. CASE Refresh /\ Dirty /\ UNCHANGED vm
    <2>1. vm.mode = "edit" /\ vm.original # Nothing /\ vm.draft.edits > 0
      BY <1>3 DEF Refresh, Dirty
    <2>2. vm.draft.of \in Ids
      BY <2>1, ViewsOk DEF Inv, Types, Shows
    <2> QED BY <1>3, <2>1, <2>2 DEF Editing
  <1> QED BY <1>2, <1>3, AskedByRefresh

\* A user who waits for what he asked for loses nothing he typed to a load, a
\* DefaultGet or a save that answers, fails or is superseded: only his own reset,
\* confirmation or delete, or the save that wrote it, takes it away.
THEOREM EditsKept == Overlaps = {} /\ ~OpensInEdit => (Spec => EditsSurvive)
  <1> SUFFICES ASSUME Waiting PROVE Spec => EditsSurvive
    BY DEF Waiting
  <1>1. "write" \notin Overlaps
    BY DEF Waiting
  <1>2. Spec => []Inv
    BY <1>1, Invariant
  <1>3. Inv /\ Kept /\ Refreshing /\ [Next]_vars => Kept' /\ Refreshing'
    BY NextKept, NextRefreshing
  <1>4. Inv /\ Kept /\ Refreshing /\ [Next]_vars =>
          [Editing /\ vm.draft.edits > 0
             /\ ~(/\ vm'.mode \in {"edit", "create"}
                  /\ vm'.draft.of = vm.draft.of
                  /\ vm'.draft.edits >= vm.draft.edits)
           => \/ save.draft = vm.draft /\ SaveAnswers
              \/ Reset \/ Confirm \/ DeleteAnswers]_vars
    BY NextKept DEF Survives, Takes
  <1>5. Init => Refreshing
    BY DEF Init, NoDialog, Refreshing
  <1> QED BY <1>2, <1>3, <1>4, <1>5, InitKept, PTL DEF Spec, EditsSurvive

================================================================================
