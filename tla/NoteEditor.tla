------------------------------ MODULE NoteEditor ------------------------------
(***************************************************************************)
(* The note pane of the web application (NotePane.tsx) with the editor in  *)
(* it (LivePreviewEditor.tsx): one pane that shows one note after another, *)
(* a title and a body with a timer each for saving, the source view with a *)
(* third, and the requests that load and save.                             *)
(*                                                                         *)
(* Nothing orders these requests, and callbacks keep what they saw when    *)
(* they were made.  What that can do is remembered: "mixed" are the notes  *)
(* into which text of another may come, "excused" those with an edit that  *)
(* nothing will save.                                                      *)
(***************************************************************************)
EXTENDS Naturals

CONSTANTS
  Notes,
  First,       \* the note that is open at the start
  MaxActs      \* bound: what the user does and requests that fail, in one behaviour

ASSUME NotesAssumption ==
  /\ {"none", "unread"} \cap Notes = {} /\ First \in Notes
  /\ MaxActs \in Nat \ {0}

VARIABLES
  files,       \* note -> [title, body] on the server
  pane,        \* state and refs of the pane and of the editor in it
  loads,       \* requests for a note, with the answer once it is on its way
  puts,        \* requests that save
  late,        \* the timer of the source view, which outlives views and notes
  mixed, excused, acts

noteVars == <<files, pane, loads, puts, late, mixed, excused, acts>>

NoText == [of |-> "none", n |-> 0]
NotSet == [note |-> "none", body |-> NoText, saving |-> FALSE]
Untitled == [of |-> "none", n |-> 1]
NotRead == [title |-> [of |-> "unread", n |-> 0], body |-> NoText]
Original(n) == [title |-> [of |-> n, n |-> 0], body |-> [of |-> n, n |-> 0]]

\* The pane has just been made.  bodyInitial is what it gives an editor to begin with.
NotesInit ==
  /\ files = [n \in Notes |-> Original(n)]
  /\ pane = [note |-> First, open |-> TRUE, loading |-> TRUE, source |-> FALSE, title |-> NoText,
             body |-> NoText, bodyInitial |-> NoText, titleDirty |-> FALSE, saving |-> FALSE,
             titleTimer |-> FALSE, bodyTimer |-> FALSE, editorSaving |-> FALSE]
  /\ loads = {[id |-> 0, note |-> First, text |-> NotRead]} /\ puts = {} /\ late = NotSet
  /\ mixed = {} /\ excused = {} /\ acts = 0

Shown == pane.open /\ ~pane.loading
Text == [title |-> pane.title, body |-> pane.body]

Act == acts < MaxActs /\ acts' = acts + 1

-----------------------------------------------------------------------------
(* Typing *)

Type == Shown /\ Act /\ UNCHANGED <<files, loads, puts, mixed, excused>>

\* onTitleChange, and the effect that sets the timer anew.
EditTitle ==
  /\ Type
  /\ pane' = [pane EXCEPT !.title = [of |-> pane.note, n |-> acts + 1], !.titleDirty = TRUE, !.titleTimer = TRUE]
  /\ UNCHANGED late

\* handleMarkdownChange of the editor, or onSourceBodyChange with what it sees of "saving".
EditBody ==
  LET body == [of |-> pane.note, n |-> acts + 1]
  IN /\ Type
     /\ IF pane.source
        THEN /\ pane' = [pane EXCEPT !.body = body]
             /\ late' = [note |-> pane.note, body |-> body, saving |-> pane.saving]
        ELSE pane' = [pane EXCEPT !.body = body, !.bodyTimer = TRUE] /\ UNCHANGED late

-----------------------------------------------------------------------------
(* Saving *)

\* joinTitleAndBody.
Document(title, body) == [title |-> IF title = NoText THEN Untitled ELSE title, body |-> body]

Put(by, note, text) == [by |-> by, note |-> note, text |-> text, written |-> FALSE]

\* Another text of the same note is on its way, and either may arrive last.
Crossing(note, text) == {n \in {note} : \E p \in puts : p.note = n /\ ~p.written /\ p.text # text}

\* doSave of the pane takes the body of the editor, or without an editor the one it was given last.
PaneText == Document(pane.title, IF pane.source \/ pane.loading THEN pane.bodyInitial ELSE pane.body)

\* Bug: the title is the one the editor was made with.
EditorText_AtMount == Document(Original(pane.note).title, pane.body)

\* doSave of the editor: transformBeforeSave reads the title from a ref, so it is the newest.
EditorText == Document(pane.title, pane.body)

\* setSaving makes a new doSave, and that runs the effect of the title timer again.
Saving == [pane EXCEPT !.saving = TRUE, !.titleTimer = pane.titleDirty /\ ~pane.loading]

\* Excused is, in the source view, a body older than the one that is shown; mixed, while another
\* note is loading, the text of the one before.
StaleText == {n \in {pane.note} : PaneText # Text}
OtherText == {n \in {pane.note} : pane.loading}

TitleTimer ==
  /\ Shown /\ pane.titleTimer
  /\ IF pane.saving
     THEN pane' = [pane EXCEPT !.titleTimer = FALSE] /\ UNCHANGED <<puts, excused>>
     ELSE /\ pane' = Saving /\ puts' = puts \cup {Put("pane", pane.note, PaneText)}
          /\ excused' = excused \cup StaleText \cup Crossing(pane.note, PaneText)
  /\ UNCHANGED <<files, loads, late, mixed, acts>>

\* The editor's timer of two seconds; one of the source view, of 0.8, would have been set before.
\* Excused: a save is running, with an older text, and nothing starts another.
BodyTimer ==
  /\ Shown /\ pane.bodyTimer /\ late = NotSet
  /\ pane' = [pane EXCEPT !.bodyTimer = FALSE, !.editorSaving = TRUE]
  /\ IF pane.editorSaving
     THEN excused' = excused \cup {pane.note} /\ UNCHANGED puts
     ELSE /\ puts' = puts \cup {Put("editor", pane.note, EditorText)}
          /\ excused' = excused \cup Crossing(pane.note, EditorText)
  /\ UNCHANGED <<files, loads, late, mixed, acts>>

\* Command-S: the listeners of pane and editor, as far as they are there and not saving.
Command ==
  LET editor == Shown /\ ~pane.source /\ ~pane.editorSaving
      sent == {p \in {Put("pane", pane.note, PaneText)} : ~pane.saving}
              \cup {p \in {Put("editor", pane.note, EditorText)} : editor}
  IN /\ pane.open /\ sent # {} /\ Act
     /\ puts' = puts \cup sent
     /\ pane' = [(IF pane.saving THEN pane ELSE Saving) EXCEPT !.editorSaving = @ \/ editor]
     /\ excused' = excused \cup Crossing(pane.note, PaneText) \cup StaleText
     /\ mixed' = mixed \cup OtherText
     /\ UNCHANGED <<files, loads, late>>

\* The timer of the source view: its note and body are those of its making, and so is what it
\* knows of "saving"; the title is the one the pane has by now.
LateTimer ==
  LET text == Document(pane.title, late.body)
  IN /\ late # NotSet /\ late' = NotSet
     /\ IF late.saving
        THEN excused' = excused \cup {late.note} /\ UNCHANGED <<pane, puts, mixed>>
        ELSE /\ puts' = puts \cup {Put("source", late.note, text)}
             /\ pane' = IF pane.open /\ ~pane.saving THEN Saving ELSE pane
             /\ excused' = excused \cup Crossing(late.note, text)
             /\ mixed' = mixed \cup {n \in {late.note} : pane.note # n \/ pane.loading}
     /\ UNCHANGED <<files, loads, acts>>

\* PUT /api/tree.
Write(p) ==
  /\ ~p.written
  /\ files' = [files EXCEPT ![p.note] = p.text]
  /\ puts' = (puts \ {p}) \cup {[p EXCEPT !.written = TRUE]}
  /\ UNCHANGED <<pane, loads, late, mixed, excused, acts>>

\* The pane's end of a save: the title is no longer dirty, or after an error still is, and the
\* effect sets its timer again, which tries again.
Answered(ok, body) ==
  LET dirty == pane.titleDirty /\ ~ok
  IN [pane EXCEPT !.saving = FALSE, !.titleDirty = dirty, !.bodyInitial = body,
                  !.titleTimer = IF pane.saving \/ body # pane.bodyInitial THEN dirty /\ ~pane.loading ELSE @]

\* Excused: a title typed while a save was running.
Saved(p) ==
  /\ p.written /\ puts' = puts \ {p}
  /\ pane' = CASE p.by = "orphan" \/ ~pane.open -> pane
               [] p.by = "editor" /\ pane.open  -> [pane EXCEPT !.editorSaving = FALSE]
               [] p.by = "pane" /\ pane.open    -> Answered(TRUE, pane.bodyInitial)
               [] p.by = "source" /\ pane.open  -> Answered(TRUE, p.text.body)
  /\ excused' = excused \cup {n \in {pane.note} : /\ p.by \in {"pane", "source"} /\ pane.titleDirty
                                                  /\ p.text.title # pane.title}
  /\ mixed' = mixed \cup {n \in {pane.note} : p.by = "source" /\ p.note # n}
  /\ UNCHANGED <<files, loads, late, acts>>

\* Written or not.  Excused: only the pane tries again, as long as it is open and its title dirty.
Refused(p) ==
  /\ Act
  /\ puts' = puts \ {p}
  /\ pane' = CASE p.by = "orphan" \/ ~pane.open -> pane
               [] p.by = "editor" /\ pane.open  -> [pane EXCEPT !.editorSaving = FALSE]
               [] OTHER                         -> Answered(FALSE, pane.bodyInitial)
  /\ excused' = excused \cup {n \in {p.note} : p.by # "pane" \/ ~pane.open}
  /\ UNCHANGED <<files, loads, late, mixed>>

-----------------------------------------------------------------------------
(* Loading, views *)

\* The editor is taken away, and its timer with it: a save it has started ends without it.
Unmounted == {IF p.by = "editor" THEN [p EXCEPT !.by = "orphan"] ELSE p : p \in puts}

\* The pane stays, for another note.
OpenNote(n) ==
  /\ pane.open /\ n # pane.note /\ Act
  /\ pane' = [pane EXCEPT !.note = n, !.loading = TRUE, !.titleTimer = FALSE, !.bodyTimer = FALSE,
                          !.editorSaving = FALSE]
  /\ puts' = Unmounted
  /\ loads' = loads \cup {[id |-> acts', note |-> n, text |-> NotRead]}
  /\ UNCHANGED <<files, late, mixed, excused>>

Read(l) ==
  /\ l.text = NotRead
  /\ loads' = (loads \ {l}) \cup {[l EXCEPT !.text = files[l.note]]}
  /\ UNCHANGED <<files, pane, puts, late, mixed, excused, acts>>

\* reloadFromDisk does not ask which note the pane shows by now; an editor that is there keeps its
\* body.  Mixed: the text of another note.  Excused: a text that a save is about to replace.
Loaded(l) ==
  LET editor == Shown /\ ~pane.source
      behind == files[l.note] # l.text \/ late.note = l.note \/ \E p \in puts : p.note = l.note
  IN /\ l.text # NotRead /\ loads' = loads \ {l}
     /\ pane' = IF ~pane.open THEN pane
                ELSE [pane EXCEPT !.loading = FALSE, !.title = l.text.title, !.titleDirty = FALSE,
                                  !.titleTimer = FALSE, !.bodyInitial = l.text.body,
                                  !.body = IF editor THEN @ ELSE l.text.body]
     /\ mixed' = mixed \cup {n \in {pane.note} : l.note # n}
     /\ excused' = IF l.note # pane.note THEN excused
                   ELSE IF pane.loading /\ ~behind THEN excused \ {l.note} ELSE excused \cup {l.note}
     /\ UNCHANGED <<files, puts, late, acts>>

\* The pane shows what it showed before, or nothing, under the new name.
NotLoaded(l) ==
  /\ Act /\ loads' = loads \ {l}
  /\ \/ pane' = [pane EXCEPT !.loading = FALSE, !.titleTimer = IF pane.loading THEN pane.titleDirty ELSE @,
                             !.body = IF pane.loading /\ ~pane.source THEN pane.bodyInitial ELSE @]
     \/ /\ pane.open
        /\ pane' = [pane EXCEPT !.loading = FALSE, !.title = NoText, !.titleDirty = FALSE, !.titleTimer = FALSE,
                                !.bodyInitial = NoText, !.body = IF Shown /\ ~pane.source THEN @ ELSE NoText]
  /\ mixed' = mixed \cup {pane.note}
  /\ UNCHANGED <<files, puts, late, excused>>

\* switchMode.  Excused: a body whose timer goes with the editor.
Switch ==
  /\ Shown /\ Act
  /\ pane' = IF pane.source
             THEN [pane EXCEPT !.source = FALSE, !.bodyInitial = pane.body,
                               !.titleTimer = IF pane.body # pane.bodyInitial THEN pane.titleDirty ELSE @]
             ELSE [pane EXCEPT !.source = TRUE, !.bodyTimer = FALSE, !.editorSaving = FALSE]
  /\ puts' = Unmounted
  /\ excused' = excused \cup {n \in {pane.note} : pane.bodyTimer}
  /\ UNCHANGED <<files, loads, late, mixed>>

\* Back to the chat.  Excused: what waits for a timer other than that of the source view.
Leave ==
  /\ Shown /\ Act
  /\ pane' = [pane EXCEPT !.open = FALSE, !.titleTimer = FALSE, !.bodyTimer = FALSE, !.editorSaving = FALSE]
  /\ puts' = Unmounted
  /\ excused' = excused \cup {n \in {pane.note} : pane.titleDirty \/ pane.bodyTimer}
  /\ UNCHANGED <<files, loads, late, mixed>>

NotesNext ==
  \/ EditTitle \/ EditBody \/ TitleTimer \/ BodyTimer \/ Command \/ LateTimer \/ Switch \/ Leave
  \/ \E p \in puts : Write(p) \/ Saved(p) \/ Refused(p)
  \/ \E n \in Notes : OpenNote(n)
  \/ \E l \in loads : Read(l) \/ Loaded(l) \/ NotLoaded(l)

-----------------------------------------------------------------------------
NotesTypeOK ==
  LET texts == [of : Notes \cup {"none"}, n : 0..MaxActs]
      pairs == [title : texts, body : texts]
  IN /\ files \in [Notes -> pairs]
     /\ pane \in [note : Notes, open : BOOLEAN, loading : BOOLEAN, source : BOOLEAN, title : texts,
                  body : texts, bodyInitial : texts, titleDirty : BOOLEAN, saving : BOOLEAN,
                  titleTimer : BOOLEAN, bodyTimer : BOOLEAN, editorSaving : BOOLEAN]
     /\ puts \subseteq [by : {"pane", "editor", "source", "orphan"}, note : Notes, text : pairs, written : BOOLEAN]
     /\ late \in [note : Notes \cup {"none"}, body : texts, saving : BOOLEAN]
     /\ mixed \subseteq Notes /\ excused \subseteq Notes

Quiet == /\ puts = {} /\ loads = {} /\ late = NotSet
         /\ ~(pane.loading \/ pane.titleTimer \/ pane.bodyTimer)

\* When timers and requests have ended, the file of the note in the pane has the title and the body
\* that the pane shows, whichever of the three paths saved them and in whatever order ("the later
\* one wins"); and no note has text of another one.  Excepted are the races named above.
EditsAreSaved ==
  /\ Quiet /\ pane.note \notin mixed \cup excused => files[pane.note] = Text
  /\ \A n \in Notes \ mixed : files[n].title.of = n /\ files[n].body.of = n
=============================================================================
