--------------------------- MODULE StandardDialogs ---------------------------
(***************************************************************************)
(* Dialog (widgets_standarddialogs/dialog.cpp): a page of buttons, each of *)
(* which opens one of Qt's dialogs and shows its answer in a label. Some   *)
(* dialogs begin with what the label shows, or, where the label shows a    *)
(* list, with a member that is kept beside it.                             *)
(*                                                                         *)
(* The dialogs are Qt's (external): one is open at a time, and it ends     *)
(* with an answer or is cancelled. An answer is a sequence of names, of    *)
(* one name but for files; the empty sequence is the empty string.         *)
(***************************************************************************)
EXTENDS Sequences, FiniteSets, Functions

CONSTANTS
  Names,         \* texts, files, directories, colors, fonts
  MaxCallsOpen   \* bound: dialogs opened

Inputs == {"integer", "double"}                    \* ok is all that counts
Texts == {"item", "text", "multiLineText"}         \* ok, and not empty
Files == {"directory", "openFileName", "openFileNames", "saveFileName"}
Messages == {"critical", "information", "question", "warning"}
Kinds == Inputs \cup Texts \cup Files \cup Messages \cup {"color", "font", "error"}

\* the dialogs with options, and how many check boxes there are for them
WithOptions == Files \cup {"color", "font"}

\* the buttons of a message box; the last is what the label says of any other end
MessageButtons(kind) ==
  CASE kind = "critical" -> <<"Abort", "Retry", "Ignore">>
    [] kind = "information" -> <<"OK", "Escape">>
    [] kind = "question" -> <<"Yes", "No", "Cancel">>
    [] kind = "warning" -> <<"Save Again", "Continue">>

Nothing == <<>>
NoDialog == [kind |-> "none", start |-> Nothing, options |-> {}]

VARIABLES
  labels,         \* the text of every label
  openFilesPath,  \* openFilesPath
  checked,        \* the values of the check boxes that are on: color, font, file
  dialog,         \* the dialog that is open: what it was called with
  accepted,       \* history: the last answer every dialog accepted
  calls           \* bounded history: dialogs opened

dialogVars == <<labels, openFilesPath, checked, dialog, accepted, calls>>

BoxOf(kind) == IF kind \in Files THEN "file" ELSE kind

DialogsInit ==
  /\ labels = [k \in Kinds |-> Nothing]
  /\ openFilesPath = Nothing
  /\ checked = [b \in {"color", "font", "file"} |-> {}]
  /\ dialog = NoDialog
  /\ accepted = [k \in Kinds |-> Nothing]
  /\ calls = 0

-----------------------------------------------------------------------------
(* Wrong variants come first, each named after the mistake. *)

\* the whole list is remembered
WholeList(files) == files
\* files[0]
FirstFile(files) == <<files[1]>>

\* the end of a dialog counts as an answer, however it ended
AnyEnd(kind, ok, answer) == TRUE
\* ok, !isEmpty(), isValid() and count(); an error message asks nothing
Accepts(kind, ok, answer) ==
  \/ kind \in Inputs \cup {"font"} /\ ok
  \/ kind \in Texts /\ ok /\ answer # Nothing
  \/ kind \in Files \cup {"color"} /\ answer # Nothing
  \/ kind \in Messages \cup {"error"}

\* Where a dialog begins. A font is looked up by the label's text, which is the font's key
\* and no family, so that this dialog begins with the default font after any answer.
Start(kind) ==
  CASE kind = "openFileNames" -> openFilesPath
    [] kind \in Files \ {"openFileNames"} -> labels[kind]
    [] OTHER -> Nothing

-----------------------------------------------------------------------------

\* a check box of a DialogOptionsWidget is switched
Check(box, option) ==
  /\ dialog = NoDialog
  /\ checked' = [checked EXCEPT ![box] = IF option \in @ THEN @ \ {option} ELSE @ \cup {option}]
  /\ UNCHANGED <<labels, openFilesPath, dialog, accepted, calls>>

\* A button is clicked. value() is the union of the flags that are on; a directory is always
\* asked for with two more.
Open(kind) ==
  /\ dialog = NoDialog
  /\ calls < MaxCallsOpen
  /\ calls' = calls + 1
  /\ dialog' =
       [kind |-> kind, start |-> Start(kind),
        options |-> IF kind \notin WithOptions THEN {}
                    ELSE checked[BoxOf(kind)]
                           \cup IF kind = "directory" THEN {"dontResolveSymlinks", "showDirsOnly"} ELSE {}]
  /\ UNCHANGED <<labels, openFilesPath, checked, accepted>>

Answers(kind) ==
  CASE kind \in Messages -> {<<b>> : b \in Range(MessageButtons(kind))}
    [] kind = "openFileNames" -> {Nothing} \cup {<<n>> : n \in Names} \cup {<<m, n>> : m, n \in Names}
    [] kind \in Inputs \cup {"font", "error"} -> {<<n>> : n \in Names}
    [] OTHER -> {Nothing} \cup {<<n>> : n \in Names}

\* The dialog ends, and the handler that opened it goes on. A message box that is closed
\* otherwise counts as its last button.
End(ok, answer) ==
  LET kind == dialog.kind
  IN /\ dialog # NoDialog
     /\ answer \in Answers(kind)
     /\ IF Accepts(kind, ok, answer)
          THEN /\ labels' = [labels EXCEPT ![kind] = answer]
               /\ openFilesPath' = IF kind = "openFileNames" THEN FirstFile(answer) ELSE openFilesPath
          ELSE UNCHANGED <<labels, openFilesPath>>
     /\ accepted' = [accepted EXCEPT ![kind] = IF ok /\ answer # Nothing THEN answer ELSE @]
     /\ dialog' = NoDialog
     /\ UNCHANGED <<checked, calls>>

\* A dialog that is cancelled returns an empty answer, but for numbers and fonts, which come
\* with ok = false, and message boxes, where no button is any button's else.
Cancelled ==
  \/ dialog.kind \in Inputs \cup {"font"} /\ \E n \in Names : End(FALSE, <<n>>)
  \/ dialog.kind \in Texts \cup Files \cup {"color"} /\ End(FALSE, Nothing)

\* the user answers; an empty text is no answer
Accepted ==
  /\ dialog # NoDialog
  /\ \E answer \in Answers(dialog.kind) : End(TRUE, answer)

DialogsNext ==
  \/ \E box \in {"color", "font", "file"} : Check(box, "dontUseNativeDialog")
  \/ \E kind \in Kinds : Open(kind)
  \/ Cancelled
  \/ Accepted

-----------------------------------------------------------------------------
(* Properties *)

\* Whatever was cancelled in between, a label shows the last answer its dialog was given, and
\* the dialogs that remember begin with it, or with the first of the files.
AnswersKept ==
  /\ labels = accepted
  /\ \A kind \in Files :
       Start(kind) = IF accepted[kind] = Nothing THEN Nothing ELSE <<accepted[kind][1]>>

-----------------------------------------------------------------------------
(* Why: the inductive invariant of the proofs *)

\* a label whose dialog does not ask for several files has one name
DialogsIInv ==
  /\ labels \in [Kinds -> {Nothing} \cup UNION {Answers(kind) : kind \in Kinds}]
  /\ \A kind \in Files \ {"openFileNames"} :
       labels[kind] = Nothing \/ \E n \in Names : labels[kind] = <<n>>
  /\ dialog # NoDialog => dialog.kind \in Kinds
  /\ AnswersKept

=============================================================================
