------------------------------ MODULE FileDialog ------------------------------
(***************************************************************************)
(* Loading and saving local files: QHtml5File (gui_localfiles), with the   *)
(* program that uses it, and the file input of emscripten_localfiles.      *)
(*                                                                         *)
(* A load opens the browser's file dialog, of which there is one at a      *)
(* time. The user picks a file or cancels, of which nobody is told; the    *)
(* file is read, its bytes are copied to a malloc()ed buffer, and a        *)
(* callback gets the buffer. QHtml5File keeps the callback in one global   *)
(* variable; emscripten_localfiles attaches it to the file input and to    *)
(* the reader of each file.                                                *)
(*                                                                         *)
(* A load, its callback and the file picked for it have the same number.   *)
(***************************************************************************)
EXTENDS Naturals, Sequences

CONSTANT MaxLoads   \* bound: loads in one behaviour

VARIABLES
  global,      \* the callback is in a global variable: the program is gui_localfiles
  callback,    \* g_qtFileDataReadyCallback, 0 for nullptr
  dialog,      \* the load whose dialog is open, 0 for none
  readers,     \* the loads whose file is being read
  buffers,     \* files whose buffer is not freed
  fileContent, \* the file that "Save File" would write, 0 for the empty one
  loads,       \* history: the number of loads
  answers,     \* history: [callback, file]: the calls of callbacks
  overlapped   \* history: a load began before an earlier one was answered or given up

vars == <<global, callback, dialog, readers, buffers, fileContent, loads, answers, overlapped>>

Loads == 1 .. MaxLoads
Null == 0

TypeOK ==
  /\ global \in BOOLEAN
  /\ callback \in Loads \cup {Null}
  /\ dialog \in Loads \cup {Null}
  /\ readers \subseteq Loads
  /\ buffers \subseteq Loads
  /\ fileContent \in Loads \cup {Null}
  /\ loads \in 0 .. MaxLoads
  /\ answers \in Seq([callback : Loads, file : Loads])
  /\ overlapped \in BOOLEAN

Init ==
  /\ global \in BOOLEAN
  /\ callback = Null
  /\ dialog = Null
  /\ readers = {}
  /\ buffers = {}
  /\ fileContent = Null
  /\ loads = 0
  /\ answers = <<>>
  /\ overlapped = FALSE

-----------------------------------------------------------------------------
(* Updates, each preceded by the wrong variant that mutation testing puts in *)
(* its place.                                                                *)

CallbackKept == callback
\* qt_callFileDataReady() after the call: g_qtFileDataReadyCallback = nullptr
CallbackReset == Null

-----------------------------------------------------------------------------

\* the "Load File" button: loadFile() replaces the global callback, whatever
\* became of the earlier load, and opens the dialog
Load ==
  /\ dialog = Null
  /\ loads < MaxLoads
  /\ loads' = loads + 1
  /\ dialog' = loads + 1
  /\ callback' = IF global THEN loads + 1 ELSE callback
  /\ overlapped' = (overlapped \/ readers # {})
  /\ UNCHANGED <<global, readers, buffers, fileContent, answers>>

\* onchange, readFiles(): the picked file is read by a reader of its own
Pick ==
  /\ dialog # Null
  /\ readers' = readers \cup {dialog}
  /\ dialog' = Null
  /\ UNCHANGED <<global, callback, buffers, fileContent, loads, answers, overlapped>>

\* the file input is not told
Cancel ==
  /\ dialog # Null
  /\ dialog' = Null
  /\ UNCHANGED <<global, callback, readers, buffers, fileContent, loads, answers, overlapped>>

\* the callback of load l gets file f: it takes the bytes and frees the buffer
Answer(l, f) ==
  /\ answers' = Append(answers, [callback |-> l, file |-> f])
  /\ fileContent' = f
  /\ UNCHANGED buffers

\* onload of gui_localfiles and qt_callFileDataReady(): without a callback nobody
\* frees the buffer
GlobalOnload(f) ==
  /\ global
  /\ IF callback = Null
       THEN /\ buffers' = buffers \cup {f}
            /\ UNCHANGED <<answers, fileContent, callback>>
       ELSE /\ Answer(callback, f)
            /\ callback' = CallbackReset

\* readFileContent() of emscripten_localfiles
ReadFileContent(f) ==
  /\ ~ global
  /\ Answer(f, f)
  /\ UNCHANGED callback

\* readers end in any order
Onload(f) ==
  /\ f \in readers
  /\ readers' = readers \ {f}
  /\ GlobalOnload(f) \/ ReadFileContent(f)
  /\ UNCHANGED <<global, dialog, loads, overlapped>>

\* the "Save File" button: a download of fileContent
SaveFile ==
  /\ global
  /\ UNCHANGED vars

\* the user loads no more files
Done ==
  /\ loads = MaxLoads
  /\ UNCHANGED vars

Next == Load \/ Pick \/ Cancel \/ (\E f \in readers : Onload(f)) \/ SaveFile \/ Done

Spec == Init /\ [][Next]_vars

-----------------------------------------------------------------------------
(* Properties *)

\* A callback is called once at most and a file is handed over once at most, with
\* the file that was picked for it, and every buffer is freed: always in
\* emscripten_localfiles, and in QHtml5File as long as no load begins while a file
\* is being read. (Then the new callback gets the old file, and its own is dropped.)
EachLoadOwnFile ==
  /\ \A a, b \in 1 .. Len(answers) : a # b =>
       /\ answers[a].callback # answers[b].callback
       /\ answers[a].file # answers[b].file
  /\ ~ (global /\ overlapped) =>
       /\ \A a \in 1 .. Len(answers) : answers[a].callback = answers[a].file
       /\ buffers = {}

-----------------------------------------------------------------------------
(* Why: the inductive invariant of the proofs *)

\* a file is picked, being read, or handed over, and belongs to a load that was made
FilesApart ==
  /\ dialog <= loads
  /\ dialog \notin readers
  /\ \A f \in readers : f <= loads
  /\ \A a \in 1 .. Len(answers) :
       /\ answers[a].file <= loads
       /\ answers[a].file \notin readers \cup {dialog}
       /\ \A b \in 1 .. Len(answers) : a # b => answers[a].file # answers[b].file

\* the global callback was not called yet
CallbacksApart ==
  /\ callback <= loads
  /\ \A a \in 1 .. Len(answers) :
       /\ answers[a].callback <= loads
       /\ answers[a].callback # callback
       /\ \A b \in 1 .. Len(answers) : a # b => answers[a].callback # answers[b].callback

\* as long as loads do not overlap, the callback is that of the only file under way
OwnFile ==
  ~ (global /\ overlapped) =>
    /\ \A a \in 1 .. Len(answers) : answers[a].callback = answers[a].file
    /\ buffers = {}
    /\ global => readers \cup ({dialog} \ {Null}) \subseteq {callback}

IInv ==
  /\ TypeOK
  /\ ~ global => callback = Null
  /\ FilesApart
  /\ CallbacksApart
  /\ OwnFile

=============================================================================
