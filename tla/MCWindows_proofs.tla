--------------------------- MODULE MCWindows_proofs ---------------------------
(***************************************************************************)
(* Proofs about the programs of MCWindows, one after the other. RafDebug:  *)
(* for any number of requests and real frames, the types, that waiting     *)
(* callbacks have a frame coming unless the page is paused, and that       *)
(* callbacks are called once each, in their order. SettingsDialog: a       *)
(* palette that is copied is imported as it was. CanvasSizes: canvases     *)
(* have the whole pixels that fit them. GlWindow: widgets stay apart.      *)
(* TimerDebug: every timer is in one place. MemoryMeters: totals are the   *)
(* memory that is held. HelloWindow: the logo is a closed surface.         *)
(***************************************************************************)
EXTENDS MCWindows, SequenceTheorems, WellFoundedInduction, TLAPS

-----------------------------------------------------------------------------
(* RafDebug *)

IInv == TypeOK /\ WaitingFlagged /\ FrameDue

\* The page starts with nothing requested.
LEMMA InitInv == Init => IInv
<1> SUFFICES ASSUME Init PROVE IInv
  OBVIOUS
<1>1. <<>> \in Seq(Requests)
  OBVIOUS
<1>2. TypeOK
  <2>1. requested \in 0 .. MaxRequests /\ real \in Nat /\ left \in Nat
    BY RafAssumption DEF Init
  <2>2. running \in BOOLEAN /\ haveRequested \in BOOLEAN
    BY DEF Init
  <2>3. thisFrame \subseteq Requests /\ hasty \subseteq Requests
    BY DEF Init
  <2>4. callbacks \in Seq(Requests) /\ batch \in Seq(Requests) /\ called \in Seq(Requests)
    BY <1>1 DEF Init
  <2> QED  BY <2>1, <2>2, <2>3, <2>4 DEF TypeOK
<1>3. WaitingFlagged
  BY DEF Init, WaitingFlagged
<1>4. FrameDue
  BY DEF Init, FrameDue
<1> QED  BY <1>2, <1>3, <1>4 DEF IInv

\* requestAnimationFrame() asks for a real frame unless one is requested already,
\* or the page is paused.
LEMMA RequestInv ==
  ASSUME IInv, RequestFrame, UNCHANGED <<running, left>>
  PROVE  /\ callbacks' \in Seq(Requests) /\ callbacks' # <<>>
         /\ requested' \in 0 .. MaxRequests
         /\ requested + 1 \in Requests
         /\ haveRequested' = TRUE
         /\ real' \in Nat
         /\ FrameDue'
<1>1. requested + 1 \in Requests /\ requested' \in 0 .. MaxRequests
  BY RafAssumption DEF RequestFrame, IInv, TypeOK, Requests
<1>2. callbacks' \in Seq(Requests) /\ callbacks' # <<>>
  BY <1>1 DEF RequestFrame, IInv, TypeOK
<1>3. real' \in Nat /\ real' >= real
  BY DEF RequestFrame, IInv, TypeOK
<1>4. CASE haveRequested
  BY <1>1, <1>2, <1>3, <1>4 DEF RequestFrame, IInv, TypeOK, WaitingFlagged, FrameDue
<1>5. CASE ~ haveRequested
  BY <1>1, <1>2, <1>3, <1>5 DEF RequestFrame, IInv, TypeOK, FrameDue
<1> QED  BY <1>4, <1>5

\* The user's controls: pausing, resuming and stepping.
LEMMA ControlInv ==
  ASSUME IInv, ToggleRunning \/ Step
  PROVE  IInv'
<1>1. CASE ToggleRunning
  <2>1. /\ running' \in BOOLEAN
        /\ real' \in Nat
        /\ running' /\ callbacks # <<>> => real' > 0
    <3>1. RealOnResume \in Nat /\ (callbacks # <<>> => RealOnResume = 1)
      BY DEF RealOnResume
    <3>2. real \in Nat /\ running \in BOOLEAN /\ running' = ~ running
      BY <1>1 DEF ToggleRunning, IInv, TypeOK
    <3>3. CASE running
      BY <1>1, <3>2, <3>3 DEF ToggleRunning
    <3>4. CASE ~ running
      BY <1>1, <3>1, <3>2, <3>4 DEF ToggleRunning
    <3> QED  BY <3>3, <3>4
  <2>2. UNCHANGED <<callbacks, haveRequested, left, batch, requested, history>>
    BY <1>1 DEF ToggleRunning
  <2>3. TypeOK'
    BY <2>1, <2>2 DEF IInv, TypeOK, history
  <2>4. WaitingFlagged'
    BY <2>2 DEF IInv, WaitingFlagged
  <2>5. FrameDue'
    BY <2>1, <2>2 DEF FrameDue
  <2> QED  BY <2>3, <2>4, <2>5 DEF IInv
<1>2. CASE Step
  BY <1>2 DEF Step, IInv, TypeOK, WaitingFlagged, FrameDue, history
<1> QED  BY <1>1, <1>2

\* A frame: the real requests move to it, and each takes the waiting callbacks.
LEMMA FrameInv ==
  ASSUME IInv, BeginFrame \/ RealCallback
  PROVE  IInv'
<1>1. CASE BeginFrame
  BY <1>1 DEF BeginFrame, InFrame, IInv, TypeOK, WaitingFlagged, FrameDue
<1>2. CASE RealCallback
  <2>1. left' \in Nat /\ haveRequested' = FALSE /\ callbacks' = <<>> /\ batch' = callbacks
    BY <1>2 DEF RealCallback, ListEmptied, IInv, TypeOK
  <2>2. UNCHANGED <<running, real, requested, history>>
    BY <1>2 DEF RealCallback
  <2>3. <<>> \in Seq(Requests)
    OBVIOUS
  <2> QED  BY <2>1, <2>2, <2>3 DEF IInv, TypeOK, WaitingFlagged, FrameDue, history
<1> QED  BY <1>1, <1>2

\* A callback is called, and may request the next frame.
LEMMA CallInv ==
  ASSUME IInv, CallCallback
  PROVE  IInv'
<1>1. /\ batch' \in Seq(Requests)
      /\ called' \in Seq(Requests)
      /\ hasty' \subseteq Requests
      /\ UNCHANGED <<running, left>>
  BY DEF CallCallback, IInv, TypeOK
<1>2. CASE RequestFrame /\ thisFrame' = thisFrame \cup {requested + 1}
  BY <1>1, <1>2, RequestInv DEF IInv, TypeOK, WaitingFlagged
<1>3. CASE UNCHANGED <<callbacks, requested, haveRequested, real, thisFrame>>
  BY <1>1, <1>3 DEF IInv, TypeOK, WaitingFlagged, FrameDue
<1> QED  BY <1>2, <1>3 DEF CallCallback

\* IInv holds in every reachable state.
THEOREM Inductive == Spec => []IInv
<1>1. IInv /\ [Next]_vars => IInv'
  <2> SUFFICES ASSUME IInv, [Next]_vars PROVE IInv'
    OBVIOUS
  <2>1. CASE AppRequests
    <3>1. UNCHANGED <<running, left, batch, history>>
      BY <2>1 DEF AppRequests
    <3> QED  BY <2>1, <3>1, RequestInv DEF AppRequests, IInv, TypeOK, WaitingFlagged, history
  <2>2. CASE ToggleRunning \/ Step
    BY <2>2, ControlInv
  <2>3. CASE BrowserStep
    BY <2>3, FrameInv, CallInv DEF BrowserStep
  <2>4. CASE Rest \/ UNCHANGED vars
    <3>1. UNCHANGED vars
      BY <2>4 DEF Rest
    <3> QED  BY <3>1 DEF vars, history, IInv, TypeOK, WaitingFlagged, FrameDue
  <2> QED  BY <2>1, <2>2, <2>3, <2>4 DEF Next
<1> QED  BY InitInv, <1>1, PTL DEF Spec

\* However the user pauses, resumes and steps, callbacks that wait while the page
\* runs have a real frame coming.
THEOREM FrameAlwaysDue == Spec => []FrameDue
<1>1. IInv => FrameDue  BY DEF IInv
<1> QED  BY Inductive, <1>1, PTL

-----------------------------------------------------------------------------

\* Calling the first callback of the batch moves it from one sequence to the next.
LEMMA MoveHead ==
  ASSUME NEW S, NEW s \in Seq(S), NEW t \in Seq(S), t # <<>>
  PROVE  Append(s, Head(t)) \o Tail(t) = s \o t
<1>1. Head(t) \in S /\ Tail(t) \in Seq(S) /\ <<Head(t)>> \in Seq(S)
  BY HeadTailProperties
<1>2. Append(s, Head(t)) = s \o <<Head(t)>>
  BY <1>1, AppendIsConcat
<1>3. t = <<Head(t)>> \o Tail(t)
  <2>1. t \in [1 .. Len(t) -> S] /\ Len(t) \in Nat \ {0}
    BY LenProperties, EmptySeq
  <2> QED  BY <1>1, <2>1, SeqEqual, ConcatProperties, HeadTailProperties
<1> QED  BY <1>1, <1>2, <1>3, ConcatAssociative

\* A request goes to the end, whatever stands before the list.
LEMMA AppendLast ==
  ASSUME NEW S, NEW s \in Seq(S), NEW t \in Seq(S), NEW e \in S
  PROVE  s \o Append(t, e) = Append(s \o t, e)
<1>1. <<e>> \in Seq(S) /\ s \o t \in Seq(S)
  BY ConcatProperties
<1>2. Append(t, e) = t \o <<e>> /\ Append(s \o t, e) = (s \o t) \o <<e>>
  BY <1>1, AppendIsConcat
<1> QED  BY <1>1, <1>2, ConcatAssociative

\* requestAnimationFrame() gives the next number to the callback that comes last.
LEMMA RequestKept ==
  ASSUME TypeOK, RequestsKept, RequestFrame, NEW s \in Seq(Requests), s = called \o batch
  PROVE  s \o callbacks' = [k \in 1 .. requested' |-> k]
<1>1. requested + 1 \in Requests /\ requested \in Nat
  BY RafAssumption DEF RequestFrame, TypeOK, Requests
<1>2. s \o callbacks' = Append(s \o callbacks, requested + 1)
  BY <1>1, AppendLast DEF RequestFrame, TypeOK
<1>3. s \o callbacks = [k \in 1 .. requested |-> k]
  BY DEF RequestsKept
<1>4. Append([k \in 1 .. requested |-> k], requested + 1) = [k \in 1 .. requested + 1 |-> k]
  BY <1>1
<1> QED  BY <1>2, <1>3, <1>4 DEF RequestFrame

\* Every step keeps the callbacks in the order of their requests.
LEMMA KeptStep == TypeOK /\ RequestsKept /\ [Next]_vars => RequestsKept'
<1> SUFFICES ASSUME TypeOK, RequestsKept, [Next]_vars PROVE RequestsKept'
  OBVIOUS
<1>0. called \o batch \in Seq(Requests)
  BY ConcatProperties DEF TypeOK
<1>1. CASE AppRequests
  BY <1>0, <1>1, RequestKept DEF AppRequests, history, RequestsKept
<1>2. CASE ToggleRunning
  BY <1>2 DEF ToggleRunning, history, RequestsKept
<1>3. CASE Step
  BY <1>3 DEF Step, history, RequestsKept
<1>4. CASE BeginFrame
  BY <1>4 DEF BeginFrame, RequestsKept
<1>5. CASE RealCallback
  <2>1. called' \o batch' = called \o callbacks /\ callbacks' = <<>>
    BY <1>5 DEF RealCallback, ListEmptied, history
  <2>2. called \o callbacks \in Seq(Requests)
    BY ConcatProperties DEF TypeOK
  <2>3. (called' \o batch') \o callbacks' = called \o callbacks
    BY <2>1, <2>2, ConcatEmptySeq
  <2>4. called \o batch = called
    BY <1>5, ConcatEmptySeq DEF RealCallback, TypeOK
  <2>5. requested' = requested
    BY <1>5 DEF RealCallback
  <2> QED  BY <2>3, <2>4, <2>5 DEF RequestsKept
<1>6. CASE CallCallback
  <2>1. called' \o batch' = called \o batch
    BY <1>6, MoveHead DEF CallCallback, TypeOK
  <2>2. CASE RequestFrame
    BY <1>0, <2>1, <2>2, RequestKept DEF RequestsKept
  <2>3. CASE UNCHANGED <<callbacks, requested>>
    BY <2>1, <2>3 DEF RequestsKept
  <2> QED  BY <1>6, <2>2, <2>3 DEF CallCallback
<1>7. CASE Rest \/ UNCHANGED vars
  BY <1>7 DEF Rest, vars, RequestsKept
<1> QED  BY <1>1, <1>2, <1>3, <1>4, <1>5, <1>6, <1>7 DEF Next, BrowserStep

\* No callback is dropped, called twice or called before one that was requested earlier,
\* however the user pauses, resumes and steps (requestAnimationFrameCallback()).
THEOREM RequestsInOrder == Spec => []RequestsKept
<1>1. Init => RequestsKept
  BY DEF Init, RequestsKept
<1>2. IInv => TypeOK  BY DEF IInv
<1> QED  BY Inductive, <1>1, <1>2, KeptStep, PTL DEF Spec

-----------------------------------------------------------------------------
(* SettingsDialog *)

\* the text of every editor is defined
IsColors(c) ==
  /\ c = [k \in Settings!KeySet |-> c[k]]
  /\ \A k \in Settings!KeySet : c[k] # Settings!Undefined

\* what is on the clipboard after copying, and what the editors are after importing it
CopyKept ==
  /\ IsColors(editors) /\ IsColors(savedColors)
  /\ copied # Settings!NoColors => IsColors(copied) /\ clipboardText = Settings!PaletteText(copied)
  /\ fromCopy => copied # Settings!NoColors /\ editors = copied

SettingsInv ==
  /\ CopyKept
  /\ shownMessage = [valid |-> validator.message = "", message |-> validator.message]

\* No key of the palette is there twice.
LEMMA KeysApart ==
  /\ DOMAIN Keys = 1 .. 2
  /\ Settings!KeySet = {Keys[1], Keys[2]}
  /\ \A i, j \in DOMAIN Keys : Keys[i] = Keys[j] => i = j
BY DEF Keys, Settings!KeySet, Settings!Range

\* Clipboard::paste() reads what Clipboard::copy() has written.
LEMMA PasteCopied ==
  ASSUME NEW c, IsColors(c)
  PROVE  Settings!Paste(Settings!PaletteText(c)) = c
<1> DEFINE text == Settings!PaletteText(c)
<1>1. /\ DOMAIN text = DOMAIN Keys
      /\ \A j \in DOMAIN Keys : text[j] = <<Keys[j], c[Keys[j]]>>
  BY DEF Settings!PaletteText
<1>2. ASSUME NEW j \in DOMAIN Keys
      PROVE  text[j][1] = Keys[j] /\ Len(text[j]) = 2 /\ text[j][Len(text[j])] = c[Keys[j]]
  BY <1>1
<1>3. ASSUME NEW k \in Settings!KeySet
      PROVE  Settings!Paste(text)[k] = c[k]
  <2> DEFINE hits == {j \in DOMAIN text : Settings!IsPair(text[j]) /\ text[j][1] = k}
             last == CHOOSE j \in hits : \A i \in hits : i <= j
  <2>1. PICK at \in DOMAIN Keys : Keys[at] = k
    BY KeysApart
  <2>2. hits = {at}
    BY <1>1, <1>2, <2>1, KeysApart DEF Settings!IsPair
  <2>3. last = at
    BY <2>1, <2>2, KeysApart
  <2>4. Settings!Paste(text)[k] = text[last][Len(text[last])]
    BY <2>2 DEF Settings!Paste
  <2> QED  BY <1>2, <2>1, <2>3, <2>4
<1> QED  BY <1>3 DEF IsColors, Settings!Paste

\* updatePaletteSettingsControls() shows colors that are all defined as they are, and
\* never puts an undefined one into an editor.
LEMMA UpdatedColors ==
  ASSUME NEW source, IsColors(editors)
  PROVE  /\ IsColors(Settings!Updated(source))
         /\ IsColors(source) => Settings!Updated(source) = source
<1>1. ASSUME NEW k \in Settings!KeySet
      PROVE  LET at == CHOOSE j \in DOMAIN Keys : Keys[j] = k IN
             /\ Settings!Updated(source)[k] = 
                  IF \A j \in 1 .. at : source[Keys[j]] # Settings!Undefined
                  THEN source[k] ELSE editors[k]
             /\ at \in DOMAIN Keys /\ Keys[at] = k
             /\ \A j \in 1 .. at : Keys[j] \in Settings!KeySet
  BY KeysApart DEF Settings!Updated
<1>2. ASSUME NEW k \in Settings!KeySet
      PROVE  /\ Settings!Updated(source)[k] # Settings!Undefined
             /\ IsColors(source) => Settings!Updated(source)[k] = source[k]
  BY <1>1, KeysApart DEF IsColors
<1>3. Settings!Updated(source) = [k \in Settings!KeySet |-> Settings!Updated(source)[k]]
  BY DEF Settings!Updated
<1> QED  BY <1>2, <1>3 DEF IsColors

\* The dialog starts with no color customized, and with the path that was saved.
LEMMA SettingsStart == Settings!Init => SettingsInv
<1> SUFFICES ASSUME Settings!Init PROVE SettingsInv
  OBVIOUS
<1>1. IsColors(savedColors) /\ editors = savedColors
  BY DEF Settings!Init, IsColors, Settings!Undefined
<1>2. /\ validator = [path |-> savedPath, message |-> IF savedPath = "" THEN "" ELSE "missing"]
      /\ shownMessage = [valid |-> savedPath = "", message |-> validator.message]
  BY DEF Settings!Init
<1>3. shownMessage = [valid |-> validator.message = "", message |-> validator.message]
  BY <1>2
<1> QED
  BY <1>1, <1>3 DEF Settings!Init, SettingsInv, CopyKept

\* The palette: only copying changes what is copied, and only importing sets the editors
\* from it.
LEMMA PaletteStep ==
  ASSUME SettingsInv, Settings!Next
  PROVE  CopyKept'
<1> USE DEF SettingsInv, CopyKept, Settings!palette, Settings!path, Settings!custom, Settings!checked
<1>1. CASE Settings!AboutToShow \/ Settings!ToggleUse \/ Settings!Accept \/ Settings!Cancel
  <2>1. /\ \/ editors' = editors /\ fromCopy' = fromCopy
           \/ editors' = savedColors /\ ~ fromCopy'
        /\ savedColors' \in {savedColors, editors}
        /\ UNCHANGED <<clipboardText, copied>>
    <3>1. CASE Settings!AboutToShow
      BY <3>1 DEF Settings!AboutToShow
    <3>2. CASE Settings!ToggleUse
      BY <3>2 DEF Settings!ToggleUse
    <3>3. CASE Settings!Accept
      BY <3>3 DEF Settings!Accept
    <3>4. CASE Settings!Cancel
      BY <3>4 DEF Settings!Cancel
    <3> QED  BY <1>1, <3>1, <3>2, <3>3, <3>4
  <2>2. IsColors(editors)' /\ IsColors(savedColors)'
    BY <2>1 DEF IsColors
  <2>3. copied # Settings!NoColors => IsColors(copied)' /\ (clipboardText = Settings!PaletteText(copied))'
    BY <2>1 DEF IsColors, Settings!PaletteText
  <2>4. fromCopy' => copied' # Settings!NoColors /\ editors' = copied'
    <3>1. copied' = copied /\ (fromCopy => copied # Settings!NoColors /\ editors = copied)
      BY <2>1
    <3> QED  BY <2>1, <3>1, Zenon
  <2> QED  BY <2>1, <2>2, <2>3, <2>4 DEF IsColors, Settings!PaletteText
<1>2. ASSUME NEW k \in Settings!KeySet, NEW c \in Colors, Settings!EditColor(k, c)
      PROVE  CopyKept'
  <2>1. IsColors(editors)'
    BY <1>2, SettingsAssumption DEF Settings!EditColor, IsColors
  <2> QED  BY <1>2, <2>1 DEF Settings!EditColor, IsColors, Settings!PaletteText
<1>3. CASE Settings!Copy
  BY <1>3 DEF Settings!Copy, IsColors, Settings!PaletteText
<1>4. ASSUME NEW text \in ForeignTexts, Settings!CopyForeign(text)
      PROVE  CopyKept'
  BY <1>4 DEF Settings!CopyForeign, IsColors
<1>5. CASE Settings!Import
  <2>1. editors' = Settings!Updated(Settings!Paste(clipboardText))
    BY <1>5 DEF Settings!Import
  <2>2. IsColors(editors)'
    BY <2>1, UpdatedColors DEF IsColors
  <2>3. copied # Settings!NoColors => editors' = copied
    BY <2>1, UpdatedColors, PasteCopied
  <2> QED  BY <1>5, <2>2, <2>3 DEF Settings!Import, IsColors, Settings!PaletteText
<1>6. ASSUME \/ Settings!ToggleCustom
             \/ \E p \in Settings!AllPaths : Settings!EditPath(p)
             \/ \E p \in Paths, k \in Settings!Kinds : Settings!FileSystem(p, k)
      PROVE  CopyKept'
  <2>1. UNCHANGED <<editors, savedColors, clipboardText, copied, fromCopy>>
    BY <1>6, Zenon DEF Settings!ToggleCustom, Settings!EditPath, Settings!FileSystem
  <2> QED  BY <2>1, Zenon DEF IsColors, Settings!PaletteText
<1> QED  BY <1>1, <1>2, <1>3, <1>4, <1>5, <1>6 DEF Settings!Next

\* Signals are sent for what changes, so that the bindings have the present values.
LEMMA MessageStep ==
  ASSUME SettingsInv, Settings!Next
  PROVE  (shownMessage = [valid |-> validator.message = "", message |-> validator.message])'
<1>1. CASE UNCHANGED <<validator, shownMessage>>
  BY <1>1 DEF SettingsInv
<1>2. ASSUME NEW p, Settings!SetPath(p)
      PROVE  (shownMessage = [valid |-> validator.message = "", message |-> validator.message])'
  <2>1. CASE p = validator.path
    BY <1>2, <2>1 DEF SettingsInv, Settings!SetPath, Settings!checked
  <2>2. CASE p # validator.path
    <3>1. PICK m : /\ validator' = [path |-> p, message |-> m]
                   /\ shownMessage' =
                        [valid |-> IF (m = "") # (validator.message = "") THEN m = "" ELSE shownMessage.valid,
                         message |-> IF m # validator.message THEN m ELSE shownMessage.message]
      BY <1>2, <2>2 DEF Settings!SetPath
    <3>2. shownMessage.valid = (validator.message = "") /\ shownMessage.message = validator.message
      BY DEF SettingsInv
    <3>3. shownMessage' = [valid |-> m = "", message |-> m] /\ validator'.message = m
      BY <3>1, <3>2
    <3> QED  BY <3>3
  <2> QED  BY <2>1, <2>2
<1> QED
  BY <1>1, <1>2 DEF Settings!Next, Settings!AboutToShow, Settings!ToggleUse, Settings!EditColor,
     Settings!Copy, Settings!CopyForeign, Settings!Import, Settings!Accept, Settings!Cancel,
     Settings!ToggleCustom, Settings!EditPath, Settings!FileSystem, Settings!path,
     Settings!checked

\* A palette that was copied is imported as it was, whatever was edited, saved and cancelled
\* between, and the dialog shows what the validator says of the path (Clipboard::paste(),
\* updatePaletteSettingsControls(), DirectoryValidator::setPath()).
THEOREM PaletteCopied == MCSpec => []SettingsKept
<1>1. MCInit => SettingsInv
  BY SettingsStart DEF MCInit
<1>2. SettingsInv /\ [MCNext]_allVars => SettingsInv'
  <2> SUFFICES ASSUME SettingsInv, [MCNext]_allVars PROVE SettingsInv'
    OBVIOUS
  <2>1. CASE InSettings(Settings!Next)
    <3>1. Settings!Next
      BY <2>1 DEF InSettings, In
    <3> QED  BY <3>1, PaletteStep, MessageStep DEF SettingsInv
  <2>2. CASE UNCHANGED settingsVars
    BY <2>2 DEF settingsVars, SettingsInv, CopyKept, IsColors, Settings!PaletteText
  <2>3. UNCHANGED settingsVars \/ InSettings(Settings!Next)
    BY DEF MCNext, allVars, InFrames, InTimers, InHello, InCanvases, InGl, InMemory, In
  <2> QED  BY <2>1, <2>2, <2>3
<1>3. SettingsInv => SettingsKept
  BY DEF SettingsInv, CopyKept, SettingsKept, Settings!SettingsKept
<1> QED  BY <1>1, <1>2, <1>3, PTL DEF MCSpec

-----------------------------------------------------------------------------
(* CanvasSizes *)

\* the window's size and ratio are among those it can have
SizesInv ==
  /\ windowWidth \in WindowWidths
  /\ pixelRatio \in PixelRatios
  /\ Sizes!CanvasesFit

\* Truncating to whole pixels loses less than a pixel.
LEMMA WholePixels ==
  ASSUME NEW x \in Nat, NEW pixel \in Nat \ {0}
  PROVE  (x \div pixel) * pixel <= x /\ x < (x \div pixel) * pixel + pixel
<1>1. pixel * (x \div pixel) <= x /\ x < pixel * (x \div pixel) + pixel /\ x \div pixel \in Nat
  BY SMT
<1>2. pixel * (x \div pixel) = (x \div pixel) * pixel
  BY <1>1
<1> QED  BY <1>1, <1>2

\* The resize callback gives every canvas with a style the whole pixels that it has room for.
LEMMA CallbackFits ==
  ASSUME SizesInv, Sizes!ResizeCallback
  PROVE  Sizes!CanvasesFit'
<1> DEFINE pixel == PixelParts * PixelParts
           exact == windowWidth * pixelRatio
<1>1. pixel \in Nat \ {0} /\ exact \in Nat
  <2>1. PixelParts \in Nat \ {0} /\ windowWidth \in Nat /\ pixelRatio \in Nat
    BY SizesAssumption DEF SizesInv
  <2>2. \A m, n \in Nat \ {0} : m * n \in Nat \ {0}
    BY SMT
  <2>3. \A m, n \in Nat : m * n \in Nat
    BY SMT
  <2> QED  BY <2>1, <2>2, <2>3
<1>2. /\ UNCHANGED <<styled, windowWidth, pixelRatio>>
      /\ styled => renderSize' = [c \in Canvases |-> exact \div pixel]
  BY DEF Sizes!ResizeCallback, Sizes!CssSize, Sizes!PixelWidth
<1>3. exact' = exact
  BY <1>2
<1> HIDE DEF pixel, exact
<1>4. (exact \div pixel) * pixel <= exact /\ exact < (exact \div pixel) * pixel + pixel
  BY <1>1, WholePixels
<1>5. ASSUME styled', NEW c \in Canvases
      PROVE  renderSize'[c] * pixel <= exact' /\ exact' < renderSize'[c] * pixel + pixel
  <2>1. renderSize'[c] = exact \div pixel
    BY <1>2, <1>5
  <2> QED  BY <1>3, <1>4, <2>1
<1> QED  BY <1>5 DEF Sizes!CanvasesFit, pixel, exact

\* After a resize, whatever the window was resized and zoomed before, a canvas with a style
\* has the whole pixels that the screen has for it (the resize callback of
\* emscripten_multiscreen).
THEOREM CanvasesAlwaysFit == MCSpec => []Sizes!CanvasesFit
<1>1. MCInit => SizesInv
  BY DEF MCInit, Sizes!Init, Sizes!CanvasesFit, SizesInv
<1>2. SizesInv /\ [MCNext]_allVars => SizesInv'
  <2> SUFFICES ASSUME SizesInv, [MCNext]_allVars PROVE SizesInv'
    OBVIOUS
  <2>1. CASE Sizes!Next
    <3>1. CASE Sizes!Start
      BY <3>1 DEF Sizes!Start, Sizes!CanvasesFit, SizesInv
    <3>2. CASE \E w \in WindowWidths, r \in PixelRatios : Sizes!ResizeWindow(w, r)
      BY <3>2 DEF Sizes!ResizeWindow, Sizes!CanvasesFit, SizesInv
    <3>3. CASE Sizes!ResizeCallback
      BY <3>3, CallbackFits DEF Sizes!ResizeCallback, SizesInv
    <3> QED  BY <2>1, <3>1, <3>2, <3>3 DEF Sizes!Next
  <2>2. CASE UNCHANGED sizesVars
    BY <2>2 DEF sizesVars, Sizes!CanvasesFit, SizesInv
  <2>3. UNCHANGED sizesVars \/ Sizes!Next
    BY DEF MCNext, allVars, InFrames, InTimers, InHello, InCanvases, InGl, InSettings, InMemory, In
  <2> QED  BY <2>1, <2>2, <2>3
<1>3. SizesInv => Sizes!CanvasesFit
  BY DEF SizesInv
<1> QED  BY <1>1, <1>2, <1>3, PTL DEF MCSpec

-----------------------------------------------------------------------------
(* GlWindow *)

\* the first widget fills the column on the left, and the others come before the next cell,
\* row by row
LayoutInv ==
  /\ cells \in Seq([x : Nat, y : Nat, rows : Nat])
  /\ Len(cells) >= 1
  /\ cells[1] = [x |-> 0, y |-> 1, rows |-> 8]
  /\ nextX \in 1 .. 3 /\ nextY \in 1 .. 4
  /\ \A w \in 2 .. Len(cells) :
       /\ cells[w].x \in 1 .. 3 /\ cells[w].y \in 1 .. 3 /\ cells[w].rows = 1
       /\ cells[w].y < nextY \/ (cells[w].y = nextY /\ cells[w].x < nextX)
  /\ \A v, w \in 2 .. Len(cells) : v # w => cells[v].x # cells[w].x \/ cells[v].y # cells[w].y

BubblesInv ==
  /\ bubbles \in Seq(Nat)
  /\ Len(bubbles) = Len(cells)
  /\ \A w \in Gl!Widgets : bubbles[w] = BubbleNum \/ (bubbles[w] = 0 /\ w \in updates)

GlInv == LayoutInv /\ BubblesInv

\* The window begins with the first widget.
LEMMA GlStarts == Gl!Init => GlInv
<1> SUFFICES ASSUME Gl!Init PROVE GlInv
  OBVIOUS
<1>1. LayoutInv
  BY DEF Gl!Init, LayoutInv
<1>2. BubblesInv
  BY DEF Gl!Init, BubblesInv, Gl!Widgets
<1> QED  BY <1>1, <1>2 DEF GlInv

\* addNew() puts a widget into a cell that is free, and without bubbles.
LEMMA AddNewInv ==
  ASSUME GlInv, Gl!AddNew
  PROVE  GlInv'
<1> DEFINE n == Len(cells)
           new == [x |-> nextX, y |-> nextY, rows |-> 1]
<1>1. /\ n \in Nat /\ n >= 1
      /\ nextX \in 1 .. 3 /\ nextY \in 1 .. 3
      /\ new \in [x : Nat, y : Nat, rows : Nat]
  <2>1. n \in Nat /\ n >= 1
    BY DEF GlInv, LayoutInv
  <2>2. nextX \in 1 .. 3 /\ nextY \in 1 .. 3
    BY DEF GlInv, LayoutInv, Gl!AddNew
  <2> QED  BY <2>1, <2>2
<1>2. /\ cells' \in Seq([x : Nat, y : Nat, rows : Nat])
      /\ Len(cells') = n + 1
      /\ cells'[n + 1].x = nextX /\ cells'[n + 1].y = nextY /\ cells'[n + 1].rows = 1
      /\ \A w \in 1 .. n : cells'[w] = cells[w]
  <2>1. cells' = Append(cells, new) /\ cells \in Seq([x : Nat, y : Nat, rows : Nat])
    BY DEF GlInv, LayoutInv, Gl!AddNew
  <2> HIDE DEF new
  <2>2. /\ cells' \in Seq([x : Nat, y : Nat, rows : Nat])
        /\ Len(cells') = n + 1
        /\ cells'[n + 1] = new
        /\ \A w \in 1 .. n : cells'[w] = cells[w]
    BY <1>1, <2>1
  <2> QED  BY <2>2 DEF new
<1>3. LayoutInv'
  <2>1. \/ nextX = 3 /\ nextX' = 1 /\ nextY' = nextY + 1
        \/ nextX # 3 /\ nextX' = nextX + 1 /\ nextY' = nextY
    BY DEF Gl!AddNew, Gl!NextColumn
  <2>2. nextX' \in 1 .. 3 /\ nextY' \in 1 .. 4
    BY <1>1, <2>1
  <2>3. ASSUME NEW w \in 2 .. n + 1
        PROVE  /\ cells'[w].x \in 1 .. 3 /\ cells'[w].y \in 1 .. 3 /\ cells'[w].rows = 1
               /\ cells'[w].y < nextY' \/ (cells'[w].y = nextY' /\ cells'[w].x < nextX')
    <3>1. CASE w = n + 1
      <4>1. cells'[w].x = nextX /\ cells'[w].y = nextY /\ cells'[w].rows = 1
        BY <1>2, <3>1
      <4> QED  BY <1>1, <2>1, <4>1
    <3>2. CASE w \in 2 .. n
      <4>1. /\ cells[w].x \in 1 .. 3 /\ cells[w].y \in 1 .. 3 /\ cells[w].rows = 1
            /\ cells[w].y < nextY \/ (cells[w].y = nextY /\ cells[w].x < nextX)
        BY <3>2 DEF GlInv, LayoutInv
      <4>2. w \in 1 .. n
        BY <1>1, <3>2
      <4>3. cells'[w] = cells[w]
        BY <1>2, <4>2
      <4> QED  BY <1>1, <2>1, <4>1, <4>3
    <3> QED  BY <1>1, <3>1, <3>2
  <2>4. ASSUME NEW v \in 2 .. n + 1, NEW w \in 2 .. n + 1, v # w
        PROVE  cells'[v].x # cells'[w].x \/ cells'[v].y # cells'[w].y
    <3>1. ASSUME NEW u \in 2 .. n
          PROVE  cells'[u].x # nextX \/ cells'[u].y # nextY
      <4>1. /\ cells[u].x \in 1 .. 3 /\ cells[u].y \in 1 .. 3
            /\ cells[u].y < nextY \/ (cells[u].y = nextY /\ cells[u].x < nextX)
        BY DEF GlInv, LayoutInv
      <4>2. u \in 1 .. n
        BY <1>1
      <4>3. cells'[u] = cells[u]
        BY <1>2, <4>2
      <4> QED  BY <1>1, <4>1, <4>3
    <3>2. CASE v = n + 1
      <4>1. w \in 2 .. n
        BY <1>1, <2>4, <3>2
      <4> QED  BY <1>2, <3>1, <3>2, <4>1
    <3>3. CASE w = n + 1
      <4>1. v \in 2 .. n
        BY <1>1, <2>4, <3>3
      <4> QED  BY <1>2, <3>1, <3>3, <4>1
    <3>4. CASE v \in 2 .. n /\ w \in 2 .. n
      <4>1. v \in 1 .. n /\ w \in 1 .. n
        BY <1>1, <3>4
      <4>2. cells'[v] = cells[v] /\ cells'[w] = cells[w]
        BY <1>2, <4>1
      <4> QED  BY <2>4, <3>4, <4>2 DEF GlInv, LayoutInv
    <3> QED  BY <1>1, <3>2, <3>3, <3>4
  <2>5. cells'[1] = [x |-> 0, y |-> 1, rows |-> 8]
    <3>1. 1 \in 1 .. n
      BY <1>1
    <3> QED  BY <1>2, <3>1 DEF GlInv, LayoutInv
  <2>6. Len(cells)' = n + 1 /\ n + 1 >= 1
    BY <1>1, <1>2
  <2> QED  BY <1>2, <2>2, <2>3, <2>4, <2>5, <2>6 DEF LayoutInv
<1>4. BubblesInv'
  <2>1. /\ bubbles' \in Seq(Nat)
        /\ Len(bubbles') = n + 1
        /\ bubbles'[n + 1] = 0
        /\ \A w \in 1 .. n : bubbles'[w] = bubbles[w]
    BY DEF GlInv, BubblesInv, Gl!AddNew
  <2>2. updates' = updates \cup {n + 1}
    BY DEF Gl!AddNew
  <2>3. ASSUME NEW w \in 1 .. n + 1
        PROVE  bubbles'[w] = BubbleNum \/ (bubbles'[w] = 0 /\ w \in updates')
    <3>1. CASE w = n + 1
      BY <2>1, <2>2, <3>1
    <3>2. CASE w \in 1 .. n
      BY <2>1, <2>2, <3>2 DEF GlInv, BubblesInv, Gl!Widgets
    <3> QED  BY <1>1, <3>1, <3>2
  <2> QED  BY <1>2, <2>1, <2>3 DEF BubblesInv, Gl!Widgets
<1> QED  BY <1>3, <1>4 DEF GlInv

\* paintGL() makes the bubbles that are missing, and no more.
LEMMA PaintInv ==
  ASSUME GlInv, Gl!PaintGL
  PROVE  GlInv'
<1>1. LayoutInv'
  BY DEF GlInv, LayoutInv, Gl!PaintGL, Gl!layout
<1>2. cells' = cells
  BY DEF Gl!PaintGL, Gl!layout
<1>3. ASSUME NEW w \in Gl!Widgets
      PROVE  bubbles'[w] = BubbleNum
  <2>1. bubbles[w] = BubbleNum \/ (bubbles[w] = 0 /\ w \in updates)
    BY DEF GlInv, BubblesInv
  <2> QED  BY <2>1, GlAssumption DEF Gl!PaintGL, Gl!CreateBubbles
<1>4. bubbles' \in [1 .. Len(cells) -> Nat]
  BY <1>3, GlAssumption DEF Gl!PaintGL, Gl!Widgets
<1>5. bubbles' \in Seq(Nat) /\ Len(bubbles') = Len(cells)
  <2>1. Len(cells) \in Nat
    BY DEF GlInv, LayoutInv
  <2> QED  BY <1>4, <2>1
<1> QED  BY <1>1, <1>2, <1>3, <1>5 DEF GlInv, BubblesInv, Gl!Widgets

\* However often the button is pressed, no widget covers another one or what is below the
\* first, and one that is painted has its bubbles, and never more (MainWindow::addNew(),
\* GLWidget::createBubbles()).
THEOREM WidgetsStayApart == MCSpec => []Gl!WidgetsApart
<1>1. MCInit => GlInv
  BY GlStarts DEF MCInit
<1>2. GlInv /\ [MCNext]_allVars => GlInv'
  <2> SUFFICES ASSUME GlInv, [MCNext]_allVars PROVE GlInv'
    OBVIOUS
  <2>1. CASE Gl!Next
    <3>1. CASE Gl!ResizeGL \/ Gl!TimerUsageChanged \/ Gl!UpdateIntervalChanged \/ Gl!TimerTimeout
      <4>1. UNCHANGED <<cells, nextX, nextY, bubbles>> /\ updates \subseteq updates'
        BY <3>1 DEF Gl!ResizeGL, Gl!TimerUsageChanged, Gl!UpdateIntervalChanged, Gl!TimerTimeout,
           Gl!layout
      <4> QED  BY <4>1 DEF GlInv, LayoutInv, BubblesInv, Gl!Widgets
    <3> QED  BY <2>1, <3>1, AddNewInv, PaintInv DEF Gl!Next
  <2>2. CASE UNCHANGED glVars
    BY <2>2 DEF glVars, GlInv, LayoutInv, BubblesInv, Gl!Widgets
  <2>3. UNCHANGED glVars \/ Gl!Next
    BY DEF MCNext, allVars, InFrames, InTimers, InHello, InCanvases, InGl, InSettings, InMemory, In
  <2> QED  BY <2>1, <2>2, <2>3
<1>3. GlInv => Gl!WidgetsApart
  <2> SUFFICES ASSUME GlInv PROVE Gl!WidgetsApart
    OBVIOUS
  <2>1. Gl!Widgets = 1 .. Len(cells) /\ Len(cells) \in Nat
    BY DEF Gl!Widgets, GlInv, LayoutInv
  <2>2. cells[1].x = 0 /\ cells[1].y = 1 /\ cells[1].rows = 8
    BY DEF GlInv, LayoutInv
  <2>3. ASSUME NEW v \in Gl!Widgets, NEW w \in Gl!Widgets, v # w, cells[v].x = cells[w].x
        PROVE  cells[v].y + cells[v].rows <= cells[w].y \/ cells[w].y + cells[w].rows <= cells[v].y
    <3>1. v \in 2 .. Len(cells) /\ w \in 2 .. Len(cells)
      <4>1. v = 1 \/ v \in 2 .. Len(cells)
        BY <2>1
      <4>2. w = 1 \/ w \in 2 .. Len(cells)
        BY <2>1
      <4>3. \A u \in 2 .. Len(cells) : cells[u].x \in 1 .. 3
        BY DEF GlInv, LayoutInv
      <4> QED  BY <2>2, <2>3, <4>1, <4>2, <4>3
    <3>2. /\ cells[v].y \in 1 .. 3 /\ cells[v].rows = 1
          /\ cells[w].y \in 1 .. 3 /\ cells[w].rows = 1
          /\ cells[v].y # cells[w].y
      BY <2>3, <3>1 DEF GlInv, LayoutInv
    <3> QED  BY <3>2
  <2>4. ASSUME NEW w \in Gl!Widgets, cells[w].x = 0
        PROVE  cells[w].y + cells[w].rows <= 9
    <3>1. w = 1
      <4>1. w = 1 \/ w \in 2 .. Len(cells)
        BY <2>1
      <4>2. \A u \in 2 .. Len(cells) : cells[u].x \in 1 .. 3
        BY DEF GlInv, LayoutInv
      <4> QED  BY <2>4, <4>1, <4>2
    <3> QED  BY <2>2, <3>1
  <2> QED  BY <2>3, <2>4 DEF Gl!WidgetsApart, GlInv, BubblesInv
<1> QED  BY <1>1, <1>2, <1>3, PTL DEF MCSpec

-----------------------------------------------------------------------------
(* Sequences that are computed step by step *)

\* What holds of zero, and of the next number whenever it holds of one, holds up to N.
LEMMA UpTo ==
  ASSUME NEW N \in Nat, NEW D, 0 \in D, \A n \in 0 .. N - 1 : n \in D => n + 1 \in D
  PROVE  N \in D
<1> DEFINE T == {n \in Nat : n <= N /\ n \notin D}
<1>1. SUFFICES ASSUME N \notin D PROVE FALSE
  OBVIOUS
<1>2. T \subseteq Nat /\ T # {}
  BY <1>1
<1>3. PICK x \in T : \A y \in T : ~ (<<y, x>> \in OpToRel(<, Nat))
  BY <1>2, NatLessThanWellFounded, WFMin, Zenon
<1>4. OpToRel(<, Nat) = {ss \in Nat \X Nat : ss[1] < ss[2]}
  BY Zenon DEF OpToRel
<1>5. x \in Nat /\ x <= N /\ x \notin D
  BY <1>3
<1>6. x # 0 /\ x - 1 \in 0 .. N - 1 /\ x - 1 + 1 = x
  BY <1>5
<1>7. x - 1 \in T
  BY <1>5, <1>6
<1>8. <<x - 1, x>> \in {ss \in Nat \X Nat : ss[1] < ss[2]}
  BY <1>5, <1>6
<1> QED  BY <1>3, <1>4, <1>7, <1>8, Zenon

\* a function that is computed step by step: b at first, and g[n] of the last value at n
Steps(V, N, b, g) ==
  \E F \in [0 .. N -> V] : F[0] = b /\ \A n \in 1 .. N : F[n] = g[n][F[n - 1]]

\* A function that is computed in N steps exists.
LEMMA Computed ==
  ASSUME NEW V, NEW N \in Nat, NEW b \in V, NEW g \in [1 .. N -> [V -> V]]
  PROVE  Steps(V, N, b, g)
<1> DEFINE Ok(k, F) == F[0] = b /\ \A n \in 1 .. k : F[n] = g[n][F[n - 1]]
           D == {k \in 0 .. N : \E F \in [0 .. k -> V] : Ok(k, F)}
<1>1. 0 \in D
  <2> DEFINE F == [n \in 0 .. 0 |-> b]
  <2>1. F \in [0 .. 0 -> V] /\ Ok(0, F)
    OBVIOUS
  <2>2. 0 \in 0 .. N /\ \E H \in [0 .. 0 -> V] : Ok(0, H)
    <3>1. 0 \in 0 .. N
      OBVIOUS
    <3> HIDE DEF F
    <3> QED  BY <2>1, <3>1
  <2> QED  BY <2>2
<1>2. ASSUME NEW k \in 0 .. N - 1, k \in D PROVE k + 1 \in D
  <2>1. PICK F \in [0 .. k -> V] : Ok(k, F)
    BY <1>2
  <2> DEFINE G == [n \in 0 .. k + 1 |-> IF n <= k THEN F[n] ELSE g[n][F[n - 1]]]
  <2>2. k + 1 \in 1 .. N /\ k \in 0 .. k
    OBVIOUS
  <2>3. g[k + 1][F[k]] \in V
    BY <2>2
  <2>4. ASSUME NEW n \in 0 .. k + 1 PROVE G[n] \in V
    <3>1. CASE n <= k
      BY <3>1
    <3>2. CASE n = k + 1
      <4>1. n - 1 = k
        BY <3>2
      <4> QED  BY <2>3, <3>2, <4>1
    <3> QED  BY <3>1, <3>2
  <2>5. G \in [0 .. k + 1 -> V]
    BY <2>4
  <2>6. G[0] = b
    BY <2>1
  <2>7. ASSUME NEW n \in 1 .. k + 1 PROVE G[n] = g[n][G[n - 1]]
    <3>1. n - 1 \in 0 .. k /\ G[n - 1] = F[n - 1]
      OBVIOUS
    <3>2. CASE n <= k
      <4>1. G[n] = F[n] /\ n \in 1 .. k
        BY <3>2
      <4> QED  BY <2>1, <3>1, <4>1
    <3>3. CASE n = k + 1
      <4>1. G[n] = g[n][F[n - 1]]
        BY <3>3
      <4> QED  BY <3>1, <4>1
    <3> QED  BY <3>2, <3>3
  <2> HIDE DEF G
  <2>8. Ok(k + 1, G)
    BY <2>6, <2>7
  <2> QED  BY <2>2, <2>5, <2>8
<1> HIDE DEF D
<1>3. N \in D
  BY <1>1, <1>2, UpTo
<1> QED  BY <1>3 DEF D, Steps

-----------------------------------------------------------------------------
(* TimerDebug *)

\* the lists that filter() goes through
Filters(S, list, set) ==
  \E kept \in [0 .. Len(list) -> Seq(S)] :
    /\ kept[0] = <<>>
    /\ \A n \in 1 .. Len(list) :
         kept[n] = IF list[n] \in set THEN Append(kept[n - 1], list[n]) ELSE kept[n - 1]
    /\ Timer!Filtered(list, set) = kept[Len(list)]

\* filter() can be computed: a list is kept for every number of timers looked at.
LEMMA KeptLists ==
  ASSUME NEW S, NEW list \in Seq(S), NEW set
  PROVE  Filters(S, list, set)
<1> DEFINE N == Len(list)
           Looked(kept, n) == IF n = 0 THEN <<>>
             ELSE IF list[n] \in set THEN Append(kept[n - 1], list[n]) ELSE kept[n - 1]
           g == [n \in 1 .. N |-> [v \in Seq(S) |-> IF list[n] \in set THEN Append(v, list[n]) ELSE v]]
           chosen == CHOOSE kept : kept = [n \in 0 .. N |-> Looked(kept, n)]
<1>1. N \in Nat /\ \A n \in 1 .. N : list[n] \in S
  OBVIOUS
<1>2. g \in [1 .. N -> [Seq(S) -> Seq(S)]] /\ <<>> \in Seq(S)
  BY <1>1
<1>3. PICK F \in [0 .. N -> Seq(S)] : F[0] = <<>> /\ \A n \in 1 .. N : F[n] = g[n][F[n - 1]]
  <2> DEFINE V == Seq(S)
             b == <<>>
  <2> HIDE DEF g, N, V, b
  <2>1. N \in Nat /\ b \in V /\ g \in [1 .. N -> [V -> V]]
    BY <1>1, <1>2 DEF V, b
  <2>2. Steps(V, N, b, g)
    BY <2>1, Computed
  <2> QED  BY <2>2 DEF Steps, V, b
<1>4. ASSUME NEW n \in 0 .. N PROVE F[n] = Looked(F, n)
  <2>1. CASE n = 0
    BY <1>3, <2>1
  <2>2. CASE n # 0
    <3>1. n \in 1 .. N /\ n - 1 \in 0 .. N
      BY <1>1, <2>2
    <3>2. F[n] = g[n][F[n - 1]] /\ F[n - 1] \in Seq(S)
      BY <1>3, <3>1
    <3> QED  BY <2>2, <3>1, <3>2
  <2> QED  BY <2>1, <2>2
<1>5. F = [n \in 0 .. N |-> Looked(F, n)]
  <2>1. F = [n \in 0 .. N |-> F[n]]
    BY <1>3
  <2> QED  BY <1>4, <2>1
<1>6. chosen = [n \in 0 .. N |-> Looked(chosen, n)]
  <2>1. \E kept : kept = [n \in 0 .. N |-> Looked(kept, n)]
    BY <1>5
  <2> QED  BY <2>1
<1>7. Timer!Filtered(list, set) = chosen[N]
  BY DEF Timer!Filtered
<1> HIDE DEF chosen
<1>8. ASSUME NEW n \in 1 .. N
      PROVE  chosen[n] = IF list[n] \in set THEN Append(chosen[n - 1], list[n]) ELSE chosen[n - 1]
  <2>1. n \in 0 .. N /\ n # 0
    BY <1>1
  <2>2. chosen[n] = Looked(chosen, n)
    BY <1>6, <2>1
  <2> QED  BY <2>1, <2>2
<1>9. chosen[0] = <<>>
  BY <1>1, <1>6
<1> DEFINE D == {n \in Nat : n <= N => chosen[n] \in Seq(S)}
<1>10. ASSUME NEW n \in 0 .. N PROVE chosen[n] \in Seq(S)
  <2>1. 0 \in D
    BY <1>2, <1>9
  <2>2. ASSUME NEW k \in 0 .. n - 1, k \in D PROVE k + 1 \in D
    <3>1. k + 1 \in 1 .. N /\ k + 1 - 1 = k /\ k <= N /\ k + 1 \in Nat
      BY <1>1
    <3>2. chosen[k] \in Seq(S) /\ list[k + 1] \in S
      BY <1>1, <2>2, <3>1
    <3>3. chosen[k + 1] = IF list[k + 1] \in set THEN Append(chosen[k], list[k + 1]) ELSE chosen[k]
      BY <1>8, <3>1
    <3>4. chosen[k + 1] \in Seq(S)
      BY <3>2, <3>3
    <3> QED  BY <3>1, <3>4
  <2>3. n \in Nat /\ n <= N
    BY <1>1
  <2> HIDE DEF D
  <2>4. n \in D
    BY <2>1, <2>2, <2>3, UpTo
  <2> QED  BY <2>3, <2>4 DEF D
<1>11. chosen \in [0 .. N -> Seq(S)]
  <2>1. chosen = [n \in 0 .. N |-> chosen[n]]
    BY <1>6
  <2> QED  BY <1>10, <2>1
<1> QED  BY <1>7, <1>8, <1>9, <1>11 DEF Filters

\* the ids of a list, and that each is there once
IdSet(list) == {list[i].id : i \in 1 .. Len(list)}
IdsOnce(list) == \A i, j \in 1 .. Len(list) : list[i].id = list[j].id => i = j

\* the elements of a sequence, and that each is there once
Elements(s) == {s[i] : i \in 1 .. Len(s)}
Once(s) == \A i, j \in 1 .. Len(s) : s[i] = s[j] => i = j

\* f has the first n timers of the list that are in the set
FilteredUpTo(f, list, set, n) ==
  /\ f \in Seq(Timer!Timers)
  /\ \A k \in 1 .. Len(f) : \E i \in 1 .. n : f[k] = list[i] /\ list[i] \in set
  /\ \A i \in 1 .. n : list[i] \in set => \E k \in 1 .. Len(f) : f[k] = list[i]
  /\ IdsOnce(list) => IdsOnce(f)

\* One timer more is looked at.
LEMMA FilteredNext ==
  ASSUME NEW list \in Seq(Timer!Timers), NEW set, NEW n \in 1 .. Len(list), NEW f,
         FilteredUpTo(f, list, set, n - 1)
  PROVE  FilteredUpTo(IF list[n] \in set THEN Append(f, list[n]) ELSE f, list, set, n)
<1> DEFINE g == Append(f, list[n])
<1>1. f \in Seq(Timer!Timers) /\ list[n] \in Timer!Timers
  BY DEF FilteredUpTo
<1>2. n \in Nat /\ n - 1 \in Nat /\ n \in 1 .. n /\ n <= Len(list) /\ Len(list) \in Nat
      /\ \A i \in 1 .. n : i = n \/ i \in 1 .. n - 1
  OBVIOUS
<1>3. CASE list[n] \notin set
  BY <1>1, <1>2, <1>3 DEF FilteredUpTo
<1>4. CASE list[n] \in set
  <2>1. /\ g \in Seq(Timer!Timers)
        /\ Len(g) = Len(f) + 1
        /\ \A k \in 1 .. Len(f) : g[k] = f[k]
        /\ g[Len(f) + 1] = list[n]
    BY <1>1
  <2> HIDE DEF g
  <2>2. Len(f) \in Nat /\ \A k \in 1 .. Len(g) : k = Len(f) + 1 \/ k \in 1 .. Len(f)
    BY <1>1, <2>1
  <2>3. ASSUME NEW k \in 1 .. Len(g)
        PROVE  \E i \in 1 .. n : g[k] = list[i] /\ list[i] \in set
    <3>1. CASE k = Len(f) + 1
      BY <1>2, <1>4, <2>1, <3>1
    <3>2. CASE k \in 1 .. Len(f)
      <4>1. PICK i \in 1 .. n - 1 : f[k] = list[i] /\ list[i] \in set
        BY <3>2 DEF FilteredUpTo
      <4>2. i \in 1 .. n
        BY <1>2
      <4> QED  BY <2>1, <3>2, <4>1, <4>2
    <3> QED  BY <2>2, <3>1, <3>2
  <2>4. ASSUME NEW i \in 1 .. n, list[i] \in set
        PROVE  \E k \in 1 .. Len(g) : g[k] = list[i]
    <3>1. CASE i = n
      <4>1. Len(f) + 1 \in 1 .. Len(g)
        BY <2>1, <2>2
      <4> QED  BY <2>1, <3>1, <4>1
    <3>2. CASE i \in 1 .. n - 1
      <4>1. PICK k \in 1 .. Len(f) : f[k] = list[i]
        BY <2>4, <3>2 DEF FilteredUpTo
      <4>2. k \in 1 .. Len(g)
        BY <2>1, <2>2
      <4> QED  BY <2>1, <4>1, <4>2
    <3> QED  BY <1>2, <3>1, <3>2
  <2>5. ASSUME IdsOnce(list) PROVE IdsOnce(g)
    <3>1. ASSUME NEW k \in 1 .. Len(f) PROVE g[k].id # list[n].id
      <4>1. PICK i \in 1 .. n - 1 : f[k] = list[i]
        BY DEF FilteredUpTo
      <4>2. i \in 1 .. Len(list) /\ n \in 1 .. Len(list) /\ i # n
        BY <1>2
      <4>3. list[i].id # list[n].id
        BY <2>5, <4>2 DEF IdsOnce
      <4> QED  BY <2>1, <4>1, <4>3
    <3>2. \A j, k \in 1 .. Len(f) : g[j].id = g[k].id => j = k
      BY <2>1, <2>5 DEF FilteredUpTo, IdsOnce
    <3> QED  BY <2>1, <2>2, <3>1, <3>2 DEF IdsOnce
  <2> QED  BY <1>4, <2>1, <2>3, <2>4, <2>5 DEF FilteredUpTo, g
<1> QED  BY <1>3, <1>4

\* filter() gives the timers of the list that are in the set, each once.
LEMMA FilteredTimers ==
  ASSUME NEW list \in Seq(Timer!Timers), NEW set
  PROVE  FilteredUpTo(Timer!Filtered(list, set), list, set, Len(list))
<1> DEFINE N == Len(list)
<1>1. PICK kept \in [0 .. N -> Seq(Timer!Timers)] :
        /\ kept[0] = <<>>
        /\ \A n \in 1 .. N :
             kept[n] = IF list[n] \in set THEN Append(kept[n - 1], list[n]) ELSE kept[n - 1]
        /\ Timer!Filtered(list, set) = kept[N]
  <2>1. Filters(Timer!Timers, list, set)
    BY KeptLists
  <2> QED  BY <2>1 DEF Filters
<1> DEFINE D == {n \in Nat : n <= N => FilteredUpTo(kept[n], list, set, n)}
<1>2. N \in Nat
  OBVIOUS
<1>3. 0 \in D
  BY <1>1 DEF FilteredUpTo, IdsOnce
<1>4. ASSUME NEW k \in 0 .. N - 1, k \in D PROVE k + 1 \in D
  <2>1. k + 1 \in 1 .. N /\ k + 1 - 1 = k /\ k <= N /\ k + 1 \in Nat
    BY <1>2
  <2>2. FilteredUpTo(kept[k], list, set, k)
    BY <1>4, <2>1
  <2>3. kept[k + 1] = IF list[k + 1] \in set THEN Append(kept[k], list[k + 1]) ELSE kept[k]
    BY <1>1, <2>1
  <2>4. FilteredUpTo(IF list[k + 1] \in set THEN Append(kept[k], list[k + 1]) ELSE kept[k],
                     list, set, k + 1)
    BY <2>1, <2>2, FilteredNext
  <2>5. FilteredUpTo(kept[k + 1], list, set, k + 1)
    BY <2>3, <2>4
  <2> QED  BY <2>1, <2>5
<1> HIDE DEF D
<1>5. N \in D
  BY <1>2, <1>3, <1>4, UpTo
<1> QED  BY <1>1, <1>2, <1>5 DEF D

\* sort() changes the places of the timers, if anything.
LEMMA SortedTimers ==
  ASSUME NEW list \in Seq(Timer!Timers), NEW o \in Timer!Sorted(list)
  PROVE  /\ o \in Seq(Timer!Timers)
         /\ IdSet(o) = IdSet(list)
         /\ IdsOnce(list) => IdsOnce(o)
<1>1. CASE o = list
  BY <1>1
<1>2. CASE o # list
  <2> DEFINE places == DOMAIN list
  <2>1. PICK p \in Timer!Bijection(places, places) : o = [k \in places |-> list[p[k]]]
    BY <1>2 DEF Timer!Sorted
  <2>2. places = 1 .. Len(list) /\ Len(list) \in Nat
    OBVIOUS
  <2>3. /\ p \in [places -> places]
        /\ \A j, k \in places : p[j] = p[k] => j = k
        /\ \A k \in places : \E j \in places : p[j] = k
    BY DEF Timer!Bijection, Timer!Injection, Timer!Surjection, Timer!IsInjective
  <2>4. o \in Seq(Timer!Timers) /\ Len(o) = Len(list)
        /\ \A k \in 1 .. Len(list) : p[k] \in 1 .. Len(list) /\ o[k] = list[p[k]]
    <3>1. o \in [1 .. Len(list) -> Timer!Timers]
      BY <2>1, <2>2, <2>3
    <3> QED  BY <2>1, <2>2, <2>3, <3>1
  <2>5. IdSet(o) = IdSet(list)
    <3>1. ASSUME NEW k \in 1 .. Len(list) PROVE o[k].id \in IdSet(list)
      BY <2>4 DEF IdSet
    <3>2. ASSUME NEW k \in 1 .. Len(list) PROVE list[k].id \in IdSet(o)
      <4>1. PICK j \in 1 .. Len(list) : p[j] = k
        BY <2>2, <2>3
      <4>2. o[j] = list[k] /\ j \in 1 .. Len(o)
        BY <2>4, <4>1
      <4> QED  BY <4>2 DEF IdSet
    <3>3. IdSet(o) \subseteq IdSet(list)
      BY <2>4, <3>1 DEF IdSet
    <3>4. IdSet(list) \subseteq IdSet(o)
      BY <3>2 DEF IdSet
    <3> QED  BY <3>3, <3>4
  <2>6. IdsOnce(list) => IdsOnce(o)
    <3>1. ASSUME IdsOnce(list), NEW j \in 1 .. Len(list), NEW k \in 1 .. Len(list),
                 o[j].id = o[k].id
          PROVE  j = k
      <4>1. p[j] \in 1 .. Len(list) /\ p[k] \in 1 .. Len(list) /\ list[p[j]].id = list[p[k]].id
        BY <2>4, <3>1
      <4>2. p[j] = p[k]
        BY <3>1, <4>1 DEF IdsOnce
      <4> QED  BY <2>2, <2>3, <4>2
    <3> QED  BY <2>4, <3>1 DEF IdsOnce
  <2> QED  BY <2>4, <2>5, <2>6
<1> QED  BY <1>1, <1>2
-----------------------------------------------------------------------------
(* TimerDebug: where the timers are *)

\* What append() adds to a list of ids.
LEMMA AppendElements ==
  ASSUME NEW S, NEW s \in Seq(S), NEW e \in S
  PROVE  /\ Append(s, e) \in Seq(S)
         /\ Elements(Append(s, e)) = Elements(s) \cup {e}
         /\ Once(s) /\ e \notin Elements(s) => Once(Append(s, e))
<1> DEFINE a == Append(s, e)
<1>1. /\ a \in Seq(S) /\ Len(a) = Len(s) + 1
      /\ \A k \in 1 .. Len(s) : a[k] = s[k]
      /\ a[Len(s) + 1] = e
  OBVIOUS
<1> HIDE DEF a
<1>2. Len(s) \in Nat /\ \A k : k \in 1 .. Len(a) <=> k = Len(s) + 1 \/ k \in 1 .. Len(s)
  BY <1>1
<1>3. Elements(a) = Elements(s) \cup {e}
  BY <1>1, <1>2 DEF Elements
<1>4. Once(s) /\ e \notin Elements(s) => Once(a)
  BY <1>1, <1>2 DEF Elements, Once
<1> QED  BY <1>1, <1>3, <1>4 DEF a

\* What taking the first id off a list leaves.
LEMMA HeadElements ==
  ASSUME NEW S, NEW s \in Seq(S), s # <<>>
  PROVE  /\ Head(s) \in S /\ Tail(s) \in Seq(S)
         /\ Elements(s) = {Head(s)} \cup Elements(Tail(s))
         /\ Once(s) => Once(Tail(s)) /\ Head(s) \notin Elements(Tail(s))
<1> DEFINE t == Tail(s)
<1>1. /\ Head(s) \in S /\ Head(s) = s[1]
      /\ t \in Seq(S) /\ Len(t) = Len(s) - 1
      /\ \A i \in 1 .. Len(t) : t[i] = s[i + 1]
  BY HeadTailProperties
<1> HIDE DEF t
<1>2. /\ Len(s) \in Nat /\ 1 \in 1 .. Len(s)
      /\ \A i \in 1 .. Len(t) : i + 1 \in 1 .. Len(s) /\ i + 1 # 1
      /\ \A i \in 1 .. Len(s) : i = 1 \/ (i - 1 \in 1 .. Len(t) /\ i - 1 + 1 = i)
  BY <1>1
<1>3. Elements(s) = {Head(s)} \cup Elements(t)
  <2>1. ASSUME NEW i \in 1 .. Len(s) PROVE s[i] = Head(s) \/ s[i] \in Elements(t)
    <3>1. CASE i = 1
      BY <1>1, <3>1
    <3>2. CASE i - 1 \in 1 .. Len(t) /\ i - 1 + 1 = i
      <4>1. t[i - 1] = s[i]
        BY <1>1, <3>2
      <4> QED  BY <3>2, <4>1 DEF Elements
    <3> QED  BY <1>2, <3>1, <3>2
  <2>2. ASSUME NEW i \in 1 .. Len(t) PROVE t[i] \in Elements(s)
    BY <1>1, <1>2 DEF Elements
  <2>3. Head(s) \in Elements(s)
    BY <1>1, <1>2 DEF Elements
  <2>4. Elements(t) \subseteq Elements(s)
    BY <2>2 DEF Elements
  <2>5. Elements(s) \subseteq {Head(s)} \cup Elements(t)
    BY <2>1 DEF Elements
  <2> QED  BY <2>3, <2>4, <2>5
<1>4. ASSUME Once(s) PROVE Once(t) /\ Head(s) \notin Elements(t)
  <2>1. ASSUME NEW i \in 1 .. Len(t), NEW j \in 1 .. Len(t), t[i] = t[j] PROVE i = j
    <3>1. s[i + 1] = s[j + 1] /\ i + 1 \in 1 .. Len(s) /\ j + 1 \in 1 .. Len(s)
      BY <1>1, <1>2, <2>1
    <3>2. i + 1 = j + 1
      BY <1>4, <3>1 DEF Once
    <3> QED  BY <3>2
  <2>2. ASSUME NEW i \in 1 .. Len(t) PROVE t[i] # Head(s)
    <3>1. i + 1 \in 1 .. Len(s) /\ i + 1 # 1 /\ t[i] = s[i + 1]
      BY <1>1, <1>2
    <3>2. s[i + 1] # s[1]
      BY <1>2, <1>4, <3>1 DEF Once
    <3> QED  BY <1>1, <3>1, <3>2
  <2> QED  BY <2>1, <2>2 DEF Once, Elements
<1> QED  BY <1>1, <1>3, <1>4 DEF t

\* map() gives the ids of a list.
LEMMA ListIds ==
  ASSUME NEW list \in Seq(Timer!Timers)
  PROVE  /\ Timer!IdsOf(list) \in Seq(Timer!Ids)
         /\ Elements(Timer!IdsOf(list)) = IdSet(list)
         /\ IdsOnce(list) => Once(Timer!IdsOf(list))
<1> DEFINE ids == Timer!IdsOf(list)
<1>1. Len(list) \in Nat /\ \A k \in 1 .. Len(list) : list[k].id \in Timer!Ids
  <2>1. \A k \in 1 .. Len(list) : list[k] \in Timer!Timers
    OBVIOUS
  <2>2. \A t \in Timer!Timers : t.id \in Timer!Ids
    BY DEF Timer!Timers
  <2> QED  BY <2>1, <2>2
<1>2. ids = [k \in 1 .. Len(list) |-> list[k].id]
  BY DEF Timer!IdsOf
<1> HIDE DEF ids
<1>3. ids \in [1 .. Len(list) -> Timer!Ids]
  BY <1>1, <1>2
<1>4. ids \in Seq(Timer!Ids) /\ Len(ids) = Len(list)
  BY <1>1, <1>3
<1>5. Elements(ids) = IdSet(list)
  BY <1>2, <1>4 DEF Elements, IdSet
<1>6. IdsOnce(list) => Once(ids)
  BY <1>2, <1>4 DEF IdsOnce, Once
<1> QED  BY <1>4, <1>5, <1>6 DEF ids

\* push() adds a timer to the list.
LEMMA AppendTimer ==
  ASSUME NEW list \in Seq(Timer!Timers), NEW t \in Timer!Timers
  PROVE  /\ Append(list, t) \in Seq(Timer!Timers)
         /\ IdSet(Append(list, t)) = IdSet(list) \cup {t.id}
         /\ IdsOnce(list) /\ t.id \notin IdSet(list) => IdsOnce(Append(list, t))
<1> DEFINE a == Append(list, t)
<1>1. /\ a \in Seq(Timer!Timers) /\ Len(a) = Len(list) + 1
      /\ \A k \in 1 .. Len(list) : a[k] = list[k]
      /\ a[Len(list) + 1] = t
  OBVIOUS
<1> HIDE DEF a
<1>2. Len(list) \in Nat /\ \A k : k \in 1 .. Len(a) <=> k = Len(list) + 1 \/ k \in 1 .. Len(list)
  BY <1>1
<1>3. IdSet(a) = IdSet(list) \cup {t.id}
  BY <1>1, <1>2 DEF IdSet
<1>4. IdsOnce(list) /\ t.id \notin IdSet(list) => IdsOnce(a)
  BY <1>1, <1>2 DEF IdSet, IdsOnce
<1> QED  BY <1>1, <1>3, <1>4 DEF a

\* splice() and slice() part the list in two.
LEMMA SplitTimers ==
  ASSUME NEW list \in Seq(Timer!Timers), NEW count \in 0 .. Len(list)
  PROVE  LET a == SubSeq(list, 1, count)
             b == SubSeq(list, count + 1, Len(list))
         IN /\ a \in Seq(Timer!Timers) /\ b \in Seq(Timer!Timers)
            /\ IdSet(list) = IdSet(a) \cup IdSet(b)
            /\ IdsOnce(list) => IdsOnce(a) /\ IdsOnce(b) /\ IdSet(a) \cap IdSet(b) = {}
<1> DEFINE a == SubSeq(list, 1, count)
           b == SubSeq(list, count + 1, Len(list))
<1>1. /\ a \in Seq(Timer!Timers) /\ Len(a) = count
      /\ \A i \in 1 .. count : a[i] = list[i]
  <2>1. count \in Int /\ \A i \in 1 .. count : list[i] \in Timer!Timers
    OBVIOUS
  <2>2. /\ a \in Seq(Timer!Timers) /\ Len(a) = IF 1 <= count THEN count - 1 + 1 ELSE 0
        /\ \A i \in 1 .. count - 1 + 1 : a[i] = list[1 + i - 1]
    BY <2>1, SubSeqProperties
  <2> QED  BY <2>2
<1>2. /\ b \in Seq(Timer!Timers) /\ Len(b) = Len(list) - count
      /\ \A i \in 1 .. Len(list) - count : b[i] = list[count + i]
  <2>1. count + 1 \in Int /\ Len(list) \in Int /\ \A i \in count + 1 .. Len(list) : list[i] \in Timer!Timers
    OBVIOUS
  <2>2. /\ b \in Seq(Timer!Timers)
        /\ Len(b) = IF count + 1 <= Len(list) THEN Len(list) - (count + 1) + 1 ELSE 0
        /\ \A i \in 1 .. Len(list) - (count + 1) + 1 : b[i] = list[count + 1 + i - 1]
    BY <2>1, SubSeqProperties
  <2> QED  BY <2>2
<1> HIDE DEF a, b
<1>3. /\ Len(list) \in Nat /\ count \in Nat
      /\ \A i \in 1 .. Len(a) : i \in 1 .. Len(list)
      /\ \A i \in 1 .. Len(b) : count + i \in 1 .. Len(list) /\ count + i \notin 1 .. Len(a)
      /\ \A i \in 1 .. Len(list) : i \in 1 .. Len(a)
           \/ (i - count \in 1 .. Len(b) /\ count + (i - count) = i)
  BY <1>1, <1>2
<1>4. IdSet(a) \subseteq IdSet(list) /\ IdSet(b) \subseteq IdSet(list)
  <2>1. ASSUME NEW i \in 1 .. Len(a) PROVE a[i].id \in IdSet(list)
    BY <1>1, <1>3 DEF IdSet
  <2>2. ASSUME NEW i \in 1 .. Len(b) PROVE b[i].id \in IdSet(list)
    BY <1>2, <1>3 DEF IdSet
  <2> QED  BY <2>1, <2>2 DEF IdSet
<1>5. ASSUME NEW i \in 1 .. Len(list) PROVE list[i].id \in IdSet(a) \cup IdSet(b)
  <2>1. CASE i \in 1 .. Len(a)
    BY <1>1, <2>1 DEF IdSet
  <2>2. CASE i - count \in 1 .. Len(b) /\ count + (i - count) = i
    <3>1. b[i - count] = list[i]
      BY <1>2, <2>2
    <3> QED  BY <2>2, <3>1 DEF IdSet
  <2> QED  BY <1>3, <2>1, <2>2
<1>6. IdSet(list) \subseteq IdSet(a) \cup IdSet(b)
  BY <1>5 DEF IdSet
<1>7. ASSUME IdsOnce(list) PROVE IdsOnce(a) /\ IdsOnce(b) /\ IdSet(a) \cap IdSet(b) = {}
  <2>1. IdsOnce(a)
    BY <1>1, <1>3, <1>7 DEF IdsOnce
  <2>2. ASSUME NEW i \in 1 .. Len(b), NEW j \in 1 .. Len(b), b[i].id = b[j].id PROVE i = j
    <3>1. list[count + i].id = list[count + j].id
          /\ count + i \in 1 .. Len(list) /\ count + j \in 1 .. Len(list)
      BY <1>2, <1>3, <2>2
    <3>2. count + i = count + j
      BY <1>7, <3>1 DEF IdsOnce
    <3> QED  BY <1>3, <3>2
  <2>3. ASSUME NEW i \in 1 .. Len(a), NEW j \in 1 .. Len(b) PROVE a[i].id # b[j].id
    <3>1. i \in 1 .. Len(list) /\ count + j \in 1 .. Len(list) /\ count + j # i
      BY <1>3
    <3>2. a[i] = list[i] /\ b[j] = list[count + j]
      BY <1>1, <1>2
    <3>3. list[i].id # list[count + j].id
      BY <1>7, <3>1 DEF IdsOnce
    <3> QED  BY <3>2, <3>3
  <2> QED  BY <2>1, <2>2, <2>3 DEF IdsOnce, IdSet
<1> QED  BY <1>1, <1>2, <1>4, <1>6, <1>7 DEF a, b

\* every timer is in one place: it was fired, is to be fired or waits, or is cleared
Placed(F, L, list, n, c) ==
  /\ F \in Seq(Timer!Ids) /\ Once(F)
  /\ L \in Seq(Timer!Ids) /\ Once(L)
  /\ list \in Seq(Timer!Timers) /\ IdsOnce(list)
  /\ Elements(F) \cap Elements(L) = {}
  /\ Elements(F) \cap IdSet(list) = {}
  /\ Elements(L) \cap IdSet(list) = {}
  /\ n \in 0 .. MaxTimers
  /\ c \subseteq 1 .. n
  /\ Elements(F) \cup Elements(L) \cup IdSet(list) = 1 .. n \ c

TimerInv == clock \in 0 .. MaxTime /\ Placed(fired, fireList, timeOuts, timersSet, cleared)

\* filter() gives the ids of the timers of the list that are in the set.
LEMMA FilteredIds ==
  ASSUME NEW f, NEW list, NEW set, FilteredUpTo(f, list, set, Len(list))
  PROVE  IdSet(f) = {list[i].id : i \in {j \in 1 .. Len(list) : list[j] \in set}}
<1> DEFINE ids == {list[i].id : i \in {j \in 1 .. Len(list) : list[j] \in set}}
<1>1. ASSUME NEW k \in 1 .. Len(f) PROVE f[k].id \in ids
  BY DEF FilteredUpTo
<1>2. ASSUME NEW i \in 1 .. Len(list), list[i] \in set PROVE list[i].id \in IdSet(f)
  BY <1>2 DEF FilteredUpTo, IdSet
<1>3. IdSet(f) \subseteq ids
  <2> HIDE DEF ids
  <2> QED  BY <1>1 DEF IdSet
<1> QED  BY <1>2, <1>3

\* setTimeout() and clearTimeout(): a new timer waits, and a cleared one does no more.
LEMMA CallPlaced ==
  ASSUME TimerInv, Timer!ApplicationCall
  PROVE  Placed(fired, fireList, timeOuts', timersSet', cleared')
<1>1. ASSUME NEW milliseconds \in 0 .. MaxTime, Timer!SetTimeout(milliseconds)
      PROVE  Placed(fired, fireList, timeOuts', timersSet', cleared')
  <2> DEFINE timer == [id |-> timersSet + 1, targetTime |-> clock + milliseconds]
             list == Append(timeOuts, timer)
  <2>1. timersSet' = timersSet + 1 /\ timersSet + 1 \in Timer!Ids /\ timersSet' \in 0 .. MaxTimers
    BY <1>1, TimerAssumption DEF Timer!SetTimeout, Timer!Ids, TimerInv, Placed
  <2>2. clock + milliseconds \in 0 .. MaxTime
    BY <1>1, TimerAssumption DEF Timer!SetTimeout, TimerInv
  <2>3. timer \in Timer!Timers /\ timer.id = timersSet + 1
    BY <2>1, <2>2 DEF Timer!Timers
  <2>4. timeOuts' \in Timer!Sorted(list) /\ cleared' = cleared
    BY <1>1 DEF Timer!SetTimeout
  <2> HIDE DEF timer
  <2>5. timersSet + 1 \notin 1 .. timersSet
    BY DEF TimerInv, Placed
  <2>6. /\ timersSet + 1 \notin Elements(fired) /\ timersSet + 1 \notin Elements(fireList)
        /\ timersSet + 1 \notin IdSet(timeOuts)
    BY <2>5 DEF TimerInv, Placed
  <2>7. timeOuts \in Seq(Timer!Timers) /\ IdsOnce(timeOuts)
    BY DEF TimerInv, Placed
  <2>8. list \in Seq(Timer!Timers) /\ IdsOnce(list) /\ IdSet(list) = IdSet(timeOuts) \cup {timersSet + 1}
    BY <2>3, <2>6, <2>7, AppendTimer
  <2> HIDE DEF list
  <2>9. /\ timeOuts' \in Seq(Timer!Timers) /\ IdsOnce(timeOuts')
        /\ IdSet(timeOuts') = IdSet(timeOuts) \cup {timersSet + 1}
    BY <2>4, <2>8, SortedTimers
  <2>10. 1 .. timersSet + 1 = (1 .. timersSet) \cup {timersSet + 1}
    BY DEF TimerInv, Placed
  <2> QED  BY <2>1, <2>4, <2>5, <2>6, <2>9, <2>10 DEF TimerInv, Placed
<1>2. ASSUME NEW id \in 1 .. timersSet, Timer!ClearTimeout(id)
      PROVE  Placed(fired, fireList, timeOuts', timersSet', cleared')
  <2> DEFINE set == {timer \in Timer!ToSet(timeOuts) : timer.id # id}
  <2>1. /\ timeOuts' = Timer!Filtered(timeOuts, set)
        /\ cleared' = cleared \cup ({id} \cap Timer!ToSet(Timer!IdsOf(timeOuts)))
        /\ timersSet' = timersSet
    BY <1>2 DEF Timer!ClearTimeout
  <2>2. timeOuts \in Seq(Timer!Timers) /\ IdsOnce(timeOuts) /\ Len(timeOuts) \in Nat
    BY DEF TimerInv, Placed
  <2>3. \A i \in 1 .. Len(timeOuts) : timeOuts[i] \in set <=> timeOuts[i].id # id
    BY <2>2 DEF Timer!ToSet
  <2> HIDE DEF set
  <2>4. FilteredUpTo(timeOuts', timeOuts, set, Len(timeOuts))
    BY <2>1, <2>2, FilteredTimers
  <2>5. timeOuts' \in Seq(Timer!Timers) /\ IdsOnce(timeOuts') /\ IdSet(timeOuts') = IdSet(timeOuts) \ {id}
    <3>1. IdSet(timeOuts') = {timeOuts[i].id : i \in {j \in 1 .. Len(timeOuts) : timeOuts[j] \in set}}
      BY <2>4, FilteredIds
    <3>2. IdSet(timeOuts') = IdSet(timeOuts) \ {id}
      BY <2>3, <3>1 DEF IdSet
    <3> QED  BY <2>2, <2>4, <3>2 DEF FilteredUpTo
  <2>6. cleared' = cleared \cup ({id} \cap IdSet(timeOuts))
    <3>1. Timer!IdsOf(timeOuts) \in Seq(Timer!Ids) /\ Elements(Timer!IdsOf(timeOuts)) = IdSet(timeOuts)
      BY <2>2, ListIds
    <3>2. Timer!ToSet(Timer!IdsOf(timeOuts)) = Elements(Timer!IdsOf(timeOuts))
      BY <3>1 DEF Timer!ToSet, Elements
    <3> QED  BY <2>1, <3>1, <3>2
  <2> QED  BY <2>1, <2>5, <2>6 DEF TimerInv, Placed
<1> QED  BY <1>1, <1>2 DEF Timer!ApplicationCall

\* fireList.shift() and the call of func(): a timer that is to be fired was fired.
LEMMA HeadPlaced ==
  ASSUME NEW F, NEW L, NEW list, NEW n, NEW c, Placed(F, L, list, n, c), L # <<>>
  PROVE  Placed(Append(F, Head(L)), Tail(L), list, n, c)
<1>1. L \in Seq(Timer!Ids) /\ F \in Seq(Timer!Ids)
  BY DEF Placed
<1>2. /\ Head(L) \in Timer!Ids /\ Tail(L) \in Seq(Timer!Ids)
      /\ Elements(L) = {Head(L)} \cup Elements(Tail(L))
      /\ Once(Tail(L)) /\ Head(L) \notin Elements(Tail(L))
  BY <1>1, HeadElements DEF Placed
<1>3. Head(L) \notin Elements(F)
  BY <1>2 DEF Placed
<1>4. /\ Append(F, Head(L)) \in Seq(Timer!Ids)
      /\ Elements(Append(F, Head(L))) = Elements(F) \cup {Head(L)}
      /\ Once(Append(F, Head(L)))
  BY <1>1, <1>2, <1>3, AppendElements DEF Placed
<1> QED  BY <1>2, <1>3, <1>4 DEF Placed

\* When no timer is to be fired, a part of the list can become the timers to fire.
LEMMA PartPlaced ==
  ASSUME NEW F, NEW list, NEW n, NEW c, Placed(F, <<>>, list, n, c),
         NEW a \in Seq(Timer!Timers), NEW b \in Seq(Timer!Timers), IdsOnce(a), IdsOnce(b),
         IdSet(list) = IdSet(a) \cup IdSet(b), IdSet(a) \cap IdSet(b) = {}
  PROVE  Placed(F, Timer!IdsOf(a), b, n, c)
<1>1. /\ Timer!IdsOf(a) \in Seq(Timer!Ids)
      /\ Elements(Timer!IdsOf(a)) = IdSet(a)
      /\ Once(Timer!IdsOf(a))
  BY ListIds
<1>2. Elements(<<>>) = {}
  BY DEF Elements
<1> QED  BY <1>1, <1>2 DEF Placed

\* qtimerdebug_fireElapsedTimers(): the timers that have elapsed are to be fired, the others wait.
LEMMA ElapsedPlaced ==
  ASSUME TimerInv, Timer!Idle, Timer!FireElapsed
  PROVE  Placed(fired, fireList', timeOuts', timersSet, cleared)
<1> DEFINE early == {timer \in Timer!ToSet(timeOuts) : Timer!Elapsed(timer)}
           late == {timer \in Timer!ToSet(timeOuts) : Timer!Kept(timer)}
           a == Timer!Filtered(timeOuts, early)
           b == Timer!Filtered(timeOuts, late)
<1>1. fireList' = Timer!IdsOf(a) /\ timeOuts' = b /\ fireList = <<>>
  BY DEF Timer!FireElapsed, Timer!Idle
<1>2. timeOuts \in Seq(Timer!Timers) /\ IdsOnce(timeOuts) /\ Len(timeOuts) \in Nat
  BY DEF TimerInv, Placed
<1>3. \A i \in 1 .. Len(timeOuts) : timeOuts[i] \in late <=> timeOuts[i] \notin early
  <2>1. \A i \in 1 .. Len(timeOuts) : timeOuts[i] \in Timer!ToSet(timeOuts)
                                      /\ timeOuts[i].targetTime \in 0 .. MaxTime
    <3>1. \A t \in Timer!Timers : t.targetTime \in 0 .. MaxTime
      BY DEF Timer!Timers
    <3> QED  BY <1>2, <3>1 DEF Timer!ToSet
  <2>2. clock \in 0 .. MaxTime
    BY DEF TimerInv
  <2> QED  BY <2>1, <2>2, TimerAssumption DEF Timer!Elapsed, Timer!Kept
<1> HIDE DEF early, late
<1>4. FilteredUpTo(a, timeOuts, early, Len(timeOuts)) /\ FilteredUpTo(b, timeOuts, late, Len(timeOuts))
  BY <1>2, FilteredTimers
<1> HIDE DEF a, b
<1>5. a \in Seq(Timer!Timers) /\ b \in Seq(Timer!Timers) /\ IdsOnce(a) /\ IdsOnce(b)
  BY <1>2, <1>4 DEF FilteredUpTo
<1>6. /\ IdSet(a) = {timeOuts[i].id : i \in {j \in 1 .. Len(timeOuts) : timeOuts[j] \in early}}
      /\ IdSet(b) = {timeOuts[i].id : i \in {j \in 1 .. Len(timeOuts) : timeOuts[j] \in late}}
  BY <1>4, FilteredIds
<1>7. IdSet(timeOuts) = IdSet(a) \cup IdSet(b)
  BY <1>3, <1>6 DEF IdSet
<1>8. IdSet(a) \cap IdSet(b) = {}
  BY <1>2, <1>3, <1>6 DEF IdsOnce
<1> QED  BY <1>1, <1>5, <1>7, <1>8, PartPlaced DEF TimerInv

\* "step" and "step all": the first timers are to be fired, the others wait.
LEMMA StepPlaced ==
  ASSUME TimerInv, NEW count \in 0 .. Len(timeOuts), Timer!StepTimers(count)
  PROVE  Placed(fired, fireList', timeOuts', timersSet, cleared)
<1> DEFINE a == SubSeq(timeOuts, 1, count)
           b == SubSeq(timeOuts, count + 1, Len(timeOuts))
<1>1. fireList' = Timer!IdsOf(a) /\ timeOuts' = b /\ fireList = <<>>
  BY DEF Timer!StepTimers, Timer!Idle
<1>2. timeOuts \in Seq(Timer!Timers) /\ IdsOnce(timeOuts)
  BY DEF TimerInv, Placed
<1>3. /\ a \in Seq(Timer!Timers) /\ b \in Seq(Timer!Timers) /\ IdsOnce(a) /\ IdsOnce(b)
      /\ IdSet(timeOuts) = IdSet(a) \cup IdSet(b) /\ IdSet(a) \cap IdSet(b) = {}
  BY <1>2, SplitTimers
<1> HIDE DEF a, b
<1> QED  BY <1>1, <1>3, PartPlaced DEF TimerInv

\* A sequence of two parts has every element once if its parts have, and share none.
LEMMA JoinTwo ==
  ASSUME NEW S, NEW s \in Seq(S), NEW t \in Seq(S), Once(s), Once(t),
         Elements(s) \cap Elements(t) = {}
  PROVE  /\ s \o t \in Seq(S) /\ Once(s \o t)
         /\ Elements(s \o t) = Elements(s) \cup Elements(t)
<1> DEFINE j == s \o t
<1>1. /\ j \in Seq(S) /\ Len(j) = Len(s) + Len(t) /\ Len(s) \in Nat /\ Len(t) \in Nat
      /\ \A i \in 1 .. Len(s) : j[i] = s[i] /\ i \in 1 .. Len(j)
      /\ \A i \in 1 .. Len(t) : j[Len(s) + i] = t[i] /\ Len(s) + i \in 1 .. Len(j)
      /\ \A i \in 1 .. Len(j) : i \in 1 .. Len(s) \/ \E k \in 1 .. Len(t) : i = Len(s) + k
  <2>1. /\ j \in Seq(S) /\ Len(j) = Len(s) + Len(t) /\ Len(s) \in Nat /\ Len(t) \in Nat
        /\ \A i \in 1 .. Len(s) + Len(t) : j[i] = IF i <= Len(s) THEN s[i] ELSE t[i - Len(s)]
    BY ConcatProperties
  <2> HIDE DEF j
  <2>2. ASSUME NEW i \in 1 .. Len(t) PROVE j[Len(s) + i] = t[i] /\ Len(s) + i \in 1 .. Len(j)
    <3>1. Len(s) + i \in 1 .. Len(s) + Len(t) /\ ~ (Len(s) + i <= Len(s)) /\ Len(s) + i - Len(s) = i
      BY <2>1
    <3> QED  BY <2>1, <3>1
  <2>3. ASSUME NEW i \in 1 .. Len(s) PROVE j[i] = s[i] /\ i \in 1 .. Len(j)
    BY <2>1
  <2>4. ASSUME NEW i \in 1 .. Len(j)
        PROVE  i \in 1 .. Len(s) \/ \E k \in 1 .. Len(t) : i = Len(s) + k
    <3>1. CASE i <= Len(s)
      BY <2>1, <3>1
    <3>2. CASE ~ (i <= Len(s))
      <4>1. i - Len(s) \in 1 .. Len(t) /\ i = Len(s) + (i - Len(s))
        BY <2>1, <3>2
      <4> QED  BY <4>1
    <3> QED  BY <3>1, <3>2
  <2> QED  BY <2>1, <2>2, <2>3, <2>4
<1> HIDE DEF j
<1>2. Elements(j) = Elements(s) \cup Elements(t)
  <2>1. ASSUME NEW i \in 1 .. Len(j) PROVE j[i] \in Elements(s) \cup Elements(t)
    BY <1>1 DEF Elements
  <2>2. ASSUME NEW i \in 1 .. Len(s) PROVE s[i] \in Elements(j)
    BY <1>1 DEF Elements
  <2>3. ASSUME NEW i \in 1 .. Len(t) PROVE t[i] \in Elements(j)
    BY <1>1 DEF Elements
  <2>4. Elements(s) \cup Elements(t) \subseteq Elements(j)
    BY <2>2, <2>3 DEF Elements
  <2>5. Elements(j) \subseteq Elements(s) \cup Elements(t)
    <3>1. ASSUME NEW e \in Elements(j) PROVE e \in Elements(s) \cup Elements(t)
      <4>1. PICK i \in 1 .. Len(j) : e = j[i]
        BY DEF Elements
      <4> QED  BY <2>1, <4>1
    <3> QED  BY <3>1
  <2> QED  BY <2>4, <2>5
<1>3. ASSUME NEW i \in 1 .. Len(s), NEW k \in 1 .. Len(t) PROVE s[i] # t[k]
  BY DEF Elements
<1>4. ASSUME NEW h \in 1 .. Len(j), NEW i \in 1 .. Len(j), j[h] = j[i] PROVE h = i
  <2>1. CASE h \in 1 .. Len(s) /\ i \in 1 .. Len(s)
    BY <1>1, <1>4, <2>1 DEF Once
  <2>2. CASE h \in 1 .. Len(s) /\ \E k \in 1 .. Len(t) : i = Len(s) + k
    <3>1. PICK k \in 1 .. Len(t) : i = Len(s) + k
      BY <2>2
    <3>2. s[h] = t[k]
      BY <1>1, <1>4, <2>2, <3>1
    <3> QED  BY <1>3, <2>2, <3>2
  <2>3. CASE i \in 1 .. Len(s) /\ \E k \in 1 .. Len(t) : h = Len(s) + k
    <3>1. PICK k \in 1 .. Len(t) : h = Len(s) + k
      BY <2>3
    <3>2. s[i] = t[k]
      BY <1>1, <1>4, <2>3, <3>1
    <3> QED  BY <1>3, <2>3, <3>2
  <2>4. ASSUME NEW k \in 1 .. Len(t), NEW l \in 1 .. Len(t), h = Len(s) + k, i = Len(s) + l
        PROVE  h = i
    <3>1. t[k] = t[l]
      BY <1>1, <1>4, <2>4
    <3>2. k = l
      BY <3>1 DEF Once
    <3> QED  BY <2>4, <3>2
  <2> QED  BY <1>1, <2>1, <2>2, <2>3, <2>4
<1> QED  BY <1>1, <1>2, <1>4 DEF Once, j

\* A sequence of three parts has every element once if its parts have, and share none.
LEMMA JoinOnce ==
  ASSUME NEW S, NEW r \in Seq(S), NEW s \in Seq(S), NEW t \in Seq(S), Once(r), Once(s), Once(t),
         Elements(r) \cap Elements(s) = {}, Elements(r) \cap Elements(t) = {},
         Elements(s) \cap Elements(t) = {}
  PROVE  /\ Once(r \o s \o t) /\ r \o s \o t \in Seq(S)
         /\ Elements(r \o s \o t) = Elements(r) \cup Elements(s) \cup Elements(t)
<1>1. r \o s \in Seq(S) /\ Once(r \o s) /\ Elements(r \o s) = Elements(r) \cup Elements(s)
  BY JoinTwo
<1>2. Elements(r \o s) \cap Elements(t) = {}
  BY <1>1
<1> DEFINE u == r \o s
<1> HIDE DEF u
<1>3. u \in Seq(S) /\ Once(u) /\ Elements(u) \cap Elements(t) = {}
  BY <1>1, <1>2 DEF u
<1>4. u \o t \in Seq(S) /\ Once(u \o t) /\ Elements(u \o t) = Elements(u) \cup Elements(t)
  BY <1>3, JoinTwo
<1>5. Elements(u) = Elements(r) \cup Elements(s)
  BY <1>1 DEF u
<1> QED  BY <1>4, <1>5 DEF u

\* However timers are set, cleared, paused, stepped and fired, every timer waits, is about to
\* be fired, was fired once or was cleared, and is in one of these places (qtimerdebug.js).
THEOREM TimersOnce == MCSpec => []TimersKept
<1>1. MCInit => TimerInv
  <2> SUFFICES ASSUME MCInit PROVE TimerInv
    OBVIOUS
  <2>1. /\ timeOuts = <<>> /\ fireList = <<>> /\ fired = <<>> /\ clock = 0 /\ timersSet = 0
        /\ cleared = {}
    BY DEF MCInit, Timer!Init
  <2>2. Elements(<<>>) = {} /\ IdSet(<<>>) = {} /\ Once(<<>>) /\ IdsOnce(<<>>)
    BY DEF Elements, IdSet, Once, IdsOnce
  <2>3. <<>> \in Seq(Timer!Ids) /\ <<>> \in Seq(Timer!Timers) /\ 0 \in 0 .. MaxTimers
        /\ 0 \in 0 .. MaxTime /\ 1 .. 0 = {}
    BY TimerAssumption
  <2> QED  BY <2>1, <2>2, <2>3 DEF TimerInv, Placed
<1>2. TimerInv /\ [MCNext]_allVars => TimerInv'
  <2> SUFFICES ASSUME TimerInv, [MCNext]_allVars PROVE TimerInv'
    OBVIOUS
  <2>1. CASE Timer!Application
    BY <2>1, CallPlaced DEF Timer!Application, TimerInv
  <2>2. CASE Timer!CallFunc
    <3>1. Placed(fired, fireList, timeOuts', timersSet', cleared')
      BY <2>2, CallPlaced DEF Timer!CallFunc, TimerInv
    <3>2. fireList # <<>> /\ fired' = Append(fired, Head(fireList)) /\ fireList' = Tail(fireList)
          /\ clock' = clock
      BY <2>2 DEF Timer!CallFunc, Timer!Idle
    <3>3. Placed(Append(fired, Head(fireList)), Tail(fireList), timeOuts', timersSet', cleared')
      BY <3>1, <3>2, HeadPlaced
    <3> QED  BY <3>2, <3>3 DEF TimerInv
  <2>3. CASE \E timeout \in realTimeouts : Timer!RealTimeout(timeout)
    BY <2>3, ElapsedPlaced DEF Timer!RealTimeout, TimerInv
  <2>4. CASE Timer!SetRunning
    BY <2>4, ElapsedPlaced DEF Timer!SetRunning, TimerInv
  <2>5. CASE Timer!FireNextTimer \/ Timer!FireAllTimers
    <3>1. PICK count \in 0 .. Len(timeOuts) : Timer!StepTimers(count)
      <4>1. timeOuts \in Seq(Timer!Timers)
        BY DEF TimerInv, Placed
      <4>2. Len(timeOuts) \in 0 .. Len(timeOuts) /\ (timeOuts # <<>> => 1 \in 0 .. Len(timeOuts))
        BY <4>1
      <4> QED  BY <2>5, <4>2 DEF Timer!FireNextTimer, Timer!FireAllTimers
    <3> QED  BY <3>1, StepPlaced DEF Timer!StepTimers, TimerInv
  <2>6. CASE Timer!Tick
    BY <2>6, TimerAssumption DEF Timer!Tick, TimerInv
  <2>7. CASE UNCHANGED timerVars
    BY <2>7 DEF timerVars, TimerInv
  <2>8. UNCHANGED timerVars \/ Timer!Next
    BY DEF MCNext, allVars, InFrames, InTimers, InHello, InCanvases, InGl, InSettings, InMemory, In
  <2> QED  BY <2>1, <2>2, <2>3, <2>4, <2>5, <2>6, <2>7, <2>8 DEF Timer!Next, Timer!BrowserStep
<1>3. TimerInv => TimersKept
  <2> SUFFICES ASSUME TimerInv PROVE TimersKept
    OBVIOUS
  <2> DEFINE ids == Timer!IdsOf(timeOuts)
             all == fired \o fireList \o ids
  <2>1. ids \in Seq(Timer!Ids) /\ Elements(ids) = IdSet(timeOuts) /\ Once(ids)
    BY ListIds DEF TimerInv, Placed
  <2> HIDE DEF ids
  <2>2. fired \in Seq(Timer!Ids) /\ fireList \in Seq(Timer!Ids) /\ Once(fired) /\ Once(fireList)
    BY DEF TimerInv, Placed
  <2>3. Once(all) /\ all \in Seq(Timer!Ids)
        /\ Elements(all) = Elements(fired) \cup Elements(fireList) \cup Elements(ids)
    BY <2>1, <2>2, JoinOnce DEF TimerInv, Placed
  <2> HIDE DEF all
  <2>4. Timer!IsInjective(all) /\ Timer!ToSet(all) = 1 .. timersSet \ cleared
    <3>1. DOMAIN all = 1 .. Len(all)
      BY <2>3
    <3>2. Timer!IsInjective(all)
      BY <2>3, <3>1 DEF Timer!IsInjective, Once
    <3>3. Timer!ToSet(all) = Elements(all)
      BY <3>1 DEF Timer!ToSet, Elements
    <3>4. Elements(all) = 1 .. timersSet \ cleared
      BY <2>1, <2>3 DEF TimerInv, Placed
    <3> QED  BY <3>2, <3>3, <3>4
  <2> QED  BY <2>4 DEF TimersKept, Timer!TimersKept, all, ids
<1> QED  BY <1>1, <1>2, <1>3, PTL DEF MCSpec

-----------------------------------------------------------------------------
(* MemoryMeters *)

\* the sums of the first blocks, one after the other
Sums(S, sizes) ==
  \E total \in [0 .. Len(sizes) -> S] :
    /\ total[0] = 0
    /\ \A n \in 1 .. Len(sizes) : total[n] = total[n - 1] + sizes[n]
    /\ Memory!Sum(sizes) = total[Len(sizes)]

\* The sum of a list can be computed, and is a number.
LEMMA SumComputed ==
  ASSUME NEW sizes \in Seq(Nat)
  PROVE  Sums(Nat, sizes)
<1> DEFINE N == Len(sizes)
           Added(total, k) == IF k = 0 THEN 0 ELSE total[k - 1] + sizes[k]
           g == [n \in 1 .. N |-> [v \in Nat |-> v + sizes[n]]]
           chosen == CHOOSE total : total = [k \in 0 .. N |-> Added(total, k)]
<1>1. N \in Nat /\ \A n \in 1 .. N : sizes[n] \in Nat
  OBVIOUS
<1>2. g \in [1 .. N -> [Nat -> Nat]]
  BY <1>1
<1>3. PICK F \in [0 .. N -> Nat] : F[0] = 0 /\ \A n \in 1 .. N : F[n] = g[n][F[n - 1]]
  <2> DEFINE V == Nat
             b == 0
  <2> HIDE DEF g, N, V, b
  <2>1. N \in Nat /\ b \in V /\ g \in [1 .. N -> [V -> V]]
    BY <1>1, <1>2 DEF V, b
  <2>2. Steps(V, N, b, g)
    BY <2>1, Computed
  <2> QED  BY <2>2 DEF Steps, V, b
<1>4. ASSUME NEW n \in 1 .. N PROVE F[n] = F[n - 1] + sizes[n]
  <2>1. n - 1 \in 0 .. N
    BY <1>1
  <2> QED  BY <1>1, <1>3, <2>1
<1>5. F = [k \in 0 .. N |-> Added(F, k)]
  <2>1. ASSUME NEW k \in 0 .. N PROVE F[k] = Added(F, k)
    <3>1. CASE k = 0
      BY <1>3, <3>1
    <3>2. CASE k \in 1 .. N
      BY <1>4, <3>2
    <3> QED  BY <1>1, <3>1, <3>2
  <2>2. F = [k \in 0 .. N |-> F[k]]
    BY <1>3
  <2> QED  BY <2>1, <2>2
<1>6. chosen = [k \in 0 .. N |-> Added(chosen, k)]
  <2>1. \E total : total = [k \in 0 .. N |-> Added(total, k)]
    BY <1>5
  <2> QED  BY <2>1
<1>7. Memory!Sum(sizes) = chosen[N]
  BY DEF Memory!Sum
<1> HIDE DEF chosen
<1>8. chosen[0] = 0 /\ \A n \in 1 .. N : chosen[n] = chosen[n - 1] + sizes[n]
  <2>1. chosen[0] = 0
    BY <1>1, <1>6
  <2>2. ASSUME NEW n \in 1 .. N PROVE chosen[n] = chosen[n - 1] + sizes[n]
    <3>1. n \in 0 .. N /\ n # 0
      BY <1>1
    <3> QED  BY <1>6, <3>1
  <2> QED  BY <2>1, <2>2
<1>9. ASSUME NEW n \in 0 .. N PROVE chosen[n] \in Nat
  <2> DEFINE D == {k \in Nat : k <= N => chosen[k] \in Nat}
  <2>1. 0 \in D
    BY <1>8
  <2>2. ASSUME NEW k \in 0 .. n - 1, k \in D PROVE k + 1 \in D
    <3>1. k + 1 \in 1 .. N /\ k + 1 - 1 = k /\ k <= N /\ k + 1 \in Nat
      BY <1>1
    <3>2. chosen[k] \in Nat /\ sizes[k + 1] \in Nat /\ chosen[k + 1] = chosen[k] + sizes[k + 1]
      BY <1>1, <1>8, <2>2, <3>1
    <3> QED  BY <3>1, <3>2
  <2>3. n \in Nat /\ n <= N
    BY <1>1
  <2> HIDE DEF D
  <2>4. n \in D
    BY <2>1, <2>2, <2>3, UpTo
  <2> QED  BY <2>3, <2>4 DEF D
<1>10. chosen \in [0 .. N -> Nat]
  <2>1. chosen = [k \in 0 .. N |-> chosen[k]]
    BY <1>6
  <2> QED  BY <1>9, <2>1
<1> QED  BY <1>7, <1>8, <1>10 DEF Sums

\* Without blocks the sum is zero, and a block that is added or taken away changes it by
\* its size.
LEMMA SumAppend ==
  /\ Memory!Sum(<<>>) = 0
  /\ \A sizes \in Seq(Nat), e \in Nat :
       Memory!Sum(sizes) \in Nat /\ Memory!Sum(Append(sizes, e)) = Memory!Sum(sizes) + e
<1>1. Memory!Sum(<<>>) = 0
  <2>1. <<>> \in Seq(Nat) /\ Len(<<>>) = 0
    OBVIOUS
  <2>2. Sums(Nat, <<>>)
    BY <2>1, SumComputed
  <2> QED  BY <2>1, <2>2 DEF Sums
<1>2. ASSUME NEW sizes \in Seq(Nat), NEW e \in Nat
      PROVE  Memory!Sum(sizes) \in Nat /\ Memory!Sum(Append(sizes, e)) = Memory!Sum(sizes) + e
  <2> DEFINE N == Len(sizes)
             more == Append(sizes, e)
  <2>1. /\ more \in Seq(Nat) /\ Len(more) = N + 1 /\ N \in Nat
        /\ more[N + 1] = e /\ \A n \in 1 .. N : more[n] = sizes[n]
    OBVIOUS
  <2> HIDE DEF more
  <2>2. PICK F \in [0 .. N -> Nat] :
          /\ F[0] = 0
          /\ \A n \in 1 .. N : F[n] = F[n - 1] + sizes[n]
          /\ Memory!Sum(sizes) = F[N]
    <3>1. Sums(Nat, sizes)
      BY SumComputed
    <3> QED  BY <3>1 DEF Sums
  <2>3. PICK G \in [0 .. N + 1 -> Nat] :
          /\ G[0] = 0
          /\ \A n \in 1 .. N + 1 : G[n] = G[n - 1] + more[n]
          /\ Memory!Sum(more) = G[N + 1]
    <3>1. Sums(Nat, more)
      BY <2>1, SumComputed
    <3> QED  BY <2>1, <3>1 DEF Sums
  <2> DEFINE D == {k \in Nat : k <= N => F[k] = G[k]}
  <2>4. 0 \in D
    BY <2>2, <2>3
  <2>5. ASSUME NEW k \in 0 .. N - 1, k \in D PROVE k + 1 \in D
    <3>1. k + 1 \in 1 .. N /\ k + 1 - 1 = k /\ k <= N /\ k + 1 \in Nat /\ k + 1 \in 1 .. N + 1
      BY <2>1
    <3>2. F[k] = G[k] /\ more[k + 1] = sizes[k + 1]
      BY <2>1, <2>5, <3>1
    <3>3. F[k + 1] = F[k] + sizes[k + 1] /\ G[k + 1] = G[k] + more[k + 1]
      BY <2>2, <2>3, <3>1
    <3> QED  BY <3>1, <3>2, <3>3
  <2> HIDE DEF D
  <2>6. N \in D
    BY <2>1, <2>4, <2>5, UpTo
  <2>7. F[N] = G[N] /\ F[N] \in Nat
    BY <2>1, <2>2, <2>6 DEF D
  <2>8. G[N + 1] = G[N] + e
    <3>1. N + 1 \in 1 .. N + 1 /\ N + 1 - 1 = N
      BY <2>1
    <3>2. G[N + 1] = G[N + 1 - 1] + more[N + 1]
      BY <2>3, <3>1
    <3> QED  BY <2>1, <3>1, <3>2
  <2> QED  BY <2>2, <2>3, <2>7, <2>8 DEF more
<1> QED  BY <1>1, <1>2

\* the sizes malloc() is asked for: 64 MB to 2 GB, and less than 2 GB as long as it succeeds
MallocSizes == {2, 4, 8, 16, 32, 64}

MallocInv ==
  /\ mallocFailed \in BOOLEAN
  /\ mallocSize \in MallocSizes \cup {1}
  /\ ~ mallocFailed => mallocSize # 64
  /\ mallocFailed => mallocSize # 1
  /\ pointers \in Seq(MallocSizes)
  /\ memsetIndex \in Nat /\ memsetIndex <= Len(pointers)
  /\ totalMalloc = Memory!Sum(pointers) % 128

\* the blocks of one kind and their total
BlocksInv(blocks, total) ==
  /\ blocks \in Seq({8}) /\ Len(blocks) <= MaxBlocks
  /\ total = Memory!Sum(blocks)
  /\ total = 8 * Len(blocks)

MemoryInv == MallocInv /\ BlocksInv(heapMemory, heapTotal) /\ BlocksInv(jsMemory, jsTotal)

\* The programs begin without memory.
LEMMA MemoryStarts == Memory!Init => MemoryInv
<1> SUFFICES ASSUME Memory!Init PROVE MemoryInv
  OBVIOUS
<1>1. MallocInv
  <2>1. Memory!Sum(pointers) % 128 = 0 /\ Memory!MinMallocSize \div 2 = 1
    BY SumAppend DEF Memory!Init, Memory!MinMallocSize
  <2>2. pointers \in Seq(MallocSizes) /\ Len(pointers) = 0
    BY DEF Memory!Init
  <2>3. mallocSize = 1 /\ mallocFailed = FALSE /\ memsetIndex = 0
    BY <2>1 DEF Memory!Init
  <2>4. totalMalloc = Memory!Sum(pointers) % 128
    BY <2>1 DEF Memory!Init
  <2>5. memsetIndex \in Nat /\ memsetIndex <= Len(pointers) /\ mallocSize # 64
    BY <2>2, <2>3
  <2>6. mallocSize \in MallocSizes \cup {1} /\ mallocFailed \in BOOLEAN
    BY <2>3
  <2> QED  BY <2>2, <2>3, <2>4, <2>5, <2>6 DEF MallocInv
<1>2. BlocksInv(<<>>, 0)
  BY SumAppend, MemoryAssumption DEF BlocksInv
<1> QED  BY <1>1, <1>2 DEF MemoryInv, Memory!Init

\* malloc_again() asks for the next size; a block of 2 GB is never handed out, so that the
\* size does not wrap around to zero.
LEMMA MallocAgainInv ==
  ASSUME MallocInv, Memory!MallocAgain
  PROVE  MallocInv'
<1>1. pointers \in Seq(Nat) /\ Len(pointers) \in Nat
  <2>1. MallocSizes \subseteq Nat
    BY DEF MallocSizes
  <2>2. pointers \in [1 .. Len(pointers) -> MallocSizes] /\ Len(pointers) \in Nat
    BY DEF MallocInv
  <2>3. pointers \in [1 .. Len(pointers) -> Nat]
    BY <2>1, <2>2
  <2> QED  BY <2>2, <2>3
<1>2. /\ mallocSize' \in MallocSizes
      /\ memsetIndex' = memsetIndex
  <2>1. memsetIndex' = memsetIndex
    BY DEF Memory!MallocAgain
  <2>2. CASE mallocFailed
    <3>1. mallocSize \in MallocSizes /\ mallocSize' = Memory!Halved(mallocSize)
      BY <2>2 DEF MallocInv, Memory!MallocAgain
    <3>2. Memory!Halved(mallocSize) \in MallocSizes
      BY <3>1 DEF MallocSizes, Memory!Halved, Memory!MinMallocSize
    <3> QED  BY <2>1, <3>1, <3>2
  <2>3. CASE ~ mallocFailed
    <3>1. mallocSize \in {1, 2, 4, 8, 16, 32} /\ mallocSize' = Memory!Doubled(mallocSize)
      BY <2>3 DEF MallocInv, Memory!MallocAgain, MallocSizes
    <3>2. Memory!Doubled(mallocSize) = 2 * mallocSize
      BY <3>1 DEF Memory!Doubled, Memory!SizeT, Memory!MaxMallocSize
    <3>3. 2 * mallocSize \in MallocSizes
      BY <3>1 DEF MallocSizes
    <3> QED  BY <2>1, <3>1, <3>2, <3>3
  <2> QED  BY <2>2, <2>3 DEF MallocInv
<1>3. CASE /\ Memory!Sum(pointers) + mallocSize' <= HeapLimit
           /\ pointers' = Append(pointers, mallocSize')
           /\ totalMalloc' = (totalMalloc + mallocSize') % 128
           /\ UNCHANGED mallocFailed
  <2>1. mallocSize' \in Nat
    BY <1>2 DEF MallocSizes
  <2>2. /\ Memory!Sum(pointers) \in Nat
        /\ Memory!Sum(pointers') = Memory!Sum(pointers) + mallocSize'
    BY <1>1, <1>3, <2>1, SumAppend
  <2>3. mallocSize' # 64
    BY <1>3, <2>1, <2>2, MemoryAssumption
  <2>4. totalMalloc' = Memory!Sum(pointers') % 128
    <3> DEFINE s == Memory!Sum(pointers)
    <3>1. totalMalloc' = ((s % 128) + mallocSize') % 128
      BY <1>3 DEF MallocInv
    <3>2. Memory!Sum(pointers') % 128 = (s + mallocSize') % 128
      BY <2>2
    <3> HIDE DEF s
    <3>3. s \in Nat
      BY <2>2 DEF s
    <3>4. ((s % 128) + mallocSize') % 128 = (s + mallocSize') % 128
      BY <2>1, <3>3
    <3> QED  BY <3>1, <3>2, <3>4
  <2>5. pointers' \in Seq(MallocSizes) /\ Len(pointers') = Len(pointers) + 1
    BY <1>2, <1>3 DEF MallocInv
  <2>6. memsetIndex' \in Nat /\ memsetIndex' <= Len(pointers')
    BY <1>1, <1>2, <2>5 DEF MallocInv
  <2>7. mallocFailed' \in BOOLEAN /\ mallocSize' # 1
    BY <1>2, <1>3 DEF MallocInv, MallocSizes
  <2> QED  BY <1>2, <2>3, <2>4, <2>5, <2>6, <2>7 DEF MallocInv
<1>4. CASE mallocFailed' = TRUE /\ UNCHANGED <<pointers, totalMalloc>>
  <2>1. mallocSize' # 1
    BY <1>2 DEF MallocSizes
  <2> QED  BY <1>2, <1>4, <2>1 DEF MallocInv
<1> QED  BY <1>3, <1>4 DEF Memory!MallocAgain, Memory!SizeT

\* A block is allocated: its size is added.
LEMMA BlockAdded ==
  ASSUME NEW blocks, NEW total, BlocksInv(blocks, total), Len(blocks) < MaxBlocks
  PROVE  BlocksInv(Append(blocks, 8), Memory!Updated(total, 8))
<1>1. blocks \in Seq({8}) /\ blocks \in Seq(Nat) /\ Len(blocks) \in Nat
  BY DEF BlocksInv
<1>2. Append(blocks, 8) \in Seq({8}) /\ Len(Append(blocks, 8)) = Len(blocks) + 1
  BY <1>1
<1>3. Memory!Sum(Append(blocks, 8)) = total + 8
  BY <1>1, SumAppend DEF BlocksInv
<1>4. total + 8 = 8 * (Len(blocks) + 1) /\ total + 8 \in 0 .. Word - 1
  BY <1>1, MemoryAssumption DEF BlocksInv
<1>5. (total + 8) % Word = total + 8
  BY <1>4, MemoryAssumption
<1> QED  BY <1>1, <1>2, <1>3, <1>4, <1>5, MemoryAssumption DEF BlocksInv, Memory!Updated

\* A block is freed: adding its negated size subtracts it.
LEMMA BlockFreed ==
  ASSUME NEW blocks, NEW total, BlocksInv(blocks, total), blocks # <<>>
  PROVE  BlocksInv(Memory!Front(blocks), Memory!Updated(total, Word - Memory!Last(blocks)))
<1> DEFINE front == Memory!Front(blocks)
           n == Len(blocks)
<1>1. blocks \in Seq({8}) /\ n \in Nat /\ n > 0 /\ n <= MaxBlocks
  BY DEF BlocksInv
<1>2. front \in Seq({8}) /\ Len(front) = n - 1
  <2>1. front = SubSeq(blocks, 1, n - 1) /\ n - 1 \in Nat
    BY <1>1 DEF Memory!Front
  <2>2. front = [k \in 1 .. n - 1 |-> blocks[k]]
    BY <1>1, <2>1
  <2>3. \A k \in 1 .. n - 1 : blocks[k] = 8
    BY <1>1
  <2>4. front \in [1 .. n - 1 -> {8}]
    BY <2>2, <2>3
  <2> DEFINE Blocks == {8}
  <2> HIDE DEF front, Blocks
  <2>5. front \in [1 .. n - 1 -> Blocks]
    BY <2>4 DEF Blocks
  <2> DEFINE m == n - 1
  <2>6. m \in Nat /\ front \in [1 .. m -> Blocks]
    BY <2>1, <2>5
  <2> HIDE DEF m
  <2>7. front \in Seq(Blocks) /\ Len(front) = m
    BY <2>6
  <2> QED  BY <2>7 DEF Blocks, m
<1>3. Memory!Last(blocks) = 8
  BY <1>1 DEF Memory!Last
<1> HIDE DEF front
<1>4. Append(front, 8) = blocks
  <2> DEFINE a == Append(front, 8)
  <2>1. a \in Seq({8}) /\ Len(a) = n
    BY <1>1, <1>2
  <2> HIDE DEF a
  <2>2. \A k \in 1 .. n : a[k] = 8 /\ blocks[k] = 8
    BY <1>1, <2>1
  <2>3. a = [k \in 1 .. n |-> a[k]] /\ blocks = [k \in 1 .. n |-> blocks[k]]
    BY <1>1, <2>1
  <2>4. a = blocks
    BY <2>2, <2>3
  <2> QED  BY <2>4 DEF a
<1>5. Memory!Sum(front) \in Nat /\ Memory!Sum(blocks) = Memory!Sum(front) + 8
  <2>1. front \in Seq(Nat)
    BY <1>2
  <2> QED  BY <1>4, <2>1, SumAppend
<1>6. total - 8 = Memory!Sum(front) /\ total - 8 = 8 * (n - 1) /\ total - 8 \in 0 .. Word - 1
  <2>1. total = 8 * n /\ total = Memory!Sum(front) + 8
    BY <1>5 DEF BlocksInv
  <2>2. 8 * (n - 1) < Word /\ 8 * (n - 1) >= 0
    BY <1>1, MemoryAssumption
  <2> QED  BY <1>1, <1>5, <2>1, <2>2, MemoryAssumption
<1>7. (total + (Word - 8)) % Word = total - 8
  <2> DEFINE t == total - 8
  <2>1. t \in 0 .. Word - 1 /\ Word \in Nat /\ total + (Word - 8) = t + Word
    <3>1. total \in Nat
      BY <1>5 DEF BlocksInv
    <3> QED  BY <1>6, <3>1, MemoryAssumption
  <2> HIDE DEF t
  <2>2. (t + Word) % Word = t
    <3>1. Word > 0 /\ Word \in Int /\ t \in Int /\ t >= 0 /\ t < Word
      BY <2>1
    <3>2. (t + Word) \div Word = 1
      BY <3>1
    <3> QED  BY <3>1, <3>2
  <2> QED  BY <2>1, <2>2 DEF t
<1>8. n - 1 <= MaxBlocks
  BY <1>1, MemoryAssumption
<1> QED  BY <1>2, <1>3, <1>6, <1>7, <1>8 DEF BlocksInv, Memory!Updated, front

\* Whatever is allocated and freed, the totals are the memory that is held, malloc() is
\* asked for 64 MB to 2 GB, and only memory that was allocated is written (malloc_again(),
\* memset_again() and the buttons of widgets_memory).
THEOREM TotalsHeld == MCSpec => []Memory!MetersRight
<1>1. MCInit => MemoryInv
  BY MemoryStarts DEF MCInit
<1>2. MemoryInv /\ [MCNext]_allVars => MemoryInv'
  <2> SUFFICES ASSUME MemoryInv, [MCNext]_allVars PROVE MemoryInv'
    OBVIOUS
  <2> USE DEF Memory!widget, Memory!mallocs, Memory!AllocSize
  <2>1. CASE Memory!MallocAgain
    <3>1. UNCHANGED <<heapMemory, heapTotal, jsMemory, jsTotal>>
      BY <2>1 DEF Memory!MallocAgain
    <3> QED  BY <2>1, <3>1, MallocAgainInv DEF MemoryInv, BlocksInv
  <2>2. CASE Memory!MemsetAgain
    <3>1. MallocInv'
      BY <2>2 DEF Memory!MemsetAgain, MemoryInv, MallocInv
    <3> QED  BY <2>2, <3>1 DEF Memory!MemsetAgain, MemoryInv, BlocksInv
  <2>3. CASE Memory!AllocHeap
    <3>1. BlocksInv(heapMemory', heapTotal')
      BY <2>3, BlockAdded DEF Memory!AllocHeap, MemoryInv
    <3>2. UNCHANGED <<mallocSize, mallocFailed, totalMalloc, pointers, memsetIndex>>
          /\ UNCHANGED <<jsMemory, jsTotal>>
      BY <2>3 DEF Memory!AllocHeap
    <3> QED  BY <3>1, <3>2 DEF MemoryInv, BlocksInv, MallocInv
  <2>4. CASE Memory!FreeHeap
    <3>1. BlocksInv(heapMemory', heapTotal')
      BY <2>4, BlockFreed DEF Memory!FreeHeap, MemoryInv
    <3>2. UNCHANGED <<mallocSize, mallocFailed, totalMalloc, pointers, memsetIndex>>
          /\ UNCHANGED <<jsMemory, jsTotal>>
      BY <2>4 DEF Memory!FreeHeap
    <3> QED  BY <3>1, <3>2 DEF MemoryInv, BlocksInv, MallocInv
  <2>5. CASE Memory!AllocJs
    <3>1. BlocksInv(jsMemory', jsTotal')
      BY <2>5, BlockAdded DEF Memory!AllocJs, MemoryInv
    <3>2. UNCHANGED <<mallocSize, mallocFailed, totalMalloc, pointers, memsetIndex>>
          /\ UNCHANGED <<heapMemory, heapTotal>>
      BY <2>5 DEF Memory!AllocJs
    <3> QED  BY <3>1, <3>2 DEF MemoryInv, BlocksInv, MallocInv
  <2>6. CASE Memory!FreeJs
    <3>1. BlocksInv(jsMemory', jsTotal')
      BY <2>6, BlockFreed DEF Memory!FreeJs, MemoryInv
    <3>2. UNCHANGED <<mallocSize, mallocFailed, totalMalloc, pointers, memsetIndex>>
          /\ UNCHANGED <<heapMemory, heapTotal>>
      BY <2>6 DEF Memory!FreeJs
    <3> QED  BY <3>1, <3>2 DEF MemoryInv, BlocksInv, MallocInv
  <2>7. CASE UNCHANGED memoryVars
    BY <2>7 DEF memoryVars, MemoryInv, BlocksInv, MallocInv
  <2>8. UNCHANGED memoryVars \/ Memory!Next
    BY DEF MCNext, allVars, InFrames, InTimers, InHello, InCanvases, InGl, InSettings, InMemory, In
  <2> QED  BY <2>1, <2>2, <2>3, <2>4, <2>5, <2>6, <2>7, <2>8 DEF Memory!Next
<1>3. MemoryInv => Memory!MetersRight
  <2> SUFFICES ASSUME MemoryInv PROVE Memory!MetersRight
    OBVIOUS
  <2>1. \A k \in DOMAIN pointers : pointers[k] \in MallocSizes
    BY DEF MemoryInv, MallocInv
  <2>2. mallocFailed => mallocSize >= 2
    BY DEF MemoryInv, MallocInv, MallocSizes
  <2> QED
    BY <2>1, <2>2 DEF MemoryInv, MallocInv, BlocksInv, Memory!MetersRight, Memory!SizeT,
       Memory!MinMallocSize, MallocSizes
<1> QED  BY <1>1, <1>2, <1>3, PTL DEF MCSpec

-----------------------------------------------------------------------------
(* HelloWindow: the parts of the logo. Block 1 and 2 are the bars, block   *)
(* 3 + i is sector i. A block has four corners, and faces of six kinds: 0  *)
(* is the front, 5 the back, and 1 to 4 the side that begins at a corner.  *)

Sectors == Len(Directions)
Blocks == 1 .. Sectors + 2
FaceNumbers == 1 .. 11 + 4 * Sectors

After(c) == IF c = 4 THEN 1 ELSE c + 1
NextSector(b) == IF b = Sectors + 2 THEN 3 ELSE b + 1

\* the directions of a sector's corners: 1 and 2 on one side, 3 and 4 on the other
DirectionOf(b, c) == IF c \in {1, 2} THEN b - 2 ELSE NextSector(b) - 2
RadiusOf(c) == IF c \in {1, 4} THEN 30 ELSE 20

BarPoint(b, c) ==
  IF b = 1 THEN IF c = 1 THEN Hello!P1 ELSE IF c = 2 THEN Hello!P2
                ELSE IF c = 3 THEN Hello!Mirrored(Hello!P2) ELSE Hello!Mirrored(Hello!P1)
  ELSE IF c = 1 THEN Hello!P3 ELSE IF c = 2 THEN Hello!P4
       ELSE IF c = 3 THEN Hello!Mirrored(Hello!P4) ELSE Hello!Mirrored(Hello!P3)
SectorPoint(b, c) ==
  LET d == Directions[DirectionOf(b, c)] IN <<RadiusOf(c) * d[1], RadiusOf(c) * d[2]>>
Point(b, c) == IF b <= 2 THEN BarPoint(b, c) ELSE SectorPoint(b, c)

FaceOf(b, k) ==
  IF k = 0 THEN Hello!QuadFront(Point(b, 1), Point(b, 2), Point(b, 3), Point(b, 4))
  ELSE IF k = 5 THEN Hello!QuadBack(Point(b, 1), Point(b, 2), Point(b, 3), Point(b, 4))
  ELSE Hello!Extrude(Point(b, k), Point(b, After(k)))

\* the second bar has no side 4, and sectors have no sides 1 and 3
HasKind(b, k) ==
  /\ k \in 0 .. 5
  /\ b = 2 => k # 4
  /\ b > 2 => k \notin {1, 3}

\* the order in which createGeometry() adds the faces
BlockOf(f) ==
  IF f \in {1, 2, 5, 6, 7, 8} THEN 1 ELSE IF f <= 11 THEN 2 ELSE ((f - 12) \div 4) + 3
SectorKind(r) == IF r = 0 THEN 0 ELSE IF r = 1 THEN 5 ELSE IF r = 2 THEN 2 ELSE 4
KindOf(f) ==
  IF f \in {1, 3} THEN 0 ELSE IF f \in {2, 4} THEN 5 ELSE IF f <= 8 THEN f - 4
  ELSE IF f <= 11 THEN f - 8 ELSE SectorKind((f - 12) % 4)

\* Directions are pairs of numbers, at the distance Unit, and two that follow one another
\* do not lie on a line.
LEMMA SectorsKnown ==
  /\ Sectors \in Nat /\ Sectors >= 3 /\ Unit \in Nat /\ Unit > 0
  /\ \A i \in 1 .. Sectors :
       /\ Directions[i] \in Int \X Int
       /\ Directions[i][1] * Directions[i][1] + Directions[i][2] * Directions[i][2] = Unit * Unit
  /\ \A i, j \in 1 .. Sectors : Directions[i] = Directions[j] => i = j
  /\ \A b \in 3 .. Sectors + 2 :
       LET d == Directions[b - 2]
           e == Directions[NextSector(b) - 2]
       IN d[1] * e[2] # d[2] * e[1]
<1>1. Sectors \in Nat /\ Sectors >= 3 /\ Unit \in Nat /\ Unit > 0 /\ DOMAIN Directions = 1 .. Sectors
  BY DirectionsAssumption DEF Sectors
<1>2. ASSUME NEW i \in 1 .. Sectors
      PROVE  /\ Directions[i] \in Int \X Int
             /\ Directions[i][1] * Directions[i][1] + Directions[i][2] * Directions[i][2] = Unit * Unit
  <2>1. Directions[i] \in Int \X Int
    BY <1>1, DirectionsAssumption DEF Sectors
  <2> QED  BY <1>1, <2>1, DirectionsAssumption
<1>3. \A i, j \in 1 .. Sectors : Directions[i] = Directions[j] => i = j
  BY <1>1, DirectionsAssumption
<1>4. ASSUME NEW b \in 3 .. Sectors + 2
      PROVE  LET d == Directions[b - 2]
                 e == Directions[NextSector(b) - 2]
             IN d[1] * e[2] # d[2] * e[1]
  <2> DEFINE i == b - 2
             j == IF i = Len(Directions) THEN 1 ELSE i + 1
  <2>1. i \in DOMAIN Directions /\ j = NextSector(b) - 2
    BY <1>1 DEF NextSector, Sectors
  <2> HIDE DEF i, j
  <2>2. Directions[i][1] * Directions[j][2] # Directions[i][2] * Directions[j][1]
    BY <2>1, DirectionsAssumption DEF j
  <2> QED  BY <2>1, <2>2 DEF i
<1> QED  BY <1>1, <1>2, <1>3, <1>4

\* How many sectors there are, without the rest.
LEMMA SectorCount == Sectors \in Nat /\ Sectors >= 3
BY SectorsKnown

\* A point of the ring is that of the sector.
LEMMA RingPoint ==
  ASSUME NEW b \in 3 .. Sectors + 2
  PROVE  /\ Hello!Ring(30, b - 3) = Point(b, 1)
         /\ Hello!Ring(20, b - 3) = Point(b, 2)
         /\ Hello!Ring(20, b - 3 + 1) = Point(b, 3)
         /\ Hello!Ring(30, b - 3 + 1) = Point(b, 4)
<1>1. ((b - 3) % Sectors) + 1 = b - 2 /\ ((b - 3 + 1) % Sectors) + 1 = NextSector(b) - 2
  <2> DEFINE i == b - 3
  <2>1. i \in 0 .. Sectors - 1 /\ Sectors \in Nat /\ Sectors > 0 /\ i + 3 = b
    BY SectorCount
  <2>2. i % Sectors = i
    BY <2>1
  <2>3. CASE i + 1 = Sectors
    <3>1. (i + 1) % Sectors = 0
      BY <2>1, <2>3
    <3> QED  BY <2>1, <2>2, <2>3, <3>1 DEF NextSector
  <2>4. CASE i + 1 # Sectors
    <3>1. (i + 1) % Sectors = i + 1
      BY <2>1, <2>4
    <3> QED  BY <2>1, <2>2, <2>4, <3>1 DEF NextSector
  <2> QED  BY <2>3, <2>4
<1>2. ~ (b <= 2)
  OBVIOUS
<1> QED
  BY <1>1, <1>2 DEF Hello!Ring, Sectors, Point, SectorPoint, RadiusOf, DirectionOf

\* Two pairs make a sequence of four.
LEMMA JoinedPairs ==
  ASSUME NEW a, NEW b, NEW c, NEW d
  PROVE  <<a, b>> \o <<c, d>> = <<a, b, c, d>>
<1> DEFINE S == {a, b, c, d}
           s == <<a, b>>
           t == <<c, d>>
           u == <<a, b, c, d>>
<1>1. s \in Seq(S) /\ t \in Seq(S) /\ u \in Seq(S) /\ Len(s) = 2 /\ Len(t) = 2 /\ Len(u) = 4
      /\ s[1] = a /\ s[2] = b /\ t[1] = c /\ t[2] = d
      /\ u[1] = a /\ u[2] = b /\ u[3] = c /\ u[4] = d
  OBVIOUS
<1> HIDE DEF S, s, t, u
<1>2. /\ s \o t \in Seq(S)
      /\ Len(s \o t) = Len(s) + Len(t)
      /\ \A i \in 1 .. Len(s) + Len(t) : (s \o t)[i] = IF i <= Len(s) THEN s[i] ELSE t[i - Len(s)]
  BY <1>1, ConcatProperties
<1> DEFINE w == s \o t
<1> HIDE DEF w
<1>3. w \in Seq(S) /\ Len(w) = 4 /\ w[1] = a /\ w[2] = b /\ w[3] = c /\ w[4] = d
  BY <1>1, <1>2 DEF w
<1>4. \A i \in 1 .. Len(w) : w[i] = u[i]
  BY <1>1, <1>3
<1>5. s \o t = u
  BY <1>1, <1>3, <1>4, SeqEqual DEF w
<1> QED  BY <1>5 DEF s, t, u

\* createGeometry() adds the two bars first.
LEMMA BarFace ==
  ASSUME NEW f \in 1 .. 11
  PROVE  Hello!Bars[f] = FaceOf(BlockOf(f), KindOf(f))
<1> DEFINE q(b) == <<FaceOf(b, 0), FaceOf(b, 5)>>
           e == <<FaceOf(1, 1), FaceOf(1, 2), FaceOf(1, 3), FaceOf(1, 4),
                  FaceOf(2, 1), FaceOf(2, 2), FaceOf(2, 3)>>
<1>1. Hello!Bars = q(1) \o q(2) \o e
  BY DEF Hello!Bars, Hello!Quad, FaceOf, Point, BarPoint, After
<1>2. q(1) \o q(2) = <<FaceOf(1, 0), FaceOf(1, 5), FaceOf(2, 0), FaceOf(2, 5)>>
  BY JoinedPairs
<1> DEFINE S == {FaceOf(b, k) : b \in 1 .. 2, k \in 0 .. 5}
           p == <<FaceOf(1, 0), FaceOf(1, 5), FaceOf(2, 0), FaceOf(2, 5)>>
<1>3. /\ p \in Seq(S) /\ Len(p) = 4
      /\ e \in Seq(S) /\ Len(e) = 7
  <2>1. \A b \in 1 .. 2, k \in 0 .. 5 : FaceOf(b, k) \in S
    OBVIOUS
  <2> HIDE DEF S
  <2> QED  BY <2>1
<1>4. /\ p[1] = FaceOf(1, 0) /\ p[2] = FaceOf(1, 5) /\ p[3] = FaceOf(2, 0) /\ p[4] = FaceOf(2, 5)
      /\ e[1] = FaceOf(1, 1) /\ e[2] = FaceOf(1, 2) /\ e[3] = FaceOf(1, 3) /\ e[4] = FaceOf(1, 4)
      /\ e[5] = FaceOf(2, 1) /\ e[6] = FaceOf(2, 2) /\ e[7] = FaceOf(2, 3)
  OBVIOUS
<1>5. Hello!Bars = p \o e
  BY <1>1, <1>2
<1> HIDE DEF S, p, e, q
<1>6. \A i \in 1 .. Len(p) + Len(e) : (p \o e)[i] = IF i <= Len(p) THEN p[i] ELSE e[i - Len(p)]
  BY <1>3, ConcatProperties
<1>7. Hello!Bars[f] = IF f <= 4 THEN p[f] ELSE e[f - 4]
  <2>1. f \in 1 .. Len(p) + Len(e)
    BY <1>3
  <2>2. (p \o e)[f] = IF f <= Len(p) THEN p[f] ELSE e[f - Len(p)]
    BY <1>6, <2>1
  <2>3. Len(p) = 4
    BY <1>3
  <2> QED  BY <1>5, <2>2, <2>3
<1> QED  BY <1>4, <1>7 DEF BlockOf, KindOf

\* Then it adds the four faces of each sector.
LEMMA SectorFace ==
  ASSUME NEW f \in FaceNumbers, f > 11
  PROVE  /\ BlockOf(f) \in 3 .. Sectors + 2
         /\ Hello!Faces[f] = FaceOf(BlockOf(f), KindOf(f))
<1> DEFINE b == BlockOf(f)
           r == (f - 12) % 4
           i == (f - 12) \div 4
<1>1. b \in 3 .. Sectors + 2 /\ b - 3 = i /\ r \in 0 .. 3
  BY SectorCount DEF BlockOf, FaceNumbers
<1>2. KindOf(f) = SectorKind(r)
  BY SectorCount DEF KindOf, FaceNumbers
<1>3. Hello!Faces[f] = Hello!Sector(i)[r + 1]
  BY SectorCount DEF Hello!Faces, FaceNumbers, Sectors
<1> HIDE DEF i, r, b
<1>4. Hello!Sector(i) = <<FaceOf(b, 0), FaceOf(b, 5)>> \o <<FaceOf(b, 2), FaceOf(b, 4)>>
  <2>1. /\ Hello!Ring(30, i) = Point(b, 1)
        /\ Hello!Ring(20, i) = Point(b, 2)
        /\ Hello!Ring(20, i + 1) = Point(b, 3)
        /\ Hello!Ring(30, i + 1) = Point(b, 4)
    BY <1>1, RingPoint
  <2> QED  BY <2>1 DEF Hello!Sector, Hello!Quad, FaceOf, After
<1>5. Hello!Sector(i) = <<FaceOf(b, 0), FaceOf(b, 5), FaceOf(b, 2), FaceOf(b, 4)>>
  BY <1>4, JoinedPairs
<1>6. Hello!Sector(i)[r + 1] = FaceOf(b, SectorKind(r))
  BY <1>1, <1>5 DEF SectorKind
<1> QED  BY <1>1, <1>2, <1>3, <1>6 DEF b
\* Every face is one of a block, and has a kind that the block has.
LEMMA FacesKnown ==
  ASSUME NEW f \in FaceNumbers
  PROVE  /\ BlockOf(f) \in Blocks
         /\ HasKind(BlockOf(f), KindOf(f))
         /\ Hello!Faces[f] = FaceOf(BlockOf(f), KindOf(f))
<1>1. CASE f <= 11
  <2>1. f \in 1 .. 11
    BY <1>1, SectorCount DEF FaceNumbers
  <2>2. Hello!Faces[f] = Hello!Bars[f]
    BY <2>1, SectorCount DEF Hello!Faces, FaceNumbers, Sectors
  <2>3. BlockOf(f) \in Blocks /\ HasKind(BlockOf(f), KindOf(f))
    BY <2>1, SectorCount DEF BlockOf, KindOf, HasKind, Blocks
  <2> QED  BY <2>1, <2>2, <2>3, BarFace
<1>2. CASE f > 11
  <2>1. f \in Nat /\ (f - 12) % 4 \in 0 .. 3
    BY <1>2, SectorCount DEF FaceNumbers
  <2>2. KindOf(f) \in {0, 5, 2, 4}
    BY <1>2, <2>1 DEF KindOf, SectorKind
  <2>3. BlockOf(f) \in 3 .. Sectors + 2 /\ BlockOf(f) \in Blocks
    BY <1>2, SectorFace, SectorCount DEF Blocks
  <2> QED  BY <1>2, <2>2, <2>3, SectorFace, SectorCount DEF HasKind
<1> QED  BY <1>1, <1>2, SectorCount DEF FaceNumbers

\* A block has a face of every kind that it has.
LEMMA FaceFound ==
  ASSUME NEW b \in Blocks, NEW k, HasKind(b, k)
  PROVE  \E f \in FaceNumbers : BlockOf(f) = b /\ KindOf(f) = k
<1>1. CASE b <= 2
  <2>1. ASSUME NEW f \in 1 .. 11, BlockOf(f) = b, KindOf(f) = k
        PROVE  \E g \in FaceNumbers : BlockOf(g) = b /\ KindOf(g) = k
    <3>1. f \in FaceNumbers
      BY SectorCount DEF FaceNumbers
    <3> QED  BY <2>1, <3>1
  <2>2. b \in {1, 2} /\ k \in 0 .. 5 /\ (b = 2 => k # 4)
    BY <1>1, SectorCount DEF Blocks, HasKind
  <2>3. \E f \in 1 .. 11 : BlockOf(f) = b /\ KindOf(f) = k
    <3> DEFINE f == IF b = 1 THEN IF k = 0 THEN 1 ELSE IF k = 5 THEN 2 ELSE k + 4
                    ELSE IF k = 0 THEN 3 ELSE IF k = 5 THEN 4 ELSE k + 8
    <3>1. f \in 1 .. 11 /\ BlockOf(f) = b /\ KindOf(f) = k
      BY <2>2 DEF BlockOf, KindOf
    <3> QED  BY <3>1
  <2> QED  BY <2>1, <2>3
<1>2. CASE b > 2
  <2>1. b \in 3 .. Sectors + 2 /\ k \in {0, 2, 4, 5}
    BY <1>2, SectorCount DEF Blocks, HasKind
  <2> DEFINE r == IF k = 0 THEN 0 ELSE IF k = 5 THEN 1 ELSE IF k = 2 THEN 2 ELSE 3
             f == 4 * b + r
  <2>2. f \in FaceNumbers /\ f > 11 /\ f \in Nat
    BY <2>1, SectorCount DEF FaceNumbers
  <2>3. (f - 12) \div 4 = b - 3 /\ (f - 12) % 4 = r
    BY <2>1, SectorCount
  <2>4. SectorKind(r) = k
    BY <2>1 DEF SectorKind
  <2> HIDE DEF f, r
  <2>5. BlockOf(f) = b
    BY <2>1, <2>2, <2>3, SectorCount DEF BlockOf
  <2>6. KindOf(f) = k
    BY <2>2, <2>3, <2>4 DEF KindOf
  <2> QED  BY <2>2, <2>5, <2>6
<1> QED  BY <1>1, <1>2, SectorCount DEF Blocks

\* And only one.
LEMMA FaceOnce ==
  ASSUME NEW f \in FaceNumbers, NEW g \in FaceNumbers,
         BlockOf(f) = BlockOf(g), KindOf(f) = KindOf(g)
  PROVE  f = g
<1>1. CASE f <= 11 /\ g <= 11
  <2>1. f \in 1 .. 11 /\ g \in 1 .. 11
    BY <1>1, SectorCount DEF FaceNumbers
  <2> QED  BY <2>1 DEF BlockOf, KindOf
<1>2. ASSUME NEW h \in FaceNumbers, h <= 11 PROVE BlockOf(h) <= 2
  BY <1>2, SectorCount DEF BlockOf
<1>3. CASE f > 11 /\ g > 11
  <2> DEFINE r == (f - 12) % 4
             q == (g - 12) % 4
  <2>1. f \in Nat /\ g \in Nat /\ r \in 0 .. 3 /\ q \in 0 .. 3
    BY <1>3, SectorCount DEF FaceNumbers
  <2>2. f = 12 + 4 * ((f - 12) \div 4) + r /\ g = 12 + 4 * ((g - 12) \div 4) + q
    BY <1>3, <2>1
  <2>3. (f - 12) \div 4 = (g - 12) \div 4
    BY <1>3, <2>1 DEF BlockOf
  <2>4. SectorKind(r) = SectorKind(q)
    BY <1>3, <2>1 DEF KindOf
  <2>5. r = q
    <3> HIDE DEF r, q
    <3> QED  BY <2>1, <2>4 DEF SectorKind
  <2> QED  BY <2>1, <2>2, <2>3, <2>5
<1> QED  BY <1>1, <1>2, <1>3, SectorFace, SectorCount DEF FaceNumbers

-----------------------------------------------------------------------------
(* The vertices of a face are numbered 1 to 6, those of its first triangle *)
(* and those of its second one.                                            *)

Places == 1 .. 6
Turned(s) == IF s = 3 THEN 1 ELSE IF s = 6 THEN 4 ELSE s + 1

\* the corner and the side, front or back, of a vertex
CornerOf(k, s) ==
  IF k = 0 THEN IF s = 1 THEN 1 ELSE IF s \in {2, 6} THEN 2 ELSE IF s = 4 THEN 3 ELSE 4
  ELSE IF k = 5 THEN IF s = 3 THEN 1 ELSE IF s \in {2, 4} THEN 2 ELSE IF s = 6 THEN 3 ELSE 4
  ELSE IF s \in {1, 3, 5} THEN k ELSE After(k)
HeightOf(k, s) == IF k = 5 \/ (k # 0 /\ s \in {1, 2, 6}) THEN 1 ELSE -1

Vertex(b, k, s) == Hello!At(Point(b, CornerOf(k, s)), HeightOf(k, s) * Hello!Depth)

\* quad() and extrude() put the corners into this order.
LEMMA FaceVertices ==
  ASSUME NEW b \in Blocks, NEW k \in 0 .. 5, NEW s \in Places
  PROVE  FaceOf(b, k).vertices[s] = Vertex(b, k, s)
<1>1. Hello!Depth \in Int /\ -1 * Hello!Depth = -Hello!Depth /\ 1 * Hello!Depth = Hello!Depth
  BY SectorsKnown DEF Hello!Depth
<1>2. CASE k = 0
  <2>1. FaceOf(b, k).vertices =
          <<Hello!At(Point(b, 1), -Hello!Depth), Hello!At(Point(b, 2), -Hello!Depth),
            Hello!At(Point(b, 4), -Hello!Depth), Hello!At(Point(b, 3), -Hello!Depth),
            Hello!At(Point(b, 4), -Hello!Depth), Hello!At(Point(b, 2), -Hello!Depth)>>
    BY <1>2 DEF FaceOf, Hello!QuadFront, Hello!Face
  <2>2. HeightOf(k, s) * Hello!Depth = -Hello!Depth
    BY <1>1, <1>2 DEF HeightOf
  <2> QED  BY <1>2, <2>1, <2>2 DEF Vertex, CornerOf, Places
<1>3. CASE k = 5
  <2>1. FaceOf(b, k).vertices =
          <<Hello!At(Point(b, 4), Hello!Depth), Hello!At(Point(b, 2), Hello!Depth),
            Hello!At(Point(b, 1), Hello!Depth), Hello!At(Point(b, 2), Hello!Depth),
            Hello!At(Point(b, 4), Hello!Depth), Hello!At(Point(b, 3), Hello!Depth)>>
    BY <1>3 DEF FaceOf, Hello!QuadBack, Hello!Face
  <2>2. HeightOf(k, s) * Hello!Depth = Hello!Depth
    BY <1>1, <1>3 DEF HeightOf
  <2> QED  BY <1>3, <2>1, <2>2 DEF Vertex, CornerOf, Places
<1>4. CASE k \in 1 .. 4
  <2> DEFINE p == Point(b, k)
             q == Point(b, After(k))
  <2>1. FaceOf(b, k).vertices =
          <<Hello!At(p, Hello!Depth), Hello!At(q, Hello!Depth), Hello!At(p, -Hello!Depth),
            Hello!At(q, -Hello!Depth), Hello!At(p, -Hello!Depth), Hello!At(q, Hello!Depth)>>
    BY <1>4 DEF FaceOf, Hello!Extrude, Hello!Face
  <2>2. HeightOf(k, s) * Hello!Depth = IF s \in {1, 2, 6} THEN Hello!Depth ELSE -Hello!Depth
    BY <1>1, <1>4 DEF HeightOf
  <2>3. CornerOf(k, s) = IF s \in {1, 3, 5} THEN k ELSE After(k)
    BY <1>4 DEF CornerOf
  <2> QED  BY <2>1, <2>2, <2>3 DEF Vertex, Places
<1> QED  BY <1>2, <1>3, <1>4

\* In a block no edge is there twice.
LEMMA RowsApart ==
  ASSUME NEW k \in 0 .. 5, NEW l \in 0 .. 5, NEW s \in Places, NEW r \in Places,
         CornerOf(k, s) = CornerOf(l, r), HeightOf(k, s) = HeightOf(l, r),
         CornerOf(k, Turned(s)) = CornerOf(l, Turned(r)), 
         HeightOf(k, Turned(s)) = HeightOf(l, Turned(r))
  PROVE  k = l /\ s = r
BY DEF CornerOf, HeightOf, Turned, After, Places

\* the points at which two sectors meet
Seam(b, c, a, d) == b > 2 /\ a = NextSector(b) /\ c \in {3, 4} /\ d = 5 - c

\* Where sectors meet they have no edge in the same direction.
LEMMA SeamApart ==
  ASSUME NEW k \in {0, 2, 4, 5}, NEW l \in {0, 2, 4, 5}, NEW s \in Places, NEW r \in Places,
         CornerOf(k, s) \in {3, 4}, CornerOf(l, r) = 5 - CornerOf(k, s),
         HeightOf(k, s) = HeightOf(l, r),
         CornerOf(k, Turned(s)) \in {3, 4}, CornerOf(l, Turned(r)) = 5 - CornerOf(k, Turned(s)),
         HeightOf(k, Turned(s)) = HeightOf(l, Turned(r))
  PROVE  FALSE
BY DEF CornerOf, HeightOf, Turned, After, Places
-----------------------------------------------------------------------------
(* Which points are the same *)

SquareOf(p) == p[1] * p[1] + p[2] * p[2]
\* the distance of a corner from the middle, squared
Distance(b, c) ==
  IF b = 1 THEN 232 ELSE IF b = 2 THEN IF c \in {1, 4} THEN 64 ELSE 1384
  ELSE IF c \in {1, 4} THEN 900 ELSE 400

\* The corners of the bars and of the ring are at different distances from the middle.
LEMMA PointDistance ==
  ASSUME NEW b \in Blocks, NEW c \in 1 .. 4
  PROVE  /\ Point(b, c) \in Int \X Int
         /\ SquareOf(Point(b, c)) = Distance(b, c) * (Unit * Unit)
<1> USE SectorsKnown
<1>1. CASE b = 1
  BY <1>1 DEF Point, BarPoint, SquareOf, Distance, Hello!P1, Hello!P2, Hello!Mirrored
<1>2. CASE b = 2
  BY <1>2 DEF Point, BarPoint, SquareOf, Distance, Hello!P3, Hello!P4, Hello!Mirrored
<1>3. CASE b \in 3 .. Sectors + 2
  <2> DEFINE i == DirectionOf(b, c)
             x == Directions[i][1]
             y == Directions[i][2]
  <2>1. i \in 1 .. Sectors
    BY <1>3 DEF DirectionOf, NextSector
  <2>2. x \in Int /\ y \in Int /\ x * x + y * y = Unit * Unit
    BY <2>1
  <2>3. Point(b, c) = <<RadiusOf(c) * x, RadiusOf(c) * y>>
    BY <1>3 DEF Point, SectorPoint
  <2> HIDE DEF x, y
  <2>4. CASE c \in {1, 4}
    <3>1. Point(b, c) = <<30 * x, 30 * y>> /\ Distance(b, c) = 900
      BY <1>3, <2>3, <2>4 DEF RadiusOf, Distance
    <3>2. (30 * x) * (30 * x) + (30 * y) * (30 * y) = 900 * (x * x + y * y)
      BY <2>2
    <3> QED  BY <2>2, <3>1, <3>2 DEF SquareOf
  <2>5. CASE c \in {2, 3}
    <3>1. Point(b, c) = <<20 * x, 20 * y>> /\ Distance(b, c) = 400
      BY <1>3, <2>3, <2>5 DEF RadiusOf, Distance
    <3>2. (20 * x) * (20 * x) + (20 * y) * (20 * y) = 400 * (x * x + y * y)
      BY <2>2
    <3> QED  BY <2>2, <3>1, <3>2 DEF SquareOf
  <2> QED  BY <2>4, <2>5
<1> QED  BY <1>1, <1>2, <1>3 DEF Blocks

\* Only the sectors share points, where they meet.
LEMMA PointsApart ==
  ASSUME NEW b \in Blocks, NEW a \in Blocks, NEW c \in 1 .. 4, NEW d \in 1 .. 4,
         Point(b, c) = Point(a, d)
  PROVE  (b = a /\ c = d) \/ Seam(b, c, a, d) \/ Seam(a, d, b, c)
<1>1. Distance(b, c) = Distance(a, d)
  <2> DEFINE w == Unit * Unit
             m == Distance(b, c)
             n == Distance(a, d)
  <2>1. w > 0 /\ w \in Int
    BY SectorsKnown
  <2>2. m * w = n * w
    BY PointDistance
  <2>3. m \in {232, 64, 1384, 900, 400} /\ n \in {232, 64, 1384, 900, 400}
    BY DEF Distance
  <2> HIDE DEF m, n, w
  <2>4. m = n
    BY <2>1, <2>2, <2>3
  <2> QED  BY <2>4 DEF m, n
<1>2. CASE b = 1 \/ a = 1
  <2>1. b = 1 /\ a = 1
    BY <1>1, <1>2 DEF Distance
  <2>2. c = d
    BY <2>1, SectorsKnown DEF Point, BarPoint, Hello!P1, Hello!P2, Hello!Mirrored
  <2> QED  BY <2>1, <2>2
<1>3. CASE b = 2 \/ a = 2
  <2>1. b = 2 /\ a = 2
    BY <1>1, <1>3 DEF Distance
  <2>2. c = d
    BY <2>1, SectorsKnown DEF Point, BarPoint, Hello!P3, Hello!P4, Hello!Mirrored
  <2> QED  BY <2>1, <2>2
<1>4. CASE b \in 3 .. Sectors + 2 /\ a \in 3 .. Sectors + 2
  <2> DEFINE i == DirectionOf(b, c)
             j == DirectionOf(a, d)
  <2>1. i \in 1 .. Sectors /\ j \in 1 .. Sectors
    BY <1>4, SectorsKnown DEF DirectionOf, NextSector
  <2>2. RadiusOf(c) = RadiusOf(d) /\ RadiusOf(c) \in {20, 30}
        /\ (c \in {1, 4} <=> d \in {1, 4})
    BY <1>1, <1>4 DEF Distance, RadiusOf
  <2>3. Directions[i] = Directions[j]
    <3> DEFINE q == RadiusOf(c)
               x == Directions[i][1]
               y == Directions[i][2]
               u == Directions[j][1]
               v == Directions[j][2]
    <3>1. /\ x \in Int /\ y \in Int /\ u \in Int /\ v \in Int
          /\ Directions[i] = <<x, y>> /\ Directions[j] = <<u, v>>
      <4>1. Directions[i] \in Int \X Int /\ Directions[j] \in Int \X Int
        BY <2>1, SectorsKnown
      <4> HIDE DEF i, j
      <4> QED  BY <4>1
    <3>2. <<q * x, q * y>> = <<q * u, q * v>>
      BY <1>4, <2>2 DEF Point, SectorPoint
    <3> HIDE DEF x, y, u, v, i, j
    <3>3. q * x = q * u /\ q * y = q * v
      BY <3>2
    <3>4. x = u /\ y = v
      <4>1. CASE q = 20
        BY <3>1, <3>3, <4>1
      <4>2. CASE q = 30
        BY <3>1, <3>3, <4>2
      <4> QED  BY <2>2, <4>1, <4>2
    <3> QED  BY <3>1, <3>4
  <2>4. i = j
    BY <2>1, <2>3, SectorsKnown
  <2> QED  BY <1>4, <2>2, <2>4, SectorsKnown DEF DirectionOf, NextSector, Seam
<1> QED  BY <1>2, <1>3, <1>4, SectorsKnown DEF Blocks

\* Where sectors meet they do share points.
LEMMA SeamShared ==
  ASSUME NEW b \in Blocks, NEW c, NEW a, NEW d, Seam(b, c, a, d)
  PROVE  a \in Blocks /\ a > 2 /\ d \in 1 .. 4 /\ Point(b, c) = Point(a, d)
<1>1. b \in 3 .. Sectors + 2 /\ a \in 3 .. Sectors + 2 /\ a = NextSector(b)
      /\ c \in {3, 4} /\ d = 5 - c
  BY SectorCount DEF Seam, NextSector, Blocks
<1>2. RadiusOf(c) = RadiusOf(d) /\ d \in {1, 2}
  BY <1>1 DEF RadiusOf
<1>3. DirectionOf(b, c) = DirectionOf(a, d)
  BY <1>1, <1>2 DEF DirectionOf
<1> QED  BY <1>1, <1>2, <1>3, SectorCount DEF Point, SectorPoint, Blocks

\* Vertices are the same if their points are, and their sides.
LEMMA SameVertex ==
  ASSUME NEW b \in Blocks, NEW a \in Blocks, NEW k \in 0 .. 5, NEW l \in 0 .. 5,
         NEW s \in Places, NEW r \in Places
  PROVE  /\ CornerOf(k, s) \in 1 .. 4 /\ Turned(s) \in Places
         /\ Vertex(b, k, s) = Vertex(a, l, r) <=>
              /\ Point(b, CornerOf(k, s)) = Point(a, CornerOf(l, r))
              /\ HeightOf(k, s) = HeightOf(l, r)
<1>1. /\ CornerOf(k, s) \in 1 .. 4 /\ CornerOf(l, r) \in 1 .. 4 /\ Turned(s) \in Places
      /\ HeightOf(k, s) \in {-1, 1} /\ HeightOf(l, r) \in {-1, 1}
  BY DEF CornerOf, HeightOf, Turned, After, Places
<1> DEFINE p == Point(b, CornerOf(k, s))
           q == Point(a, CornerOf(l, r))
           h == HeightOf(k, s)
           i == HeightOf(l, r)
<1>2. p \in Int \X Int /\ q \in Int \X Int
  BY <1>1, PointDistance
<1>3. Hello!Depth \in Int /\ Hello!Depth > 0
  BY SectorsKnown DEF Hello!Depth
<1> HIDE DEF p, q, h, i
<1>4. <<p[1], p[2], h * Hello!Depth>> = <<q[1], q[2], i * Hello!Depth>> <=> p = q /\ h = i
  <2>1. h \in {-1, 1} /\ i \in {-1, 1}
    BY <1>1 DEF h, i
  <2>2. p = <<p[1], p[2]>> /\ q = <<q[1], q[2]>>
    BY <1>2
  <2>3. h * Hello!Depth = i * Hello!Depth <=> h = i
    BY <1>3, <2>1
  <2> QED  BY <2>2, <2>3
<1> QED  BY <1>1, <1>4 DEF Vertex, Hello!At, p, q, h, i
\* No edge is there twice in the same direction.
LEMMA EdgesApart ==
  ASSUME NEW b \in Blocks, NEW a \in Blocks, NEW k, HasKind(b, k), NEW l, HasKind(a, l),
         NEW s \in Places, NEW r \in Places,
         Vertex(b, k, s) = Vertex(a, l, r),
         Vertex(b, k, Turned(s)) = Vertex(a, l, Turned(r))
  PROVE  b = a /\ k = l /\ s = r
<1> DEFINE c == CornerOf(k, s)
           d == CornerOf(l, r)
           e == CornerOf(k, Turned(s))
           f == CornerOf(l, Turned(r))
<1>1. k \in 0 .. 5 /\ l \in 0 .. 5 /\ Turned(s) \in Places /\ Turned(r) \in Places
  BY SameVertex DEF HasKind, Turned, Places
<1>2. c \in 1 .. 4 /\ d \in 1 .. 4 /\ e \in 1 .. 4 /\ f \in 1 .. 4
  BY <1>1, SameVertex
<1>3. /\ Point(b, c) = Point(a, d) /\ HeightOf(k, s) = HeightOf(l, r)
      /\ Point(b, e) = Point(a, f) /\ HeightOf(k, Turned(s)) = HeightOf(l, Turned(r))
  BY <1>1, SameVertex
<1> HIDE DEF c, d, e, f
<1>4. /\ (b = a /\ c = d) \/ Seam(b, c, a, d) \/ Seam(a, d, b, c)
      /\ (b = a /\ e = f) \/ Seam(b, e, a, f) \/ Seam(a, f, b, e)
  BY <1>2, <1>3, PointsApart
<1>5. \/ b = a /\ c = d /\ e = f
      \/ Seam(b, c, a, d) /\ Seam(b, e, a, f)
      \/ Seam(a, d, b, c) /\ Seam(a, f, b, e)
  BY <1>4, SectorCount DEF Seam, NextSector, Blocks
<1>6. CASE b = a /\ c = d /\ e = f
  BY <1>1, <1>3, <1>6, RowsApart DEF c, d, e, f
<1>7. ASSUME NEW x \in Blocks, HasKind(x, k), HasKind(NextSector(x), l), x > 2
      PROVE  k \in {0, 2, 4, 5} /\ l \in {0, 2, 4, 5}
  BY <1>7, SectorCount DEF HasKind, NextSector, Blocks
<1>8. ASSUME NEW x \in Blocks, HasKind(x, l), HasKind(NextSector(x), k), x > 2
      PROVE  k \in {0, 2, 4, 5} /\ l \in {0, 2, 4, 5}
  BY <1>8, SectorCount DEF HasKind, NextSector, Blocks
<1>9. CASE Seam(b, c, a, d) /\ Seam(b, e, a, f)
  <2>1. b > 2 /\ a = NextSector(b) /\ c \in {3, 4} /\ d = 5 - c /\ e \in {3, 4} /\ f = 5 - e
    BY <1>9 DEF Seam
  <2>2. k \in {0, 2, 4, 5} /\ l \in {0, 2, 4, 5}
    BY <1>7, <2>1
  <2> QED  BY <1>3, <2>1, <2>2, SeamApart DEF c, d, e, f
<1>10. CASE Seam(a, d, b, c) /\ Seam(a, f, b, e)
  <2>1. a > 2 /\ b = NextSector(a) /\ d \in {3, 4} /\ c = 5 - d /\ f \in {3, 4} /\ e = 5 - f
    BY <1>10 DEF Seam
  <2>2. k \in {0, 2, 4, 5} /\ l \in {0, 2, 4, 5}
    BY <1>8, <2>1
  <2> QED  BY <1>3, <2>1, <2>2, SeamApart DEF c, d, e, f
<1> QED  BY <1>5, <1>6, <1>9, <1>10

-----------------------------------------------------------------------------
(* The other face at an edge *)

\* in a block whose faces are all there
OtherKind(k, s) ==
  IF k \in {0, 5} THEN
    IF s \in {2, 4} THEN IF k = 0 /\ s = 4 THEN 3 ELSE IF k = 5 /\ s = 2 THEN 1 ELSE k
    ELSE IF s = 5 THEN IF k = 0 THEN 0 ELSE 3
    ELSE IF s = 1 THEN IF k = 0 THEN 1 ELSE 5
    ELSE IF s = 3 THEN 4 ELSE 2
  ELSE IF s \in {2, 5} THEN k ELSE IF s = 1 THEN 5 ELSE IF s = 4 THEN 0
  ELSE IF s = 6 THEN After(k) ELSE IF k = 1 THEN 4 ELSE k - 1
OtherPlace(k, s) ==
  IF k = 0 THEN IF s = 2 THEN 5 ELSE IF s = 5 THEN 2 ELSE 4
  ELSE IF k = 5 THEN IF s = 1 THEN 4 ELSE IF s = 4 THEN 1 ELSE 1
  ELSE IF s = 1 THEN IF k = 1 THEN 2 ELSE IF k = 2 THEN 6 ELSE IF k = 3 THEN 5 ELSE 3
  ELSE IF s = 4 THEN IF k = 1 THEN 1 ELSE IF k = 2 THEN 6 ELSE IF k = 3 THEN 4 ELSE 3
  ELSE IF s = 2 THEN 5 ELSE IF s = 5 THEN 2 ELSE IF s = 3 THEN 6 ELSE 3

\* In a block the other face has the edge in the other direction.
LEMMA BlockReversed ==
  ASSUME NEW k \in 0 .. 5, NEW s \in Places
  PROVE  LET l == OtherKind(k, s)
             r == OtherPlace(k, s)
         IN /\ l \in 0 .. 5 /\ r \in Places
            /\ CornerOf(l, r) = CornerOf(k, Turned(s)) /\ HeightOf(l, r) = HeightOf(k, Turned(s))
            /\ CornerOf(l, Turned(r)) = CornerOf(k, s) /\ HeightOf(l, Turned(r)) = HeightOf(k, s)
BY DEF OtherKind, OtherPlace, CornerOf, HeightOf, Turned, After, Places

\* in a sector, where the neighbour has the other face
SeamPlace(k, s) ==
  IF k = 0 THEN 5 - s ELSE IF k = 5 THEN 7 - s ELSE 9 - s

\* A sector's neighbour has the faces that the sector lacks.
LEMMA SeamReversed ==
  ASSUME NEW k \in {0, 2, 4, 5}, NEW s \in Places, OtherKind(k, s) \in {1, 3}
  PROVE  LET r == SeamPlace(k, s)
             c == CornerOf(k, s)
             d == CornerOf(k, Turned(s))
         IN /\ r \in Places
            /\ (c \in {1, 2} /\ d \in {1, 2}) \/ (c \in {3, 4} /\ d \in {3, 4})
            /\ CornerOf(k, r) = 5 - d /\ HeightOf(k, r) = HeightOf(k, Turned(s))
            /\ CornerOf(k, Turned(r)) = 5 - c /\ HeightOf(k, Turned(r)) = HeightOf(k, s)
BY DEF SeamPlace, OtherKind, CornerOf, HeightOf, Turned, After, Places

\* The face that the second bar lacks would have been on the first one.
LEMMA BarsMeet ==
  ASSUME NEW k \in 0 .. 5, k # 4, NEW s \in Places, OtherKind(k, s) = 4
  PROVE  Hello!OnFirstBar(Vertex(2, k, s)) /\ Hello!OnFirstBar(Vertex(2, k, Turned(s)))
<1>1. CornerOf(k, s) \in {1, 4} /\ CornerOf(k, Turned(s)) \in {1, 4}
  BY DEF OtherKind, CornerOf, Turned, After, Places
<1>2. ASSUME NEW c \in {1, 4}, NEW z
      PROVE  Hello!OnFirstBar(Hello!At(Point(2, c), z))
  <2>1. Point(2, c) = <<8 * Unit, 0>> \/ Point(2, c) = <<0, 8 * Unit>>
    BY DEF Point, BarPoint, Hello!P3, Hello!Mirrored
  <2>2. \/ Hello!At(Point(2, c), z) = <<8 * Unit, 0, z>>
        \/ Hello!At(Point(2, c), z) = <<0, 8 * Unit, z>>
    BY <2>1 DEF Hello!At
  <2> QED  BY <2>2, SectorsKnown DEF Hello!OnFirstBar
<1> QED  BY <1>1, <1>2 DEF Vertex

HasReverse(b, k, s) ==
  \E a \in Blocks, l \in 0 .. 5, r \in Places :
    /\ HasKind(a, l)
    /\ Vertex(a, l, r) = Vertex(b, k, Turned(s))
    /\ Vertex(a, l, Turned(r)) = Vertex(b, k, s)

\* Every edge is there in the other direction, or on the first bar.
LEMMA EdgesReversed ==
  ASSUME NEW b \in Blocks, NEW k, HasKind(b, k), NEW s \in Places
  PROVE  \/ HasReverse(b, k, s)
         \/ Hello!OnFirstBar(Vertex(b, k, s)) /\ Hello!OnFirstBar(Vertex(b, k, Turned(s)))
<1> DEFINE l == OtherKind(k, s)
<1>1. k \in 0 .. 5 /\ Turned(s) \in Places /\ b \in Nat
  BY SectorCount DEF HasKind, Turned, Places, Blocks
<1>11. l \in 0 .. 5
  BY <1>1, BlockReversed
<1>2. CASE HasKind(b, l)
  <2> DEFINE r == OtherPlace(k, s)
  <2>1. /\ l \in 0 .. 5 /\ r \in Places /\ Turned(r) \in Places
        /\ CornerOf(l, r) = CornerOf(k, Turned(s)) /\ HeightOf(l, r) = HeightOf(k, Turned(s))
        /\ CornerOf(l, Turned(r)) = CornerOf(k, s) /\ HeightOf(l, Turned(r)) = HeightOf(k, s)
    BY <1>1, BlockReversed, SameVertex
  <2> HIDE DEF l, r
  <2>2. Vertex(b, l, r) = Vertex(b, k, Turned(s)) /\ Vertex(b, l, Turned(r)) = Vertex(b, k, s)
    BY <2>1 DEF Vertex
  <2> QED  BY <1>2, <2>1, <2>2 DEF HasReverse
<1>3. CASE b = 2 /\ ~ HasKind(b, l)
  <2>1. l = 4 /\ k # 4
    <3> HIDE DEF l
    <3> QED  BY <1>1, <1>11, <1>3 DEF HasKind
  <2> QED  BY <1>1, <1>3, <2>1, BarsMeet
<1>4. CASE b > 2 /\ ~ HasKind(b, l)
  <2> DEFINE r == SeamPlace(k, s)
             c == CornerOf(k, s)
             d == CornerOf(k, Turned(s))
  <2>1. l \in {1, 3} /\ k \in {0, 2, 4, 5}
    <3> HIDE DEF l
    <3> QED  BY <1>1, <1>11, <1>4 DEF HasKind
  <2>2. /\ r \in Places /\ Turned(r) \in Places
        /\ (c \in {1, 2} /\ d \in {1, 2}) \/ (c \in {3, 4} /\ d \in {3, 4})
        /\ CornerOf(k, r) = 5 - d /\ HeightOf(k, r) = HeightOf(k, Turned(s))
        /\ CornerOf(k, Turned(r)) = 5 - c /\ HeightOf(k, Turned(r)) = HeightOf(k, s)
    BY <2>1, SeamReversed DEF Turned, Places
  <2> HIDE DEF l, r, c, d
  <2>3. PICK a \in Blocks :
          a > 2 /\ Point(a, 5 - d) = Point(b, d) /\ Point(a, 5 - c) = Point(b, c)
    <3>1. CASE c \in {3, 4} /\ d \in {3, 4}
      <4>1. Seam(b, c, NextSector(b), 5 - c) /\ Seam(b, d, NextSector(b), 5 - d)
        BY <1>4, <3>1 DEF Seam
      <4> QED  BY <4>1, SeamShared
    <3>2. CASE c \in {1, 2} /\ d \in {1, 2}
      <4> DEFINE a == IF b = 3 THEN Sectors + 2 ELSE b - 1
      <4>1. a \in Blocks /\ a > 2 /\ b = NextSector(a)
        BY <1>4, SectorCount DEF Blocks, NextSector
      <4>2. 5 - c \in {3, 4} /\ 5 - (5 - c) = c /\ 5 - d \in {3, 4} /\ 5 - (5 - d) = d
        BY <3>2
      <4> HIDE DEF a
      <4>3. Seam(a, 5 - c, b, c) /\ Seam(a, 5 - d, b, d)
        BY <4>1, <4>2 DEF Seam
      <4> QED  BY <4>1, <4>3, SeamShared
    <3> QED  BY <2>2, <3>1, <3>2
  <2>4. HasKind(a, k)
    BY <1>1, <2>1, <2>3, SectorCount DEF HasKind, Blocks
  <2>5. Vertex(a, k, r) = Vertex(b, k, Turned(s)) /\ Vertex(a, k, Turned(r)) = Vertex(b, k, s)
    <3>1. Hello!At(Point(a, 5 - d), HeightOf(k, Turned(s)) * Hello!Depth)
            = Hello!At(Point(b, d), HeightOf(k, Turned(s)) * Hello!Depth)
      BY <2>3 DEF Hello!At
    <3>2. Hello!At(Point(a, 5 - c), HeightOf(k, s) * Hello!Depth)
            = Hello!At(Point(b, c), HeightOf(k, s) * Hello!Depth)
      BY <2>3 DEF Hello!At
    <3> QED  BY <2>2, <3>1, <3>2 DEF Vertex, c, d
  <2> QED  BY <1>1, <2>2, <2>4, <2>5 DEF HasReverse
<1>5. CASE b = 1 /\ ~ HasKind(b, l)
  <2> HIDE DEF l
  <2> QED  BY <1>11, <1>5 DEF HasKind
<1> QED  BY <1>1, <1>2, <1>3, <1>4, <1>5, SectorCount DEF Blocks
-----------------------------------------------------------------------------
(* The normals *)

\* a normal on the same side of a triangle as another one
SameDirection(n, m) ==
  /\ Hello!Normal(n, m) = <<0, 0, 0>>
  /\ n[1] * m[1] + n[2] * m[2] + n[3] * m[3] > 0
TriangleNormal(u, v, w) == Hello!Normal(Hello!Vector(u, v), Hello!Vector(u, w))

\* twice the area of a flat triangle, with a sign
Area(p, q, r) == (q[1] - p[1]) * (r[2] - p[2]) - (q[2] - p[2]) * (r[1] - p[1])

\* A flat triangle looks to the front or to the back.
LEMMA FlatNormal ==
  ASSUME NEW p \in Int \X Int, NEW q \in Int \X Int, NEW r \in Int \X Int, NEW z \in Int
  PROVE  /\ TriangleNormal(Hello!At(p, z), Hello!At(q, z), Hello!At(r, z)) = <<0, 0, Area(p, q, r)>>
         /\ Area(p, q, r) \in Int
<1> DEFINE a == q[1] - p[1]
           b == q[2] - p[2]
           c == r[1] - p[1]
           d == r[2] - p[2]
<1>1. a \in Int /\ b \in Int /\ c \in Int /\ d \in Int /\ z - z = 0
  OBVIOUS
<1>2. /\ Hello!Vector(Hello!At(p, z), Hello!At(q, z)) = <<a, b, 0>>
      /\ Hello!Vector(Hello!At(p, z), Hello!At(r, z)) = <<c, d, 0>>
  BY <1>1 DEF Hello!Vector, Hello!At
<1>3. Area(p, q, r) = a * d - b * c
  BY DEF Area
<1> HIDE DEF a, b, c, d
<1>4. Hello!Normal(<<a, b, 0>>, <<c, d, 0>>) = <<0, 0, a * d - b * c>>
  <2>1. b * 0 - 0 * d = 0 /\ 0 * c - a * 0 = 0
    BY <1>1
  <2> QED  BY <2>1 DEF Hello!Normal
<1> QED  BY <1>1, <1>2, <1>3, <1>4 DEF TriangleNormal

\* Flat normals have the same direction if their signs are the same.
LEMMA FlatDirection ==
  ASSUME NEW x \in Int, NEW y \in Int, x * y > 0
  PROVE  SameDirection(<<0, 0, x>>, <<0, 0, y>>)
<1>1. 0 * y - x * 0 = 0 /\ x * 0 - 0 * y = 0 /\ 0 * 0 - 0 * 0 = 0 /\ 0 * 0 + 0 * 0 + x * y > 0
  OBVIOUS
<1> QED  BY <1>1 DEF SameDirection, Hello!Normal

\* The front and the back of a block: both triangles have the same direction.
LEMMA BlockAreas ==
  ASSUME NEW b \in Blocks
  PROVE  LET area(i, j, k) == Area(Point(b, i), Point(b, j), Point(b, k)) IN
         /\ area(1, 2, 4) * area(1, 2, 4) > 0
         /\ area(3, 4, 2) * area(1, 2, 4) > 0
         /\ area(4, 2, 1) * area(4, 2, 1) > 0
         /\ area(2, 4, 3) * area(4, 2, 1) > 0
<1> DEFINE area(i, j, k) == Area(Point(b, i), Point(b, j), Point(b, k))
<1>1. CASE b = 1
  <2>1. /\ area(1, 2, 4) = 320 * (Unit * Unit) /\ area(3, 4, 2) = 320 * (Unit * Unit)
        /\ area(4, 2, 1) = -320 * (Unit * Unit) /\ area(2, 4, 3) = -320 * (Unit * Unit)
    BY <1>1, SectorsKnown DEF Area, Point, BarPoint, Hello!P1, Hello!P2, Hello!Mirrored
  <2> DEFINE w == Unit * Unit
  <2>2. w \in Int /\ w > 0
    BY SectorsKnown
  <2> HIDE DEF w, area
  <2>3. (320 * w) * (320 * w) > 0 /\ (-320 * w) * (-320 * w) > 0
    BY <2>2
  <2> QED  BY <2>1, <2>3 DEF w, area
<1>2. CASE b = 2
  <2>1. /\ area(1, 2, 4) = 352 * (Unit * Unit) /\ area(3, 4, 2) = 352 * (Unit * Unit)
        /\ area(4, 2, 1) = -352 * (Unit * Unit) /\ area(2, 4, 3) = -352 * (Unit * Unit)
    BY <1>2, SectorsKnown DEF Area, Point, BarPoint, Hello!P3, Hello!P4, Hello!Mirrored
  <2> DEFINE w == Unit * Unit
  <2>2. w \in Int /\ w > 0
    BY SectorsKnown
  <2> HIDE DEF w, area
  <2>3. (352 * w) * (352 * w) > 0 /\ (-352 * w) * (-352 * w) > 0
    BY <2>2
  <2> QED  BY <2>1, <2>3 DEF w, area
<1>3. CASE b \in 3 .. Sectors + 2
  <2> DEFINE i == b - 2
             j == NextSector(b) - 2
             x == Directions[i][1]
             y == Directions[i][2]
             u == Directions[j][1]
             v == Directions[j][2]
             g == x * v - y * u
  <2>1. /\ i \in 1 .. Sectors /\ j \in 1 .. Sectors
        /\ Directions[i] \in Int \X Int /\ Directions[j] \in Int \X Int
    BY <1>3, SectorsKnown DEF NextSector
  <2>2. x \in Int /\ y \in Int /\ u \in Int /\ v \in Int
    BY <2>1
  <2>3. g \in Int /\ g # 0
    <3>1. x * v # y * u
      BY <1>3, SectorsKnown
    <3>2. x * v \in Int /\ y * u \in Int
      BY <2>2
    <3> QED  BY <3>1, <3>2
  <2>4. /\ Point(b, 1) = <<30 * x, 30 * y>> /\ Point(b, 2) = <<20 * x, 20 * y>>
        /\ Point(b, 3) = <<20 * u, 20 * v>> /\ Point(b, 4) = <<30 * u, 30 * v>>
    BY <1>3 DEF Point, SectorPoint, DirectionOf, RadiusOf
  <2> HIDE DEF x, y, u, v
  <2>5. area(1, 2, 4) = -300 * g
    <3>1. area(1, 2, 4) = (20 * x - 30 * x) * (30 * v - 30 * y) - (20 * y - 30 * y) * (30 * u - 30 * x)
      BY <2>4 DEF Area
    <3> QED  BY <2>2, <3>1
  <2>6. area(3, 4, 2) = -200 * g
    <3>1. area(3, 4, 2) = (30 * u - 20 * u) * (20 * y - 20 * v) - (30 * v - 20 * v) * (20 * x - 20 * u)
      BY <2>4 DEF Area
    <3> QED  BY <2>2, <3>1
  <2>7. area(4, 2, 1) = 300 * g
    <3>1. area(4, 2, 1) = (20 * x - 30 * u) * (30 * y - 30 * v) - (20 * y - 30 * v) * (30 * x - 30 * u)
      BY <2>4 DEF Area
    <3> QED  BY <2>2, <3>1
  <2>8. area(2, 4, 3) = 200 * g
    <3>1. area(2, 4, 3) = (30 * u - 20 * x) * (20 * v - 20 * y) - (30 * v - 20 * y) * (20 * u - 20 * x)
      BY <2>4 DEF Area
    <3> QED  BY <2>2, <3>1
  <2> HIDE DEF g, area
  <2>9. /\ (-300 * g) * (-300 * g) > 0 /\ (-200 * g) * (-300 * g) > 0
        /\ (300 * g) * (300 * g) > 0 /\ (200 * g) * (300 * g) > 0
    <3>1. g * g > 0 /\ g * g \in Int
      BY <2>3
    <3>2. /\ (-300 * g) * (-300 * g) = 90000 * (g * g) /\ (-200 * g) * (-300 * g) = 60000 * (g * g)
          /\ (300 * g) * (300 * g) = 90000 * (g * g) /\ (200 * g) * (300 * g) = 60000 * (g * g)
      BY <2>3
    <3> QED  BY <3>1, <3>2
  <2> QED  BY <2>5, <2>6, <2>7, <2>8, <2>9 DEF area
<1> QED  BY <1>1, <1>2, <1>3, SectorsKnown DEF Blocks

\* A side looks away from the line between its points.
LEMMA SideNormal ==
  ASSUME NEW p \in Int \X Int, NEW q \in Int \X Int, p # q, NEW z \in Int, z > 0
  PROVE  LET m == Hello!Normal(Hello!Vector(Hello!At(p, 0), Hello!At(q, 0)), <<0, 0, -1>>) IN
         /\ SameDirection(TriangleNormal(Hello!At(p, z), Hello!At(q, z), Hello!At(p, -z)), m)
         /\ SameDirection(TriangleNormal(Hello!At(q, -z), Hello!At(p, -z), Hello!At(q, z)), m)
<1> DEFINE a == q[1] - p[1]
           b == q[2] - p[2]
           h == 2 * z
           m == Hello!Normal(Hello!Vector(Hello!At(p, 0), Hello!At(q, 0)), <<0, 0, -1>>)
<1>1. a \in Int /\ b \in Int /\ h \in Int /\ h > 0 /\ (a # 0 \/ b # 0)
  OBVIOUS
<1>2. /\ Hello!Vector(Hello!At(p, 0), Hello!At(q, 0)) = <<a, b, 0>>
      /\ Hello!Vector(Hello!At(p, z), Hello!At(q, z)) = <<a, b, 0>>
      /\ Hello!Vector(Hello!At(p, z), Hello!At(p, -z)) = <<0, 0, -h>>
      /\ Hello!Vector(Hello!At(q, -z), Hello!At(p, -z)) = <<-a, -b, 0>>
      /\ Hello!Vector(Hello!At(q, -z), Hello!At(q, z)) = <<0, 0, h>>
  BY DEF Hello!Vector, Hello!At
<1> HIDE DEF a, b, h
<1>3. m = <<-b, a, 0>>
  BY <1>1, <1>2 DEF Hello!Normal
<1>4. /\ TriangleNormal(Hello!At(p, z), Hello!At(q, z), Hello!At(p, -z)) = <<-(b * h), a * h, 0>>
      /\ TriangleNormal(Hello!At(q, -z), Hello!At(p, -z), Hello!At(q, z)) = <<-(b * h), a * h, 0>>
  BY <1>1, <1>2 DEF TriangleNormal, Hello!Normal
<1>5. SameDirection(<<-(b * h), a * h, 0>>, <<-b, a, 0>>)
  <2>1. /\ (a * h) * 0 - 0 * a = 0
        /\ 0 * (-b) - (-(b * h)) * 0 = 0
        /\ (-(b * h)) * a - (a * h) * (-b) = 0
    BY <1>1
  <2>2. (-(b * h)) * (-b) + (a * h) * a + 0 * 0 > 0
    <3>1. a * a + b * b > 0 /\ a * a + b * b \in Int
      BY <1>1
    <3>2. (-(b * h)) * (-b) + (a * h) * a + 0 * 0 = h * (a * a + b * b)
      BY <1>1
    <3> QED  BY <1>1, <3>1, <3>2
  <2> QED  BY <2>1, <2>2 DEF SameDirection, Hello!Normal
<1> QED  BY <1>3, <1>4, <1>5
\* The two triangles of every face have the direction of its normal.
LEMMA FaceNormal ==
  ASSUME NEW b \in Blocks, NEW k, HasKind(b, k), NEW j \in {1, 4}
  PROVE  SameDirection(TriangleNormal(Vertex(b, k, j), Vertex(b, k, j + 1), Vertex(b, k, j + 2)),
                       FaceOf(b, k).normal)
<1> DEFINE z == Hello!Depth
<1>1. z \in Int /\ z > 0 /\ 1 * z = z /\ -1 * z = -z /\ -z \in Int /\ 0 \in Int
  BY SectorsKnown DEF Hello!Depth
<1>2. /\ Point(b, 1) \in Int \X Int /\ Point(b, 2) \in Int \X Int
      /\ Point(b, 3) \in Int \X Int /\ Point(b, 4) \in Int \X Int
  BY PointDistance
<1>3. k \in 0 .. 5
  BY DEF HasKind
<1> DEFINE area(u, v, w) == Area(Point(b, u), Point(b, v), Point(b, w))
           t(u, v, w, y) ==
             TriangleNormal(Hello!At(Point(b, u), y), Hello!At(Point(b, v), y), Hello!At(Point(b, w), y))
<1>4. ASSUME NEW u \in 1 .. 4, NEW v \in 1 .. 4, NEW w \in 1 .. 4, NEW y \in Int
      PROVE  t(u, v, w, y) = <<0, 0, area(u, v, w)>> /\ area(u, v, w) \in Int
  <2> DEFINE p == Point(b, u)
             q == Point(b, v)
             r == Point(b, w)
  <2>1. p \in Int \X Int /\ q \in Int \X Int /\ r \in Int \X Int
    BY PointDistance
  <2> HIDE DEF p, q, r
  <2>2. TriangleNormal(Hello!At(p, y), Hello!At(q, y), Hello!At(r, y)) = <<0, 0, Area(p, q, r)>>
        /\ Area(p, q, r) \in Int
    BY <2>1, FlatNormal
  <2> QED  BY <2>2 DEF p, q, r
<1>5. /\ area(1, 2, 4) * area(1, 2, 4) > 0 /\ area(3, 4, 2) * area(1, 2, 4) > 0
      /\ area(4, 2, 1) * area(4, 2, 1) > 0 /\ area(2, 4, 3) * area(4, 2, 1) > 0
  BY BlockAreas
<1> HIDE DEF z
<1>6. CASE k = 0
  <2>1. FaceOf(b, k).normal = <<0, 0, area(1, 2, 4)>>
    <3>1. FaceOf(b, k).normal = t(1, 2, 4, 0)
      BY <1>6 DEF FaceOf, Hello!QuadFront, Hello!Face, TriangleNormal
    <3> HIDE DEF t, area
    <3> QED  BY <1>1, <1>4, <3>1
  <2>2. CASE j = 1
    <3>1. TriangleNormal(Vertex(b, k, j), Vertex(b, k, j + 1), Vertex(b, k, j + 2)) = t(1, 2, 4, -z)
      BY <1>1, <1>6, <2>2 DEF Vertex, CornerOf, HeightOf, z
    <3> HIDE DEF t, area
    <3>2. t(1, 2, 4, -z) = <<0, 0, area(1, 2, 4)>> /\ area(1, 2, 4) \in Int
      BY <1>1, <1>4
    <3> QED  BY <1>5, <2>1, <3>1, <3>2, FlatDirection
  <2>3. CASE j = 4
    <3>1. TriangleNormal(Vertex(b, k, j), Vertex(b, k, j + 1), Vertex(b, k, j + 2)) = t(3, 4, 2, -z)
      BY <1>1, <1>6, <2>3 DEF Vertex, CornerOf, HeightOf, z
    <3> HIDE DEF t, area
    <3>2. t(3, 4, 2, -z) = <<0, 0, area(3, 4, 2)>> /\ area(3, 4, 2) \in Int /\ area(1, 2, 4) \in Int
      BY <1>1, <1>4
    <3> QED  BY <1>5, <2>1, <3>1, <3>2, FlatDirection
  <2> QED  BY <2>2, <2>3
<1>7. CASE k = 5
  <2>1. FaceOf(b, k).normal = <<0, 0, area(4, 2, 1)>>
    <3>1. FaceOf(b, k).normal = t(4, 2, 1, 0)
      BY <1>7 DEF FaceOf, Hello!QuadBack, Hello!Face, TriangleNormal
    <3> HIDE DEF t, area
    <3> QED  BY <1>1, <1>4, <3>1
  <2>2. CASE j = 1
    <3>1. TriangleNormal(Vertex(b, k, j), Vertex(b, k, j + 1), Vertex(b, k, j + 2)) = t(4, 2, 1, z)
      BY <1>1, <1>7, <2>2 DEF Vertex, CornerOf, HeightOf, z
    <3> HIDE DEF t, area
    <3>2. t(4, 2, 1, z) = <<0, 0, area(4, 2, 1)>> /\ area(4, 2, 1) \in Int
      BY <1>1, <1>4
    <3> QED  BY <1>5, <2>1, <3>1, <3>2, FlatDirection
  <2>3. CASE j = 4
    <3>1. TriangleNormal(Vertex(b, k, j), Vertex(b, k, j + 1), Vertex(b, k, j + 2)) = t(2, 4, 3, z)
      BY <1>1, <1>7, <2>3 DEF Vertex, CornerOf, HeightOf, z
    <3> HIDE DEF t, area
    <3>2. t(2, 4, 3, z) = <<0, 0, area(2, 4, 3)>> /\ area(2, 4, 3) \in Int /\ area(4, 2, 1) \in Int
      BY <1>1, <1>4
    <3> QED  BY <1>5, <2>1, <3>1, <3>2, FlatDirection
  <2> QED  BY <2>2, <2>3
<1>8. CASE k \in 1 .. 4
  <2> DEFINE p == Point(b, k)
             q == Point(b, After(k))
  <2>1. After(k) \in 1 .. 4 /\ After(k) # k
    BY <1>8 DEF After
  <2>2. p \in Int \X Int /\ q \in Int \X Int
    BY <1>2, <1>8, <2>1
  <2>3. p # q
    <3>1. SUFFICES ASSUME p = q PROVE FALSE
      OBVIOUS
    <3>2. Seam(b, k, b, After(k)) \/ Seam(b, After(k), b, k)
      BY <1>8, <2>1, <3>1, PointsApart
    <3> QED  BY <3>2, SectorCount DEF Seam, NextSector, Blocks
  <2>4. FaceOf(b, k).normal =
          Hello!Normal(Hello!Vector(Hello!At(p, 0), Hello!At(q, 0)), <<0, 0, -1>>)
    BY <1>8 DEF FaceOf, Hello!Extrude, Hello!Face
  <2>5. CASE j = 1
    <3>1. /\ Vertex(b, k, j) = Hello!At(p, z) /\ Vertex(b, k, j + 1) = Hello!At(q, z)
          /\ Vertex(b, k, j + 2) = Hello!At(p, -z)
      BY <1>1, <1>8, <2>5 DEF Vertex, CornerOf, HeightOf, z
    <3> QED  BY <1>1, <2>2, <2>3, <2>4, <3>1, SideNormal
  <2>6. CASE j = 4
    <3>1. /\ Vertex(b, k, j) = Hello!At(q, -z) /\ Vertex(b, k, j + 1) = Hello!At(p, -z)
          /\ Vertex(b, k, j + 2) = Hello!At(q, z)
      BY <1>1, <1>8, <2>6 DEF Vertex, CornerOf, HeightOf, z
    <3> QED  BY <1>1, <2>2, <2>3, <2>4, <3>1, SideNormal
  <2> QED  BY <2>5, <2>6
<1> QED  BY <1>3, <1>6, <1>7, <1>8

-----------------------------------------------------------------------------
(* The lists *)

\* the lists are empty before the first frame, and then those of the logo
Listed == vertices = Hello!Logo.vertices /\ normals = Hello!Logo.normals

\* the face and the place of vertex k of triangle t
FaceAt(t) == (t \div 2) + 1
PlaceAt(t, k) == 3 * (t % 2) + k + 1

\* Six vertices of the list are those of a face, and three are those of a triangle.
LEMMA ListIndex ==
  ASSUME NEW t \in 0 .. 2 * (11 + 4 * Sectors) - 1, NEW k \in 0 .. 2
  PROVE  /\ FaceAt(t) \in FaceNumbers /\ PlaceAt(t, k) \in Places
         /\ 3 * t + k + 1 \in 1 .. 6 * (11 + 4 * Sectors)
         /\ ((3 * t + k) \div 6) + 1 = FaceAt(t)
         /\ ((3 * t + k) % 6) + 1 = PlaceAt(t, k)
<1> DEFINE h == t \div 2
           r == t % 2
           F == 11 + 4 * Sectors
<1>1. /\ t = 2 * h + r /\ h \in Nat /\ r \in {0, 1} /\ F \in Nat /\ t \in Nat /\ t <= 2 * F - 1
      /\ FaceNumbers = 1 .. F
  BY SectorCount DEF FaceNumbers
<1> HIDE DEF h, r, F
<1>2. h + 1 \in 1 .. F /\ 3 * t + k + 1 \in 1 .. 6 * F
  BY <1>1
<1>3. 3 * t + k = 6 * h + (3 * r + k) /\ 3 * r + k \in 0 .. 5
  BY <1>1
<1>4. (3 * t + k) \div 6 = h /\ (3 * t + k) % 6 = 3 * r + k
  BY <1>1, <1>3
<1> QED  BY <1>1, <1>2, <1>3, <1>4 DEF FaceAt, PlaceAt, Places, h, r, F

\* Every triangle of the list is one of a face, at places 1 to 3 or 4 to 6.
LEMMA ListVertex ==
  ASSUME Listed
  PROVE  /\ Len(vertices) = 6 * (11 + 4 * Sectors) /\ Len(normals) = Len(vertices)
         /\ Hello!Triangles = 0 .. 2 * (11 + 4 * Sectors) - 1
         /\ \A t \in Hello!Triangles, k \in 0 .. 2 :
              LET b == BlockOf(FaceAt(t))
                  l == KindOf(FaceAt(t))
              IN /\ b \in Blocks /\ HasKind(b, l) /\ PlaceAt(t, k) \in Places
                 /\ vertices[3 * t + k + 1] = Vertex(b, l, PlaceAt(t, k))
                 /\ normals[3 * t + k + 1] = FaceOf(b, l).normal
<1> DEFINE M == 6 * (11 + 4 * Sectors)
           face(v) == Hello!Faces[((v - 1) \div 6) + 1]
<1>1. /\ vertices = [v \in 1 .. M |-> face(v).vertices[((v - 1) % 6) + 1]]
      /\ normals = [v \in 1 .. M |-> face(v).normal]
      /\ M \in Nat
  BY SectorCount DEF Listed, Hello!Logo, Sectors
<1>2. Len(vertices) = M /\ Len(normals) = M
  <2> HIDE DEF M, face
  <2> QED  BY <1>1
<1>3. Hello!Triangles = 0 .. 2 * (11 + 4 * Sectors) - 1
  <2>1. M \div 3 = 2 * (11 + 4 * Sectors)
    BY SectorCount
  <2> QED  BY <1>2, <2>1 DEF Hello!Triangles
<1>4. ASSUME NEW t \in Hello!Triangles, NEW k \in 0 .. 2
      PROVE  LET b == BlockOf(FaceAt(t))
                 l == KindOf(FaceAt(t))
             IN /\ b \in Blocks /\ HasKind(b, l) /\ PlaceAt(t, k) \in Places
                /\ vertices[3 * t + k + 1] = Vertex(b, l, PlaceAt(t, k))
                /\ normals[3 * t + k + 1] = FaceOf(b, l).normal
  <2> DEFINE f == FaceAt(t)
             s == PlaceAt(t, k)
             v == 3 * t + k + 1
             b == BlockOf(f)
             l == KindOf(f)
  <2>1. /\ f \in FaceNumbers /\ s \in Places /\ v \in 1 .. M
        /\ ((v - 1) \div 6) + 1 = f /\ ((v - 1) % 6) + 1 = s
    <3>1. v - 1 = 3 * t + k
      BY <1>3
    <3> HIDE DEF f, s
    <3> QED  BY <1>3, <3>1, ListIndex DEF f, s
  <2>2. b \in Blocks /\ HasKind(b, l) /\ Hello!Faces[f] = FaceOf(b, l)
    BY <2>1, FacesKnown
  <2>3. vertices[v] = Hello!Faces[f].vertices[s] /\ normals[v] = Hello!Faces[f].normal
    <3> HIDE DEF f, s, v, M
    <3> QED  BY <1>1, <2>1
  <2>4. FaceOf(b, l).vertices[s] = Vertex(b, l, s)
    BY <2>1, <2>2, FaceVertices DEF HasKind
  <2> QED  BY <2>1, <2>2, <2>3, <2>4
<1> QED  BY <1>2, <1>3, <1>4
\* Normals of the whole list: those of a triangle's face.
LEMMA ListedNormals == Listed => Hello!NormalsRight
<1> SUFFICES ASSUME Listed PROVE Hello!NormalsRight
  OBVIOUS
<1>1. ASSUME NEW t \in Hello!Triangles, NEW k \in 1 .. 3
      PROVE  SameDirection(TriangleNormal(Hello!Corner(t, 0), Hello!Corner(t, 1), Hello!Corner(t, 2)),
                           normals[3 * t + k])
  <2> DEFINE b == BlockOf(FaceAt(t))
             l == KindOf(FaceAt(t))
             j == PlaceAt(t, 0)
  <2>1. t \in Nat /\ j \in {1, 4} /\ PlaceAt(t, 1) = j + 1 /\ PlaceAt(t, 2) = j + 2
    BY ListVertex, SectorCount DEF PlaceAt
  <2>2. /\ Hello!Corner(t, 0) = vertices[3 * t + 0 + 1]
        /\ Hello!Corner(t, 1) = vertices[3 * t + 1 + 1]
        /\ Hello!Corner(t, 2) = vertices[3 * t + 2 + 1]
    BY <2>1 DEF Hello!Corner
  <2>3. /\ b \in Blocks /\ HasKind(b, l)
        /\ Hello!Corner(t, 0) = Vertex(b, l, j)
        /\ Hello!Corner(t, 1) = Vertex(b, l, j + 1)
        /\ Hello!Corner(t, 2) = Vertex(b, l, j + 2)
    BY <2>1, <2>2, ListVertex
  <2>4. normals[3 * t + k] = FaceOf(b, l).normal
    <3>1. k - 1 \in 0 .. 2 /\ 3 * t + (k - 1) + 1 = 3 * t + k
      BY <2>1
    <3>2. normals[3 * t + (k - 1) + 1] = FaceOf(b, l).normal
      BY <3>1, ListVertex
    <3> QED  BY <3>1, <3>2
  <2> HIDE DEF b, l, j
  <2> QED  BY <2>1, <2>3, <2>4, FaceNormal
<1>2. Len(normals) = Len(vertices)
  BY ListVertex
<1> QED  BY <1>1, <1>2 DEF Hello!NormalsRight, SameDirection, TriangleNormal

\* the edge at a place of a face
FaceEdge(b, k, s) == <<Vertex(b, k, s), Vertex(b, k, Turned(s))>>

\* An edge of a triangle is the one at its place.
LEMMA ListEdge ==
  ASSUME Listed, NEW t \in Hello!Triangles, NEW k \in 0 .. 2
  PROVE  LET b == BlockOf(FaceAt(t))
             l == KindOf(FaceAt(t))
         IN /\ b \in Blocks /\ HasKind(b, l) /\ PlaceAt(t, k) \in Places
            /\ Hello!Edge(<<t, k>>) = FaceEdge(b, l, PlaceAt(t, k))
<1> DEFINE b == BlockOf(FaceAt(t))
           l == KindOf(FaceAt(t))
           next == IF k = 2 THEN 0 ELSE k + 1
<1>1. t \in Nat /\ t % 2 \in {0, 1}
  BY ListVertex, SectorCount
<1>2. PlaceAt(t, next) = Turned(PlaceAt(t, k)) /\ next \in 0 .. 2
  BY <1>1 DEF PlaceAt, Turned
<1>3. Hello!Corner(t, k) = vertices[3 * t + k + 1]
      /\ Hello!Corner(t, k + 1) = vertices[3 * t + next + 1]
  <2>1. k % 3 = k /\ (k + 1) % 3 = next
    OBVIOUS
  <2> HIDE DEF next
  <2> QED  BY <2>1 DEF Hello!Corner
<1>4. /\ b \in Blocks /\ HasKind(b, l) /\ PlaceAt(t, k) \in Places
      /\ vertices[3 * t + k + 1] = Vertex(b, l, PlaceAt(t, k))
      /\ vertices[3 * t + next + 1] = Vertex(b, l, PlaceAt(t, next))
  <2> HIDE DEF next
  <2> QED  BY <1>2, ListVertex
<1> HIDE DEF next, b, l
<1>5. Hello!Edge(<<t, k>>) = FaceEdge(b, l, PlaceAt(t, k))
  BY <1>2, <1>3, <1>4 DEF Hello!Edge, FaceEdge
<1> QED  BY <1>4, <1>5 DEF b, l

\* Every place of a face is that of a triangle.
LEMMA EdgeListed ==
  ASSUME Listed, NEW b \in Blocks, NEW l, HasKind(b, l), NEW s \in Places
  PROVE  FaceEdge(b, l, s) \in {Hello!Edge(e) : e \in Hello!Edges}
<1>1. PICK f \in FaceNumbers : BlockOf(f) = b /\ KindOf(f) = l
  BY FaceFound
<1> DEFINE r == IF s > 3 THEN 1 ELSE 0
           t == 2 * (f - 1) + r
           k == s - 1 - 3 * r
<1>2. f \in Nat /\ f >= 1 /\ f <= 11 + 4 * Sectors /\ r \in {0, 1} /\ k \in 0 .. 2 /\ s = 3 * r + k + 1
  BY SectorCount DEF FaceNumbers, Places
<1>3. t \in 0 .. 2 * (11 + 4 * Sectors) - 1 /\ t \div 2 = f - 1 /\ t % 2 = r
  <2> HIDE DEF r, k
  <2> QED  BY <1>2, SectorCount
<1> HIDE DEF r, t, k
<1>4. FaceAt(t) = f /\ PlaceAt(t, k) = s
  BY <1>2, <1>3 DEF FaceAt, PlaceAt
<1>5. t \in Hello!Triangles
  BY <1>3, ListVertex
<1>6. <<t, k>> \in Hello!Edges
  BY <1>2, <1>5 DEF Hello!Edges
<1>7. Hello!Edge(<<t, k>>) = FaceEdge(b, l, s)
  BY <1>1, <1>2, <1>4, <1>5, ListEdge
<1> QED  BY <1>6, <1>7

\* The whole list is a closed surface.
LEMMA ListedClosed == Listed => Hello!SurfaceClosed
<1> SUFFICES ASSUME Listed PROVE Hello!SurfaceClosed
  OBVIOUS
<1>1. ASSUME NEW e \in Hello!Edges
      PROVE  e[1] \in Hello!Triangles /\ e[2] \in 0 .. 2 /\ e = <<e[1], e[2]>>
  BY DEF Hello!Edges
<1>2. ASSUME NEW e \in Hello!Edges
      PROVE  \/ Hello!OnFirstBar(Hello!Edge(e)[1]) /\ Hello!OnFirstBar(Hello!Edge(e)[2])
             \/ <<Hello!Edge(e)[2], Hello!Edge(e)[1]>> \in {Hello!Edge(f) : f \in Hello!Edges}
  <2> DEFINE b == BlockOf(FaceAt(e[1]))
             k == KindOf(FaceAt(e[1]))
             s == PlaceAt(e[1], e[2])
  <2>1. b \in Blocks /\ HasKind(b, k) /\ s \in Places /\ Hello!Edge(e) = FaceEdge(b, k, s)
    BY <1>1, ListEdge
  <2> HIDE DEF b, k, s
  <2>2. Hello!Edge(e)[1] = Vertex(b, k, s) /\ Hello!Edge(e)[2] = Vertex(b, k, Turned(s))
    BY <2>1 DEF FaceEdge
  <2>3. CASE HasReverse(b, k, s)
    <3>1. PICK a \in Blocks, l \in 0 .. 5, r \in Places :
            /\ HasKind(a, l)
            /\ Vertex(a, l, r) = Vertex(b, k, Turned(s))
            /\ Vertex(a, l, Turned(r)) = Vertex(b, k, s)
      BY <2>3 DEF HasReverse
    <3>2. FaceEdge(a, l, r) = <<Hello!Edge(e)[2], Hello!Edge(e)[1]>>
      BY <2>2, <3>1 DEF FaceEdge
    <3>3. FaceEdge(a, l, r) \in {Hello!Edge(f) : f \in Hello!Edges}
      BY <3>1, EdgeListed
    <3> QED  BY <3>2, <3>3
  <2> QED  BY <2>1, <2>2, <2>3, EdgesReversed
<1>3. ASSUME NEW e \in Hello!Edges, NEW f \in Hello!Edges, Hello!Edge(e) = Hello!Edge(f)
      PROVE  e = f
  <2> DEFINE b == BlockOf(FaceAt(e[1]))
             k == KindOf(FaceAt(e[1]))
             s == PlaceAt(e[1], e[2])
             a == BlockOf(FaceAt(f[1]))
             l == KindOf(FaceAt(f[1]))
             r == PlaceAt(f[1], f[2])
  <2>1. /\ b \in Blocks /\ HasKind(b, k) /\ s \in Places /\ Hello!Edge(e) = FaceEdge(b, k, s)
        /\ a \in Blocks /\ HasKind(a, l) /\ r \in Places /\ Hello!Edge(f) = FaceEdge(a, l, r)
    BY <1>1, ListEdge
  <2>2. b = a /\ k = l /\ s = r
    <3> HIDE DEF b, k, s, a, l, r
    <3>1. Vertex(b, k, s) = Vertex(a, l, r) /\ Vertex(b, k, Turned(s)) = Vertex(a, l, Turned(r))
      <4>1. FaceEdge(b, k, s) = FaceEdge(a, l, r)
        BY <1>3, <2>1
      <4> QED  BY <4>1 DEF FaceEdge
    <3> QED  BY <2>1, <3>1, EdgesApart
  <2> DEFINE t == e[1]
             u == f[1]
  <2>3. t \in 0 .. 2 * (11 + 4 * Sectors) - 1 /\ u \in 0 .. 2 * (11 + 4 * Sectors) - 1
    BY <1>1, ListVertex
  <2>4. FaceAt(t) \in FaceNumbers /\ FaceAt(u) \in FaceNumbers
    <3> HIDE DEF t, u
    <3>1. 0 \in 0 .. 2
      OBVIOUS
    <3> QED  BY <2>3, <3>1, ListIndex
  <2>5. FaceAt(t) = FaceAt(u)
    BY <2>2, <2>4, FaceOnce
  <2>6. t = u /\ e[2] = f[2]
    <3> DEFINE m == e[2]
               n == f[2]
    <3>1. m \in 0 .. 2 /\ n \in 0 .. 2 /\ t \in Nat /\ u \in Nat
      BY <1>1, <2>3, SectorCount
    <3>2. PlaceAt(t, m) = PlaceAt(u, n)
      BY <2>2
    <3> HIDE DEF t, u, m, n
    <3>3. t \div 2 = u \div 2 /\ 3 * (t % 2) + m = 3 * (u % 2) + n
      BY <2>5, <3>1, <3>2 DEF FaceAt, PlaceAt
    <3>4. t % 2 \in {0, 1} /\ u % 2 \in {0, 1} /\ t = 2 * (t \div 2) + (t % 2)
          /\ u = 2 * (u \div 2) + (u % 2)
      BY <3>1
    <3>5. t = u /\ m = n
      BY <3>1, <3>3, <3>4
    <3> QED  BY <3>5 DEF m, n
  <2> QED  BY <1>1, <2>6
<1> QED  BY <1>2, <1>3 DEF Hello!SurfaceClosed

HelloInv ==
  /\ (vertices = <<>> /\ normals = <<>>) \/ Listed
  /\ animating \in BOOLEAN /\ updateRequested \in BOOLEAN
  /\ animating => updateRequested

\* For any number of sectors, the logo is a closed surface that is seen from outside, and
\* while the window is animated there is another frame to come (createGeometry(), quad(),
\* extrude() and paintGL() of HelloWindow).
THEOREM LogoClosed == MCSpec => []Hello!LogoSound
<1>1. MCInit => HelloInv
  BY DEF MCInit, Hello!Init, HelloInv
<1>2. HelloInv /\ [MCNext]_allVars => HelloInv'
  <2> SUFFICES ASSUME HelloInv, [MCNext]_allVars PROVE HelloInv'
    OBVIOUS
  <2>1. CASE Hello!UpdateColor
    BY <2>1 DEF Hello!UpdateColor, Hello!geometry, HelloInv, Listed
  <2>2. CASE Hello!KeyPress
    BY <2>2 DEF Hello!KeyPress, Hello!geometry, HelloInv, Listed
  <2>3. CASE Hello!Expose
    BY <2>3 DEF Hello!Expose, Hello!geometry, HelloInv, Listed
  <2>4. CASE Hello!InitializeGL
    BY <2>4 DEF Hello!InitializeGL, HelloInv, Listed
  <2>5. CASE Hello!PaintGL
    BY <2>5 DEF Hello!PaintGL, Hello!NextFrame, Hello!geometry, HelloInv, Listed
  <2>6. CASE UNCHANGED helloVars
    BY <2>6 DEF helloVars, HelloInv, Listed
  <2>7. UNCHANGED helloVars \/ Hello!Next
    BY DEF MCNext, allVars, InFrames, InTimers, InHello, InCanvases, InGl, InSettings, InMemory, In
  <2> QED  BY <2>1, <2>2, <2>3, <2>4, <2>5, <2>6, <2>7 DEF Hello!Next
<1>3. HelloInv => Hello!LogoSound
  <2> SUFFICES ASSUME HelloInv PROVE Hello!LogoSound
    OBVIOUS
  <2>1. CASE Listed
    BY <2>1, ListedNormals, ListedClosed DEF Hello!LogoSound, HelloInv
  <2>2. CASE vertices = <<>> /\ normals = <<>>
    <3>1. Hello!Triangles = {}
      BY <2>2 DEF Hello!Triangles
    <3>2. Hello!Edges = {}
      BY <3>1 DEF Hello!Edges
    <3>3. Hello!NormalsRight
      BY <2>2, <3>1 DEF Hello!NormalsRight
    <3>4. Hello!SurfaceClosed
      BY <3>2 DEF Hello!SurfaceClosed
    <3> QED  BY <3>3, <3>4 DEF Hello!LogoSound, HelloInv
  <2> QED  BY <2>1, <2>2 DEF HelloInv
<1> QED  BY <1>1, <1>2, <1>3, PTL DEF MCSpec

-----------------------------------------------------------------------------
(* The programs together *)

\* The logo is closed, canvases have the whole pixels that fit them, widgets stay apart, and
\* the totals are the memory that is held.
THEOREM WindowsAlwaysSound == MCSpec => []WindowsSound
<1>1. /\ Hello!LogoSound /\ Sizes!CanvasesFit /\ Gl!WidgetsApart /\ Memory!MetersRight
      => WindowsSound
  BY DEF WindowsSound
<1> QED  BY <1>1, LogoClosed, CanvasesAlwaysFit, WidgetsStayApart, TotalsHeld, PTL

=============================================================================
