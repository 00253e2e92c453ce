---------------------------- MODULE SettingsDialog ----------------------------
(***************************************************************************)
(* The settings dialog of quick_controls2_testbench: the palette's check   *)
(* box and color editors, copying a palette to the clipboard and importing *)
(* one from it (Clipboard), and the check of the asset path                *)
(* (DirectoryValidator). What the other settings do is in AssetFixer. The  *)
(* program runs with the Imagine style, or the path could not be edited.   *)
(*                                                                         *)
(* A palette on the clipboard is a text "Palette/<key>=<value>,...", here  *)
(* the sequence of its entries, each the sequence of the parts around "=". *)
(* The clipboard may hold any other text. The text of a color editor is    *)
(* "" if the color is not customized. A key without a value is undefined   *)
(* in JavaScript; assigning that to a text throws.                         *)
(***************************************************************************)
EXTENDS Integers, Sequences, Functions

CONSTANTS
  Keys,        \* the keys of the palette, in the order of updatePaletteSettingsControls()
  Colors,      \* texts of color editors, with ""
  ForeignTexts,\* texts that other programs put on the clipboard
  Paths        \* asset paths, other than the empty one

VARIABLES
  shown,          \* the dialog is shown
  savedUse,       \* paletteSettings.useCustomPalette
  savedColors,    \* the other properties of paletteSettings
  useBox,         \* useCustomPaletteCheckBox.checked
  editors,        \* editors[k]: the text of the color editor of k
  clipboardText,  \* the text of the clipboard
  customBox,      \* customImagineStyleCheckBox.checked
  savedCustom,    \* settings.useCustomImaginePath
  savedPath,      \* settings.imaginePath
  kind,           \* kind[p]: what is at path p
  validator,      \* directoryValidator: [path, message]
  shownMessage,   \* what bindings to the validator have: [valid, message]
  copied,         \* history: the colors that were last copied, NoColors before
  fromCopy        \* history: the editors were last set by importing those

palette == <<savedUse, savedColors, useBox, editors, clipboardText, copied, fromCopy>>
custom == <<customBox, savedCustom, savedPath>>
checked == <<validator, shownMessage>>
path == <<custom, kind, checked>>
vars == <<shown, palette, path>>

AllPaths == Paths \cup {""}

KeySet == Range(Keys)
ColorMaps == [KeySet -> Colors]
Kinds == {"missing", "file", "directory"}
NoColors == <<>>
Undefined == "undefined"

TypeOK ==
  /\ shown \in BOOLEAN
  /\ savedUse \in BOOLEAN
  /\ savedColors \in ColorMaps
  /\ useBox \in BOOLEAN
  /\ editors \in ColorMaps
  /\ customBox \in BOOLEAN
  /\ savedCustom \in BOOLEAN
  /\ savedPath \in AllPaths
  /\ kind \in [Paths -> Kinds]
  /\ validator \in [path : AllPaths, message : {""} \cup Kinds]
  /\ shownMessage \in [valid : BOOLEAN, message : {""} \cup Kinds]
  /\ copied \in ColorMaps \cup {NoColors}
  /\ fromCopy \in BOOLEAN

-----------------------------------------------------------------------------
(* Updates, each preceded by the wrong variant that mutation testing puts in *)
(* its place.                                                                *)

NonEmptyPair(entry) == Len(entry) >= 2 /\ entry[Len(entry)] # ""
\* paste(): entries that are not skipped
IsPair(entry) == Len(entry) >= 2

-----------------------------------------------------------------------------

\* Clipboard::copy()
PaletteText(colors) == [k \in DOMAIN Keys |-> <<Keys[k], colors[Keys[k]]>>]

\* Clipboard::paste(): of several entries for a key the last one counts
Paste(text) ==
  [k \in KeySet |->
     LET hits == {j \in DOMAIN text : IsPair(text[j]) /\ text[j][1] = k} IN
       IF hits = {} THEN Undefined
       ELSE LET last == CHOOSE j \in hits : \A i \in hits : i <= j IN text[last][Len(text[last])]]

\* updatePaletteSettingsControls(): the editors up to the first undefined color
Updated(source) ==
  [k \in KeySet |->
     LET at == CHOOSE j \in DOMAIN Keys : Keys[j] = k IN
       IF \A j \in 1 .. at : source[Keys[j]] # Undefined THEN source[k] ELSE editors[k]]

\* setPath() of a path: its error message; nothing exists at the empty path
MessageFor(p) ==
  IF p = "" THEN "missing" ELSE IF kind[p] = "directory" THEN "" ELSE kind[p]

\* setPath() and the bindings that its signals update; a path that is set already is
\* not looked at again
SetPath(p) ==
  IF p = validator.path THEN UNCHANGED checked
  ELSE LET m == MessageFor(p) IN
       /\ validator' = [path |-> p, message |-> m]
       /\ shownMessage' =
            [valid |-> IF (m = "") # (validator.message = "") THEN m = "" ELSE shownMessage.valid,
             message |-> IF m # validator.message THEN m ELSE shownMessage.message]

\* The settings are what an earlier session saved, and the path is bound to the validator,
\* which starts with the empty path: that one is valid as long as no other was set.
Init ==
  /\ shown = FALSE
  /\ savedUse = FALSE
  /\ savedColors = [k \in KeySet |-> ""]
  /\ useBox = FALSE
  /\ editors = savedColors
  /\ clipboardText = <<>>
  /\ savedCustom \in BOOLEAN
  /\ savedPath \in AllPaths
  /\ customBox = savedCustom
  /\ kind = [p \in Paths |-> "missing"]
  /\ validator = [path |-> savedPath, message |-> IF savedPath = "" THEN "" ELSE "missing"]
  /\ shownMessage = [valid |-> savedPath = "", message |-> validator.message]
  /\ copied = NoColors
  /\ fromCopy = FALSE

\* onAboutToShow
AboutToShow ==
  /\ ~ shown
  /\ shown' = TRUE
  /\ useBox' = savedUse
  /\ editors' = savedColors
  /\ fromCopy' = FALSE
  /\ customBox' = savedCustom
  /\ SetPath(savedPath)
  /\ UNCHANGED <<savedUse, savedColors, clipboardText, copied, savedCustom, savedPath, kind>>

\* the check box
ToggleUse ==
  /\ shown
  /\ useBox' = ~ useBox
  /\ UNCHANGED <<shown, savedUse, savedColors, editors, clipboardText, copied, fromCopy, path>>

EditColor(k, c) ==
  /\ shown
  /\ useBox
  /\ editors' = [editors EXCEPT ![k] = c]
  /\ fromCopy' = FALSE
  /\ UNCHANGED <<shown, savedUse, savedColors, useBox, clipboardText, copied, path>>

\* "Copy Palette Settings To Clipboard"
Copy ==
  /\ shown
  /\ useBox
  /\ clipboardText' = PaletteText(editors)
  /\ copied' = editors
  /\ fromCopy' = FALSE
  /\ UNCHANGED <<shown, savedUse, savedColors, useBox, editors, path>>

\* another program
CopyForeign(text) ==
  /\ clipboardText' = text
  /\ copied' = NoColors
  /\ fromCopy' = FALSE
  /\ UNCHANGED <<shown, savedUse, savedColors, useBox, editors, path>>

\* "Import Palette Settings From Clipboard": the box is set to what is saved
Import ==
  /\ shown
  /\ useBox
  /\ useBox' = savedUse
  /\ editors' = Updated(Paste(clipboardText))
  /\ fromCopy' = (copied # NoColors)
  /\ UNCHANGED <<shown, savedUse, savedColors, clipboardText, copied, path>>

\* "OK", which is enabled for a path that is valid or cannot be edited, and onAccepted
Accept ==
  /\ shown
  /\ ~ customBox \/ shownMessage.valid
  /\ shown' = FALSE
  /\ savedUse' = useBox
  /\ savedColors' = editors
  /\ savedCustom' = customBox
  /\ savedPath' = validator.path
  /\ UNCHANGED <<useBox, editors, clipboardText, copied, fromCopy, customBox, kind, checked>>

Cancel ==
  /\ shown
  /\ shown' = FALSE
  /\ UNCHANGED <<palette, path>>

\* the check box of the path
ToggleCustom ==
  /\ shown
  /\ customBox' = ~ customBox
  /\ UNCHANGED <<shown, palette, savedCustom, savedPath, kind, checked>>

\* the text field of the path
EditPath(p) ==
  /\ shown
  /\ customBox
  /\ SetPath(p)
  /\ UNCHANGED <<shown, palette, custom, kind>>

\* other programs make, replace and remove what is at a path
FileSystem(p, k) ==
  /\ kind' = [kind EXCEPT ![p] = k]
  /\ UNCHANGED <<shown, palette, custom, checked>>

Next ==
  \/ AboutToShow
  \/ ToggleUse
  \/ \E k \in KeySet, c \in Colors : EditColor(k, c)
  \/ Copy
  \/ \E text \in ForeignTexts : CopyForeign(text)
  \/ Import
  \/ Accept
  \/ Cancel
  \/ ToggleCustom
  \/ \E p \in AllPaths : EditPath(p)
  \/ \E p \in Paths, k \in Kinds : FileSystem(p, k)

Spec == Init /\ [][Next]_vars

-----------------------------------------------------------------------------
(* Properties *)

\* A palette that was copied is imported as it was, colors that are not customized
\* with it, whatever was edited, saved and cancelled between, as long as nothing else
\* was copied. And what the dialog shows of the path is what the validator has, though
\* it hears only of changes.
SettingsKept ==
  /\ fromCopy => editors = copied
  /\ shownMessage = [valid |-> validator.message = "", message |-> validator.message]

=============================================================================
