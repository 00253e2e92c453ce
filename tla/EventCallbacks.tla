----------------------------- MODULE EventCallbacks -----------------------------
(***************************************************************************)
(* qstdweb (emscripten_nativecontrols): C++ callbacks for events of HTML   *)
(* elements and of FileReader objects.                                     *)
(*                                                                         *)
(* An EventCallback registers itself at its element: a property of the     *)
(* element holds the object's address, another one the function that calls *)
(* the object. Deleting it takes the function off again. An element has    *)
(* one such pair of properties for each event.                             *)
(*                                                                         *)
(* Listeners of elements are deleted by removeEventListener(); the three   *)
(* callbacks of a FileReader belong to the reader, which deletes them when *)
(* they are replaced and when it is destroyed.                             *)
(***************************************************************************)
EXTENDS Naturals

CONSTANTS
  ElementEvents,  \* events of HTML elements, [element, event] taken as one value
  MaxCallbacks    \* bound: EventCallbacks made in one behaviour

VARIABLES
  context,     \* context[e]: the property data-qtEventCallbackContext, 0 before the first
  onEvent,     \* onEvent[e]: the property on<event> is set
  eventOf,     \* eventOf[c]: the event that callback c was made for
  alive,       \* the callbacks that exist
  owned,       \* owned[e]: m_onLoad, m_onError, m_onAbort, 0 for none
  reader,      \* the FileReader: "idle", "reading", "done" or "destroyed"
  made,        \* history: the number of callbacks made
  wild         \* history: a deleted callback was called

vars == <<context, onEvent, eventOf, alive, owned, reader, made, wild>>

ReaderEvents == {"load", "error", "abort"}
Events == ElementEvents \cup ReaderEvents
Callbacks == 1 .. MaxCallbacks
None == 0
NoEvent == "none"

TypeOK ==
  /\ context \in [Events -> Callbacks \cup {None}]
  /\ onEvent \in [Events -> BOOLEAN]
  /\ eventOf \in [Callbacks -> Events \cup {NoEvent}]
  /\ alive \subseteq Callbacks
  /\ owned \in [ReaderEvents -> Callbacks \cup {None}]
  /\ reader \in {"idle", "reading", "done", "destroyed"}
  /\ made \in 0 .. MaxCallbacks
  /\ wild \in BOOLEAN

Init ==
  /\ context = [e \in Events |-> None]
  /\ onEvent = [e \in Events |-> FALSE]
  /\ eventOf = [c \in Callbacks |-> NoEvent]
  /\ alive = {}
  /\ owned = [e \in ReaderEvents |-> None]
  /\ reader = "idle"
  /\ made = 0
  /\ wild = FALSE

-----------------------------------------------------------------------------
(* Updates, each preceded by the wrong variant that mutation testing puts in *)
(* its place.                                                                *)

HandlerStays(e) == onEvent[e]
\* ~EventCallback()
HandlerAfterDelete(e) == FALSE

-----------------------------------------------------------------------------

\* EventCallback::EventCallback(); old is deleted after the new one was made
Make(e, old) ==
  /\ made < MaxCallbacks
  /\ made' = made + 1
  /\ context' = [context EXCEPT ![e] = made + 1]
  /\ eventOf' = [eventOf EXCEPT ![made + 1] = e]
  /\ alive' = (alive \ {old}) \cup {made + 1}
  /\ onEvent' = [onEvent EXCEPT ![e] = IF old = None THEN TRUE ELSE HandlerAfterDelete(e)]

\* addEventListender()
AddEventListener(e) ==
  /\ Make(e, None)
  /\ UNCHANGED <<owned, reader, wild>>

\* removeEventListener(), called once for a listener
RemoveEventListener(c) ==
  /\ c \in alive
  /\ eventOf[c] \in ElementEvents
  /\ alive' = alive \ {c}
  /\ onEvent' = [onEvent EXCEPT ![eventOf[c]] = HandlerAfterDelete(eventOf[c])]
  /\ UNCHANGED <<context, eventOf, owned, reader, made, wild>>

\* onLoad(), onError(), onAbort(): reset() takes the new callback, then deletes
\* the old one
SetReaderCallback(e) ==
  /\ reader # "destroyed"
  /\ Make(e, owned[e])
  /\ owned' = [owned EXCEPT ![e] = made + 1]
  /\ UNCHANGED <<reader, wild>>

ReadAsArrayBuffer ==
  /\ reader \in {"idle", "done"}
  /\ reader' = "reading"
  /\ UNCHANGED <<context, onEvent, eventOf, alive, owned, made, wild>>

\* ~FileReader(): the browser's object may still be reading
DestroyReader ==
  /\ reader # "destroyed"
  /\ reader' = "destroyed"
  /\ alive' = alive \ {owned[e] : e \in ReaderEvents}
  /\ onEvent' = [e \in Events |->
       IF e \in ReaderEvents /\ owned[e] # None THEN HandlerAfterDelete(e) ELSE onEvent[e]]
  /\ owned' = [e \in ReaderEvents |-> None]
  /\ UNCHANGED <<context, eventOf, made, wild>>

\* activate(): the address is taken from the element
Activate(e) ==
  /\ onEvent[e]
  /\ wild' = (wild \/ context[e] \notin alive)
  /\ reader' = IF e \in ReaderEvents /\ reader = "reading" THEN "done" ELSE reader
  /\ UNCHANGED <<context, onEvent, eventOf, alive, owned, made>>

\* no more callbacks are made
Rest ==
  /\ made = MaxCallbacks
  /\ UNCHANGED vars

Next ==
  \/ \E e \in ElementEvents : AddEventListener(e)
  \/ \E c \in Callbacks : RemoveEventListener(c)
  \/ \E e \in ReaderEvents : SetReaderCallback(e)
  \/ ReadAsArrayBuffer
  \/ DestroyReader
  \/ \E e \in ElementEvents : Activate(e)
  \/ \E e \in ReaderEvents : reader \in {"reading", "destroyed"} /\ Activate(e)
  \/ Rest

Spec == Init /\ [][Next]_vars

-----------------------------------------------------------------------------
(* Properties *)

\* No event calls a callback that was deleted, in whatever order callbacks are
\* made, replaced and deleted; and a callback that is the only one ever made for
\* its event is called for as long as it exists. (Deleting any of several callbacks
\* for one event silences them all, and setting a reader's callback again
\* deletes the old one after the new one was registered.)
CallbacksSound ==
  /\ ~ wild
  /\ \A c \in alive :
       (\A d \in Callbacks : eventOf[d] = eventOf[c] => d = c) =>
         onEvent[eventOf[c]] /\ context[eventOf[c]] = c

-----------------------------------------------------------------------------
(* Why: the inductive invariant of the proofs *)

\* callbacks are numbered as they are made
Numbered ==
  /\ \A c \in Callbacks : eventOf[c] = NoEvent <=> c > made
  /\ \A c \in alive : c <= made

\* An event that is handled is handled by a callback of its own, and the reader owns callbacks
\* of its own events.
HandledByOwn ==
  /\ \A e \in Events : onEvent[e] => context[e] \in alive /\ eventOf[context[e]] = e
  /\ \A e \in ReaderEvents : owned[e] # None => owned[e] \in alive /\ eventOf[owned[e]] = e

IInv == TypeOK /\ Numbered /\ HandledByOwn /\ CallbacksSound

=============================================================================
