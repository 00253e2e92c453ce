------------------------------- MODULE AppReload -------------------------------
(***************************************************************************)
(* gui_reload: a page that creates and destroys instances of a Qt program, *)
(* and the application object in the instance.                             *)
(*                                                                         *)
(* The page has four buttons, which its handlers enable and disable.       *)
(* Creating an instance takes a while, in which the button can be clicked  *)
(* again; the last instance to be ready replaces the one before. How long  *)
(* loading takes is left open, so that answers may overtake. A double      *)
(* click in the application's window asks the page to destroy both; the    *)
(* page does so in a timeout, because Qt is still processing the event.    *)
(***************************************************************************)
EXTENDS Naturals

CONSTANTS
  MaxInstances,   \* bound: instances created in one behaviour
  MaxDoubleClicks \* bound: timeouts that are pending

VARIABLES
  instance,   \* g_instance, 0 for null
  enabled,    \* the buttons that are enabled
  loading,    \* handleCreateInstance() calls that wait for instantiateApp()
  orphans,    \* those whose container has been replaced since the click
  instances,  \* history: instances created so far
  apps,       \* the instances in which g_app and g_window exist
  shown,      \* the instances whose container is in the page
  destroyTimeouts   \* pending timeouts of timerDestroyAppAndInstance()

vars == <<instance, enabled, loading, orphans, instances, apps, shown, destroyTimeouts>>

Instances == 1 .. MaxInstances
PageButtons == {"createInstance", "destroyInstance", "createApp", "destroyApp"}

TypeOK ==
  /\ instance \in 0 .. MaxInstances
  /\ enabled \subseteq PageButtons
  /\ loading \in 0 .. MaxInstances
  /\ orphans \in 0 .. MaxInstances
  /\ instances \in 0 .. MaxInstances
  /\ apps \subseteq Instances
  /\ shown \subseteq Instances
  /\ destroyTimeouts \in 0 .. MaxDoubleClicks

\* the page has loaded
Init ==
  /\ instance = 0
  /\ enabled = {"createInstance"}
  /\ loading = 0
  /\ orphans = 0
  /\ instances = 0
  /\ apps = {}
  /\ shown = {}
  /\ destroyTimeouts = 0

-----------------------------------------------------------------------------
(* Updates, each preceded by the wrong variant that mutation testing puts in *)
(* its place.                                                                *)

AppButtonsLeft(buttons) == (buttons \cup {"createInstance"}) \ {"destroyInstance"}
\* handleDestroyInstance(): the buttons afterwards
WithoutInstance(buttons) == {"createInstance"}

-----------------------------------------------------------------------------

\* handleCreateInstance() up to its await
CreateInstance ==
  /\ "createInstance" \in enabled
  /\ instances + loading + orphans < MaxInstances
  /\ loading' = loading + 1
  /\ UNCHANGED <<instance, enabled, orphans, instances, apps, shown, destroyTimeouts>>

\* handleCreateInstance() after its await, and main(): the instance is in the container
\* that was in the page at the click
InstanceReady ==
  /\ \/ /\ loading > 0
        /\ loading' = loading - 1
        /\ shown' = shown \cup {instances + 1}
        /\ UNCHANGED orphans
     \/ /\ orphans > 0
        /\ orphans' = orphans - 1
        /\ UNCHANGED <<loading, shown>>
  /\ instances' = instances + 1
  /\ instance' = instances + 1
  /\ enabled' = (enabled \ {"createInstance"}) \cup {"destroyInstance", "createApp"}
  /\ UNCHANGED <<apps, destroyTimeouts>>

\* handleDestroyInstance(): an application that exists is not deleted, and the container
\* is replaced, whoever still loads into it
DestroyInstance(buttons) ==
  /\ instance' = 0
  /\ loading' = 0
  /\ orphans' = orphans + loading
  /\ shown' = {}
  /\ enabled' = WithoutInstance(buttons)

ClickDestroyInstance ==
  /\ "destroyInstance" \in enabled
  /\ DestroyInstance(enabled)
  /\ UNCHANGED <<instances, apps, destroyTimeouts>>

\* handleCreateApp(), createApp()
CreateApp ==
  /\ "createApp" \in enabled
  /\ apps' = apps \cup {instance}
  /\ enabled' = (enabled \ {"createApp"}) \cup {"destroyApp"}
  /\ UNCHANGED <<instance, loading, orphans, instances, shown, destroyTimeouts>>

WithoutApp(buttons) == (buttons \ {"destroyApp"}) \cup {"createApp"}

\* handleDestroyApp(), destroyApp()
DestroyApp ==
  /\ "destroyApp" \in enabled
  /\ apps' = apps \ {instance}
  /\ enabled' = WithoutApp(enabled)
  /\ UNCHANGED <<instance, loading, orphans, instances, shown, destroyTimeouts>>

\* mouseDoubleClickEvent() of a window in the page, timerDestroyAppAndInstance()
DoubleClick ==
  /\ apps \cap shown # {}
  /\ destroyTimeouts < MaxDoubleClicks
  /\ destroyTimeouts' = destroyTimeouts + 1
  /\ UNCHANGED <<instance, enabled, loading, orphans, instances, apps, shown>>

\* the timeout: without an instance handleDestroyApp() fails, and nothing follows
DestroyTimeout ==
  /\ destroyTimeouts > 0
  /\ destroyTimeouts' = destroyTimeouts - 1
  /\ IF instance = 0
       THEN UNCHANGED <<instance, enabled, loading, orphans, apps, shown>>
       ELSE /\ apps' = apps \ {instance}
            /\ DestroyInstance(WithoutApp(enabled))
  /\ UNCHANGED instances

\* no more instances are created
Done ==
  /\ instances = MaxInstances
  /\ UNCHANGED vars

Next ==
  \/ CreateInstance
  \/ InstanceReady
  \/ ClickDestroyInstance
  \/ CreateApp
  \/ DestroyApp
  \/ DoubleClick
  \/ DestroyTimeout
  \/ Done

Spec == Init /\ [][Next]_vars

-----------------------------------------------------------------------------
(* Properties *)

\* However instances that become ready late, destroying, and double clicks
\* interleave, a button that is enabled can be used: it acts on an instance, and
\* createApp() is never called in one that has an application already.
ButtonsUsable ==
  /\ enabled # {"createInstance"} => instance # 0
  /\ "createApp" \in enabled => instance \notin apps

-----------------------------------------------------------------------------
(* Why: the inductive invariant of the proofs *)

\* instances that exist have been counted
IInv ==
  /\ TypeOK
  /\ instances + loading + orphans <= MaxInstances
  /\ instance <= instances
  /\ \A i \in apps : i <= instances
  /\ ButtonsUsable

=============================================================================
