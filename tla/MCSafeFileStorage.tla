------------------------- MODULE MCSafeFileStorage --------------------------
(***************************************************************************)
(* SafeFileStorage in the app: the service process saves from a callback   *)
(* of tunnel-core and loads in onCreate, the main process loads from the   *)
(* activity and from the list of installed apps.                           *)
(***************************************************************************)
EXTENDS SafeFileStorage

MCProcesses == {"main", "service"}

MCThreads == {"core", "onCreate", "activity", "apps"}

MCProcessOf ==
  [t \in MCThreads |-> IF t \in {"core", "onCreate"} THEN "service" ELSE "main"]

MCSavers == {"core"}
=============================================================================
