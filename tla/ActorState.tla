----------------------------- MODULE ActorState -----------------------------
(***************************************************************************)
(* The state an actor keeps over its restarts: SteadyState and StateGuard  *)
(* (state_management.rs).  The value outlives the actor's panics in        *)
(* memory, and the process in the store, which is a file                   *)
(* (new_persistent_state), the application's own (the hooks of             *)
(* new_persistent_state_with) or nothing (new_state).                      *)
(*                                                                         *)
(* A value is the set of requests that have been applied to it.  A hook    *)
(* saves all or nothing; a file is truncated and then written, and what is *)
(* found between the two cannot be read.                                   *)
(*                                                                         *)
(* The actions are the calls of an actor; LambdaService joins them to one. *)
(***************************************************************************)
EXTENDS Naturals

CONSTANTS Kinds,       \* of state: "memory", "hooks" and "file"
          None, Torn   \* what a store may be instead of a value

VARIABLES
  kind,
  value,   \* the Option in the mutex
  store,   \* what the next process will find
  guard,   \* "free", or held by the actor: "clean" or "dirty"
  lapsed   \* for the properties: the value was not in the store when a guard
           \* was last dropped, and no save has succeeded since

stateVars == <<kind, value, store, guard, lapsed>>

StateInit ==
  /\ kind \in Kinds
  /\ value = None /\ store = None /\ guard = "free" /\ lapsed = FALSE

(* Mutant: a file is taken for a value whatever is in it. *)
LoadUnchecked ==
  /\ value' = IF kind = "memory" THEN None ELSE store
  /\ guard' = "free" /\ lapsed' = FALSE
  /\ UNCHANGED <<kind, store>>

(* A new process reads the store; what it cannot read is as good as nothing. *)
Load ==
  /\ value' = IF kind = "memory" \/ store = Torn THEN None ELSE store
  /\ guard' = "free" /\ lapsed' = FALSE
  /\ UNCHANGED <<kind, store>>

(* lock runs init only when there is no value, and its guard starts clean.   *)
Lock ==
  /\ guard = "free"
  /\ value' = IF value = None THEN {} ELSE value
  /\ guard' = "clean"
  /\ UNCHANGED <<kind, store, lapsed>>

(* DerefMut *)
Change(request) ==
  /\ value' = value \cup {request}
  /\ guard' = IF kind = "memory" THEN guard ELSE "dirty"
  /\ UNCHANGED <<kind, store, lapsed>>

Saved ==
  /\ store' = value /\ guard' = "clean" /\ lapsed' = FALSE
  /\ UNCHANGED <<kind, value>>

(* A hook that fails leaves the guard dirty. *)
NotSaved(found) ==
  /\ store' = found
  /\ UNCHANGED <<kind, value, guard, lapsed>>

PersistInMemory ==
  /\ kind = "memory"
  /\ guard' = "clean"
  /\ UNCHANGED <<kind, value, store, lapsed>>

(* Mutant: the hook's error is swallowed. *)
PersistByHookUnchecked == kind = "hooks" /\ (Saved \/ NotSaved(store))

PersistByHook == kind = "hooks" /\ Saved

(* write_file *)
CreateFile == kind = "file" /\ NotSaved(Torn)
WriteFile == kind = "file" /\ Saved

(* Drop of a guard, the actor's own or one of try_lock_sync: only a file is  *)
(* saved, and the errors of that are ignored.                                *)
DropGuard ==
  /\ guard' = "free"
  /\ store' \in IF kind = "file" THEN {value, Torn, store} ELSE {store}
  /\ lapsed' = (kind # "memory" /\ store' # value)
  /\ UNCHANGED <<kind, value>>

(* try_lock_sync: another thread looks at the value between two guards. *)
Inspect == guard = "free" /\ value # None /\ DropGuard

(* Mutant: the wake point does not look. *)
NeverDirtyAtPark == FALSE

(* check_dirty_at_park panics, in the strict mode of for_lambda. *)
DirtyAtPark == guard = "dirty"
=============================================================================
