----------------------------- MODULE BackupStore -----------------------------
(***************************************************************************)
(* What ProtonSource promises to the rest of the add-on (the destination   *)
(* of model/model.py): a store of whole backups.  A backup whose save() has *)
(* returned stays whole until it is deleted or saved again, and get() tells *)
(* the Model of no backup that was not whole at one moment of that get().  *)
(* ProtonFolder, where a backup is two files behind a command line tool,   *)
(* implements it while no other task lists the folder.                     *)
(***************************************************************************)
CONSTANT Slugs

VARIABLES
  whole,      \* backups of which the store has everything
  promised,   \* those whose last save() has returned
  seen,       \* what a get() in progress has seen
  view        \* what the Model was told

vars == <<whole, promised, seen, view>>

TypeOK == {whole, promised, seen, view} \subseteq SUBSET Slugs

Init == whole \in SUBSET Slugs /\ promised = {} /\ seen = {} /\ view = {}

\* A backup becomes whole or, unless it is promised, is lost.
Appear(s) == whole' = whole \union {s} /\ UNCHANGED <<promised, seen, view>>
Vanish(s) == s \notin promised /\ whole' = whole \ {s} /\ UNCHANGED <<promised, seen, view>>

\* save() and delete() begin, and withdraw the promise.
Withdraw(s) == promised' = promised \ {s} /\ UNCHANGED <<whole, seen, view>>

\* They return.
Saved(s) ==
  /\ s \in whole
  /\ promised' = promised \union {s} /\ view' = view \union {s}
  /\ UNCHANGED <<whole, seen>>

Deleted(s) == view' = view \ {s} /\ UNCHANGED <<whole, promised, seen>>

\* get() looks once at the whole store, and returns or fails.
Look == seen' = whole /\ UNCHANGED <<whole, promised, view>>
Learn == view' \subseteq seen /\ seen' = {} /\ UNCHANGED <<whole, promised>>
GiveUp == seen' = {} /\ UNCHANGED <<whole, promised, view>>

\* The add-on restarts: its memory is lost, the promises are not.
Restart == view' = {} /\ seen' = {} /\ UNCHANGED <<whole, promised>>

Next ==
  \/ \E s \in Slugs : Appear(s) \/ Vanish(s) \/ Withdraw(s) \/ Saved(s) \/ Deleted(s)
  \/ Look \/ Learn \/ GiveUp \/ Restart

Spec == Init /\ [][Next]_vars
=============================================================================
