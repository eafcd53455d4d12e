---------------------------- MODULE ObjectStorage ----------------------------
(***************************************************************************)
(* createScreenshotStorage over an object store: S3, R2, Vercel Blob, a    *)
(* disk (packages/screenshot-storage/src/core).  Every upload draws a key  *)
(* of its own, so a key is named here by the call that uploads under it.   *)
(*                                                                         *)
(* The object store itself is external: a request to it may be applied,    *)
(* refused, or given up on while it is still under way, and then land      *)
(* later, after the removal that was meant to undo it.                     *)
(***************************************************************************)
EXTENDS FiniteSets

CONSTANT Call   \* the calls of a store; each uploads at most once

VARIABLES
  objects,    \* the keys under which an object exists
  underway,   \* the keys of puts given up on that may still land
  handed,     \* the keys the host's durable job is to remove later
  forsaken    \* the keys whose object a logged failure may have left behind

storageVars == <<objects, underway, handed, forsaken>>

StorageTypeOK ==
  /\ objects \subseteq Call
  /\ underway \subseteq Call
  /\ handed \subseteq Call
  /\ forsaken \subseteq Call

StorageInit(kept) ==
  /\ objects = kept
  /\ underway = {}
  /\ handed = {}
  /\ forsaken = {}

\* put succeeds.
Put(key) ==
  /\ objects' = objects \cup {key}
  /\ UNCHANGED <<underway, handed, forsaken>>

\* put throws without a verdict on the upload: a timeout, a lost connection.
PutUncertain(key) ==
  /\ underway' = underway \cup {key}
  /\ UNCHANGED <<objects, handed, forsaken>>

\* A put given up on lands after all, or never will.
Land(key) ==
  /\ key \in underway
  /\ objects' \in {objects, objects \cup {key}}
  /\ underway' = underway \ {key}
  /\ UNCHANGED <<handed, forsaken>>

\* reclaim: the key is removed right away and handed to the host's
\* onUncertainUpload.  A removal that fails is logged, one that precedes the
\* landing undoes nothing; without a hook, or if the hook fails too, nobody is
\* left to remove the object.
Reclaim(key) ==
  /\ objects' \in {objects, objects \ {key}}
  /\ \/ /\ handed' = handed \cup {key}
        /\ UNCHANGED forsaken
     \/ /\ forsaken' = forsaken \cup {key}
        /\ UNCHANGED handed
  /\ UNCHANGED underway

\* The host's job removes the key once the put can no longer land.
RemoveHanded(key) ==
  /\ key \in handed
  /\ key \notin underway
  /\ objects' = objects \ {key}
  /\ handed' = handed \ {key}
  /\ UNCHANGED <<underway, forsaken>>

\* delete: the object goes.
Remove(key) ==
  /\ objects' = objects \ {key}
  /\ UNCHANGED <<underway, handed, forsaken>>

\* delete fails, perhaps after it was applied.
RemoveFails(key) ==
  /\ objects' \in {objects, objects \ {key}}
  /\ forsaken' = forsaken \cup {key}
  /\ UNCHANGED <<underway, handed>>

\* Nobody is going to remove the objects under these keys.
Forsake(keys) ==
  /\ forsaken' = forsaken \cup keys
  /\ UNCHANGED <<objects, underway, handed>>
=============================================================================
