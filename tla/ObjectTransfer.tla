--------------------------- MODULE ObjectTransfer ---------------------------
(***************************************************************************)
(* The remote copies of one Run: object_storage.persist_object,            *)
(* bind_object and cleanup_orphans, and the flows that call them           *)
(* (orchestrator._upload_media, publication.publish_result and             *)
(* publication.publish_terminal_snapshot).  A row of object_transfers is   *)
(* the intent to store one item under a key of its own, so a key is the    *)
(* position of its row.  The object store answers late, wrongly or not at  *)
(* all, and the process may die between any two steps.                     *)
(***************************************************************************)
EXTENDS Naturals, Sequences

CONSTANTS
    Manifests,     \* contents a result manifest may have, one per attempt
    Snapshots,     \* contents of a terminal snapshot
    MaxTransfers,  \* bound: rows of object_transfers
    MaxFaults,     \* bound: crashes and errors of the store
    Faulty         \* which of them an instance explores (see FaultClasses)

FaultClasses == {"crash", "head", "put", "cancel", "cleanup"}

ASSUME TransferAssumption ==
    /\ MaxTransfers \in Nat /\ MaxFaults \in Nat
    /\ Faulty \subseteq FaultClasses
    /\ "media" \notin Manifests \cup Snapshots /\ "srt" \notin Manifests \cup Snapshots
    /\ "none" \notin Manifests \cup Snapshots /\ Manifests \cap Snapshots = {}

\* An item is the pair (purpose, content_hash) persist_object looks rows up by.
Items == {"media", "srt"} \cup Manifests \cup Snapshots

VARIABLES
    xfer,     \* object_transfers: a sequence of [item, state]
    store,    \* the keys under which the bucket holds an object
    refs,     \* the keys a media_object artifact or a committed result names
    active,   \* the Run is queued, running or waiting for review
    pc,       \* the next step of the process that holds the Run lock
    item,     \* what that process is storing
    cur,      \* the row it is working on
    held,     \* the keys it has persisted so far in this flow
    faults    \* crashes and errors so far

durable == <<xfer, store, refs>>
vars == <<durable, active, pc, item, cur, held, faults>>

Init ==
    /\ xfer = <<>> /\ store = {} /\ refs = {}
    /\ active = TRUE /\ pc = "idle" /\ item = "none" /\ cur = 0 /\ held = {}
    /\ faults = 0

Fault(class) == class \in Faulty /\ faults < MaxFaults /\ faults' = faults + 1

\* The process lets go of the Run, which is then parked for review or at its end.
Leave(parked) ==
    /\ pc' = "idle" /\ item' = "none" /\ cur' = 0 /\ held' = {} /\ active' = parked

\* Mutant: a state the schema's CHECK does not know.
SetStateUnchecked(t, s) ==
    xfer' = [xfer EXCEPT ![t].state = IF s = "persisted" THEN "uploaded" ELSE s]

SetState(t, s) == xfer' = [xfer EXCEPT ![t].state = s]

-----------------------------------------------------------------------------
(* The writer.                                                             *)

Named(i) == \E t \in refs : xfer[t].item = i

\* A writer reaches _upload_media (while there is no media_object), publish_result (until
\* the round has its result) or publish_terminal_snapshot (unless this one is bound).
Start(first) ==
    /\ pc = "idle"
    /\ first = "media" => ~Named("media")
    /\ first = "srt" => Named("media") /\ ~Named("srt")
    /\ first \in Snapshots => \A t \in DOMAIN xfer : xfer[t] # [item |-> first, state |-> "bound"]
    /\ item' = first /\ pc' = "lookup" /\ active' = TRUE
    /\ UNCHANGED <<durable, cur, held, faults>>

\* Mutant: only finished rows count as earlier attempts.
RowsOfFinished == {t \in DOMAIN xfer : xfer[t].item = item
                                       /\ xfer[t].state \in {"persisted", "bound"}}

\* persist_object: the rows of this purpose and content that were not removed.
Rows    == {t \in DOMAIN xfer : xfer[t].item = item /\ xfer[t].state # "removed"}
Newest  == CHOOSE t \in Rows : \A u \in Rows : u <= t

\* Where a flow goes once the item is persisted.
Advance ==
    \/ item = "media" /\ pc' = "bind" /\ UNCHANGED item
    \/ item = "srt" /\ pc' = "lookup" /\ item' \in Manifests
    \/ item \in Manifests /\ pc' = "commit" /\ UNCHANGED item
    \/ item \in Snapshots /\ pc' = "bind" /\ UNCHANGED item

\* The intent is durable before anything is sent; a finished row is trusted as it is.
Lookup ==
    /\ pc = "lookup"
    /\ \/ /\ Rows = {} /\ Len(xfer) < MaxTransfers
          /\ xfer' = Append(xfer, [item |-> item, state |-> "pending"])
          /\ cur' = Len(xfer) + 1 /\ pc' = "head"
          /\ UNCHANGED <<item, held>>
       \/ /\ Rows # {}
          /\ cur' = Newest
          /\ IF xfer[Newest].state = "pending"
             THEN pc' = "head" /\ UNCHANGED <<item, held>>
             ELSE held' = held \cup {Newest} /\ Advance
          /\ UNCHANGED xfer
    /\ UNCHANGED <<store, refs, active, faults>>

\* Only a definite 404 permits a PUT; any other error ends the flow.
HeadObject ==
    /\ pc = "head"
    /\ \/ Fault("head") /\ Leave(FALSE)
       \/ /\ pc' = IF cur \in store THEN "mark" ELSE "put"
          /\ UNCHANGED <<active, item, cur, held, faults>>
    /\ UNCHANGED durable

\* PUT with forbid_overwrite.  A failed one may have stored the object all the same.
PutObject ==
    /\ pc = "put"
    /\ \/ /\ cur \notin store /\ store' = store \cup {cur}
          /\ pc' = "mark" /\ UNCHANGED <<active, item, cur, held, faults>>
       \/ /\ Fault("put") /\ Leave(FALSE)
          /\ store' \in {store, store \cup {cur}}
    /\ UNCHANGED <<xfer, refs>>

MarkPersisted ==
    /\ pc = "mark"
    /\ SetState(cur, "persisted")
    /\ held' = held \cup {cur} /\ Advance
    /\ UNCHANGED <<store, refs, active, cur, faults>>

\* bind_object on its own: the media before its artifact, a snapshot at the very end.
BindObject ==
    /\ pc = "bind"
    /\ SetState(cur, "bound")
    /\ IF item = "media"
       THEN pc' = "reference" /\ UNCHANGED <<active, item, cur, held>>
       ELSE \E parked \in BOOLEAN : Leave(parked)
    /\ UNCHANGED <<store, refs, faults>>

\* The media_object artifact commits; the Run goes on, and may come to rest any time.
PublishMediaObject ==
    /\ pc = "reference"
    /\ refs' = refs \cup {cur}
    /\ \E parked \in BOOLEAN : Leave(parked)
    /\ UNCHANGED <<xfer, store, faults>>

\* Mutant: only the manifest is bound to the result.
CommitBinds == {cur}

\* publish_result: the objects bound together with the result that names them.
BoundByCommit == held

CommitResult ==
    /\ pc = "commit"
    /\ xfer' = [t \in DOMAIN xfer |-> IF t \in BoundByCommit
                                      THEN [xfer[t] EXCEPT !.state = "bound"]
                                      ELSE xfer[t]]
    /\ refs' = refs \cup held
    /\ Leave(FALSE)
    /\ UNCHANGED <<store, faults>>

\* A cancellation noticed between two objects, or by the committing transaction.
Cancelled ==
    /\ pc \in {"lookup", "commit"} /\ item \in Manifests
    /\ Fault("cancel") /\ Leave(FALSE)
    /\ UNCHANGED durable

\* The writer dies; the next entry finds the Run interrupted.
Crash ==
    /\ pc \in {"lookup", "head", "put", "mark", "bind", "reference", "commit"}
    /\ Fault("crash") /\ Leave(FALSE)
    /\ UNCHANGED durable

-----------------------------------------------------------------------------
(* cleanup_orphans, under the same lock, on rows an operator names.        *)

StartCleanup ==
    /\ pc = "idle" /\ ~active
    /\ pc' = "clean"
    /\ UNCHANGED <<durable, active, item, cur, held, faults>>

\* Mutant: only what results and artifacts name is protected.
ProtectedByRefs(t) == t \in refs

Protected(t) == xfer[t].state = "bound" \/ t \in refs

Clean(t) ==
    /\ pc = "clean"
    /\ ~Protected(t) /\ xfer[t].state # "removed"
    /\ cur' = t /\ pc' = "cleanHead"
    /\ UNCHANGED <<durable, active, item, held, faults>>

\* Mutant: a HEAD that failed is taken for "not found".
CleanHeadMarks ==
    /\ pc = "cleanHead"
    /\ \/ Fault("head") /\ pc' = "cleanMark"
       \/ /\ pc' = IF cur \in store THEN "cleanDelete" ELSE "cleanMark"
          /\ UNCHANGED faults
    /\ UNCHANGED <<durable, active, item, cur, held>>

CleanHead ==
    /\ pc = "cleanHead"
    /\ \/ Fault("head") /\ Leave(FALSE)
       \/ /\ pc' = IF cur \in store THEN "cleanDelete" ELSE "cleanMark"
          /\ UNCHANGED <<active, item, cur, held, faults>>
    /\ UNCHANGED durable

CleanDelete ==
    /\ pc = "cleanDelete"
    /\ store' = store \ {cur}
    /\ pc' = "cleanMark"
    /\ UNCHANGED <<xfer, refs, active, item, cur, held, faults>>

CleanMark ==
    /\ pc = "cleanMark"
    /\ SetState(cur, "removed")
    /\ pc' = "clean"
    /\ UNCHANGED <<store, refs, active, item, cur, held, faults>>

CleanDone ==
    /\ pc = "clean" /\ Leave(FALSE)
    /\ UNCHANGED <<durable, faults>>

\* The process dies in the middle of a row, or the answer to its DELETE is lost; once the
\* object is gone and the row is not closed, that is a class of its own.
CleanStops ==
    /\ pc \in {"cleanHead", "cleanDelete", "cleanMark"}
    /\ Fault(IF pc = "cleanMark" THEN "cleanup" ELSE "crash") /\ Leave(FALSE)
    /\ UNCHANGED durable

Next ==
    \/ \E first \in {"media", "srt"} \cup Snapshots : Start(first)
    \/ Lookup \/ HeadObject \/ PutObject \/ MarkPersisted
    \/ BindObject \/ PublishMediaObject \/ CommitResult
    \/ Cancelled \/ Crash
    \/ StartCleanup \/ CleanHead \/ CleanDelete \/ CleanMark \/ CleanDone \/ CleanStops
    \/ \E t \in DOMAIN xfer : Clean(t)

Spec == Init /\ [][Next]_vars

-----------------------------------------------------------------------------
(* Properties.                                                             *)

States == {"pending", "persisted", "bound", "removed"}
Labels == {"idle", "lookup", "head", "put", "mark", "bind", "reference", "commit",
           "clean", "cleanHead", "cleanDelete", "cleanMark"}

\* The rows, the bucket and the flow in progress are well formed, and a flow that is
\* past its lookup works on an existing row.
TypeOK ==
    /\ xfer \in Seq([item : Items, state : States])
    /\ store \subseteq DOMAIN xfer /\ refs \subseteq DOMAIN xfer
    /\ held \subseteq DOMAIN xfer
    /\ active \in BOOLEAN
    /\ pc \in Labels
    /\ item \in Items \cup {"none"}
    /\ cur \in 0..Len(xfer)
    /\ faults \in 0..MaxFaults

\* One live row per purpose and content: however often a flow is interrupted, the same
\* bytes are never stored under a second key while the first can still be found.
OneObjectPerIntent ==
    \A t, u \in DOMAIN xfer :
        /\ xfer[t].item = xfer[u].item
        /\ xfer[t].state # "removed" /\ xfer[u].state # "removed"
        => t = u

\* Every object in the bucket can be found through a row that is not closed, so that
\* cleanup_orphans can reach it: nothing leaks.
NothingLeaks == \A t \in store : xfer[t].state # "removed"

\* cleanup_orphans never deletes an object that a row binds, or that an artifact or a
\* result names.
ProtectedNeverDeleted ==
    [][\A t \in store : (xfer[t].state = "bound" \/ t \in refs) => t \in store']_vars

\* Whatever an artifact or a result names is bound, and what is bound exists: a later
\* stage can sign a URL for it and the owner of the result can download it.
BoundExists ==
    /\ \A t \in refs : xfer[t].state = "bound"
    /\ \A t \in DOMAIN xfer : xfer[t].state = "bound" => t \in store

=============================================================================
