----------------------------- MODULE StoredObjects -----------------------------
(***************************************************************************)
(* Files in the object store and the rows that refer to them.  The store   *)
(* is not transactional: a request writes and deletes objects at once,     *)
(* while its rows show only after its commit, which may fail.  storage_tx  *)
(* ties the two together with hooks that run when the transaction ends.    *)
(* A parent is an expense or a purchase order; both services attach and    *)
(* delete documents in the same way.  The owner's logo is the one object   *)
(* that is replaced.                                                       *)
(*                                                                         *)
(* A hook whose event did not come stays on the session.  It is left out:  *)
(* it finds the list of keys emptied by its counterpart and does nothing.  *)
(***************************************************************************)
EXTENDS FiniteSets, Naturals

CONSTANTS
    Workers,       \* requests, one transaction each
    Parents,       \* expenses and purchase orders
    Documents,     \* documents; each has an object under a fresh random key
    Logos,         \* logo objects, likewise
    None,          \* no parent, no object
    MaxFailures    \* bound: transactions that fail or die

ASSUME NoneAssumption == None \notin Parents \cup Documents \cup Logos
ASSUME KeysAssumption == Documents \cap Logos = {}
ASSUME FailuresAssumption == MaxFailures \in Nat

VARIABLES
    stored,        \* the keys in the object store
    used,          \* keys ever written
    live,          \* committed parents
    owner,         \* per document, the parent its committed row refers to
    logo,          \* committed logo_storage_key of the owner profile
    job,           \* per worker, its request
    blamed,        \* keys whose request died, or whose delete the store refused
    torn,          \* documents whose delete failed after it removed the object
    failures

storeVars == <<stored, used, live, owner, logo, job, blamed, torn, failures>>

Idle == [task |-> "none", stage |-> "idle", parent |-> None, keys |-> {}, old |-> None]

Stages == {"idle", "stored", "loaded", "flushed", "purged"}

Job == [task: {"none", "attach", "detach", "remove", "logo"}, stage: Stages,
        parent: Parents \cup {None}, keys: SUBSET (Documents \cup Logos),
        old: Logos \cup {None}]

StoreInit ==
    /\ stored = {} /\ used = {}
    /\ live = Parents
    /\ owner = [d \in Documents |-> None]
    /\ logo = None
    /\ job = [w \in Workers |-> Idle]
    /\ blamed = {} /\ torn = {}
    /\ failures = 0

------------------------------------------------------------------------------
Doing(task, stage) == {w \in Workers : job[w].task = task /\ job[w].stage = stage}

Changing(w, task) == job[w].task = task /\ job[w].stage \in {"flushed", "purged"}

\* Row locks, as the flushed statements of open transactions imply them: the
\* delete of a parent holds its row, an insert of a document shares the row of
\* its parent, and a delete of a document holds the document's.
ParentHeld(p) == \E w \in Workers : Changing(w, "remove") /\ job[w].parent = p

ParentShared(p) == \E w \in Workers : Changing(w, "attach") /\ job[w].parent = p

DocumentHeld(d) == \E w \in Workers : Changing(w, "detach") /\ d \in job[w].keys

Go(w, record) == job' = [job EXCEPT ![w] = record]

\* The upload endpoint: the parent exists, the file is valid, and the object is
\* written before any row refers to it.
Upload(w, p, d) ==
    /\ job[w] = Idle
    /\ p \in live
    /\ d \notin used
    /\ used' = used \cup {d}
    /\ stored' = stored \cup {d}
    /\ Go(w, [task |-> "attach", stage |-> "stored", parent |-> p, keys |-> {d},
              old |-> None])
    /\ UNCHANGED <<live, owner, logo, blamed, torn, failures>>

\* attach_document: the delete-on-rollback hook, then the row, whose foreign
\* key waits for a delete of the parent and fails if the parent went.
Attach(w) ==
    /\ w \in Doing("attach", "stored")
    /\ job[w].parent \in live
    /\ ~ParentHeld(job[w].parent)
    /\ Go(w, [job[w] EXCEPT !.stage = "flushed"])
    /\ UNCHANGED <<stored, used, live, owner, logo, blamed, torn, failures>>

\* delete_document: the row, then (see Purge) the object.
Detach(w, d) ==
    /\ job[w] = Idle
    /\ owner[d] # None
    /\ ~DocumentHeld(d)
    /\ ~ParentHeld(owner[d])
    /\ Go(w, [task |-> "detach", stage |-> "flushed", parent |-> owner[d],
              keys |-> {d}, old |-> None])
    /\ UNCHANGED <<stored, used, live, owner, logo, blamed, torn, failures>>

RemoveParentSlip(w, p) ==
    /\ job[w] = Idle
    /\ p \in live
    /\ ~ParentHeld(p)
    /\ Go(w, [task |-> "remove", stage |-> "flushed", parent |-> p,
              keys |-> {d \in Documents : owner[d] = p}, old |-> None])
    /\ UNCHANGED <<stored, used, live, owner, logo, blamed, torn, failures>>

\* delete() of an expense or a purchase order, whose documents cascade: it
\* waits for whoever is attaching to the parent or deleting a document of it,
\* and lists the keys under the lock.
RemoveParent(w, p) ==
    /\ job[w] = Idle
    /\ p \in live
    /\ ~ParentHeld(p)
    /\ ~ParentShared(p)
    /\ \A d \in Documents : owner[d] = p => ~DocumentHeld(d)
    /\ Go(w, [task |-> "remove", stage |-> "flushed", parent |-> p,
              keys |-> {d \in Documents : owner[d] = p}, old |-> None])
    /\ UNCHANGED <<stored, used, live, owner, logo, blamed, torn, failures>>

\* Both deletes then delete the objects, before the commit and best effort:
\* the store may refuse any of them.
Purge(w) ==
    /\ w \in Doing("detach", "flushed") \cup Doing("remove", "flushed")
    /\ \E refused \in SUBSET job[w].keys :
          /\ stored' = stored \ (job[w].keys \ refused)
          /\ blamed' = blamed \cup refused
    /\ Go(w, [job[w] EXCEPT !.stage = "purged"])
    /\ UNCHANGED <<used, live, owner, logo, torn, failures>>

------------------------------------------------------------------------------
\* upload_logo writes the new object and loads the profile ...
UploadLogo(w, k) ==
    /\ job[w] = Idle
    /\ k \notin used
    /\ used' = used \cup {k}
    /\ stored' = stored \cup {k}
    /\ Go(w, [task |-> "logo", stage |-> "loaded", parent |-> None, keys |-> {k},
              old |-> logo])
    /\ UNCHANGED <<live, owner, logo, blamed, torn, failures>>

\* ... remove_logo only loads it ...
RemoveLogo(w) ==
    /\ job[w] = Idle
    /\ logo # None
    /\ Go(w, [task |-> "logo", stage |-> "loaded", parent |-> None, keys |-> {},
              old |-> logo])
    /\ UNCHANGED <<stored, used, live, owner, logo, blamed, torn, failures>>

\* ... and either then updates the one profile row, which waits for another
\* update of it, and leaves the object it replaces to a hook on commit.
FlushLogo(w) ==
    /\ w \in Doing("logo", "loaded")
    /\ ~ \E v \in Workers : Changing(v, "logo")
    /\ Go(w, [job[w] EXCEPT !.stage = "flushed"])
    /\ UNCHANGED <<stored, used, live, owner, logo, blamed, torn, failures>>

------------------------------------------------------------------------------
Finish(w) == job' = [job EXCEPT ![w] = Idle]

CommitAttachSlip(w) ==
    /\ w \in Doing("attach", "flushed")
    /\ owner' = [d \in Documents |-> IF d \in job[w].keys THEN job[w].parent ELSE owner[d]]
    /\ stored' = stored \ job[w].keys
    /\ UNCHANGED <<live, logo>>

\* The row shows, and the hook that would have removed its object is dropped.
CommitAttach(w) ==
    /\ w \in Doing("attach", "flushed")
    /\ owner' = [d \in Documents |-> IF d \in job[w].keys THEN job[w].parent ELSE owner[d]]
    /\ UNCHANGED <<stored, live, logo>>

CommitDelete(w) ==
    /\ w \in Doing("detach", "purged") \cup Doing("remove", "purged")
    /\ owner' = [d \in Documents |->
                   IF \/ d \in job[w].keys
                      \/ job[w].task = "remove" /\ owner[d] = job[w].parent
                   THEN None ELSE owner[d]]
    /\ live' = IF job[w].task = "remove" THEN live \ {job[w].parent} ELSE live
    /\ UNCHANGED <<stored, logo>>

CommitLogo(w) ==
    /\ w \in Doing("logo", "flushed")
    /\ logo' = IF job[w].keys = {} THEN None ELSE CHOOSE k \in job[w].keys : TRUE
    /\ stored' = stored \ {job[w].old}
    /\ UNCHANGED <<live, owner>>

Commit(w) ==
    /\ CommitAttach(w) \/ CommitDelete(w) \/ CommitLogo(w)
    /\ Finish(w)
    /\ UNCHANGED <<used, blamed, torn, failures>>

Fault ==
    /\ failures < MaxFailures
    /\ failures' = failures + 1

\* Documents whose object a delete has taken away when it ends without effect.
TornBy(w) == IF job[w].stage = "purged" THEN {d \in job[w].keys : d \notin stored} ELSE {}

\* The request raises, or its commit fails, and get_db rolls back: a document
\* being attached loses its object again (the hook on rollback), an object a
\* delete has taken does not come back, and nothing deletes a new logo.
RollBack(w) ==
    /\ job[w] # Idle
    /\ Fault
    /\ stored' = IF job[w].task = "attach" THEN stored \ job[w].keys ELSE stored
    /\ torn' = torn \cup TornBy(w)
    /\ Finish(w)
    /\ UNCHANGED <<used, live, owner, logo, blamed>>

\* The process dies: no hook runs.
Die(w) ==
    /\ job[w] # Idle
    /\ Fault
    /\ torn' = torn \cup TornBy(w)
    /\ blamed' = blamed \cup job[w].keys
    /\ Finish(w)
    /\ UNCHANGED <<stored, used, live, owner, logo>>

\* A document whose parent went can only fail.
Refuse(w) ==
    /\ w \in Doing("attach", "stored")
    /\ job[w].parent \notin live
    /\ stored' = stored \ job[w].keys
    /\ Finish(w)
    /\ UNCHANGED <<used, live, owner, logo, blamed, torn, failures>>

StoreNext ==
    \/ \E w \in Workers :
          \/ \E p \in Parents :
                \/ \E d \in Documents : Upload(w, p, d)
                \/ RemoveParent(w, p)
          \/ \E d \in Documents : Detach(w, d)
          \/ \E k \in Logos : UploadLogo(w, k)
          \/ RemoveLogo(w)
          \/ Attach(w) \/ Purge(w) \/ FlushLogo(w)
          \/ Commit(w) \/ RollBack(w) \/ Die(w) \/ Refuse(w)

StoreSpec == StoreInit /\ [][StoreNext]_storeVars

------------------------------------------------------------------------------
StoreTypeOK ==
    /\ stored \subseteq used
    /\ used \subseteq Documents \cup Logos
    /\ live \subseteq Parents
    /\ owner \in [Documents -> Parents \cup {None}]
    /\ logo \in Logos \cup {None}
    /\ job \in [Workers -> Job]
    /\ blamed \subseteq Documents \cup Logos
    /\ torn \subseteq Documents
    /\ failures \in 0 .. MaxFailures

InUse(d) == \E w \in Workers : d \in job[w].keys

\* No orphans: an object of a document has a committed row, or belongs to a
\* request still at work, unless a process died over it or the store itself
\* refused to delete it.  In particular no document slips into a parent while
\* the parent's delete is listing what to purge.
NoOrphans ==
    \A d \in Documents : d \in stored /\ owner[d] = None => InUse(d) \/ d \in blamed

\* No broken downloads: a committed row has its parent and its object, except
\* while a delete of it is about to commit, and after one that did not; and the
\* profile's logo can always be served, however uploads and removals race and
\* fail, because a replaced one goes only when its replacement is durable.
RowsHaveObjects ==
    /\ \A d \in Documents : owner[d] # None =>
          /\ owner[d] \in live
          /\ d \in stored \/ InUse(d) \/ d \in torn
    /\ logo # None => logo \in stored
===============================================================================
