------------------------------ MODULE Catalogue ------------------------------
(***************************************************************************)
(* Administration of the catalogue (backend/products,                      *)
(* backend/image_uploads): products are created with their categories and  *)
(* renamed, image uploads are prepared, while the details of a product are *)
(* read (backend/cache/cache_prod_details).                                *)
(*                                                                         *)
(* Each SQL statement and each Redis command that may meet another request *)
(* is a step.  What never changes once it is committed (the existence of a *)
(* product, its owner, the categories) is read with the step before it.    *)
(* A request that is refused by such a read leaves no trace: it is a guard *)
(* of the step that begins the request.                                    *)
(***************************************************************************)
EXTENDS Integers, FiniteSets, Sequences

CONSTANTS Requests,    \* connections, each serving one request after another
          Users,
          Can,         \* the permissions of a user's roles
          Products,    \* the ids that products may get
          Names,       \* the names that products may get
          Same,        \* an update that leaves the name alone
          Categories,  \* the rows of productcategory
          CategoryAsk, \* the sets of categories a new product may name
          Batches,     \* image batches: TRUE is a file that is valid
          MaxImages,   \* bound on the image rows
          Viewed,      \* the products whose details are asked for
          NoOne

ASSUME CatalogueAssumption ==
    /\ Can \in [Users -> SUBSET {"product:create", "product:update"}]
    /\ Same \notin Names
    /\ Batches \subseteq Seq(BOOLEAN)
    /\ MaxImages \in Nat
    /\ Viewed \subseteq Products
    /\ NoOne \notin Requests

VARIABLES
    row,     \* the committed products: name and owner
    links,   \* productcategorylink: <<product, category>>
    images,  \* productimage: id, product, whether storage_key is set
    lock,    \* of a product: whose token product:<id>:lock holds
    pc,      \* where the request of a connection is
    job,     \* what it asks for
    made,    \* the images that its open transaction has inserted
    shown    \* the categories it has read for the details

database == <<row, links, images>>
vars == <<database, lock, pc, job, made, shown>>

ImageIds == 1 .. MaxImages
NoJob == [kind |-> "none"]
Create(u, p, n, cs) == [kind |-> "create", user |-> u, p |-> p, name |-> n, cats |-> cs]
Update(u, p, n) == [kind |-> "update", user |-> u, p |-> p, name |-> n]
Images(u, p, b) == [kind |-> "images", user |-> u, p |-> p, todo |-> b]
Details(p, m) == [kind |-> "details", p |-> p, mine |-> m]

\* What may be left of a batch.
Remainders == UNION {{SubSeq(b, i, Len(b)) : i \in 1 .. Len(b) + 1} : b \in Batches}

Jobs ==
    LET Writes(u, p) ==
            {Create(u, p, n, cs) : n \in Names, cs \in CategoryAsk}
            \cup {Update(u, p, n) : n \in Names \cup {Same}}
            \cup {Images(u, p, b) : b \in Remainders}
    IN {NoJob} \cup (UNION {Writes(u, p) : u \in Users, p \in Products})
               \cup {Details(p, m) : p \in Viewed, m \in BOOLEAN}

ImageRow == [id : ImageIds, of : Products, keyed : BOOLEAN]

TypeOK ==
    /\ DOMAIN row \subseteq Products
    /\ \A p \in DOMAIN row : row[p] \in [name : Names, owner : Users]
    /\ links \subseteq (DOMAIN row) \X Categories
    /\ images \subseteq ImageRow
    /\ lock \in [Viewed -> Requests \cup {NoOne}]
    /\ pc \in [Requests -> {"idle", "insert", "link", "row", "name", "intent", "key",
                            "commit", "lock", "product", "categories", "poll"}]
    /\ job \in [Requests -> Jobs]
    /\ made \in [Requests -> SUBSET ImageRow]
    /\ shown \in [Requests -> SUBSET Categories]
    /\ \A r \in Requests : pc[r] = "idle" => job[r] = NoJob /\ made[r] = {}

Init ==
    /\ row = [p \in {} |-> {}]
    /\ links = {}
    /\ images = {}
    /\ lock = [p \in Viewed |-> NoOne]
    /\ pc = [r \in Requests |-> "idle"]
    /\ job = [r \in Requests |-> NoJob]
    /\ made = [r \in Requests |-> {}]
    /\ shown = [r \in Requests |-> {}]

Goto(r, l) == pc' = [pc EXCEPT ![r] = l]

Begin(r, l, j) ==
    /\ pc[r] = "idle"
    /\ Goto(r, l)
    /\ job' = [job EXCEPT ![r] = j]
    /\ UNCHANGED <<database, lock, made, shown>>

\* The request is answered, and what its transaction did not commit is gone.
End(r) ==
    /\ Goto(r, "idle")
    /\ job' = [job EXCEPT ![r] = NoJob]
    /\ made' = [made EXCEPT ![r] = {}]
    /\ shown' = [shown EXCEPT ![r] = {}]

Fail(r) == End(r) /\ UNCHANGED <<database, lock>>

-----------------------------------------------------------------------------
(* What PostgreSQL makes a transaction wait for.                           *)

\* The UPDATE of a product gives it another name.
Renames(r) ==
    /\ job[r].kind = "update"
    /\ job[r].name \notin {Same, row[job[r].p].name}

\* The open transaction has written the product's row.
HasRow(r, p) ==
    job[r].kind = "update" /\ job[r].p = p /\ pc[r] \in {"name", "commit"}

\* Its image rows keep the key of the product's row.
HasKey(r, p) == \E i \in made[r] : i.of = p

\* The names whose index entries it has added, or has taken out of use.
NamesOf(r) ==
    (IF job[r].kind = "create" /\ pc[r] \in {"link", "commit"} THEN {job[r].name} ELSE {})
    \cup (IF job[r].kind = "update" /\ pc[r] \in {"name", "commit"} /\ Renames(r)
          THEN {row[job[r].p].name} \cup (IF pc[r] = "commit" THEN {job[r].name} ELSE {})
          ELSE {})

\* (An insertion also waits for an update that leaves the name of its row as
\* it is.  That update goes on to its end without a wait, and then the name is
\* taken as before, so the insertion is refused at once here.)
WaitsFor(r) ==
    {s \in Requests \ {r} :
        \/ pc[r] \in {"insert", "name"} /\ job[r].name \in NamesOf(s)
        \/ pc[r] = "row" /\ HasRow(s, job[r].p)
        \/ pc[r] = "row" /\ Renames(r) /\ HasKey(s, job[r].p)
        \/ pc[r] = "intent" /\ HasRow(s, job[r].p) /\ Renames(s)}

\* Another product has the name.
Taken(n, p) == \E q \in DOMAIN row \ {p} : row[q].name = n

\* Deadlock detection: a transaction of a cycle is aborted (500).
DeadlockVictim(r) ==
    /\ \E S \in SUBSET Requests :
           /\ r \in S
           /\ \A s \in S : /\ WaitsFor(s) \cap S # {}
                           /\ \E t \in S : s \in WaitsFor(t)
    /\ Fail(r)

-----------------------------------------------------------------------------
(* POST /admin/products: create_product.                                   *)

\* The new row's ids are taken when the statement is built.
Fresh(p) == p \notin DOMAIN row /\ \A r \in Requests : job[r].kind = "create" => job[r].p # p

\* require_permissions.
Permitted(u, perm) == perm \in Can[u]

CreateProduct(r, u, p, n, cs) ==
    /\ Permitted(u, "product:create")
    /\ Fresh(p)
    /\ Begin(r, "insert", Create(u, p, n, cs))

\* Mutant: the INSERT does not wait for whoever is about to commit the name.
InsertUnlessCommitted(r) ==
    /\ pc[r] = "insert"
    /\ IF Taken(job[r].name, job[r].p) THEN Fail(r)
       ELSE Goto(r, "link") /\ UNCHANGED <<database, lock, job, made, shown>>

\* Mutant: the product is committed before its categories.
InsertAndCommit(r) ==
    LET p == job[r].p
    IN /\ pc[r] = "insert"
       /\ WaitsFor(r) = {}
       /\ IF Taken(job[r].name, p) THEN Fail(r)
          ELSE /\ row' = [q \in DOMAIN row \cup {p} |->
                             IF q = p THEN [name |-> job[r].name, owner |-> job[r].user]
                             ELSE row[q]]
               /\ Goto(r, "link")
               /\ UNCHANGED <<links, images, lock, job, made, shown>>

\* ON CONFLICT DO NOTHING: the INSERT waits for whoever is about to commit or
\* to free the name; one that is taken answers 409.
InsertProduct(r) ==
    /\ pc[r] = "insert"
    /\ WaitsFor(r) = {}
    /\ IF Taken(job[r].name, job[r].p) THEN Fail(r)
       ELSE Goto(r, "link") /\ UNCHANGED <<database, lock, job, made, shown>>

\* add_product_categories: a category that does not exist answers 409, and
\* the product is not created.
AddProductCategories(r) ==
    /\ pc[r] = "link"
    /\ IF job[r].cats \subseteq Categories
       THEN Goto(r, "commit") /\ UNCHANGED <<database, lock, job, made, shown>>
       ELSE Fail(r)

\* Mutant: the connection is recorded as the owner, not its user.
OwnedByRequest(r) == [name |-> job[r].name, owner |-> r]

NewRow(r) == [name |-> job[r].name, owner |-> job[r].user]

CommitProduct(r) ==
    LET p == job[r].p
    IN /\ pc[r] = "commit"
       /\ job[r].kind = "create"
       /\ row' = [q \in DOMAIN row \cup {p} |-> IF q = p THEN NewRow(r) ELSE row[q]]
       /\ links' = links \cup ({p} \X job[r].cats)
       /\ End(r)
       /\ UNCHANGED <<images, lock>>

-----------------------------------------------------------------------------
(* PATCH /admin/products: update_product.                                  *)

\* Mutant: the owner is not compared.
FindAnyProduct(u, p) == p \in DOMAIN row

\* find_product_by_pid, and the comparison of owners in both routes.
FindProduct(u, p) == p \in DOMAIN row /\ row[p].owner = u

\* validate_categories_by_names; its result is not used.
ValidCategories(cs) == cs \subseteq Categories

UpdateProduct(r, u, p, n, cs) ==
    /\ Permitted(u, "product:update")
    /\ ValidCategories(cs)
    /\ FindProduct(u, p)
    /\ Begin(r, "row", Update(u, p, n))

\* patch_product: the UPDATE takes the row if the owner is still the user's.
PatchProduct(r) ==
    /\ pc[r] = "row"
    /\ WaitsFor(r) = {}
    /\ IF row[job[r].p].owner # job[r].user THEN Fail(r)
       ELSE /\ Goto(r, IF Renames(r) THEN "name" ELSE "commit")
            /\ UNCHANGED <<database, lock, job, made, shown>>

\* The unique index on the name: a violation is an error 500.
IndexName(r) ==
    /\ pc[r] = "name"
    /\ WaitsFor(r) = {}
    /\ IF Taken(job[r].name, job[r].p) THEN Fail(r)
       ELSE Goto(r, "commit") /\ UNCHANGED <<database, lock, job, made, shown>>

CommitUpdate(r) ==
    /\ pc[r] = "commit"
    /\ job[r].kind = "update"
    /\ row' = IF Renames(r) THEN [row EXCEPT ![job[r].p].name = job[r].name] ELSE row
    /\ End(r)
    /\ UNCHANGED <<links, images, lock>>

-----------------------------------------------------------------------------
(* POST /admin/products/<id>/images/init-batch: init_images_upload_batch.  *)

Used == {i.id : i \in images \cup UNION {made[r] : r \in Requests}}

\* The bound on image rows counts the files that other requests announced.
Announced == UNION {{r} \X DOMAIN job[r].todo : r \in {s \in Requests : job[s].kind = "images"}}

InitImages(r, u, p, b) ==
    /\ Cardinality(Used) + Cardinality(Announced) + Len(b) <= MaxImages
    /\ FindProduct(u, p)
    /\ Begin(r, "intent", Images(u, p, b))

\* A file that is not valid: ValidationError("...") is itself an error, so
\* the whole batch is answered with 500.
InvalidFile(r) ==
    /\ pc[r] = "intent"
    /\ job[r].todo # <<>>
    /\ ~Head(job[r].todo)
    /\ Fail(r)

\* The sequence of the table gives an id that no other row gets.
NewImage(r) ==
    [id |-> CHOOSE i \in ImageIds : i \notin Used, of |-> job[r].p, keyed |-> FALSE]

\* Mutant: the image is committed before it has its key.
CommitIntent(r) ==
    /\ pc[r] = "intent"
    /\ job[r].todo # <<>>
    /\ Head(job[r].todo)
    /\ WaitsFor(r) = {}
    /\ images' = images \cup {NewImage(r)}
    /\ made' = [made EXCEPT ![r] = @ \cup {NewImage(r)}]
    /\ Goto(r, "key")
    /\ UNCHANGED <<row, links, lock, job, shown>>

\* create_product_image_intent: the INSERT is flushed.
CreateImageIntent(r) ==
    /\ pc[r] = "intent"
    /\ job[r].todo # <<>>
    /\ Head(job[r].todo)
    /\ WaitsFor(r) = {}
    /\ made' = [made EXCEPT ![r] = @ \cup {NewImage(r)}]
    /\ Goto(r, "key")
    /\ UNCHANGED <<database, lock, job, shown>>

\* update_prod_image_storage_key, with the key of build_unq_img_key; the
\* upload parameters are answered.
UpdateStorageKey(r) ==
    /\ pc[r] = "key"
    /\ made' = [made EXCEPT ![r] = {[i EXCEPT !.keyed = TRUE] : i \in @}]
    /\ job' = [job EXCEPT ![r].todo = Tail(@)]
    /\ Goto(r, "intent")
    /\ UNCHANGED <<database, lock, shown>>

CommitImages(r) ==
    /\ pc[r] = "intent"
    /\ job[r].todo = <<>>
    /\ images' = images \cup made[r]
    /\ End(r)
    /\ UNCHANGED <<row, links, lock>>

-----------------------------------------------------------------------------
(* GET /products/<id>: get_product_details.  set_product_cache_if_newer    *)
(* hands Redis a dict, which the client refuses, and swallows the error:   *)
(* the cache stays empty, and every request loads the details itself.      *)

GetDetails(r, p) == Begin(r, "lock", Details(p, FALSE))

TryLock(r) ==
    LET free == lock[job[r].p] = NoOne
    IN /\ pc[r] = "lock"
       /\ lock' = IF free THEN [lock EXCEPT ![job[r].p] = r] ELSE lock
       /\ job' = [job EXCEPT ![r].mine = free]
       /\ Goto(r, IF free THEN "product" ELSE "poll")
       /\ UNCHANGED <<database, made, shown>>

\* Mutant: a request without the lock waits for the cache.
KeepPolling(r) == FALSE /\ UNCHANGED vars

\* REDIS_LOCK_TIMEOUT + 1 seconds.
PollTimeout(r) ==
    /\ pc[r] = "poll"
    /\ Goto(r, "product")
    /\ UNCHANGED <<database, lock, job, made, shown>>

\* release_lock, by the request that took the lock: the script deletes its own
\* token; if it raises, the lock is deleted whoever holds it, or stays.
Unlocked(r) ==
    LET p == job[r].p
    IN IF job[r].mine
       THEN {[lock EXCEPT ![p] = IF @ = r THEN NoOne ELSE @], [lock EXCEPT ![p] = NoOne], lock}
       ELSE {lock}

\* fetch_product_details, first SELECT: 404 when there is no such product.
SelectProduct(r) ==
    /\ pc[r] = "product"
    /\ IF job[r].p \in DOMAIN row
       THEN Goto(r, "categories") /\ UNCHANGED <<database, lock, job, made, shown>>
       ELSE lock' \in Unlocked(r) /\ End(r) /\ UNCHANGED database

\* selectinload: the second SELECT, of the categories.
SelectCategories(r) ==
    /\ pc[r] = "categories"
    /\ shown' = [shown EXCEPT ![r] = {c \in Categories : <<job[r].p, c>> \in links}]
    /\ Goto(r, "commit")
    /\ UNCHANGED <<database, lock, job, made>>

Answer(r) ==
    /\ pc[r] = "commit"
    /\ job[r].kind = "details"
    /\ lock' \in Unlocked(r)
    /\ End(r)
    /\ UNCHANGED database

ExpireLock(p) ==
    /\ lock[p] # NoOne
    /\ lock' = [lock EXCEPT ![p] = NoOne]
    /\ UNCHANGED <<database, pc, job, made, shown>>

-----------------------------------------------------------------------------
\* The request is cancelled or its process dies.
Crash(r) == pc[r] # "idle" /\ Fail(r)

Ask(r) ==
    \/ \E u \in Users, p \in Products :
           \/ \E n \in Names, cs \in CategoryAsk : CreateProduct(r, u, p, n, cs)
           \/ \E n \in Names \cup {Same}, cs \in CategoryAsk : UpdateProduct(r, u, p, n, cs)
           \/ \E b \in Batches : InitImages(r, u, p, b)
    \/ \E p \in Viewed : GetDetails(r, p)

Serve(r) ==
    \/ InsertProduct(r) \/ AddProductCategories(r) \/ CommitProduct(r)
    \/ PatchProduct(r) \/ IndexName(r) \/ CommitUpdate(r)
    \/ InvalidFile(r) \/ CreateImageIntent(r) \/ UpdateStorageKey(r) \/ CommitImages(r)
    \/ TryLock(r) \/ PollTimeout(r) \/ SelectProduct(r) \/ SelectCategories(r) \/ Answer(r)
    \/ DeadlockVictim(r)

Next ==
    \/ \E r \in Requests : Ask(r) \/ Serve(r) \/ Crash(r)
    \/ \E p \in Viewed : ExpireLock(p)

Spec == Init /\ [][Next]_vars

\* A request keeps running; one that waits is woken when the transaction it
\* waits for ends, so it is not overtaken for ever.
Fairness == \A r \in Requests : SF_vars(Serve(r))

FairSpec == Spec /\ Fairness

-----------------------------------------------------------------------------
(* Properties.                                                             *)

\* No two products have one name, although creations and renames run at the
\* same time, wait for each other and fail.
NamesUnique ==
    \A p, q \in DOMAIN row : p # q => row[p].name # row[q].name

\* The details of a product are read with two SELECTs and still show the
\* categories it was created with, all of them: a product and its links
\* appear together.
DetailsComplete ==
    \A r \in Requests :
        pc[r] = "commit" /\ job[r].kind = "details" =>
            shown[r] = {c \in Categories : <<job[r].p, c>> \in links}

\* An image row that others can see has its storage key, and no upload is
\* prepared twice under one key, although a batch writes a row and its key in
\* turns and may fail or die in between.
ImagesKeyed ==
    /\ \A i \in images : i.keyed
    /\ \A i, j \in images : i.id = j.id => i = j

\* A committed product and its images change only in a request of the
\* product's owner.
WritesByOwner ==
    [][/\ \A p \in DOMAIN row : row'[p] # row[p] =>
              \E r \in Requests : pc[r] # "idle" /\ pc'[r] = "idle" /\ job[r].user = row[p].owner
       /\ \A i \in images' \ images :
              \E r \in Requests : i \in made[r] /\ job[r].user = row[i.of].owner]_vars

\* Every request is answered: a rename that waits for another one which waits
\* for the first is not left hanging, and neither is a reader whose lock
\* holder died.
RequestsAnswered == \A r \in Requests : pc[r] # "idle" ~> pc[r] = "idle"
==============================================================================
