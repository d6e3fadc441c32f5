--------------------------- MODULE CatalogueProofs ---------------------------
(***************************************************************************)
(* Proofs about Catalogue: names stay unique, the details of a product are *)
(* complete, committed images have their keys, and only the owner of a     *)
(* product writes it, for any number of connections, users, products,      *)
(* names, categories and files.                                            *)
(*                                                                         *)
(* The argument for the names: a transaction that has entered a name in    *)
(* the unique index keeps it to itself until it commits, and so does a     *)
(* rename with the name it is about to free; one row is written by one     *)
(* open transaction at a time.  The argument for the images: a batch is    *)
(* begun only if there is room for every file announced, so each INSERT    *)
(* finds an id of its own.                                                 *)
(***************************************************************************)
EXTENDS Catalogue, FiniteSetTheorems, SequenceTheorems, TLAPS

\* The kinds of request that are at a place of the code.
KindsAt(l) ==
    CASE l = "idle" -> {"none"}
      [] l \in {"insert", "link"} -> {"create"}
      [] l \in {"row", "name"} -> {"update"}
      [] l \in {"intent", "key"} -> {"images"}
      [] l \in {"lock", "poll", "product", "categories"} -> {"details"}
      [] OTHER -> {"create", "update", "details"}

KindsMatch == \A r \in Requests : job[r].kind \in KindsAt(pc[r])

\* An update or an upload has seen the product, and that its user owns it; so
\* has a reader that goes on to the categories.
ProductsKnown ==
    \A r \in Requests :
        /\ job[r].kind \in {"update", "images"} =>
              job[r].p \in DOMAIN row /\ row[job[r].p].owner = job[r].user
        /\ job[r].kind = "details" /\ pc[r] \in {"categories", "commit"} =>
              job[r].p \in DOMAIN row

\* Nothing is linked to a category that does not exist.
CategoriesExist ==
    \A r \in Requests :
        job[r].kind = "create" /\ pc[r] = "commit" => job[r].cats \subseteq Categories

\* A product that is being created is not in the table, and no other request
\* creates it.
CreatesFresh ==
    \A r \in Requests : job[r].kind = "create" =>
        /\ job[r].p \notin DOMAIN row
        /\ \A s \in Requests : job[s].kind = "create" /\ job[s].p = job[r].p => s = r

\* One open transaction at a time has written the row of a product, and it is
\* at the index only if its UPDATE changes the name.
OneWriterPerRow ==
    /\ \A r, s \in Requests, p \in Products : HasRow(r, p) /\ HasRow(s, p) => r = s
    /\ \A r \in Requests : pc[r] = "name" => Renames(r)

\* The INSERT, or the rename, has entered its name in the index.
Enters(r) ==
    \/ job[r].kind = "create" /\ pc[r] \in {"link", "commit"}
    \/ job[r].kind = "update" /\ pc[r] = "commit" /\ Renames(r)

\* A name in the index that is not committed is no other product's, ...
NamesFree == \A r \in Requests : Enters(r) => ~Taken(job[r].name, job[r].p)

\* ... and two open transactions have no name in common.
NamesApart ==
    \A r, s \in Requests : r # s => NamesOf(r) \cap NamesOf(s) = {}

\* The images of an open transaction: of its own product, and with their keys
\* but while one of them is being inserted.
BatchInOrder ==
    \A r \in Requests :
        /\ made[r] # {} => job[r].kind = "images"
        /\ \A i \in made[r] : i.of = job[r].p
        /\ pc[r] = "intent" => \A i \in made[r] : i.keyed
        /\ pc[r] = "key" => job[r].todo # <<>>

\* No two image rows, committed or not, have one id.
IdsApart ==
    /\ \A i, j \in images : i.id = j.id => i = j
    /\ \A r \in Requests : \A i \in made[r], j \in images : i.id # j.id
    /\ \A r, s \in Requests : \A i \in made[r], j \in made[s] :
          i.id = j.id => r = s /\ i = j

\* The files announced whose row is still to be inserted.
Owed == {x \in Announced : pc[x[1]] = "key" => x[2] # Len(job[x[1]].todo)}

\* There is an id for each of them.
RoomLeft ==
    /\ IsFiniteSet(Announced)
    /\ Cardinality(Used) + Cardinality(Owed) <= MaxImages

\* The inductive invariant of product administration.
CatalogueInv ==
    /\ TypeOK
    /\ KindsMatch
    /\ ProductsKnown
    /\ CategoriesExist
    /\ CreatesFresh
    /\ OneWriterPerRow
    /\ NamesFree
    /\ NamesApart
    /\ NamesUnique
    /\ DetailsComplete
    /\ BatchInOrder
    /\ ImagesKeyed
    /\ IdsApart
    /\ RoomLeft

-----------------------------------------------------------------------------
(* Jobs.                                                                   *)

\* The readers' jobs, whatever the values of the flag.
LEMMA ReadJobs ==
    ASSUME NEW V, NEW B, NEW j
    PROVE  j \in {Details(p, m) : p \in V, m \in B} <=> \E p \in V, m \in B : j = Details(p, m)
OBVIOUS

\* What a job holds, by its kind.
LEMMA JobFields ==
    ASSUME NEW j \in Jobs
    PROVE  \/ j = NoJob
           \/ \E u \in Users, p \in Products, n \in Names, cs \in CategoryAsk :
                 j = Create(u, p, n, cs)
           \/ \E u \in Users, p \in Products, n \in Names \cup {Same} : j = Update(u, p, n)
           \/ \E u \in Users, p \in Products, b \in Remainders : j = Images(u, p, b)
           \/ \E p \in Viewed, m \in BOOLEAN : j = Details(p, m)
<1> DEFINE Writes(u, p) ==
              {Create(u, p, n, cs) : n \in Names, cs \in CategoryAsk}
              \cup {Update(u, p, n) : n \in Names \cup {Same}}
              \cup {Images(u, p, b) : b \in Remainders}
           Reads == {Details(p, m) : p \in Viewed, m \in BOOLEAN}
<1>1. Jobs = {NoJob} \cup (UNION {Writes(u, p) : u \in Users, p \in Products}) \cup Reads
  BY DEF Jobs
<1>2. CASE \E u \in Users, p \in Products : j \in Writes(u, p)
  BY <1>2
<1>3. CASE j \in Reads
  <2>1. \E p \in Viewed, m \in BOOLEAN : j = Details(p, m)
    BY <1>3, ReadJobs
  <2> QED
    BY <2>1
<1> HIDE DEF Writes, Reads
<1> QED
  BY <1>1, <1>2, <1>3

\* The jobs with which requests begin, and the ones they become.
LEMMA JobsBuilt ==
    /\ NoJob \in Jobs
    /\ \A u \in Users, p \in Products :
          /\ \A n \in Names, cs \in CategoryAsk : Create(u, p, n, cs) \in Jobs
          /\ \A n \in Names \cup {Same} : Update(u, p, n) \in Jobs
          /\ \A b \in Remainders : Images(u, p, b) \in Jobs
    /\ \A p \in Viewed, m \in BOOLEAN : Details(p, m) \in Jobs
<1> DEFINE Writes(u, p) ==
              {Create(u, p, n, cs) : n \in Names, cs \in CategoryAsk}
              \cup {Update(u, p, n) : n \in Names \cup {Same}}
              \cup {Images(u, p, b) : b \in Remainders}
           Reads == {Details(p, m) : p \in Viewed, m \in BOOLEAN}
<1>1. Jobs = {NoJob} \cup (UNION {Writes(u, p) : u \in Users, p \in Products}) \cup Reads
  BY DEF Jobs
<1>2. ASSUME NEW u \in Users, NEW p \in Products
      PROVE  Writes(u, p) \subseteq Jobs
  <2> HIDE DEF Writes, Reads
  <2> QED
    BY <1>1
<1>3. ASSUME NEW u \in Users, NEW p \in Products
      PROVE  /\ \A n \in Names, cs \in CategoryAsk : Create(u, p, n, cs) \in Writes(u, p)
             /\ \A n \in Names \cup {Same} : Update(u, p, n) \in Writes(u, p)
             /\ \A b \in Remainders : Images(u, p, b) \in Writes(u, p)
  OBVIOUS
<1>4. \A p \in Viewed, m \in BOOLEAN : Details(p, m) \in Jobs
  <2>1. \A p \in Viewed, m \in BOOLEAN : Details(p, m) \in Reads
    BY ReadJobs
  <2> HIDE DEF Writes, Reads
  <2>2. Reads \subseteq Jobs
    BY <1>1
  <2> QED
    BY <2>1, <2>2
<1>5. NoJob \in Jobs
  <2> HIDE DEF Writes, Reads
  <2> QED
    BY <1>1
<1> HIDE DEF Writes, Reads
<1> QED
  BY <1>2, <1>3, <1>4, <1>5

\* A batch, and what is left of one after its first file, is a remainder.
LEMMA RemaindersShrink ==
    /\ Batches \subseteq Remainders
    /\ \A b \in Remainders : /\ b \in Seq(BOOLEAN)
                             /\ b # <<>> => Tail(b) \in Remainders
<1>1. ASSUME NEW b \in Batches
      PROVE  b \in Remainders
  <2>1. b \in Seq(BOOLEAN)
    BY CatalogueAssumption
  <2>2. SubSeq(b, 1, Len(b)) = b /\ Len(b) \in Nat
    BY <2>1, SubSeqFull
  <2>3. 1 \in 1 .. Len(b) + 1
    BY <2>2
  <2>4. b \in {SubSeq(b, i, Len(b)) : i \in 1 .. Len(b) + 1}
    BY <2>2, <2>3
  <2> QED
    BY <2>4 DEF Remainders
<1>2. ASSUME NEW c \in Remainders
      PROVE  /\ c \in Seq(BOOLEAN)
             /\ c # <<>> => Tail(c) \in Remainders
  <2>1. PICK b \in Batches : c \in {SubSeq(b, i, Len(b)) : i \in 1 .. Len(b) + 1}
    BY DEF Remainders
  <2>2. b \in Seq(BOOLEAN) /\ Len(b) \in Nat
    BY CatalogueAssumption
  <2>3. PICK i \in 1 .. Len(b) + 1 : c = SubSeq(b, i, Len(b))
    BY <2>1
  <2>4. CASE i = Len(b) + 1
    <3>1. c = <<>>
      BY <2>2, <2>3, <2>4, SubSeqEmpty
    <3> QED
      BY <3>1
  <2>5. CASE i \in 1 .. Len(b)
    <3>1. Tail(c) = SubSeq(b, i + 1, Len(b))
      BY <2>2, <2>3, <2>5, HeadTailOfSubSeq
    <3>2. i + 1 \in 1 .. Len(b) + 1
      BY <2>2, <2>5
    <3>3. Tail(c) \in {SubSeq(b, k, Len(b)) : k \in 1 .. Len(b) + 1}
      BY <3>1, <3>2
    <3>4. Tail(c) \in Remainders
      BY <3>3 DEF Remainders
    <3>5. \A k \in i .. Len(b) : b[k] \in BOOLEAN
      BY <2>2, <2>5
    <3>6. c \in Seq(BOOLEAN)
      BY <2>2, <2>3, <2>5, <3>5, SubSeqProperties
    <3> QED
      BY <3>4, <3>6
  <2> QED
    BY <2>2, <2>3, <2>4, <2>5
<1> QED
  BY <1>1, <1>2

\* Two fields that every later step reads.
LEMMA JobOfKind ==
    ASSUME NEW j \in Jobs
    PROVE  /\ j.kind \in {"none", "create", "update", "images", "details"}
           /\ j.kind # "none" => j.p \in Products
           /\ j.kind = "create" => /\ j.user \in Users /\ j.name \in Names
                                   /\ j = Create(j.user, j.p, j.name, j.cats)
                                   /\ j.cats \in CategoryAsk
           /\ j.kind = "update" => /\ j.user \in Users /\ j.name \in Names \cup {Same}
           /\ j.kind = "images" => /\ j.user \in Users /\ j.todo \in Remainders
                                   /\ j = Images(j.user, j.p, j.todo)
           /\ j.kind = "details" => j.p \in Viewed
<1>0. Viewed \subseteq Products
  BY CatalogueAssumption
<1>1. CASE j = NoJob
  BY <1>1 DEF NoJob
<1>2. ASSUME NEW u \in Users, NEW p \in Products, NEW n \in Names, NEW cs \in CategoryAsk,
             j = Create(u, p, n, cs)
      PROVE  /\ j.kind = "create" /\ j.user = u /\ j.p = p /\ j.name = n /\ j.cats = cs
  BY <1>2 DEF Create
<1>3. ASSUME NEW u \in Users, NEW p \in Products, NEW n \in Names \cup {Same},
             j = Update(u, p, n)
      PROVE  j.kind = "update" /\ j.user = u /\ j.p = p /\ j.name = n
  BY <1>3 DEF Update
<1>4. ASSUME NEW u \in Users, NEW p \in Products, NEW b \in Remainders, j = Images(u, p, b)
      PROVE  j.kind = "images" /\ j.user = u /\ j.p = p /\ j.todo = b
  BY <1>4 DEF Images
<1>5. ASSUME NEW p \in Viewed, NEW m \in BOOLEAN, j = Details(p, m)
      PROVE  j.kind = "details" /\ j.p = p
  BY <1>5 DEF Details
<1>6. CASE \E p \in Viewed, m \in BOOLEAN : j = Details(p, m)
  BY <1>0, <1>5, <1>6
<1> QED
  BY <1>1, <1>2, <1>3, <1>4, <1>6, JobFields

-----------------------------------------------------------------------------
(* The steps, with their tests decided.                                    *)

\* The request goes on, and has changed nothing yet that others can see.
Advances(r, from, to) ==
    /\ pc[r] = from
    /\ Goto(r, to)
    /\ UNCHANGED <<database, lock, job, made, shown>>

Inserts(r) == Advances(r, "insert", "link") /\ WaitsFor(r) = {} /\ ~Taken(job[r].name, job[r].p)
Links(r) == Advances(r, "link", "commit") /\ job[r].cats \subseteq Categories
Patches(r) == Advances(r, "row", IF Renames(r) THEN "name" ELSE "commit") /\ WaitsFor(r) = {}
Indexes(r) == Advances(r, "name", "commit") /\ WaitsFor(r) = {} /\ ~Taken(job[r].name, job[r].p)
Loads(r) == Advances(r, "poll", "product")
Finds(r) == Advances(r, "product", "categories") /\ job[r].p \in DOMAIN row

\* It ends, and its transaction with it.
Leaves(r) ==
    /\ End(r)
    /\ UNCHANGED database
    /\ lock' \in Unlocked(r) \cup {lock}

\* A request begins with a job of its own.
Begins(r, j) ==
    /\ pc[r] = "idle"
    /\ job' = [job EXCEPT ![r] = j]
    /\ UNCHANGED <<database, lock, made, shown>>
    /\ \/ \E u \in Users, p \in Products, n \in Names, cs \in CategoryAsk :
             j = Create(u, p, n, cs) /\ Fresh(p) /\ Goto(r, "insert")
       \/ \E u \in Users, p \in Products, n \in Names \cup {Same} :
             j = Update(u, p, n) /\ FindProduct(u, p) /\ Goto(r, "row")
       \/ \E u \in Users, p \in Products, b \in Batches :
             /\ j = Images(u, p, b) /\ FindProduct(u, p) /\ Goto(r, "intent")
             /\ Cardinality(Used) + Cardinality(Announced) + Len(b) <= MaxImages
       \/ \E p \in Viewed : j = Details(p, FALSE) /\ Goto(r, "lock")

\* Ask begins one of the four kinds of request.
LEMMA AskBegins ==
    ASSUME NEW r \in Requests, Ask(r)
    PROVE  \E j \in Jobs : Begins(r, j)
<1>1. ASSUME NEW u \in Users, NEW p \in Products, NEW n \in Names, NEW cs \in CategoryAsk,
             CreateProduct(r, u, p, n, cs)
      PROVE  \E j \in Jobs : Begins(r, j)
  <2>1. Create(u, p, n, cs) \in Jobs
    BY JobsBuilt
  <2>2. Begins(r, Create(u, p, n, cs))
    BY <1>1 DEF CreateProduct, Begin, Begins
  <2> QED
    BY <2>1, <2>2
<1>2. ASSUME NEW u \in Users, NEW p \in Products, NEW n \in Names \cup {Same}, NEW cs \in CategoryAsk,
             UpdateProduct(r, u, p, n, cs)
      PROVE  \E j \in Jobs : Begins(r, j)
  <2>1. Update(u, p, n) \in Jobs
    BY JobsBuilt
  <2>2. Begins(r, Update(u, p, n))
    BY <1>2 DEF UpdateProduct, Begin, Begins
  <2> QED
    BY <2>1, <2>2
<1>3. ASSUME NEW u \in Users, NEW p \in Products, NEW b \in Batches, InitImages(r, u, p, b)
      PROVE  \E j \in Jobs : Begins(r, j)
  <2>1. Images(u, p, b) \in Jobs
    BY JobsBuilt, RemaindersShrink
  <2>2. Begins(r, Images(u, p, b))
    BY <1>3 DEF InitImages, Begin, Begins
  <2> QED
    BY <2>1, <2>2
<1>4. ASSUME NEW p \in Viewed, GetDetails(r, p)
      PROVE  \E j \in Jobs : Begins(r, j)
  <2>1. Details(p, FALSE) \in Jobs
    BY JobsBuilt
  <2>2. Begins(r, Details(p, FALSE))
    BY <1>4 DEF GetDetails, Begin, Begins
  <2> QED
    BY <2>1, <2>2
<1> QED
  BY <1>1, <1>2, <1>3, <1>4 DEF Ask

StepOf(r) ==
    \/ (\E j \in Jobs : Begins(r, j)) \/ Leaves(r)
    \/ Inserts(r) \/ Links(r) \/ CommitProduct(r)
    \/ Patches(r) \/ Indexes(r) \/ CommitUpdate(r)
    \/ CreateImageIntent(r) \/ UpdateStorageKey(r) \/ CommitImages(r)
    \/ TryLock(r) \/ Loads(r) \/ Finds(r) \/ SelectCategories(r)

\* Every step is one of these, or the expiry of a lock.
LEMMA NextCases ==
    ASSUME Next
    PROVE  (\E r \in Requests : StepOf(r)) \/ (\E p \in Viewed : ExpireLock(p))
<1>1. ASSUME NEW r \in Requests, Serve(r)
      PROVE  StepOf(r)
  <2>1. ASSUME Fail(r)
        PROVE  Leaves(r)
    BY <2>1 DEF Fail, Leaves
  <2>2. CASE InsertProduct(r)
    BY <2>1, <2>2 DEF InsertProduct, StepOf, Inserts, Advances
  <2>3. CASE AddProductCategories(r)
    BY <2>1, <2>3 DEF AddProductCategories, StepOf, Links, Advances
  <2>4. CASE PatchProduct(r)
    BY <2>1, <2>4 DEF PatchProduct, StepOf, Patches, Advances
  <2>5. CASE IndexName(r)
    BY <2>1, <2>5 DEF IndexName, StepOf, Indexes, Advances
  <2>6. CASE InvalidFile(r) \/ DeadlockVictim(r)
    BY <2>1, <2>6 DEF InvalidFile, DeadlockVictim, StepOf
  <2>7. CASE PollTimeout(r)
    BY <2>7 DEF PollTimeout, StepOf, Loads, Advances
  <2>8. CASE SelectProduct(r)
    BY <2>8 DEF SelectProduct, StepOf, Finds, Advances, Leaves
  <2>9. CASE Answer(r)
    BY <2>9 DEF Answer, StepOf, Leaves
  <2> QED
    BY <1>1, <2>2, <2>3, <2>4, <2>5, <2>6, <2>7, <2>8, <2>9 DEF Serve, StepOf
<1>2. ASSUME NEW r \in Requests, Crash(r)
      PROVE  StepOf(r)
  BY <1>2 DEF Crash, Fail, Leaves, StepOf
<1>3. ASSUME NEW r \in Requests, Ask(r)
      PROVE  StepOf(r)
  BY <1>3, AskBegins DEF StepOf
<1> QED
  BY <1>1, <1>2, <1>3 DEF Next

-----------------------------------------------------------------------------
(* What a step leaves alone.                                               *)

\* A step of one request changes nothing of what the others keep.
LEMMA OthersKept ==
    ASSUME TypeOK, NEW r \in Requests, StepOf(r)
    PROVE  \A s \in Requests \ {r} :
              /\ pc'[s] = pc[s] /\ job'[s] = job[s]
              /\ made'[s] = made[s] /\ shown'[s] = shown[s]
<1> USE DEF TypeOK
<1>1. CASE \E j \in Jobs : Begins(r, j)
  BY <1>1 DEF Begins, Goto
<1>2. CASE Leaves(r)
  BY <1>2 DEF Leaves, End, Goto
<1>3. CASE Inserts(r) \/ Links(r) \/ Patches(r) \/ Indexes(r) \/ Loads(r) \/ Finds(r)
  BY <1>3 DEF Inserts, Links, Patches, Indexes, Loads, Finds, Advances, Goto
<1>4. CASE CommitProduct(r) \/ CommitUpdate(r) \/ CommitImages(r)
  BY <1>4 DEF CommitProduct, CommitUpdate, CommitImages, End, Goto
<1>5. CASE CreateImageIntent(r)
  BY <1>5 DEF CreateImageIntent, Goto
<1>6. CASE UpdateStorageKey(r)
  BY <1>6 DEF UpdateStorageKey, Goto
<1>7. CASE TryLock(r)
  BY <1>7 DEF TryLock, Goto
<1>8. CASE SelectCategories(r)
  BY <1>8 DEF SelectCategories, Goto
<1> QED
  BY <1>1, <1>2, <1>3, <1>4, <1>5, <1>6, <1>7, <1>8 DEF StepOf

\* A request that ends keeps nothing.
LEMMA Ended ==
    ASSUME TypeOK, NEW r \in Requests, End(r)
    PROVE  pc'[r] = "idle" /\ job'[r] = NoJob /\ made'[r] = {} /\ shown'[r] = {}
BY DEF TypeOK, End, Goto

\* The table of products: a product stays, with its owner; its name changes
\* only when an update commits, and a new one comes only from a creation.
LEMMA RowStep ==
    ASSUME CatalogueInv, NEW r \in Requests, StepOf(r)
    PROVE  /\ DOMAIN row \subseteq DOMAIN row'
           /\ DOMAIN row' \subseteq Products
           /\ \A p \in DOMAIN row' : row'[p] \in [name : Names, owner : Users]
           /\ \A p \in DOMAIN row : row'[p].owner = row[p].owner
           /\ \A p \in DOMAIN row :
                 \/ row'[p] = row[p]
                 \/ CommitUpdate(r) /\ Renames(r) /\ p = job[r].p /\ row'[p].name = job[r].name
           /\ \A p \in DOMAIN row' \ DOMAIN row :
                 CommitProduct(r) /\ p = job[r].p /\ row'[p].name = job[r].name
<1>0. TypeOK /\ ProductsKnown /\ CreatesFresh
  BY DEF CatalogueInv
<1>1. job[r] \in Jobs
  BY <1>0 DEF TypeOK
<1>2. CASE row' = row
  BY <1>0, <1>2 DEF TypeOK
<1>3. CASE CommitProduct(r)
  <2> DEFINE p == job[r].p
             new == [name |-> job[r].name, owner |-> job[r].user]
  <2>1. job[r].kind = "create" /\ row' = [q \in DOMAIN row \cup {p} |-> IF q = p THEN new ELSE row[q]]
    BY <1>3 DEF CommitProduct, NewRow
  <2>2. p \in Products /\ new \in [name : Names, owner : Users]
    BY <1>1, <2>1, JobOfKind
  <2>3. p \notin DOMAIN row
    BY <1>0, <2>1 DEF CreatesFresh
  <2>4. new.name = job[r].name
    OBVIOUS
  <2> HIDE DEF new, p
  <2>5. DOMAIN row' = DOMAIN row \cup {p} /\ row'[p] = new /\ \A q \in DOMAIN row : row'[q] = row[q]
    BY <2>1, <2>3
  <2>6. \A q \in DOMAIN row' : row'[q] \in [name : Names, owner : Users]
    BY <1>0, <2>2, <2>5 DEF TypeOK
  <2>7. DOMAIN row' \subseteq Products
    BY <1>0, <2>2, <2>5 DEF TypeOK
  <2> QED
    BY <1>3, <2>4, <2>5, <2>6, <2>7 DEF p
<1>4. CASE CommitUpdate(r) /\ Renames(r)
  <2> DEFINE p == job[r].p
  <2>1. job[r].kind = "update" /\ row' = [row EXCEPT ![p].name = job[r].name]
    BY <1>4 DEF CommitUpdate
  <2>2. p \in DOMAIN row /\ job[r].name \in Names
    BY <1>0, <1>1, <1>4, <2>1, JobOfKind DEF ProductsKnown, Renames
  <2>3. row[p] \in [name : Names, owner : Users]
    BY <1>0, <2>2 DEF TypeOK
  <2>4. /\ DOMAIN row' = DOMAIN row
        /\ row'[p] = [row[p] EXCEPT !.name = job[r].name]
        /\ \A q \in DOMAIN row \ {p} : row'[q] = row[q]
    BY <2>1, <2>2
  <2>5. /\ row'[p] \in [name : Names, owner : Users]
        /\ row'[p].name = job[r].name /\ row'[p].owner = row[p].owner
    BY <2>2, <2>3, <2>4
  <2>6. \A q \in DOMAIN row' : row'[q] \in [name : Names, owner : Users]
    BY <1>0, <2>4, <2>5 DEF TypeOK
  <2> QED
    BY <1>0, <1>4, <2>4, <2>5, <2>6 DEF TypeOK
<1>5. CASE CommitUpdate(r) /\ ~Renames(r)
  BY <1>2, <1>5 DEF CommitUpdate
<1>6. CASE \E j \in Jobs : Begins(r, j)
  BY <1>2, <1>6 DEF Begins, database
<1>7. CASE Leaves(r)
  BY <1>2, <1>7 DEF Leaves, database
<1>8. CASE Inserts(r) \/ Links(r) \/ Patches(r) \/ Indexes(r) \/ Loads(r) \/ Finds(r)
  BY <1>2, <1>8 DEF Inserts, Links, Patches, Indexes, Loads, Finds, Advances, database
<1>9. CASE CreateImageIntent(r) \/ UpdateStorageKey(r) \/ CommitImages(r) \/ TryLock(r)
           \/ SelectCategories(r)
  BY <1>2, <1>9 DEF CreateImageIntent, UpdateStorageKey, CommitImages, TryLock,
                    SelectCategories, database
<1> QED
  BY <1>3, <1>4, <1>5, <1>6, <1>7, <1>8, <1>9 DEF StepOf

\* The announced files, one by one.
LEMMA AnnouncedFiles ==
    \A s, k : <<s, k>> \in Announced <=>
        s \in Requests /\ job[s].kind = "images" /\ k \in DOMAIN job[s].todo
BY DEF Announced

\* The ids of all image rows, committed or not, are among the ids there are.
LEMMA UsedIds ==
    ASSUME TypeOK
    PROVE  /\ Used \subseteq ImageIds
           /\ IsFiniteSet(Used)
           /\ Cardinality(Used) \in Nat
           /\ Cardinality(Used) = MaxImages => Used = ImageIds
           /\ \A x : x \in Used <=> \/ \E i \in images : x = i.id
                                    \/ \E r \in Requests : \E i \in made[r] : x = i.id
<1>1. \A x : x \in Used <=> \/ \E i \in images : x = i.id
                            \/ \E r \in Requests : \E i \in made[r] : x = i.id
  BY DEF Used
<1>2. images \subseteq ImageRow /\ \A r \in Requests : made[r] \subseteq ImageRow
  BY DEF TypeOK
<1>3. Used \subseteq ImageIds
  BY <1>1, <1>2 DEF ImageRow
<1>4. IsFiniteSet(ImageIds) /\ Cardinality(ImageIds) = MaxImages
  BY CatalogueAssumption, FS_Interval DEF ImageIds
<1>5. IsFiniteSet(Used) /\ (Cardinality(Used) = MaxImages => Used = ImageIds)
  BY <1>3, <1>4, FS_Subset
<1>6. Cardinality(Used) \in Nat
  BY <1>5, FS_CardinalityType
<1> QED
  BY <1>1, <1>3, <1>5, <1>6

\* The INSERT of an image finds an id that no row has.
LEMMA NewId ==
    ASSUME CatalogueInv, NEW r \in Requests, CreateImageIntent(r)
    PROVE  /\ job[r].kind = "images"
           /\ NewImage(r) \in ImageRow
           /\ NewImage(r).id \notin Used
           /\ NewImage(r).of = job[r].p /\ ~NewImage(r).keyed
           /\ <<r, Len(job[r].todo)>> \in Owed
           /\ job[r].todo \in Seq(BOOLEAN) /\ job[r].todo # <<>>
<1>0. TypeOK /\ KindsMatch /\ RoomLeft
  BY DEF CatalogueInv
<1>1. pc[r] = "intent" /\ job[r].todo # <<>>
  BY DEF CreateImageIntent
<1>2. job[r].kind = "images"
  BY <1>0, <1>1 DEF KindsMatch, KindsAt
<1>3. job[r] \in Jobs
  BY <1>0 DEF TypeOK
<1>4. job[r].todo \in Seq(BOOLEAN) /\ job[r].p \in Products
  BY <1>2, <1>3, JobOfKind, RemaindersShrink
<1>5. Len(job[r].todo) \in DOMAIN job[r].todo
  BY <1>1, <1>4
<1>6. <<r, Len(job[r].todo)>> \in Owed
  BY <1>1, <1>2, <1>5, AnnouncedFiles DEF Owed
<1>7. IsFiniteSet(Owed) /\ Cardinality(Owed) \in Nat /\ Cardinality(Owed) # 0
  <2>1. Owed \subseteq Announced
    BY DEF Owed
  <2>2. IsFiniteSet(Owed)
    BY <1>0, <2>1, FS_Subset DEF RoomLeft
  <2>3. Cardinality(Owed) \in Nat
    BY <2>2, FS_CardinalityType
  <2>4. Cardinality(Owed) # 0
    BY <1>6, <2>2, FS_EmptySet
  <2> QED
    BY <2>2, <2>3, <2>4
<1>8. Cardinality(Used) < MaxImages
  BY <1>0, <1>7, UsedIds, CatalogueAssumption DEF RoomLeft
<1>9. Used # ImageIds
  <2>1. Cardinality(ImageIds) = MaxImages
    BY CatalogueAssumption, FS_Interval DEF ImageIds
  <2> QED
    BY <1>0, <1>8, <2>1, UsedIds, CatalogueAssumption
<1>10. \E i \in ImageIds : i \notin Used
  BY <1>0, <1>9, UsedIds
<1> DEFINE new == CHOOSE i \in ImageIds : i \notin Used
<1>11. new \in ImageIds /\ new \notin Used
  BY <1>10
<1> HIDE DEF new
<1>12. NewImage(r) = [id |-> new, of |-> job[r].p, keyed |-> FALSE]
  BY DEF NewImage, new
<1>13. NewImage(r) \in ImageRow
  BY <1>4, <1>11, <1>12 DEF ImageRow
<1> QED
  BY <1>1, <1>2, <1>4, <1>6, <1>11, <1>12, <1>13

\* A key is written into the images of the batch, and the file is done with.
LEMMA KeyStep ==
    ASSUME CatalogueInv, NEW r \in Requests, UpdateStorageKey(r)
    PROVE  /\ job[r].kind = "images" /\ job[r].todo \in Seq(BOOLEAN) /\ job[r].todo # <<>>
           /\ job' \in [Requests -> Jobs]
           /\ job'[r] = Images(job[r].user, job[r].p, Tail(job[r].todo))
           /\ made' \in [Requests -> SUBSET ImageRow]
           /\ \A i \in made'[r] : i.keyed /\ \E j \in made[r] : i.id = j.id /\ i.of = j.of
           /\ \A j \in made[r] : \E i \in made'[r] : i.id = j.id
           /\ \A i, j \in made'[r] : i.id = j.id => i = j
<1>0. TypeOK /\ KindsMatch /\ BatchInOrder /\ IdsApart
  BY DEF CatalogueInv
<1>1. pc[r] = "key"
  BY DEF UpdateStorageKey
<1>2. job[r].kind = "images" /\ job[r].todo # <<>>
  BY <1>0, <1>1 DEF KindsMatch, KindsAt, BatchInOrder
<1>3. job[r] \in Jobs /\ job \in [Requests -> Jobs]
  BY <1>0 DEF TypeOK
<1>4. /\ job[r].user \in Users /\ job[r].p \in Products /\ job[r].todo \in Remainders
      /\ job[r] = Images(job[r].user, job[r].p, job[r].todo)
  BY <1>2, <1>3, JobOfKind
<1>5. Tail(job[r].todo) \in Remainders /\ job[r].todo \in Seq(BOOLEAN)
  BY <1>2, <1>4, RemaindersShrink
<1>6. job' = [job EXCEPT ![r] = [job[r] EXCEPT !.todo = Tail(job[r].todo)]]
  BY <1>3 DEF UpdateStorageKey
<1>7. [job[r] EXCEPT !.todo = Tail(job[r].todo)] = Images(job[r].user, job[r].p, Tail(job[r].todo))
  <2> DEFINE u == job[r].user
             p == job[r].p
             b == job[r].todo
             c == Tail(job[r].todo)
  <2>1. job[r] = Images(u, p, b)
    BY <1>4
  <2> HIDE DEF u, p, b, c
  <2>2. [Images(u, p, b) EXCEPT !.todo = c] = Images(u, p, c)
    BY DEF Images
  <2> QED
    BY <2>1, <2>2 DEF u, p, b, c
<1>8. job' = [job EXCEPT ![r] = Images(job[r].user, job[r].p, Tail(job[r].todo))]
  BY <1>6, <1>7
<1>9. Images(job[r].user, job[r].p, Tail(job[r].todo)) \in Jobs
  BY <1>4, <1>5, JobsBuilt
<1>10. /\ job' \in [Requests -> Jobs]
       /\ job'[r] = Images(job[r].user, job[r].p, Tail(job[r].todo))
  BY <1>3, <1>8, <1>9
<1> DEFINE keyed == {[i EXCEPT !.keyed = TRUE] : i \in made[r]}
<1>11. made' = [made EXCEPT ![r] = keyed]
  BY <1>0 DEF UpdateStorageKey, TypeOK
<1>12. ASSUME NEW i \in made[r]
       PROVE  /\ i \in ImageRow
              /\ [i EXCEPT !.keyed = TRUE] \in ImageRow
              /\ [i EXCEPT !.keyed = TRUE].id = i.id
              /\ [i EXCEPT !.keyed = TRUE].of = i.of
              /\ [i EXCEPT !.keyed = TRUE].keyed
  <2>1. i \in ImageRow
    BY <1>0 DEF TypeOK
  <2>2. [i EXCEPT !.keyed = TRUE] \in ImageRow
    BY <2>1 DEF ImageRow
  <2>3. [i EXCEPT !.keyed = TRUE].id = i.id
    BY <2>1 DEF ImageRow
  <2>4. [i EXCEPT !.keyed = TRUE].of = i.of
    BY <2>1 DEF ImageRow
  <2>5. [i EXCEPT !.keyed = TRUE].keyed
    BY <2>1 DEF ImageRow
  <2> QED
    BY <2>1, <2>2, <2>3, <2>4, <2>5
<1>13. /\ keyed \subseteq ImageRow
       /\ \A i \in keyed : i.keyed /\ \E j \in made[r] : i.id = j.id /\ i.of = j.of
       /\ \A j \in made[r] : \E i \in keyed : i.id = j.id
  BY <1>12
<1>14. \A i, j \in keyed : i.id = j.id => i = j
  <2> SUFFICES ASSUME NEW a \in keyed, NEW b \in keyed, a.id = b.id
               PROVE  a = b
    OBVIOUS
  <2>1. PICK i \in made[r] : a = [i EXCEPT !.keyed = TRUE]
    OBVIOUS
  <2>2. PICK j \in made[r] : b = [j EXCEPT !.keyed = TRUE]
    OBVIOUS
  <2>3. i.id = j.id
    BY <1>12, <2>1, <2>2
  <2>4. i = j
    BY <1>0, <2>3 DEF IdsApart
  <2> QED
    BY <2>1, <2>2, <2>4
<1> HIDE DEF keyed
<1>15. made' \in [Requests -> SUBSET ImageRow] /\ made'[r] = keyed
  BY <1>0, <1>11, <1>13 DEF TypeOK
<1> QED
  BY <1>2, <1>5, <1>10, <1>13, <1>14, <1>15

\* A reader that tries the lock keeps its product.
LEMMA TryStep ==
    ASSUME CatalogueInv, NEW r \in Requests, TryLock(r)
    PROVE  /\ job[r].kind = "details" /\ job[r].p \in Viewed
           /\ job' \in [Requests -> Jobs]
           /\ job'[r].kind = "details" /\ job'[r].p = job[r].p
           /\ lock' \in [Viewed -> Requests \cup {NoOne}]
<1>0. TypeOK /\ KindsMatch
  BY DEF CatalogueInv
<1>1. pc[r] = "lock"
  BY DEF TryLock
<1>2. job[r].kind = "details"
  BY <1>0, <1>1 DEF KindsMatch, KindsAt
<1>3. job[r] \in Jobs
  BY <1>0 DEF TypeOK
<1>4. PICK p \in Viewed, m \in BOOLEAN : job[r] = Details(p, m)
  BY <1>2, <1>3, JobFields DEF NoJob, Create, Update, Images
<1> DEFINE free == lock[job[r].p] = NoOne
<1>5. free \in BOOLEAN
  BY Zenon
<1>6. job' = [job EXCEPT ![r] = [job[r] EXCEPT !.mine = free]]
  BY <1>0 DEF TryLock, TypeOK
<1> HIDE DEF free
<1>7. [job[r] EXCEPT !.mine = free] = Details(p, free)
  BY <1>4 DEF Details
<1>8. Details(p, free) \in Jobs
  BY <1>5, JobsBuilt
<1>9. job' \in [Requests -> Jobs] /\ job'[r] = Details(p, free)
  BY <1>0, <1>6, <1>7, <1>8 DEF TypeOK
<1>10. job[r].p = p /\ Details(p, free).p = p /\ Details(p, free).kind = "details"
  BY <1>4 DEF Details
<1>11. lock' \in [Viewed -> Requests \cup {NoOne}]
  BY <1>0 DEF TryLock, TypeOK
<1> QED
  BY <1>2, <1>9, <1>10, <1>11

\* The rows, locks and requests keep their types.
LEMMA TypeStep ==
    ASSUME CatalogueInv, NEW r \in Requests, StepOf(r)
    PROVE  TypeOK'
<1>0. TypeOK /\ KindsMatch /\ ProductsKnown /\ CategoriesExist
  BY DEF CatalogueInv
<1>1. job[r] \in Jobs
  BY <1>0 DEF TypeOK
<1> DEFINE Rest ==
              /\ links' \subseteq (DOMAIN row') \X Categories
              /\ images' \subseteq ImageRow
              /\ lock' \in [Viewed -> Requests \cup {NoOne}]
              /\ pc' \in [Requests -> {"idle", "insert", "link", "row", "name", "intent", "key",
                                       "commit", "lock", "product", "categories", "poll"}]
              /\ job' \in [Requests -> Jobs]
              /\ made' \in [Requests -> SUBSET ImageRow]
              /\ shown' \in [Requests -> SUBSET Categories]
              /\ pc'[r] = "idle" => job'[r] = NoJob /\ made'[r] = {}
<1>2. links' = links => links' \subseteq (DOMAIN row') \X Categories
  BY <1>0, RowStep DEF TypeOK
<1>3. ASSUME NEW j \in Jobs, Begins(r, j)
      PROVE  Rest
  BY <1>0, <1>2, <1>3 DEF Begins, Goto, TypeOK, database
<1>4. ASSUME End(r)
      PROVE  /\ pc' \in [Requests -> {"idle", "insert", "link", "row", "name", "intent", "key",
                                      "commit", "lock", "product", "categories", "poll"}]
             /\ job' \in [Requests -> Jobs]
             /\ made' \in [Requests -> SUBSET ImageRow]
             /\ shown' \in [Requests -> SUBSET Categories]
             /\ job'[r] = NoJob /\ made'[r] = {}
  BY <1>0, <1>4, JobsBuilt DEF End, Goto, TypeOK
<1>5. ASSUME Leaves(r)
      PROVE  Rest
  <2>1. lock' \in [Viewed -> Requests \cup {NoOne}]
    BY <1>0, <1>5 DEF Leaves, Unlocked, TypeOK
  <2> QED
    BY <1>0, <1>2, <1>4, <1>5, <2>1 DEF Leaves, TypeOK, database
<1>6. ASSUME Inserts(r) \/ Links(r) \/ Patches(r) \/ Indexes(r) \/ Loads(r) \/ Finds(r)
      PROVE  Rest
  BY <1>0, <1>2, <1>6
     DEF Inserts, Links, Patches, Indexes, Loads, Finds, Advances, Goto, TypeOK, database
<1>7. ASSUME CommitProduct(r)
      PROVE  Rest
  <2>1. job[r].kind = "create" /\ pc[r] = "commit"
    BY <1>7 DEF CommitProduct
  <2>2. job[r].cats \subseteq Categories
    BY <1>0, <2>1 DEF CategoriesExist
  <2>3. job[r].p \in DOMAIN row'
    BY <1>7 DEF CommitProduct
  <2>4. links' \subseteq (DOMAIN row') \X Categories
    BY <1>0, <1>7, <2>2, <2>3, RowStep DEF CommitProduct, TypeOK
  <2> QED
    BY <1>0, <1>4, <1>7, <2>4 DEF CommitProduct, TypeOK
<1>8. ASSUME CommitUpdate(r)
      PROVE  Rest
  BY <1>0, <1>2, <1>4, <1>8 DEF CommitUpdate, TypeOK
<1>9. ASSUME CommitImages(r)
      PROVE  Rest
  BY <1>0, <1>2, <1>4, <1>9 DEF CommitImages, TypeOK
<1>10. ASSUME CreateImageIntent(r)
      PROVE  Rest
  <2>1. NewImage(r) \in ImageRow
    BY <1>10, NewId
  <2>2. made' \in [Requests -> SUBSET ImageRow]
    BY <1>0, <1>10, <2>1 DEF CreateImageIntent, TypeOK
  <2> QED
    BY <1>0, <1>2, <1>10, <2>2 DEF CreateImageIntent, Goto, TypeOK, database
<1>11. ASSUME UpdateStorageKey(r)
      PROVE  Rest
  BY <1>0, <1>2, <1>11, KeyStep DEF UpdateStorageKey, Goto, TypeOK, database
<1>12. ASSUME TryLock(r)
      PROVE  Rest
  BY <1>0, <1>2, <1>12, TryStep DEF TryLock, Goto, TypeOK, database
<1>13. ASSUME SelectCategories(r)
      PROVE  Rest
  <2>1. shown' \in [Requests -> SUBSET Categories]
    BY <1>0, <1>13 DEF SelectCategories, TypeOK
  <2> QED
    BY <1>0, <1>2, <1>13, <2>1 DEF SelectCategories, Goto, TypeOK, database
<1>14. Rest
  BY <1>3, <1>5, <1>6, <1>7, <1>8, <1>9, <1>10, <1>11, <1>12, <1>13 DEF StepOf
<1>15. \A s \in Requests : pc'[s] = "idle" => job'[s] = NoJob /\ made'[s] = {}
  BY <1>0, <1>14, OthersKept DEF TypeOK
<1> QED
  BY <1>14, <1>15, RowStep DEF TypeOK

-----------------------------------------------------------------------------
(* One lemma per part of the invariant.                                    *)

\* Where the request of a step is afterwards.
LEMMA KindsStep ==
    ASSUME CatalogueInv, NEW r \in Requests, StepOf(r)
    PROVE  KindsMatch' /\ CategoriesExist'
<1>0. TypeOK /\ KindsMatch /\ CategoriesExist
  BY DEF CatalogueInv
<1> DEFINE Good == /\ job'[r].kind \in KindsAt(pc'[r])
                   /\ job'[r].kind = "create" /\ pc'[r] = "commit" => job'[r].cats \subseteq Categories
<1>1. ASSUME NEW j \in Jobs, Begins(r, j)
      PROVE  Good
  <2>1. job'[r] = j /\ \A l : Goto(r, l) => pc'[r] = l
    BY <1>0, <1>1 DEF Begins, Goto, TypeOK
  <2> QED
    BY <1>1, <2>1 DEF Begins, Create, Update, Images, Details, KindsAt
<1>2. ASSUME End(r)
      PROVE  Good
  BY <1>0, <1>2, Ended DEF NoJob, KindsAt
<1>3. ASSUME NEW from, NEW to, Advances(r, from, to)
      PROVE  pc[r] = from /\ pc'[r] = to /\ job'[r] = job[r]
  BY <1>0, <1>3 DEF Advances, Goto, TypeOK
<1>4. ASSUME Inserts(r) \/ Links(r) \/ Indexes(r) \/ Loads(r) \/ Finds(r)
      PROVE  Good
  BY <1>0, <1>3, <1>4 DEF Inserts, Links, Indexes, Loads, Finds, KindsMatch, KindsAt
<1>5. ASSUME Patches(r)
      PROVE  Good
  <2>1. pc[r] = "row" /\ pc'[r] \in {"name", "commit"} /\ job'[r] = job[r]
    BY <1>3, <1>5 DEF Patches
  <2> QED
    BY <1>0, <2>1 DEF KindsMatch, KindsAt
<1>6. ASSUME CreateImageIntent(r)
      PROVE  Good
  <2>1. pc[r] = "intent" /\ pc'[r] = "key" /\ job'[r] = job[r]
    BY <1>0, <1>6 DEF CreateImageIntent, Goto, TypeOK
  <2> QED
    BY <1>0, <2>1 DEF KindsMatch, KindsAt
<1>7. ASSUME UpdateStorageKey(r)
      PROVE  Good
  <2>1. pc'[r] = "intent"
    BY <1>0, <1>7 DEF UpdateStorageKey, Goto, TypeOK
  <2>2. job'[r] = Images(job[r].user, job[r].p, Tail(job[r].todo))
    BY <1>7, KeyStep
  <2>3. job'[r].kind = "images"
    BY <2>2 DEF Images
  <2> QED
    BY <2>1, <2>3 DEF KindsAt
<1>8. ASSUME TryLock(r)
      PROVE  Good
  <2>1. pc'[r] \in {"product", "poll"}
    BY <1>0, <1>8 DEF TryLock, Goto, TypeOK
  <2> QED
    BY <1>8, <2>1, TryStep DEF KindsAt
<1>9. ASSUME SelectCategories(r)
      PROVE  Good
  <2>1. pc[r] = "categories" /\ pc'[r] = "commit" /\ job'[r] = job[r]
    BY <1>0, <1>9 DEF SelectCategories, Goto, TypeOK
  <2> QED
    BY <1>0, <2>1 DEF KindsMatch, KindsAt
<1>10. Good
  BY <1>1, <1>2, <1>4, <1>5, <1>6, <1>7, <1>8, <1>9
     DEF StepOf, Leaves, CommitProduct, CommitUpdate, CommitImages
<1>11. ASSUME NEW s \in Requests
       PROVE  /\ job'[s].kind \in KindsAt(pc'[s])
              /\ job'[s].kind = "create" /\ pc'[s] = "commit" => job'[s].cats \subseteq Categories
  BY <1>0, <1>10, OthersKept DEF KindsMatch, CategoriesExist
<1> QED
  BY <1>11 DEF KindsMatch, CategoriesExist, KindsAt

\* Either a request begins now, or it ends, or it is about the same product,
\* for the same user and under the same name as before.
LEMMA JobStep ==
    ASSUME CatalogueInv, NEW r \in Requests, StepOf(r)
    PROVE  \/ \E j \in Jobs : Begins(r, j) /\ job'[r] = j
           \/ pc'[r] = "idle" /\ job'[r] = NoJob
           \/ /\ ~End(r)
              /\ job'[r].kind = job[r].kind /\ job'[r].p = job[r].p
              /\ job[r].kind \in {"update", "images"} => job'[r].user = job[r].user
              /\ job[r].kind \in {"create", "update"} => job'[r] = job[r]
<1>0. TypeOK
  BY DEF CatalogueInv
<1>1. ASSUME NEW j \in Jobs, Begins(r, j)
      PROVE  job'[r] = j
  BY <1>0, <1>1 DEF Begins, TypeOK
<1>2. CASE End(r)
  BY <1>0, <1>2, Ended
<1>3. CASE job'[r] = job[r] /\ ~End(r)
  BY <1>3
<1>4. CASE UpdateStorageKey(r) /\ ~End(r)
  <2>1. job[r].kind = "images" /\ job'[r] = Images(job[r].user, job[r].p, Tail(job[r].todo))
    BY <1>4, KeyStep
  <2>2. job'[r].kind = "images" /\ job'[r].user = job[r].user /\ job'[r].p = job[r].p
    BY <2>1 DEF Images
  <2> QED
    BY <1>4, <2>1, <2>2
<1>5. CASE TryLock(r) /\ ~End(r)
  BY <1>5, TryStep
<1>6. ASSUME Inserts(r) \/ Links(r) \/ Patches(r) \/ Indexes(r) \/ Loads(r) \/ Finds(r)
             \/ CreateImageIntent(r) \/ SelectCategories(r)
      PROVE  job'[r] = job[r]
  BY <1>6 DEF Inserts, Links, Patches, Indexes, Loads, Finds, Advances, CreateImageIntent,
              SelectCategories
<1> QED
  BY <1>1, <1>2, <1>3, <1>4, <1>5, <1>6
     DEF StepOf, Leaves, CommitProduct, CommitUpdate, CommitImages

\* The product that an update, an upload or a reader has found stays.
LEMMA ProductsKnownStep ==
    ASSUME CatalogueInv, NEW r \in Requests, StepOf(r)
    PROVE  ProductsKnown'
<1>0. TypeOK /\ KindsMatch /\ ProductsKnown
  BY DEF CatalogueInv
<1> DEFINE Known(s) ==
              /\ job'[s].kind \in {"update", "images"} =>
                    job'[s].p \in DOMAIN row' /\ row'[job'[s].p].owner = job'[s].user
              /\ job'[s].kind = "details" /\ pc'[s] \in {"categories", "commit"} =>
                    job'[s].p \in DOMAIN row'
<1>1. ASSUME NEW s \in Requests \ {r}
      PROVE  Known(s)
  <2>1. pc'[s] = pc[s] /\ job'[s] = job[s]
    BY <1>0, OthersKept
  <2> QED
    BY <1>0, <2>1, RowStep DEF ProductsKnown
<1>2. ASSUME NEW j \in Jobs, Begins(r, j), job'[r] = j
      PROVE  Known(r)
  <2>1. \A l : Goto(r, l) => pc'[r] = l
    BY <1>0 DEF Goto, TypeOK
  <2>2. row' = row
    BY <1>2 DEF Begins, database
  <2> QED
    BY <1>2, <2>1, <2>2 DEF Begins, Create, Update, Images, Details, FindProduct
<1>3. ASSUME job'[r] = NoJob
      PROVE  Known(r)
  BY <1>3 DEF NoJob
<1>4. ASSUME ~End(r), job'[r].kind = job[r].kind, job'[r].p = job[r].p,
             job[r].kind \in {"update", "images"} => job'[r].user = job[r].user
      PROVE  Known(r)
  <2>1. job'[r].kind \in {"update", "images"} =>
           job'[r].p \in DOMAIN row' /\ row'[job'[r].p].owner = job'[r].user
    BY <1>0, <1>4, RowStep DEF ProductsKnown
  <2>2. ASSUME job'[r].kind = "details", pc'[r] \in {"categories", "commit"}
        PROVE  job[r].p \in DOMAIN row
    <3>1. ASSUME NEW from, NEW to, Advances(r, from, to)
          PROVE  pc[r] = from /\ pc'[r] = to
      BY <1>0, <3>1 DEF Advances, Goto, TypeOK
    <3>2. CASE Finds(r)
      BY <3>2 DEF Finds
    <3>3. CASE SelectCategories(r)
      BY <1>0, <1>4, <2>2, <3>3 DEF SelectCategories, ProductsKnown
    <3>4. CASE Inserts(r) \/ Links(r) \/ Patches(r) \/ Indexes(r) \/ Loads(r)
      <4>1. pc[r] \in {"insert", "link", "row", "name"} \/ pc'[r] = "product"
        BY <3>1, <3>4 DEF Inserts, Links, Patches, Indexes, Loads
      <4>2. pc[r] \notin {"insert", "link", "row", "name"}
        BY <1>0, <1>4, <2>2 DEF KindsMatch, KindsAt
      <4> QED
        BY <2>2, <4>1, <4>2
    <3>5. CASE CreateImageIntent(r) \/ UpdateStorageKey(r) \/ TryLock(r)
      BY <1>0, <2>2, <3>5 DEF CreateImageIntent, UpdateStorageKey, TryLock, Goto, TypeOK
    <3>6. CASE \E j \in Jobs : Begins(r, j)
      <4>1. pc[r] = "idle" /\ job[r].kind = "details"
        BY <1>4, <2>2, <3>6 DEF Begins
      <4> QED
        BY <1>0, <4>1 DEF KindsMatch, KindsAt
    <3> QED
      BY <1>4, <3>2, <3>3, <3>4, <3>5, <3>6
         DEF StepOf, Leaves, CommitProduct, CommitUpdate, CommitImages
  <2> QED
    BY <1>4, <2>1, <2>2, RowStep
<1>5. Known(r)
  BY <1>2, <1>3, <1>4, JobStep
<1>6. \A s \in Requests : Known(s)
  BY <1>1, <1>5
<1> QED
  BY <1>6 DEF ProductsKnown

\* The id of a product that is being created stays new and its own.
LEMMA CreatesFreshStep ==
    ASSUME CatalogueInv, NEW r \in Requests, StepOf(r)
    PROVE  CreatesFresh'
<1>0. TypeOK /\ CreatesFresh
  BY DEF CatalogueInv
<1>1. \A s \in Requests \ {r} : job'[s] = job[s]
  BY <1>0, OthersKept
<1>2. ASSUME NEW s \in Requests \ {r}, job[s].kind = "create"
      PROVE  job[s].p \notin DOMAIN row'
  <2> SUFFICES ASSUME job[s].p \in DOMAIN row'
               PROVE  FALSE
    OBVIOUS
  <2>1. job[s].p \notin DOMAIN row
    BY <1>0, <1>2 DEF CreatesFresh
  <2>2. CommitProduct(r) /\ job[s].p = job[r].p
    BY <2>1, RowStep
  <2>3. job[r].kind = "create"
    BY <2>2 DEF CommitProduct
  <2> QED
    BY <1>0, <1>2, <2>2, <2>3 DEF CreatesFresh
<1>3. ASSUME job'[r].kind = "create"
      PROVE  /\ job'[r].p \notin DOMAIN row'
             /\ \A s \in Requests \ {r} : job[s].kind = "create" => job[s].p # job'[r].p
  <2>1. ASSUME NEW j \in Jobs, Begins(r, j), job'[r] = j
        PROVE  /\ j.p \notin DOMAIN row'
               /\ \A s \in Requests \ {r} : job[s].kind = "create" => job[s].p # j.p
    <3>1. j.kind = "create"
      BY <1>3, <2>1
    <3>2. Fresh(j.p)
      BY <2>1, <3>1 DEF Begins, Create, Update, Images, Details
    <3>3. row' = row
      BY <2>1 DEF Begins, database
    <3> QED
      BY <3>2, <3>3 DEF Fresh
  <2>2. CASE job'[r] = NoJob
    BY <1>3, <2>2 DEF NoJob
  <2>3. CASE ~End(r) /\ job'[r].kind = job[r].kind /\ job'[r].p = job[r].p
    <3>1. ~CommitProduct(r)
      BY <2>3 DEF CommitProduct
    <3> QED
      BY <1>0, <1>3, <2>3, <3>1, RowStep DEF CreatesFresh
  <2> QED
    BY <2>1, <2>2, <2>3, JobStep
<1>4. ASSUME NEW s \in Requests, job'[s].kind = "create"
      PROVE  job'[s].p \notin DOMAIN row'
  BY <1>1, <1>2, <1>3, <1>4
<1>5. ASSUME NEW s \in Requests, NEW t \in Requests, job'[s].kind = "create",
             job'[t].kind = "create", job'[s].p = job'[t].p
      PROVE  s = t
  <2>1. CASE s # r /\ t # r
    BY <1>0, <1>1, <1>5, <2>1 DEF CreatesFresh
  <2> QED
    BY <1>1, <1>3, <1>5, <2>1
<1> QED
  BY <1>4, <1>5 DEF CreatesFresh

-----------------------------------------------------------------------------
(* Names.                                                                  *)

\* The row that an open update has written is not renamed by another request,
\* so what it has in the index stays the same.
LEMMA NamesKept ==
    ASSUME CatalogueInv, NEW r \in Requests, StepOf(r), NEW s \in Requests \ {r}
    PROVE  /\ NamesOf(s)' = NamesOf(s)
           /\ Enters(s)' <=> Enters(s)
           /\ pc[s] = "name" => Renames(s)'
<1>0. TypeOK /\ KindsMatch /\ ProductsKnown /\ OneWriterPerRow
  BY DEF CatalogueInv
<1>1. pc'[s] = pc[s] /\ job'[s] = job[s]
  BY <1>0, OthersKept
<1>2. CASE job[s].kind = "update" /\ pc[s] \in {"name", "commit"}
  <2>1. job[s].p \in DOMAIN row /\ job[s].p \in Products
    BY <1>0, <1>2 DEF ProductsKnown, TypeOK
  <2>2. row'[job[s].p] = row[job[s].p]
    <3> SUFFICES ASSUME row'[job[s].p] # row[job[s].p]
                 PROVE  FALSE
      OBVIOUS
    <3>1. CommitUpdate(r) /\ job[s].p = job[r].p
      BY <2>1, RowStep
    <3>2. HasRow(r, job[s].p) /\ HasRow(s, job[s].p)
      BY <1>2, <3>1 DEF HasRow, CommitUpdate
    <3> QED
      BY <1>0, <2>1, <3>2 DEF OneWriterPerRow
  <2>3. Renames(s)' <=> Renames(s)
    BY <1>1, <2>2 DEF Renames
  <2>4. pc[s] = "name" => Renames(s)
    BY <1>0 DEF OneWriterPerRow
  <2>5. Enters(s)' <=> Enters(s)
    BY <1>1, <2>3 DEF Enters
  <2>6. NamesOf(s)' = NamesOf(s)
    BY <1>1, <2>2, <2>3 DEF NamesOf
  <2> QED
    BY <2>3, <2>4, <2>5, <2>6
<1>3. CASE ~(job[s].kind = "update" /\ pc[s] \in {"name", "commit"})
  <2>1. pc[s] # "name"
    BY <1>0, <1>3 DEF KindsMatch, KindsAt
  <2>2. Enters(s)' <=> Enters(s)
    BY <1>1, <1>3 DEF Enters
  <2>3. NamesOf(s)' = NamesOf(s)
    BY <1>1, <1>3 DEF NamesOf
  <2> QED
    BY <2>1, <2>2, <2>3
<1> QED
  BY <1>2, <1>3

\* What a request has in the index, by where it is.
LEMMA NamesAt ==
    ASSUME NEW r \in Requests
    PROVE  /\ Enters(r) => job[r].name \in NamesOf(r)
           /\ \A n \in NamesOf(r) :
                 \/ Enters(r) /\ n = job[r].name
                 \/ /\ job[r].kind = "update" /\ pc[r] \in {"name", "commit"}
                    /\ n = row[job[r].p].name
<1>1. CASE job[r].kind = "create"
  BY <1>1 DEF Enters, NamesOf
<1>2. CASE job[r].kind # "create"
  BY <1>2 DEF Enters, NamesOf
<1> QED
  BY <1>1, <1>2

\* What the steps of a request do to its own part of the index.
LEMMA OwnNames ==
    ASSUME CatalogueInv, NEW r \in Requests, StepOf(r)
    PROVE  \/ NamesOf(r)' = {} /\ ~Enters(r)' /\ pc'[r] # "name"
           \/ /\ Inserts(r) /\ job[r].kind = "create" /\ row' = row /\ job' = job
              /\ NamesOf(r)' = {job[r].name}
           \/ /\ Links(r) /\ job[r].kind = "create" /\ row' = row /\ job' = job
              /\ NamesOf(r)' = NamesOf(r) /\ Enters(r) /\ pc'[r] # "name"
           \/ /\ Patches(r) /\ job[r].kind = "update" /\ row' = row /\ job' = job
              /\ pc'[r] = "name" /\ Renames(r)'
              /\ NamesOf(r)' = {row[job[r].p].name} /\ ~Enters(r)'
           \/ /\ Indexes(r) /\ job[r].kind = "update" /\ row' = row /\ job' = job
              /\ pc'[r] = "commit"
              /\ NamesOf(r)' = NamesOf(r) \cup {job[r].name}
<1>0. TypeOK /\ KindsMatch /\ OneWriterPerRow
  BY DEF CatalogueInv
<1>1. ASSUME NEW from, NEW to, Advances(r, from, to)
      PROVE  pc[r] = from /\ pc'[r] = to /\ job' = job /\ row' = row
  BY <1>0, <1>1 DEF Advances, Goto, TypeOK, database
<1>2. CASE Inserts(r)
  <2>1. pc[r] = "insert" /\ pc'[r] = "link" /\ job' = job /\ row' = row
    BY <1>1, <1>2 DEF Inserts
  <2>2. job[r].kind = "create"
    BY <1>0, <2>1 DEF KindsMatch, KindsAt
  <2>3. NamesOf(r)' = {job[r].name}
    BY <2>1, <2>2 DEF NamesOf
  <2> QED
    BY <1>2, <2>1, <2>2, <2>3
<1>3. CASE Links(r)
  <2>1. pc[r] = "link" /\ pc'[r] = "commit" /\ job' = job /\ row' = row
    BY <1>1, <1>3 DEF Links
  <2>2. job[r].kind = "create"
    BY <1>0, <2>1 DEF KindsMatch, KindsAt
  <2>3. NamesOf(r)' = NamesOf(r) /\ Enters(r)
    BY <2>1, <2>2 DEF NamesOf, Enters
  <2> QED
    BY <1>3, <2>1, <2>2, <2>3
<1>4. CASE Patches(r) /\ Renames(r)
  <2>1. pc[r] = "row" /\ pc'[r] = "name" /\ job' = job /\ row' = row
    BY <1>1, <1>4 DEF Patches
  <2>2. job[r].kind = "update" /\ Renames(r)'
    BY <1>4, <2>1 DEF Renames
  <2>3. NamesOf(r)' = {row[job[r].p].name} /\ ~Enters(r)'
    BY <2>1, <2>2 DEF NamesOf, Enters
  <2> QED
    BY <1>4, <2>1, <2>2, <2>3
<1>5. CASE Patches(r) /\ ~Renames(r)
  <2>1. pc[r] = "row" /\ pc'[r] = "commit" /\ job' = job /\ row' = row
    BY <1>1, <1>5 DEF Patches
  <2>2. job[r].kind = "update" /\ ~Renames(r)'
    BY <1>0, <1>5, <2>1 DEF Renames, KindsMatch, KindsAt
  <2>3. NamesOf(r)' = {} /\ ~Enters(r)'
    BY <2>1, <2>2 DEF NamesOf, Enters
  <2> QED
    BY <2>1, <2>3
<1>6. CASE Indexes(r)
  <2>1. pc[r] = "name" /\ pc'[r] = "commit" /\ job' = job /\ row' = row
    BY <1>1, <1>6 DEF Indexes
  <2>2. job[r].kind = "update" /\ Renames(r) /\ Renames(r)'
    BY <1>0, <2>1 DEF KindsMatch, KindsAt, OneWriterPerRow, Renames
  <2>3. NamesOf(r) = {row[job[r].p].name} /\ NamesOf(r)' = {row[job[r].p].name, job[r].name}
    BY <2>1, <2>2 DEF NamesOf
  <2> QED
    BY <1>6, <2>1, <2>2, <2>3
<1>7. CASE \/ pc'[r] \notin {"link", "name", "commit"}
           \/ job'[r].kind \in {"images", "details"} /\ pc'[r] # "name"
  BY <1>7 DEF NamesOf, Enters
<1>8. ASSUME End(r)
      PROVE  pc'[r] = "idle"
  BY <1>0, <1>8, Ended
<1>9. CASE \E j \in Jobs : Begins(r, j)
  <2>1. pc'[r] \in {"insert", "row", "intent", "lock"}
    BY <1>0, <1>9 DEF Begins, Goto, TypeOK
  <2> QED
    BY <1>7, <2>1
<1>10. CASE Loads(r) \/ Finds(r)
  <2>1. pc'[r] \in {"product", "categories"}
    BY <1>1, <1>10 DEF Loads, Finds
  <2> QED
    BY <1>7, <2>1
<1>11. CASE CreateImageIntent(r) \/ UpdateStorageKey(r) \/ TryLock(r)
  <2>1. pc'[r] \in {"key", "intent", "product", "poll"}
    BY <1>0, <1>11 DEF CreateImageIntent, UpdateStorageKey, TryLock, Goto, TypeOK
  <2> QED
    BY <1>7, <2>1
<1>12. CASE SelectCategories(r)
  <2>1. pc[r] = "categories" /\ pc'[r] = "commit" /\ job'[r] = job[r]
    BY <1>0, <1>12 DEF SelectCategories, Goto, TypeOK
  <2>2. job[r].kind = "details"
    BY <1>0, <2>1 DEF KindsMatch, KindsAt
  <2> QED
    BY <1>7, <2>1, <2>2
<1>13. CASE Leaves(r) \/ CommitProduct(r) \/ CommitUpdate(r) \/ CommitImages(r)
  BY <1>7, <1>8, <1>13 DEF Leaves, CommitProduct, CommitUpdate, CommitImages
<1> QED
  BY <1>2, <1>3, <1>4, <1>5, <1>6, <1>9, <1>10, <1>11, <1>12, <1>13 DEF StepOf

\* PatchProduct waits for the transaction that has the row, and goes to the
\* index only to change the name.
LEMMA OneWriterStep ==
    ASSUME CatalogueInv, NEW r \in Requests, StepOf(r)
    PROVE  OneWriterPerRow'
<1>0. TypeOK /\ KindsMatch /\ OneWriterPerRow
  BY DEF CatalogueInv
<1>1. \A s \in Requests \ {r} : pc'[s] = pc[s] /\ job'[s] = job[s]
  BY <1>0, OthersKept
<1>2. \A s \in Requests \ {r}, p \in Products : HasRow(s, p)' <=> HasRow(s, p)
  BY <1>1 DEF HasRow
<1>3. ASSUME NEW p \in Products, HasRow(r, p)'
      PROVE  \A s \in Requests \ {r} : ~HasRow(s, p)
  <2>1. job'[r].kind = "update" /\ job'[r].p = p /\ pc'[r] \in {"name", "commit"}
    BY <1>3 DEF HasRow
  <2>2. ASSUME NEW from, NEW to, Advances(r, from, to)
        PROVE  pc[r] = from /\ pc'[r] = to /\ job'[r] = job[r]
    BY <1>0, <2>2 DEF Advances, Goto, TypeOK
  <2>3. CASE Patches(r)
    <3>1. pc[r] = "row" /\ job'[r] = job[r] /\ WaitsFor(r) = {}
      BY <2>2, <2>3 DEF Patches
    <3> QED
      BY <2>1, <3>1 DEF WaitsFor
  <2>4. CASE Indexes(r)
    <3>1. pc[r] = "name" /\ job'[r] = job[r]
      BY <2>2, <2>4 DEF Indexes
    <3>2. HasRow(r, p)
      BY <2>1, <3>1 DEF HasRow
    <3> QED
      BY <1>0, <3>2 DEF OneWriterPerRow
  <2>5. CASE Inserts(r) \/ Links(r) \/ Loads(r) \/ Finds(r)
    <3>1. pc[r] \in {"insert", "link", "poll", "product"} /\ job'[r] = job[r]
      BY <2>2, <2>5 DEF Inserts, Links, Loads, Finds
    <3> QED
      BY <1>0, <2>1, <3>1 DEF KindsMatch, KindsAt
  <2>6. CASE \E j \in Jobs : Begins(r, j)
    BY <1>0, <2>1, <2>6 DEF Begins, Goto, TypeOK
  <2>7. CASE CreateImageIntent(r) \/ UpdateStorageKey(r) \/ TryLock(r)
    BY <1>0, <2>1, <2>7 DEF CreateImageIntent, UpdateStorageKey, TryLock, Goto, TypeOK
  <2>8. CASE SelectCategories(r)
    <3>1. pc[r] = "categories" /\ job'[r] = job[r]
      BY <2>8 DEF SelectCategories
    <3> QED
      BY <1>0, <2>1, <3>1 DEF KindsMatch, KindsAt
  <2>9. CASE End(r)
    BY <1>0, <2>1, <2>9, Ended
  <2> QED
    BY <2>3, <2>4, <2>5, <2>6, <2>7, <2>8, <2>9
       DEF StepOf, Leaves, CommitProduct, CommitUpdate, CommitImages
<1>4. ASSUME NEW s \in Requests, NEW t \in Requests, NEW p \in Products,
             HasRow(s, p)', HasRow(t, p)'
      PROVE  s = t
  <2>1. CASE s # r /\ t # r
    BY <1>0, <1>2, <1>4, <2>1 DEF OneWriterPerRow
  <2> QED
    BY <1>2, <1>3, <1>4, <2>1
<1>5. ASSUME NEW s \in Requests, pc'[s] = "name"
      PROVE  Renames(s)'
  <2>1. CASE s # r
    BY <1>1, <1>5, <2>1, NamesKept
  <2>2. CASE s = r
    <3>1. ~Inserts(r)
      BY <1>0, <1>5, <2>2 DEF Inserts, Advances, Goto, TypeOK
    <3> QED
      BY <1>5, <2>2, <3>1, OwnNames
  <2> QED
    BY <2>1, <2>2
<1> QED
  BY <1>4, <1>5 DEF OneWriterPerRow

\* A commit adds only a name that its request had in the index, so no other
\* request's.
LEMMA NamesFreeStep ==
    ASSUME CatalogueInv, NEW r \in Requests, StepOf(r)
    PROVE  NamesFree'
<1>0. TypeOK /\ NamesFree /\ NamesApart
  BY DEF CatalogueInv
<1> SUFFICES ASSUME NEW s \in Requests, Enters(s)', NEW q \in DOMAIN row' \ {job'[s].p},
                    row'[q].name = job'[s].name
             PROVE  FALSE
  BY DEF NamesFree, Taken
<1>1. CASE s # r
  <2>1. job'[s] = job[s] /\ Enters(s)
    BY <1>0, <1>1, OthersKept, NamesKept
  <2>2. job[s].name \in NamesOf(s) /\ ~Taken(job[s].name, job[s].p)
    BY <1>0, <2>1, NamesAt DEF NamesFree
  <2>3. ~(q \in DOMAIN row /\ row'[q] = row[q])
    BY <2>1, <2>2 DEF Taken
  <2>4. /\ row'[q].name = job[r].name
        /\ (CommitUpdate(r) /\ Renames(r)) \/ CommitProduct(r)
    BY <2>3, RowStep
  <2>5. Enters(r)
    BY <2>4 DEF CommitUpdate, CommitProduct, Enters
  <2>6. job[r].name \in NamesOf(r)
    BY <2>5, NamesAt
  <2> QED
    BY <1>0, <1>1, <2>1, <2>2, <2>4, <2>6 DEF NamesApart
<1>2. CASE s = r
  <2>1. row' = row /\ job' = job /\ (Inserts(r) \/ (Links(r) /\ Enters(r)) \/ Indexes(r))
    BY <1>2, OwnNames
  <2>2. ~Taken(job[r].name, job[r].p)
    BY <1>0, <2>1 DEF Inserts, Indexes, NamesFree
  <2> QED
    BY <1>2, <2>1, <2>2 DEF Taken
<1> QED
  BY <1>1, <1>2

\* An INSERT and a rename wait for the name; and the name that a rename is
\* about to free belongs to its own product alone.
LEMMA NamesApartStep ==
    ASSUME CatalogueInv, NEW r \in Requests, StepOf(r)
    PROVE  NamesApart'
<1>0. /\ TypeOK /\ ProductsKnown /\ CreatesFresh /\ NamesFree /\ NamesApart /\ NamesUnique
      /\ KindsMatch
  BY DEF CatalogueInv
<1>1. \A s \in Requests \ {r} : NamesOf(s)' = NamesOf(s)
  BY NamesKept
<1>2. ASSUME NEW s \in Requests \ {r}, NEW n \in NamesOf(r)'
      PROVE  n \notin NamesOf(s)
  <2>1. ASSUME WaitsFor(r) = {}, pc[r] \in {"insert", "name"}
        PROVE  job[r].name \notin NamesOf(s)
    BY <2>1 DEF WaitsFor
  <2>2. CASE Inserts(r) /\ NamesOf(r)' = {job[r].name}
    BY <1>2, <2>1, <2>2 DEF Inserts, Advances
  <2>3. CASE NamesOf(r)' = NamesOf(r)
    BY <1>0, <1>2, <2>3 DEF NamesApart
  <2>4. CASE Indexes(r) /\ NamesOf(r)' = NamesOf(r) \cup {job[r].name}
    BY <1>0, <1>2, <2>1, <2>4 DEF Indexes, Advances, NamesApart
  <2>5. CASE Patches(r) /\ job[r].kind = "update" /\ NamesOf(r)' = {row[job[r].p].name}
    <3>1. n = row[job[r].p].name /\ job[r].p \in DOMAIN row
      BY <1>0, <1>2, <2>5 DEF ProductsKnown
    <3>2. ~HasRow(s, job[r].p)
      BY <2>5 DEF Patches, Advances, WaitsFor
    <3> SUFFICES ASSUME n \in NamesOf(s)
                 PROVE  FALSE
      OBVIOUS
    <3>3. CASE Enters(s) /\ n = job[s].name
      <4>1. ~Taken(n, job[s].p)
        BY <1>0, <3>3 DEF NamesFree
      <4>2. job[s].p = job[r].p
        BY <3>1, <4>1 DEF Taken
      <4>3. job[s].kind = "create"
        BY <3>2, <3>3, <4>2 DEF Enters, HasRow
      <4> QED
        BY <1>0, <3>1, <4>2, <4>3 DEF CreatesFresh
    <3>4. CASE /\ job[s].kind = "update" /\ pc[s] \in {"name", "commit"}
               /\ n = row[job[s].p].name
      <4>1. job[s].p # job[r].p
        BY <3>2, <3>4 DEF HasRow
      <4>2. job[s].p \in DOMAIN row
        BY <1>0, <3>4 DEF ProductsKnown
      <4> QED
        BY <1>0, <3>1, <3>4, <4>1, <4>2 DEF NamesUnique
    <3> QED
      BY <3>3, <3>4, NamesAt
  <2> QED
    BY <1>2, <2>2, <2>3, <2>4, <2>5, OwnNames
<1>3. ASSUME NEW s \in Requests, NEW t \in Requests, s # t
      PROVE  NamesOf(s)' \cap NamesOf(t)' = {}
  <2>1. CASE s # r /\ t # r
    BY <1>0, <1>1, <1>3, <2>1 DEF NamesApart
  <2>2. CASE s = r
    BY <1>1, <1>2, <1>3, <2>2
  <2>3. CASE t = r
    BY <1>1, <1>2, <1>3, <2>3
  <2> QED
    BY <2>1, <2>2, <2>3
<1> QED
  BY <1>3 DEF NamesApart

\* The name that a commit adds is no other product's.
LEMMA NamesUniqueStep ==
    ASSUME CatalogueInv, NEW r \in Requests, StepOf(r)
    PROVE  NamesUnique'
<1>0. NamesFree /\ NamesUnique
  BY DEF CatalogueInv
<1> DEFINE Old(p) == p \in DOMAIN row /\ row'[p] = row[p]
<1>1. ASSUME NEW p \in DOMAIN row', ~Old(p)
      PROVE  p = job[r].p /\ row'[p].name = job[r].name /\ ~Taken(job[r].name, p)
  <2>1. /\ p = job[r].p /\ row'[p].name = job[r].name
        /\ (CommitUpdate(r) /\ Renames(r)) \/ CommitProduct(r)
    BY <1>1, RowStep
  <2>2. Enters(r)
    BY <2>1 DEF CommitUpdate, CommitProduct, Enters
  <2> QED
    BY <1>0, <2>1, <2>2 DEF NamesFree
<1>2. ASSUME NEW p \in DOMAIN row', NEW q \in DOMAIN row', p # q
      PROVE  row'[p].name # row'[q].name
  <2>1. CASE Old(p) /\ Old(q)
    BY <1>0, <1>2, <2>1 DEF NamesUnique
  <2>2. CASE ~Old(p)
    BY <1>1, <1>2, <2>2 DEF Taken
  <2>3. CASE ~Old(q)
    BY <1>1, <1>2, <2>3 DEF Taken
  <2> QED
    BY <2>1, <2>2, <2>3
<1> QED
  BY <1>2 DEF NamesUnique

-----------------------------------------------------------------------------
(* Details and images.                                                     *)

\* The links of a product come with it.
LEMMA LinksStep ==
    ASSUME CatalogueInv, NEW r \in Requests, StepOf(r), NEW p \in DOMAIN row, NEW c
    PROVE  <<p, c>> \in links' <=> <<p, c>> \in links
<1>0. TypeOK /\ CreatesFresh
  BY DEF CatalogueInv
<1>1. CASE links' = links
  BY <1>1
<1>2. CASE CommitProduct(r)
  <2>1. job[r].p \notin DOMAIN row
    BY <1>0, <1>2 DEF CommitProduct, CreatesFresh
  <2>2. links' = links \cup ({job[r].p} \X job[r].cats)
    BY <1>2 DEF CommitProduct
  <2> QED
    BY <2>1, <2>2
<1>3. CASE \E j \in Jobs : Begins(r, j)
  BY <1>1, <1>3 DEF Begins, database
<1>4. CASE Leaves(r)
  BY <1>1, <1>4 DEF Leaves, database
<1>5. CASE Inserts(r) \/ Links(r) \/ Patches(r) \/ Indexes(r) \/ Loads(r) \/ Finds(r)
  BY <1>1, <1>5 DEF Inserts, Links, Patches, Indexes, Loads, Finds, Advances, database
<1>6. CASE CreateImageIntent(r) \/ UpdateStorageKey(r) \/ CommitImages(r) \/ TryLock(r)
           \/ SelectCategories(r) \/ CommitUpdate(r)
  BY <1>1, <1>6 DEF CreateImageIntent, UpdateStorageKey, CommitImages, TryLock,
                    SelectCategories, CommitUpdate, database
<1> QED
  BY <1>2, <1>3, <1>4, <1>5, <1>6 DEF StepOf

\* A reader has found the product, so its categories no longer change.
LEMMA DetailsStep ==
    ASSUME CatalogueInv, NEW r \in Requests, StepOf(r)
    PROVE  DetailsComplete'
<1>0. TypeOK /\ KindsMatch /\ ProductsKnown /\ DetailsComplete
  BY DEF CatalogueInv
<1> SUFFICES ASSUME NEW s \in Requests, pc'[s] = "commit", job'[s].kind = "details"
             PROVE  shown'[s] = {c \in Categories : <<job'[s].p, c>> \in links'}
  BY DEF DetailsComplete
<1>1. CASE s # r
  <2>1. pc'[s] = pc[s] /\ job'[s] = job[s] /\ shown'[s] = shown[s]
    BY <1>0, <1>1, OthersKept
  <2>2. job[s].p \in DOMAIN row
    BY <1>0, <2>1 DEF ProductsKnown
  <2>3. shown[s] = {c \in Categories : <<job[s].p, c>> \in links}
    BY <1>0, <2>1 DEF DetailsComplete
  <2> QED
    BY <2>1, <2>2, <2>3, LinksStep
<1>2. CASE s = r
  <2>1. CASE SelectCategories(r)
    BY <1>0, <1>2, <2>1 DEF SelectCategories, TypeOK, database
  <2>2. ASSUME NEW from, NEW to, Advances(r, from, to)
        PROVE  pc[r] = from /\ pc'[r] = to /\ job'[r] = job[r]
    BY <1>0, <2>2 DEF Advances, Goto, TypeOK
  <2>3. CASE Inserts(r) \/ Links(r) \/ Patches(r) \/ Indexes(r) \/ Loads(r) \/ Finds(r)
    <3>1. /\ pc[r] \in {"insert", "link", "row", "name"} \/ pc'[r] \in {"product", "categories"}
          /\ job'[r] = job[r]
      BY <2>2, <2>3 DEF Inserts, Links, Patches, Indexes, Loads, Finds
    <3>2. pc[r] \notin {"insert", "link", "row", "name"}
      BY <1>0, <1>2, <3>1 DEF KindsMatch, KindsAt
    <3> QED
      BY <1>2, <3>1, <3>2
  <2>4. CASE \E j \in Jobs : Begins(r, j)
    BY <1>0, <1>2, <2>4 DEF Begins, Goto, TypeOK
  <2>5. CASE CreateImageIntent(r) \/ UpdateStorageKey(r) \/ TryLock(r)
    BY <1>0, <1>2, <2>5 DEF CreateImageIntent, UpdateStorageKey, TryLock, Goto, TypeOK
  <2>6. CASE End(r)
    BY <1>0, <1>2, <2>6, Ended
  <2> QED
    BY <2>1, <2>3, <2>4, <2>5, <2>6
       DEF StepOf, Leaves, CommitProduct, CommitUpdate, CommitImages
<1> QED
  BY <1>1, <1>2

\* What a step does to the images: nothing, a new row of the open batch, its
\* key, the commit of the batch, or the loss of an open one.
LEMMA ImageStep ==
    ASSUME CatalogueInv, NEW r \in Requests, StepOf(r)
    PROVE  \/ CreateImageIntent(r)
           \/ UpdateStorageKey(r)
           \/ CommitImages(r)
           \/ images' = images /\ made' = [made EXCEPT ![r] = {}] /\ pc'[r] = "idle"
           \/ /\ images' = images /\ made' = made /\ made[r] = {}
              /\ pc[r] \notin {"intent", "key"}
              /\ pc'[r] # "key"
              /\ \/ \E j \in Jobs : Begins(r, j)
                 \/ job[r].kind # "images" /\ job'[r].kind # "images"
<1>0. TypeOK /\ KindsMatch /\ BatchInOrder
  BY DEF CatalogueInv
<1>1. ASSUME NEW j \in Jobs, Begins(r, j)
      PROVE  /\ images' = images /\ made' = made /\ made[r] = {}
             /\ pc[r] \notin {"intent", "key"} /\ pc'[r] # "key"
  <2>1. pc[r] = "idle"
    BY <1>1 DEF Begins
  <2>2. pc'[r] # "key"
    BY <1>0, <1>1 DEF Begins, Goto, TypeOK
  <2>3. made[r] = {}
    BY <1>0, <2>1 DEF TypeOK
  <2> QED
    BY <1>1, <2>1, <2>2, <2>3 DEF Begins, database
<1>2. ASSUME End(r), images' = images
      PROVE  images' = images /\ made' = [made EXCEPT ![r] = {}] /\ pc'[r] = "idle"
  BY <1>0, <1>2, Ended DEF End
<1>3. CASE CommitProduct(r) \/ CommitUpdate(r) \/ Leaves(r)
  BY <1>2, <1>3 DEF CommitProduct, CommitUpdate, Leaves, database
<1>4. ASSUME images' = images, made' = made, job'[r].kind = job[r].kind,
             pc[r] \notin {"idle", "intent", "key"}, pc'[r] # "key"
      PROVE  /\ images' = images /\ made' = made /\ made[r] = {}
             /\ pc[r] \notin {"intent", "key"} /\ pc'[r] # "key"
             /\ job[r].kind # "images" /\ job'[r].kind # "images"
  <2>1. job[r].kind # "images"
    BY <1>0, <1>4 DEF KindsMatch, KindsAt
  <2> QED
    BY <1>0, <1>4, <2>1 DEF BatchInOrder
<1>5. CASE Inserts(r) \/ Links(r) \/ Patches(r) \/ Indexes(r) \/ Loads(r) \/ Finds(r)
  <2>1. ASSUME NEW from, NEW to, Advances(r, from, to)
        PROVE  pc[r] = from /\ pc'[r] = to /\ job' = job /\ images' = images /\ made' = made
    BY <1>0, <2>1 DEF Advances, Goto, TypeOK, database
  <2>2. /\ pc[r] \in {"insert", "link", "row", "name", "poll", "product"} /\ pc'[r] # "key"
        /\ job' = job /\ images' = images /\ made' = made
    BY <1>5, <2>1 DEF Inserts, Links, Patches, Indexes, Loads, Finds
  <2> QED
    BY <1>4, <2>2
<1>6. CASE TryLock(r)
  <2>1. pc[r] = "lock" /\ pc'[r] # "key" /\ images' = images /\ made' = made
    BY <1>0, <1>6 DEF TryLock, Goto, TypeOK, database
  <2> QED
    BY <1>4, <1>6, <2>1, TryStep
<1>7. CASE SelectCategories(r)
  <2>1. pc[r] = "categories" /\ pc'[r] # "key" /\ images' = images /\ made' = made /\ job' = job
    BY <1>0, <1>7 DEF SelectCategories, Goto, TypeOK, database
  <2> QED
    BY <1>4, <2>1
<1> QED
  BY <1>1, <1>3, <1>5, <1>6, <1>7 DEF StepOf

\* A row gets its key before the next file and before the commit.
LEMMA BatchStep ==
    ASSUME CatalogueInv, NEW r \in Requests, StepOf(r)
    PROVE  BatchInOrder' /\ ImagesKeyed'
<1>0. TypeOK /\ KindsMatch /\ BatchInOrder /\ ImagesKeyed /\ IdsApart
  BY DEF CatalogueInv
<1> DEFINE Ordered(s) ==
              /\ made'[s] # {} => job'[s].kind = "images"
              /\ \A i \in made'[s] : i.of = job'[s].p
              /\ pc'[s] = "intent" => \A i \in made'[s] : i.keyed
              /\ pc'[s] = "key" => job'[s].todo # <<>>
<1>1. ASSUME NEW s \in Requests \ {r}
      PROVE  Ordered(s)
  <2>1. pc'[s] = pc[s] /\ job'[s] = job[s] /\ made'[s] = made[s]
    BY <1>0, OthersKept
  <2> QED
    BY <1>0, <2>1 DEF BatchInOrder
<1>2. ASSUME CreateImageIntent(r)
      PROVE  Ordered(r) /\ images' = images
  <2>1. pc'[r] = "key" /\ job' = job /\ made'[r] = made[r] \cup {NewImage(r)} /\ images' = images
    BY <1>0, <1>2 DEF CreateImageIntent, Goto, TypeOK, database
  <2> QED
    BY <1>0, <1>2, <2>1, NewId DEF BatchInOrder
<1>3. ASSUME UpdateStorageKey(r)
      PROVE  Ordered(r) /\ images' = images
  <2>1. pc'[r] = "intent" /\ images' = images
    BY <1>0, <1>3 DEF UpdateStorageKey, Goto, TypeOK, database
  <2>2. job'[r] = Images(job[r].user, job[r].p, Tail(job[r].todo))
    BY <1>3, KeyStep
  <2>3. job'[r].kind = "images" /\ job'[r].p = job[r].p
    BY <2>2 DEF Images
  <2>4. \A i \in made'[r] : i.keyed /\ i.of = job[r].p
    BY <1>0, <1>3, KeyStep DEF BatchInOrder
  <2> QED
    BY <2>1, <2>3, <2>4
<1>4. ASSUME pc'[r] = "idle", made'[r] = {}
      PROVE  Ordered(r)
  BY <1>4
<1>5. ASSUME made'[r] = {}, pc'[r] # "key"
      PROVE  Ordered(r)
  BY <1>5
<1>6. ASSUME CommitImages(r)
      PROVE  Ordered(r) /\ \A i \in images' : i.keyed
  <2>1. pc[r] = "intent" /\ images' = images \cup made[r] /\ End(r)
    BY <1>6 DEF CommitImages
  <2>2. \A i \in images' : i.keyed
    BY <1>0, <2>1 DEF BatchInOrder, ImagesKeyed
  <2> QED
    BY <1>0, <1>4, <2>1, <2>2, Ended
<1>7. Ordered(r) /\ \A i \in images' : i.keyed
  BY <1>0, <1>2, <1>3, <1>4, <1>5, <1>6, ImageStep DEF ImagesKeyed, TypeOK
<1>8. \A i, j \in images' : i.id = j.id => i = j
  <2>1. CASE CommitImages(r)
    <3>1. images' = images \cup made[r]
      BY <2>1 DEF CommitImages
    <3>2. \A i \in images, j \in made[r] : i.id # j.id
      BY <1>0 DEF IdsApart
    <3>3. \A i, j \in made[r] : i.id = j.id => i = j
      BY <1>0 DEF IdsApart
    <3> QED
      BY <1>0, <3>1, <3>2, <3>3 DEF IdsApart
  <2>2. CASE images' = images
    BY <1>0, <2>2 DEF IdsApart
  <2> QED
    BY <1>2, <1>3, <2>1, <2>2, ImageStep
<1>9. \A s \in Requests : Ordered(s)
  BY <1>1, <1>7
<1> QED
  BY <1>7, <1>8, <1>9 DEF BatchInOrder, ImagesKeyed

\* A new row has an id that no row has, and a batch takes its ids along when
\* it commits.
LEMMA IdsStep ==
    ASSUME CatalogueInv, NEW r \in Requests, StepOf(r)
    PROVE  IdsApart'
<1>0. TypeOK /\ IdsApart
  BY DEF CatalogueInv
<1>1. \A i, j \in images' : i.id = j.id => i = j
  BY BatchStep DEF ImagesKeyed
<1>2. \A s \in Requests \ {r} : made'[s] = made[s]
  BY <1>0, OthersKept
<1> DEFINE Apart == /\ \A s \in Requests : \A i \in made'[s], j \in images' : i.id # j.id
                    /\ \A s, t \in Requests : \A i \in made'[s], j \in made'[t] :
                          i.id = j.id => s = t /\ i = j
<1>3. ASSUME CreateImageIntent(r)
      PROVE  Apart
  <2>1. made'[r] = made[r] \cup {NewImage(r)} /\ images' = images
    BY <1>0, <1>3 DEF CreateImageIntent, TypeOK, database
  <2>2. NewImage(r).id \notin Used
    BY <1>3, NewId
  <2>3. /\ \A i \in images : i.id # NewImage(r).id
        /\ \A s \in Requests : \A i \in made[s] : i.id # NewImage(r).id
    BY <1>0, <2>2, UsedIds
  <2>4. \A s \in Requests : \A i \in made'[s] : i \in made[s] \/ (s = r /\ i = NewImage(r))
    BY <1>2, <2>1
  <2>5. \A s \in Requests : \A i \in made'[s], j \in images' : i.id # j.id
    BY <1>0, <2>1, <2>3, <2>4 DEF IdsApart
  <2>6. ASSUME NEW s \in Requests, NEW t \in Requests, NEW i \in made'[s], NEW j \in made'[t],
               i.id = j.id
        PROVE  s = t /\ i = j
    BY <1>0, <2>3, <2>4, <2>6 DEF IdsApart
  <2> QED
    BY <2>5, <2>6
<1>4. ASSUME UpdateStorageKey(r)
      PROVE  Apart
  <2>1. images' = images
    BY <1>4 DEF UpdateStorageKey, database
  <2>2. \A s \in Requests : \A i \in made'[s] : \E j \in made[s] : i.id = j.id
    BY <1>2, <1>4, KeyStep
  <2>3. \A s \in Requests : \A i \in made'[s], j \in images' : i.id # j.id
    BY <1>0, <2>1, <2>2 DEF IdsApart
  <2>4. ASSUME NEW s \in Requests, NEW t \in Requests, NEW i \in made'[s], NEW j \in made'[t],
               i.id = j.id
        PROVE  s = t /\ i = j
    <3>1. s = t
      BY <1>0, <2>2, <2>4 DEF IdsApart
    <3>2. CASE s = r
      BY <1>4, <2>4, <3>1, <3>2, KeyStep
    <3>3. CASE s # r
      BY <1>0, <1>2, <2>4, <3>1, <3>3 DEF IdsApart
    <3> QED
      BY <3>1, <3>2, <3>3
  <2> QED
    BY <2>3, <2>4
<1>5. ASSUME CommitImages(r)
      PROVE  Apart
  <2>1. images' = images \cup made[r] /\ made'[r] = {}
    BY <1>0, <1>5, Ended DEF CommitImages
  <2> QED
    BY <1>0, <1>2, <2>1 DEF IdsApart
<1>6. ASSUME images' = images, \A s \in Requests : made'[s] \subseteq made[s]
      PROVE  Apart
  BY <1>0, <1>6 DEF IdsApart
<1>7. Apart
  <2>1. CASE images' = images /\ made' = [made EXCEPT ![r] = {}]
    BY <1>0, <1>6, <2>1 DEF TypeOK
  <2>2. CASE images' = images /\ made' = made
    BY <1>6, <2>2
  <2> QED
    BY <1>3, <1>4, <1>5, <2>1, <2>2, ImageStep
<1> QED
  BY <1>1, <1>7 DEF IdsApart

\* The files owed, one by one.
Owes(s, k) ==
    /\ job[s].kind = "images"
    /\ k \in DOMAIN job[s].todo
    /\ pc[s] = "key" => k # Len(job[s].todo)

\* The members of Owed and of Announced.
LEMMA OwedFiles ==
    /\ \A x : x \in Owed <=> \E s \in Requests : \E k \in DOMAIN job[s].todo : x = <<s, k>> /\ Owes(s, k)
    /\ \A x : x \in Announced <=>
          \E s \in Requests : \E k \in DOMAIN job[s].todo : x = <<s, k>> /\ job[s].kind = "images"
<1>1. \A x : x \in Announced <=>
          \E s \in Requests : \E k \in DOMAIN job[s].todo : x = <<s, k>> /\ job[s].kind = "images"
  BY DEF Announced
<1> QED
  BY <1>1 DEF Owed, Owes

\* Room is kept when nothing new is announced and no id is taken.
LEMMA RoomShrinks ==
    ASSUME TypeOK, RoomLeft, Announced' \subseteq Announced, Owed' \subseteq Owed, Used' \subseteq Used
    PROVE  RoomLeft'
<1>1. IsFiniteSet(Announced) /\ IsFiniteSet(Owed) /\ IsFiniteSet(Used)
  BY UsedIds, FS_Subset DEF RoomLeft, Owed
<1>2. IsFiniteSet(Announced')
  BY <1>1, FS_Subset
<1>3. IsFiniteSet(Owed') /\ Cardinality(Owed') <= Cardinality(Owed)
  BY <1>1, FS_Subset
<1>4. IsFiniteSet(Used') /\ Cardinality(Used') <= Cardinality(Used)
  BY <1>1, FS_Subset
<1>5. /\ Cardinality(Owed) \in Nat /\ Cardinality(Owed') \in Nat
      /\ Cardinality(Used) \in Nat /\ Cardinality(Used') \in Nat
  BY <1>1, <1>3, <1>4, FS_CardinalityType
<1>6. Cardinality(Used') + Cardinality(Owed') <= MaxImages
  BY <1>3, <1>4, <1>5, CatalogueAssumption DEF RoomLeft
<1> QED
  BY <1>2, <1>6 DEF RoomLeft

\* A batch is announced only if there is room for all of its files, and each
\* INSERT takes the room of one.
LEMMA RoomStep ==
    ASSUME CatalogueInv, NEW r \in Requests, StepOf(r)
    PROVE  RoomLeft'
<1>0. TypeOK /\ KindsMatch /\ RoomLeft
  BY DEF CatalogueInv
<1>1. TypeOK'
  BY TypeStep
<1>2. /\ \A x : x \in Owed' <=>
             \E s \in Requests : \E k \in DOMAIN job'[s].todo : x = <<s, k>> /\ Owes(s, k)'
      /\ \A x : x \in Announced' <=>
             \E s \in Requests : \E k \in DOMAIN job'[s].todo : x = <<s, k>> /\ job'[s].kind = "images"
  <2>1. \A x : x \in Announced' <=>
             \E s \in Requests : \E k \in DOMAIN job'[s].todo :
                x = <<s, k>> /\ job'[s].kind = "images"
    BY DEF Announced
  <2> QED
    BY <2>1 DEF Owed, Owes
<1>3. \A x : x \in Used' <=> \/ \E i \in images' : x = i.id
                             \/ \E s \in Requests : \E i \in made'[s] : x = i.id
  BY DEF Used
<1>4. ASSUME NEW s \in Requests \ {r}
      PROVE  /\ job'[s] = job[s] /\ made'[s] = made[s]
             /\ \A k : Owes(s, k)' <=> Owes(s, k)
  BY <1>0, OthersKept DEF Owes
<1>5. ASSUME job'[r].kind # "images"
      PROVE  Announced' \subseteq Announced /\ Owed' \subseteq Owed
  BY <1>2, <1>4, <1>5, OwedFiles DEF Owes
<1>6. CASE CreateImageIntent(r)
  <2> DEFINE x == <<r, Len(job[r].todo)>>
             new == NewImage(r).id
  <2>1. job' = job /\ images' = images /\ made'[r] = made[r] \cup {NewImage(r)} /\ pc'[r] = "key"
    BY <1>0, <1>6 DEF CreateImageIntent, Goto, TypeOK, database
  <2>2. x \in Owed /\ new \notin Used
    BY <1>6, NewId
  <2>3. Used' = Used \cup {new}
    BY <1>0, <1>3, <1>4, <2>1, UsedIds
  <2>4. Announced' = Announced
    BY <2>1 DEF Announced
  <2>5. Owed' \subseteq Owed \ {x}
    <3>1. ASSUME NEW k, Owes(r, k)'
          PROVE  k # Len(job[r].todo) /\ Owes(r, k)
      BY <2>1, <3>1 DEF Owes
    <3>2. ASSUME NEW s \in Requests, NEW k, Owes(s, k)'
          PROVE  Owes(s, k) /\ <<s, k>> # x
      BY <1>4, <3>1, <3>2
    <3> QED
      BY <1>2, <2>1, <3>2, OwedFiles
  <2> HIDE DEF x, new
  <2>6. IsFiniteSet(Announced) /\ IsFiniteSet(Owed) /\ IsFiniteSet(Used)
    BY <1>0, UsedIds, FS_Subset DEF RoomLeft, Owed
  <2>7. Cardinality(Used') = Cardinality(Used) + 1
    BY <2>2, <2>3, <2>6, FS_AddElement
  <2>8. IsFiniteSet(Owed \ {x}) /\ Cardinality(Owed \ {x}) = Cardinality(Owed) - 1
    BY <2>2, <2>6, FS_RemoveElement
  <2>9. IsFiniteSet(Owed') /\ Cardinality(Owed') <= Cardinality(Owed \ {x})
    BY <2>5, <2>8, FS_Subset
  <2>10. Cardinality(Owed) \in Nat /\ Cardinality(Owed') \in Nat /\ Cardinality(Used) \in Nat
    BY <2>6, <2>9, FS_CardinalityType
  <2>11. Cardinality(Used') + Cardinality(Owed') <= MaxImages
    BY <1>0, <2>7, <2>8, <2>9, <2>10, CatalogueAssumption DEF RoomLeft
  <2> QED
    BY <2>4, <2>6, <2>11 DEF RoomLeft
<1>7. CASE UpdateStorageKey(r)
  <2>1. pc[r] = "key" /\ pc'[r] = "intent" /\ images' = images
    BY <1>0, <1>7 DEF UpdateStorageKey, Goto, TypeOK, database
  <2>2. job'[r].todo = Tail(job[r].todo) /\ job[r].kind = "images"
    <3>1. job'[r] = Images(job[r].user, job[r].p, Tail(job[r].todo)) /\ job[r].kind = "images"
      BY <1>7, KeyStep
    <3> QED
      BY <3>1 DEF Images
  <2>3. job[r].todo \in Seq(BOOLEAN) /\ job[r].todo # <<>>
    BY <1>7, KeyStep
  <2>4. DOMAIN job'[r].todo = DOMAIN job[r].todo \ {Len(job[r].todo)}
    BY <2>2, <2>3
  <2>5. \A k : Owes(r, k)' => Owes(r, k)
    BY <2>1, <2>2, <2>4 DEF Owes
  <2>6. Owed' \subseteq Owed
    <3>1. \A s \in Requests : \A k \in DOMAIN job'[s].todo :
             Owes(s, k)' => Owes(s, k) /\ k \in DOMAIN job[s].todo
      BY <1>4, <2>4, <2>5
    <3> QED
      BY <1>2, <3>1, OwedFiles
  <2>7. Announced' \subseteq Announced
    BY <1>2, <1>4, <2>2, <2>4, OwedFiles
  <2>8. Used' \subseteq Used
    BY <1>0, <1>3, <1>4, <1>7, <2>1, KeyStep, UsedIds
  <2> QED
    BY <1>0, <2>6, <2>7, <2>8, RoomShrinks
<1>8. CASE CommitImages(r)
  <2>1. images' = images \cup made[r] /\ made'[r] = {} /\ job'[r] = NoJob
    BY <1>0, <1>8, Ended DEF CommitImages
  <2>2. Used' \subseteq Used
    BY <1>0, <1>3, <1>4, <2>1, UsedIds
  <2> QED
    BY <1>0, <1>5, <2>1, <2>2, RoomShrinks DEF NoJob
<1>9. ASSUME images' = images, made'[r] \subseteq made[r]
      PROVE  Used' \subseteq Used
  BY <1>0, <1>3, <1>4, <1>9, UsedIds
<1>10. CASE images' = images /\ made'[r] \subseteq made[r] /\ job'[r].kind # "images"
  BY <1>0, <1>5, <1>9, <1>10, RoomShrinks
<1>11. ASSUME NEW u \in Users, NEW p \in Products, NEW b \in Batches,
              job' = [job EXCEPT ![r] = Images(u, p, b)], pc'[r] = "intent",
              images' = images, made' = made,
              Cardinality(Used) + Cardinality(Announced) + Len(b) <= MaxImages
       PROVE  RoomLeft'
  <2> DEFINE F == {r} \X (1 .. Len(b))
  <2>1. job'[r].todo = b /\ job'[r].kind = "images"
    BY <1>0, <1>11 DEF Images, TypeOK
  <2>2. b \in Seq(BOOLEAN) /\ Len(b) \in Nat /\ DOMAIN b = 1 .. Len(b)
    BY CatalogueAssumption
  <2>3. Used' \subseteq Used
    BY <1>9, <1>11
  <2>4. Announced' \subseteq Announced \cup F
    BY <1>2, <1>4, <2>1, <2>2, OwedFiles
  <2>5. Owed' \subseteq Announced'
    BY DEF Owed
  <2> HIDE DEF F
  <2>6. IsFiniteSet(F) /\ Cardinality(F) = Len(b)
    <3>1. IsFiniteSet({r}) /\ Cardinality({r}) = 1
      BY FS_Singleton
    <3>2. IsFiniteSet(1 .. Len(b)) /\ Cardinality(1 .. Len(b)) = Len(b)
      BY <2>2, FS_Interval
    <3>3. IsFiniteSet(F) /\ Cardinality(F) = Cardinality({r}) * Cardinality(1 .. Len(b))
      <4> DEFINE S == {r}
                 T == 1 .. Len(b)
      <4>1. IsFiniteSet(S) /\ IsFiniteSet(T)
        BY <3>1, <3>2
      <4> HIDE DEF S, T
      <4>2. IsFiniteSet(S \X T) /\ Cardinality(S \X T) = Cardinality(S) * Cardinality(T)
        BY <4>1, FS_Product
      <4> QED
        BY <4>2 DEF S, T, F
    <3>4. \A m, n \in Nat : m = 1 => m * n = n
      OBVIOUS
    <3> QED
      BY <2>2, <3>1, <3>2, <3>3, <3>4
  <2>7. IsFiniteSet(Announced) /\ Cardinality(Announced) \in Nat
    BY <1>0, FS_CardinalityType DEF RoomLeft
  <2>8. /\ IsFiniteSet(Announced \cup F)
        /\ Cardinality(Announced \cup F) <= Cardinality(Announced) + Len(b)
    <3>1. /\ IsFiniteSet(Announced \cup F) /\ IsFiniteSet(Announced \cap F)
          /\ Cardinality(Announced \cup F)
                = Cardinality(Announced) + Len(b) - Cardinality(Announced \cap F)
      BY <2>6, <2>7, FS_Union, FS_Intersection
    <3>2. Cardinality(Announced \cap F) \in Nat
      BY <3>1, FS_CardinalityType
    <3> QED
      BY <2>2, <2>7, <3>1, <3>2
  <2>9. IsFiniteSet(Announced') /\ Cardinality(Announced') <= Cardinality(Announced \cup F)
    BY <2>4, <2>8, FS_Subset
  <2>10. IsFiniteSet(Owed') /\ Cardinality(Owed') <= Cardinality(Announced')
    BY <2>5, <2>9, FS_Subset
  <2>11. IsFiniteSet(Used') /\ Cardinality(Used') <= Cardinality(Used)
    BY <1>0, <2>3, UsedIds, FS_Subset
  <2>12. /\ Cardinality(Owed') \in Nat /\ Cardinality(Announced') \in Nat
         /\ Cardinality(Announced \cup F) \in Nat
         /\ Cardinality(Used') \in Nat /\ Cardinality(Used) \in Nat
    BY <1>0, <2>8, <2>9, <2>10, <2>11, UsedIds, FS_CardinalityType
  <2>13. Cardinality(Used') + Cardinality(Owed') <= MaxImages
    BY <1>11, <2>2, <2>7, <2>8, <2>9, <2>10, <2>11, <2>12, CatalogueAssumption
  <2> QED
    BY <2>9, <2>13 DEF RoomLeft
<1>12. ASSUME NEW j \in Jobs, Begins(r, j)
       PROVE  RoomLeft'
  <2>1. job'[r] = j /\ images' = images /\ made' = made
    BY <1>0, <1>12 DEF Begins, TypeOK, database
  <2>2. CASE j.kind # "images"
    BY <1>10, <2>1, <2>2
  <2>3. CASE j.kind = "images"
    <3>1. PICK u \in Users, p \in Products, b \in Batches :
             /\ j = Images(u, p, b) /\ Goto(r, "intent")
             /\ Cardinality(Used) + Cardinality(Announced) + Len(b) <= MaxImages
      BY <1>12, <2>3 DEF Begins, Create, Update, Details
    <3>2. pc'[r] = "intent"
      BY <1>0, <3>1 DEF Goto, TypeOK
    <3> QED
      BY <1>11, <1>12, <2>1, <3>1, <3>2 DEF Begins
  <2> QED
    BY <2>2, <2>3
<1>13. CASE images' = images /\ made' = [made EXCEPT ![r] = {}] /\ pc'[r] = "idle"
  <2>1. job'[r] = NoJob /\ made'[r] = {}
    BY <1>1, <1>13 DEF TypeOK
  <2> QED
    BY <1>10, <1>13, <2>1 DEF NoJob
<1> QED
  BY <1>6, <1>7, <1>8, <1>10, <1>12, <1>13, ImageStep

-----------------------------------------------------------------------------
(* The theorems.                                                           *)

\* An empty catalogue and idle connections.
LEMMA CatalogueInit == Init => CatalogueInv
<1> SUFFICES ASSUME Init
             PROVE  CatalogueInv
  OBVIOUS
<1>1. DOMAIN row = {} /\ links = {} /\ images = {}
  BY DEF Init
<1>2. \A r \in Requests : pc[r] = "idle" /\ job[r] = NoJob /\ made[r] = {} /\ job[r].kind = "none"
  BY DEF Init, NoJob
<1>3. TypeOK
  BY <1>1, <1>2, JobsBuilt DEF Init, TypeOK
<1>4. KindsMatch /\ ProductsKnown /\ CategoriesExist /\ CreatesFresh
  BY <1>2 DEF KindsMatch, KindsAt, ProductsKnown, CategoriesExist, CreatesFresh
<1>5. OneWriterPerRow
  BY <1>2 DEF OneWriterPerRow, HasRow
<1>6. NamesFree /\ NamesApart /\ NamesUnique
  BY <1>1, <1>2 DEF NamesFree, Enters, NamesApart, NamesOf, NamesUnique
<1>7. DetailsComplete /\ BatchInOrder /\ ImagesKeyed /\ IdsApart
  BY <1>1, <1>2 DEF DetailsComplete, BatchInOrder, ImagesKeyed, IdsApart
<1>8. RoomLeft
  <2>1. Announced = {} /\ Owed = {} /\ Used = {}
    BY <1>1, <1>2 DEF Announced, Owed, Used
  <2> QED
    BY <2>1, FS_EmptySet, CatalogueAssumption DEF RoomLeft
<1> QED
  BY <1>3, <1>4, <1>5, <1>6, <1>7, <1>8 DEF CatalogueInv

\* Every step keeps the invariant; the expiry of a reader's lock changes
\* nothing that it speaks of.
LEMMA CatalogueStep == CatalogueInv /\ [Next]_vars => CatalogueInv'
<1>1. ASSUME CatalogueInv, NEW r \in Requests, StepOf(r)
      PROVE  CatalogueInv'
  BY <1>1, TypeStep, KindsStep, ProductsKnownStep, CreatesFreshStep, OneWriterStep,
     NamesFreeStep, NamesApartStep, NamesUniqueStep, DetailsStep, BatchStep, IdsStep, RoomStep
     DEF CatalogueInv
<1>2. ASSUME CatalogueInv, UNCHANGED <<database, pc, job, made, shown>>,
             lock' \in [Viewed -> Requests \cup {NoOne}]
      PROVE  CatalogueInv'
  <2>1. TypeOK'
    BY <1>2 DEF CatalogueInv, TypeOK, database
  <2>2. KindsMatch' /\ ProductsKnown' /\ CategoriesExist' /\ CreatesFresh'
    BY <1>2 DEF CatalogueInv, database, KindsMatch, KindsAt, ProductsKnown, CategoriesExist,
                CreatesFresh
  <2>3. OneWriterPerRow'
    BY <1>2 DEF CatalogueInv, database, OneWriterPerRow, HasRow, Renames
  <2>4. NamesFree' /\ NamesApart' /\ NamesUnique'
    <3>1. \A s : /\ NamesOf(s)' = NamesOf(s)
                 /\ Enters(s)' <=> Enters(s)
      BY <1>2 DEF NamesOf, Enters, Renames, database
    <3>2. NamesApart'
      BY <1>2, <3>1 DEF CatalogueInv, NamesApart
    <3>3. NamesFree' /\ NamesUnique'
      BY <1>2, <3>1 DEF CatalogueInv, database, NamesFree, Taken, NamesUnique
    <3> QED
      BY <3>2, <3>3
  <2>5. DetailsComplete' /\ BatchInOrder' /\ ImagesKeyed' /\ IdsApart'
    BY <1>2 DEF CatalogueInv, database, DetailsComplete, BatchInOrder, ImagesKeyed, IdsApart
  <2>6. RoomLeft'
    <3>1. Announced' = Announced /\ Used' = Used
      BY <1>2 DEF Announced, Used, database
    <3>2. Owed' = Owed
      BY <1>2, <3>1 DEF Owed
    <3> QED
      BY <1>2, <3>1, <3>2 DEF CatalogueInv, RoomLeft
  <2> QED
    BY <2>1, <2>2, <2>3, <2>4, <2>5, <2>6 DEF CatalogueInv
<1>3. ASSUME CatalogueInv, NEW p \in Viewed, ExpireLock(p)
      PROVE  CatalogueInv'
  <2>1. lock' \in [Viewed -> Requests \cup {NoOne}]
    BY <1>3 DEF ExpireLock, CatalogueInv, TypeOK
  <2> QED
    BY <1>2, <1>3, <2>1 DEF ExpireLock
<1>4. ASSUME CatalogueInv, UNCHANGED vars
      PROVE  CatalogueInv'
  <2>1. lock' \in [Viewed -> Requests \cup {NoOne}]
    BY <1>4 DEF vars, CatalogueInv, TypeOK
  <2> QED
    BY <1>2, <1>4, <2>1 DEF vars
<1> QED
  BY <1>1, <1>3, <1>4, NextCases

\* The invariant holds of every behaviour of the catalogue.
THEOREM CatalogueInvariant == Spec => []CatalogueInv
<1>1. Init => CatalogueInv
  BY CatalogueInit
<1>2. CatalogueInv /\ [Next]_vars => CatalogueInv'
  BY CatalogueStep
<1> QED
  BY <1>1, <1>2, PTL DEF Spec

\* The rows, locks and requests have their types: create_product links only
\* categories that exist, and init_images_upload_batch never runs out of ids.
THEOREM CatalogueTypeCorrect == Spec => []TypeOK
<1>1. CatalogueInv => TypeOK
  BY DEF CatalogueInv
<1> QED
  BY <1>1, CatalogueInvariant, PTL

\* However create_product and patch_product interleave, wait and fail, no two
\* products have one name.
THEOREM NamesStayUnique == Spec => []NamesUnique
<1>1. CatalogueInv => NamesUnique
  BY DEF CatalogueInv
<1> QED
  BY <1>1, CatalogueInvariant, PTL

\* fetch_product_details reads with two SELECTs and answers with all the
\* categories the product has.
THEOREM DetailsAreComplete == Spec => []DetailsComplete
<1>1. CatalogueInv => DetailsComplete
  BY DEF CatalogueInv
<1> QED
  BY <1>1, CatalogueInvariant, PTL

\* Every image that init_images_upload_batch commits has its storage key, and
\* an id of its own.
THEOREM ImagesHaveKeys == Spec => []ImagesKeyed
<1>1. CatalogueInv => ImagesKeyed
  BY DEF CatalogueInv
<1> QED
  BY <1>1, CatalogueInvariant, PTL

\* update_product and init_images_upload_batch compare the owner once, at the
\* beginning; it is still the owner's request that commits.
THEOREM OnlyOwnersWrite == Spec => WritesByOwner
<1> DEFINE Allowed ==
        /\ \A p \in DOMAIN row : row'[p] # row[p] =>
              \E r \in Requests : pc[r] # "idle" /\ pc'[r] = "idle" /\ job[r].user = row[p].owner
        /\ \A i \in images' \ images :
              \E r \in Requests : i \in made[r] /\ job[r].user = row[i.of].owner
<1>1. ASSUME CatalogueInv, NEW r \in Requests, StepOf(r)
      PROVE  Allowed
  <2>0. TypeOK /\ ProductsKnown /\ BatchInOrder
    BY <1>1 DEF CatalogueInv
  <2>1. ASSUME NEW p \in DOMAIN row, row'[p] # row[p]
        PROVE  pc[r] # "idle" /\ pc'[r] = "idle" /\ job[r].user = row[p].owner
    <3>1. CommitUpdate(r) /\ p = job[r].p
      BY <1>1, <2>1, RowStep
    <3>2. pc[r] = "commit" /\ job[r].kind = "update" /\ End(r)
      BY <3>1 DEF CommitUpdate
    <3>3. row[p].owner = job[r].user
      BY <2>0, <3>1, <3>2 DEF ProductsKnown
    <3> QED
      BY <2>0, <3>2, <3>3, Ended
  <2>2. ASSUME NEW i \in images' \ images
        PROVE  i \in made[r] /\ job[r].user = row[i.of].owner
    <3>1. CASE CreateImageIntent(r) \/ UpdateStorageKey(r)
      BY <2>2, <3>1 DEF CreateImageIntent, UpdateStorageKey, database
    <3>2. CASE CommitImages(r)
      <4>1. i \in made[r]
        BY <2>2, <3>2 DEF CommitImages
      <4>2. job[r].kind = "images" /\ i.of = job[r].p
        BY <2>0, <4>1 DEF BatchInOrder
      <4> QED
        BY <2>0, <4>1, <4>2 DEF ProductsKnown
    <3> QED
      BY <1>1, <2>2, <3>1, <3>2, ImageStep
  <2> QED
    BY <2>1, <2>2
<1>2. ASSUME UNCHANGED <<row, images>>
      PROVE  Allowed
  BY <1>2
<1>3. ASSUME CatalogueInv, [Next]_vars
      PROVE  [Allowed]_vars
  <2>1. CASE UNCHANGED vars
    BY <2>1
  <2>2. CASE \E p \in Viewed : ExpireLock(p)
    BY <1>2, <2>2 DEF ExpireLock, database
  <2>3. CASE \E r \in Requests : StepOf(r)
    BY <1>1, <1>3, <2>3
  <2> QED
    BY <1>3, <2>1, <2>2, <2>3, NextCases
<1> QED
  BY <1>3, CatalogueInvariant, PTL DEF Spec, WritesByOwner
=============================================================================
