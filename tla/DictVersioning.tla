--------------------------- MODULE DictVersioning ---------------------------
(***************************************************************************)
(* Dictionaries and app_config (internal/dict) and the dictionary cache of *)
(* the admin site (shared/dict).                                           *)
(*                                                                         *)
(* A write of a dictionary item is a READ COMMITTED transaction: the item, *)
(* a query of all items of the type for the new content_hash, and the      *)
(* UPDATE of the type's version and hash.  A read takes the type row and   *)
(* the items in two statements, or answers 304 from the hash alone.        *)
(* app_config keeps every version of a key; a write retires the active row *)
(* and inserts the next.                                                   *)
(*                                                                         *)
(* One dictionary and one config key: others share no row with them.  A    *)
(* statement that waits for a row lock is an action that is not enabled.   *)
(***************************************************************************)
EXTENDS Naturals, Sequences

CONSTANTS
    Items,       \* dict_item ids, one per INSERT
    Codes,       \* machine keys
    CodeOf,      \* the code each item is created with
    Labels,      \* bound: what label, color and sort_order may be
    Extras,      \* bound: what extra may be
    Writers,     \* concurrent item requests
    Publishers,  \* concurrent PUT /config/{key} requests
    Browsers,    \* admin sites with a cache each
    Values,      \* bound: config values
    NoItem,
    MaxWrites,   \* bound: requests of writers and publishers
    Faults       \* "db": a statement or COMMIT fails, "net": an answer is lost

ASSUME DictAssumption ==
    /\ NoItem \notin Items
    /\ CodeOf \in [Items -> Codes]
    /\ Labels # {} /\ Extras # {} /\ Values # {}
    /\ MaxWrites \in Nat
    /\ Faults \subseteq {"db", "net"}

VARIABLES
    dictType,    \* the dict_type row
    item,        \* the dict_item rows
    referenced,  \* the items a live problem points at
    tx,          \* the item transactions
    config,      \* the app_config rows of the key, by version
    put,         \* the config transactions
    cache,       \* the cache of each browser
    fetch,       \* the fetch each browser has in flight
    published,   \* history: the items a version of the type stands for
    writes       \* requests so far (bound)

vars == <<dictType, item, referenced, tx, config, put, cache, fetch, published, writes>>

-----------------------------------------------------------------------------
ItemRows == [state : {"absent", "live", "deleted"}, active : BOOLEAN,
             label : Labels, extra : Extras]

\* What a reader gets of the dictionary, and what hashItems hashes: the hash
\* is injective, and extra is not part of it.
Contents == SUBSET (Items \X ItemRows)
Hashes == SUBSET (Items \X Labels \X BOOLEAN)

TypeRows == [state : {"absent", "live", "deleted"}, active : BOOLEAN,
             version : Nat, hash : Hashes]

Txs == [pc : {"idle", "check", "write", "rehash", "bump", "commit"},
        op : {"create", "update", "delete", "retire"},
        item : Items \cup {NoItem}, new : ItemRows, hash : Hashes]

ConfigRows == [value : Values, active : BOOLEAN]

Puts == [pc : {"idle", "retire", "insert", "commit"}, value : Values,
         target : Nat,  \* the active row the UPDATE has found, 0 if none
         prev : Nat]    \* prevVersion

CachedDicts == [known : BOOLEAN, items : Contents, version : Nat, hash : Hashes]
NoDict == [known |-> FALSE, items |-> {}, version |-> 0, hash |-> {}]

Fetches == [pc : {"idle", "type", "items", "reply"}, tag : CachedDicts, got : CachedDicts]
NoFetch == [pc |-> "idle", tag |-> NoDict, got |-> NoDict]

AnyItem == CHOOSE r \in ItemRows : r.state = "absent"
NoTx == [pc |-> "idle", op |-> "create", item |-> NoItem, new |-> AnyItem, hash |-> {}]
NoPut == [pc |-> "idle", value |-> CHOOSE v \in Values : TRUE, target |-> 0, prev |-> 0]

TypeOK ==
    /\ dictType \in TypeRows
    /\ item \in [Items -> ItemRows]
    /\ referenced \in SUBSET Items
    /\ tx \in [Writers -> Txs]
    /\ config \in Seq(ConfigRows)
    /\ put \in [Publishers -> Puts]
    /\ cache \in [Browsers -> CachedDicts]
    /\ fetch \in [Browsers -> Fetches]
    /\ published \in Seq(Contents)
    /\ writes \in Nat

Init ==
    /\ dictType = [state |-> "absent", active |-> FALSE, version |-> 0, hash |-> {}]
    /\ item = [i \in Items |-> AnyItem]
    /\ referenced = {}
    /\ tx = [w \in Writers |-> NoTx]
    /\ config = <<>>
    /\ put = [p \in Publishers |-> NoPut]
    /\ cache = [b \in Browsers |-> NoDict]
    /\ fetch = [b \in Browsers |-> NoFetch]
    /\ published = <<>>
    /\ writes = 0

dictVars == <<dictType, item, referenced, tx, published>>
configVars == <<config, put>>
browserVars == <<cache, fetch>>

-----------------------------------------------------------------------------
(* The rows as a statement sees them.                                      *)

Live(rows) == {i \in Items : rows[i].state = "live"}

\* listItemsByTypeID with include_inactive.
Content(rows) == {<<i, rows[i]>> : i \in Live(rows)}

\* hashItems over the rows ordered by id.
hashItems(rows) == {<<i, rows[i].label, rows[i].active>> : i \in Live(rows)}

\* Row locks, held until the transaction ends.
HoldsItem(v) == tx[v].pc \in {"rehash", "bump", "commit"}
TypeLocked == \E v \in Writers : tx[v].pc = "commit"

\* The rows a transaction sees: what is committed and what it has written.
Seen(w) == IF HoldsItem(w) THEN [item EXCEPT ![tx[w].item] = tx[w].new] ELSE item

-----------------------------------------------------------------------------
(* dict_type: single statements.                                           *)

\* createDictType: code is UNIQUE also over deleted rows.
CreateDictType ==
    /\ dictType.state = "absent"
    /\ dictType' = [state |-> "live", active |-> TRUE, version |-> 1, hash |-> hashItems(item)]
    /\ published' = <<Content(item)>>
    /\ UNCHANGED <<item, referenced, tx, configVars, browserVars, writes>>

\* updateDictType: the name is left out; version and hash do not move.
UpdateDictType ==
    /\ dictType.state = "live"
    /\ ~TypeLocked
    /\ \E a \in BOOLEAN : dictType' = [dictType EXCEPT !.active = a]
    /\ UNCHANGED <<item, referenced, tx, published, configVars, browserVars, writes>>

\* Mutant: the row is marked in a way no query knows.
HideDictType ==
    /\ dictType.state = "live"
    /\ ~TypeLocked
    /\ dictType' = [dictType EXCEPT !.state = "hidden", !.active = FALSE]
    /\ UNCHANGED <<item, referenced, tx, published, configVars, browserVars, writes>>

softDeleteDictType ==
    /\ dictType.state = "live"
    /\ ~TypeLocked
    /\ dictType' = [dictType EXCEPT !.state = "deleted", !.active = FALSE]
    /\ UNCHANGED <<item, referenced, tx, published, configVars, browserVars, writes>>

-----------------------------------------------------------------------------
(* dict_item: transactions.                                                *)

Begin(w, t) ==
    /\ tx[w].pc = "idle"
    /\ writes < MaxWrites
    /\ tx' = [tx EXCEPT ![w] = t]
    /\ writes' = writes + 1
    /\ UNCHANGED <<dictType, item, referenced, published, configVars, browserVars>>

Step(w, t) ==
    /\ tx' = [tx EXCEPT ![w] = t]
    /\ UNCHANGED <<dictType, item, referenced, published, configVars, browserVars, writes>>

Abort(w) == Step(w, NoTx)

\* CreateItem; the foreign key asks for a type row, deleted or not.
CreateItem(w, i) ==
    /\ dictType.state # "absent"
    /\ item[i].state = "absent"
    /\ \A v \in Writers : tx[v].item # i
    /\ Begin(w, [NoTx EXCEPT !.pc = "write", !.item = i])

\* UpdateItem and DeleteItem locate the type first: getItemTypeID.
UpdateItem(w, i) ==
    /\ item[i].state = "live"
    /\ Begin(w, [NoTx EXCEPT !.pc = "write", !.op = "update", !.item = i])

DeleteItem(w, i) ==
    /\ item[i].state = "live"
    /\ Begin(w, [NoTx EXCEPT !.pc = "check", !.op = "delete", !.item = i])

\* A referenced item is retired instead.
itemIsReferenced(w) ==
    /\ tx[w].pc = "check"
    /\ Step(w, [tx[w] EXCEPT !.pc = "write",
                             !.op = IF tx[w].item \in referenced THEN "retire" ELSE "delete"])

Write(w, row) == Step(w, [tx[w] EXCEPT !.pc = "rehash", !.new = row])

\* createItem waits for transactions that insert or delete the same code.
InsertItem(w) ==
    LET i == tx[w].item
        rivals == {v \in Writers \ {w} : HoldsItem(v) /\ CodeOf[tx[v].item] = CodeOf[i]} IN
    /\ tx[w].pc = "write"
    /\ tx[w].op = "create"
    /\ rivals = {}
    /\ \/ /\ \E j \in Live(item) : CodeOf[j] = CodeOf[i]      \* ErrItemCodeTaken
          /\ Abort(w)
       \/ /\ \A j \in Live(item) : CodeOf[j] # CodeOf[i]
          /\ \E l \in Labels, e \in Extras :
                Write(w, [state |-> "live", active |-> TRUE, label |-> l, extra |-> e])

\* updateItem and softDeleteItem: WHERE id AND deleted_at IS NULL, looked at
\* again once the row is unlocked.  No row is ErrNotFound.
ChangeItem(w) ==
    LET i == tx[w].item IN
    /\ tx[w].pc = "write"
    /\ tx[w].op # "create"
    /\ \A v \in Writers \ {w} : ~(HoldsItem(v) /\ tx[v].item = i)
    /\ \/ /\ item[i].state # "live"
          /\ Abort(w)
       \/ /\ item[i].state = "live"
          /\ \/ /\ tx[w].op = "update"
                /\ \E l \in Labels, e \in Extras, a \in BOOLEAN :
                      Write(w, [item[i] EXCEPT !.label = l, !.extra = e, !.active = a])
             \/ /\ tx[w].op = "retire"
                /\ Write(w, [item[i] EXCEPT !.active = FALSE])
             \/ /\ tx[w].op = "delete"
                /\ Write(w, [item[i] EXCEPT !.state = "deleted", !.active = FALSE])

\* recomputeTypeHash, its query: what others have not committed is not seen.
RehashItems(w) ==
    /\ tx[w].pc = "rehash"
    /\ Step(w, [tx[w] EXCEPT !.pc = "bump", !.hash = hashItems(Seen(w))])

\* recomputeTypeHash, its UPDATE of the type row; a deleted type is ErrNotFound.
BumpType(w) ==
    /\ tx[w].pc = "bump"
    /\ ~TypeLocked
    /\ \/ /\ dictType.state = "live"
          /\ Step(w, [tx[w] EXCEPT !.pc = "commit"])
       \/ /\ dictType.state # "live"
          /\ Abort(w)

\* Mutant: the type is bumped for new items only.
CommitItemBumpsCreates(w) ==
    /\ tx[w].pc = "commit"
    /\ item' = Seen(w)
    /\ dictType' = [dictType EXCEPT !.version = IF tx[w].op = "create" THEN @ + 1 ELSE @,
                                    !.hash = tx[w].hash]
    /\ published' = [published EXCEPT ![Len(published)] = Content(Seen(w))]
    /\ tx' = [tx EXCEPT ![w] = NoTx]
    /\ UNCHANGED <<referenced, configVars, browserVars, writes>>

CommitItem(w) ==
    /\ tx[w].pc = "commit"
    /\ item' = Seen(w)
    /\ dictType' = [dictType EXCEPT !.version = @ + 1, !.hash = tx[w].hash]
    /\ published' = Append(published, Content(Seen(w)))
    /\ tx' = [tx EXCEPT ![w] = NoTx]
    /\ UNCHANGED <<referenced, configVars, browserVars, writes>>

\* A statement or the COMMIT fails, or the request is cancelled: ROLLBACK.
RollbackItem(w) ==
    /\ "db" \in Faults
    /\ tx[w].pc # "idle"
    /\ Abort(w)

\* problem.Service.Create and Update accept any item row, Delete lets it go.
Reference(i) ==
    /\ item[i].state # "absent"
    /\ i \notin referenced
    /\ referenced' = referenced \cup {i}
    /\ UNCHANGED <<dictType, item, tx, published, configVars, browserVars, writes>>

Unreference(i) ==
    /\ i \in referenced
    /\ referenced' = referenced \ {i}
    /\ UNCHANGED <<dictType, item, tx, published, configVars, browserVars, writes>>

-----------------------------------------------------------------------------
(* app_config: swapConfigVersion.                                          *)

configFrame == <<dictVars, browserVars>>

Active(v) == v \in 1..Len(config) /\ config[v].active

Publish(p, s) == put' = [put EXCEPT ![p] = s] /\ UNCHANGED <<config, configFrame>>

\* The UPDATE of the active row starts and finds the row of its snapshot.
PutConfig(p) ==
    /\ put[p].pc = "idle"
    /\ writes < MaxWrites
    /\ writes' = writes + 1
    /\ \E x \in Values, v \in 0..Len(config) :
          /\ IF v = 0 THEN \A u \in 1..Len(config) : ~config[u].active ELSE Active(v)
          /\ Publish(p, [pc |-> "retire", value |-> x, target |-> v, prev |-> 0])

\* It waits for the row's lock and looks again: a row that a rival has
\* retired meanwhile no longer matches, and the rival's new one is not seen.
RetireActive(p) ==
    /\ put[p].pc = "retire"
    /\ \A q \in Publishers : put[q].pc \in {"insert", "commit"} =>
          put[q].prev = 0 \/ put[q].prev # put[p].target
    /\ Publish(p, [put[p] EXCEPT !.pc = "insert",
                                 !.prev = IF Active(put[p].target) THEN put[p].target ELSE 0])
    /\ UNCHANGED writes

newVersion(p) == put[p].prev + 1

\* Mutant: the unique indexes are missing.
NeverTaken(p) == FALSE

\* uq_app_config_key_version and uq_app_config_active.
VersionTaken(p) ==
    \/ newVersion(p) \in 1..Len(config)
    \/ \E v \in 1..Len(config) : v # put[p].prev /\ config[v].active

\* The INSERT waits for a rival's uncommitted one, which would be active too.
InsertVersion(p) ==
    /\ put[p].pc = "insert"
    /\ \A q \in Publishers : put[q].pc # "commit"
    /\ IF VersionTaken(p) THEN Publish(p, NoPut)                 \* ErrConfigConflict
                          ELSE Publish(p, [put[p] EXCEPT !.pc = "commit"])
    /\ UNCHANGED writes

CommitConfig(p) ==
    LET retired == [v \in 1..Len(config) |->
                       IF v = put[p].prev THEN [config[v] EXCEPT !.active = FALSE] ELSE config[v]] IN
    /\ put[p].pc = "commit"
    /\ config' = Append(retired, [value |-> put[p].value, active |-> TRUE])
    /\ put' = [put EXCEPT ![p] = NoPut]
    /\ UNCHANGED <<configFrame, writes>>

RollbackConfig(p) ==
    /\ "db" \in Faults
    /\ put[p].pc # "idle"
    /\ Publish(p, NoPut)
    /\ UNCHANGED writes

-----------------------------------------------------------------------------
(* GET /dict/types/{code}/items and fetchDict.                             *)

Fetch(b, f) == fetch' = [fetch EXCEPT ![b] = f] /\ UNCHANGED <<cache, dictVars, configVars, writes>>

\* fetchDict sends the hash of what it has cached, if anything.
FetchDict(b) ==
    /\ fetch[b].pc = "idle"
    /\ Fetch(b, [pc |-> "type", tag |-> cache[b], got |-> NoDict])

\* getDictTypeByCode: 404, 304 (the cached copy is used) or the items are read.
ReadType(b) ==
    /\ fetch[b].pc = "type"
    /\ \/ /\ \/ dictType.state # "live"
             \/ fetch[b].tag.known /\ fetch[b].tag.hash = dictType.hash
             \/ "db" \in Faults
          /\ Fetch(b, NoFetch)
       \/ /\ dictType.state = "live"
          /\ ~(fetch[b].tag.known /\ fetch[b].tag.hash = dictType.hash)
          /\ Fetch(b, [fetch[b] EXCEPT !.pc = "items",
                          !.got = [NoDict EXCEPT !.known = TRUE, !.version = dictType.version,
                                                 !.hash = dictType.hash]])

\* Mutant: the items of the answer are those of the cached copy's version.
ListItemsOfTag(b) ==
    /\ fetch[b].pc = "items"
    /\ Fetch(b, [fetch[b] EXCEPT !.pc = "reply", !.got.items = fetch[b].tag.items])

\* listItemsByTypeID, a statement of its own on the pool.
ListItems(b) ==
    /\ fetch[b].pc = "items"
    /\ Fetch(b, [fetch[b] EXCEPT !.pc = "reply", !.got.items = Content(item)])

\* setCachedDict.
StoreDict(b) ==
    /\ fetch[b].pc = "reply"
    /\ cache' = [cache EXCEPT ![b] = fetch[b].got]
    /\ fetch' = [fetch EXCEPT ![b] = NoFetch]
    /\ UNCHANGED <<dictVars, configVars, writes>>

LoseAnswer(b) ==
    /\ "net" \in Faults
    /\ fetch[b].pc # "idle"
    /\ Fetch(b, NoFetch)

\* A closed tab takes its sessionStorage with it; clearDictCache, which only tests
\* call, does the same and lets a fetch in flight go on.
ClearCache(b) ==
    /\ cache[b].known
    /\ cache' = [cache EXCEPT ![b] = NoDict]
    /\ UNCHANGED <<fetch, dictVars, configVars, writes>>

-----------------------------------------------------------------------------
ItemTransaction(w) ==
    \/ \E i \in Items : CreateItem(w, i) \/ UpdateItem(w, i) \/ DeleteItem(w, i)
    \/ itemIsReferenced(w) \/ InsertItem(w) \/ ChangeItem(w)
    \/ RehashItems(w) \/ BumpType(w) \/ CommitItem(w) \/ RollbackItem(w)

ConfigTransaction(p) ==
    PutConfig(p) \/ RetireActive(p) \/ InsertVersion(p) \/ CommitConfig(p) \/ RollbackConfig(p)

BrowserStep(b) ==
    FetchDict(b) \/ ReadType(b) \/ ListItems(b) \/ StoreDict(b) \/ LoseAnswer(b) \/ ClearCache(b)

Next ==
    \/ CreateDictType \/ UpdateDictType \/ softDeleteDictType
    \/ \E w \in Writers : ItemTransaction(w)
    \/ \E i \in Items : Reference(i) \/ Unreference(i)
    \/ \E p \in Publishers : ConfigTransaction(p)
    \/ \E b \in Browsers : BrowserStep(b)

Spec == Init /\ [][Next]_vars

-----------------------------------------------------------------------------
(* Every change of what a reader would get comes with a higher version,     *)
(* and no version is ever used for two contents, although two transactions *)
(* work out version and hash side by side.                                 *)
ItemChangeBumpsVersion ==
    [][Content(item') # Content(item) => dictType'.version > dictType.version]_vars

(* The browser never holds items older than the version it holds them      *)
(* under, whatever commits between the two statements of a fetch and        *)
(* however long an answer takes and whenever the copy is dropped.           *)
CachedItemsNotOlder ==
    \A b \in Browsers : cache[b].known =>
        \E v \in 1..Len(published) : v >= cache[b].version /\ cache[b].items = published[v]

(* Whatever two publishers do at once, a key has one active version, the    *)
(* newest, and a publisher that is about to commit will keep it so.         *)
ConfigHasOneActive ==
    /\ \A v \in 1..Len(config) : config[v].active <=> v = Len(config)
    /\ \A p \in Publishers : put[p].pc = "commit" => put[p].prev = Len(config)

-----------------------------------------------------------------------------
(* What the repository says and the code does not do.                      *)

(* dict/repo.go:450: the stored hash and the item set never diverge.       *)
HashMatchesItems == dictType.state = "live" => dictType.hash = hashItems(item)
=============================================================================
