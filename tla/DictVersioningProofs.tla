------------------------ MODULE DictVersioningProofs ------------------------
(***************************************************************************)
(* Proofs about DictVersioning, for every set of items, writers, browsers  *)
(* and publishers: no two contents share a version, a cache is never older *)
(* than it says, and a configuration key has one active version.           *)
(***************************************************************************)
EXTENDS DictVersioning, SequenceTheorems, TLAPS

-----------------------------------------------------------------------------
(* The inductive invariant.                                                *)

\* The last version stands for the items as they are, and before there is a
\* type there is nothing to read.
Versions ==
    /\ dictType.version = Len(published)
    /\ dictType.state = "absent" =>
          /\ published = <<>>
          /\ \A w \in Writers : tx[w].pc = "idle"
          /\ \A i \in Items : item[i].state = "absent"
    /\ dictType.state # "absent" =>
          Len(published) > 0 /\ published[Len(published)] = Content(item)

\* A transaction under way is about an item there can be.
Working == \A w \in Writers : tx[w].pc # "idle" => tx[w].item \in Items

\* A copy of the dictionary is some version, and not an older one than it says.
NotOlder(d) == \E v \in 1..Len(published) : v >= d.version /\ d.items = published[v]

Fetching ==
    \A b \in Browsers :
        /\ fetch[b].pc = "items" =>
              fetch[b].got.version <= Len(published) /\ Len(published) > 0
        /\ fetch[b].pc = "reply" => NotOlder(fetch[b].got)

\* Only one transaction holds the next version, all others a row there was.
Publishing ==
    /\ \A p \in Publishers : put[p].pc \in {"insert", "commit"} => put[p].prev <= Len(config)
    /\ \A p, q \in Publishers : put[p].pc = "commit" /\ put[q].pc = "commit" => p = q

IInv ==
    /\ TypeOK /\ Versions /\ Working /\ Fetching /\ CachedItemsNotOlder
    /\ Publishing /\ ConfigHasOneActive

-----------------------------------------------------------------------------
(* Types.                                                                  *)

LEMMA AnyItemType == AnyItem \in ItemRows /\ AnyItem.state = "absent"
<1>1. PICK l \in Labels, e \in Extras : TRUE
  BY DictAssumption
<1>2. [state |-> "absent", active |-> FALSE, label |-> l, extra |-> e] \in ItemRows
  BY DEF ItemRows
<1>3. \E r \in ItemRows : r.state = "absent"
  BY <1>2
<1> QED
  BY <1>3 DEF AnyItem

LEMMA HashType == ASSUME NEW rows \in [Items -> ItemRows] PROVE hashItems(rows) \in Hashes
<1>1. \A i \in Items : rows[i].label \in Labels /\ rows[i].active \in BOOLEAN
  BY DEF ItemRows
<1> QED
  BY <1>1 DEF hashItems, Live, Hashes

LEMMA ContentType == ASSUME NEW rows \in [Items -> ItemRows] PROVE Content(rows) \in Contents
  BY DEF Content, Live, Contents

LEMMA NoTxType == NoTx \in Txs /\ NoTx.pc = "idle"
  BY AnyItemType DEF NoTx, Txs, Hashes

LEMMA NoPutType == NoPut \in Puts /\ NoPut.pc = "idle"
<1>1. (CHOOSE v \in Values : TRUE) \in Values
  BY DictAssumption
<1> QED
  BY <1>1 DEF NoPut, Puts

LEMMA NoDictType == NoDict \in CachedDicts /\ ~NoDict.known
  BY DEF NoDict, CachedDicts, Contents, Hashes

LEMMA NoFetchType == NoFetch \in Fetches /\ NoFetch.pc = "idle"
  BY NoDictType DEF NoFetch, Fetches

LEMMA SeenType == ASSUME TypeOK, NEW w \in Writers PROVE Seen(w) \in [Items -> ItemRows]
<1>1. tx[w].new \in ItemRows
  BY DEF TypeOK, Txs
<1> QED
  BY <1>1 DEF Seen, TypeOK

-----------------------------------------------------------------------------
(* Frames: the dictionary, its readers and the configuration.              *)

\* Nothing the readers look at changes.
LEMMA ReadersKeep ==
    ASSUME Fetching, CachedItemsNotOlder, cache' = cache, fetch' = fetch, published' = published
    PROVE  Fetching' /\ CachedItemsNotOlder'
  BY DEF Fetching, NotOlder, CachedItemsNotOlder

LEMMA ConfigKeeps ==
    ASSUME Publishing, ConfigHasOneActive, config' = config, put' = put
    PROVE  Publishing' /\ ConfigHasOneActive'
  BY DEF Publishing, ConfigHasOneActive

\* A version more: what was true of the versions so far stays true.
LEMMA PublishKeeps ==
    ASSUME TypeOK, Fetching, CachedItemsNotOlder, cache' = cache, fetch' = fetch,
           NEW c \in Contents, published' = Append(published, c)
    PROVE  Fetching' /\ CachedItemsNotOlder'
<1>1. /\ Len(published) \in Nat /\ Len(published') = Len(published) + 1
      /\ \A v \in 1..Len(published) : published'[v] = published[v]
  BY DEF TypeOK
<1>2. \A d \in CachedDicts : NotOlder(d) => NotOlder(d)'
  BY <1>1 DEF NotOlder
<1>3. \A b \in Browsers : /\ cache[b] \in CachedDicts /\ fetch[b].got \in CachedDicts
                          /\ fetch[b].got.version \in Nat
  BY DEF TypeOK, Fetches, CachedDicts
<1>4. CachedItemsNotOlder'
  <2> SUFFICES ASSUME NEW b \in Browsers, cache[b].known PROVE NotOlder(cache[b])'
    BY DEF CachedItemsNotOlder, NotOlder
  <2>1. NotOlder(cache[b])
    BY DEF CachedItemsNotOlder, NotOlder
  <2> QED
    BY <1>1, <2>1 DEF NotOlder
<1>5. Fetching'
  <2> SUFFICES ASSUME NEW b \in Browsers
               PROVE  /\ fetch[b].pc = "items" =>
                            fetch[b].got.version <= Len(published') /\ Len(published') > 0
                      /\ fetch[b].pc = "reply" => NotOlder(fetch[b].got)'
    BY DEF Fetching
  <2>1. fetch[b].pc = "reply" => NotOlder(fetch[b].got)'
    BY <1>1 DEF Fetching, NotOlder
  <2> QED
    BY <1>1, <1>3, <2>1 DEF Fetching
<1> QED
  BY <1>4, <1>5

\* A transaction of an item goes on and has committed nothing.
LEMMA TxStep ==
    ASSUME IInv, NEW w \in Writers, NEW t \in Txs, tx' = [tx EXCEPT ![w] = t],
           t.pc # "idle" => dictType.state # "absent" /\ t.item \in Items, writes' \in Nat,
           UNCHANGED <<dictType, item, referenced, published, configVars, browserVars>>
    PROVE  IInv'
<1>1. /\ dictType' = dictType /\ item' = item /\ referenced' = referenced
      /\ published' = published /\ config' = config /\ put' = put /\ cache' = cache
      /\ fetch' = fetch
  BY DEF configVars, browserVars
<1>2. TypeOK'
  BY <1>1 DEF IInv, TypeOK
<1>3. \A v \in Writers : tx'[v] = IF v = w THEN t ELSE tx[v]
  BY DEF IInv, TypeOK
<1>4. Versions'
  BY <1>1, <1>3 DEF IInv, Versions, Content, Live
<1>5. Working'
  BY <1>3 DEF IInv, Working
<1> QED
  BY <1>1, <1>2, <1>4, <1>5, ReadersKeep, ConfigKeeps DEF IInv

\* A reader's step.
LEMMA FetchStep ==
    ASSUME IInv, NEW b \in Browsers, NEW f \in Fetches, fetch' = [fetch EXCEPT ![b] = f],
           NEW d \in CachedDicts, cache' = [cache EXCEPT ![b] = d],
           d.known => NotOlder(d),
           f.pc = "items" => f.got.version <= Len(published) /\ Len(published) > 0,
           f.pc = "reply" => NotOlder(f.got),
           UNCHANGED <<dictVars, configVars, writes>>
    PROVE  IInv'
<1>1. /\ dictType' = dictType /\ item' = item /\ referenced' = referenced /\ tx' = tx
      /\ published' = published /\ config' = config /\ put' = put /\ writes' = writes
  BY DEF dictVars, configVars
<1>2. TypeOK'
  BY <1>1 DEF IInv, TypeOK
<1>3. \A c \in Browsers : /\ fetch'[c] = IF c = b THEN f ELSE fetch[c]
                          /\ cache'[c] = IF c = b THEN d ELSE cache[c]
  BY DEF IInv, TypeOK
<1>4. Versions' /\ Working'
  BY <1>1 DEF IInv, Versions, Working, Content, Live
<1>5. Fetching'
  BY <1>1, <1>3 DEF IInv, Fetching, NotOlder
<1>6. CachedItemsNotOlder'
  BY <1>1, <1>3 DEF IInv, CachedItemsNotOlder, NotOlder
<1> QED
  BY <1>1, <1>2, <1>4, <1>5, <1>6, ConfigKeeps DEF IInv

-----------------------------------------------------------------------------
(* Every step keeps the invariant.                                         *)

LEMMA InitHolds == ASSUME Init PROVE IInv
<1>1. TypeOK
  BY AnyItemType, NoTxType, NoPutType, NoDictType, NoFetchType, EmptySeq
     DEF Init, TypeOK, TypeRows, Hashes
<1>2. Versions /\ Working
  BY NoTxType, AnyItemType DEF Init, Versions, Working
<1>3. Fetching /\ CachedItemsNotOlder
  BY NoFetchType, NoDictType DEF Init, Fetching, CachedItemsNotOlder
<1>4. Publishing /\ ConfigHasOneActive
  BY NoPutType DEF Init, Publishing, ConfigHasOneActive
<1> QED
  BY <1>1, <1>2, <1>3, <1>4 DEF IInv

\* The first version of the type stands for no items.
LEMMA TypeBegins == ASSUME IInv, CreateDictType PROVE IInv' /\ item' = item
<1>1. /\ dictType.state = "absent"
      /\ dictType' = [state |-> "live", active |-> TRUE, version |-> 1, hash |-> hashItems(item)]
      /\ published' = <<Content(item)>> /\ item' = item /\ referenced' = referenced /\ tx' = tx
      /\ config' = config /\ put' = put /\ cache' = cache /\ fetch' = fetch /\ writes' = writes
  BY DEF CreateDictType, configVars, browserVars
<1>2. Content(item) \in Contents /\ hashItems(item) \in Hashes /\ published = <<>>
  BY <1>1, ContentType, HashType DEF IInv, TypeOK, Versions
<1>3. published' = Append(published, Content(item)) /\ Len(published') = 1
      /\ published'[1] = Content(item)
  BY <1>1, <1>2
<1>4. TypeOK'
  <2>1. dictType' \in TypeRows
    BY <1>1, <1>2 DEF TypeRows
  <2>2. published' \in Seq(Contents)
    BY <1>2, <1>3 DEF IInv, TypeOK
  <2> QED
    BY <1>1, <2>1, <2>2 DEF IInv, TypeOK
<1>5. Versions' /\ Working'
  BY <1>1, <1>3 DEF IInv, Versions, Working, Content, Live
<1> QED
  BY <1>1, <1>2, <1>3, <1>4, <1>5, PublishKeeps, ConfigKeeps DEF IInv

\* A change of the type row that keeps its version.
LEMMA TypeChanges == ASSUME IInv, UpdateDictType \/ softDeleteDictType PROVE IInv' /\ item' = item
<1>1. /\ dictType.state = "live" /\ dictType \in TypeRows
      /\ item' = item /\ referenced' = referenced /\ tx' = tx /\ published' = published
      /\ config' = config /\ put' = put /\ cache' = cache /\ fetch' = fetch /\ writes' = writes
  BY DEF UpdateDictType, softDeleteDictType, configVars, browserVars, IInv, TypeOK
<1>2. \/ \E a \in BOOLEAN : dictType' = [dictType EXCEPT !.active = a]
      \/ dictType' = [dictType EXCEPT !.state = "deleted", !.active = FALSE]
  BY DEF UpdateDictType, softDeleteDictType
<1>3. /\ dictType' \in TypeRows /\ dictType'.version = dictType.version
      /\ dictType'.state \in {"live", "deleted"}
  BY <1>1, <1>2 DEF TypeRows
<1>4. TypeOK' /\ Versions' /\ Working'
  BY <1>1, <1>3 DEF IInv, TypeOK, Versions, Working, Content, Live
<1> QED
  BY <1>1, <1>4, ReadersKeep, ConfigKeeps DEF IInv

LEMMA ReferenceKeeps ==
    ASSUME IInv, NEW i \in Items, Reference(i) \/ Unreference(i) PROVE IInv' /\ item' = item
<1>1. /\ dictType' = dictType /\ item' = item /\ referenced' \in SUBSET Items /\ tx' = tx
      /\ published' = published /\ config' = config /\ put' = put /\ cache' = cache
      /\ fetch' = fetch /\ writes' = writes
  BY DEF Reference, Unreference, configVars, browserVars, IInv, TypeOK
<1>2. TypeOK' /\ Versions' /\ Working'
  BY <1>1 DEF IInv, TypeOK, Versions, Working, Content, Live
<1> QED
  BY <1>1, <1>2, ReadersKeep, ConfigKeeps DEF IInv

LEMMA TxBegins ==
    ASSUME IInv, NEW w \in Writers, NEW i \in Items,
           CreateItem(w, i) \/ UpdateItem(w, i) \/ DeleteItem(w, i)
    PROVE  IInv' /\ item' = item
<1>1. /\ dictType.state # "absent" /\ writes' \in Nat /\ item' = item
      /\ UNCHANGED <<dictType, item, referenced, published, configVars, browserVars>>
  BY DEF CreateItem, UpdateItem, DeleteItem, Begin, IInv, TypeOK, Versions
<1>2. \E t \in Txs : tx' = [tx EXCEPT ![w] = t] /\ t.item \in Items
  <2>1. \A t \in {[NoTx EXCEPT !.pc = "write", !.item = i],
                   [NoTx EXCEPT !.pc = "write", !.op = "update", !.item = i],
                   [NoTx EXCEPT !.pc = "check", !.op = "delete", !.item = i]} :
            t \in Txs /\ t.item \in Items
    BY NoTxType DEF Txs
  <2> QED
    BY <2>1 DEF CreateItem, UpdateItem, DeleteItem, Begin
<1> QED
  BY <1>1, <1>2, TxStep

LEMMA StepKeeps ==
    ASSUME IInv, NEW w \in Writers, NEW t \in Txs, Step(w, t), tx[w].pc # "idle",
           t.pc # "idle" => t.item = tx[w].item
    PROVE  IInv' /\ item' = item
<1>1. writes' \in Nat /\ dictType.state # "absent" /\ tx[w].item \in Items
  BY DEF Step, IInv, TypeOK, Versions, Working
<1> QED
  BY <1>1, TxStep DEF Step

LEMMA TxGoes ==
    ASSUME IInv, NEW w \in Writers,
           \/ itemIsReferenced(w) \/ InsertItem(w) \/ ChangeItem(w)
           \/ RehashItems(w) \/ BumpType(w) \/ RollbackItem(w)
    PROVE  IInv' /\ item' = item
<1>1. tx[w].pc # "idle" /\ tx[w] \in Txs
  BY DEF itemIsReferenced, InsertItem, ChangeItem, RehashItems, BumpType, RollbackItem, IInv, TypeOK
<1>2. \A row \in ItemRows : LET t == [tx[w] EXCEPT !.pc = "rehash", !.new = row]
                             IN  t \in Txs /\ t.item = tx[w].item
  BY <1>1 DEF Txs
<1>3. CASE Step(w, NoTx)
  BY <1>1, <1>3, NoTxType, StepKeeps
<1>4. ASSUME NEW row \in ItemRows, Write(w, row) PROVE IInv' /\ item' = item
  BY <1>1, <1>2, <1>4, StepKeeps DEF Write
<1>5. CASE itemIsReferenced(w)
  <2> DEFINE t == [tx[w] EXCEPT !.pc = "write",
                      !.op = IF tx[w].item \in referenced THEN "retire" ELSE "delete"]
  <2>1. t \in Txs /\ t.item = tx[w].item
    BY <1>1 DEF Txs
  <2> QED
    BY <1>1, <1>5, <2>1, StepKeeps DEF itemIsReferenced
<1>6. CASE InsertItem(w)
  <2>1. \A l \in Labels, e \in Extras :
            [state |-> "live", active |-> TRUE, label |-> l, extra |-> e] \in ItemRows
    BY DEF ItemRows
  <2> QED
    BY <1>3, <1>4, <1>6, <2>1 DEF InsertItem, Abort
<1>7. CASE ChangeItem(w)
  <2>1. CASE item[tx[w].item].state # "live"
    BY <1>3, <1>7, <2>1 DEF ChangeItem, Abort
  <2>2. CASE item[tx[w].item].state = "live"
    <3>1. tx[w].item \in Items
      BY <1>1 DEF IInv, Working
    <3>2. /\ item[tx[w].item] \in ItemRows
          /\ \A l \in Labels, e \in Extras, a \in BOOLEAN :
                [item[tx[w].item] EXCEPT !.label = l, !.extra = e, !.active = a] \in ItemRows
          /\ [item[tx[w].item] EXCEPT !.active = FALSE] \in ItemRows
          /\ [item[tx[w].item] EXCEPT !.state = "deleted", !.active = FALSE] \in ItemRows
      BY <3>1 DEF IInv, TypeOK, ItemRows
    <3> QED
      BY <1>4, <1>7, <2>2, <3>2 DEF ChangeItem
  <2> QED
    BY <2>1, <2>2
<1>8. CASE RehashItems(w)
  <2> DEFINE t == [tx[w] EXCEPT !.pc = "bump", !.hash = hashItems(Seen(w))]
  <2>1. t \in Txs /\ t.item = tx[w].item
    BY <1>1, SeenType, HashType DEF Txs, IInv
  <2> QED
    BY <1>1, <1>8, <2>1, StepKeeps DEF RehashItems
<1>9. CASE BumpType(w)
  <2> DEFINE t == [tx[w] EXCEPT !.pc = "commit"]
  <2>1. t \in Txs /\ t.item = tx[w].item
    BY <1>1 DEF Txs
  <2> QED
    BY <1>1, <1>3, <1>9, <2>1, StepKeeps DEF BumpType, Abort
<1>10. CASE RollbackItem(w)
  BY <1>3, <1>10 DEF RollbackItem, Abort
<1> QED
  BY <1>5, <1>6, <1>7, <1>8, <1>9, <1>10

\* COMMIT: the items change, and with them the version.
LEMMA ItemCommits ==
    ASSUME IInv, NEW w \in Writers, CommitItem(w)
    PROVE  IInv' /\ dictType'.version > dictType.version
<1>0. tx[w] \in Txs
  BY DEF IInv, TypeOK
<1>1. /\ tx[w].pc = "commit"
      /\ item' = Seen(w) /\ published' = Append(published, Content(Seen(w)))
      /\ dictType' = [dictType EXCEPT !.version = @ + 1, !.hash = tx[w].hash]
      /\ tx' = [tx EXCEPT ![w] = NoTx] /\ referenced' = referenced /\ writes' = writes
      /\ config' = config /\ put' = put /\ cache' = cache /\ fetch' = fetch
  BY DEF CommitItem, configVars, browserVars
<1>2. item' \in [Items -> ItemRows] /\ Content(item') \in Contents
  BY <1>1, SeenType, ContentType DEF IInv
<1>3. /\ Len(published) \in Nat /\ Len(published') = Len(published) + 1
      /\ published'[Len(published')] = Content(item') /\ published' \in Seq(Contents)
  BY <1>1, <1>2 DEF IInv, TypeOK
<1>4. /\ dictType' \in TypeRows /\ dictType'.version = dictType.version + 1
      /\ dictType'.state = dictType.state /\ dictType.state # "absent" /\ dictType.version \in Nat
  <2>1. tx[w].hash \in Hashes
    BY <1>0 DEF Txs
  <2>2. dictType \in TypeRows /\ dictType.state # "absent"
    BY <1>1 DEF IInv, TypeOK, Versions
  <2>3. dictType' = [dictType EXCEPT !.version = dictType.version + 1, !.hash = tx[w].hash]
    BY <1>1
  <2>4. dictType.version \in Nat /\ dictType.version + 1 \in Nat
    BY <2>2 DEF TypeRows
  <2>5. dictType' \in TypeRows
    BY <2>1, <2>2, <2>3, <2>4 DEF TypeRows
  <2>6. dictType'.version = dictType.version + 1 /\ dictType'.state = dictType.state
    BY <2>2, <2>3 DEF TypeRows
  <2> QED
    BY <2>2, <2>4, <2>5, <2>6
<1>5. \A v \in Writers : tx'[v] = IF v = w THEN NoTx ELSE tx[v]
  BY <1>1 DEF IInv, TypeOK
<1>6. TypeOK'
  BY <1>1, <1>2, <1>3, <1>4, NoTxType DEF IInv, TypeOK
<1>7. Versions'
  <2>1. Content(item)' = Content(item')
    BY DEF Content, Live
  <2> QED
    BY <1>3, <1>4, <2>1 DEF IInv, Versions
<1>8. Working'
  BY <1>5, NoTxType DEF IInv, Working
<1> QED
  BY <1>1, <1>2, <1>4, <1>6, <1>7, <1>8, PublishKeeps, ConfigKeeps DEF IInv

\* A step of a publisher that changes no row.
LEMMA PutStep ==
    ASSUME IInv, NEW p \in Publishers, NEW s \in Puts, Publish(p, s), writes' \in Nat,
           s.pc \in {"insert", "commit"} => s.prev <= Len(config),
           s.pc = "commit" => /\ s.prev = Len(config)
                              /\ \A q \in Publishers : put[q].pc # "commit"
    PROVE  IInv' /\ item' = item
<1>1. /\ dictType' = dictType /\ item' = item /\ referenced' = referenced /\ tx' = tx
      /\ published' = published /\ config' = config /\ cache' = cache /\ fetch' = fetch
      /\ put' = [put EXCEPT ![p] = s]
  BY DEF Publish, configFrame, dictVars, browserVars
<1>2. \A q \in Publishers : put'[q] = IF q = p THEN s ELSE put[q]
  BY <1>1 DEF IInv, TypeOK
<1>3. TypeOK' /\ Versions' /\ Working'
  BY <1>1 DEF IInv, TypeOK, Versions, Working, Content, Live
<1>4. Publishing' /\ ConfigHasOneActive'
  BY <1>1, <1>2 DEF IInv, Publishing, ConfigHasOneActive
<1> QED
  BY <1>1, <1>3, <1>4, ReadersKeep DEF IInv

LEMMA PublisherGoes ==
    ASSUME IInv, NEW p \in Publishers,
           PutConfig(p) \/ RetireActive(p) \/ InsertVersion(p) \/ RollbackConfig(p)
    PROVE  IInv' /\ item' = item
<1>1. /\ put[p] \in Puts /\ put[p].prev \in Nat /\ put[p].target \in Nat /\ Len(config) \in Nat
      /\ writes \in Nat
  BY DEF IInv, TypeOK, Puts
<1>2. CASE PutConfig(p)
  <2>1. PICK x \in Values, v \in 0..Len(config) :
           Publish(p, [pc |-> "retire", value |-> x, target |-> v, prev |-> 0])
    BY <1>2 DEF PutConfig
  <2>2. [pc |-> "retire", value |-> x, target |-> v, prev |-> 0] \in Puts
    BY <1>1 DEF Puts
  <2>3. writes' \in Nat
    BY <1>1, <1>2 DEF PutConfig
  <2> QED
    BY <2>1, <2>2, <2>3, PutStep
<1>3. CASE RetireActive(p)
  <2> DEFINE n == IF Active(put[p].target) THEN put[p].target ELSE 0
             s == [put[p] EXCEPT !.pc = "insert", !.prev = n]
  <2>1. n \in Nat /\ n <= Len(config)
    BY <1>1 DEF Active
  <2>2. s \in Puts /\ s.pc = "insert" /\ s.prev = n
    BY <1>1, <2>1 DEF Puts
  <2>3. Publish(p, s) /\ writes' = writes
    BY <1>3 DEF RetireActive
  <2> QED
    BY <1>1, <2>1, <2>2, <2>3, PutStep
<1>4. CASE Publish(p, NoPut) /\ writes' = writes
  BY <1>1, <1>4, NoPutType, PutStep
<1>5. CASE InsertVersion(p)
  <2>1. CASE VersionTaken(p)
    BY <1>4, <1>5, <2>1 DEF InsertVersion
  <2>2. CASE ~VersionTaken(p)
    <3> DEFINE s == [put[p] EXCEPT !.pc = "commit"]
    <3>1. put[p].pc = "insert" /\ put[p].prev <= Len(config)
      BY <1>5 DEF InsertVersion, IInv, Publishing
    <3>2. put[p].prev = Len(config)
      BY <1>1, <2>2, <3>1 DEF VersionTaken, newVersion
    <3>3. s \in Puts /\ s.pc = "commit" /\ s.prev = Len(config)
      BY <1>1, <3>2 DEF Puts
    <3>4. Publish(p, s) /\ writes' = writes /\ \A q \in Publishers : put[q].pc # "commit"
      BY <1>5, <2>2 DEF InsertVersion
    <3> HIDE DEF s
    <3> QED
      BY <1>1, <3>3, <3>4, PutStep
  <2> QED
    BY <2>1, <2>2
<1>6. CASE RollbackConfig(p)
  BY <1>4, <1>6 DEF RollbackConfig
<1> QED
  BY <1>2, <1>3, <1>5, <1>6

\* The publisher that commits retires the one active version there is.
LEMMA ConfigCommits ==
    ASSUME IInv, NEW p \in Publishers, CommitConfig(p) PROVE IInv' /\ item' = item
<1> DEFINE retired == [v \in 1..Len(config) |->
               IF v = put[p].prev THEN [config[v] EXCEPT !.active = FALSE] ELSE config[v]]
           new == [value |-> put[p].value, active |-> TRUE]
<1>1. /\ put[p].pc = "commit" /\ put[p].prev = Len(config) /\ put[p].value \in Values
      /\ config \in Seq(ConfigRows) /\ Len(config) \in Nat
      /\ config' = Append(retired, new) /\ put' = [put EXCEPT ![p] = NoPut]
      /\ dictType' = dictType /\ item' = item /\ referenced' = referenced /\ tx' = tx
      /\ published' = published /\ cache' = cache /\ fetch' = fetch /\ writes' = writes
  <2>1. put[p] \in Puts /\ config \in Seq(ConfigRows)
    BY DEF IInv, TypeOK
  <2>2. put[p].value \in Values
    BY <2>1 DEF Puts
  <2>3. put[p].pc = "commit" => put[p].prev = Len(config)
    BY DEF IInv, ConfigHasOneActive
  <2>4. Len(config) \in Nat
    BY <2>1
  <2>5. UNCHANGED <<dictVars, browserVars, writes>> /\ put[p].pc = "commit"
    BY DEF CommitConfig, configFrame
  <2>6. config' = Append(retired, new) /\ put' = [put EXCEPT ![p] = NoPut]
    BY DEF CommitConfig
  <2> HIDE DEF retired, new
  <2> QED
    BY <2>1, <2>2, <2>3, <2>4, <2>5, <2>6 DEF dictVars, browserVars
<1>2. \A v \in 1..Len(config) : /\ config[v] \in ConfigRows
                               /\ [config[v] EXCEPT !.active = FALSE] \in ConfigRows
                               /\ ~[config[v] EXCEPT !.active = FALSE].active
  <2> TAKE v \in 1..Len(config)
  <2>1. config[v] \in ConfigRows
    BY <1>1
  <2> QED
    BY <2>1 DEF ConfigRows
<1>3. retired \in Seq(ConfigRows) /\ Len(retired) = Len(config)
  <2>1. retired \in [1..Len(config) -> ConfigRows]
    BY <1>2
  <2>2. retired \in Seq(ConfigRows)
    BY <1>1, <2>1, SeqDef
  <2> QED
    BY <1>1, <2>1, <2>2, LenProperties
<1>4. \A v \in 1..Len(config) : ~retired[v].active
  BY <1>1, <1>2 DEF IInv, ConfigHasOneActive
<1>5. new \in ConfigRows /\ new.active
  BY <1>1 DEF ConfigRows
<1> HIDE DEF retired, new
<1>6. /\ config' \in Seq(ConfigRows) /\ Len(config') = Len(config) + 1
      /\ config'[Len(config')] = new
      /\ \A v \in 1..Len(config) : config'[v] = retired[v]
  BY <1>1, <1>3, <1>5
<1>7. \A q \in Publishers : put'[q] = IF q = p THEN NoPut ELSE put[q]
  BY <1>1 DEF IInv, TypeOK
<1>8. \A q \in Publishers : put'[q].pc # "commit"
  BY <1>1, <1>7, NoPutType DEF IInv, Publishing
<1>9. TypeOK' /\ Versions' /\ Working'
  BY <1>1, <1>6, NoPutType DEF IInv, TypeOK, Versions, Working, Content, Live
<1>10. Publishing'
  <2>1. \A q \in Publishers : put[q].prev \in Nat
    BY DEF IInv, TypeOK, Puts
  <2> QED
    BY <1>1, <1>6, <1>7, <1>8, <2>1, NoPutType DEF IInv, Publishing
<1>11. ConfigHasOneActive'
  <2>1. \A v \in 1..Len(config') : v \in 1..Len(config) \/ v = Len(config')
    BY <1>1, <1>6
  <2>2. \A v \in 1..Len(config') : config'[v].active <=> v = Len(config')
    BY <1>1, <1>4, <1>5, <1>6, <2>1
  <2> QED
    BY <1>8, <2>2 DEF ConfigHasOneActive
<1> QED
  BY <1>1, <1>9, <1>10, <1>11, ReadersKeep DEF IInv

\* The items are read after the version, so they are of that version or later.
LEMMA BrowserKeeps ==
    ASSUME IInv, NEW b \in Browsers, BrowserStep(b) PROVE IInv' /\ item' = item
<1>1. /\ fetch[b] \in Fetches /\ fetch[b].got \in CachedDicts /\ cache[b] \in CachedDicts
      /\ fetch[b].got.version \in Nat /\ Len(published) \in Nat
      /\ cache[b].known => NotOlder(cache[b])
  <2>1. fetch[b] \in Fetches /\ cache[b] \in CachedDicts /\ Len(published) \in Nat
    BY DEF IInv, TypeOK
  <2>2. fetch[b].got \in CachedDicts
    BY <2>1 DEF Fetches
  <2>3. fetch[b].got.version \in Nat
    BY <2>2 DEF CachedDicts
  <2>4. cache[b].known => NotOlder(cache[b])
    BY DEF IInv, CachedItemsNotOlder, NotOlder
  <2> QED
    BY <2>1, <2>2, <2>3, <2>4
<1>2. item' = item
  <2>1. CASE FetchDict(b) \/ ListItems(b) \/ LoseAnswer(b)
    BY <2>1 DEF FetchDict, ListItems, LoseAnswer, Fetch, dictVars
  <2>2. CASE ReadType(b)
    BY <2>2 DEF ReadType, Fetch, dictVars
  <2>3. CASE StoreDict(b) \/ ClearCache(b)
    BY <2>3 DEF StoreDict, ClearCache, dictVars
  <2> QED
    BY <2>1, <2>2, <2>3 DEF BrowserStep
<1>3. cache = [cache EXCEPT ![b] = cache[b]] /\ fetch = [fetch EXCEPT ![b] = fetch[b]]
  BY DEF IInv, TypeOK
<1>4. ASSUME NEW f \in Fetches, Fetch(b, f),
             f.pc = "items" => f.got.version <= Len(published) /\ Len(published) > 0,
             f.pc = "reply" => NotOlder(f.got)
      PROVE  IInv'
  BY <1>1, <1>3, <1>4, FetchStep DEF Fetch
<1>5. CASE Fetch(b, NoFetch)
  BY <1>2, <1>4, <1>5, NoFetchType
<1>6. CASE FetchDict(b)
  <2>1. [pc |-> "type", tag |-> cache[b], got |-> NoDict] \in Fetches
    BY <1>1, NoDictType DEF Fetches
  <2> QED
    BY <1>2, <1>4, <1>6, <2>1 DEF FetchDict
<1>7. CASE ReadType(b)
  <2> DEFINE g == [NoDict EXCEPT !.known = TRUE, !.version = dictType.version, !.hash = dictType.hash]
             f == [fetch[b] EXCEPT !.pc = "items", !.got = g]
  <2>1. dictType.version \in Nat /\ dictType.hash \in Hashes
    BY DEF IInv, TypeOK, TypeRows
  <2>2. g \in CachedDicts /\ g.version = dictType.version
    BY <2>1, NoDictType DEF CachedDicts, NoDict
  <2> HIDE DEF g
  <2>3. f \in Fetches /\ f.pc = "items" /\ f.got = g
    BY <1>1, <2>2 DEF Fetches
  <2>4. Fetch(b, NoFetch) \/ (Fetch(b, f) /\ dictType.state = "live")
    BY <1>7 DEF ReadType, g
  <2> HIDE DEF f
  <2>5. dictType.state = "live" => f.got.version <= Len(published) /\ Len(published) > 0
    BY <1>1, <2>2, <2>3 DEF IInv, Versions
  <2> QED
    BY <1>2, <1>4, <1>5, <2>3, <2>4, <2>5
<1>8. CASE ListItems(b)
  <2> DEFINE g == [fetch[b].got EXCEPT !.items = Content(item)]
             f == [fetch[b] EXCEPT !.pc = "reply", !.got.items = Content(item)]
  <2>1. Content(item) \in Contents
    BY ContentType DEF IInv, TypeOK
  <2>2. g \in CachedDicts /\ g.version = fetch[b].got.version /\ g.items = Content(item)
    BY <1>1, <2>1 DEF CachedDicts
  <2>3. f \in Fetches /\ f.pc = "reply" /\ f.got = g
    BY <1>1, <2>2 DEF Fetches
  <2>4. fetch[b].got.version <= Len(published) /\ Len(published) > 0
    BY <1>8 DEF ListItems, IInv, Fetching
  <2>5. dictType.state # "absent"
    <3>1. CASE dictType.state = "absent"
      BY <2>4, <3>1, EmptySeq DEF IInv, Versions
    <3> QED
      BY <3>1
  <2>6. NotOlder(g)
    BY <1>1, <2>2, <2>4, <2>5 DEF IInv, Versions, NotOlder
  <2>7. Fetch(b, f)
    BY <1>8 DEF ListItems
  <2> HIDE DEF f
  <2> QED
    BY <1>2, <1>4, <2>3, <2>6, <2>7
<1>9. CASE StoreDict(b)
  <2>1. NotOlder(fetch[b].got)
    BY <1>9 DEF StoreDict, IInv, Fetching
  <2> QED
    BY <1>1, <1>2, <1>9, <2>1, NoFetchType, FetchStep DEF StoreDict
<1>10. CASE LoseAnswer(b)
  BY <1>5, <1>10 DEF LoseAnswer
<1>11. CASE ClearCache(b)
  <2>1. /\ fetch' = [fetch EXCEPT ![b] = fetch[b]] /\ cache' = [cache EXCEPT ![b] = NoDict]
        /\ UNCHANGED <<dictVars, configVars, writes>>
    BY <1>3, <1>11 DEF ClearCache
  <2>2. /\ fetch[b].pc = "items" => fetch[b].got.version <= Len(published) /\ Len(published) > 0
        /\ fetch[b].pc = "reply" => NotOlder(fetch[b].got)
    BY DEF IInv, Fetching
  <2> QED
    BY <1>1, <1>2, <2>1, <2>2, NoDictType, FetchStep
<1> QED
  BY <1>2, <1>6, <1>7, <1>8, <1>9, <1>10, <1>11 DEF BrowserStep

LEMMA NextKeeps ==
    ASSUME IInv, [Next]_vars
    PROVE  IInv' /\ (item' = item \/ dictType'.version > dictType.version)
<1>1. CASE UNCHANGED vars
  <2>1. /\ dictType' = dictType /\ item' = item /\ referenced' = referenced /\ tx' = tx
        /\ published' = published /\ config' = config /\ put' = put /\ cache' = cache
        /\ fetch' = fetch /\ writes' = writes
    BY <1>1 DEF vars
  <2>2. TypeOK' /\ Versions' /\ Working'
    BY <2>1 DEF IInv, TypeOK, Versions, Working, Content, Live
  <2> QED
    BY <2>1, <2>2, ReadersKeep, ConfigKeeps DEF IInv
<1>2. ASSUME NEW w \in Writers, ItemTransaction(w)
      PROVE  IInv' /\ (item' = item \/ dictType'.version > dictType.version)
  BY <1>2, TxBegins, TxGoes, ItemCommits DEF ItemTransaction
<1>3. ASSUME NEW p \in Publishers, ConfigTransaction(p) PROVE IInv' /\ item' = item
  BY <1>3, PublisherGoes, ConfigCommits DEF ConfigTransaction
<1> QED
  BY <1>1, <1>2, <1>3, TypeBegins, TypeChanges, ReferenceKeeps, BrowserKeeps DEF Next

-----------------------------------------------------------------------------
(* The theorems.                                                           *)

\* The inductive invariant holds in every reachable state.
THEOREM Inductive == Spec => []IInv
<1>1. Init => IInv
  BY InitHolds
<1>2. IInv /\ [Next]_vars => IInv'
  BY NextKeeps
<1> QED
  BY <1>1, <1>2, PTL DEF Spec

\* Every variable stays in its type.
THEOREM TypeCorrect == Spec => []TypeOK
<1>1. IInv => TypeOK
  BY DEF IInv
<1> QED
  BY <1>1, Inductive, PTL

\* A cached dictionary is not older than its version, whatever commits between
\* the two statements of the read (Service.ListItems, fetchDict).
THEOREM CacheSafe == Spec => []CachedItemsNotOlder
<1>1. IInv => CachedItemsNotOlder
  BY DEF IInv
<1> QED
  BY <1>1, Inductive, PTL

\* However publishers of a key race, one version is active and it is the last
\* (swapConfigVersion and its unique indexes).
THEOREM ConfigSafe == Spec => []ConfigHasOneActive
<1>1. IInv => ConfigHasOneActive
  BY DEF IInv
<1> QED
  BY <1>1, Inductive, PTL

\* No change of the items goes without a higher version (recomputeTypeHash).
THEOREM ChangeBumps == Spec => ItemChangeBumpsVersion
<1>1. IInv /\ [Next]_vars =>
         [Content(item') # Content(item) => dictType'.version > dictType.version]_vars
  BY NextKeeps
<1> QED
  BY <1>1, Inductive, PTL DEF Spec, ItemChangeBumpsVersion
=============================================================================
