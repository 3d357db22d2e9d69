----------------------------- MODULE AttrStore ------------------------------
(***************************************************************************)
(* The attribute store of one lumi-mserver (src/libattr/attr_store.c) and   *)
(* the requests that reach it (handle_attr_msg in                           *)
(* src/cmd/mserver/mserver.c): optimistic transactions over a small table,  *)
(* validated by generation at commit, saved to a file after each commit     *)
(* and loaded when a server starts.                                         *)
(*                                                                          *)
(* A key or a value is a text of one line: a sequence of words and "=",     *)
(* which is all the file format tells apart.                                *)
(*                                                                          *)
(* A commit validates in one step (Commit), applies the staged writes one   *)
(* at a time (Apply) and saves (Save).  No other request is handled in      *)
(* between, but the process may be killed there.                            *)
(***************************************************************************)
EXTENDS Naturals, FiniteSets, SequencesExt, TLC

CONSTANTS
    Keys,           \* the keys clients use, as texts
    Values,         \* the values clients set, as texts
    NoValue,        \* the value of a key that does not exist
    KeyOrder,       \* every key that can occur, in the order of strcmp
    Conns,          \* the file descriptors of clients
    MaxKeys,        \* ATTR_MAX_KEYS
    NTxns,          \* ATTR_TXN_MAX
    TxnKeys,        \* ATTR_TXN_KEYS_MAX
    MaxBegins,      \* bound: transactions begun by one process
    MaxGen,         \* bound: generations handed out by one process
    Faults          \* what may fail: "save", "crash", "removed"

ASSUME AttrAssumption ==
    /\ MaxKeys \in Nat \ {0} /\ NTxns \in Nat \ {0} /\ TxnKeys \in Nat \ {0}
    /\ MaxBegins \in Nat /\ MaxGen \in Nat
    /\ NoValue \notin Values

VARIABLES
    entries,        \* st->entries[0 .. count-1]
    next_gen,       \* st->next_gen
    txns,           \* st->txns
    next_txn_id,    \* st->next_txn_id
    conns,          \* the file descriptors of the attached clients
    at,             \* the slot whose commit is in progress, or 0
    todo,           \* the writes this commit has still to apply
    disk            \* the file <server>/attrs; <<>> when it does not exist

vars == <<entries, next_gen, txns, next_txn_id, conns, at, todo, disk>>

Slots == 1..NTxns
Idle == at = 0

(* find_entry: the first entry with this key, or 0.                         *)
find_entry(es, key) == SelectInSeq(es, LAMBDA e : e.key = key)

GenOf(es, key) ==
    IF find_entry(es, key) = 0 THEN 0 ELSE es[find_entry(es, key)].gen
ValueOf(es, key) ==
    IF find_entry(es, key) = 0 THEN NoValue ELSE es[find_entry(es, key)].value

(* A transaction slot.  `relied' and `torn' are history: the value of each  *)
(* key when it was first touched, and whether a later get of a key returned *)
(* another value than that from the store.                                  *)
txn_clear ==
    [id |-> 0, fd |-> 0, reads |-> [k \in {} |-> 0], writes |-> <<>>,
     relied |-> [k \in {} |-> NoValue], torn |-> FALSE]

InUse(s) == txns[s].id # 0
find_txn(id) == {s \in Slots : InUse(s) /\ txns[s].id = id}

NoTxns == [s \in Slots |-> txn_clear]

(* attr_store_init; there is no file to load in a new directory.            *)
Init ==
    /\ entries = <<>> /\ next_gen = 1
    /\ txns = NoTxns /\ next_txn_id = 1
    /\ conns = {} /\ at = 0 /\ todo = <<>> /\ disk = <<>>
-----------------------------------------------------------------------------
(* Clients.  A client that leaves has its transactions rolled back: the     *)
(* slots are found by its descriptor, which the next client may reuse.      *)

Connect(fd) ==
    /\ Idle /\ fd \notin conns
    /\ conns' = conns \union {fd}
    /\ UNCHANGED <<entries, next_gen, txns, next_txn_id, at, todo, disk>>

RolledBack_first(fd) ==
    LET mine == {s \in Slots : InUse(s) /\ txns[s].fd = fd}
    IN  [s \in Slots |-> IF mine # {} /\ s = Min(mine) THEN txn_clear ELSE txns[s]]
RolledBack(fd) ==
    [s \in Slots |-> IF InUse(s) /\ txns[s].fd = fd THEN txn_clear ELSE txns[s]]

Disconnect(fd) ==
    /\ Idle /\ fd \in conns
    /\ conns' = conns \ {fd}
    /\ txns' = RolledBack(fd)
    /\ UNCHANGED <<entries, next_gen, next_txn_id, at, todo, disk>>

TxnBegin(fd) ==
    /\ Idle /\ next_txn_id <= MaxBegins
    /\ \E s \in Slots :
          /\ ~InUse(s) /\ \A u \in 1..(s - 1) : InUse(u)
          /\ txns' = [txns EXCEPT ![s] =
                        [txn_clear EXCEPT !.id = next_txn_id, !.fd = fd]]
    /\ next_txn_id' = next_txn_id + 1
    /\ UNCHANGED <<entries, next_gen, conns, at, todo, disk>>
-----------------------------------------------------------------------------
(* Operations on a transaction.  All of them first touch the key: its       *)
(* generation goes into the read set, once, unless the read set is full.    *)

CanTouch(t, key) == key \in DOMAIN t.reads \/ Cardinality(DOMAIN t.reads) < TxnKeys

txn_touch_read(t, key) ==
    [t EXCEPT !.reads = @ @@ (key :> GenOf(entries, key)),
              !.relied = @ @@ (key :> ValueOf(entries, key))]

txn_find_write(t, key) == SelectInSeq(t.writes, LAMBDA w : w.key = key)

(* Stage a write: replace the staged write of this key, or append one.      *)
Stage_append(t, key, value) ==
    [t EXCEPT !.writes = Append(@, [key |-> key, value |-> value])]
Stage(t, key, value) ==
    LET w == [key |-> key, value |-> value]
        i == txn_find_write(t, key)
    IN  [t EXCEPT !.writes = IF i = 0 THEN Append(@, w) ELSE [@ EXCEPT ![i] = w]]

(* Slot s holds transaction id and t is what touching key makes of it; a    *)
(* request for another id, or with the read set full, is refused.           *)
OnTxn(id, key) ==
    {<<s, txn_touch_read(txns[s], key)>> :
        s \in {u \in find_txn(id) : Idle /\ CanTouch(txns[u], key)}}

Update(s, t) ==
    /\ txns' = [txns EXCEPT ![s] = t]
    /\ UNCHANGED <<entries, next_gen, next_txn_id, conns, at, todo, disk>>

attr_store_set(id, key, value) ==
    \E <<s, t>> \in OnTxn(id, key) : Update(s, Stage(t, key, value))

attr_store_delete(id, key) ==
    \E <<s, t>> \in OnTxn(id, key) : Update(s, Stage(t, key, NoValue))

(* A get answers from the staged writes if it can, else from the table.     *)
attr_store_get(id, key) ==
    \E <<s, t>> \in OnTxn(id, key) :
       Update(s, IF txn_find_write(t, key) = 0
                 THEN [t EXCEPT !.torn = @ \/ ValueOf(entries, key) # t.relied[key]]
                 ELSE t)
-----------------------------------------------------------------------------
(* Commit.  The generations of the read set must be the current ones, 0     *)
(* standing for a key that does not exist; then the writes are applied.     *)

Valid_present(t) ==
    \A key \in DOMAIN t.reads : GenOf(entries, key) \in {0, t.reads[key]}
Valid(t) == \A key \in DOMAIN t.reads : GenOf(entries, key) = t.reads[key]

txn_commit(id) ==
    /\ Idle
    /\ \E s \in find_txn(id) :
          IF Valid(txns[s])
          THEN /\ next_gen + Len(txns[s].writes) <= MaxGen
               /\ at' = s /\ todo' = txns[s].writes
               /\ UNCHANGED txns
          ELSE txns' = [txns EXCEPT ![s] = txn_clear] /\ UNCHANGED <<at, todo>>
    /\ UNCHANGED <<entries, next_gen, next_txn_id, conns, disk>>

(* The end of a commit, whatever its result: the slot is free again.        *)
EndCommit ==
    /\ txns' = [txns EXCEPT ![at] = txn_clear]
    /\ at' = 0 /\ todo' = <<>>

(* Remove an entry by moving the last one into its place.                   *)
SwapRemove(es, i) ==
    SubSeq([es EXCEPT ![i] = es[Len(es)]], 1, Len(es) - 1)

ApplyDelete(i) ==
    /\ entries' = IF i = 0 THEN entries ELSE SwapRemove(entries, i)
    /\ UNCHANGED next_gen

ApplySet_kept(i, w) ==
    LET e == [key |-> w.key, value |-> w.value, gen |-> next_gen]
    IN  /\ entries' = IF i = 0 THEN Append(entries, e)
                               ELSE [entries EXCEPT ![i] = e]
        /\ next_gen' = IF i = 0 THEN next_gen ELSE next_gen + 1
ApplySet(i, w) ==
    LET e == [key |-> w.key, value |-> w.value, gen |-> next_gen]
    IN  /\ entries' = IF i = 0 THEN Append(entries, e)
                               ELSE [entries EXCEPT ![i] = e]
        /\ next_gen' = next_gen + 1

Full(i, w) == w.value # NoValue /\ i = 0 /\ Len(entries) >= MaxKeys

(* One iteration of the apply loop.  Finding the table full ends the        *)
(* commit with an error, and without a save.                                *)
Apply ==
    /\ ~Idle /\ todo # <<>>
    /\ LET w == Head(todo)
           i == find_entry(entries, w.key)
       IN  IF Full(i, w)
           THEN EndCommit /\ UNCHANGED <<entries, next_gen>>
           ELSE /\ IF w.value = NoValue THEN ApplyDelete(i) ELSE ApplySet(i, w)
                /\ todo' = Tail(todo)
                /\ UNCHANGED <<txns, at>>
    /\ UNCHANGED <<next_txn_id, conns, disk>>

txn_rollback(id) ==
    /\ Idle
    /\ \E s \in find_txn(id) : txns' = [txns EXCEPT ![s] = txn_clear]
    /\ UNCHANGED <<entries, next_gen, next_txn_id, conns, at, todo, disk>>
-----------------------------------------------------------------------------
(* The file: one line per entry, sorted by key, written aside and renamed   *)
(* into place.  A line is the key, "=" and the value.                       *)

Rank(key) == CHOOSE i \in DOMAIN KeyOrder : KeyOrder[i] = key

FileOf(es) ==
    LET sorted == SortSeq(es, LAMBDA e, f : Rank(e.key) < Rank(f.key))
    IN  [i \in DOMAIN sorted |-> sorted[i].key \o <<"=">> \o sorted[i].value]

(* Loading: the text before the first "=" of a line is the key, the rest    *)
(* the value; a full table ends the load.                                   *)
Split(line, i) ==
    LET eq == SelectInSeq(line, LAMBDA c : c = "=")
    IN  [key |-> SubSeq(line, 1, eq - 1),
         value |-> SubSeq(line, eq + 1, Len(line)), gen |-> i]

Loaded_short(file) ==
    [i \in 1..Min({MaxKeys - 1, Len(file)}) |-> Split(file[i], i)]
Loaded(file) ==
    [i \in 1..Min({MaxKeys, Len(file)}) |-> Split(file[i], i)]

(* After the last write: the slot is cleared, then handle_attr_msg saves.   *)
(* A save that fails changes nothing, and the client is told OK anyway.     *)
Save ==
    /\ ~Idle /\ todo = <<>>
    /\ EndCommit
    /\ \/ disk' = FileOf(entries)
       \/ "save" \in Faults /\ UNCHANGED disk
    /\ UNCHANGED <<entries, next_gen, next_txn_id, conns>>

(* The process is killed and another one with the same pid serves the       *)
(* directory it left behind.                                                *)
Crash ==
    /\ "crash" \in Faults
    /\ entries' = Loaded(disk) /\ next_gen' = Len(Loaded(disk)) + 1
    /\ txns' = NoTxns /\ next_txn_id' = 1
    /\ conns' = {} /\ at' = 0 /\ todo' = <<>>
    /\ UNCHANGED disk

(* The session directory is removed under the running server.               *)
Removed ==
    /\ "removed" \in Faults /\ Idle /\ disk # <<>>
    /\ disk' = <<>>
    /\ UNCHANGED <<entries, next_gen, txns, next_txn_id, conns, at, todo>>
-----------------------------------------------------------------------------
Issued == 1..(next_txn_id - 1)

(* handle_attr_msg, mclient_disconnect and the life of the process.         *)
Next ==
    \/ \E fd \in Conns : Connect(fd)
    \/ \E fd \in conns : Disconnect(fd) \/ TxnBegin(fd)
    \/ conns # {} /\ \E id \in Issued, key \in Keys :
          \/ \E value \in Values : attr_store_set(id, key, value)
          \/ attr_store_delete(id, key)
          \/ attr_store_get(id, key)
    \/ conns # {} /\ \E id \in Issued : txn_commit(id) \/ txn_rollback(id)
    \/ Apply \/ Save \/ Crash \/ Removed

Spec == Init /\ [][Next]_vars
-----------------------------------------------------------------------------
Words == UNION {ToSet(t) : t \in Keys \union Values} \union {"="}
Texts == Seq(Words)
Maybe == Texts \union {NoValue}

(* The types of the store's state, and its limits: no more keys than the    *)
(* table has, no more keys in a transaction than its sets hold, and staged  *)
(* writes only of distinct keys that are in the read set: attr_store_set    *)
(* and attr_store_delete never meet a full write set.                       *)
TypeOK ==
    /\ \A i \in DOMAIN entries :
          entries[i].key \in Texts /\ entries[i].value \in Texts
    /\ Len(entries) <= MaxKeys
    /\ \A s \in Slots :
          LET t == txns[s] IN
          /\ t.id \in 0..MaxBegins
          /\ DOMAIN t.relied = DOMAIN t.reads
          /\ Cardinality(DOMAIN t.reads) <= TxnKeys
          /\ \A i \in DOMAIN t.writes : t.writes[i].key \in DOMAIN t.reads
          /\ \A i, j \in DOMAIN t.writes :
                t.writes[i].key = t.writes[j].key => i = j
    /\ conns \subseteq Conns /\ at \in Slots \union {0}

(* A generation names one write for the life of the process: no two entries *)
(* share one, none is reused after the entry is deleted and created again,  *)
(* and 0 is never one.  The check in attr_store_txn_commit rests on it: a   *)
(* key whose generation is unchanged has not been written in between.       *)
GenerationsFresh ==
    /\ \A i \in DOMAIN entries : entries[i].gen \in 1..(next_gen - 1)
    /\ \A i, j \in DOMAIN entries : entries[i].gen = entries[j].gen => i = j
    /\ \A s \in Slots : \A k \in DOMAIN txns[s].reads : txns[s].reads[k] < next_gen

(* A slot in use belongs to an attached client and its id was issued to it  *)
(* alone: mclient_disconnect rolls back what the client left open, so a     *)
(* later client that gets the same descriptor inherits nothing and the pool *)
(* of transactions cannot fill up with those of clients that are gone.      *)
SlotsOwned ==
    /\ \A s \in Slots : InUse(s) => txns[s].fd \in conns
    /\ \A s, u \in Slots : InUse(s) /\ txns[s].id = txns[u].id => s = u

(* The state the abstract store sees: a commit in progress counts as done.  *)
KeysOf(seq) == {seq[i].key : i \in DOMAIN seq}
Now(k) ==
    LET i == SelectInSeq(todo, LAMBDA w : w.key = k)
    IN  IF i = 0 THEN ValueOf(entries, k) ELSE todo[i].value
Staged(ws) ==
    [k \in KeysOf(ws) |-> ws[SelectInSeq(ws, LAMBDA w : w.key = k)].value]
OpenSlots == {s \in Slots : InUse(s) /\ s # at}

Atomic == INSTANCE AttrAtomic WITH
    Ids <- 1..MaxBegins,
    store <- [k \in {x \in KeysOf(entries) \union KeysOf(todo) : Now(x) # NoValue}
                |-> Now(k)],
    saved <- [k \in KeysOf(Loaded(disk)) |-> ValueOf(Loaded(disk), k)],
    open <- [id \in {txns[s].id : s \in OpenSlots} |->
               LET t == txns[CHOOSE s \in OpenSlots : txns[s].id = id]
               IN  [relied |-> t.relied, writes |-> Staged(t.writes)]]

(* The store is transactional (attr_store.h): a commit that succeeds takes  *)
(* effect as a whole at an instant at which every key it touched still has  *)
(* the value it had when first touched; a commit that fails, a rollback and *)
(* a client that goes away change nothing; the file is always the whole of  *)
(* a committed store, and a restarted server continues from it.             *)
Transactional == Atomic!Spec

(* A transaction that commits saw one value of each key it read             *)
(* ("conflict detection: check all read-set generations").                  *)
ReadsHold == [][Idle /\ at' # 0 => ~txns[at'].torn]_vars
=============================================================================
