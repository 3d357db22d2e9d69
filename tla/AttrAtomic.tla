----------------------------- MODULE AttrAtomic -----------------------------
(***************************************************************************)
(* What the attribute store promises (src/libattr/attr_store.h: a           *)
(* transactional key=value store), without generations, slots or a file     *)
(* format.  A transaction that commits takes effect at one instant, at      *)
(* which everything it relied on still holds; one that does not commit      *)
(* leaves no trace.  A saved copy is always the whole of some committed     *)
(* store, and a restarted server continues from it.                         *)
(***************************************************************************)
EXTENDS TLC

CONSTANTS Keys, Values, NoValue, Ids

VARIABLES
    store,  \* the committed attributes: a function from the keys that exist
    saved,  \* the copy a restart starts from
    open    \* the open transactions, by id: what each relied on and staged

vars == <<store, saved, open>>

Empty == [k \in {} |-> NoValue]
Look(s, k) == IF k \in DOMAIN s THEN s[k] ELSE NoValue
Without(f, S) == [x \in DOMAIN f \ S |-> f[x]]

(* The store after the staged writes; a write of NoValue is a deletion.     *)
Overlay(writes, s) ==
    [k \in {x \in DOMAIN s \union DOMAIN writes : Look(writes @@ s, x) # NoValue}
        |-> Look(writes @@ s, k)]

Init == store = Empty /\ saved = Empty /\ open = Empty

Begin(id) ==
    /\ id \notin DOMAIN open
    /\ open' = (id :> [relied |-> Empty, writes |-> Empty]) @@ open
    /\ UNCHANGED store

(* Touching a key relies on the value it has at the first touch.            *)
Touched(t, k) == [t EXCEPT !.relied = @ @@ (k :> Look(store, k))]

Read(id, k) ==
    /\ open' = [open EXCEPT ![id] = Touched(@, k)]
    /\ UNCHANGED store

Write(id, k, v) ==
    /\ open' = [open EXCEPT ![id] =
                  [Touched(@, k) EXCEPT !.writes = (k :> v) @@ @]]
    /\ UNCHANGED store

Commit(id) ==
    /\ \A k \in DOMAIN open[id].relied : open[id].relied[k] = Look(store, k)
    /\ store' = Overlay(open[id].writes, store)
    /\ open' = Without(open, {id})

Abort(ids) == open' = Without(open, ids) /\ UNCHANGED store

(* The saved copy follows the store, is lost, or takes the store's place.   *)
Save == saved' = store /\ UNCHANGED <<store, open>>
Lose == saved' = Empty /\ UNCHANGED <<store, open>>
Restart == store' = saved /\ open' = Empty /\ UNCHANGED saved

Transact ==
    /\ UNCHANGED saved
    /\ \/ \E id \in Ids : Begin(id)
       \/ \E id \in DOMAIN open, k \in Keys :
             Read(id, k) \/ \E v \in Values \union {NoValue} : Write(id, k, v)
       \/ \E id \in DOMAIN open : Commit(id)
       \/ \E ids \in SUBSET DOMAIN open : Abort(ids)

Next == Transact \/ Save \/ Lose \/ Restart

Spec == Init /\ [][Next]_vars
=============================================================================
