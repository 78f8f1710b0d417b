---------------------------- MODULE Reconciliation ----------------------------
(* How the operations that a synchronisation found are put together with the *)
(* ones the account has: minimalOperationsBuilder (src/src/reconciliation.js) *)
(* for the accounts of the libcore, mergeOps (src/src/bridge/jsHelpers.js)    *)
(* for the others. Histories are sequences of operations, newer first.        *)
(* An operation has an id, a date, the height of its block (0 if it has none) *)
(* and a sequence number (0 if it has none); its amounts never change.        *)
EXTENDS Filters

sameOp(a, b) == a = b

ids(ops) == {o.id : o \in ToSet(ops)}

(* The operations of a set, newer first; no two have the same date. *)
newerFirst(ops) ==
    [i \in 1..Cardinality(ops) |->
       CHOOSE o \in ops : Cardinality({p \in ops : p.date > o.date}) = i - 1]

(* The new operations that go right before existing[i]: it is the first that  *)
(* is older.                                                                  *)
inserted(existing, newOps, i) ==
    Among(newOps, {n \in ToSet(newOps) : /\ n.date > existing[i].date
                                         /\ \A k \in 1..(i - 1) : n.date <= existing[k].date})

(* Mutant: an existing operation that has changed is kept beside the new one. *)
mergeOps_KeepsBoth(existing, newFetched) ==
    LET newOps == newerFirst({n \in ToSet(newFetched) : \A o \in ToSet(existing) : ~sameOp(o, n)})
    IN IF existing = <<>> THEN newOps
       ELSE FlattenSeq([i \in DOMAIN existing |-> inserted(existing, newOps, i) \o <<existing[i]>>])

(* A new operation that is older than all the existing ones, or as old, goes *)
(* nowhere. An existing operation that has changed gives way to the new one.  *)
mergeOps(existing, newFetched) ==
    LET newOps == newerFirst({n \in ToSet(newFetched) : \A o \in ToSet(existing) : ~sameOp(o, n)})
        kept(o) == IF o.id \in ids(newOps) THEN <<>> ELSE <<o>>
    IN CASE newOps = <<>> -> existing
         [] newOps # <<>> /\ existing = <<>> -> newOps
         [] OTHER -> FlattenSeq([i \in DOMAIN existing |->
                                   inserted(existing, newOps, i) \o kept(existing[i])])
-----------------------------------------------------------------------------
(* The state of the builder: operations built so far, existing ones that are *)
(* still trusted, whether one was compared and whether the loop is over.      *)
builder(existing) ==
    [operations |-> <<>>, existingOps |-> existing, immutableOpCmpDoneOnce |-> FALSE,
     finished |-> FALSE]

push(state, op) == [state EXCEPT !.operations = Append(@, op)]

(* The existing operations from the one of that id on; <<>> if it is unknown. *)
restFrom(ops, id) ==
    LET at == {i \in DOMAIN ops : ops[i].id = id}
    IN IF at = {} THEN <<>> ELSE SubSeq(ops, Min(at), Len(ops))

(* Mutant: what is older than a known operation is never looked at again. *)
stepBuilder_StopsAtFirst(state, newOp, i) ==
    LET rest == restFrom(state.existingOps, newOp.id)
    IN CASE rest = <<>> \/ Head(rest).height # newOp.height -> push(state, newOp)
         [] OTHER -> [state EXCEPT !.operations = @ \o rest, !.finished = TRUE]

(* One operation of the libcore, newOp, that i older ones follow. An existing *)
(* operation is only compared until one of the same height is found; from     *)
(* there on the existing ones are kept as they are, all at once unless the     *)
(* libcore has fewer of them left.                                             *)
stepBuilder(state, newOp, i) ==
    LET rest == restFrom(state.existingOps, newOp.id)
        compares == rest # <<>> /\ ~state.immutableOpCmpDoneOnce
        done == [state EXCEPT !.immutableOpCmpDoneOnce = @ \/ compares]
    IN CASE rest = <<>> \/ (compares /\ Head(rest).height # newOp.height) -> push(state, newOp)
         [] compares /\ Head(rest).height = newOp.height /\ ~sameOp(Head(rest), newOp) ->
              push([done EXCEPT !.existingOps = <<>>], newOp)
         [] rest # <<>> /\ (compares => sameOp(Head(rest), newOp)) ->
              IF Len(rest) > i + 1 THEN push(done, Head(rest))
              ELSE [done EXCEPT !.operations = @ \o rest, !.finished = TRUE]

advance(state, coreOperations, k) ==
    IF state.finished THEN state
    ELSE stepBuilder(state, coreOperations[k], Len(coreOperations) - k)

minimalOperationsBuilder(existing, coreOperations) ==
    LET state[k \in 0..Len(coreOperations)] ==
          IF k = 0 THEN builder(existing) ELSE advance(state[k - 1], coreOperations, k)
    IN state[Len(coreOperations)].operations
=============================================================================
