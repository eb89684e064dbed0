----------------------------- MODULE StateDelta -----------------------------
(***************************************************************************)
(* UTXO sets, the stake registry (stake.rs) and the undo log's arithmetic  *)
(* on both (ledger.rs): the net delta between two states, its application, *)
(* and the composition of two deltas that follow each other.               *)
(*                                                                         *)
(* A UTXO set is a function from the unspent outpoints to their entries.   *)
(* A delta keeps two lists; only the outpoints of `spent' are ever read,   *)
(* and `created' is applied front to back, so a later pair with the same   *)
(* outpoint wins: here `spent' is a set and `created' a function.          *)
(*                                                                         *)
(* The registry has the bonded outpoints and the totals bonded to each     *)
(* key, which stands for the pair (asset_id, vrf_pk) of the code.          *)
(***************************************************************************)
EXTENDS Integers, FiniteSetsExt

CONSTANT UnbondMaturity  \* blocks between a bond and its unbond

\* s with the pairs of c inserted, overwriting.
InsertAll(s, c) == [op \in DOMAIN s \cup DOMAIN c |->
                      IF op \in DOMAIN c THEN c[op] ELSE s[op]]

RemoveAll(s, ops) == [op \in DOMAIN s \ ops |-> s[op]]

\* The outpoints whose entry in s is not their entry in t.
ChangedFrom(s, t) == {op \in DOMAIN s : op \in DOMAIN t => t[op] # s[op]}

diff_utxo(pre, post) ==
  [spent   |-> ChangedFrom(pre, post),
   created |-> [op \in ChangedFrom(post, pre) |-> post[op]]]

\* Insert `created', then remove `spent'.
apply_delta(delta, state) ==
  RemoveAll(InsertAll(state, delta.created), delta.spent)

\* Mutant of compose_delta: what the first creates and the second spends is
\* dropped from one of the lists only.
HalfCancelled(first, second) ==
  [spent   |-> first.spent \cup (second.spent \ DOMAIN first.created),
   created |-> InsertAll(first.created, second.created)]

\* first, then second, as one delta: both lists are concatenated.
compose_delta(first, second) ==
  [spent   |-> first.spent \cup second.spent,
   created |-> InsertAll(first.created, second.created)]

-----------------------------------------------------------------------------
\* StakeState: outpoint -> Freeze, and key -> locked total.
NoStake == [frozen |-> [op \in {} |-> 0], locked |-> [k \in {} |-> 0]]

stake_of(stake, k) == IF k \in DOMAIN stake.locked THEN stake.locked[k] ELSE 0

is_frozen(stake, op) == op \in DOMAIN stake.frozen

\* A bonded outpoint again overwrites its Freeze and adds to the total.
freeze(stake, op, f) ==
  [frozen |-> InsertAll(stake.frozen, [o \in {op} |-> f]),
   locked |-> InsertAll(stake.locked,
                        [k \in {f.key} |-> stake_of(stake, k) + f.value])]

check_unbond(stake, op, height) ==
  is_frozen(stake, op) /\ height >= stake.frozen[op].height + UnbondMaturity

\* unfreeze_spend, once checked; a total that falls to zero is dropped.
unfreeze(stake, op) ==
  LET f    == stake.frozen[op]
      left == Max({0, stake_of(stake, f.key) - f.value})
  IN  [frozen |-> RemoveAll(stake.frozen, {op}),
       locked |-> IF left = 0 THEN RemoveAll(stake.locked, {f.key})
                  ELSE [stake.locked EXCEPT ![f.key] = left]]

FreezeAll(stake, fs) ==
  FoldSet(LAMBDA op, s : freeze(s, op, fs[op]), stake, DOMAIN fs)

UnfreezeAll(stake, ops) == FoldSet(LAMBDA op, s : unfreeze(s, op), stake, ops)

-----------------------------------------------------------------------------
\* The two lists of a StakeDelta, as functions; only membership is compared.
diff_stake(pre, post) ==
  [frozen   |-> RemoveAll(post.frozen, DOMAIN pre.frozen),
   unfrozen |-> RemoveAll(pre.frozen, DOMAIN post.frozen)]

\* apply_stake_delta panics ("stake delta application is consistent") unless
\* every bond it releases is there and has matured at the recorded height.
stake_delta_applies(delta, stake) ==
  LET full == FreezeAll(stake, delta.frozen)
  IN  \A op \in DOMAIN delta.unfrozen :
        check_unbond(full, op, delta.unfrozen[op].height + UnbondMaturity)

apply_stake_delta(delta, stake) ==
  UnfreezeAll(FreezeAll(stake, delta.frozen), DOMAIN delta.unfrozen)

\* first, then second; what one freezes and the other releases cancels.
compose_stake_delta(first, second) ==
  [frozen   |-> InsertAll(RemoveAll(first.frozen, DOMAIN second.unfrozen),
                          RemoveAll(second.frozen, DOMAIN first.unfrozen)),
   unfrozen |-> InsertAll(RemoveAll(first.unfrozen, DOMAIN second.frozen),
                          RemoveAll(second.unfrozen, DOMAIN first.frozen))]

=============================================================================
