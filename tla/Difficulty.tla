----------------------------- MODULE Difficulty -----------------------------
(***************************************************************************)
(* Difficulty retargeting (crates/kovanica-dag/src/difficulty.rs) and the  *)
(* rules a block meets when a DAG enforces it (Dag::set_difficulty).  A    *)
(* TimedWork is a record [ts, work]; work is unbounded (u128 in the code,  *)
(* whose arithmetic saturates).                                            *)
(***************************************************************************)
EXTENDS DagOps

CONSTANTS INTERVAL,    \* Retarget.target_interval_ms
          WINDOW,      \* Retarget.window
          MAX_FACTOR,  \* Retarget.max_factor
          MIN_WORK     \* Retarget.min_work

ASSUME RetargetAssumption == /\ {INTERVAL, WINDOW} \subseteq Nat
                             /\ {MAX_FACTOR, MIN_WORK} \subseteq Nat \ {0}

Clamp(x, lo, hi) == Max({lo, Min({x, hi})})

LastN(s, n) == SubSeq(s, Max({1, Len(s) - n + 1}), Len(s))

\* Retarget::next_work: the average work of the window, scaled by the expected
\* over the actual timespan and clamped; the floor when there is no interval.
next_work(recent) ==
  LET samples  == LastN(recent, WINDOW + 1)
      n        == Len(samples)
      expected == Max({(n - 1) * INTERVAL, 1})
      actual   == Max({samples[n].ts - samples[1].ts, 1})
      avg      == FoldSeq(LAMBDA s, acc : acc + s.work, 0, samples) \div n
      lower    == Max({avg \div MAX_FACTOR, MIN_WORK})
      upper    == Max({avg * MAX_FACTOR, MIN_WORK})
  IN  IF n < 2 THEN MIN_WORK
      ELSE Max({Clamp((avg * expected) \div actual, lower, upper), MIN_WORK})

\* The last WINDOW + 1 blocks of the selected-parent chain ending at tip.
chain_samples(d, ts, tip) ==
  LET chain == LastN(ChainTo(d, tip), WINDOW + 1)
  IN  [i \in DOMAIN chain |-> [ts |-> ts[chain[i]], work |-> d.node[chain[i]].work]]

\* The work a block on parents ps must carry.
work_target_with(d, ts, ps) == next_work(chain_samples(d, ts, Heaviest(d, ps)))

\* check_difficulty, for a block with timestamp t and work w.
check_difficulty(d, ts, ps, t, w) ==
  /\ \A p \in ps : t >= ts[p]
  /\ w = work_target_with(d, ts, ps)

=============================================================================
