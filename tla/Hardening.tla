----------------------------- MODULE Hardening -----------------------------
(***************************************************************************)
(* P2pHardening (p2p_hardening.rs) as a value and its operations: the rate *)
(* limit, the score and the bans of every peer, and the file the bans are  *)
(* saved to.                                                               *)
(*                                                                         *)
(* The per-peer maps are functions on all peers, since ensure_peer gives a *)
(* peer its entry before anything reads it.  The flag banned and the       *)
(* option banned_until change together and are one field, ban.  Left out:  *)
(* the counters of peer_stats, and the removal, every 1000 ticks, of what  *)
(* a peer announced 10 000 ticks ago.                                      *)
(***************************************************************************)
EXTENDS Integers, FiniteSets, FiniteSetsExt

CONSTANTS Name,                            \* peers
          MaxMessages, MaxBytes, Window,   \* per peer, in rate_window_ticks
          ScoreValid, ScoreDuplicate, ScoreInvalid,
          BanThreshold, MaxScore, MinScore \* initial_score is 0

\* A window of no length would be no limit, and initial_score bans nobody.
ASSUME HardeningAssumption ==
  /\ MaxMessages \in Nat /\ MaxBytes \in Nat /\ Window \in Nat \ {0}
  /\ {ScoreValid, ScoreDuplicate, ScoreInvalid, MaxScore, MinScore} \subseteq Int
  /\ BanThreshold \in Int /\ BanThreshold < 0

NotBanned == -1
Forever   == 0   \* any later number is the tick of banned_until

FreshRate == [messages |-> 0, bytes |-> 0, start |-> 0]

NewHardening ==
  [tick |-> 0,
   rate |-> [p \in Name |-> FreshRate], known |-> [p \in Name |-> {}],
   score |-> [p \in Name |-> 0], ban |-> [p \in Name |-> NotBanned],
   file |-> [p \in {} |-> Forever]]

-----------------------------------------------------------------------------
\* A manual or loaded ban that still lasts.
Barred(h, p) == h.ban[p] = Forever \/ h.tick < h.ban[p]

\* Mutant of is_banned: the score alone decides.
BannedByScore(h, p) == h.score[p] <= BanThreshold

is_banned(h, p) == h.score[p] <= BanThreshold \/ Barred(h, p)

\* save_bans: a ban by score has no expiry, so it is written as permanent.
save_bans(h) ==
  [h EXCEPT !.file = [p \in {q \in Name : is_banned(h, q)} |->
                        IF h.ban[p] = NotBanned THEN Forever ELSE h.ban[p]]]

\* load_bans at the start of a process, whose tick is 0.
load_bans(file) ==
  [NewHardening EXCEPT
     !.file = file,
     !.ban = [p \in Name |->
                IF p \in DOMAIN file /\ (file[p] = Forever \/ 0 < file[p])
                THEN file[p] ELSE NotBanned]]

tick(h) ==
  LET now     == h.tick + 1
      expired == {p \in Name : h.ban[p] > Forever /\ now >= h.ban[p]}
      later   == [h EXCEPT !.tick = now,
                           !.ban = [p \in Name |-> IF p \in expired THEN NotBanned
                                                   ELSE @[p]]]
  IN  IF expired = {} THEN later ELSE save_bans(later)

ban_for(h, p, ticks) ==
  save_bans([h EXCEPT !.ban[p] = IF ticks = 0 THEN Forever ELSE h.tick + ticks])

unban(h, p) == save_bans([h EXCEPT !.ban[p] = NotBanned, !.score[p] = 0])

-----------------------------------------------------------------------------
\* The window in which a message sent now counts.
CurrentRate(h, p) ==
  IF h.tick >= h.rate[p].start + Window
  THEN [FreshRate EXCEPT !.start = h.tick] ELSE h.rate[p]

WithinLimits(r, bytes) ==
  r.bytes + bytes <= MaxBytes /\ r.messages + 1 <= MaxMessages

Allowed(h, p, bytes) == WithinLimits(CurrentRate(h, p), bytes)

\* check_rate_limit: a refused message opens a new window all the same.
check_rate_limit(h, p, bytes) ==
  LET Consumed(r) == IF WithinLimits(r, bytes)
                     THEN [r EXCEPT !.bytes = @ + bytes, !.messages = @ + 1] ELSE r
  IN  [h EXCEPT !.rate[p] = Consumed(CurrentRate(h, p))]

\* The end of on_block and on_tx.
SaveIfBanned(was, h, p) == IF is_banned(h, p) /\ ~was THEN save_bans(h) ELSE h

\* on_block and on_tx, which differ in nothing but the counters and weights.
on_item(h, p, i, valid) ==
  LET delta == CASE ~valid -> ScoreInvalid
                 [] valid /\ i \in h.known[p] -> ScoreDuplicate
                 [] valid /\ i \notin h.known[p] -> ScoreValid
      Clamped(s) == Max({MinScore, Min({MaxScore, s})})
  IN  SaveIfBanned(is_banned(h, p),
                   [h EXCEPT !.score[p] = Clamped(@ + delta),
                             !.known[p] = IF valid THEN @ \cup {i} ELSE @],
                   p)

=============================================================================
