------------------------------ MODULE ScriptV2 ------------------------------
(***************************************************************************)
(* The stack machine of script v2 addresses (script_v2.rs).                *)
(*                                                                         *)
(*   a script  a sequence of [op], THRESHOLD with its inline [m, keys,     *)
(*             sigs];                                                      *)
(*   a value   [kind, of], an element of the stack: a key or a signature   *)
(*             of somebody, a number, a hash of a value, or a bool.        *)
(*                                                                         *)
(* There is no opcode that pushes data: but for the operands of THRESHOLD, *)
(* all comes from the witness.  Results of execution are sets, of the one  *)
(* stack it leaves or empty where it fails.                                *)
(***************************************************************************)
EXTENDS SequencesExt, Integers

SCRIPT_V2_MAX_LENGTH == 1024
SCRIPT_V2_STEP_BUDGET == 1000

Key(k)    == [kind |-> "key", of |-> k]
Sig(k)    == [kind |-> "sig", of |-> k]
Number(n) == [kind |-> "number", of |-> n]
Bool(b)   == [kind |-> "bool", of |-> b]
Hash(v)   == [kind |-> "hash", of |-> v]

Bytes(v) ==
  CASE v.kind = "sig" -> 64
    [] v.kind = "number" -> 4
    [] v.kind = "bool" -> 1
    [] OTHER -> 32

Nonzero(v) ==
  CASE v.kind = "number" -> v.of # 0
    [] v.kind = "bool" -> v.of
    [] OTHER -> TRUE

-----------------------------------------------------------------------------
\* new: what a script must be to be run at all.
ThresholdParses(i) ==
  /\ 1 <= i.m /\ i.m <= Len(i.keys) /\ Len(i.keys) <= 16
  /\ Len(i.sigs) = Len(i.keys)
  /\ IsInjective(i.keys)

Size(i) == IF i.op = "THRESHOLD" THEN 3 + 96 * Len(i.keys) ELSE 1

Parses(script) ==
  /\ script # <<>>
  /\ FoldLeft(LAMBDA sum, i : sum + Size(i), 0, script) <= SCRIPT_V2_MAX_LENGTH
  /\ \A n \in DOMAIN script :
       script[n].op = "THRESHOLD" => ThresholdParses(script[n])

-----------------------------------------------------------------------------
\* The n-th element from the top, and the stack without its n upper elements.
Top(stack, n) == stack[Len(stack) + 1 - n]
Below(stack, n) == SubSeq(stack, 1, Len(stack) - n)
Push(stack, b) == {Append(stack, Bool(b))}

\* The signature is on top of its key.
Verify(stack) ==
  IF /\ Len(stack) >= 2
     /\ Top(stack, 1).kind = "sig" /\ Top(stack, 2).kind = "key"
     /\ Top(stack, 1).of = Top(stack, 2).of
  THEN Push(Below(stack, 2), TRUE) ELSE {}

\* Both time checks pop a number and push nothing; the first bytes of a key,
\* a signature or a hash are a number that no lock time reaches.
AtLeast(stack, bound) ==
  IF /\ stack # <<>> /\ Top(stack, 1).kind = "number"
     /\ Top(stack, 1).of <= bound
  THEN {Below(stack, 1)} ELSE {}

Equal(stack) ==
  IF Len(stack) >= 2 /\ Bytes(Top(stack, 1)) = Bytes(Top(stack, 2))
  THEN Push(Below(stack, 2),
            Top(stack, 1).kind = Top(stack, 2).kind /\ Top(stack, 1) = Top(stack, 2))
  ELSE {}

\* AND and OR take any operands ("must be 0 or 1" is not checked).
Both(stack) ==
  IF Len(stack) >= 2
  THEN Push(Below(stack, 2), Nonzero(Top(stack, 1)) /\ Nonzero(Top(stack, 2)))
  ELSE {}
Either(stack) ==
  IF Len(stack) >= 2
  THEN Push(Below(stack, 2), Nonzero(Top(stack, 1)) \/ Nonzero(Top(stack, 2)))
  ELSE {}

\* Each key takes the first unused signature it verifies.
Threshold(stack, i) ==
  IF Cardinality({k \in ToSet(i.keys) : k \in ToSet(i.sigs)}) >= i.m
  THEN Push(stack, TRUE) ELSE {}

Step(stack, i, lock_time, sequence) ==
  CASE i.op = "VERIFY"    -> Verify(stack)
    [] i.op = "CLTV"      -> AtLeast(stack, lock_time)
    [] i.op = "CSV"       -> AtLeast(stack, sequence)
    [] i.op = "HASH"      -> IF stack = <<>> THEN {}
                             ELSE {Append(Below(stack, 1), Hash(Top(stack, 1)))}
    [] i.op = "EQUAL"     -> Equal(stack)
    [] i.op = "AND"       -> Both(stack)
    [] i.op = "OR"        -> Either(stack)
    [] i.op = "THRESHOLD" -> Threshold(stack, i)
    [] OTHER              -> {}

\* One element must be left, and be true.
execute(script, witness, lock_time, sequence) ==
  /\ Len(script) <= SCRIPT_V2_STEP_BUDGET
  /\ \E stack \in FoldLeft(LAMBDA acc, i : UNION {Step(s, i, lock_time, sequence) : s \in acc},
                           {witness}, script) :
       Len(stack) = 1 /\ Nonzero(stack[1])

=============================================================================
