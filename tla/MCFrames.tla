------------------------------ MODULE MCFrames ------------------------------
(***************************************************************************)
(* Trees with short keys, for TLC.  Witnesses of other provers are those   *)
(* of all trees over the keys.                                             *)
(***************************************************************************)
EXTENDS Frames, TLC

\* A key is its number, the first bit the most significant one.
MCKeyBit(k, i) == (k \div 2^(Depth - 1 - i)) % 2

MCSmtWitness == {Witness(m, k) : m \in Map(Value) \cup Map({RegistryLeaf}), k \in Key}
=============================================================================
