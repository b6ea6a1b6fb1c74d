---------------------------- MODULE MCDispatcher ----------------------------
(***************************************************************************)
(* A small instance of the pipeline: one fragment of the top gateway and   *)
(* one of a nested gateway, each in an input directory of its own.  The    *)
(* fragment contents are chosen so that in the same cycle one gateway can  *)
(* be valid while the other is refused by the merger or the validator.     *)
(***************************************************************************)
EXTENDS Dispatcher, TLC

CONSTANTS s1, s2, n1, n2, top, leaf, a, b

MCRoot == (s1 :> n1) @@ (s2 :> n2)
MCHierarchy == (s1 :> {top}) @@ (s2 :> {top, leaf})
MCUnmergeable == {c \in Config : c[s1] = b /\ c[s2] = a}
MCInvalid == {c \in Config : c[s1] # a /\ c[s2] = b}
MCDeep == {}
MCDeepLeaf == {leaf}
MCHash(c) == <<"fnv", c>>
=============================================================================
