------------------------------- MODULE Chain -------------------------------
(***************************************************************************)
(* A resolved Chain (config.rs) and the order in which its servers are     *)
(* dialled.  A chain is a target and its bastions, the bastion nearest to  *)
(* the target first.  bastions = <<>> stands for both None and Some([]),   *)
(* which Chain::iter treats alike.                                         *)
(***************************************************************************)
EXTENDS Integers, Sequences, SequencesExt

CONSTANT Host      \* resolved servers: destination and settings

Chains == [target : Host, bastions : Seq(Host)]

\* The order the Chain doc promises: local -> bastions[N-1] -> ... ->
\* bastions[0] -> target.
Route(chain) == Reverse(chain.bastions) \o <<chain.target>>

-----------------------------------------------------------------------------
\* The first half of what Chain::iter returns: the server dialled directly.
First(chain) ==
    LET b == chain.bastions
    IN  IF b = <<>> THEN chain.target ELSE b[Len(b)]

\* Mutant: the windows are not reversed.
ItemsForward(chain) ==
    LET b == chain.bastions
    IN  [k \in 1..Len(b) |->
            IF k < Len(b) THEN [from |-> b[k + 1], to |-> b[k]]
                          ELSE [from |-> b[1], to |-> chain.target]]

\* What the BastionIter yields: the windows of two neighbours from the last to
\* the first, each from its second member to its first, then final_target.
Items(chain) ==
    LET b == chain.bastions
    IN  [k \in 1..Len(b) |->
            IF k < Len(b)
            THEN [from |-> b[Len(b) - k + 1], to |-> b[Len(b) - k]]
            ELSE [from |-> b[1], to |-> chain.target]]
=============================================================================
