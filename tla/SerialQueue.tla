----------------------------- MODULE SerialQueue -----------------------------
(***************************************************************************)
(* What chains of promises promise: the jobs of a chain begin in the order *)
(* in which they were asked for, one at a time, each after the one before  *)
(* it has settled, whether that one succeeded or failed.  Chains do not    *)
(* wait for each other.                                                    *)
(***************************************************************************)
EXTENDS Naturals, Sequences

CONSTANTS
    Chain,     \* the chains
    Work       \* what can be asked for

VARIABLES
    asked,     \* the jobs of a chain in the order in which they were asked for
    begun,     \* those that have begun, in the order in which they did
    settled    \* how many have settled

vars == <<asked, begun, settled>>

Empty == [c \in Chain |-> <<>>]
Init  == asked = Empty /\ begun = Empty /\ settled = [c \in Chain |-> 0]

Ask(c, w) ==
    /\ asked' = [asked EXCEPT ![c] = Append(@, w)]
    /\ UNCHANGED <<begun, settled>>

Begin(c) ==
    /\ settled[c] = Len(begun[c]) /\ Len(begun[c]) < Len(asked[c])
    /\ begun' = [begun EXCEPT ![c] = Append(@, asked[c][Len(@) + 1])]
    /\ UNCHANGED <<asked, settled>>

Settle(c) ==
    /\ settled[c] < Len(begun[c])
    /\ settled' = [settled EXCEPT ![c] = @ + 1]
    /\ UNCHANGED <<asked, begun>>

\* The process dies: nothing of the chains outlives it.
Forget == asked' = Empty /\ begun' = Empty /\ settled' = [c \in Chain |-> 0]

Next ==
    \/ Forget
    \/ \E c \in Chain : Begin(c) \/ Settle(c) \/ \E w \in Work : Ask(c, w)

Spec == Init /\ [][Next]_vars
=============================================================================
