---------------------------- MODULE PirRetrieval ----------------------------
(***************************************************************************)
(* What PIR promises to a caller, with no ciphertext, seed or PRNG in      *)
(* sight: a lookup is answered with the entry it asked for, as some        *)
(* database generation held it that was installed after the lookup was     *)
(* made.  PirOneShot implements this.                                      *)
(***************************************************************************)
CONSTANTS Callers, Generations, Entries, None

VARIABLES
    gen,     \* the generation being served
    asked,   \* the entry each caller asked for
    pending, \* answers on their way: whose, which entry, of which generation
    answer   \* the answer that the last step delivered

vars == <<gen, asked, pending, answer>>

\* A combination of entries that consists of one entry, once.
Only(e) == {<<e, 1>>}

Init ==
    /\ gen = None
    /\ asked = [c \in Callers |-> None]
    /\ pending = {}
    /\ answer = None

Install(g) ==
    /\ gen' = g
    /\ answer' = None
    /\ UNCHANGED <<asked, pending>>

\* A caller makes its one lookup.
Ask(c, e) ==
    /\ asked[c] = None
    /\ asked' = [asked EXCEPT ![c] = Only(e)]
    /\ answer' = None
    /\ UNCHANGED <<gen, pending>>

\* The server looks the entry up in the generation it holds; it may do so
\* again for the same lookup.
Look(c) ==
    /\ gen # None
    /\ asked[c] # None
    /\ pending' = pending \cup {[caller |-> c, got |-> asked[c], gen |-> gen]}
    /\ answer' = None
    /\ UNCHANGED <<gen, asked>>

Deliver(a) ==
    /\ answer' = a
    /\ pending' = pending \ {a}
    /\ UNCHANGED <<gen, asked>>

\* A call that fails, or that is not yet a lookup, delivers nothing.
Quiet ==
    /\ answer' = None
    /\ UNCHANGED <<gen, asked, pending>>

Next ==
    \/ \E g \in Generations : Install(g)
    \/ \E c \in Callers, e \in Entries : Ask(c, e)
    \/ \E c \in Callers : Look(c)
    \/ \E a \in pending : Deliver(a)
    \/ Quiet

Spec == Init /\ [][Next]_vars
=============================================================================
