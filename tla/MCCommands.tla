----------------------------- MODULE MCCommands -----------------------------
(* Instantiates Commands for TLC: one or two keys, one list element, one   *)
(* hash field, and i64 scaled to 3 bits (-4..3) so that an increment       *)
(* reaches overflow in a few steps.                                          *)
EXTENDS Commands

CONSTANTS k1, k2  \* the keys, as model values

\* Key names that the KEYS patterns tell apart: k1 is "ba", k2 is "ab".
MCKeyName == [k \in Keys |-> IF k = k1 THEN <<"b", "a">> ELSE <<"a", "b">>]

\* One pattern of each shape of matches_pattern, "*a*" among them.
MCPatterns == {<<"*">>, <<"*", "a", "*">>, <<"*", "a">>, <<"b", "*">>,
               <<"b", "a">>, <<"a">>}

MCMembers == {"a"}
MCFields == {"f"}
MCUsizeMax == 15
MCMinI64 == -4
MCMaxI64 == 3
MCIntArgs == {1, -4, NotANumber}
MCRangeArgs == {0, -1}
MCRangeAll == MCMinI64..MCMaxI64

\* The statistics counters and the lists grow without bound under
\* set/expire/get cycles and pushes; TLC explores these windows of them.
CounterCap == 1
InCounterRange(x) == x <= CounterCap \/ x >= MCUsizeMax - CounterCap
ListCap == 2
\* A push adds at most MaxArgs elements to a list within the bound.
MCValues == CValueUpTo(ListCap + MaxArgs)
StateBound ==
    /\ InCounterRange(mem.total_keys) /\ InCounterRange(mem.expired_keys)
    /\ \A k \in Keys : mem.store[k] # NoValue => Len(mem.store[k].value.elems) <= ListCap
====
