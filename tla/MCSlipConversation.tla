------------------------- MODULE MCSlipConversation -------------------------
\* SlipConversation on small instances.
EXTENDS SlipConversation, TLC

CONSTANTS r1, r2, t1, t2, u1, u2, k1

const_Contents == Fields \cup {NoFields}
const_PhotosOf == u1 :> {1, 2}
\* Either a slip of another chat with the number of a message of this one, or a row
\* of an import that is sent twice with its key, or a trip and its empty return,
\* whose key covers no more than the actor.
Call(n, key, ep, no, read) ==
    [nth |-> n, key |-> key,
     body |-> [ep |-> ep, by |-> u2, no |-> no, data |-> [of |-> no, read |-> read]]]
const_OtherCalls ==
    {{Call(1, NoKey, "slip", 1, "fully")},
     {Call(1, k1, "excel", 2, "fully"), Call(2, k1, "excel", 2, "fully")},
     {Call(1, NoKey, "manual", 2, "fully"), Call(2, k1, "return", 2, "partly")}}

Symmetry == Permutations(Requests) \cup Permutations(Tasks)
=============================================================================
