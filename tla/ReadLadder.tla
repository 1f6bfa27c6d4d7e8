----------------------------- MODULE ReadLadder -----------------------------
(***************************************************************************)
(* What the recovery read route of one document promises, without people,  *)
(* time or storage: one owner at a time, every lease at most once, and the *)
(* rungs in order: a durable promotion stands on two finished cutovers,    *)
(* a renewal directly on the promotion it renews.                          *)
(***************************************************************************)
EXTENDS Naturals, Sequences

CONSTANTS Cutovers, Pairs, Local

VARIABLES owner,    \* Local, or the lease that serves reads
          past      \* the leases whose window has ended, oldest first

vars == <<owner, past>>

Leases == ({"temporary_cutover"} \X Cutovers)
              \cup ({"durable_promotion", "durable_renewal"} \X Pairs)

Spent == {past[i] : i \in 1..Len(past)}

Init == owner = Local /\ past = <<>>

Stands(l) == CASE l[1] = "temporary_cutover" -> TRUE
               [] l[1] = "durable_promotion" -> {"temporary_cutover"} \X l[2] \subseteq Spent
               [] l[1] = "durable_renewal" ->
                    /\ past # <<>>
                    /\ past[Len(past)] = <<"durable_promotion", l[2]>>

Open(l) == /\ owner = Local
           /\ l \notin Spent
           /\ Stands(l)
           /\ owner' = l
           /\ UNCHANGED past

Close == /\ owner # Local
         /\ past' = Append(past, owner)
         /\ owner' = Local

Next == (\E l \in Leases : Open(l)) \/ Close

Spec == Init /\ [][Next]_vars
=============================================================================
