--------------------------- MODULE CanonicalFact ---------------------------
(***************************************************************************)
(* What the review of one field promises, with texts, versions, revisions  *)
(* and workers left out: a register of the decisions that stand, and the   *)
(* source the fact is taken from.  Accepting a candidate makes it the      *)
(* source; withdrawing the source falls back on a decision that still      *)
(* stands, and only when none is left does the field lose its fact.        *)
(***************************************************************************)
CONSTANTS Cands, Intake, Typed, None

VARIABLES accepted,     \* the values of the accepted candidates
          current       \* the source of the fact, None when there is no fact

Init == /\ accepted = [x \in {} |-> None]
        /\ current \in {None, Intake}

Standing(S) == current' \in S \cup {Intake}

With(x, v) == [y \in DOMAIN accepted \cup {x} |-> IF y = x THEN v ELSE accepted[y]]
Without(X) == [y \in DOMAIN accepted \ X |-> accepted[y]]

Accept(x) == /\ \E v \in {x, Typed} : accepted' = With(x, v)
             /\ current' = x

\* Two candidates of one request: the second one is the source.
AcceptBoth(x, y) == /\ {x, y} \cap DOMAIN accepted = {}
                    /\ accepted' = [z \in DOMAIN accepted \cup {x, y} |->
                                       IF z \in {x, y} THEN z ELSE accepted[z]]
                    /\ current' = y

Withdraw(x) ==
    /\ accepted' = Without({x})
    /\ IF current # x THEN UNCHANGED current
       ELSE IF DOMAIN accepted' # {} THEN Standing(DOMAIN accepted')
       ELSE current' \in {Intake, None}

Next == \/ \E x \in Cands : Accept(x) \/ Withdraw(x)
        \/ \E x, y \in Cands : AcceptBoth(x, y)

Spec == Init /\ [][Next]_<<accepted, current>>

=============================================================================
