------------------------------ MODULE Delivery ------------------------------
(***************************************************************************)
(* What a transfer promises, whatever carries it: how the copies under      *)
(* ./save grow, and when the client may come to its end.  Both transfers    *)
(* implement it.                                                            *)
(***************************************************************************)
EXTENDS Tree

VARIABLES
    saved,      \* saved[i]: contents of ./save's copy of file i
    plan,       \* plan[i]: what the session has still to append to it
    phase       \* of the session

deliveryVars == <<saved, plan, phase>>

NoPlan == [i \in Entries |-> <<>>]

DeliveryInit ==
    /\ saved = NoPlan
    /\ plan = NoPlan
    /\ phase = "idle"

\* A session begins at some entry, whose copy it continues without a gap; one offset
\* holds for all its files.
Begin ==
    /\ phase = "idle"
    /\ \E first \in Entries : \E offset \in 0 .. Len(saved[first]) :
        plan' = [i \in Entries |->
                    IF i \in Files /\ i >= first THEN From(i, offset) ELSE <<>>]
    /\ phase' = "going"
    /\ UNCHANGED saved

\* Files are completed in the order of the list.
Deliver ==
    /\ phase = "going"
    /\ plan # NoPlan
    /\ LET i == Min({k \in Entries : plan[k] # <<>>})
       IN  \E n \in 1 .. Len(plan[i]) :
            /\ saved' = [saved EXCEPT ![i] = @ \o SubSeq(plan[i], 1, n)]
            /\ plan' = [plan EXCEPT ![i] = SubSeq(@, n + 1, Len(@))]
    /\ UNCHANGED phase

\* The client comes to its end only when nothing is left to append.
Report ==
    /\ phase = "going"
    /\ plan = NoPlan
    /\ phase' = "reported"
    /\ UNCHANGED <<saved, plan>>

\* Once something has gone wrong, if only that the client was gone when the session
\* began, one copy at a time may grow by anything: what is there stays.
Derail ==
    /\ phase # "reported"
    /\ phase' = "derailed"
    /\ plan' = NoPlan
    /\ \E i \in Entries :
        /\ \A j \in Entries \ {i} : saved'[j] = saved[j]
        /\ Len(saved[i]) <= Len(saved'[i])
        /\ \A k \in 1 .. Len(saved[i]) : saved'[i][k] = saved[i][k]

End ==
    /\ phase' = "idle"
    /\ plan' = NoPlan
    /\ UNCHANGED saved

DeliveryNext == Begin \/ Deliver \/ Report \/ Derail \/ End

DeliverySpec == DeliveryInit /\ [][DeliveryNext]_deliveryVars
=============================================================================
