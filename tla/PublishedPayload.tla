-------------------------- MODULE PublishedPayload --------------------------
(***************************************************************************)
(* What the payload store promises about one published name, whoever       *)
(* stages and whatever crashes: the name goes from absent to one           *)
(* publisher's whole payload in a single step, is never taken over by      *)
(* another publisher, and is lost to a power failure only before its       *)
(* parent directory was synced.  Outsiders are users of the same disk.     *)
(***************************************************************************)
CONSTANTS Publishers, Absent, Outsider

VARIABLES
    holder,   \* who put the name there: Absent, Outsider or a publisher
    whole,    \* the name holds a complete payload of the accepted source
    durable   \* the directory entry of the name has reached the disk

nameVars == <<holder, whole, durable>>

Init == holder \in {Absent, Outsider} /\ whole = FALSE /\ durable = TRUE

Publish ==
    /\ holder = Absent
    /\ holder' \in Publishers
    /\ whole' = TRUE
    /\ durable' = FALSE

Persist == durable' = TRUE /\ UNCHANGED <<holder, whole>>

Lose ==
    /\ ~durable
    /\ holder' = Absent
    /\ whole' = FALSE
    /\ durable' = TRUE

OutsiderActs ==
    /\ holder' \in {Absent, Outsider}
    /\ (holder = Absent) # (holder' = Absent)
    /\ whole' = FALSE
    /\ durable' = TRUE

Next == Publish \/ Persist \/ Lose \/ OutsiderActs

Spec == Init /\ [][Next]_nameVars
=============================================================================
