-------------------------- MODULE LifecycleRecord --------------------------
(***************************************************************************)
(* What the instance_lifecycle table promises its readers, whichever       *)
(* request or scheduler wrote last: a row is created once per instance, a  *)
(* row that has left "none" never returns to it, and an extension is never *)
(* forgotten while the row lives.  Lifecycle.tla implements it.            *)
(***************************************************************************)
EXTENDS Integers

CONSTANT Instances

VARIABLES
    row,    \* the table: one row per instance, status "absent" when there is none
    fresh   \* the instances whose row has not been written yet

Status == {"absent", "none", "sent", "extended", "deleted"}

(* sentAt is 0 while the column email_sent_at is NULL. *)
Row == [status: Status, expires: Int, sentAt: Int, extended: BOOLEAN]

NoRow == [status |-> "absent", expires |-> 0, sentAt |-> 0, extended |-> FALSE]

Present(i) == row[i].status # "absent"

RecordInit ==
    /\ row = [i \in Instances |-> NoRow]
    /\ fresh = Instances

(* The single insert of an instance's row, or the decision not to have one. *)
Create(i) ==
    /\ i \in fresh
    /\ fresh' = fresh \ {i}
    /\ \/ LET e == row'[i].expires
          IN  /\ e \in Int
              /\ row' = [row EXCEPT ![i] = [status |-> "none", expires |-> e,
                                            sentAt |-> 0, extended |-> FALSE]]
       \/ UNCHANGED row

(* The warning was mailed: nothing but the status and its time change. *)
Warn(i) ==
    /\ Present(i)
    /\ LET t == row'[i].sentAt
       IN  t \in Int /\ row' = [row EXCEPT ![i].status = "sent", ![i].sentAt = t]
    /\ UNCHANGED fresh

(* An extension sets the flag for good. *)
Extend(i) ==
    /\ Present(i)
    /\ LET e == row'[i].expires
       IN  /\ e \in Int
           /\ row' = [row EXCEPT ![i].status = "extended",
                                 ![i].extended = TRUE,
                                 ![i].expires = e]
    /\ UNCHANGED fresh

(* The scheduler deleted the instance and keeps the row. *)
Close(i) ==
    /\ Present(i)
    /\ row' = [row EXCEPT ![i].status = "deleted"]
    /\ UNCHANGED fresh

(* The user deleted the instance: the row goes, and only a pending insert
   can write one again. *)
Drop(i) ==
    /\ row' = [row EXCEPT ![i] = NoRow]
    /\ UNCHANGED fresh

RecordNext ==
    \E i \in Instances : Create(i) \/ Warn(i) \/ Extend(i) \/ Close(i) \/ Drop(i)

RecordSpec == RecordInit /\ [][RecordNext]_<<row, fresh>>
=============================================================================
