------------------------------- MODULE Settings -------------------------------
(***************************************************************************)
(* The settings that administrators override at run time (api/v1/setting.py*)
(* and db/api.py): a row for each key that is overridden, the defaults of  *)
(* the configuration for the others, and the requests that write, reset    *)
(* and read them.                                                          *)
(*                                                                         *)
(* db.execute, fetch_one and fetch_all each open a session, and so a       *)
(* transaction, of their own: the transaction around update_setting and    *)
(* its lock hold none of them together. A PUT is three steps here, and     *)
(* other requests, of this worker's threads or of other workers, come in   *)
(* between. Reads are one step, and change nothing: Shown and Listed.      *)
(***************************************************************************)
EXTENDS Integers, SequencesExt

CONSTANTS
    Keys,      \* base_settings, the keys that may be overridden
    Values,
    Default,   \* the value of the configuration, the same for all keys
    Requests,  \* the requests to write or reset; each is made at most once
    Asks,      \* what each asks for: its method, key and value, and whether
               \* it comes from a system administrator
    Unique     \* whether the table has a unique index on the key: the models
               \* have one, the migrations that make the table do not

ASSUME SettingsAssumption ==
    /\ Default \notin Values
    /\ {"none", "error", "forbidden", "not found"} \cap (Values \cup {Default}) = {}
    /\ \A r \in Requests :
          /\ Asks[r].method \in {"PUT", "DELETE"}
          /\ Asks[r].value \in Values
          /\ Asks[r].admin \in BOOLEAN
    /\ Unique \in BOOLEAN

VARIABLES
    rows,    \* per key the values of its rows, the oldest first
    at,      \* where each request is
    exists,  \* whether its first query found a row
    answer,  \* what it was answered
    \* What happened, kept for the properties; no action reads it.
    during   \* the requests of its key that each has overlapped with

vars == <<rows, at, exists, answer, during>>

Key(r) == Asks[r].key

Value(r) == Asks[r].value

(* show_setting, and every reader in the server: fetch_one's row. *)
Shown(k) == IF rows[k] = <<>> THEN Default ELSE Head(rows[k])

(* list_settings: each row in turn goes over the one before. *)
Listed(k) == IF rows[k] = <<>> THEN Default ELSE Last(rows[k])

Places == {"new", "select", "write", "reselect", "delete", "done"}

Open(r) == at[r] \notin {"new", "done"}

Answers == Values \cup {Default, "none", "error", "forbidden", "not found"}

Goto(r, place) ==
    /\ at' = [at EXCEPT ![r] = place]
    /\ UNCHANGED answer

Reply(r, value) ==
    /\ at' = [at EXCEPT ![r] = "done"]
    /\ answer' = [answer EXCEPT ![r] = value]
-----------------------------------------------------------------------------
(* assert_setting_key_exist *)
Known(r) == Key(r) \in Keys

(* Whoever is not an administrator is told so before the key is looked at. *)
Receive(r) ==
    /\ at[r] = "new"
    /\ \/ ~Asks[r].admin /\ Reply(r, "forbidden")
       \/ Asks[r].admin /\ ~Known(r) /\ Reply(r, "not found")
       \/ /\ Asks[r].admin /\ Known(r)
          /\ Goto(r, IF Asks[r].method = "PUT" THEN "select" ELSE "delete")
    /\ during' = [s \in Requests |->
                     IF s = r THEN {o \in Requests : Open(o) /\ Key(o) = Key(r)}
                     ELSE IF Open(s) /\ Key(s) = Key(r) THEN during[s] \cup {r}
                     ELSE during[s]]
    /\ UNCHANGED <<rows, exists>>

(* update_setting, first transaction: FOR UPDATE locks until it ends. *)
Select(r) ==
    /\ at[r] = "select"
    /\ exists' = [exists EXCEPT ![r] = rows[Key(r)] # <<>>]
    /\ Goto(r, "write")
    /\ UNCHANGED <<rows, during>>

(* Mutated: one row only is updated. *)
UpdatedFirst(k, v) ==
    IF rows[k] = <<>> THEN <<>> ELSE <<v>> \o Tail(rows[k])

Updated(k, v) == [i \in DOMAIN rows[k] |-> v]

(* Mutated: a PUT of a key that has no row updates it all the same. *)
ToBeInserted0(r) == FALSE

(* Mutated: every PUT inserts. *)
ToBeInserted1(r) == TRUE

ToBeInserted(r) == ~exists[r]

(* Second transaction; a unique index refuses a second row of a key. *)
Write(r) ==
    /\ at[r] = "write"
    /\ \/ /\ ~ToBeInserted(r)
          /\ rows' = [rows EXCEPT ![Key(r)] = Updated(Key(r), Value(r))]
          /\ Goto(r, "reselect")
       \/ /\ ToBeInserted(r) /\ ~(Unique /\ rows[Key(r)] # <<>>)
          /\ rows' = [rows EXCEPT ![Key(r)] = Append(@, Value(r))]
          /\ Goto(r, "reselect")
       \/ /\ ToBeInserted(r) /\ Unique /\ rows[Key(r)] # <<>>
          /\ Reply(r, "error")
          /\ UNCHANGED rows
    /\ exists' = [exists EXCEPT ![r] = FALSE]   \* of no use any more
    /\ UNCHANGED during

(* Third transaction; without a row, its value cannot be had: a 500. *)
Reselect(r) ==
    /\ at[r] = "reselect"
    /\ Reply(r, IF rows[Key(r)] = <<>> THEN "error" ELSE Head(rows[Key(r)]))
    /\ UNCHANGED <<rows, exists, during>>

(* Mutated: one row only is deleted. *)
DeletedFirst(k) == IF rows[k] = <<>> THEN <<>> ELSE Tail(rows[k])

Deleted(k) == <<>>

Delete(r) ==
    /\ at[r] = "delete"
    /\ rows' = [rows EXCEPT ![Key(r)] = Deleted(Key(r))]
    /\ Reply(r, Default)
    /\ UNCHANGED <<exists, during>>

(* The database cannot be reached, or the worker dies: what has been done *)
(* so far stays done.                                                     *)
Break(r) ==
    /\ Open(r)
    /\ Reply(r, "none")
    /\ UNCHANGED <<rows, exists, during>>
-----------------------------------------------------------------------------
Init ==
    /\ rows \in [Keys -> {<<>>} \cup {<<v>> : v \in Values}]
    /\ at = [r \in Requests |-> "new"]
    /\ exists = [r \in Requests |-> FALSE]
    /\ answer = [r \in Requests |-> "none"]
    /\ during = [r \in Requests |-> {}]

Handle(r) == Select(r) \/ Write(r) \/ Reselect(r) \/ Delete(r)

Next == \E r \in Requests : Receive(r) \/ Handle(r) \/ Break(r)

Spec == Init /\ [][Next]_vars
-----------------------------------------------------------------------------
TypeOK ==
    /\ rows \in [Keys -> Seq(Values)]
    /\ at \in [Requests -> Places]
    /\ exists \in [Requests -> BOOLEAN]
    /\ answer \in [Requests -> Answers]
    /\ during \in [Requests -> SUBSET Requests]
    /\ \A r \in Requests : Open(r) => Key(r) \in Keys
    /\ Unique => \A k \in Keys : Len(rows[k]) <= 1

(* The requests that may write or reset a key: an administrator's.            *)
Writers(k) == {r \in Requests : Key(r) = k /\ Asks[r].method = "PUT" /\ Asks[r].admin}

Resets(k) == {r \in Requests : Key(r) = k /\ Asks[r].method = "DELETE" /\ Asks[r].admin}

(* What a key shows, to whoever asks for it alone or for all, changes only to *)
(* the value of a PUT under way or, while a reset is, to the default: no      *)
(* value that was replaced or reset comes back later.                         *)
OnlyOpenRequestsChange ==
    [][\A k \in Keys : \A new \in {Shown(k)', Listed(k)'} \ {Shown(k), Listed(k)} :
          \/ \E r \in Writers(k) : Open(r) /\ Value(r) = new
          \/ new = Default /\ \E r \in Resets(k) : Open(r)]_vars

(* A PUT or a reset that overlaps with no other on its key, and whose server  *)
(* lives, is answered with its value, and leaves both readings at it, even    *)
(* if they differed before.                                                   *)
LoneTakesEffect ==
    [][\A r \in Requests :
          Open(r) /\ at'[r] = "done" /\ answer'[r] # "none"
          /\ during[r] = {} =>
                LET value == IF Asks[r].method = "PUT" THEN Value(r) ELSE Default
                IN  /\ answer'[r] = value
                    /\ Shown(Key(r))' = value
                    /\ Listed(Key(r))' = value]_vars

(* A PUT that an administrator may make is answered with a 500 only if a      *)
(* reset of its key came in between; or, with the index, a PUT.               *)
ErrorsNeedARival ==
    \A r \in Requests :
        answer[r] = "error" =>
            \E s \in during[r] : s \in Resets(Key(r)) \/ (Unique /\ s \in Writers(Key(r)))

(* The value shown for a key and the value listed differ only if two PUTs of  *)
(* the key have overlapped.                                                   *)
SplitOnlyByRace ==
    \A k \in Keys :
        Shown(k) # Listed(k) =>
            \E r \in Writers(k) : during[r] \cap Writers(k) # {}
=============================================================================
