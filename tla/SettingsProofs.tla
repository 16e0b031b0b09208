---------------------------- MODULE SettingsProofs ----------------------------
(***************************************************************************)
(* Proofs about Settings, for any keys, values and requests, with or       *)
(* without a unique index. What a request has read may be out of date when *)
(* it writes, but then it has met the request that made it so (Findings);  *)
(* everything else follows from that.                                      *)
(***************************************************************************)
EXTENDS Settings, SequenceTheorems, TLAPS

(* A request under way is an administrator's, of a key there is, and the method
   tells where it may be; one that is not received yet has met nobody, and one
   that is not done has no answer. *)
Allowed ==
    \A r \in Requests :
        /\ Open(r) => Key(r) \in Keys /\ Asks[r].admin
        /\ at[r] \in {"select", "write", "reselect"} => Asks[r].method = "PUT"
        /\ at[r] = "delete" => Asks[r].method = "DELETE"
        /\ at[r] = "new" => during[r] = {}
        /\ at[r] # "done" => answer[r] = "none"

(* Two requests of a key that are under way at once know of each other. *)
Overlapping ==
    \A r, s \in Requests :
        Open(r) /\ Open(s) /\ r # s /\ Key(r) = Key(s) => s \in during[r]

PutMet(r) == during[r] \cap Writers(Key(r)) # {}

ResetMet(r) == during[r] \cap Resets(Key(r)) # {}

(* What a PUT has found is still so, unless it has met who changed it. *)
Found(r) ==
    /\ at[r] = "write" /\ ~exists[r] /\ rows[Key(r)] # <<>> => PutMet(r)
    /\ at[r] = "write" /\ exists[r] /\ rows[Key(r)] = <<>> => ResetMet(r)
    /\ at[r] = "reselect" /\ rows[Key(r)] = <<>> => ResetMet(r)

Findings == \A r \in Requests : Found(r)

(* What a PUT that has met nobody has written is all there is of its key. *)
OnlyIts(r) ==
    at[r] = "reselect" /\ during[r] = {} =>
        \A i \in DOMAIN rows[Key(r)] : rows[Key(r)][i] = Value(r)

Written == \A r \in Requests : OnlyIts(r)

(* A key has a second row only of two PUTs that met. *)
SecondRows ==
    \A k \in Keys : Len(rows[k]) > 1 => \E r \in Writers(k) : PutMet(r)

IInv ==
    /\ TypeOK
    /\ Allowed
    /\ Overlapping
    /\ Findings
    /\ Written
    /\ SecondRows
    /\ ErrorsNeedARival

-----------------------------------------------------------------------------
(* An UPDATE of all rows of a key leaves as many, of one value. *)
LEMMA UpdatedRows ==
  ASSUME NEW k, NEW v \in Values, rows[k] \in Seq(Values)
  PROVE  /\ Updated(k, v) \in Seq(Values)
         /\ Len(Updated(k, v)) = Len(rows[k])
         /\ \A i \in DOMAIN Updated(k, v) : Updated(k, v)[i] = v
         /\ Updated(k, v) = <<>> <=> rows[k] = <<>>
<1>1. DOMAIN rows[k] = 1 .. Len(rows[k]) /\ Len(rows[k]) \in Nat
  OBVIOUS
<1>2. Updated(k, v) = [i \in 1 .. Len(rows[k]) |-> v]
  BY <1>1 DEF Updated
<1>3. Updated(k, v) \in Seq(Values) /\ Len(Updated(k, v)) = Len(rows[k])
  BY <1>1, <1>2
<1> QED
  BY <1>1, <1>2, <1>3

(* An INSERT puts one row after the others. *)
LEMMA AppendedRows ==
  ASSUME NEW k, NEW v \in Values, rows[k] \in Seq(Values)
  PROVE  /\ Append(rows[k], v) \in Seq(Values)
         /\ Append(rows[k], v) # <<>>
         /\ Len(Append(rows[k], v)) = Len(rows[k]) + 1
         /\ Append(rows[k], v)[Len(rows[k]) + 1] = v
         /\ \A i \in 1 .. Len(rows[k]) : Append(rows[k], v)[i] = rows[k][i]
  OBVIOUS

(* Of rows that all have one value, either end has it. *)
LEMMA OneValueThroughout ==
  ASSUME NEW q \in Seq(Values), q # <<>>, NEW v, \A i \in DOMAIN q : q[i] = v
  PROVE  Head(q) = v /\ Last(q) = v
<1>1. Len(q) \in Nat \ {0} /\ DOMAIN q = 1 .. Len(q)
  OBVIOUS
<1> QED
  BY <1>1 DEF Last

(* A key with one row at most shows the same to both. *)
LEMMA OneRowShown ==
  ASSUME NEW k, rows[k] \in Seq(Values), Len(rows[k]) <= 1
  PROVE  Shown(k) = Listed(k)
<1>1. CASE rows[k] = <<>>
  BY <1>1 DEF Shown, Listed
<1>2. CASE rows[k] # <<>>
  <2>1. \A n \in Nat \ {0} : n <= 1 => n = 1
    OBVIOUS
  <2>2. Len(rows[k]) \in Nat \ {0}
    BY <1>2
  <2>3. Len(rows[k]) = 1
    BY <2>1, <2>2, Zenon
  <2> QED
    BY <1>2, <2>3 DEF Shown, Listed, Last
<1> QED
  BY <1>1, <1>2

-----------------------------------------------------------------------------
(* A request goes on by itself, with what it has found and whom it has met. *)
LEMMA Moves ==
  ASSUME TypeOK, NEW r \in Requests, Receive(r) \/ Handle(r) \/ Break(r)
  PROVE  /\ at' \in [Requests -> Places]
         /\ answer' \in [Requests -> Answers]
         /\ exists' \in [Requests -> BOOLEAN]
         /\ during' \in [Requests -> SUBSET Requests]
         /\ \A s \in Requests \ {r} : /\ at'[s] = at[s] /\ answer'[s] = answer[s]
                                      /\ exists'[s] = exists[s] /\ during[s] \subseteq during'[s]
         /\ at[r] # "new" => UNCHANGED during
         /\ at[r] # "new" <=> ~Receive(r)
<1>v. Value(r) \in Values
  BY SettingsAssumption DEF Value
<1>1. ASSUME NEW place \in Places, Goto(r, place)
      PROVE  /\ at' \in [Requests -> Places] /\ answer' \in [Requests -> Answers]
             /\ \A s \in Requests \ {r} : at'[s] = at[s] /\ answer'[s] = answer[s]
  BY <1>1 DEF TypeOK, Goto
<1>2. ASSUME NEW value \in Answers, Reply(r, value)
      PROVE  /\ at' \in [Requests -> Places] /\ answer' \in [Requests -> Answers]
             /\ \A s \in Requests \ {r} : at'[s] = at[s] /\ answer'[s] = answer[s]
  BY <1>2 DEF TypeOK, Reply, Places
<1>3. ASSUME Key(r) \in Keys, rows[Key(r)] # <<>> PROVE Head(rows[Key(r)]) \in Answers
  <2>1. rows[Key(r)] \in Seq(Values)
    BY <1>3 DEF TypeOK
  <2>2. Head(rows[Key(r)]) \in Values
    BY <1>3, <2>1, HeadTailProperties, Zenon
  <2> QED
    BY <2>2 DEF Answers
<1>4. CASE Receive(r)
  BY <1>1, <1>2, <1>4 DEF Receive, Places, Answers, Open, TypeOK
<1>5. CASE Select(r)
  BY <1>1, <1>5 DEF Select, Places, TypeOK, Receive
<1>6. CASE Write(r)
  BY <1>1, <1>2, <1>6 DEF Write, Places, Answers, TypeOK, Receive
<1>7. CASE Reselect(r)
  BY <1>2, <1>3, <1>7 DEF Reselect, Answers, TypeOK, Receive, Open
<1>8. CASE Delete(r)
  BY <1>2, <1>8 DEF Delete, Answers, TypeOK, Receive
<1>9. CASE Break(r)
  BY <1>2, <1>9 DEF Break, Answers, TypeOK, Receive, Open
<1> QED
  BY <1>4, <1>5, <1>6, <1>7, <1>8, <1>9 DEF Handle

(* What a step does to the rows: those of one key are all of one value, or one
   more, or none; and who does it is under way, with the method for it. *)
LEMMA RowsMove ==
  ASSUME TypeOK, Allowed, NEW r \in Requests, Receive(r) \/ Handle(r) \/ Break(r)
  PROVE  \/ UNCHANGED rows
         \/ /\ Open(r) /\ r \in Writers(Key(r)) /\ at[r] = "write" /\ at'[r] = "reselect"
            /\ exists[r]
            /\ rows' = [rows EXCEPT ![Key(r)] = Updated(Key(r), Value(r))]
         \/ /\ Open(r) /\ r \in Writers(Key(r)) /\ at[r] = "write" /\ at'[r] = "reselect"
            /\ ~exists[r] /\ ~(Unique /\ rows[Key(r)] # <<>>)
            /\ rows' = [rows EXCEPT ![Key(r)] = Append(@, Value(r))]
         \/ /\ Open(r) /\ r \in Resets(Key(r)) /\ at[r] = "delete" /\ at'[r] = "done"
            /\ rows' = [rows EXCEPT ![Key(r)] = <<>>]
<1>1. CASE Receive(r) \/ Select(r) \/ Reselect(r) \/ Break(r)
  BY <1>1 DEF Receive, Select, Reselect, Break
<1>2. CASE Write(r)
  <2>1. Open(r) /\ r \in Writers(Key(r)) /\ at[r] = "write"
    BY <1>2 DEF Write, Allowed, Open, Writers
  <2>2. Goto(r, "reselect") => at'[r] = "reselect"
    BY DEF Goto, TypeOK
  <2> QED
    BY <1>2, <2>1, <2>2 DEF Write, ToBeInserted
<1>3. CASE Delete(r)
  <2>1. Open(r) /\ r \in Resets(Key(r)) /\ at[r] = "delete" /\ at'[r] = "done"
    BY <1>3 DEF Delete, Reply, Allowed, Open, Resets, TypeOK
  <2> QED
    BY <1>3, <2>1 DEF Delete, Deleted
<1> QED
  BY <1>1, <1>2, <1>3 DEF Handle

(* Whom a request has met stays met. *)
LEMMA MetForGood ==
  ASSUME TypeOK, Allowed, NEW r \in Requests, Receive(r) \/ Handle(r) \/ Break(r)
  PROVE  \A s \in Requests : /\ during[s] \subseteq during'[s]
                             /\ PutMet(s) => PutMet(s)'
                             /\ ResetMet(s) => ResetMet(s)'
<1>1. during[r] \subseteq during'[r]
  BY Moves DEF Allowed
<1>2. \A s \in Requests : during[s] \subseteq during'[s]
  BY <1>1, Moves
<1> QED
  BY <1>2 DEF PutMet, ResetMet

(* A request goes from place to place in the order of its method, and answers
   when it ends. *)
LEMMA AllowedStep ==
  ASSUME TypeOK, Allowed, NEW r \in Requests, Receive(r) \/ Handle(r) \/ Break(r)
  PROVE  Allowed'
<1> USE DEF Allowed, Open
<1>0. \A s \in Requests \ {r} : at'[s] = at[s] /\ answer'[s] = answer[s]
  BY Moves
<1>1. ASSUME Open(r), at'[r] = "done" \/ (UNCHANGED answer /\ Asks[r].method = "PUT"
                                          /\ at'[r] \in {"write", "reselect"})
      PROVE  Allowed'
  <2>1. UNCHANGED during
    BY <1>1, Moves
  <2> QED
    BY <1>0, <1>1, <2>1
<1>2. CASE Receive(r)
  <2>1. at[r] = "new" /\ Open(r) = FALSE
    BY <1>2 DEF Receive
  <2>2. \/ at'[r] = "done"
        \/ /\ Asks[r].admin /\ Key(r) \in Keys /\ UNCHANGED answer
           /\ at'[r] = IF Asks[r].method = "PUT" THEN "select" ELSE "delete"
    BY <1>2 DEF Receive, Goto, Reply, Known, TypeOK
  <2>3. \A s \in Requests \ {r} : at[s] = "new" => during'[s] = during[s]
    BY <1>2 DEF Receive
  <2>4. Asks[r].method \in {"PUT", "DELETE"}
    BY SettingsAssumption
  <2> QED
    BY <1>0, <2>1, <2>2, <2>3, <2>4
<1>3. CASE Select(r)
  BY <1>1, <1>3 DEF Select, Goto, TypeOK
<1>4. CASE Write(r)
  BY <1>1, <1>4 DEF Write, Goto, Reply, TypeOK
<1>5. CASE Reselect(r)
  BY <1>1, <1>5 DEF Reselect, Reply, TypeOK
<1>6. CASE Delete(r)
  BY <1>1, <1>6 DEF Delete, Reply, TypeOK
<1>7. CASE Break(r)
  BY <1>1, <1>7 DEF Break, Reply, TypeOK
<1> QED
  BY <1>2, <1>3, <1>4, <1>5, <1>6, <1>7 DEF Handle

(* Who arrives is noted by all who are under way on its key, and notes them. *)
LEMMA OverlappingStep ==
  ASSUME TypeOK, Allowed, Overlapping, NEW r \in Requests, Receive(r) \/ Handle(r) \/ Break(r)
  PROVE  Overlapping'
<1>1. CASE Receive(r)
  <2>1. during' = [s \in Requests |->
                     IF s = r THEN {o \in Requests : Open(o) /\ Key(o) = Key(r)}
                     ELSE IF Open(s) /\ Key(s) = Key(r) THEN during[s] \cup {r}
                     ELSE during[s]]
    BY <1>1 DEF Receive
  <2>2. \A s \in Requests \ {r} : at'[s] = at[s]
    BY Moves
  <2> QED
    BY <2>1, <2>2 DEF Overlapping, Open, Key
<1>2. CASE ~Receive(r)
  <2>1. UNCHANGED during /\ at[r] # "new" /\ \A s \in Requests \ {r} : at'[s] = at[s]
    BY <1>2, Moves
  <2>2. Open(r)' => Open(r)
    BY <1>2 DEF Handle, Select, Write, Reselect, Delete, Break, Open
  <2> QED
    BY <2>1, <2>2 DEF Overlapping, Open, Key
<1> QED
  BY <1>1, <1>2

(* Every step keeps the types; the index refuses a second row. *)
LEMMA TypeStep ==
  ASSUME TypeOK, Allowed, NEW r \in Requests, Receive(r) \/ Handle(r) \/ Break(r)
  PROVE  TypeOK'
<1>1. Allowed'
  BY AllowedStep
<1>2. rows' \in [Keys -> Seq(Values)] /\ (Unique => \A k \in Keys : Len(rows'[k]) <= 1)
  <2> DEFINE k == Key(r)
             v == Value(r)
  <2>0. v \in Values
    BY SettingsAssumption DEF Value
  <2>1. CASE UNCHANGED rows
    BY <2>1 DEF TypeOK
  <2>2. CASE ~UNCHANGED rows
    <3>1. k \in Keys
      BY <2>2, RowsMove DEF Allowed
    <3>2. rows[k] \in Seq(Values)
      BY <3>1 DEF TypeOK
    <3>3. CASE rows' = [rows EXCEPT ![k] = Updated(k, v)]
      BY <2>0, <3>1, <3>2, <3>3, UpdatedRows DEF TypeOK
    <3>4. CASE rows' = [rows EXCEPT ![k] = Append(@, v)] /\ ~(Unique /\ rows[k] # <<>>)
      <4>1. rows' = [rows EXCEPT ![k] = Append(rows[k], v)]
        BY <3>4
      <4>2. Append(rows[k], v) \in Seq(Values)
        BY <2>0, <3>2, AppendedRows
      <4>3. Unique => Len(Append(rows[k], v)) <= 1
        BY <3>4, <2>0, <3>2
      <4> QED
        BY <3>1, <4>1, <4>2, <4>3 DEF TypeOK
    <3>5. CASE rows' = [rows EXCEPT ![k] = <<>>]
      BY <3>1, <3>5 DEF TypeOK
    <3> QED
      BY <2>2, <3>3, <3>4, <3>5, RowsMove
  <2> QED
    BY <2>1, <2>2
<1> QED
  BY <1>1, <1>2, Moves DEF TypeOK, Allowed

-----------------------------------------------------------------------------
(* The key of a request under way is there, with a sequence of values, and the
   rows of the other keys stay as they are. *)
LEMMA RowsOfOthersStay ==
  ASSUME TypeOK, Allowed, NEW r \in Requests, Receive(r) \/ Handle(r) \/ Break(r)
  PROVE  /\ rows' # rows => /\ Open(r) /\ Key(r) \in Keys
                            /\ rows[Key(r)] \in Seq(Values) /\ Value(r) \in Values
         /\ \A k : (k # Key(r) /\ k \in Keys) => rows'[k] = rows[k]
         /\ \/ UNCHANGED rows
            \/ /\ r \in Writers(Key(r)) /\ at[r] = "write" /\ at'[r] = "reselect" /\ exists[r]
               /\ rows'[Key(r)] = Updated(Key(r), Value(r))
            \/ /\ r \in Writers(Key(r)) /\ at[r] = "write" /\ at'[r] = "reselect" /\ ~exists[r]
               /\ ~(Unique /\ rows[Key(r)] # <<>>)
               /\ rows'[Key(r)] = Append(rows[Key(r)], Value(r))
            \/ /\ r \in Resets(Key(r)) /\ at[r] = "delete" /\ at'[r] = "done"
               /\ rows'[Key(r)] = <<>>
<1>1. CASE UNCHANGED rows
  BY <1>1
<1>2. CASE rows' # rows
  <2>1. Open(r) /\ Key(r) \in Keys
    BY <1>2, RowsMove DEF Allowed
  <2>2. rows \in [Keys -> Seq(Values)] /\ rows[Key(r)] \in Seq(Values) /\ Value(r) \in Values
    BY <2>1, SettingsAssumption DEF TypeOK, Value
  <2> QED
    BY <1>2, <2>1, <2>2, RowsMove
<1> QED
  BY <1>1, <1>2

(* Whoever changes the rows of a key has been met by all who are under way on
   it. *)
LEMMA ChangerIsMet ==
  ASSUME TypeOK, Allowed, Overlapping, NEW r \in Requests,
         Receive(r) \/ Handle(r) \/ Break(r),
         rows' # rows, NEW s \in Requests \ {r}, Open(s), Key(s) = Key(r)
  PROVE  /\ r \in during[s] /\ r \in during'[s]
         /\ r \in Writers(Key(r)) => PutMet(s)'
         /\ r \in Resets(Key(r)) => ResetMet(s)'
<1>1. Open(r)
  BY RowsOfOthersStay
<1>2. r \in during[s]
  BY <1>1 DEF Overlapping
<1>3. r \in during'[s]
  BY <1>2, MetForGood
<1> QED
  BY <1>2, <1>3 DEF PutMet, ResetMet, Writers, Resets, Key

(* Who makes a finding out of date has been met; who makes one makes it true. *)
LEMMA FindingsStep ==
  ASSUME TypeOK, Allowed, Overlapping, Findings, NEW r \in Requests,
         Receive(r) \/ Handle(r) \/ Break(r)
  PROVE  Findings'
<1> SUFFICES ASSUME NEW s \in Requests PROVE Found(s)'
  BY DEF Findings
<1>0. Found(s) /\ (PutMet(s) => PutMet(s)') /\ (ResetMet(s) => ResetMet(s)')
  BY MetForGood DEF Findings
<1>1. CASE s # r
  <2>1. at'[s] = at[s] /\ exists'[s] = exists[s]
    BY <1>1, Moves
  <2>2. CASE at[s] \notin {"write", "reselect"}
    BY <2>1, <2>2 DEF Found
  <2>3. CASE at[s] \in {"write", "reselect"}
    <3>1. Open(s) /\ Key(s) \in Keys
      BY <2>3 DEF Open, Allowed
    <3>2. CASE rows'[Key(s)] = rows[Key(s)]
      BY <1>0, <2>1, <3>2 DEF Found, Key
    <3>3. CASE rows'[Key(s)] # rows[Key(s)]
      <4>1. rows' # rows /\ Key(s) = Key(r)
        BY <3>1, <3>3, RowsOfOthersStay
      <4>2. (r \in Writers(Key(r)) => PutMet(s)') /\ (r \in Resets(Key(r)) => ResetMet(s)')
        BY <1>1, <3>1, <4>1, ChangerIsMet
      <4>3. rows[Key(r)] \in Seq(Values) /\ Value(r) \in Values
        BY <4>1, RowsOfOthersStay
      <4>4. \/ rows'[Key(s)] = <<>> <=> rows[Key(s)] = <<>>
            \/ rows'[Key(s)] # <<>> /\ r \in Writers(Key(r))
            \/ rows'[Key(s)] = <<>> /\ r \in Resets(Key(r))
        <5>1. Updated(Key(r), Value(r)) = <<>> <=> rows[Key(r)] = <<>>
          BY <4>3, UpdatedRows
        <5>2. Append(rows[Key(r)], Value(r)) # <<>>
          BY <4>3, AppendedRows
        <5> QED
          BY <4>1, <5>1, <5>2, RowsOfOthersStay
      <4> QED
        BY <1>0, <2>1, <4>2, <4>4 DEF Found, Key
    <3> QED
      BY <3>2, <3>3
  <2> QED
    BY <2>2, <2>3
<1>2. CASE s = r
  <2>1. CASE Receive(r) \/ Reselect(r) \/ Delete(r) \/ Break(r)
    <3>1. at'[r] \notin {"write", "reselect"}
      BY <2>1 DEF Receive, Reselect, Delete, Break, Goto, Reply, TypeOK
    <3> QED
      BY <1>2, <3>1 DEF Found
  <2>2. CASE Select(r)
    <3>1. at'[r] = "write" /\ (exists'[r] <=> rows[Key(r)] # <<>>) /\ UNCHANGED rows
      BY <2>2 DEF Select, Goto, TypeOK
    <3> QED
      BY <1>2, <3>1 DEF Found, Key
  <2>3. CASE Write(r)
    <3>1. at[r] = "write" /\ at'[r] # "write" /\ (at'[r] = "reselect" => Goto(r, "reselect"))
      BY <2>3 DEF Write, Goto, Reply, TypeOK
    <3>2. Key(r) \in Keys /\ Value(r) \in Values /\ rows[Key(r)] \in Seq(Values)
      BY <3>1, SettingsAssumption DEF TypeOK, Value, Open
    <3>3. ASSUME at'[r] = "reselect", rows'[Key(r)] = <<>> PROVE exists[r] /\ rows[Key(r)] = <<>>
      <4>1. \/ exists[r] /\ rows' = [rows EXCEPT ![Key(r)] = Updated(Key(r), Value(r))]
            \/ rows' = [rows EXCEPT ![Key(r)] = Append(@, Value(r))]
        BY <2>3, <3>3 DEF Write, Reply, TypeOK, ToBeInserted
      <4>2. rows \in [Keys -> Seq(Values)]
        BY DEF TypeOK
      <4>3. Append(rows[Key(r)], Value(r)) # <<>>
        BY <3>2, AppendedRows
      <4>4. exists[r] /\ rows'[Key(r)] = Updated(Key(r), Value(r))
        BY <3>2, <3>3, <4>1, <4>2, <4>3
      <4> QED
        BY <3>2, <3>3, <4>4, UpdatedRows
    <3> QED
      BY <1>0, <1>2, <3>1, <3>3 DEF Found, Key
  <2> QED
    BY <2>1, <2>2, <2>3 DEF Handle
<1> QED
  BY <1>1, <1>2

(* A PUT that has met nobody found what there was, and so has replaced it all. *)
LEMMA WrittenStep ==
  ASSUME TypeOK, Allowed, Overlapping, Findings, Written, NEW r \in Requests,
         Receive(r) \/ Handle(r) \/ Break(r)
  PROVE  Written'
<1> SUFFICES ASSUME NEW s \in Requests, at'[s] = "reselect", during'[s] = {}
             PROVE  \A i \in DOMAIN rows'[Key(s)] : rows'[Key(s)][i] = Value(s)
  BY DEF Written, OnlyIts, Key, Value
<1>0. during[s] = {}
  BY MetForGood
<1>1. CASE s # r
  <2>1. at[s] = "reselect" /\ Open(s) /\ Key(s) \in Keys
    BY <1>1, Moves DEF Open, Allowed
  <2>2. rows'[Key(s)] = rows[Key(s)]
    <3> SUFFICES ASSUME rows'[Key(s)] # rows[Key(s)] PROVE FALSE
      OBVIOUS
    <3>1. rows' # rows /\ Key(s) = Key(r)
      BY <2>1, RowsOfOthersStay
    <3>2. r \in during'[s]
      BY <1>1, <2>1, <3>1, ChangerIsMet
    <3> QED
      BY <3>2
  <2> QED
    BY <1>0, <2>1, <2>2 DEF Written, OnlyIts
<1>2. CASE s = r
  <2>1. Write(r)
    BY <1>2 DEF Handle, Receive, Select, Reselect, Delete, Break, Goto, Reply, TypeOK
  <2>2. at[r] = "write" /\ Key(r) \in Keys
    BY <2>1 DEF Write, TypeOK, Open
  <2>3. rows \in [Keys -> Seq(Values)] /\ rows[Key(r)] \in Seq(Values) /\ Value(r) \in Values
    BY <2>2, SettingsAssumption DEF TypeOK, Value
  <2>4. \/ rows' = [rows EXCEPT ![Key(r)] = Updated(Key(r), Value(r))]
        \/ ~exists[r] /\ rows' = [rows EXCEPT ![Key(r)] = Append(@, Value(r))]
    BY <2>1, <1>2 DEF Write, Reply, TypeOK, ToBeInserted
  <2>5. CASE rows' = [rows EXCEPT ![Key(r)] = Updated(Key(r), Value(r))]
    <3>1. rows'[Key(r)] = Updated(Key(r), Value(r))
      BY <2>2, <2>3, <2>5
    <3> QED
      BY <1>2, <2>3, <3>1, UpdatedRows
  <2>6. CASE ~exists[r] /\ rows' = [rows EXCEPT ![Key(r)] = Append(@, Value(r))]
    <3>1. rows[Key(r)] = <<>>
      BY <1>0, <1>2, <2>2, <2>6 DEF Findings, Found, PutMet
    <3>2. rows'[Key(r)] = Append(<<>>, Value(r))
      BY <2>2, <2>3, <2>6, <3>1
    <3>3. rows'[Key(r)] = <<Value(r)>>
      BY <3>2
    <3> QED
      BY <1>2, <3>3
  <2> QED
    BY <2>4, <2>5, <2>6
<1> QED
  BY <1>1, <1>2

(* A second row is inserted by a PUT that found none, and has met a PUT since. *)
LEMMA SecondRowsStep ==
  ASSUME TypeOK, Allowed, Findings, SecondRows, NEW r \in Requests,
         Receive(r) \/ Handle(r) \/ Break(r)
  PROVE  SecondRows'
<1> SUFFICES ASSUME NEW k \in Keys, Len(rows'[k]) > 1
             PROVE  \E w \in Writers(k) : PutMet(w)'
  BY DEF SecondRows, Writers, Key
<1>0. \A w \in Writers(k) : PutMet(w) => PutMet(w)'
  BY MetForGood DEF Writers
<1>1. ASSUME Len(rows'[k]) = Len(rows[k]) PROVE \E w \in Writers(k) : PutMet(w)'
  BY <1>0, <1>1 DEF SecondRows
<1>2. CASE rows'[k] = rows[k]
  BY <1>1, <1>2
<1>3. CASE rows'[k] # rows[k]
  <2>1. rows' # rows /\ k = Key(r)
    BY <1>3, RowsOfOthersStay
  <2>2. rows[k] \in Seq(Values) /\ Value(r) \in Values
    BY <2>1, RowsOfOthersStay
  <2>3. CASE rows'[k] = Updated(k, Value(r))
    BY <1>1, <2>2, <2>3, UpdatedRows
  <2>4. CASE r \in Writers(k) /\ at[r] = "write" /\ ~exists[r] /\ rows'[k] = Append(rows[k], Value(r))
    <3>1. rows[k] # <<>>
      <4> SUFFICES ASSUME rows[k] = <<>> PROVE FALSE
        OBVIOUS
      <4>1. rows'[k] = <<Value(r)>>
        BY <2>4
      <4>2. Len(rows'[k]) = 1
        BY <4>1
      <4> QED
        BY <4>2
    <3>2. PutMet(r)
      BY <2>1, <2>4, <3>1 DEF Findings, Found
    <3> QED
      BY <1>0, <2>4, <3>2
  <2>5. CASE rows'[k] = <<>>
    <3>1. Len(rows'[k]) = 0
      BY <2>5
    <3> QED
      BY <3>1
  <2> QED
    BY <2>1, <2>3, <2>4, <2>5, RowsOfOthersStay
<1> QED
  BY <1>2, <1>3

(* The answer of a PUT is a 500 when its write meets a row it has not found, or
   its last query no row: Findings says whom it has met then. *)
LEMMA ErrorsStep ==
  ASSUME TypeOK, Allowed, Findings, ErrorsNeedARival, NEW r \in Requests,
         Receive(r) \/ Handle(r) \/ Break(r)
  PROVE  ErrorsNeedARival'
<1> SUFFICES ASSUME NEW s \in Requests, answer'[s] = "error"
             PROVE  \E o \in during'[s] :
                        o \in Resets(Key(s)) \/ (Unique /\ o \in Writers(Key(s)))
  BY DEF ErrorsNeedARival, Resets, Writers, Key
<1>0. during[s] \subseteq during'[s]
  BY MetForGood
<1>1. CASE s # r
  <2>1. answer[s] = "error"
    BY <1>1, Moves
  <2> QED
    BY <1>0, <2>1 DEF ErrorsNeedARival
<1>2. CASE s = r
  <2>1. ASSUME ResetMet(r) \/ (Unique /\ PutMet(r))
        PROVE  \E o \in during'[s] : o \in Resets(Key(s)) \/ (Unique /\ o \in Writers(Key(s)))
    BY <1>0, <1>2, <2>1 DEF ResetMet, PutMet
  <2>2. \A v \in Values \cup {Default} : v # "error"
    BY SettingsAssumption
  <2>3. ASSUME answer'[r] = answer[r], at[r] # "done" PROVE FALSE
    BY <1>2, <2>3 DEF Allowed
  <2>4. \A v : Reply(r, v) => answer'[r] = v
    BY DEF Reply, TypeOK
  <2>5. \A place : Goto(r, place) => answer'[r] = answer[r]
    BY DEF Goto
  <2>6. CASE Receive(r) \/ Select(r) \/ Delete(r) \/ Break(r)
    BY <1>2, <2>2, <2>3, <2>4, <2>5, <2>6 DEF Receive, Select, Delete, Break, Open
  <2>7. CASE Write(r)
    <3>1. at[r] = "write" /\ ~exists[r] /\ Unique /\ rows[Key(r)] # <<>>
      BY <1>2, <2>3, <2>5, <2>7 DEF Write, ToBeInserted
    <3> QED
      BY <2>1, <3>1 DEF Findings, Found
  <2>8. CASE Reselect(r)
    <3>1. at[r] = "reselect" /\ Key(r) \in Keys
      BY <2>8 DEF Reselect, Open, TypeOK
    <3>2. rows[Key(r)] \in Seq(Values)
      BY <3>1 DEF TypeOK
    <3>3. rows[Key(r)] = <<>>
      <4> SUFFICES ASSUME rows[Key(r)] # <<>> PROVE FALSE
        OBVIOUS
      <4>1. Head(rows[Key(r)]) \in Values
        BY <3>2, HeadTailProperties, Zenon
      <4>2. answer'[r] = Head(rows[Key(r)])
        BY <2>4, <2>8 DEF Reselect
      <4> QED
        BY <1>2, <2>2, <4>1, <4>2
    <3> QED
      BY <2>1, <3>1, <3>3 DEF Findings, Found
  <2> QED
    BY <2>6, <2>7, <2>8 DEF Handle
<1> QED
  BY <1>1, <1>2

-----------------------------------------------------------------------------
(* Nobody has asked for anything yet, and every key has one row at most. *)
LEMMA InitIInv == Init => IInv
<1> SUFFICES ASSUME Init PROVE IInv
  OBVIOUS
<1> USE DEF Init
<1>1. /\ \A k \in Keys : rows[k] \in Seq(Values) /\ Len(rows[k]) <= 1
      /\ rows \in [Keys -> Seq(Values)]
  <2>1. /\ <<>> \in Seq(Values) /\ Len(<<>>) = 0
        /\ \A v \in Values : <<v>> \in Seq(Values) /\ Len(<<v>>) = 1
    OBVIOUS
  <2>2. \A k \in Keys : rows[k] = <<>> \/ \E v \in Values : rows[k] = <<v>>
    OBVIOUS
  <2>3. ASSUME NEW k \in Keys PROVE rows[k] \in Seq(Values) /\ Len(rows[k]) <= 1
    <3>1. rows[k] \in Seq(Values) /\ (Len(rows[k]) = 0 \/ Len(rows[k]) = 1)
      BY <2>1, <2>2, Zenon
    <3>2. \A n : n = 0 \/ n = 1 => n <= 1
      OBVIOUS
    <3> QED
      BY <3>1, <3>2, Zenon
  <2>4. rows = [k \in Keys |-> rows[k]]
    OBVIOUS
  <2> QED
    BY <2>3, <2>4
<1>2. \A k \in Keys : ~(Len(rows[k]) > 1)
  <2>1. \A k \in Keys : Len(rows[k]) \in Nat
    BY <1>1
  <2> QED
    BY <1>1, <2>1
<1>3. \A r \in Requests : at[r] = "new" /\ answer[r] = "none" /\ during[r] = {} /\ ~exists[r]
  OBVIOUS
<1>4. TypeOK
  BY <1>1, <1>3 DEF TypeOK, Open, Places, Answers
<1>5. Allowed /\ Overlapping
  BY <1>3 DEF Allowed, Overlapping, Open
<1>6. Findings /\ Written /\ SecondRows /\ ErrorsNeedARival
  BY <1>2, <1>3 DEF Findings, Found, Written, OnlyIts, SecondRows, ErrorsNeedARival
<1> QED
  BY <1>4, <1>5, <1>6 DEF IInv

(* Every step of a request, and every stutter, keeps all parts. *)
LEMMA StepIInv == IInv /\ [Next]_vars => IInv'
<1> SUFFICES ASSUME IInv, [Next]_vars PROVE IInv'
  OBVIOUS
<1>1. CASE Next
  <2>1. PICK r \in Requests : Receive(r) \/ Handle(r) \/ Break(r)
    BY <1>1 DEF Next
  <2>2. TypeOK' /\ Allowed' /\ Overlapping'
    BY <2>1, TypeStep, AllowedStep, OverlappingStep DEF IInv
  <2>3. Findings' /\ Written' /\ SecondRows' /\ ErrorsNeedARival'
    BY <2>1, FindingsStep, WrittenStep, SecondRowsStep, ErrorsStep DEF IInv
  <2> QED
    BY <2>2, <2>3 DEF IInv
<1>2. CASE UNCHANGED vars
  BY <1>2 DEF vars, IInv, TypeOK, Allowed, Overlapping, Findings, Found, Written, OnlyIts,
              SecondRows, ErrorsNeedARival, PutMet, ResetMet, Open, Writers, Resets, Key, Value
<1> QED
  BY <1>1, <1>2

(* The invariant holds for good. *)
LEMMA Inductive == Spec => []IInv
  BY InitIInv, StepIInv, PTL DEF Spec

(* The variables keep their types, and a unique index keeps one row a key. *)
THEOREM TypeCorrect == Spec => []TypeOK
<1>1. IInv => TypeOK
  BY DEF IInv
<1> QED
  BY <1>1, Inductive, PTL

(* A PUT ends in a 500 only of a reset it has met, or of a PUT it has met where
   the index is: whatever else is under way on whatever keys. *)
THEOREM NoErrorAlone == Spec => []ErrorsNeedARival
<1>1. IInv => ErrorsNeedARival
  BY DEF IInv
<1> QED
  BY <1>1, Inductive, PTL

(* One setting is not shown and listed with two values unless two PUTs of it
   have overlapped. *)
THEOREM OneValueWithoutRace == Spec => []SplitOnlyByRace
<1>1. IInv => SplitOnlyByRace
  <2> SUFFICES ASSUME IInv, NEW k \in Keys, Shown(k) # Listed(k)
               PROVE  \E r \in Writers(k) : during[r] \cap Writers(k) # {}
    BY DEF SplitOnlyByRace
  <2>1. rows[k] \in Seq(Values)
    BY DEF IInv, TypeOK
  <2>2. Len(rows[k]) > 1
    BY <2>1, OneRowShown
  <2>3. PICK r \in Writers(k) : PutMet(r)
    BY <2>2 DEF IInv, SecondRows
  <2>4. Key(r) = k
    BY DEF Writers
  <2> QED
    BY <2>3, <2>4 DEF PutMet
<1> QED
  BY <1>1, Inductive, PTL

(* What is shown or listed becomes nothing but what a request under way asks
   for: the values a row may take come from requests, and no step brings an
   earlier row back to either end. *)
THEOREM NothingComesBack == Spec => OnlyOpenRequestsChange
<1>1. IInv /\ [Next]_vars =>
        [\A k \in Keys : \A new \in {Shown(k)', Listed(k)'} \ {Shown(k), Listed(k)} :
            \/ \E r \in Writers(k) : Open(r) /\ Value(r) = new
            \/ new = Default /\ \E r \in Resets(k) : Open(r)]_vars
  <2> SUFFICES ASSUME IInv, Next, NEW k \in Keys,
                      NEW new \in {Shown(k)', Listed(k)'}, new # Shown(k), new # Listed(k)
               PROVE  \/ \E r \in Writers(k) : Open(r) /\ Value(r) = new
                      \/ new = Default /\ \E r \in Resets(k) : Open(r)
    BY DEF vars
  <2>1. PICK r \in Requests : Receive(r) \/ Handle(r) \/ Break(r)
    BY DEF Next
  <2> USE DEF IInv
  <2>2. rows'[k] # rows[k]
    BY DEF Shown, Listed
  <2>3. rows' # rows /\ k = Key(r)
    BY <2>1, <2>2, RowsOfOthersStay
  <2>4. rows[k] \in Seq(Values) /\ Value(r) \in Values /\ Open(r)
    BY <2>1, <2>3, RowsOfOthersStay
  <2>5. CASE r \in Writers(k) /\ rows'[k] = Updated(k, Value(r))
    <3>1. rows'[k] \in Seq(Values) /\ rows'[k] # <<>>
          /\ \A i \in DOMAIN rows'[k] : rows'[k][i] = Value(r)
      BY <2>2, <2>4, <2>5, UpdatedRows
    <3>2. Head(rows'[k]) = Value(r) /\ Last(rows'[k]) = Value(r)
      BY <3>1, OneValueThroughout
    <3>3. new = Value(r)
      BY <3>1, <3>2 DEF Shown, Listed
    <3> QED
      BY <2>4, <2>5, <3>3
  <2>6. CASE r \in Writers(k) /\ rows'[k] = Append(rows[k], Value(r))
    <3>1. rows'[k] # <<>> /\ Last(rows'[k]) = Value(r)
      BY <2>4, <2>6, AppendedRows DEF Last
    <3>2. rows[k] # <<>> => Head(rows'[k]) = Head(rows[k])
      BY <2>4, <2>6
    <3>3. rows[k] = <<>> => Head(rows'[k]) = Value(r)
      BY <2>6
    <3>4. new = Value(r)
      BY <3>1, <3>2, <3>3 DEF Shown, Listed
    <3> QED
      BY <2>4, <2>6, <3>4
  <2>7. CASE r \in Resets(k) /\ rows'[k] = <<>>
    BY <2>4, <2>7 DEF Shown, Listed
  <2> QED
    BY <2>1, <2>3, <2>5, <2>6, <2>7, RowsOfOthersStay
<1> QED
  BY <1>1, Inductive, PTL DEF Spec, OnlyOpenRequestsChange

(* A PUT or a reset that meets no other of its key and is answered has taken
   effect for both readings: what it found was so when it wrote, and what it
   wrote is so when it reads it again. *)
THEOREM AloneItTakesEffect == Spec => LoneTakesEffect
<1>1. IInv /\ [Next]_vars =>
        [\A r \in Requests :
            Open(r) /\ at'[r] = "done" /\ answer'[r] # "none" /\ during[r] = {} =>
                LET value == IF Asks[r].method = "PUT" THEN Value(r) ELSE Default
                IN  /\ answer'[r] = value
                    /\ Shown(Key(r))' = value
                    /\ Listed(Key(r))' = value]_vars
  <2> SUFFICES ASSUME IInv, Next, NEW s \in Requests,
                      Open(s), at'[s] = "done", answer'[s] # "none", during[s] = {}
               PROVE  LET value == IF Asks[s].method = "PUT" THEN Value(s) ELSE Default
                      IN  /\ answer'[s] = value
                          /\ Shown(Key(s))' = value
                          /\ Listed(Key(s))' = value
    BY DEF vars
  <2>1. PICK r \in Requests : Receive(r) \/ Handle(r) \/ Break(r)
    BY DEF Next
  <2> USE DEF IInv
  <2>2. r = s
    BY <2>1, Moves DEF Open
  <2>3. Key(s) \in Keys /\ ~PutMet(s) /\ ~ResetMet(s)
    BY DEF Allowed, PutMet, ResetMet
  <2>4. rows \in [Keys -> Seq(Values)] /\ rows[Key(s)] \in Seq(Values)
    BY <2>3 DEF TypeOK
  <2>5. \A v : Reply(s, v) => answer'[s] = v
    BY DEF Reply, TypeOK
  <2>6. \A place : Goto(s, place) => at'[s] = place
    BY DEF Goto, TypeOK
  <2>7. CASE Reselect(s)
    <3>1. at[s] = "reselect" /\ UNCHANGED rows /\ Asks[s].method = "PUT"
      BY <2>7 DEF Reselect, Allowed
    <3>2. rows[Key(s)] # <<>>
      BY <2>3, <3>1 DEF Findings, Found
    <3>3. \A i \in DOMAIN rows[Key(s)] : rows[Key(s)][i] = Value(s)
      BY <3>1 DEF Written, OnlyIts
    <3>4. Head(rows[Key(s)]) = Value(s) /\ Last(rows[Key(s)]) = Value(s)
      BY <2>4, <3>2, <3>3, OneValueThroughout
    <3>5. answer'[s] = Value(s)
      BY <2>5, <2>7, <3>2, <3>4 DEF Reselect
    <3> QED
      BY <3>1, <3>2, <3>4, <3>5 DEF Shown, Listed, Key
  <2>8. CASE Delete(s)
    <3>1. answer'[s] = Default /\ rows'[Key(s)] = <<>> /\ Asks[s].method = "DELETE"
      BY <2>3, <2>4, <2>5, <2>8 DEF Delete, Deleted, Allowed
    <3> QED
      BY <3>1 DEF Shown, Listed, Key
  <2>9. CASE Write(s)
    BY <2>3, <2>6, <2>9 DEF Write, ToBeInserted, Findings, Found
  <2>10. CASE Receive(s) \/ Select(s) \/ Break(s)
    BY <2>5, <2>6, <2>10 DEF Receive, Select, Break, Open
  <2> QED
    BY <2>1, <2>2, <2>7, <2>8, <2>9, <2>10 DEF Handle
<1> QED
  BY <1>1, Inductive, PTL DEF Spec, LoneTakesEffect

=============================================================================
