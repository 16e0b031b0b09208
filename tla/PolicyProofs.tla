----------------------------- MODULE PolicyProofs -----------------------------
(***************************************************************************)
(* Proofs about the policies, in two parts.                                *)
(*                                                                         *)
(* Of the engine (PolicyFile), for any finite number of threads, any       *)
(* contents and any bound of the clock: the rules of code never come back  *)
(* over a file that is there; and a thread that loads alone after a change *)
(* with a later time leaves the file's rules in force, whatever the thread *)
(* that the change came in the middle of has read, noted and loaded.       *)
(*                                                                         *)
(* Of the tables (Policies), for any users, configuration and objects: an  *)
(* answer stays true when its user is given more roles; what is shown on   *)
(* the target that is made up is granted on the user's own object, and the *)
(* other way about but for the resources named; a stranger's object is     *)
(* closed to readers and members. All of these say that who passes a check *)
(* on one side passes it on the other, so there is one lemma for each of   *)
(* the seventeen tables, and it is for every way of having two sides.      *)
(* One more for each table says what a reader may read that may change it. *)
(***************************************************************************)
EXTENDS PolicyFile, Policies, FiniteSetTheorems, TLAPS

(* history is whole, which TypeOK leaves open. *)
HistoryOK ==
    history \in [overlap : BOOLEAN, fresh : SUBSET Threads, asked : BOOLEAN,
                 later : BOOLEAN, latest : Times, missed : BOOLEAN]

(* A thread on its way to clear the rules has found the file missing. *)
Missed == \A t \in Threads : At(t, "clear") => history.missed

(* No time that is kept anywhere is later than the latest the file has had. *)
Behind ==
    /\ file.mtime <= history.latest
    /\ cache.mtime <= history.latest
    /\ \A t \in Threads : thread[t].mtime <= history.latest

(* Since the last change the threads have come one at a time, and so those that
   are at it are one at most; and the change was one that can be told. *)
Current == history.later /\ ~history.overlap

Alone == ~history.overlap => \A t, u \in Loading : t = u

UpToDate == cache.mtime = history.latest

(* A thread that loads has its time, and the data it goes on with, of the file,
   if it has asked for them since the change: one that began before it may go on
   with what there was. *)
Course(t) ==
    LET l == thread[t]
        latest == history.latest
    IN  /\ t \in history.fresh => l.at # "clear"
        /\ t \in history.fresh /\ l.at \in {"compare", "read", "store", "stamp"}
                => l.mtime = latest
        /\ t \in history.fresh /\ l.at \in {"take", "load"} => UpToDate
        /\ l.at \in {"read", "store", "stamp"} => ~UpToDate
        /\ l.at = "store" /\ l.mtime = latest => l.data = file.data
        /\ l.at = "stamp" /\ l.mtime = latest => cache.data = file.data
        /\ l.at = "load" /\ UpToDate => l.data = file.data

Pending(t) == At(t, "load") \/ (At(t, "take") /\ thread[t].reloaded)

(* The file is there: a copy with its time is a copy of it, and its rules are in
   force or about to be. *)
Present ==
    Current /\ file.data # None =>
        /\ file.mtime = history.latest
        /\ UpToDate => cache.data = file.data
        /\ \A t \in Loading : Course(t)
        /\ UpToDate /\ file.data \in Good =>
                file_rules \in {None, file.data} \/ \E t \in Threads : Pending(t)

(* The file is gone: who has asked since does nothing but clear the rules. *)
Gone == Current /\ file.data = None => \A t \in Loading \cap history.fresh : At(t, "clear")

(* Once a thread has begun and ended after the change, those before it have
   ended too, and what is in force is what the file says. *)
Settled ==
    Current /\ history.asked =>
        /\ Loading \subseteq history.fresh
        /\ file.data = None => file_rules = None
        /\ file.data # None => UpToDate
        /\ file.data \in Good => file_rules = file.data

IInv ==
    /\ TypeOK
    /\ HistoryOK
    /\ Missed
    /\ Behind
    /\ Alone
    /\ Present
    /\ Gone
    /\ Settled

-----------------------------------------------------------------------------
(* A thread comes to a place, with a time, data and whether it has read them anew. *)
Becomes(t, place, m, d, b) ==
    thread' = [thread EXCEPT ![t] = [at |-> place, mtime |-> m, data |-> d, reloaded |-> b]]

LEMMA Became ==
  ASSUME TypeOK, NEW t \in Threads, NEW place \in Places, NEW m \in Times,
         NEW d \in Contents \cup {None}, NEW b \in BOOLEAN, Becomes(t, place, m, d, b)
  PROVE  /\ thread' \in [Threads -> Thread]
         /\ \A u \in Threads \ {t} : thread'[u] = thread[u]
         /\ thread'[t].at = place /\ thread'[t].mtime = m
         /\ thread'[t].data = d /\ thread'[t].reloaded = b
<1>1. thread \in [Threads -> Thread]
  BY DEF TypeOK
<1>2. [at |-> place, mtime |-> m, data |-> d, reloaded |-> b] \in Thread
  BY DEF Thread
<1> QED
  BY <1>1, <1>2 DEF Becomes

(* The forms in which the accesses change a thread. *)
LEMMA GotoBecomes ==
  ASSUME TypeOK, NEW t \in Threads, NEW place \in Places, Goto(t, place)
  PROVE  Becomes(t, place, thread[t].mtime, thread[t].data, thread[t].reloaded)
<1> DEFINE l == thread[t]
<1>1. l \in Thread
  BY DEF TypeOK
<1>2. [l EXCEPT !.at = place] = [at |-> place, mtime |-> l.mtime, data |-> l.data,
                                 reloaded |-> l.reloaded]
  BY <1>1 DEF Thread
<1> QED
  BY <1>2, Zenon DEF Goto, Becomes

LEMMA TimeBecomes ==
  ASSUME TypeOK, NEW t \in Threads, NEW place \in Places, NEW m \in Times,
         thread' = [thread EXCEPT ![t].at = place, ![t].mtime = m]
  PROVE  Becomes(t, place, m, thread[t].data, thread[t].reloaded)
<1> DEFINE l == thread[t]
           moved == [thread EXCEPT ![t].at = place]
<1>1. thread \in [Threads -> Thread] /\ l \in Thread
  BY DEF TypeOK
<1>2. [l EXCEPT !.at = place] = [at |-> place, mtime |-> l.mtime, data |-> l.data,
                                 reloaded |-> l.reloaded]
  BY <1>1 DEF Thread
<1>3. thread' = [moved EXCEPT ![t].mtime = m]
  OBVIOUS
<1>4. moved = [thread EXCEPT ![t] = [at |-> place, mtime |-> l.mtime, data |-> l.data,
                                     reloaded |-> l.reloaded]]
  BY <1>2, Zenon
<1> HIDE DEF moved, l
<1>5. thread' = [thread EXCEPT ![t] = [at |-> place, mtime |-> m, data |-> l.data, reloaded |-> l.reloaded]]
  BY <1>1, <1>3, <1>4
<1> QED
  BY <1>5 DEF Becomes, l

LEMMA DataBecomes ==
  ASSUME TypeOK, NEW t \in Threads, NEW place \in Places, NEW d,
         thread' = [thread EXCEPT ![t].at = place, ![t].data = d]
  PROVE  Becomes(t, place, thread[t].mtime, d, thread[t].reloaded)
<1> DEFINE l == thread[t]
           moved == [thread EXCEPT ![t].at = place]
<1>1. thread \in [Threads -> Thread] /\ l \in Thread
  BY DEF TypeOK
<1>2. [l EXCEPT !.at = place] = [at |-> place, mtime |-> l.mtime, data |-> l.data,
                                 reloaded |-> l.reloaded]
  BY <1>1 DEF Thread
<1>3. thread' = [moved EXCEPT ![t].data = d]
  OBVIOUS
<1>4. moved = [thread EXCEPT ![t] = [at |-> place, mtime |-> l.mtime, data |-> l.data,
                                     reloaded |-> l.reloaded]]
  BY <1>2, Zenon
<1> HIDE DEF moved, l
<1>5. thread' = [thread EXCEPT ![t] = [at |-> place, mtime |-> l.mtime, data |-> d, reloaded |-> l.reloaded]]
  BY <1>1, <1>3, <1>4
<1> QED
  BY <1>5 DEF Becomes, l

LEMMA ReloadedBecomes ==
  ASSUME TypeOK, NEW t \in Threads, NEW place \in Places, NEW b,
         thread' = [thread EXCEPT ![t].at = place, ![t].reloaded = b]
  PROVE  Becomes(t, place, thread[t].mtime, thread[t].data, b)
<1> DEFINE l == thread[t]
           moved == [thread EXCEPT ![t].at = place]
<1>1. thread \in [Threads -> Thread] /\ l \in Thread
  BY DEF TypeOK
<1>2. [l EXCEPT !.at = place] = [at |-> place, mtime |-> l.mtime, data |-> l.data,
                                 reloaded |-> l.reloaded]
  BY <1>1 DEF Thread
<1>3. thread' = [moved EXCEPT ![t].reloaded = b]
  OBVIOUS
<1>4. moved = [thread EXCEPT ![t] = [at |-> place, mtime |-> l.mtime, data |-> l.data,
                                     reloaded |-> l.reloaded]]
  BY <1>2, Zenon
<1> HIDE DEF moved, l
<1>5. thread' = [thread EXCEPT ![t] = [at |-> place, mtime |-> l.mtime, data |-> l.data, reloaded |-> b]]
  BY <1>1, <1>3, <1>4
<1> QED
  BY <1>5 DEF Becomes, l

(* The others' variables and the file stay; t comes to a place, with a time. *)
Moves(t, place, m) ==
    /\ thread' \in [Threads -> Thread]
    /\ \A u \in Threads \ {t} : thread'[u] = thread[u]
    /\ thread'[t].at = place
    /\ thread'[t].mtime = m

LEMMA Typed ==
  ASSUME TypeOK, NEW t \in Threads
  PROVE  /\ thread[t].mtime \in Times /\ thread[t].data \in Contents \cup {None}
         /\ thread[t].reloaded \in BOOLEAN
         /\ file.mtime \in Times /\ file.data \in Contents \cup {None}
         /\ cache.mtime \in Times /\ cache.data \in Contents \cup {None}
         /\ 0 \in Times
BY PolicyFileAssumption DEF TypeOK, Thread, Times

LEMMA BeginMoves ==
  ASSUME TypeOK, NEW t \in Threads, Begin(t)
  PROVE  Moves(t, IF file.data = None THEN "clear" ELSE "stat", thread[t].mtime)
<1> DEFINE place == IF file.data = None THEN "clear" ELSE "stat"
<1>t. /\ thread[t].mtime \in Times /\ thread[t].data \in Contents \cup {None}
      /\ thread[t].reloaded \in BOOLEAN
  BY Typed, Zenon
<1>0. place \in Places
  BY DEF Places
<1>u. Goto(t, place)
  BY DEF Begin
<1> HIDE DEF place
<1>1. Becomes(t, place, thread[t].mtime, thread[t].data, thread[t].reloaded)
  BY <1>0, <1>u, GotoBecomes
<1>2. Moves(t, place, thread[t].mtime)
  BY <1>t, <1>0, <1>1, Became DEF Moves
<1> QED
  BY <1>2 DEF place

LEMMA StatMoves ==
  ASSUME TypeOK, NEW t \in Threads, Stat(t), file.data # None
  PROVE  Moves(t, "compare", file.mtime)
<1>t. /\ thread[t].mtime \in Times /\ thread[t].data \in Contents \cup {None}
      /\ thread[t].reloaded \in BOOLEAN /\ TRUE \in BOOLEAN
      /\ file.mtime \in Times /\ file.data \in Contents \cup {None}
      /\ cache.data \in Contents \cup {None}
  BY Typed, Zenon
<1>0. "compare" \in Places /\ file.mtime \in Times
  BY Typed DEF Places
<1>1. Becomes(t, "compare", file.mtime, thread[t].data, thread[t].reloaded)
  BY <1>0, TimeBecomes DEF Stat
<1> QED
  BY <1>t, <1>0, <1>1, Became DEF Moves

LEMMA CompareMoves ==
  ASSUME TypeOK, NEW t \in Threads, Compare(t)
  PROVE  Moves(t, IF thread[t].mtime > cache.mtime THEN "read" ELSE "take", thread[t].mtime)
<1> DEFINE place == IF thread[t].mtime > cache.mtime THEN "read" ELSE "take"
<1>t. /\ thread[t].mtime \in Times /\ thread[t].data \in Contents \cup {None}
      /\ thread[t].reloaded \in BOOLEAN
  BY Typed, Zenon
<1>0. place \in Places
  BY DEF Places
<1>u. Goto(t, place)
  BY DEF Compare
<1> HIDE DEF place
<1>1. Becomes(t, place, thread[t].mtime, thread[t].data, thread[t].reloaded)
  BY <1>0, <1>u, GotoBecomes
<1>2. Moves(t, place, thread[t].mtime)
  BY <1>t, <1>0, <1>1, Became DEF Moves
<1> QED
  BY <1>2 DEF place

LEMMA ReadMoves ==
  ASSUME TypeOK, NEW t \in Threads, Read(t), file.data # None
  PROVE  Moves(t, "store", thread[t].mtime) /\ thread'[t].data = file.data
<1>t. /\ thread[t].mtime \in Times /\ thread[t].data \in Contents \cup {None}
      /\ thread[t].reloaded \in BOOLEAN /\ TRUE \in BOOLEAN
      /\ file.mtime \in Times /\ file.data \in Contents \cup {None}
      /\ cache.data \in Contents \cup {None}
  BY Typed, Zenon
<1>0. "store" \in Places /\ file.mtime \in Times
  BY Typed DEF Places
<1>1. Becomes(t, "store", thread[t].mtime, file.data, thread[t].reloaded)
  BY <1>0, DataBecomes DEF Read
<1> QED
  BY <1>t, <1>0, <1>1, Became DEF Moves

LEMMA StoreMoves ==
  ASSUME TypeOK, NEW t \in Threads, Store(t)
  PROVE  Moves(t, "stamp", thread[t].mtime)
<1>t. /\ thread[t].mtime \in Times /\ thread[t].data \in Contents \cup {None}
      /\ thread[t].reloaded \in BOOLEAN
  BY Typed, Zenon
<1>0. "stamp" \in Places
  BY DEF Places
<1>1. Becomes(t, "stamp", thread[t].mtime, thread[t].data, thread[t].reloaded)
  BY <1>0, GotoBecomes DEF Store
<1> QED
  BY <1>t, <1>0, <1>1, Became DEF Moves

LEMMA StampMoves ==
  ASSUME TypeOK, NEW t \in Threads, Stamp(t)
  PROVE  Moves(t, "take", thread[t].mtime) /\ thread'[t].reloaded
<1>t. /\ thread[t].mtime \in Times /\ thread[t].data \in Contents \cup {None}
      /\ thread[t].reloaded \in BOOLEAN /\ TRUE \in BOOLEAN
      /\ file.mtime \in Times /\ file.data \in Contents \cup {None}
      /\ cache.data \in Contents \cup {None}
  BY Typed, Zenon
<1>0. "take" \in Places /\ file.mtime \in Times
  BY Typed DEF Places
<1>1. Becomes(t, "take", thread[t].mtime, thread[t].data, TRUE)
  BY <1>0, ReloadedBecomes DEF Stamp
<1> QED
  BY <1>t, <1>0, <1>1, Became, Zenon DEF Moves

LEMMA TakeMoves ==
  ASSUME TypeOK, NEW t \in Threads, Take(t), ToBeLoaded(t)
  PROVE  Moves(t, "load", thread[t].mtime) /\ thread'[t].data = cache.data
<1>t. /\ thread[t].mtime \in Times /\ thread[t].data \in Contents \cup {None}
      /\ thread[t].reloaded \in BOOLEAN
      /\ cache.data \in Contents \cup {None}
  BY Typed, Zenon
<1>0. "load" \in Places
  BY DEF Places
<1>1. Becomes(t, "load", thread[t].mtime, cache.data, thread[t].reloaded)
  BY <1>0, DataBecomes DEF Take
<1> QED
  BY <1>t, <1>0, <1>1, Became DEF Moves

LEMMA ReturnMoves ==
  ASSUME TypeOK, NEW t \in Threads, Return(t)
  PROVE  Moves(t, "idle", 0)
<1>0. "idle" \in Places /\ 0 \in Times /\ None \in Contents \cup {None} /\ FALSE \in BOOLEAN
  BY Typed DEF Places
<1>1. Becomes(t, "idle", 0, None, FALSE)
  BY DEF Return, Becomes, Resting
<1> QED
  BY <1>0, <1>1, Became, Zenon DEF Moves

(* Every access goes on or is the last one. *)
LEMMA Ways ==
  ASSUME TypeOK, NEW t \in Threads, Step(t)
  PROVE  /\ \E place \in Places, m \in Times :
               Moves(t, place, m) /\ m \in {thread[t].mtime, file.mtime, 0}
         /\ UNCHANGED fs
         /\ Begin(t) \/ UNCHANGED history \/ Return(t)
<1>0. /\ {"idle", "clear", "stat", "compare", "read", "take", "store", "stamp", "load"} \subseteq Places
      /\ thread[t].mtime \in Times /\ file.mtime \in Times /\ 0 \in Times
  BY Typed DEF Places
<1>1. UNCHANGED fs
  BY DEF Step, Begin, Clear, Stat, Compare, Read, Store, Stamp, Take, Load
<1>2. Begin(t) \/ UNCHANGED history \/ Return(t)
  BY DEF Step, Clear, Stat, Compare, Read, Store, Stamp, Take, Load
<1>3. Return(t) => Moves(t, "idle", 0)
  BY ReturnMoves
<1>4. CASE Begin(t) \/ Compare(t) \/ Store(t) \/ Stamp(t)
  BY <1>0, <1>1, <1>2, <1>4, BeginMoves, CompareMoves, StoreMoves, StampMoves
<1>5. CASE Clear(t) \/ Load(t)
  BY <1>0, <1>1, <1>2, <1>3, <1>5 DEF Clear, Load
<1>6. CASE Stat(t) \/ Read(t)
  BY <1>0, <1>1, <1>2, <1>3, <1>6, StatMoves, ReadMoves DEF Stat, Read
<1>7. CASE Take(t)
  BY <1>0, <1>1, <1>2, <1>3, <1>7, TakeMoves DEF Take
<1> QED
  BY <1>4, <1>5, <1>6, <1>7 DEF Step

-----------------------------------------------------------------------------
(* What is kept of what happened only grows, until the file is changed. *)
LEMMA HistoryMoves ==
  ASSUME TypeOK, HistoryOK, NEW t \in Threads, Step(t)
  PROVE  /\ HistoryOK'
         /\ history'.later = history.later /\ history'.latest = history.latest
         /\ history.overlap => history'.overlap
         /\ history.missed => history'.missed
         /\ ~Begin(t) => history'.fresh = history.fresh /\ history'.overlap = history.overlap
         /\ Begin(t) => /\ history'.fresh = history.fresh \cup {t}
                        /\ history'.asked = history.asked
                        /\ ~history'.overlap => Loading = {}
                        /\ file.data = None => history'.missed
         /\ Return(t) => history'.asked = (history.asked \/ t \in history.fresh)
         /\ UNCHANGED history \/ Return(t) \/ Begin(t)
<1> USE DEF HistoryOK
<1>1. CASE Begin(t)
  <2>1. ~Return(t) \/ history' = [history EXCEPT !.asked = @ \/ t \in history.fresh]
    BY DEF Return
  <2>2. history' = [history EXCEPT !.overlap = @ \/ Loading # {}, !.fresh = @ \cup {t},
                                   !.missed = @ \/ file.data = None]
    BY <1>1 DEF Begin
  <2> QED
    BY <1>1, <2>1, <2>2
<1>2. CASE Return(t) /\ ~Begin(t)
  BY <1>2 DEF Return
<1>3. CASE UNCHANGED history /\ ~Begin(t) /\ ~Return(t)
  BY <1>3
<1> QED
  BY <1>1, <1>2, <1>3, Ways

(* Only a thread that begins was not at it before. *)
LEMMA WhoSteps ==
  ASSUME TypeOK, NEW t \in Threads, Step(t), ~Begin(t)
  PROVE  t \in Loading /\ Loading' \subseteq Loading
<1>1. t \in Loading
  BY DEF Step, Clear, Stat, Compare, Read, Store, Stamp, Take, Load, At, Loading
<1>2. \A u \in Threads \ {t} : thread'[u] = thread[u]
  BY Ways DEF Moves
<1> QED
  BY <1>1, <1>2 DEF Loading, At

LEMMA StepTyped ==
  ASSUME TypeOK, HistoryOK, NEW t \in Threads, Step(t)
  PROVE  TypeOK'
<1>1. thread' \in [Threads -> Thread] /\ UNCHANGED fs
  BY Ways DEF Moves
<1>2. history'.fresh \subseteq Threads
  BY HistoryMoves DEF HistoryOK
<1>3. cache' \in [data : Contents \cup {None}, mtime : Times]
  <2>1. CASE Store(t)
    BY <2>1, Typed DEF Store, TypeOK
  <2>2. CASE Stamp(t)
    BY <2>2, Typed DEF Stamp, TimeNoted, TypeOK
  <2>3. CASE ~Store(t) /\ ~Stamp(t)
    BY <2>3 DEF TypeOK, Step, Begin, Clear, Stat, Compare, Read, Take, Load
  <2> QED
    BY <2>1, <2>2, <2>3
<1>4. file_rules' \in Good \cup {None}
  BY DEF TypeOK, Step, Begin, Clear, Stat, Compare, Read, Store, Stamp, Take, Load, Loaded
<1> QED
  BY <1>1, <1>2, <1>3, <1>4 DEF TypeOK, fs

LEMMA StepMissed ==
  ASSUME TypeOK, HistoryOK, Missed, NEW t \in Threads, Step(t)
  PROVE  Missed'
<1> SUFFICES ASSUME NEW u \in Threads, thread'[u].at = "clear" PROVE history'.missed
  BY DEF Missed, At
<1>1. CASE thread[u].at = "clear"
  BY <1>1, HistoryMoves DEF Missed, At
<1>2. CASE thread[u].at # "clear"
  <2>1. u = t
    BY <1>2, Ways DEF Moves
  <2>2. Return(t) => thread'[t].at = "idle"
    BY ReturnMoves DEF Moves
  <2>3. Begin(t) /\ file.data = None
    <3>1. CASE Begin(t)
      BY <2>1, <3>1, BeginMoves DEF Moves
    <3>2. CASE Clear(t) \/ Load(t)
      BY <2>1, <2>2, <3>2 DEF Clear, Load
    <3>3. CASE Stat(t) \/ Read(t)
      BY <2>1, <2>2, <3>3, StatMoves, ReadMoves DEF Stat, Read, Moves
    <3>4. CASE Compare(t) \/ Store(t) \/ Stamp(t)
      BY <2>1, <3>4, CompareMoves, StoreMoves, StampMoves DEF Moves
    <3>5. CASE Take(t)
      BY <2>1, <2>2, <3>5, TakeMoves DEF Take, Moves
    <3> QED
      BY <3>1, <3>2, <3>3, <3>4, <3>5 DEF Step
  <2> QED
    BY <2>3, HistoryMoves
<1> QED
  BY <1>1, <1>2

LEMMA StepBehind ==
  ASSUME TypeOK, HistoryOK, Behind, NEW t \in Threads, Step(t)
  PROVE  Behind'
<1>1. history'.latest = history.latest /\ file' = file
  BY HistoryMoves, Ways DEF fs
<1>2. cache'.mtime \in {cache.mtime, thread[t].mtime}
  BY DEF TypeOK, Step, Begin, Clear, Stat, Compare, Read, Store, Stamp, Take, Load, TimeNoted
<1>3. 0 <= history.latest
  BY DEF HistoryOK, Times
<1>4. \A u \in Threads : thread'[u].mtime \in {thread[u].mtime, file.mtime, 0}
  BY Ways DEF Moves
<1> QED
  BY <1>1, <1>2, <1>3, <1>4 DEF Behind

LEMMA StepAlone ==
  ASSUME TypeOK, HistoryOK, Alone, NEW t \in Threads, Step(t)
  PROVE  Alone'
<1>1. CASE Begin(t)
  <2>1. \A u \in Threads \ {t} : thread'[u] = thread[u]
    BY Ways DEF Moves
  <2> QED
    BY <1>1, <2>1, HistoryMoves DEF Alone, Loading, At
<1>2. CASE ~Begin(t)
  BY <1>2, WhoSteps, HistoryMoves DEF Alone
<1> QED
  BY <1>1, <1>2

(* As long as threads have come one at a time, the one that goes on is the only
   one. *)
LEMMA OneAtATime ==
  ASSUME IInv, NEW t \in Threads, Step(t), Current'
  PROVE  /\ Current
         /\ \A u \in Threads \ {t} : thread[u].at = "idle" /\ thread'[u].at = "idle"
<1> USE DEF IInv
<1>1. Current
  BY HistoryMoves DEF Current, HistoryOK
<1>2. \A u \in Threads \ {t} : thread'[u] = thread[u]
  BY Ways DEF Moves
<1>3. CASE Begin(t)
  BY <1>1, <1>2, <1>3, HistoryMoves DEF Current, Loading, At
<1>4. CASE ~Begin(t)
  BY <1>1, <1>2, <1>4, WhoSteps DEF Current, Loading, At, Alone
<1> QED
  BY <1>1, <1>3, <1>4

(* What Present and Settled come to for a thread that is the only one. *)
Sound(t) ==
    /\ UpToDate => cache.data = file.data
    /\ ~At(t, "idle") => Course(t)
    /\ UpToDate /\ file.data \in Good => file_rules \in {None, file.data} \/ Pending(t)
    /\ history.asked => /\ ~At(t, "idle") => t \in history.fresh
                        /\ UpToDate
                        /\ file.data \in Good => file_rules = file.data

LEMMA StepSound ==
  ASSUME IInv, NEW t \in Threads, Step(t), Current', file.data # None
  PROVE  Sound(t)'
<1> USE DEF IInv
<1> DEFINE l == thread[t]
           k == thread'[t]
<1>1. /\ history'.later = history.later /\ history'.latest = history.latest
      /\ ~Begin(t) => history'.fresh = history.fresh
      /\ Begin(t) => history'.fresh = history.fresh \cup {t} /\ history'.asked = history.asked
      /\ Return(t) => history'.asked = (history.asked \/ t \in history.fresh)
  BY HistoryMoves
<1>2. file' = file
  BY Ways DEF fs
<1>3. Sound(t)
  <2>1. Current /\ \A u \in Threads \ {t} : thread[u].at = "idle"
    BY OneAtATime
  <2>2. ~At(t, "idle") => t \in Loading
    BY DEF Loading
  <2>3. \A u \in Threads : Pending(u) => u = t
    BY <2>1 DEF Pending, At
  <2> QED
    BY <2>1, <2>2, <2>3 DEF Present, Settled, Sound
<1>4. file.mtime = history.latest
  BY OneAtATime DEF Present
<1>5. /\ l.mtime \in Int /\ cache.mtime \in Int /\ history.latest \in Int
      /\ l.mtime <= history.latest /\ cache.mtime <= history.latest
  BY Typed DEF Behind, HistoryOK, Times
<1>6. cache \in [data : Contents \cup {None}, mtime : Times]
  BY DEF TypeOK
<1> USE DEF Sound, Course, Pending, UpToDate, At
<1>7. CASE Begin(t)
  <2>1. k.at = "stat" /\ l.at = "idle" /\ UNCHANGED <<cache, file_rules>>
    BY <1>7, BeginMoves DEF Begin, Moves
  <2> QED
    BY <1>1, <1>2, <1>3, <1>7, <2>1
<1>8. CASE Clear(t)
  <2>1. k.at = "idle" /\ l.at = "clear" /\ UNCHANGED cache /\ file_rules' = None /\ Return(t)
    BY <1>8, ReturnMoves DEF Clear, Moves
  <2> QED
    BY <1>1, <1>2, <1>3, <2>1
<1>9. CASE Stat(t)
  <2>1. /\ k.at = "compare" /\ k.mtime = file.mtime /\ l.at = "stat"
        /\ UNCHANGED <<cache, file_rules, history>>
    BY <1>9, StatMoves DEF Stat, Moves
  <2> QED
    BY <1>2, <1>3, <1>4, <2>1
<1>10. CASE Compare(t)
  <2>1. /\ k.at = IF l.mtime > cache.mtime THEN "read" ELSE "take"
        /\ k.mtime = l.mtime /\ l.at = "compare" /\ UNCHANGED <<cache, file_rules, history>>
    BY <1>10, CompareMoves DEF Compare, Moves
  <2>2. CASE l.mtime > cache.mtime
    BY <1>2, <1>3, <1>5, <2>1, <2>2
  <2>3. CASE ~(l.mtime > cache.mtime)
    <3>1. t \in history.fresh => UpToDate
      BY <1>3, <1>5, <2>1, <2>3
    <3> QED
      BY <1>2, <1>3, <2>1, <2>3, <3>1
  <2> QED
    BY <2>2, <2>3
<1>11. CASE Read(t)
  <2>1. /\ k.at = "store" /\ k.mtime = l.mtime /\ k.data = file.data /\ l.at = "read"
        /\ UNCHANGED <<cache, file_rules, history>>
    BY <1>11, ReadMoves DEF Read, Moves
  <2> QED
    BY <1>2, <1>3, <2>1
<1>12. CASE Store(t)
  <2>1. /\ k.at = "stamp" /\ k.mtime = l.mtime /\ l.at = "store"
        /\ UNCHANGED <<file_rules, history>>
    BY <1>12, StoreMoves DEF Store, Moves
  <2>2. cache'.data = l.data /\ cache'.mtime = cache.mtime
    BY <1>6, <1>12 DEF Store
  <2> QED
    BY <1>2, <1>3, <2>1, <2>2
<1>13. CASE Stamp(t)
  <2>1. /\ k.at = "take" /\ k.mtime = l.mtime /\ k.reloaded /\ l.at = "stamp"
        /\ UNCHANGED <<file_rules, history>>
    BY <1>13, StampMoves DEF Stamp, Moves
  <2>2. cache'.data = cache.data /\ cache'.mtime = l.mtime
    BY <1>6, <1>13 DEF Stamp, TimeNoted
  <2> QED
    BY <1>2, <1>3, <2>1, <2>2
<1>14. CASE Take(t) /\ ToBeLoaded(t)
  <2>1. /\ k.at = "load" /\ k.data = cache.data /\ l.at = "take"
        /\ UNCHANGED <<cache, file_rules, history>>
    BY <1>14, TakeMoves DEF Take, Moves
  <2> QED
    BY <1>2, <1>3, <2>1
<1>15. CASE Take(t) /\ ~ToBeLoaded(t)
  <2>1. /\ k.at = "idle" /\ l.at = "take" /\ UNCHANGED <<cache, file_rules>> /\ Return(t)
        /\ ~l.reloaded /\ file_rules # None
    BY <1>15, ReturnMoves DEF Take, ToBeLoaded, Moves
  <2> QED
    BY <1>1, <1>2, <1>3, <2>1
<1>16. CASE Load(t)
  <2>1. k.at = "idle" /\ l.at = "load" /\ UNCHANGED cache /\ file_rules' = Loaded(t) /\ Return(t)
    BY <1>16, ReturnMoves DEF Load, Moves
  <2>2. UpToDate /\ file.data \in Good => file_rules' = file.data
    BY <1>3, <2>1 DEF Loaded
  <2> QED
    BY <1>1, <1>2, <1>3, <2>1, <2>2
<1> QED
  BY <1>7, <1>8, <1>9, <1>10, <1>11, <1>12, <1>13, <1>14, <1>15, <1>16 DEF Step

(* While there is no file, a thread that has begun since finds none, and clears
   the rules; one that had begun before it still may load what it has read. *)
LEMMA StepGone ==
  ASSUME IInv, NEW t \in Threads, Step(t), Current', file.data = None
  PROVE  /\ Gone'
         /\ history'.asked => Loading' \subseteq history'.fresh /\ file_rules' = None
<1> USE DEF IInv
<1>1. /\ history'.later = history.later
      /\ ~Begin(t) => history'.fresh = history.fresh
      /\ Begin(t) => history'.fresh = history.fresh \cup {t} /\ history'.asked = history.asked
      /\ Return(t) => history'.asked = (history.asked \/ t \in history.fresh)
      /\ UNCHANGED history \/ Return(t) \/ Begin(t)
  BY HistoryMoves
<1>2. file' = file
  BY Ways DEF fs
<1>3. Current /\ \A u \in Threads \ {t} : thread[u].at = "idle" /\ thread'[u].at = "idle"
  BY OneAtATime
<1>4. /\ thread[t].at \notin {"idle", "clear"} => t \notin history.fresh
      /\ history.asked => (thread[t].at # "idle" => t \in history.fresh) /\ file_rules = None
  BY <1>3 DEF Gone, Settled, Loading, At
<1>5. Return(t) => thread'[t].at = "idle"
  BY ReturnMoves DEF Moves
<1>6. /\ thread'[t].at \notin {"idle", "clear"} => t \notin history'.fresh
      /\ history'.asked => (thread'[t].at # "idle" => t \in history'.fresh) /\ file_rules' = None
  <2>1. CASE Begin(t)
    <3>1. thread'[t].at = "clear" /\ file_rules' = file_rules
      BY <2>1, BeginMoves DEF Moves, Begin
    <3> QED
      BY <1>1, <1>4, <2>1, <3>1
  <2>2. CASE Clear(t)
    BY <1>1, <1>4, <1>5, <2>2 DEF Clear, At, Begin
  <2>3. CASE ~Begin(t) /\ ~Clear(t)
    <3>1. thread[t].at \notin {"idle", "clear"}
      BY <2>3 DEF Step, Stat, Compare, Read, Store, Stamp, Take, Load, At
    <3>2. t \notin history'.fresh /\ ~history.asked /\ ~history'.asked
      BY <1>1, <1>4, <2>3, <3>1
    <3> QED
      BY <3>2
  <2> QED
    BY <2>1, <2>2, <2>3
<1> QED
  BY <1>2, <1>3, <1>6 DEF Gone, Loading, At

LEMMA StepCurrent ==
  ASSUME IInv, NEW t \in Threads, Step(t)
  PROVE  Present' /\ Gone' /\ Settled'
<1> SUFFICES ASSUME Current' PROVE Present' /\ Gone' /\ Settled'
  BY DEF Present, Gone, Settled
<1>1. /\ Current
      /\ \A u \in Threads \ {t} : thread[u].at = "idle" /\ thread'[u].at = "idle"
  BY OneAtATime
<1>2. file' = file /\ history'.latest = history.latest
  BY Ways, HistoryMoves DEF fs, IInv
<1>3. CASE file.data = None
  <2>1. file'.data = None /\ Gone' /\ (history'.asked => Loading' \subseteq history'.fresh
                                                         /\ file_rules' = None)
    BY <1>2, <1>3, StepGone
  <2>2. file'.data \notin Good
    BY <2>1, PolicyFileAssumption
  <2> QED
    BY <2>1, <2>2 DEF Present, Settled
<1>4. CASE file.data # None
  <2>1. Sound(t)' /\ file.mtime = history.latest
    BY <1>1, <1>4, StepSound DEF Present, IInv
  <2>2. \A u \in Threads : ~At(u, "idle")' => u = t
    BY <1>1 DEF At
  <2>3. Present'
    BY <1>2, <2>1, <2>2 DEF Sound, Present, Loading
  <2>4. Settled'
    BY <1>2, <1>4, <2>1, <2>2 DEF Sound, Settled, Loading
  <2> QED
    BY <1>2, <1>4, <2>3, <2>4 DEF Gone
<1> QED
  BY <1>3, <1>4

-----------------------------------------------------------------------------
(* Of a finite set with one element at most, any two are the same. *)
LEMMA OneAtMost ==
  ASSUME NEW S, IsFiniteSet(S), ~(Cardinality(S) > 1), NEW t \in S, NEW u \in S
  PROVE  t = u
<1> SUFFICES ASSUME t # u PROVE FALSE
  OBVIOUS
<1>1. IsFiniteSet(S \ {t}) /\ Cardinality(S \ {t}) = Cardinality(S) - 1
  BY FS_RemoveElement
<1>2. Cardinality(S) \in Nat /\ Cardinality(S \ {t}) \in Nat
  BY <1>1, FS_CardinalityType
<1>3. Cardinality(S \ {t}) = 0
  BY <1>1, <1>2
<1>4. S \ {t} = {}
  BY <1>1, <1>3, FS_EmptySet
<1> QED
  BY <1>4

(* A change makes everything that is kept older than the file, or the file is
   gone, or the change cannot be told. *)
LEMMA OperatorKeeps ==
  ASSUME IInv, NEW data \in Contents \cup {None}, NEW mtime \in Times, ChangeTo(data, mtime)
  PROVE  IInv'
<1> USE DEF IInv, ChangeTo
<1>1. /\ history'.overlap = (Cardinality(Loading) > 1) /\ history'.fresh = {}
      /\ history'.asked = FALSE /\ history'.later = (mtime > history.latest \/ data = None)
      /\ history'.latest = IF mtime > history.latest THEN mtime ELSE history.latest
      /\ history'.missed = history.missed
      /\ file'.data = data /\ file'.mtime = mtime /\ thread' = thread /\ cache' = cache
      /\ history.latest \in Times
  BY DEF HistoryOK
<1>2. TypeOK'
  BY <1>1 DEF TypeOK
<1>3. HistoryOK'
  BY DEF HistoryOK
<1>4. Missed'
  BY <1>1 DEF Missed, At
<1>5. Behind'
  <2>1. mtime \in Int /\ history.latest \in Int /\ cache.mtime \in Int
        /\ \A t \in Threads : thread[t].mtime \in Int
    BY <1>1, Typed DEF Times, TypeOK, Thread
  <2> QED
    BY <1>1, <2>1 DEF Behind
<1>6. Alone'
  <2>1. IsFiniteSet(Loading)
    <3>1. Loading \subseteq Threads
      BY DEF Loading
    <3> QED
      BY <3>1, PolicyFileAssumption, FS_Subset
  <2>2. Loading' = Loading
    BY <1>1 DEF Loading, At
  <2> QED
    BY <1>1, <2>1, <2>2, OneAtMost DEF Alone
<1>7. Present'
  <2> SUFFICES ASSUME Current', data # None PROVE Present'
    BY <1>1 DEF Present
  <2>1. mtime > history.latest /\ history'.latest = mtime
    BY <1>1 DEF Current
  <2>2. cache.mtime # mtime /\ \A t \in Threads : thread[t].mtime # mtime
    <3>1. mtime \in Int /\ history.latest \in Int
      BY <1>1 DEF Times
    <3>2. cache.mtime \in Int /\ \A t \in Threads : thread[t].mtime \in Int
      BY DEF TypeOK, Thread, Times
    <3> QED
      BY <2>1, <3>1, <3>2 DEF Behind
  <2> QED
    BY <1>1, <2>1, <2>2 DEF Present, Course, UpToDate, Loading, At
<1>8. Gone' /\ Settled'
  BY <1>1 DEF Gone, Settled
<1> QED
  BY <1>2, <1>3, <1>4, <1>5, <1>6, <1>7, <1>8

(* Nobody has loaded anything yet. *)
LEMMA InitIInv == Init => IInv
<1> SUFFICES ASSUME Init PROVE IInv
  OBVIOUS
<1> USE DEF Init
<1>1. 0 \in Times /\ 1 \in Times /\ 0 <= 1
  BY PolicyFileAssumption DEF Times
<1>2. file.data \in Contents \cup {None} /\ (file.mtime = 0 \/ file.mtime = 1)
      /\ (file.data # None => file.mtime = 1) /\ file \in [data : Contents \cup {None}, mtime : Times]
  BY <1>1
<1>3. \A t \in Threads : thread[t] = Resting
  OBVIOUS
<1>4. Resting \in Thread
  BY <1>1 DEF Resting, Thread, Places
<1>5. Loading = {}
  BY <1>3 DEF Loading, Resting, At
<1>6. TypeOK
  BY <1>1, <1>2, <1>4 DEF TypeOK
<1>7. HistoryOK
  BY <1>1, <1>2 DEF HistoryOK
<1>8. Missed /\ Behind
  BY <1>2, <1>3 DEF Missed, Behind, At, Resting
<1>9. Alone /\ Gone /\ Settled
  BY <1>5 DEF Alone, Gone, Settled
<1>10. Present
  BY <1>2, <1>5 DEF Present, UpToDate
<1> QED
  BY <1>6, <1>7, <1>8, <1>9, <1>10 DEF IInv

(* Every step of a thread, of the operator and of the clock keeps all parts. *)
LEMMA StepIInv == IInv /\ [Next]_vars => IInv'
<1> SUFFICES ASSUME IInv, [Next]_vars PROVE IInv'
  OBVIOUS
<1>1. ASSUME NEW t \in Threads, Step(t) PROVE IInv'
  BY <1>1, StepTyped, HistoryMoves, StepMissed, StepBehind, StepAlone, StepCurrent DEF IInv
<1>2. CASE Operator
  <2>1. clock \in Times /\ 0 \in Times /\ \A m \in 1 .. clock - 1 : m \in Times
    BY PolicyFileAssumption DEF IInv, TypeOK, Times
  <2>2. PICK data \in Contents \cup {None}, mtime \in Times : ChangeTo(data, mtime)
    BY <1>2, <2>1 DEF Operator, Write, Restore, Remove
  <2> QED
    BY <2>2, OperatorKeeps
<1>3. CASE Tick \/ UNCHANGED vars
  <2>1. UNCHANGED <<file, cache, file_rules, thread, history>> /\ clock' \in Times
    <3>1. clock \in 0 .. MaxClock /\ MaxClock \in Nat
      BY PolicyFileAssumption DEF IInv, TypeOK, Times
    <3>2. clock < MaxClock => clock + 1 \in 0 .. MaxClock
      BY <3>1
    <3>3. clock' \in Times
      BY <1>3, <3>1, <3>2 DEF Tick, vars, fs, Times
    <3> QED
      BY <1>3, <3>3 DEF Tick, vars, fs
  <2>2. TypeOK' /\ HistoryOK'
    BY <2>1 DEF IInv, TypeOK, HistoryOK
  <2>3. Missed' /\ Behind' /\ Alone'
    BY <2>1 DEF IInv, Missed, Behind, Alone, Loading, At
  <2>4. Present' /\ Gone' /\ Settled'
    BY <2>1 DEF IInv, Present, Gone, Settled, Current, Course, UpToDate, Pending, Loading, At
  <2> QED
    BY <2>2, <2>3, <2>4 DEF IInv
<1> QED
  BY <1>1, <1>2, <1>3 DEF Next

(* The invariant holds for good. *)
LEMMA Inductive == Spec => []IInv
  BY InitIInv, StepIInv, PTL DEF Spec

(* Every variable keeps its type: what is in force is never content that
   Rules.load does not accept. *)
THEOREM TypeCorrect == Spec => []TypeOK
<1>1. IInv => TypeOK
  BY DEF IInv
<1> QED
  BY <1>1, Inductive, PTL

(* A change with a later time, or a removal, is in force once a thread has begun
   and ended load_rules after it, though the change came in the middle of another
   thread's reading: unless threads have been at it together, or the contents
   cannot be loaded. *)
THEOREM NoStaleRules == Spec => []StaleOnlyAfterOverlap
<1>1. IInv => StaleOnlyAfterOverlap
  <2> SUFFICES ASSUME IInv, Current, history.asked, file.data \notin Bad
               PROVE  file_rules = file.data
    BY DEF StaleOnlyAfterOverlap, Current
  <2>1. file.data \in Good \cup {None}
    BY DEF IInv, TypeOK, Contents
  <2> QED
    BY <2>1 DEF IInv, Settled
<1> QED
  BY <1>1, Inductive, PTL

(* No step takes the operator's rules away as long as no thread has found the
   file missing: threads clear them only then, and what cannot be loaded leaves
   them as they are. *)
THEOREM LastGoodKept == Spec => LastGoodHolds
<1>1. IInv /\ [Next]_vars => [file_rules # None /\ ~history.missed' => file_rules' # None]_vars
  <2> SUFFICES ASSUME IInv, Next, file_rules # None, ~history.missed', file_rules' = None
               PROVE  FALSE
    BY DEF vars
  <2>1. PICK t \in Threads : Step(t)
    BY DEF Next, Operator, Write, Restore, Remove, ChangeTo, Tick
  <2>2. CASE Clear(t)
    BY <2>1, <2>2, HistoryMoves DEF Clear, IInv, Missed
  <2>3. CASE Load(t)
    BY <2>3, PolicyFileAssumption DEF Load, Loaded
  <2>4. CASE ~Clear(t) /\ ~Load(t)
    BY <2>1, <2>4 DEF Step, Begin, Stat, Compare, Read, Store, Stamp, Take
  <2> QED
    BY <2>2, <2>3, <2>4
<1> QED
  BY <1>1, Inductive, PTL DEF Spec, LastGoodHolds

-----------------------------------------------------------------------------
(***************************************************************************)
(* The tables. None of what follows speaks of the file or its threads.     *)
(***************************************************************************)
(* The attributes of a user that tell what is granted to them beyond roles,
   and the values that these have when it is not. No check asks for those. *)
Given == {"is_admin", "system_scope"}

Refusals == {"False", ""}

(* The key whose value is of another kind in the target that is made up, and the
   keys that are in the whole description only. *)
Limit == "target.limit.project_id"

Untold ==
    OtherProjectKeys \cup SharedKeys
      \cup {"target.container.creator_id", "zone_type", "visibility"}

(* y has all that x has: the roles, the attributes of the user, the keys of the
   target. Two checks ask that a key have another value, Keystone's of a limit's
   project ("None") and Magnum's of a trustee's domain (the user's own), and so
   these keys must not be new in y. (Barbican's three that ask that an object not be
   private are seen to in Meets and Spared.) *)
Above(x, y) ==
    /\ x.roles \subseteq y.roles
    /\ DOMAIN x.creds = DOMAIN y.creds
    /\ \A a \in DOMAIN x.creds :
          \/ x.creds[a] = y.creds[a]
          \/ a \in Given /\ x.creds[a] \in Refusals
    /\ \A k \in DOMAIN x.target :
          \/ k \in DOMAIN y.target /\ x.target[k] = y.target[k]
          \/ /\ k = Limit
             /\ "project_id" \in DOMAIN x.creds
             /\ x.target[k] # x.creds["project_id"]
    /\ \A k \in {Limit, "trustee_domain_id"} \cap DOMAIN y.target :
          \/ k \in DOMAIN x.target /\ x.target[k] = y.target[k]
          \/ k = Limit /\ y.target[k] # "None"

(* The same user, whose own object is described in full in x and made up in y:
   y lacks nothing but what is untold, and says whose the object is. *)
Beside(x, y) ==
    /\ x.roles = y.roles
    /\ x.creds = y.creds
    /\ DOMAIN y.target \subseteq DOMAIN x.target
    /\ \A k \in DOMAIN x.target \ Untold :
          k \in DOMAIN y.target /\ x.target[k] = y.target[k]
    /\ DOMAIN y.target \cap SharedKeys = {}
    /\ OwnProject(y)
    /\ Same(y, "tenant_id", "tenant_id")
    /\ Same(y, "user_id", "target.secret.creator_id")

(* x is a reader or a member of another project than the target's, y the same
   without any role: nothing of the user's is the target's. *)
Stranger(x, y) ==
    /\ x.roles \subseteq {"reader", "member"}
    /\ y.roles = {}
    /\ x.creds = y.creds
    /\ x.target = y.target
    /\ x.creds["system_scope"] # "all"
    /\ \A a \in DOMAIN x.creds, k \in DOMAIN x.target \ {"enforce_new_defaults"} :
          x.creds[a] # x.target[k]
    /\ "all_tenants" \notin DOMAIN x.target
    /\ x.target["visibility"] = "private"

(* The ways in which y is to be allowed what x is: granted more roles beside the
   same target; told in full of the same user's own object, shared or private; and
   the two above. *)
Meets(way, x, y) ==
    \/ way = "granted" /\ Above(x, y) /\ x.target = y.target
    \/ /\ way = "shared"
       /\ Above(x, y)
       /\ x.roles = y.roles
       /\ \A k \in SharedKeys \cap DOMAIN y.target : y.target[k] # "False"
    \/ way = "private" /\ Above(x, y) /\ x.roles = y.roles
    \/ way = "beside" /\ Beside(x, y)
    \/ way = "stranger" /\ Stranger(x, y)

(* The rules that are left out of what is promised for a way: the one that forbids
   a role, those that forbid a private object, those whose answer depends on what is
   untold, and those that ask for a role only. *)
Spared(way, service, r) ==
    \/ way = "granted" /\ ForbidsRole([service |-> service, resource |-> r.resource])
    \/ way = "private" /\ AsksShared([service |-> service, resource |-> r.resource])
    \/ /\ way = "beside"
       /\ service \in DOMAIN Hidden
       /\ r.resource \in Hidden[service]
    \/ /\ way = "stranger"
       /\ RoleOnly([service |-> service, resource |-> r.resource, action |-> r.action])

(* T allows what S allows, rule by rule. *)
Wider(way, service, S, T) ==
    \A r \in S : r.allowed => r \in T \/ Spared(way, service, r)

(***************************************************************************)
(* One lemma for each table, in three steps: what of its checks y passes   *)
(* if x does, and for which ways; that checks are true or false; and with  *)
(* these each group of its rules, given what is left out of it.            *)
(***************************************************************************)
LEMMA BarbicanBoolean ==
  ASSUME NEW z
  PROVE  /\ Barbican!NewDefaults(z) \in BOOLEAN
         /\ Barbican!ManagesSecret(z) \in BOOLEAN
         /\ Barbican!ManagesContainer(z) \in BOOLEAN
         /\ Barbican!SystemAdmin(z) \in BOOLEAN
         /\ Barbican!ContainerAclRead(z) \in BOOLEAN
         /\ Barbican!SecretAclRead(z) \in BOOLEAN
         /\ Barbican!MemberRole(z) \in BOOLEAN
         /\ Barbican!OrderProjectMember(z) \in BOOLEAN
         /\ Barbican!ReaderRole(z) \in BOOLEAN
         /\ Barbican!SystemReader(z) \in BOOLEAN
         /\ Barbican!AdminRole(z) \in BOOLEAN
BY DEF Barbican!Role, Barbican!Is, Barbican!Same, Barbican!Literal, Barbican!AdminRole,
    Barbican!ReaderRole, Barbican!MemberRole, Barbican!SystemAdmin,
    Barbican!SystemReader, Barbican!SecretProjectMatch, Barbican!SecretProjectAdmin,
    Barbican!SecretProjectMember, Barbican!SecretOwner, Barbican!SecretIsNotPrivate,
    Barbican!ContainerProjectMatch, Barbican!ContainerProjectAdmin,
    Barbican!ContainerProjectMember, Barbican!ContainerOwner,
    Barbican!ContainerIsNotPrivate, Barbican!ContainerAclRead, Barbican!SecretAclRead,
    Barbican!OrderProjectMatch, Barbican!OrderProjectMember, Barbican!NewDefaults,
    Barbican!ManagesSecret, Barbican!ManagesContainer

LEMMA BarbicanWider ==
  ASSUME NEW way, NEW x, NEW y, Meets(way, x, y)
  PROVE  Wider(way, "barbican", Barbican!Rules(x), Barbican!Rules(y))
<1>1. /\ Barbican!NewDefaults(x) => Barbican!NewDefaults(y)
      /\ Barbican!ManagesSecret(x) => Barbican!ManagesSecret(y)
      /\ way # "beside" /\ Barbican!ManagesContainer(x) => Barbican!ManagesContainer(y)
      /\ Barbican!SystemAdmin(x) => Barbican!SystemAdmin(y)
      /\ Barbican!ContainerAclRead(x) => Barbican!ContainerAclRead(y)
      /\ Barbican!SecretAclRead(x) => Barbican!SecretAclRead(y)
      /\ way # "stranger" /\ Barbican!MemberRole(x) => Barbican!MemberRole(y)
      /\ Barbican!OrderProjectMember(x) => Barbican!OrderProjectMember(y)
      /\ way # "stranger" /\ Barbican!ReaderRole(x) => Barbican!ReaderRole(y)
      /\ Barbican!SystemReader(x) => Barbican!SystemReader(y)
      /\ Barbican!AdminRole(x) => Barbican!AdminRole(y)
  BY DEF Meets, Above, Beside, Stranger, Given, Refusals, Limit, Untold,
      OtherProjectKeys, SharedKeys, OwnProject, Same, Barbican!Role, Barbican!Is,
      Barbican!Same, Barbican!Literal, Barbican!AdminRole, Barbican!ReaderRole,
      Barbican!MemberRole, Barbican!SystemAdmin, Barbican!SystemReader,
      Barbican!SecretProjectMatch, Barbican!SecretProjectAdmin,
      Barbican!SecretProjectMember, Barbican!SecretOwner, Barbican!SecretIsNotPrivate,
      Barbican!ContainerProjectMatch, Barbican!ContainerProjectAdmin,
      Barbican!ContainerProjectMember, Barbican!ContainerOwner,
      Barbican!ContainerIsNotPrivate, Barbican!ContainerAclRead, Barbican!SecretAclRead,
      Barbican!OrderProjectMatch, Barbican!OrderProjectMember, Barbican!NewDefaults,
      Barbican!ManagesSecret, Barbican!ManagesContainer
<1>2. ASSUME NEW r
      PROVE  /\ way = "beside" /\ r.resource \in {"container", "consumer", "container_acls",
                   "container_consumers", "container_secret"}
              => Spared(way, "barbican", r)
             /\ way = "stranger"
                /\ r.resource \in {"containers", "orders", "quotas", "secrets",
                     "secretstore", "secretstores", "transport_key", "transport_keys"}
              => Spared(way, "barbican", r)
  BY DEF Spared, Hidden, RoleOnly
<1>3. Wider(way, "barbican", Barbican!AclsConsumersContainers(x),
                             Barbican!AclsConsumersContainers(y))
  BY <1>1, BarbicanBoolean, <1>2, SMT DEF Wider, Barbican!AclsConsumersContainers,
      Barbican!Reads, Barbican!Writes, Barbican!APIRules
<1>4. Wider(way, "barbican", Barbican!OrdersAndSecrets(x), Barbican!OrdersAndSecrets(y))
  BY <1>1, BarbicanBoolean, <1>2, SMT DEF Wider, Barbican!OrdersAndSecrets,
      Barbican!Reads, Barbican!Writes, Barbican!APIRules
<1>5. Wider(way, "barbican", Barbican!StoresAndKeys(x), Barbican!StoresAndKeys(y))
  BY <1>1, BarbicanBoolean, <1>2, SMT DEF Wider, Barbican!StoresAndKeys, Barbican!Reads,
      Barbican!Writes, Barbican!APIRules
<1>6. Wider(way, "barbican", Barbican!NamedMatches(x), Barbican!NamedMatches(y))
  <2>1. /\ Barbican!SecretProjectMatch(x) => Barbican!SecretProjectMatch(y)
        /\ Barbican!SecretProjectReader(x) => Barbican!SecretProjectReader(y)
        /\ Barbican!SecretProjectMember(x) => Barbican!SecretProjectMember(y)
        /\ Barbican!SecretProjectAdmin(x) => Barbican!SecretProjectAdmin(y)
        /\ Barbican!SecretOwner(x) => Barbican!SecretOwner(y)
        /\ way # "beside" /\ Barbican!SecretIsNotPrivate(x) =>
             Barbican!SecretIsNotPrivate(y)
        /\ Barbican!ContainerProjectMatch(x) => Barbican!ContainerProjectMatch(y)
        /\ Barbican!ContainerProjectMember(x) => Barbican!ContainerProjectMember(y)
        /\ Barbican!ContainerProjectAdmin(x) => Barbican!ContainerProjectAdmin(y)
        /\ way # "beside" /\ Barbican!ContainerOwner(x) => Barbican!ContainerOwner(y)
        /\ way # "beside" /\ Barbican!ContainerIsNotPrivate(x) =>
             Barbican!ContainerIsNotPrivate(y)
        /\ Barbican!OrderProjectMatch(x) => Barbican!OrderProjectMatch(y)
    BY DEF Meets, Above, Beside, Stranger, Given, Refusals, Limit, Untold,
        OtherProjectKeys, SharedKeys, OwnProject, Same, Barbican!Role, Barbican!Same,
        Barbican!Literal, Barbican!AdminRole, Barbican!ReaderRole, Barbican!MemberRole,
        Barbican!SecretProjectMatch, Barbican!SecretProjectAdmin,
        Barbican!SecretProjectMember, Barbican!SecretOwner, Barbican!SecretIsNotPrivate,
        Barbican!ContainerProjectMatch, Barbican!ContainerProjectAdmin,
        Barbican!ContainerProjectMember, Barbican!ContainerOwner,
        Barbican!ContainerIsNotPrivate, Barbican!OrderProjectMatch,
        Barbican!SecretProjectReader
  <2>2. ASSUME NEW z
        PROVE  /\ Barbican!SecretProjectMatch(z) \in BOOLEAN
               /\ Barbican!SecretProjectReader(z) \in BOOLEAN
               /\ Barbican!SecretProjectMember(z) \in BOOLEAN
               /\ Barbican!SecretProjectAdmin(z) \in BOOLEAN
               /\ Barbican!SecretOwner(z) \in BOOLEAN
               /\ Barbican!SecretIsNotPrivate(z) \in BOOLEAN
               /\ Barbican!ContainerProjectMatch(z) \in BOOLEAN
               /\ Barbican!ContainerProjectMember(z) \in BOOLEAN
               /\ Barbican!ContainerProjectAdmin(z) \in BOOLEAN
               /\ Barbican!ContainerOwner(z) \in BOOLEAN
               /\ Barbican!ContainerIsNotPrivate(z) \in BOOLEAN
               /\ Barbican!OrderProjectMatch(z) \in BOOLEAN
    BY DEF Barbican!Role, Barbican!Same, Barbican!Literal, Barbican!AdminRole,
        Barbican!ReaderRole, Barbican!MemberRole, Barbican!SecretProjectMatch,
        Barbican!SecretProjectAdmin, Barbican!SecretProjectMember, Barbican!SecretOwner,
        Barbican!SecretIsNotPrivate, Barbican!ContainerProjectMatch,
        Barbican!ContainerProjectAdmin, Barbican!ContainerProjectMember,
        Barbican!ContainerOwner, Barbican!ContainerIsNotPrivate,
        Barbican!OrderProjectMatch, Barbican!SecretProjectReader
  <2>3. ASSUME NEW r
        PROVE  /\ way = "beside" /\ r.resource \in {"secret_is_not_private",
                    "container_owner", "container_is_not_private"} =>
                    Spared(way, "barbican", r)
    BY DEF Spared, Hidden, AsksShared, ForbidsRole
  <2> QED
    BY <1>1, BarbicanBoolean, <2>1, <2>2, <2>3, SMT DEF Wider, Barbican!NamedMatches,
        Barbican!Checks, Barbican!APIRules
<1>7. Wider(way, "barbican", Barbican!NamedRoles(x), Barbican!NamedRoles(y))
  <2>1. /\ Barbican!Role(x, "audit") => Barbican!Role(y, "audit")
        /\ Barbican!Role(x, "observer") => Barbican!Role(y, "observer")
        /\ Barbican!Role(x, "creator") => Barbican!Role(y, "creator")
        /\ Barbican!Role(x, "key-manager:service-admin") =>
             Barbican!Role(y, "key-manager:service-admin")
        /\ Barbican!AllUsers(x) => Barbican!AllUsers(y)
        /\ Barbican!AllButAudit(x) => Barbican!AllButAudit(y)
        /\ Barbican!SecretOwner(x) => Barbican!SecretOwner(y)
        /\ way # "beside" /\ Barbican!SecretPrivateRead(x) =>
             Barbican!SecretPrivateRead(y)
        /\ Barbican!SecretProjectMatch(x) => Barbican!SecretProjectMatch(y)
        /\ way # "private" /\ Barbican!SecretPrivateRead(y) =>
             Barbican!SecretPrivateRead(x)
        /\ way # "beside" /\ Barbican!ContainerPrivateRead(x) =>
             Barbican!ContainerPrivateRead(y)
        /\ way # "beside" /\ Barbican!ContainerOwner(x) => Barbican!ContainerOwner(y)
        /\ Barbican!ContainerProjectMatch(x) => Barbican!ContainerProjectMatch(y)
        /\ way # "private" /\ Barbican!ContainerPrivateRead(y) =>
             Barbican!ContainerPrivateRead(x)
    BY DEF Meets, Above, Beside, Stranger, Given, Refusals, Limit, Untold,
        OtherProjectKeys, SharedKeys, OwnProject, Same, Barbican!Role, Barbican!Same,
        Barbican!Literal, Barbican!AdminRole, Barbican!SecretProjectMatch,
        Barbican!SecretOwner, Barbican!ContainerProjectMatch, Barbican!ContainerOwner,
        Barbican!AllButAudit, Barbican!AllUsers, Barbican!SecretPrivateRead,
        Barbican!ContainerPrivateRead
  <2>2. ASSUME NEW z
        PROVE  /\ Barbican!Role(z, "audit") \in BOOLEAN
               /\ Barbican!Role(z, "observer") \in BOOLEAN
               /\ Barbican!Role(z, "creator") \in BOOLEAN
               /\ Barbican!Role(z, "key-manager:service-admin") \in BOOLEAN
               /\ Barbican!AllUsers(z) \in BOOLEAN
               /\ Barbican!AllButAudit(z) \in BOOLEAN
               /\ Barbican!SecretOwner(z) \in BOOLEAN
               /\ Barbican!SecretPrivateRead(z) \in BOOLEAN
               /\ Barbican!SecretProjectMatch(z) \in BOOLEAN
               /\ Barbican!ContainerPrivateRead(z) \in BOOLEAN
               /\ Barbican!ContainerOwner(z) \in BOOLEAN
               /\ Barbican!ContainerProjectMatch(z) \in BOOLEAN
    BY DEF Barbican!Role, Barbican!Same, Barbican!Literal, Barbican!AdminRole,
        Barbican!SecretProjectMatch, Barbican!SecretOwner, Barbican!ContainerProjectMatch,
        Barbican!ContainerOwner, Barbican!AllButAudit, Barbican!AllUsers,
        Barbican!SecretPrivateRead, Barbican!ContainerPrivateRead
  <2>3. ASSUME NEW r
        PROVE  /\ way = "beside" /\ r.resource \in {"secret_private_read",
                    "container_private_read", "container_creator_user",
                    "container_project_creator"} => Spared(way, "barbican", r)
               /\ way = "private" /\ r.resource \in {"secret_non_private_read",
                    "secret_decrypt_non_private_read", "container_non_private_read"} =>
                    Spared(way, "barbican", r)
    BY DEF Spared, Hidden, AsksShared, ForbidsRole
  <2> QED
    BY <1>1, BarbicanBoolean, <2>1, <2>2, <2>3, SMT DEF Wider, Barbican!NamedRoles,
        Barbican!Checks, Barbican!APIRules
<1> QED
  BY <1>3, <1>4, <1>5, <1>6, <1>7 DEF Wider, Barbican!Rules

LEMMA CinderWider ==
  ASSUME NEW way, NEW x, NEW y, Meets(way, x, y)
  PROVE  Wider(way, "cinder", Cinder!Rules(x), Cinder!Rules(y))
<1>1. /\ Cinder!XenaSystemAdminOrProjectMember(x)
         => Cinder!XenaSystemAdminOrProjectMember(y)
      /\ Cinder!XenaSystemAdminOrProjectReader(x)
         => Cinder!XenaSystemAdminOrProjectReader(y)
      /\ Cinder!AdminApi(x) => Cinder!AdminApi(y)
  BY DEF Meets, Above, Beside, Stranger, Given, Refusals, Limit, Untold,
      OtherProjectKeys, SharedKeys, OwnProject, Same, Cinder!Role, Cinder!Is,
      Cinder!Same, Cinder!AdminRole, Cinder!ReaderRole, Cinder!MemberRole,
      Cinder!ContextAdmin, Cinder!OwnProject, Cinder!ProjectMember,
      Cinder!ProjectReader, Cinder!XenaSystemAdminOrProjectMember,
      Cinder!XenaSystemAdminOrProjectReader, Cinder!AdminApi
<1>2. ASSUME NEW z
      PROVE  /\ Cinder!XenaSystemAdminOrProjectMember(z) \in BOOLEAN
             /\ Cinder!XenaSystemAdminOrProjectReader(z) \in BOOLEAN
             /\ Cinder!AdminApi(z) \in BOOLEAN
  BY DEF Cinder!Role, Cinder!Is, Cinder!Same, Cinder!AdminRole, Cinder!ReaderRole,
      Cinder!MemberRole, Cinder!ContextAdmin, Cinder!OwnProject, Cinder!ProjectMember,
      Cinder!ProjectReader, Cinder!XenaSystemAdminOrProjectMember,
      Cinder!XenaSystemAdminOrProjectReader, Cinder!AdminApi
<1>3. Wider(way, "cinder", Cinder!AttachmentsAndSnapshots(x), Cinder!AttachmentsAndSnapshots(y))
  BY <1>1, <1>2, SMT DEF Wider, Cinder!AttachmentsAndSnapshots, Cinder!Reads,
      Cinder!Writes, Cinder!APIRules
<1>4. Wider(way, "cinder", Cinder!Backups(x), Cinder!Backups(y))
  BY <1>1, <1>2, SMT DEF Wider, Cinder!Backups, Cinder!Reads, Cinder!Writes,
      Cinder!APIRules
<1>5. Wider(way, "cinder", Cinder!Groups(x), Cinder!Groups(y))
  BY <1>1, <1>2, SMT DEF Wider, Cinder!Groups, Cinder!Reads, Cinder!Writes,
      Cinder!APIRules
<1>6. Wider(way, "cinder", Cinder!QosQuotasServices(x), Cinder!QosQuotasServices(y))
  BY <1>1, <1>2, SMT DEF Wider, Cinder!QosQuotasServices, Cinder!Reads, Cinder!Writes,
      Cinder!APIRules
<1>7. Wider(way, "cinder", Cinder!Types(x), Cinder!Types(y))
  BY <1>1, <1>2, SMT DEF Wider, Cinder!Types, Cinder!Reads, Cinder!Writes,
      Cinder!APIRules
<1>8. Wider(way, "cinder", Cinder!VolumeActions(x), Cinder!VolumeActions(y))
  BY <1>1, <1>2, SMT DEF Wider, Cinder!VolumeActions, Cinder!Reads, Cinder!Writes,
      Cinder!APIRules
<1>9. Wider(way, "cinder", Cinder!TransfersAndMetadata(x), Cinder!TransfersAndMetadata(y))
  BY <1>1, <1>2, SMT DEF Wider, Cinder!TransfersAndMetadata, Cinder!Reads,
      Cinder!Writes, Cinder!APIRules
<1>10. Wider(way, "cinder", Cinder!Volumes(x), Cinder!Volumes(y))
  BY <1>1, <1>2, SMT DEF Wider, Cinder!Volumes, Cinder!Reads, Cinder!Writes,
      Cinder!APIRules
<1>11. Wider(way, "cinder", Cinder!Defaults(x), Cinder!Defaults(y))
  BY <1>1, <1>2, SMT DEF Wider, Cinder!Defaults, Cinder!Reads, Cinder!Writes,
      Cinder!APIRules
<1>12. Wider(way, "cinder", Cinder!NamedChecks(x), Cinder!NamedChecks(y))
  <2>1. /\ Cinder!OwnProject(x) => Cinder!OwnProject(y)
        /\ Cinder!SystemAdmin(x) => Cinder!SystemAdmin(y)
        /\ Cinder!AdminRole(x) => Cinder!AdminRole(y)
        /\ Cinder!Same(x, "domain_id", "domain_id") =>
             Cinder!Same(y, "domain_id", "domain_id")
    BY DEF Meets, Above, Beside, Stranger, Given, Refusals, Limit, Untold,
        OtherProjectKeys, SharedKeys, OwnProject, Same, Cinder!Role, Cinder!Is,
        Cinder!Same, Cinder!AdminRole, Cinder!OwnProject, Cinder!SystemAdmin
  <2>2. ASSUME NEW z
        PROVE  /\ Cinder!OwnProject(z) \in BOOLEAN
               /\ Cinder!SystemAdmin(z) \in BOOLEAN
               /\ Cinder!AdminRole(z) \in BOOLEAN
               /\ Cinder!Same(z, "domain_id", "domain_id") \in BOOLEAN
    BY DEF Cinder!Role, Cinder!Is, Cinder!Same, Cinder!AdminRole, Cinder!OwnProject,
        Cinder!SystemAdmin
  <2> QED
    BY <1>1, <1>2, <2>1, <2>2, SMT DEF Wider, Cinder!NamedChecks, Cinder!Checks,
        Cinder!APIRules
<1> QED
  BY <1>3, <1>4, <1>5, <1>6, <1>7, <1>8, <1>9, <1>10, <1>11, <1>12 DEF Wider, Cinder!Rules

LEMMA DesignateWider ==
  ASSUME NEW way, NEW x, NEW y, Meets(way, x, y)
  PROVE  Wider(way, "designate", Designate!Rules(x), Designate!Rules(y))
<1>1. /\ Designate!AdminRole(x) => Designate!AdminRole(y)
      /\ Designate!AdminOrReader(x) => Designate!AdminOrReader(y)
      /\ Designate!Literal(x, "True", "all_tenants")
         => Designate!Literal(y, "True", "all_tenants")
      /\ way # "stranger" /\ Designate!ReaderRole(x) => Designate!ReaderRole(y)
      /\ way # "stranger" /\ Designate!Role(x, "member") => Designate!Role(y, "member")
      /\ Designate!OwnProject(x) => Designate!OwnProject(y)
      /\ way # "beside" /\ Designate!Literal(x, "PRIMARY", "zone_type")
         => Designate!Literal(y, "PRIMARY", "zone_type")
      /\ way # "beside" /\ Designate!Literal(x, "SECONDARY", "zone_type")
         => Designate!Literal(y, "SECONDARY", "zone_type")
      /\ Designate!Literal(x, "True", "zone_shared")
         => Designate!Literal(y, "True", "zone_shared")
      /\ way # "beside" /\ Designate!RecordsetWriter(x) => Designate!RecordsetWriter(y)
      /\ Designate!AdminOrMember(x) => Designate!AdminOrMember(y)
      /\ Designate!Anyone(x) => Designate!Anyone(y)
      /\ Designate!Same(x, "project_id", "target_project_id")
         => Designate!Same(y, "project_id", "target_project_id")
      /\ Designate!Literal(x, "None", "target_project_id")
         => Designate!Literal(y, "None", "target_project_id")
      /\ way = "stranger" => ~Designate!Literal(x, "True", "all_tenants")
      /\ way = "stranger" => ~Designate!OwnProject(x)
      /\ way = "stranger" => ~Designate!Same(x, "project_id", "target_project_id")
  BY DEF Meets, Above, Beside, Stranger, Given, Refusals, Limit, Untold,
      OtherProjectKeys, SharedKeys, OwnProject, Same, Designate!Role, Designate!Same,
      Designate!Literal, Designate!Anyone, Designate!AdminRole, Designate!ReaderRole,
      Designate!OwnProject, Designate!ProjectReader, Designate!AdminOrReader,
      Designate!AdminOrMember, Designate!RecordsetWriter
<1>2. ASSUME NEW z
      PROVE  /\ Designate!AdminRole(z) \in BOOLEAN
             /\ Designate!AdminOrReader(z) \in BOOLEAN
             /\ Designate!Literal(z, "True", "all_tenants") \in BOOLEAN
             /\ Designate!ReaderRole(z) \in BOOLEAN
             /\ Designate!Role(z, "member") \in BOOLEAN
             /\ Designate!OwnProject(z) \in BOOLEAN
             /\ Designate!Literal(z, "PRIMARY", "zone_type") \in BOOLEAN
             /\ Designate!Literal(z, "SECONDARY", "zone_type") \in BOOLEAN
             /\ Designate!Literal(z, "True", "zone_shared") \in BOOLEAN
             /\ Designate!RecordsetWriter(z) \in BOOLEAN
             /\ Designate!AdminOrMember(z) \in BOOLEAN
             /\ Designate!Anyone(z) \in BOOLEAN
             /\ Designate!Same(z, "project_id", "target_project_id") \in BOOLEAN
             /\ Designate!Literal(z, "None", "target_project_id") \in BOOLEAN
  BY DEF Designate!Role, Designate!Same, Designate!Literal, Designate!Anyone,
      Designate!AdminRole, Designate!ReaderRole, Designate!OwnProject,
      Designate!ProjectReader, Designate!AdminOrReader, Designate!AdminOrMember,
      Designate!RecordsetWriter
<1>3. ASSUME NEW r
      PROVE  /\ way = "beside" /\ r.resource \in {"recordset"}
              => Spared(way, "designate", r)
  BY DEF Spared, Hidden, RoleOnly
<1>4. Wider(way, "designate", Designate!Recordsets(x), Designate!Recordsets(y))
  BY <1>1, <1>2, <1>3, SMT DEF Wider, Designate!Recordsets, Designate!Reads,
      Designate!Writes, Designate!APIRules
<1>5. Wider(way, "designate", Designate!ZonesAndKeys(x), Designate!ZonesAndKeys(y))
  BY <1>1, <1>2, <1>3, SMT DEF Wider, Designate!ZonesAndKeys, Designate!Reads,
      Designate!Writes, Designate!APIRules
<1>6. Wider(way, "designate", Designate!Transfers(x), Designate!Transfers(y))
  BY <1>1, <1>2, <1>3, SMT DEF Wider, Designate!Transfers, Designate!Reads,
      Designate!Writes, Designate!APIRules
<1>7. Wider(way, "designate", Designate!NamedChecks(x), Designate!NamedChecks(y))
  <2>1. /\ Designate!ContextAdmin(x) => Designate!ContextAdmin(y)
        /\ Designate!Same(x, "project_id", "tenant_id") =>
             Designate!Same(y, "project_id", "tenant_id")
    BY DEF Meets, Above, Beside, Stranger, Given, Refusals, Limit, Untold,
        OtherProjectKeys, SharedKeys, OwnProject, Same, Designate!Is, Designate!Same,
        Designate!ContextAdmin
  <2>2. ASSUME NEW z
        PROVE  /\ Designate!ContextAdmin(z) \in BOOLEAN
               /\ Designate!Same(z, "project_id", "tenant_id") \in BOOLEAN
    BY DEF Designate!Is, Designate!Same, Designate!ContextAdmin
  <2> QED
    BY <1>1, <1>2, <2>1, <2>2, SMT DEF Wider, Designate!NamedChecks, Designate!Checks,
        Designate!APIRules
<1> QED
  BY <1>4, <1>5, <1>6, <1>7 DEF Wider, Designate!Rules

LEMMA GlanceWider ==
  ASSUME NEW way, NEW x, NEW y, Meets(way, x, y)
  PROVE  Wider(way, "glance", Glance!Rules(x), Glance!Rules(y))
<1>1. /\ Glance!AdminRole(x) => Glance!AdminRole(y)
      /\ Glance!ProjectMember(x) => Glance!ProjectMember(y)
      /\ Glance!Same(x, "project_id", "owner") => Glance!Same(y, "project_id", "owner")
      /\ Glance!AdminOrMember(x) => Glance!AdminOrMember(y)
      /\ way # "stranger" /\ Glance!ReaderRole(x) => Glance!ReaderRole(y)
      /\ Glance!OwnProject(x) => Glance!OwnProject(y)
      /\ Glance!Same(x, "project_id", "member_id")
         => Glance!Same(y, "project_id", "member_id")
      /\ way # "beside" /\ Glance!Literal(x, "community", "visibility")
         => Glance!Literal(y, "community", "visibility")
      /\ way # "beside" /\ Glance!Literal(x, "public", "visibility")
         => Glance!Literal(y, "public", "visibility")
      /\ way # "beside" /\ Glance!Literal(x, "shared", "visibility")
         => Glance!Literal(y, "shared", "visibility")
      /\ Glance!AdminOrReader(x) => Glance!AdminOrReader(y)
      /\ way # "stranger" /\ Glance!MemberRole(x) => Glance!MemberRole(y)
      /\ Glance!Default(x) => Glance!Default(y)
      /\ Glance!Visible(x) => Glance!Visible(y)
      /\ Glance!MetadefAdmin(x) => Glance!MetadefAdmin(y)
      /\ way = "stranger" => ~Glance!Same(x, "project_id", "owner")
      /\ way = "stranger" => ~Glance!OwnProject(x)
      /\ way = "stranger" => ~Glance!Same(x, "project_id", "member_id")
      /\ way = "stranger" => ~Glance!Literal(x, "community", "visibility")
      /\ way = "stranger" => ~Glance!Literal(x, "public", "visibility")
      /\ way = "stranger" => ~Glance!Literal(x, "shared", "visibility")
      /\ way = "beside" => Glance!OwnProject(y)
  BY DEF Meets, Above, Beside, Stranger, Given, Refusals, Limit, Untold,
      OtherProjectKeys, SharedKeys, OwnProject, Same, Glance!Role, Glance!Same,
      Glance!Literal, Glance!AdminRole, Glance!ReaderRole, Glance!MemberRole,
      Glance!OwnProject, Glance!ProjectMember, Glance!ProjectReader, Glance!Default,
      Glance!MetadefAdmin, Glance!AdminOrMember, Glance!AdminOrReader, Glance!Visible
<1>2. ASSUME NEW z
      PROVE  /\ Glance!AdminRole(z) \in BOOLEAN
             /\ Glance!ProjectMember(z) \in BOOLEAN
             /\ Glance!Same(z, "project_id", "owner") \in BOOLEAN
             /\ Glance!AdminOrMember(z) \in BOOLEAN
             /\ Glance!ReaderRole(z) \in BOOLEAN
             /\ Glance!OwnProject(z) \in BOOLEAN
             /\ Glance!Same(z, "project_id", "member_id") \in BOOLEAN
             /\ Glance!Literal(z, "community", "visibility") \in BOOLEAN
             /\ Glance!Literal(z, "public", "visibility") \in BOOLEAN
             /\ Glance!Literal(z, "shared", "visibility") \in BOOLEAN
             /\ Glance!AdminOrReader(z) \in BOOLEAN
             /\ Glance!MemberRole(z) \in BOOLEAN
             /\ Glance!Default(z) \in BOOLEAN
             /\ Glance!Visible(z) \in BOOLEAN
             /\ Glance!MetadefAdmin(z) \in BOOLEAN
  BY DEF Glance!Role, Glance!Same, Glance!Literal, Glance!AdminRole, Glance!ReaderRole,
      Glance!MemberRole, Glance!OwnProject, Glance!ProjectMember, Glance!ProjectReader,
      Glance!Default, Glance!MetadefAdmin, Glance!AdminOrMember, Glance!AdminOrReader,
      Glance!Visible
<1>3. Wider(way, "glance", Glance!Images(x), Glance!Images(y))
  BY <1>1, <1>2, SMT DEF Wider, Glance!Images, Glance!Reads, Glance!Writes,
      Glance!APIRules
<1>4. Wider(way, "glance", Glance!Metadefs(x), Glance!Metadefs(y))
  BY <1>1, <1>2, SMT DEF Wider, Glance!Metadefs, Glance!Reads, Glance!Writes,
      Glance!APIRules
<1>5. Wider(way, "glance", Glance!PropertiesTagsCache(x), Glance!PropertiesTagsCache(y))
  BY <1>1, <1>2, SMT DEF Wider, Glance!PropertiesTagsCache, Glance!Reads, Glance!Writes,
      Glance!APIRules
<1>6. Wider(way, "glance", Glance!NamedChecks(x), Glance!NamedChecks(y))
  BY <1>1, <1>2, SMT DEF Wider, Glance!NamedChecks, Glance!Checks, Glance!APIRules
<1> QED
  BY <1>3, <1>4, <1>5, <1>6 DEF Wider, Glance!Rules

LEMMA HeatWider ==
  ASSUME NEW way, NEW x, NEW y, Meets(way, x, y)
  PROVE  Wider(way, "heat", Heat!Rules(x), Heat!Rules(y))
<1>1. /\ Heat!StackWriter(x) => Heat!StackWriter(y)
      /\ Heat!StackReader(x) => Heat!StackReader(y)
      /\ Heat!Role(x, "heat_stack_user") => Heat!Role(y, "heat_stack_user")
      /\ Heat!OwnProject(x) => Heat!OwnProject(y)
      /\ Heat!SystemReader(x) => Heat!SystemReader(y)
  BY DEF Meets, Above, Beside, Stranger, Given, Refusals, Limit, Untold,
      OtherProjectKeys, SharedKeys, OwnProject, Same, Heat!Role, Heat!Is, Heat!Same,
      Heat!AdminRole, Heat!ReaderRole, Heat!MemberRole, Heat!OwnProject,
      Heat!ProjectMember, Heat!ProjectReader, Heat!SystemAdmin, Heat!SystemReader,
      Heat!StackWriter, Heat!StackReader
<1>2. ASSUME NEW z
      PROVE  /\ Heat!StackWriter(z) \in BOOLEAN
             /\ Heat!StackReader(z) \in BOOLEAN
             /\ Heat!Role(z, "heat_stack_user") \in BOOLEAN
             /\ Heat!OwnProject(z) \in BOOLEAN
             /\ Heat!SystemReader(z) \in BOOLEAN
  BY DEF Heat!Role, Heat!Is, Heat!Same, Heat!AdminRole, Heat!ReaderRole,
      Heat!MemberRole, Heat!OwnProject, Heat!ProjectMember, Heat!ProjectReader,
      Heat!SystemAdmin, Heat!SystemReader, Heat!StackWriter, Heat!StackReader
<1>3. Wider(way, "heat", Heat!ResourcesAndConfigs(x), Heat!ResourcesAndConfigs(y))
  BY <1>1, <1>2, SMT DEF Wider, Heat!ResourcesAndConfigs, Heat!Reads, Heat!Writes,
      Heat!APIRules
<1>4. Wider(way, "heat", Heat!Deployments(x), Heat!Deployments(y))
  BY <1>1, <1>2, SMT DEF Wider, Heat!Deployments, Heat!Reads, Heat!Writes, Heat!APIRules
<1>5. Wider(way, "heat", Heat!Stacks(x), Heat!Stacks(y))
  BY <1>1, <1>2, SMT DEF Wider, Heat!Stacks, Heat!Reads, Heat!Writes, Heat!APIRules
<1>6. Wider(way, "heat", Heat!Snapshots(x), Heat!Snapshots(y))
  BY <1>1, <1>2, SMT DEF Wider, Heat!Snapshots, Heat!Reads, Heat!Writes, Heat!APIRules
<1>7. Wider(way, "heat", Heat!NamedChecks(x), Heat!NamedChecks(y))
  <2>1. /\ Heat!AdminRole(x) => Heat!AdminRole(y)
        /\ Heat!Is(x, "is_admin_project", "True") =>
             Heat!Is(y, "is_admin_project", "True")
        /\ Heat!SystemAdmin(x) => Heat!SystemAdmin(y)
        /\ way # "granted" /\ Heat!Role(y, "heat_stack_user") =>
             Heat!Role(x, "heat_stack_user")
        /\ Heat!Nobody(x) => Heat!Nobody(y)
        /\ Heat!Anyone(x) => Heat!Anyone(y)
        /\ Heat!StackUser(x) => Heat!StackUser(y)
    BY DEF Meets, Above, Beside, Stranger, Given, Refusals, Limit, Untold,
        OtherProjectKeys, SharedKeys, OwnProject, Same, Heat!Role, Heat!Is, Heat!Same,
        Heat!Anyone, Heat!Nobody, Heat!AdminRole, Heat!ReaderRole, Heat!OwnProject,
        Heat!ProjectReader, Heat!SystemAdmin, Heat!SystemReader, Heat!StackReader,
        Heat!StackUser
  <2>2. ASSUME NEW z
        PROVE  /\ Heat!AdminRole(z) \in BOOLEAN
               /\ Heat!Is(z, "is_admin_project", "True") \in BOOLEAN
               /\ Heat!SystemAdmin(z) \in BOOLEAN
               /\ Heat!Role(z, "heat_stack_user") \in BOOLEAN
               /\ Heat!Nobody(z) \in BOOLEAN
               /\ Heat!Anyone(z) \in BOOLEAN
               /\ Heat!StackUser(z) \in BOOLEAN
    BY DEF Heat!Role, Heat!Is, Heat!Same, Heat!Anyone, Heat!Nobody, Heat!AdminRole,
        Heat!ReaderRole, Heat!OwnProject, Heat!ProjectReader, Heat!SystemAdmin,
        Heat!SystemReader, Heat!StackReader, Heat!StackUser
  <2>3. ASSUME NEW r
        PROVE  /\ way = "granted" /\ r.resource \in {"deny_stack_user"} =>
                    Spared(way, "heat", r)
    BY DEF Spared, Hidden, AsksShared, ForbidsRole
  <2> QED
    BY <1>1, <1>2, <2>1, <2>2, <2>3, SMT DEF Wider, Heat!NamedChecks, Heat!Checks,
        Heat!APIRules
<1> QED
  BY <1>3, <1>4, <1>5, <1>6, <1>7 DEF Wider, Heat!Rules

LEMMA IronicWider ==
  ASSUME NEW way, NEW x, NEW y, Meets(way, x, y)
  PROVE  Wider(way, "ironic", Ironic!Rules(x), Ironic!Rules(y))
<1>1. /\ Ironic!SystemAdmin(x) => Ironic!SystemAdmin(y)
      /\ Ironic!AdminRole(x) => Ironic!AdminRole(y)
      /\ way # "stranger" /\ Ironic!ReaderRole(x) => Ironic!ReaderRole(y)
      /\ Ironic!SystemReader(x) => Ironic!SystemReader(y)
      /\ Ironic!NodeReader(x) => Ironic!NodeReader(y)
      /\ Ironic!OwnerReader(x) => Ironic!OwnerReader(y)
      /\ Ironic!OwnerMember(x) => Ironic!OwnerMember(y)
      /\ Ironic!SystemMember(x) => Ironic!SystemMember(y)
      /\ Ironic!OwnerAdmin(x) => Ironic!OwnerAdmin(y)
      /\ Ironic!NodeMember(x) => Ironic!NodeMember(y)
      /\ Ironic!LesseeAdmin(x) => Ironic!LesseeAdmin(y)
      /\ Ironic!Same(x, "project_id", "node.owner")
         => Ironic!Same(y, "project_id", "node.owner")
      /\ Ironic!Anyone(x) => Ironic!Anyone(y)
      /\ Ironic!Same(x, "project_id", "allocation.owner")
         => Ironic!Same(y, "project_id", "allocation.owner")
      /\ way # "stranger" /\ Ironic!MemberRole(x) => Ironic!MemberRole(y)
      /\ Ironic!IsMember(x) => Ironic!IsMember(y)
      /\ Ironic!Role(x, "baremetal_admin") => Ironic!Role(y, "baremetal_admin")
      /\ Ironic!Is(x, "is_admin_project", "True")
         => Ironic!Is(y, "is_admin_project", "True")
      /\ way = "stranger" => ~Ironic!Same(x, "project_id", "node.owner")
      /\ way = "stranger" => ~Ironic!Same(x, "project_id", "allocation.owner")
  BY DEF Meets, Above, Beside, Stranger, Given, Refusals, Limit, Untold,
      OtherProjectKeys, SharedKeys, OwnProject, Same, Ironic!Role, Ironic!Is,
      Ironic!Same, Ironic!Anyone, Ironic!AdminRole, Ironic!ReaderRole,
      Ironic!MemberRole, Ironic!SystemAdmin, Ironic!SystemReader, Ironic!IsMember,
      Ironic!SystemMember, Ironic!OwnerAdmin, Ironic!LesseeAdmin, Ironic!NodeReader,
      Ironic!OwnerReader, Ironic!OwnerMember, Ironic!NodeMember
<1>2. ASSUME NEW z
      PROVE  /\ Ironic!SystemAdmin(z) \in BOOLEAN
             /\ Ironic!AdminRole(z) \in BOOLEAN
             /\ Ironic!ReaderRole(z) \in BOOLEAN
             /\ Ironic!SystemReader(z) \in BOOLEAN
             /\ Ironic!NodeReader(z) \in BOOLEAN
             /\ Ironic!OwnerReader(z) \in BOOLEAN
             /\ Ironic!OwnerMember(z) \in BOOLEAN
             /\ Ironic!SystemMember(z) \in BOOLEAN
             /\ Ironic!OwnerAdmin(z) \in BOOLEAN
             /\ Ironic!NodeMember(z) \in BOOLEAN
             /\ Ironic!LesseeAdmin(z) \in BOOLEAN
             /\ Ironic!Same(z, "project_id", "node.owner") \in BOOLEAN
             /\ Ironic!Anyone(z) \in BOOLEAN
             /\ Ironic!Same(z, "project_id", "allocation.owner") \in BOOLEAN
             /\ Ironic!MemberRole(z) \in BOOLEAN
             /\ Ironic!IsMember(z) \in BOOLEAN
             /\ Ironic!Role(z, "baremetal_admin") \in BOOLEAN
             /\ Ironic!Is(z, "is_admin_project", "True") \in BOOLEAN
  BY DEF Ironic!Role, Ironic!Is, Ironic!Same, Ironic!Anyone, Ironic!AdminRole,
      Ironic!ReaderRole, Ironic!MemberRole, Ironic!SystemAdmin, Ironic!SystemReader,
      Ironic!IsMember, Ironic!SystemMember, Ironic!OwnerAdmin, Ironic!LesseeAdmin,
      Ironic!NodeReader, Ironic!OwnerReader, Ironic!OwnerMember, Ironic!NodeMember
<1>3. ASSUME NEW r
      PROVE  /\ way = "stranger" /\ (r.action = "list" \/ r.resource = "allocation")
              => Spared(way, "ironic", r)
  BY DEF Spared, Hidden, RoleOnly
<1>4. Wider(way, "ironic", Ironic!Nodes(x), Ironic!Nodes(y))
  BY <1>1, <1>2, <1>3, SMT DEF Wider, Ironic!Nodes, Ironic!Reads, Ironic!Writes,
      Ironic!APIRules
<1>5. Wider(way, "ironic", Ironic!NodeStates(x), Ironic!NodeStates(y))
  BY <1>1, <1>2, <1>3, SMT DEF Wider, Ironic!NodeStates, Ironic!Reads, Ironic!Writes,
      Ironic!APIRules
<1>6. Wider(way, "ironic", Ironic!NodeParts(x), Ironic!NodeParts(y))
  BY <1>1, <1>2, <1>3, SMT DEF Wider, Ironic!NodeParts, Ironic!Reads, Ironic!Writes,
      Ironic!APIRules
<1>7. Wider(way, "ironic", Ironic!PortgroupsAndDrivers(x), Ironic!PortgroupsAndDrivers(y))
  BY <1>1, <1>2, <1>3, SMT DEF Wider, Ironic!PortgroupsAndDrivers, Ironic!Reads,
      Ironic!Writes, Ironic!APIRules
<1>8. Wider(way, "ironic", Ironic!VolumesAndAllocations(x), Ironic!VolumesAndAllocations(y))
  BY <1>1, <1>2, <1>3, SMT DEF Wider, Ironic!VolumesAndAllocations, Ironic!Reads,
      Ironic!Writes, Ironic!APIRules
<1>9. Wider(way, "ironic", Ironic!NamedChecks(x), Ironic!NamedChecks(y))
  <2>1. /\ Ironic!AdminApi(x) => Ironic!AdminApi(y)
        /\ Ironic!Is(x, "is_public_api", "True") => Ironic!Is(y, "is_public_api", "True")
        /\ Ironic!Nobody(x) => Ironic!Nobody(y)
        /\ Ironic!Role(x, "observer") => Ironic!Role(y, "observer")
        /\ Ironic!Role(x, "baremetal_observer") => Ironic!Role(y, "baremetal_observer")
        /\ Ironic!Same(x, "project_id", "node.lessee") =>
             Ironic!Same(y, "project_id", "node.lessee")
    BY DEF Meets, Above, Beside, Stranger, Given, Refusals, Limit, Untold,
        OtherProjectKeys, SharedKeys, OwnProject, Same, Ironic!Role, Ironic!Is,
        Ironic!Same, Ironic!Nobody, Ironic!AdminRole, Ironic!AdminApi
  <2>2. ASSUME NEW z
        PROVE  /\ Ironic!AdminApi(z) \in BOOLEAN
               /\ Ironic!Is(z, "is_public_api", "True") \in BOOLEAN
               /\ Ironic!Nobody(z) \in BOOLEAN
               /\ Ironic!Role(z, "observer") \in BOOLEAN
               /\ Ironic!Role(z, "baremetal_observer") \in BOOLEAN
               /\ Ironic!Same(z, "project_id", "node.lessee") \in BOOLEAN
    BY DEF Ironic!Role, Ironic!Is, Ironic!Same, Ironic!Nobody, Ironic!AdminRole,
        Ironic!AdminApi
  <2> QED
    BY <1>1, <1>2, <2>1, <2>2, SMT DEF Wider, Ironic!NamedChecks, Ironic!Checks,
        Ironic!APIRules
<1> QED
  BY <1>4, <1>5, <1>6, <1>7, <1>8, <1>9 DEF Wider, Ironic!Rules

LEMMA InspectorWider ==
  ASSUME NEW way, NEW x, NEW y, Meets(way, x, y)
  PROVE  Wider(way, "ironic_inspector", Inspector!Rules(x), Inspector!Rules(y))
<1>1. /\ Inspector!PublicApi(x) => Inspector!PublicApi(y)
      /\ Inspector!SystemReader(x) => Inspector!SystemReader(y)
      /\ Inspector!SystemAdmin(x) => Inspector!SystemAdmin(y)
  BY DEF Meets, Above, Beside, Stranger, Given, Refusals, Limit, Untold,
      OtherProjectKeys, SharedKeys, OwnProject, Same, Inspector!Role, Inspector!Is,
      Inspector!AdminRole, Inspector!ReaderRole, Inspector!SystemAdmin,
      Inspector!SystemReader, Inspector!PublicApi
<1>2. ASSUME NEW z
      PROVE  /\ Inspector!PublicApi(z) \in BOOLEAN
             /\ Inspector!SystemReader(z) \in BOOLEAN
             /\ Inspector!SystemAdmin(z) \in BOOLEAN
  BY DEF Inspector!Role, Inspector!Is, Inspector!AdminRole, Inspector!ReaderRole,
      Inspector!SystemAdmin, Inspector!SystemReader, Inspector!PublicApi
<1>3. Wider(way, "ironic_inspector", Inspector!Introspection(x), Inspector!Introspection(y))
  BY <1>1, <1>2, SMT DEF Wider, Inspector!Introspection, Inspector!Reads,
      Inspector!Writes, Inspector!APIRules
<1>4. Wider(way, "ironic_inspector", Inspector!NamedChecks(x), Inspector!NamedChecks(y))
  <2>1. /\ Inspector!AdminRole(x) => Inspector!AdminRole(y)
        /\ Inspector!Role(x, "administrator") => Inspector!Role(y, "administrator")
        /\ Inspector!Role(x, "baremetal_admin") => Inspector!Role(y, "baremetal_admin")
        /\ Inspector!Role(x, "baremetal_observer") =>
             Inspector!Role(y, "baremetal_observer")
        /\ Inspector!Nobody(x) => Inspector!Nobody(y)
    BY DEF Meets, Above, Beside, Stranger, Given, Refusals, Limit, Untold,
        OtherProjectKeys, SharedKeys, OwnProject, Same, Inspector!Role, Inspector!Nobody,
        Inspector!AdminRole
  <2>2. ASSUME NEW z
        PROVE  /\ Inspector!AdminRole(z) \in BOOLEAN
               /\ Inspector!Role(z, "administrator") \in BOOLEAN
               /\ Inspector!Role(z, "baremetal_admin") \in BOOLEAN
               /\ Inspector!Role(z, "baremetal_observer") \in BOOLEAN
               /\ Inspector!Nobody(z) \in BOOLEAN
    BY DEF Inspector!Role, Inspector!Nobody, Inspector!AdminRole
  <2> QED
    BY <1>1, <1>2, <2>1, <2>2, SMT DEF Wider, Inspector!NamedChecks, Inspector!Checks,
        Inspector!APIRules
<1> QED
  BY <1>3, <1>4 DEF Wider, Inspector!Rules

LEMMA KeystoneBoolean ==
  ASSUME NEW z
  PROVE  /\ Keystone!SystemReader(z) \in BOOLEAN
         /\ Keystone!Same(z, "user_id", "target.user.id") \in BOOLEAN
         /\ Keystone!SystemAdmin(z) \in BOOLEAN
         /\ Keystone!AdminRequired(z) \in BOOLEAN
         /\ Keystone!Owner(z) \in BOOLEAN
         /\ Keystone!Same(z, "user_id", "user_id") \in BOOLEAN
         /\ Keystone!Anyone(z) \in BOOLEAN
         /\ Keystone!Same(z, "user_id", "target.credential.user_id") \in BOOLEAN
         /\ Keystone!Same(z, "token.domain.id", "target.domain.id") \in BOOLEAN
         /\ Keystone!Same(z, "token.project.domain.id", "target.domain.id") \in BOOLEAN
         /\ Keystone!ReaderInDomains(z) \in BOOLEAN
         /\ Keystone!RoleInDomain(z) \in BOOLEAN
         /\ Keystone!AdminInDomains(z) \in BOOLEAN
         /\ Keystone!ReaderRole(z) \in BOOLEAN
         /\ Keystone!Same(z, "domain_id", "target.group.domain_id") \in BOOLEAN
         /\ Keystone!Same(z, "domain_id", "target.user.domain_id") \in BOOLEAN
         /\ Keystone!AdminRole(z) \in BOOLEAN
         /\ Keystone!WritesMembership(z) \in BOOLEAN
         /\ Keystone!Same(z, "domain_id", "target.limit.domain.id") \in BOOLEAN
         /\ Keystone!Same(z, "domain_id", "target.limit.project.domain_id") \in BOOLEAN
         /\ Keystone!Same(z, "project_id", "target.limit.project_id") \in BOOLEAN
         /\ Keystone!Literal(z, "None", "target.limit.project_id") \in BOOLEAN
         /\ Keystone!ReadsProject(z) \in BOOLEAN
         /\ Keystone!ReadsDomainRole(z) \in BOOLEAN
         /\ Keystone!Same(z, "domain_id", "target.project.domain_id") \in BOOLEAN
         /\ Keystone!WritesTags(z) \in BOOLEAN
         /\ Keystone!ServiceOrAdmin(z) \in BOOLEAN
         /\ Keystone!Same(z, "project_id", "target.project.id") \in BOOLEAN
         /\ Keystone!TokenSubject(z) \in BOOLEAN
         /\ Keystone!ServiceRole(z) \in BOOLEAN
         /\ Keystone!Same(z, "user_id", "trust.trustor_user_id") \in BOOLEAN
         /\ Keystone!Same(z, "user_id", "target.trust.trustor_user_id") \in BOOLEAN
         /\ Keystone!Same(z, "user_id", "target.trust.trustee_user_id") \in BOOLEAN
         /\ Keystone!Same(z, "token.domain.id", "target.user.domain_id") \in BOOLEAN
         /\ Keystone!WritesUser(z) \in BOOLEAN
BY DEF Keystone!Role, Keystone!Is, Keystone!Same, Keystone!Literal, Keystone!Anyone,
    Keystone!AdminRole, Keystone!ReaderRole, Keystone!SystemAdmin,
    Keystone!SystemReader, Keystone!AdminRequired, Keystone!Owner, Keystone!ServiceRole,
    Keystone!ServiceOrAdmin, Keystone!TokenSubject, Keystone!ReaderInDomains,
    Keystone!AdminInDomains, Keystone!RoleInDomain, Keystone!WritesUser,
    Keystone!WritesMembership, Keystone!ReadsProject, Keystone!WritesTags,
    Keystone!ReadsDomainRole

LEMMA KeystoneWider ==
  ASSUME NEW way, NEW x, NEW y, Meets(way, x, y)
  PROVE  Wider(way, "keystone", Keystone!Rules(x), Keystone!Rules(y))
<1>1. /\ Keystone!SystemReader(x) => Keystone!SystemReader(y)
      /\ Keystone!Same(x, "user_id", "target.user.id")
         => Keystone!Same(y, "user_id", "target.user.id")
      /\ Keystone!SystemAdmin(x) => Keystone!SystemAdmin(y)
      /\ Keystone!AdminRequired(x) => Keystone!AdminRequired(y)
      /\ Keystone!Owner(x) => Keystone!Owner(y)
      /\ Keystone!Same(x, "user_id", "user_id") => Keystone!Same(y, "user_id", "user_id")
      /\ Keystone!Anyone(x) => Keystone!Anyone(y)
      /\ Keystone!Same(x, "user_id", "target.credential.user_id")
         => Keystone!Same(y, "user_id", "target.credential.user_id")
      /\ Keystone!Same(x, "token.domain.id", "target.domain.id")
         => Keystone!Same(y, "token.domain.id", "target.domain.id")
      /\ Keystone!Same(x, "token.project.domain.id", "target.domain.id")
         => Keystone!Same(y, "token.project.domain.id", "target.domain.id")
      /\ Keystone!ReaderInDomains(x) => Keystone!ReaderInDomains(y)
      /\ Keystone!RoleInDomain(x) => Keystone!RoleInDomain(y)
      /\ Keystone!AdminInDomains(x) => Keystone!AdminInDomains(y)
      /\ way # "stranger" /\ Keystone!ReaderRole(x) => Keystone!ReaderRole(y)
      /\ Keystone!Same(x, "domain_id", "target.group.domain_id")
         => Keystone!Same(y, "domain_id", "target.group.domain_id")
      /\ Keystone!Same(x, "domain_id", "target.user.domain_id")
         => Keystone!Same(y, "domain_id", "target.user.domain_id")
      /\ Keystone!AdminRole(x) => Keystone!AdminRole(y)
      /\ Keystone!WritesMembership(x) => Keystone!WritesMembership(y)
      /\ Keystone!Same(x, "domain_id", "target.limit.domain.id")
         => Keystone!Same(y, "domain_id", "target.limit.domain.id")
      /\ Keystone!Same(x, "domain_id", "target.limit.project.domain_id")
         => Keystone!Same(y, "domain_id", "target.limit.project.domain_id")
      /\ way # "beside" /\ Keystone!Same(x, "project_id", "target.limit.project_id")
         => Keystone!Same(y, "project_id", "target.limit.project_id")
      /\ way # "beside" /\ Keystone!Literal(y, "None", "target.limit.project_id")
         => Keystone!Literal(x, "None", "target.limit.project_id")
      /\ Keystone!ReadsProject(x) => Keystone!ReadsProject(y)
      /\ Keystone!ReadsDomainRole(x) => Keystone!ReadsDomainRole(y)
      /\ Keystone!Same(x, "domain_id", "target.project.domain_id")
         => Keystone!Same(y, "domain_id", "target.project.domain_id")
      /\ Keystone!WritesTags(x) => Keystone!WritesTags(y)
      /\ Keystone!ServiceOrAdmin(x) => Keystone!ServiceOrAdmin(y)
      /\ Keystone!Same(x, "project_id", "target.project.id")
         => Keystone!Same(y, "project_id", "target.project.id")
      /\ Keystone!TokenSubject(x) => Keystone!TokenSubject(y)
      /\ Keystone!ServiceRole(x) => Keystone!ServiceRole(y)
      /\ Keystone!Same(x, "user_id", "trust.trustor_user_id")
         => Keystone!Same(y, "user_id", "trust.trustor_user_id")
      /\ Keystone!Same(x, "user_id", "target.trust.trustor_user_id")
         => Keystone!Same(y, "user_id", "target.trust.trustor_user_id")
      /\ Keystone!Same(x, "user_id", "target.trust.trustee_user_id")
         => Keystone!Same(y, "user_id", "target.trust.trustee_user_id")
      /\ Keystone!Same(x, "token.domain.id", "target.user.domain_id")
         => Keystone!Same(y, "token.domain.id", "target.user.domain_id")
      /\ Keystone!WritesUser(x) => Keystone!WritesUser(y)
      /\ way = "stranger" => ~Keystone!Same(x, "user_id", "target.user.id")
      /\ way = "stranger" => ~Keystone!Same(x, "user_id", "user_id")
      /\ way = "stranger" => ~Keystone!Same(x, "user_id", "target.credential.user_id")
      /\ way = "stranger" => ~Keystone!Same(x, "token.domain.id", "target.domain.id")
      /\ way = "stranger"
         => ~Keystone!Same(x, "token.project.domain.id", "target.domain.id")
      /\ way = "stranger" => ~Keystone!Same(x, "domain_id", "target.group.domain_id")
      /\ way = "stranger" => ~Keystone!Same(x, "domain_id", "target.user.domain_id")
      /\ way = "stranger" => ~Keystone!Same(x, "domain_id", "target.limit.domain.id")
      /\ way = "stranger"
         => ~Keystone!Same(x, "domain_id", "target.limit.project.domain_id")
      /\ way = "stranger" => ~Keystone!Same(x, "project_id", "target.limit.project_id")
      /\ way = "stranger" => ~Keystone!Same(x, "domain_id", "target.project.domain_id")
      /\ way = "stranger" => ~Keystone!Same(x, "project_id", "target.project.id")
      /\ way = "stranger" => ~Keystone!Same(x, "user_id", "trust.trustor_user_id")
      /\ way = "stranger" => ~Keystone!Same(x, "user_id", "target.trust.trustor_user_id")
      /\ way = "stranger" => ~Keystone!Same(x, "user_id", "target.trust.trustee_user_id")
      /\ way = "stranger" => ~Keystone!Same(x, "token.domain.id", "target.user.domain_id")
  BY DEF Meets, Above, Beside, Stranger, Given, Refusals, Limit, Untold,
      OtherProjectKeys, SharedKeys, OwnProject, Same, Keystone!Role, Keystone!Is,
      Keystone!Same, Keystone!Literal, Keystone!Anyone, Keystone!AdminRole,
      Keystone!ReaderRole, Keystone!SystemAdmin, Keystone!SystemReader,
      Keystone!AdminRequired, Keystone!Owner, Keystone!ServiceRole,
      Keystone!ServiceOrAdmin, Keystone!TokenSubject, Keystone!ReaderInDomains,
      Keystone!AdminInDomains, Keystone!RoleInDomain, Keystone!WritesUser,
      Keystone!WritesMembership, Keystone!ReadsProject, Keystone!WritesTags,
      Keystone!ReadsDomainRole
<1>2. ASSUME NEW r
      PROVE  /\ way = "beside" /\ r.resource \in {"limit"}
              => Spared(way, "keystone", r)
  BY DEF Spared, Hidden, RoleOnly
<1>3. Wider(way, "keystone", Keystone!Credentials(x), Keystone!Credentials(y))
  BY <1>1, KeystoneBoolean, <1>2, SMT DEF Wider, Keystone!Credentials, Keystone!Reads,
      Keystone!Writes, Keystone!APIRules
<1>4. Wider(way, "keystone", Keystone!ConsumersAndDomains(x), Keystone!ConsumersAndDomains(y))
  BY <1>1, KeystoneBoolean, <1>2, SMT DEF Wider, Keystone!ConsumersAndDomains,
      Keystone!Reads, Keystone!Writes, Keystone!APIRules
<1>5. Wider(way, "keystone", Keystone!Endpoints(x), Keystone!Endpoints(y))
  BY <1>1, KeystoneBoolean, <1>2, SMT DEF Wider, Keystone!Endpoints, Keystone!Reads,
      Keystone!Writes, Keystone!APIRules
<1>6. Wider(way, "keystone", Keystone!GrantsAndGroups(x), Keystone!GrantsAndGroups(y))
  BY <1>1, KeystoneBoolean, <1>2, SMT DEF Wider, Keystone!GrantsAndGroups,
      Keystone!Reads, Keystone!Writes, Keystone!APIRules
<1>7. Wider(way, "keystone", Keystone!ProvidersAndLimits(x), Keystone!ProvidersAndLimits(y))
  BY <1>1, KeystoneBoolean, <1>2, SMT DEF Wider, Keystone!ProvidersAndLimits,
      Keystone!Reads, Keystone!Writes, Keystone!APIRules
<1>8. Wider(way, "keystone", Keystone!MappingsAndPolicies(x), Keystone!MappingsAndPolicies(y))
  BY <1>1, KeystoneBoolean, <1>2, SMT DEF Wider, Keystone!MappingsAndPolicies,
      Keystone!Reads, Keystone!Writes, Keystone!APIRules
<1>9. Wider(way, "keystone", Keystone!Projects(x), Keystone!Projects(y))
  BY <1>1, KeystoneBoolean, <1>2, SMT DEF Wider, Keystone!Projects, Keystone!Reads,
      Keystone!Writes, Keystone!APIRules
<1>10. Wider(way, "keystone", Keystone!RegionsAndRoles(x), Keystone!RegionsAndRoles(y))
  BY <1>1, KeystoneBoolean, <1>2, SMT DEF Wider, Keystone!RegionsAndRoles,
      Keystone!Reads, Keystone!Writes, Keystone!APIRules
<1>11. Wider(way, "keystone", Keystone!ServicesAndTokens(x), Keystone!ServicesAndTokens(y))
  BY <1>1, KeystoneBoolean, <1>2, SMT DEF Wider, Keystone!ServicesAndTokens,
      Keystone!Reads, Keystone!Writes, Keystone!APIRules
<1>12. Wider(way, "keystone", Keystone!TrustsAndUsers(x), Keystone!TrustsAndUsers(y))
  BY <1>1, KeystoneBoolean, <1>2, SMT DEF Wider, Keystone!TrustsAndUsers,
      Keystone!Reads, Keystone!Writes, Keystone!APIRules
<1>13. Wider(way, "keystone", Keystone!NamedChecks(x), Keystone!NamedChecks(y))
  BY <1>1, KeystoneBoolean, SMT DEF Wider, Keystone!NamedChecks, Keystone!Checks,
      Keystone!APIRules
<1> QED
  BY <1>3, <1>4, <1>5, <1>6, <1>7, <1>8, <1>9, <1>10, <1>11, <1>12, <1>13 DEF Wider,
      Keystone!Rules

LEMMA MagnumWider ==
  ASSUME NEW way, NEW x, NEW y, Meets(way, x, y)
  PROVE  Wider(way, "magnum", Magnum!Rules(x), Magnum!Rules(y))
<1>1. /\ Magnum!DenyClusterUser(x) => Magnum!DenyClusterUser(y)
      /\ Magnum!AdminApi(x) => Magnum!AdminApi(y)
      /\ Magnum!AdminOrUser(x) => Magnum!AdminOrUser(y)
      /\ Magnum!ClusterUser(x) => Magnum!ClusterUser(y)
      /\ Magnum!AdminOrOwner(x) => Magnum!AdminOrOwner(y)
  BY DEF Meets, Above, Beside, Stranger, Given, Refusals, Limit, Untold,
      OtherProjectKeys, SharedKeys, OwnProject, Same, Magnum!Role, Magnum!Is,
      Magnum!Same, Magnum!AdminRole, Magnum!ContextAdmin, Magnum!OwnProject,
      Magnum!DenyClusterUser, Magnum!ContextIsAdmin, Magnum!AdminApi,
      Magnum!AdminOrUser, Magnum!ClusterUser, Magnum!AdminOrOwner
<1>2. ASSUME NEW z
      PROVE  /\ Magnum!DenyClusterUser(z) \in BOOLEAN
             /\ Magnum!AdminApi(z) \in BOOLEAN
             /\ Magnum!AdminOrUser(z) \in BOOLEAN
             /\ Magnum!ClusterUser(z) \in BOOLEAN
             /\ Magnum!AdminOrOwner(z) \in BOOLEAN
  BY DEF Magnum!Role, Magnum!Is, Magnum!Same, Magnum!AdminRole, Magnum!ContextAdmin,
      Magnum!OwnProject, Magnum!DenyClusterUser, Magnum!ContextIsAdmin, Magnum!AdminApi,
      Magnum!AdminOrUser, Magnum!ClusterUser, Magnum!AdminOrOwner
<1>3. Wider(way, "magnum", Magnum!BaysAndModels(x), Magnum!BaysAndModels(y))
  BY <1>1, <1>2, SMT DEF Wider, Magnum!BaysAndModels, Magnum!Reads, Magnum!Writes,
      Magnum!APIRules
<1>4. Wider(way, "magnum", Magnum!Clusters(x), Magnum!Clusters(y))
  BY <1>1, <1>2, SMT DEF Wider, Magnum!Clusters, Magnum!Reads, Magnum!Writes,
      Magnum!APIRules
<1>5. Wider(way, "magnum", Magnum!Templates(x), Magnum!Templates(y))
  BY <1>1, <1>2, SMT DEF Wider, Magnum!Templates, Magnum!Reads, Magnum!Writes,
      Magnum!APIRules
<1>6. Wider(way, "magnum", Magnum!NodegroupsAndQuotas(x), Magnum!NodegroupsAndQuotas(y))
  BY <1>1, <1>2, SMT DEF Wider, Magnum!NodegroupsAndQuotas, Magnum!Reads, Magnum!Writes,
      Magnum!APIRules
<1>7. Wider(way, "magnum", Magnum!NamedChecks(x), Magnum!NamedChecks(y))
  <2>1. /\ Magnum!ContextIsAdmin(x) => Magnum!ContextIsAdmin(y)
    BY DEF Meets, Above, Beside, Stranger, Given, Refusals, Limit, Untold,
        OtherProjectKeys, SharedKeys, OwnProject, Same, Magnum!Role, Magnum!AdminRole,
        Magnum!ContextIsAdmin
  <2>2. ASSUME NEW z
        PROVE  /\ Magnum!ContextIsAdmin(z) \in BOOLEAN
    BY DEF Magnum!Role, Magnum!AdminRole, Magnum!ContextIsAdmin
  <2> QED
    BY <1>1, <1>2, <2>1, <2>2, SMT DEF Wider, Magnum!NamedChecks, Magnum!Checks,
        Magnum!APIRules
<1> QED
  BY <1>3, <1>4, <1>5, <1>6, <1>7 DEF Wider, Magnum!Rules

LEMMA ManilaWider ==
  ASSUME NEW way, NEW x, NEW y, Meets(way, x, y)
  PROVE  Wider(way, "manila", Manila!Rules(x), Manila!Rules(y))
<1>1. /\ Manila!ContextIsAdmin(x) => Manila!ContextIsAdmin(y)
      /\ Manila!ProjectReader(x) => Manila!ProjectReader(y)
      /\ Manila!ProjectMember(x) => Manila!ProjectMember(y)
  BY DEF Meets, Above, Beside, Stranger, Given, Refusals, Limit, Untold,
      OtherProjectKeys, SharedKeys, OwnProject, Same, Manila!Role, Manila!Same,
      Manila!AdminRole, Manila!ReaderRole, Manila!MemberRole, Manila!OwnProject,
      Manila!ProjectMember, Manila!ProjectReader, Manila!ContextIsAdmin
<1>2. ASSUME NEW z
      PROVE  /\ Manila!ContextIsAdmin(z) \in BOOLEAN
             /\ Manila!ProjectReader(z) \in BOOLEAN
             /\ Manila!ProjectMember(z) \in BOOLEAN
  BY DEF Manila!Role, Manila!Same, Manila!AdminRole, Manila!ReaderRole,
      Manila!MemberRole, Manila!OwnProject, Manila!ProjectMember, Manila!ProjectReader,
      Manila!ContextIsAdmin
<1>3. Wider(way, "manila", Manila!Pools(x), Manila!Pools(y))
  BY <1>1, <1>2, SMT DEF Wider, Manila!Pools, Manila!Reads, Manila!APIRules
<1>4. Wider(way, "manila", Manila!Shares(x), Manila!Shares(y))
  BY <1>1, <1>2, SMT DEF Wider, Manila!Shares, Manila!Reads, Manila!Writes,
      Manila!APIRules
<1>5. Wider(way, "manila", Manila!ShareMetadata(x), Manila!ShareMetadata(y))
  BY <1>1, <1>2, SMT DEF Wider, Manila!ShareMetadata, Manila!Reads, Manila!Writes,
      Manila!APIRules
<1>6. Wider(way, "manila", Manila!ShareTypes(x), Manila!ShareTypes(y))
  BY <1>1, <1>2, SMT DEF Wider, Manila!ShareTypes, Manila!Reads, Manila!Writes,
      Manila!APIRules
<1>7. Wider(way, "manila", Manila!ShareSnapshots(x), Manila!ShareSnapshots(y))
  BY <1>1, <1>2, SMT DEF Wider, Manila!ShareSnapshots, Manila!Reads, Manila!Writes,
      Manila!APIRules
<1>8. Wider(way, "manila", Manila!ShareServersAndQuotas(x), Manila!ShareServersAndQuotas(y))
  BY <1>1, <1>2, SMT DEF Wider, Manila!ShareServersAndQuotas, Manila!Reads,
      Manila!Writes, Manila!APIRules
<1>9. Wider(way, "manila", Manila!ShareGroupTypes(x), Manila!ShareGroupTypes(y))
  BY <1>1, <1>2, SMT DEF Wider, Manila!ShareGroupTypes, Manila!Reads, Manila!Writes,
      Manila!APIRules
<1>10. Wider(way, "manila", Manila!GroupsAndReplicas(x), Manila!GroupsAndReplicas(y))
  BY <1>1, <1>2, SMT DEF Wider, Manila!GroupsAndReplicas, Manila!Reads, Manila!Writes,
      Manila!APIRules
<1>11. Wider(way, "manila", Manila!ShareNetworks(x), Manila!ShareNetworks(y))
  BY <1>1, <1>2, SMT DEF Wider, Manila!ShareNetworks, Manila!Reads, Manila!Writes,
      Manila!APIRules
<1>12. Wider(way, "manila", Manila!SecurityServicesAndInstances(x),
                            Manila!SecurityServicesAndInstances(y))
  BY <1>1, <1>2, SMT DEF Wider, Manila!SecurityServicesAndInstances, Manila!Reads,
      Manila!Writes, Manila!APIRules
<1>13. Wider(way, "manila", Manila!NamedChecks(x), Manila!NamedChecks(y))
  <2>1. /\ Manila!AdminRole(x) => Manila!AdminRole(y)
        /\ Manila!OwnProject(x) => Manila!OwnProject(y)
        /\ Manila!ContextAdmin(x) => Manila!ContextAdmin(y)
    BY DEF Meets, Above, Beside, Stranger, Given, Refusals, Limit, Untold,
        OtherProjectKeys, SharedKeys, OwnProject, Same, Manila!Role, Manila!Is,
        Manila!Same, Manila!AdminRole, Manila!ContextAdmin, Manila!OwnProject
  <2>2. ASSUME NEW z
        PROVE  /\ Manila!AdminRole(z) \in BOOLEAN
               /\ Manila!OwnProject(z) \in BOOLEAN
               /\ Manila!ContextAdmin(z) \in BOOLEAN
    BY DEF Manila!Role, Manila!Is, Manila!Same, Manila!AdminRole, Manila!ContextAdmin,
        Manila!OwnProject
  <2> QED
    BY <1>1, <1>2, <2>1, <2>2, SMT DEF Wider, Manila!NamedChecks, Manila!Checks,
        Manila!APIRules
<1> QED
  BY <1>3, <1>4, <1>5, <1>6, <1>7, <1>8, <1>9, <1>10, <1>11, <1>12, <1>13 DEF Wider,
      Manila!Rules

LEMMA MasakariWider ==
  ASSUME NEW way, NEW x, NEW y, Meets(way, x, y)
  PROVE  Wider(way, "masakari", Masakari!Rules(x), Masakari!Rules(y))
<1>1. /\ Masakari!AdminApi(x) => Masakari!AdminApi(y)
      /\ Masakari!Anyone(x) => Masakari!Anyone(y)
  BY DEF Meets, Above, Beside, Stranger, Given, Refusals, Limit, Untold,
      OtherProjectKeys, SharedKeys, OwnProject, Same, Masakari!Is, Masakari!Anyone,
      Masakari!ContextAdmin, Masakari!AdminApi
<1>2. ASSUME NEW z
      PROVE  /\ Masakari!AdminApi(z) \in BOOLEAN
             /\ Masakari!Anyone(z) \in BOOLEAN
  BY DEF Masakari!Is, Masakari!Anyone, Masakari!ContextAdmin, Masakari!AdminApi
<1>3. Wider(way, "masakari", Masakari!Segments(x), Masakari!Segments(y))
  BY <1>1, <1>2, SMT DEF Wider, Masakari!Segments, Masakari!Reads, Masakari!Writes,
      Masakari!APIRules
<1>4. Wider(way, "masakari", Masakari!NamedChecks(x), Masakari!NamedChecks(y))
  <2>1. /\ Masakari!AdminRole(x) => Masakari!AdminRole(y)
        /\ Masakari!ContextAdmin(x) => Masakari!ContextAdmin(y)
        /\ Masakari!OwnProject(x) => Masakari!OwnProject(y)
    BY DEF Meets, Above, Beside, Stranger, Given, Refusals, Limit, Untold,
        OtherProjectKeys, SharedKeys, OwnProject, Same, Masakari!Role, Masakari!Is,
        Masakari!Same, Masakari!AdminRole, Masakari!ContextAdmin, Masakari!OwnProject
  <2>2. ASSUME NEW z
        PROVE  /\ Masakari!AdminRole(z) \in BOOLEAN
               /\ Masakari!ContextAdmin(z) \in BOOLEAN
               /\ Masakari!OwnProject(z) \in BOOLEAN
    BY DEF Masakari!Role, Masakari!Is, Masakari!Same, Masakari!AdminRole,
        Masakari!ContextAdmin, Masakari!OwnProject
  <2> QED
    BY <1>1, <1>2, <2>1, <2>2, SMT DEF Wider, Masakari!NamedChecks, Masakari!Checks,
        Masakari!APIRules
<1> QED
  BY <1>3, <1>4 DEF Wider, Masakari!Rules

LEMMA NeutronWider ==
  ASSUME NEW way, NEW x, NEW y, Meets(way, x, y)
  PROVE  Wider(way, "neutron", Neutron!Rules(x), Neutron!Rules(y))
<1>1. /\ Neutron!ProjectReader(x) => Neutron!ProjectReader(y)
      /\ Neutron!SharedAddressGroups(x) => Neutron!SharedAddressGroups(y)
      /\ Neutron!AdminOrMember(x) => Neutron!AdminOrMember(y)
      /\ Neutron!AdminOnly(x) => Neutron!AdminOnly(y)
      /\ Neutron!AdminOrReader(x) => Neutron!AdminOrReader(y)
      /\ Neutron!SharedAddressScopes(x) => Neutron!SharedAddressScopes(y)
      /\ Neutron!ProjectMember(x) => Neutron!ProjectMember(y)
      /\ way # "beside" /\ Neutron!ExtParentOwner(x) => Neutron!ExtParentOwner(y)
      /\ Neutron!Shared(x) => Neutron!Shared(y)
      /\ Neutron!External(x) => Neutron!External(y)
      /\ Neutron!ContextIsAdvsvc(x) => Neutron!ContextIsAdvsvc(y)
      /\ Neutron!NetworkDevice(y) => Neutron!NetworkDevice(x)
      /\ way # "beside" /\ Neutron!NetworkAdmin(x) => Neutron!NetworkAdmin(y)
      /\ way # "beside" /\ Neutron!NetworkOwner(x) => Neutron!NetworkOwner(y)
      /\ Neutron!Role(x, "data_plane_integrator")
         => Neutron!Role(y, "data_plane_integrator")
      /\ Neutron!Is(y, "field", "rbac_policy:target_tenant=*")
         => Neutron!Is(x, "field", "rbac_policy:target_tenant=*")
      /\ Neutron!Is(y, "field", "rbac_policy:target_project=*")
         => Neutron!Is(x, "field", "rbac_policy:target_project=*")
      /\ way # "beside" /\ Neutron!SgOwner(x) => Neutron!SgOwner(y)
      /\ way # "stranger" /\ Neutron!ReaderRole(x) => Neutron!ReaderRole(y)
      /\ Neutron!SharedSubnetpools(x) => Neutron!SharedSubnetpools(y)
      /\ Neutron!RegularUser(x) => Neutron!RegularUser(y)
      /\ Neutron!AdminOrOwner(x) => Neutron!AdminOrOwner(y)
  <2> USE DEF Meets, OwnProject, Same, Neutron!Role, Neutron!Is, Neutron!Same,
      Neutron!AdminRole, Neutron!ReaderRole, Neutron!MemberRole, Neutron!OwnProject,
      Neutron!ProjectMember, Neutron!ProjectReader, Neutron!SharedAddressGroups,
      Neutron!ContextIsAdmin, Neutron!AdminOnly, Neutron!SharedAddressScopes,
      Neutron!ExtParentOwner, Neutron!Shared, Neutron!External, Neutron!ContextIsAdvsvc,
      Neutron!NetworkDevice, Neutron!NetworkOwner, Neutron!SgOwner,
      Neutron!SharedSubnetpools, Neutron!RegularUser, Neutron!Owner,
      Neutron!AdminOrOwner, Neutron!AdminOrMember, Neutron!AdminOrReader,
      Neutron!NetworkAdmin
  <2>1. CASE way \in {"granted", "shared", "private"}
    BY <2>1 DEF Above, Given, Refusals, Limit
  <2>2. CASE way = "beside"
    BY <2>2 DEF Beside, Untold, OtherProjectKeys, SharedKeys
  <2>3. CASE way = "stranger"
    BY <2>3 DEF Stranger
  <2> QED
    BY <2>1, <2>2, <2>3 DEF Meets
<1>2. ASSUME NEW z
      PROVE  /\ Neutron!ProjectReader(z) \in BOOLEAN
             /\ Neutron!SharedAddressGroups(z) \in BOOLEAN
             /\ Neutron!AdminOrMember(z) \in BOOLEAN
             /\ Neutron!AdminOnly(z) \in BOOLEAN
             /\ Neutron!AdminOrReader(z) \in BOOLEAN
             /\ Neutron!SharedAddressScopes(z) \in BOOLEAN
             /\ Neutron!ProjectMember(z) \in BOOLEAN
             /\ Neutron!ExtParentOwner(z) \in BOOLEAN
             /\ Neutron!Shared(z) \in BOOLEAN
             /\ Neutron!External(z) \in BOOLEAN
             /\ Neutron!ContextIsAdvsvc(z) \in BOOLEAN
             /\ Neutron!NetworkDevice(z) \in BOOLEAN
             /\ Neutron!NetworkAdmin(z) \in BOOLEAN
             /\ Neutron!NetworkOwner(z) \in BOOLEAN
             /\ Neutron!Role(z, "data_plane_integrator") \in BOOLEAN
             /\ Neutron!Is(z, "field", "rbac_policy:target_tenant=*") \in BOOLEAN
             /\ Neutron!Is(z, "field", "rbac_policy:target_project=*") \in BOOLEAN
             /\ Neutron!SgOwner(z) \in BOOLEAN
             /\ Neutron!ReaderRole(z) \in BOOLEAN
             /\ Neutron!SharedSubnetpools(z) \in BOOLEAN
             /\ Neutron!RegularUser(z) \in BOOLEAN
             /\ Neutron!AdminOrOwner(z) \in BOOLEAN
  BY DEF Neutron!Role, Neutron!Is, Neutron!Same, Neutron!AdminRole, Neutron!ReaderRole,
      Neutron!MemberRole, Neutron!OwnProject, Neutron!ProjectMember,
      Neutron!ProjectReader, Neutron!SharedAddressGroups, Neutron!ContextIsAdmin,
      Neutron!AdminOnly, Neutron!SharedAddressScopes, Neutron!ExtParentOwner,
      Neutron!Shared, Neutron!External, Neutron!ContextIsAdvsvc, Neutron!NetworkDevice,
      Neutron!NetworkOwner, Neutron!SgOwner, Neutron!SharedSubnetpools,
      Neutron!RegularUser, Neutron!Owner, Neutron!AdminOrOwner, Neutron!AdminOrMember,
      Neutron!AdminOrReader, Neutron!NetworkAdmin
<1>3. ASSUME NEW r
      PROVE  /\ way = "beside" /\ r.resource \in {"port", "floatingip_port_forwarding",
                   "local_ip_port_association", "router_conntrack_helper",
                   "subnet", "security_group_rule"}
              => Spared(way, "neutron", r)
             /\ way = "stranger" /\ r.resource = "service_provider"
              => Spared(way, "neutron", r)
  BY DEF Spared, Hidden, RoleOnly
<1>4. Wider(way, "neutron", Neutron!AddressesAndAgents(x), Neutron!AddressesAndAgents(y))
  BY <1>1, <1>2, <1>3, SMT DEF Wider, Neutron!AddressesAndAgents, Neutron!Reads,
      Neutron!Writes, Neutron!APIRules
<1>5. Wider(way, "neutron", Neutron!FlavorsAndFloatingIps(x), Neutron!FlavorsAndFloatingIps(y))
  BY <1>1, <1>2, <1>3, SMT DEF Wider, Neutron!FlavorsAndFloatingIps, Neutron!Reads,
      Neutron!Writes, Neutron!APIRules
<1>6. Wider(way, "neutron", Neutron!LocalIpsAndLogs(x), Neutron!LocalIpsAndLogs(y))
  BY <1>1, <1>2, <1>3, SMT DEF Wider, Neutron!LocalIpsAndLogs, Neutron!Reads,
      Neutron!Writes, Neutron!APIRules
<1>7. Wider(way, "neutron", Neutron!MeteringRules(x), Neutron!MeteringRules(y))
  BY <1>1, <1>2, <1>3, SMT DEF Wider, Neutron!MeteringRules, Neutron!Reads,
      Neutron!Writes, Neutron!APIRules
<1>8. Wider(way, "neutron", Neutron!Networks(x), Neutron!Networks(y))
  BY <1>1, <1>2, <1>3, SMT DEF Wider, Neutron!Networks, Neutron!Reads, Neutron!Writes,
      Neutron!APIRules
<1>9. Wider(way, "neutron", Neutron!SegmentRanges(x), Neutron!SegmentRanges(y))
  BY <1>1, <1>2, <1>3, SMT DEF Wider, Neutron!SegmentRanges, Neutron!Reads,
      Neutron!Writes, Neutron!APIRules
<1>10. Wider(way, "neutron", Neutron!PortsCreated(x), Neutron!PortsCreated(y))
  BY <1>1, <1>2, <1>3, SMT DEF Wider, Neutron!PortsCreated, Neutron!Reads,
      Neutron!Writes, Neutron!APIRules
<1>11. Wider(way, "neutron", Neutron!PortsUpdated(x), Neutron!PortsUpdated(y))
  BY <1>1, <1>2, <1>3, SMT DEF Wider, Neutron!PortsUpdated, Neutron!Reads,
      Neutron!Writes, Neutron!APIRules
<1>12. Wider(way, "neutron", Neutron!QosRules(x), Neutron!QosRules(y))
  BY <1>1, <1>2, <1>3, SMT DEF Wider, Neutron!QosRules, Neutron!Reads, Neutron!Writes,
      Neutron!APIRules
<1>13. Wider(way, "neutron", Neutron!AliasRulesAndQuotas(x), Neutron!AliasRulesAndQuotas(y))
  BY <1>1, <1>2, <1>3, SMT DEF Wider, Neutron!AliasRulesAndQuotas, Neutron!Reads,
      Neutron!Writes, Neutron!APIRules
<1>14. Wider(way, "neutron", Neutron!Routers(x), Neutron!Routers(y))
  BY <1>1, <1>2, <1>3, SMT DEF Wider, Neutron!Routers, Neutron!Reads, Neutron!Writes,
      Neutron!APIRules
<1>15. Wider(way, "neutron", Neutron!SecurityGroups(x), Neutron!SecurityGroups(y))
  BY <1>1, <1>2, <1>3, SMT DEF Wider, Neutron!SecurityGroups, Neutron!Reads,
      Neutron!Writes, Neutron!APIRules
<1>16. Wider(way, "neutron", Neutron!Subnets(x), Neutron!Subnets(y))
  BY <1>1, <1>2, <1>3, SMT DEF Wider, Neutron!Subnets, Neutron!Reads, Neutron!Writes,
      Neutron!APIRules
<1>17. Wider(way, "neutron", Neutron!TrunksAndVpnPolicies(x), Neutron!TrunksAndVpnPolicies(y))
  BY <1>1, <1>2, <1>3, SMT DEF Wider, Neutron!TrunksAndVpnPolicies, Neutron!Reads,
      Neutron!Writes, Neutron!APIRules
<1>18. Wider(way, "neutron", Neutron!VpnConnections(x), Neutron!VpnConnections(y))
  BY <1>1, <1>2, <1>3, SMT DEF Wider, Neutron!VpnConnections, Neutron!Reads,
      Neutron!Writes, Neutron!APIRules
<1>19. Wider(way, "neutron", Neutron!NamedChecks(x), Neutron!NamedChecks(y))
  <2>1. /\ Neutron!ContextIsAdmin(x) => Neutron!ContextIsAdmin(y)
        /\ Neutron!Owner(x) => Neutron!Owner(y)
        /\ Neutron!NetworkDevice(x) => Neutron!NetworkDevice(y)
        /\ way = "beside" => Neutron!Owner(y)
    BY DEF Meets, Above, Beside, Stranger, Given, Refusals, Limit, Untold,
        OtherProjectKeys, SharedKeys, OwnProject, Same, Neutron!Role, Neutron!Is,
        Neutron!Same, Neutron!AdminRole, Neutron!ContextIsAdmin, Neutron!NetworkDevice,
        Neutron!Owner
  <2>2. ASSUME NEW z
        PROVE  /\ Neutron!ContextIsAdmin(z) \in BOOLEAN
               /\ Neutron!Owner(z) \in BOOLEAN
               /\ Neutron!NetworkDevice(z) \in BOOLEAN
    BY DEF Neutron!Role, Neutron!Is, Neutron!Same, Neutron!AdminRole,
        Neutron!ContextIsAdmin, Neutron!NetworkDevice, Neutron!Owner
  <2>3. ASSUME NEW r
        PROVE  /\ way = "beside" /\ r.resource \in {"admin_or_network_owner",
                    "network_owner", "admin_or_ext_parent_owner", "ext_parent_owner",
                    "sg_owner", "admin_or_sg_owner"} => Spared(way, "neutron", r)
    BY DEF Spared, Hidden, AsksShared, ForbidsRole
  <2> QED
    BY <1>1, <1>2, <2>1, <2>2, <2>3, SMT DEF Wider, Neutron!NamedChecks, Neutron!Checks,
        Neutron!APIRules
<1> QED
  BY <1>4, <1>5, <1>6, <1>7, <1>8, <1>9, <1>10, <1>11, <1>12, <1>13, <1>14, <1>15, <1>16,
      <1>17, <1>18, <1>19 DEF Wider, Neutron!Rules

LEMMA NovaWider ==
  ASSUME NEW way, NEW x, NEW y, Meets(way, x, y)
  PROVE  Wider(way, "nova", Nova!Rules(x), Nova!Rules(y))
<1>1. /\ Nova!ContextIsAdmin(x) => Nova!ContextIsAdmin(y)
      /\ Nova!ProjectMemberOrAdmin(x) => Nova!ProjectMemberOrAdmin(y)
      /\ Nova!ProjectReaderOrAdmin(x) => Nova!ProjectReaderOrAdmin(y)
      /\ Nova!Anyone(x) => Nova!Anyone(y)
      /\ Nova!Same(x, "user_id", "user_id") => Nova!Same(y, "user_id", "user_id")
      /\ Nova!Nobody(x) => Nova!Nobody(y)
      /\ Nova!ProjectReaderApi(x) => Nova!ProjectReaderApi(y)
  BY DEF Meets, Above, Beside, Stranger, Given, Refusals, Limit, Untold,
      OtherProjectKeys, SharedKeys, OwnProject, Same, Nova!Role, Nova!Same, Nova!Anyone,
      Nova!Nobody, Nova!AdminRole, Nova!ReaderRole, Nova!MemberRole, Nova!OwnProject,
      Nova!ProjectMember, Nova!ProjectReader, Nova!ContextIsAdmin,
      Nova!ProjectMemberApi, Nova!ProjectMemberOrAdmin, Nova!ProjectReaderApi,
      Nova!ProjectReaderOrAdmin
<1>2. ASSUME NEW z
      PROVE  /\ Nova!ContextIsAdmin(z) \in BOOLEAN
             /\ Nova!ProjectMemberOrAdmin(z) \in BOOLEAN
             /\ Nova!ProjectReaderOrAdmin(z) \in BOOLEAN
             /\ Nova!Anyone(z) \in BOOLEAN
             /\ Nova!Same(z, "user_id", "user_id") \in BOOLEAN
             /\ Nova!Nobody(z) \in BOOLEAN
             /\ Nova!ProjectReaderApi(z) \in BOOLEAN
  BY DEF Nova!Role, Nova!Same, Nova!Anyone, Nova!Nobody, Nova!AdminRole,
      Nova!ReaderRole, Nova!MemberRole, Nova!OwnProject, Nova!ProjectMember,
      Nova!ProjectReader, Nova!ContextIsAdmin, Nova!ProjectMemberApi,
      Nova!ProjectMemberOrAdmin, Nova!ProjectReaderApi, Nova!ProjectReaderOrAdmin
<1>3. Wider(way, "nova", Nova!AggregatesAndInterfaces(x), Nova!AggregatesAndInterfaces(y))
  BY <1>1, <1>2, SMT DEF Wider, Nova!AggregatesAndInterfaces, Nova!Reads, Nova!Writes,
      Nova!APIRules
<1>4. Wider(way, "nova", Nova!FlavorsAndConsoles(x), Nova!FlavorsAndConsoles(y))
  BY <1>1, <1>2, SMT DEF Wider, Nova!FlavorsAndConsoles, Nova!Reads, Nova!Writes,
      Nova!APIRules
<1>5. Wider(way, "nova", Nova!FloatingIpsAndHosts(x), Nova!FloatingIpsAndHosts(y))
  BY <1>1, <1>2, SMT DEF Wider, Nova!FloatingIpsAndHosts, Nova!Reads, Nova!Writes,
      Nova!APIRules
<1>6. Wider(way, "nova", Nova!ActionsKeypairsLocks(x), Nova!ActionsKeypairsLocks(y))
  BY <1>1, <1>2, SMT DEF Wider, Nova!ActionsKeypairsLocks, Nova!Reads, Nova!Writes,
      Nova!APIRules
<1>7. Wider(way, "nova", Nova!QuotasAndConsoles(x), Nova!QuotasAndConsoles(y))
  BY <1>1, <1>2, SMT DEF Wider, Nova!QuotasAndConsoles, Nova!Reads, Nova!Writes,
      Nova!APIRules
<1>8. Wider(way, "nova", Nova!SecurityGroups(x), Nova!SecurityGroups(y))
  BY <1>1, <1>2, SMT DEF Wider, Nova!SecurityGroups, Nova!Reads, Nova!Writes,
      Nova!APIRules
<1>9. Wider(way, "nova", Nova!ServerDetails(x), Nova!ServerDetails(y))
  BY <1>1, <1>2, SMT DEF Wider, Nova!ServerDetails, Nova!Reads, Nova!Writes,
      Nova!APIRules
<1>10. Wider(way, "nova", Nova!Servers(x), Nova!Servers(y))
  BY <1>1, <1>2, SMT DEF Wider, Nova!Servers, Nova!Reads, Nova!Writes, Nova!APIRules
<1>11. Wider(way, "nova", Nova!ServerActions(x), Nova!ServerActions(y))
  BY <1>1, <1>2, SMT DEF Wider, Nova!ServerActions, Nova!Reads, Nova!Writes,
      Nova!APIRules
<1>12. Wider(way, "nova", Nova!ShelvingAndVolumes(x), Nova!ShelvingAndVolumes(y))
  BY <1>1, <1>2, SMT DEF Wider, Nova!ShelvingAndVolumes, Nova!Reads, Nova!Writes,
      Nova!APIRules
<1>13. Wider(way, "nova", Nova!Attachments(x), Nova!Attachments(y))
  BY <1>1, <1>2, SMT DEF Wider, Nova!Attachments, Nova!Reads, Nova!Writes, Nova!APIRules
<1>14. Wider(way, "nova", Nova!NamedChecks(x), Nova!NamedChecks(y))
  <2>1. /\ Nova!ContextAdmin(x) => Nova!ContextAdmin(y)
        /\ Nova!OwnProject(x) => Nova!OwnProject(y)
        /\ Nova!ProjectMemberApi(x) => Nova!ProjectMemberApi(y)
    BY DEF Meets, Above, Beside, Stranger, Given, Refusals, Limit, Untold,
        OtherProjectKeys, SharedKeys, OwnProject, Same, Nova!Role, Nova!Is, Nova!Same,
        Nova!MemberRole, Nova!ContextAdmin, Nova!OwnProject, Nova!ProjectMember,
        Nova!ProjectMemberApi
  <2>2. ASSUME NEW z
        PROVE  /\ Nova!ContextAdmin(z) \in BOOLEAN
               /\ Nova!OwnProject(z) \in BOOLEAN
               /\ Nova!ProjectMemberApi(z) \in BOOLEAN
    BY DEF Nova!Role, Nova!Is, Nova!Same, Nova!MemberRole, Nova!ContextAdmin,
        Nova!OwnProject, Nova!ProjectMember, Nova!ProjectMemberApi
  <2> QED
    BY <1>1, <1>2, <2>1, <2>2, SMT DEF Wider, Nova!NamedChecks, Nova!Checks, Nova!APIRules
<1> QED
  BY <1>3, <1>4, <1>5, <1>6, <1>7, <1>8, <1>9, <1>10, <1>11, <1>12, <1>13, <1>14 DEF
      Wider, Nova!Rules

LEMMA OctaviaWider ==
  ASSUME NEW way, NEW x, NEW y, Meets(way, x, y)
  PROVE  Wider(way, "octavia", Octavia!Rules(x), Octavia!Rules(y))
<1>1. /\ Octavia!LoadBalancerRead(x) => Octavia!LoadBalancerRead(y)
      /\ Octavia!LoadBalancerAdmin(x) => Octavia!LoadBalancerAdmin(y)
      /\ Octavia!LoadBalancerReadGlobal(x) => Octavia!LoadBalancerReadGlobal(y)
      /\ Octavia!LoadBalancerWrite(x) => Octavia!LoadBalancerWrite(y)
      /\ Octavia!LoadBalancerReadQuota(x) => Octavia!LoadBalancerReadQuota(y)
      /\ Octavia!LoadBalancerReadQuotaGlobal(x) => Octavia!LoadBalancerReadQuotaGlobal(y)
      /\ Octavia!LoadBalancerWriteQuota(x) => Octavia!LoadBalancerWriteQuota(y)
  BY DEF Meets, Above, Beside, Stranger, Given, Refusals, Limit, Untold,
      OtherProjectKeys, SharedKeys, OwnProject, Same, Octavia!Role, Octavia!Is,
      Octavia!Same, Octavia!AdminRole, Octavia!ReaderRole, Octavia!MemberRole,
      Octavia!ContextAdmin, Octavia!OwnProject, Octavia!ProjectMember,
      Octavia!ProjectReader, Octavia!SystemAdmin, Octavia!SystemReader,
      Octavia!LoadBalancerObserverAndOwner, Octavia!LoadBalancerGlobalObserver,
      Octavia!LoadBalancerMemberAndOwner, Octavia!LoadBalancerAdmin,
      Octavia!LoadBalancerRead, Octavia!LoadBalancerReadGlobal,
      Octavia!LoadBalancerWrite, Octavia!LoadBalancerReadQuota,
      Octavia!LoadBalancerReadQuotaGlobal, Octavia!LoadBalancerWriteQuota
<1>2. ASSUME NEW z
      PROVE  /\ Octavia!LoadBalancerRead(z) \in BOOLEAN
             /\ Octavia!LoadBalancerAdmin(z) \in BOOLEAN
             /\ Octavia!LoadBalancerReadGlobal(z) \in BOOLEAN
             /\ Octavia!LoadBalancerWrite(z) \in BOOLEAN
             /\ Octavia!LoadBalancerReadQuota(z) \in BOOLEAN
             /\ Octavia!LoadBalancerReadQuotaGlobal(z) \in BOOLEAN
             /\ Octavia!LoadBalancerWriteQuota(z) \in BOOLEAN
  BY DEF Octavia!Role, Octavia!Is, Octavia!Same, Octavia!AdminRole, Octavia!ReaderRole,
      Octavia!MemberRole, Octavia!ContextAdmin, Octavia!OwnProject,
      Octavia!ProjectMember, Octavia!ProjectReader, Octavia!SystemAdmin,
      Octavia!SystemReader, Octavia!LoadBalancerObserverAndOwner,
      Octavia!LoadBalancerGlobalObserver, Octavia!LoadBalancerMemberAndOwner,
      Octavia!LoadBalancerAdmin, Octavia!LoadBalancerRead,
      Octavia!LoadBalancerReadGlobal, Octavia!LoadBalancerWrite,
      Octavia!LoadBalancerReadQuota, Octavia!LoadBalancerReadQuotaGlobal,
      Octavia!LoadBalancerWriteQuota
<1>3. Wider(way, "octavia", Octavia!Flavors(x), Octavia!Flavors(y))
  BY <1>1, <1>2, SMT DEF Wider, Octavia!Flavors, Octavia!Reads, Octavia!Writes,
      Octavia!APIRules
<1>4. Wider(way, "octavia", Octavia!L7Policies(x), Octavia!L7Policies(y))
  BY <1>1, <1>2, SMT DEF Wider, Octavia!L7Policies, Octavia!Reads, Octavia!Writes,
      Octavia!APIRules
<1>5. Wider(way, "octavia", Octavia!LoadBalancers(x), Octavia!LoadBalancers(y))
  BY <1>1, <1>2, SMT DEF Wider, Octavia!LoadBalancers, Octavia!Reads, Octavia!Writes,
      Octavia!APIRules
<1>6. Wider(way, "octavia", Octavia!PoolsAndQuotas(x), Octavia!PoolsAndQuotas(y))
  BY <1>1, <1>2, SMT DEF Wider, Octavia!PoolsAndQuotas, Octavia!Reads, Octavia!Writes,
      Octavia!APIRules
<1>7. Wider(way, "octavia", Octavia!NamedChecks(x), Octavia!NamedChecks(y))
  <2>1. /\ Octavia!SystemAdmin(x) => Octavia!SystemAdmin(y)
        /\ Octavia!SystemReader(x) => Octavia!SystemReader(y)
        /\ Octavia!ProjectMember(x) => Octavia!ProjectMember(y)
        /\ Octavia!ProjectReader(x) => Octavia!ProjectReader(y)
        /\ Octavia!Role(x, "load-balancer_admin") =>
             Octavia!Role(y, "load-balancer_admin")
        /\ Octavia!OwnProject(x) => Octavia!OwnProject(y)
        /\ Octavia!LoadBalancerObserverAndOwner(x) =>
             Octavia!LoadBalancerObserverAndOwner(y)
        /\ Octavia!LoadBalancerGlobalObserver(x) => Octavia!LoadBalancerGlobalObserver(y)
        /\ Octavia!LoadBalancerMemberAndOwner(x) => Octavia!LoadBalancerMemberAndOwner(y)
    BY DEF Meets, Above, Beside, Stranger, Given, Refusals, Limit, Untold,
        OtherProjectKeys, SharedKeys, OwnProject, Same, Octavia!Role, Octavia!Is,
        Octavia!Same, Octavia!AdminRole, Octavia!ReaderRole, Octavia!MemberRole,
        Octavia!OwnProject, Octavia!ProjectMember, Octavia!ProjectReader,
        Octavia!SystemAdmin, Octavia!SystemReader, Octavia!LoadBalancerObserverAndOwner,
        Octavia!LoadBalancerGlobalObserver, Octavia!LoadBalancerMemberAndOwner
  <2>2. ASSUME NEW z
        PROVE  /\ Octavia!SystemAdmin(z) \in BOOLEAN
               /\ Octavia!SystemReader(z) \in BOOLEAN
               /\ Octavia!ProjectMember(z) \in BOOLEAN
               /\ Octavia!ProjectReader(z) \in BOOLEAN
               /\ Octavia!Role(z, "load-balancer_admin") \in BOOLEAN
               /\ Octavia!OwnProject(z) \in BOOLEAN
               /\ Octavia!LoadBalancerObserverAndOwner(z) \in BOOLEAN
               /\ Octavia!LoadBalancerGlobalObserver(z) \in BOOLEAN
               /\ Octavia!LoadBalancerMemberAndOwner(z) \in BOOLEAN
    BY DEF Octavia!Role, Octavia!Is, Octavia!Same, Octavia!AdminRole, Octavia!ReaderRole,
        Octavia!MemberRole, Octavia!OwnProject, Octavia!ProjectMember,
        Octavia!ProjectReader, Octavia!SystemAdmin, Octavia!SystemReader,
        Octavia!LoadBalancerObserverAndOwner, Octavia!LoadBalancerGlobalObserver,
        Octavia!LoadBalancerMemberAndOwner
  <2> QED
    BY <1>1, <1>2, <2>1, <2>2, SMT DEF Wider, Octavia!NamedChecks, Octavia!Checks,
        Octavia!APIRules
<1> QED
  BY <1>3, <1>4, <1>5, <1>6, <1>7 DEF Wider, Octavia!Rules

LEMMA PlacementWider ==
  ASSUME NEW way, NEW x, NEW y, Meets(way, x, y)
  PROVE  Wider(way, "placement", Placement!Rules(x), Placement!Rules(y))
<1>1. /\ Placement!SystemReaderApi(x) => Placement!SystemReaderApi(y)
      /\ Placement!SystemAdminApi(x) => Placement!SystemAdminApi(y)
      /\ Placement!SystemOrProjectReader(x) => Placement!SystemOrProjectReader(y)
  BY DEF Meets, Above, Beside, Stranger, Given, Refusals, Limit, Untold,
      OtherProjectKeys, SharedKeys, OwnProject, Same, Placement!Role, Placement!Is,
      Placement!Same, Placement!AdminRole, Placement!ReaderRole, Placement!OwnProject,
      Placement!ProjectReader, Placement!SystemAdmin, Placement!SystemReader,
      Placement!SystemReaderApi, Placement!SystemAdminApi, Placement!ProjectReaderApi,
      Placement!SystemOrProjectReader
<1>2. ASSUME NEW z
      PROVE  /\ Placement!SystemReaderApi(z) \in BOOLEAN
             /\ Placement!SystemAdminApi(z) \in BOOLEAN
             /\ Placement!SystemOrProjectReader(z) \in BOOLEAN
  BY DEF Placement!Role, Placement!Is, Placement!Same, Placement!AdminRole,
      Placement!ReaderRole, Placement!OwnProject, Placement!ProjectReader,
      Placement!SystemAdmin, Placement!SystemReader, Placement!SystemReaderApi,
      Placement!SystemAdminApi, Placement!ProjectReaderApi,
      Placement!SystemOrProjectReader
<1>3. Wider(way, "placement", Placement!Providers(x), Placement!Providers(y))
  BY <1>1, <1>2, SMT DEF Wider, Placement!Providers, Placement!Reads, Placement!Writes,
      Placement!APIRules
<1>4. Wider(way, "placement", Placement!TraitsAndAllocations(x), Placement!TraitsAndAllocations(y))
  BY <1>1, <1>2, SMT DEF Wider, Placement!TraitsAndAllocations, Placement!Reads,
      Placement!Writes, Placement!APIRules
<1>5. Wider(way, "placement", Placement!NamedChecks(x), Placement!NamedChecks(y))
  <2>1. /\ Placement!AdminRole(x) => Placement!AdminRole(y)
        /\ Placement!ProjectReaderApi(x) => Placement!ProjectReaderApi(y)
    BY DEF Meets, Above, Beside, Stranger, Given, Refusals, Limit, Untold,
        OtherProjectKeys, SharedKeys, OwnProject, Same, Placement!Role, Placement!Same,
        Placement!AdminRole, Placement!ReaderRole, Placement!OwnProject,
        Placement!ProjectReader, Placement!ProjectReaderApi
  <2>2. ASSUME NEW z
        PROVE  /\ Placement!AdminRole(z) \in BOOLEAN
               /\ Placement!ProjectReaderApi(z) \in BOOLEAN
    BY DEF Placement!Role, Placement!Same, Placement!AdminRole, Placement!ReaderRole,
        Placement!OwnProject, Placement!ProjectReader, Placement!ProjectReaderApi
  <2> QED
    BY <1>1, <1>2, <2>1, <2>2, SMT DEF Wider, Placement!NamedChecks, Placement!Checks,
        Placement!APIRules
<1> QED
  BY <1>3, <1>4, <1>5 DEF Wider, Placement!Rules

LEMMA TroveWider ==
  ASSUME NEW way, NEW x, NEW y, Meets(way, x, y)
  PROVE  Wider(way, "trove", Trove!Rules(x), Trove!Rules(y))
<1>1. /\ Trove!AdminOrOwner(x) => Trove!AdminOrOwner(y)
      /\ Trove!Admin(x) => Trove!Admin(y)
      /\ Trove!AdminRole(x) => Trove!AdminRole(y)
      /\ Trove!Anyone(x) => Trove!Anyone(y)
  BY DEF Meets, Above, Beside, Stranger, Given, Refusals, Limit, Untold,
      OtherProjectKeys, SharedKeys, OwnProject, Same, Trove!Role, Trove!Is, Trove!Same,
      Trove!Anyone, Trove!AdminRole, Trove!ContextAdmin, Trove!Admin, Trove!AdminOrOwner
<1>2. ASSUME NEW z
      PROVE  /\ Trove!AdminOrOwner(z) \in BOOLEAN
             /\ Trove!Admin(z) \in BOOLEAN
             /\ Trove!AdminRole(z) \in BOOLEAN
             /\ Trove!Anyone(z) \in BOOLEAN
  BY DEF Trove!Role, Trove!Is, Trove!Same, Trove!Anyone, Trove!AdminRole,
      Trove!ContextAdmin, Trove!Admin, Trove!AdminOrOwner
<1>3. Wider(way, "trove", Trove!Instances(x), Trove!Instances(y))
  BY <1>1, <1>2, SMT DEF Wider, Trove!Instances, Trove!Reads, Trove!Writes,
      Trove!APIRules
<1>4. Wider(way, "trove", Trove!UsersAndDatabases(x), Trove!UsersAndDatabases(y))
  BY <1>1, <1>2, SMT DEF Wider, Trove!UsersAndDatabases, Trove!Reads, Trove!Writes,
      Trove!APIRules
<1>5. Wider(way, "trove", Trove!ClustersAndBackups(x), Trove!ClustersAndBackups(y))
  BY <1>1, <1>2, SMT DEF Wider, Trove!ClustersAndBackups, Trove!Reads, Trove!Writes,
      Trove!APIRules
<1>6. Wider(way, "trove", Trove!Configurations(x), Trove!Configurations(y))
  BY <1>1, <1>2, SMT DEF Wider, Trove!Configurations, Trove!Reads, Trove!Writes,
      Trove!APIRules
<1>7. Wider(way, "trove", Trove!Modules(x), Trove!Modules(y))
  BY <1>1, <1>2, SMT DEF Wider, Trove!Modules, Trove!Reads, Trove!Writes, Trove!APIRules
<1>8. Wider(way, "trove", Trove!NamedChecks(x), Trove!NamedChecks(y))
  BY <1>1, <1>2, SMT DEF Wider, Trove!NamedChecks, Trove!Checks, Trove!APIRules
<1> QED
  BY <1>3, <1>4, <1>5, <1>6, <1>7, <1>8 DEF Wider, Trove!Rules

LEMMA ZunWider ==
  ASSUME NEW way, NEW x, NEW y, Meets(way, x, y)
  PROVE  Wider(way, "zun", Zun!Rules(x), Zun!Rules(y))
<1>1. /\ Zun!ContextAdmin(x) => Zun!ContextAdmin(y)
      /\ Zun!OwnProject(x) => Zun!OwnProject(y)
      /\ Zun!ContextIsAdmin(x) => Zun!ContextIsAdmin(y)
      /\ Zun!DenyEverybody(x) => Zun!DenyEverybody(y)
      /\ Zun!AdminRole(x) => Zun!AdminRole(y)
  BY DEF Meets, Above, Beside, Stranger, Given, Refusals, Limit, Untold,
      OtherProjectKeys, SharedKeys, OwnProject, Same, Zun!Role, Zun!Is, Zun!Same,
      Zun!AdminRole, Zun!ContextAdmin, Zun!OwnProject, Zun!ContextIsAdmin,
      Zun!DenyEverybody
<1>2. ASSUME NEW z
      PROVE  /\ Zun!ContextAdmin(z) \in BOOLEAN
             /\ Zun!OwnProject(z) \in BOOLEAN
             /\ Zun!ContextIsAdmin(z) \in BOOLEAN
             /\ Zun!DenyEverybody(z) \in BOOLEAN
             /\ Zun!AdminRole(z) \in BOOLEAN
  BY DEF Zun!Role, Zun!Is, Zun!Same, Zun!AdminRole, Zun!ContextAdmin, Zun!OwnProject,
      Zun!ContextIsAdmin, Zun!DenyEverybody
<1>3. Wider(way, "zun", Zun!Containers(x), Zun!Containers(y))
  BY <1>1, <1>2, SMT DEF Wider, Zun!Containers, Zun!Reads, Zun!Writes, Zun!APIRules
<1>4. Wider(way, "zun", Zun!ContainerActions(x), Zun!ContainerActions(y))
  BY <1>1, <1>2, SMT DEF Wider, Zun!ContainerActions, Zun!Reads, Zun!Writes,
      Zun!APIRules
<1>5. Wider(way, "zun", Zun!ImagesAndCapsules(x), Zun!ImagesAndCapsules(y))
  BY <1>1, <1>2, SMT DEF Wider, Zun!ImagesAndCapsules, Zun!Reads, Zun!Writes,
      Zun!APIRules
<1>6. Wider(way, "zun", Zun!NetworksAndRegistries(x), Zun!NetworksAndRegistries(y))
  BY <1>1, <1>2, SMT DEF Wider, Zun!NetworksAndRegistries, Zun!Reads, Zun!Writes,
      Zun!APIRules
<1>7. Wider(way, "zun", Zun!NamedChecks(x), Zun!NamedChecks(y))
  BY <1>1, <1>2, SMT DEF Wider, Zun!NamedChecks, Zun!Checks, Zun!APIRules
<1> QED
  BY <1>3, <1>4, <1>5, <1>6, <1>7 DEF Wider, Zun!Rules

(***************************************************************************)
(* From the rules of a service to the answers about them.                  *)
(***************************************************************************)

(* What a check is asked of. *)
Asker(u, target) == [roles |-> u.roles, creds |-> UserContext(u), target |-> target]

LEMMA ServiceWider ==
  ASSUME NEW service \in Enforced, NEW way, NEW x, NEW y, Meets(way, x, y)
  PROVE  Wider(way, service, ServiceRules(service, x), ServiceRules(service, y))
<1>1. CASE service = "barbican"
  BY <1>1, BarbicanWider DEF ServiceRules
<1>2. CASE service = "cinder"
  BY <1>2, CinderWider DEF ServiceRules
<1>3. CASE service = "designate"
  BY <1>3, DesignateWider DEF ServiceRules
<1>4. CASE service = "glance"
  BY <1>4, GlanceWider DEF ServiceRules
<1>5. CASE service = "heat"
  BY <1>5, HeatWider DEF ServiceRules
<1>6. CASE service = "ironic"
  BY <1>6, IronicWider DEF ServiceRules
<1>7. CASE service = "ironic_inspector"
  BY <1>7, InspectorWider DEF ServiceRules
<1>8. CASE service = "keystone"
  BY <1>8, KeystoneWider DEF ServiceRules
<1>9. CASE service = "magnum"
  BY <1>9, MagnumWider DEF ServiceRules
<1>10. CASE service = "manila"
  BY <1>10, ManilaWider DEF ServiceRules
<1>11. CASE service = "masakari"
  BY <1>11, MasakariWider DEF ServiceRules
<1>12. CASE service = "neutron"
  BY <1>12, NeutronWider DEF ServiceRules
<1>13. CASE service = "nova"
  BY <1>13, NovaWider DEF ServiceRules
<1>14. CASE service = "octavia"
  BY <1>14, OctaviaWider DEF ServiceRules
<1>15. CASE service = "placement"
  BY <1>15, PlacementWider DEF ServiceRules
<1>16. CASE service = "trove"
  BY <1>16, TroveWider DEF ServiceRules
<1>17. CASE service = "zun"
  BY <1>17, ZunWider DEF ServiceRules
<1> QED
  BY <1>1, <1>2, <1>3, <1>4, <1>5, <1>6, <1>7, <1>8, <1>9, <1>10,
     <1>11, <1>12, <1>13, <1>14, <1>15, <1>16, <1>17
     DEF Enforced, SupportedServices

LEMMA AnswerWider ==
  ASSUME NEW services \in SUBSET Enforced, NEW u, NEW v, NEW s, NEW t, NEW way,
         Meets(way, Asker(u, s), Asker(v, t)),
         NEW r \in AuthorizeAll(services, u, s), r.allowed
  PROVE  \/ r \in AuthorizeAll(services, v, t)
         \/ Spared(way, r.service, r)
<1>1. PICK service \in services : r \in Authorize(service, u, s)
  BY DEF AuthorizeAll
<1>2. PICK q \in ServiceRules(service, Asker(u, s)) :
        r = [service |-> service, resource |-> q.resource, action |-> q.action,
             access |-> q.access, allowed |-> q.allowed]
  BY <1>1 DEF Authorize, Asker
<1>3. q \in ServiceRules(service, Asker(v, t)) \/ Spared(way, service, q)
  BY <1>2, ServiceWider DEF Wider
<1>4. CASE q \in ServiceRules(service, Asker(v, t))
  BY <1>2, <1>4 DEF AuthorizeAll, Authorize, Asker
<1>5. CASE Spared(way, service, q)
  <2>1. r.service = service /\ r.resource = q.resource /\ r.action = q.action
    BY <1>2
  <2> QED
    BY <1>5, <2>1 DEF Spared, AsksShared, ForbidsRole
<1> QED
  BY <1>3, <1>4, <1>5

(* A user with more roles, or the scope of the system besides, is above. *)
LEMMA MoreRoles ==
  ASSUME NEW u, NEW v, NEW t, u.roles \subseteq v.roles, u.system => v.system
  PROVE  Meets("granted", Asker(u, t), Asker(v, t))
<1> DEFINE x == UserContext(u)
           y == UserContext(v)
<1>1. /\ x["user_id"] = y["user_id"]
      /\ x["project_id"] = y["project_id"]
      /\ x["tenant_id"] = y["tenant_id"]
      /\ x["domain_id"] = y["domain_id"]
      /\ x["user_domain_id"] = y["user_domain_id"]
      /\ x["project_domain_id"] = y["project_domain_id"]
      /\ x["project_name"] = y["project_name"]
  BY DEF UserContext
<1>2. x["is_admin"] = y["is_admin"] \/ x["is_admin"] \in Refusals
  BY DEF Refusals, UserContext
<1>3. x["system_scope"] = y["system_scope"] \/ x["system_scope"] \in Refusals
  BY DEF Refusals, UserContext
<1>4. /\ DOMAIN x = Given \cup {"user_id", "project_id", "tenant_id", "domain_id",
                             "user_domain_id", "project_domain_id", "project_name"}
      /\ DOMAIN x = DOMAIN y
  BY DEF UserContext, Given
<1>5. Asker(u, t) = [roles |-> u.roles, creds |-> x, target |-> t]
      /\ Asker(v, t) = [roles |-> v.roles, creds |-> y, target |-> t]
  BY DEF Asker
<1> HIDE DEF x, y
<1> QED
  BY <1>1, <1>2, <1>3, <1>4, <1>5 DEF Meets, Above, Given

(***************************************************************************)
(* The target that is made up, and the user's own object described.        *)
(***************************************************************************)
Keys == UserKeys \cup ProjectKeys \cup DomainKeys

More ==
    OtherProjectKeys \cup SharedKeys \cup {"target.container.creator_id", "zone_type"}

Mine == Owned("U", "P", "D")

LEMMA KeysNamed ==
  /\ Limit \in Keys
  /\ {"project_id", "tenant_id"} \subseteq ProjectKeys \ UserKeys
  /\ "target.secret.creator_id" \in UserKeys
  /\ {"enforce_new_defaults", "visibility", "all_tenants", "trustee_domain_id"}
       \cap (Keys \cup More) = {}
BY DEF Keys, More, Limit, OtherProjectKeys, SharedKeys, UserKeys, ProjectKeys, DomainKeys

LEMMA MadeUpTarget ==
  /\ DOMAIN GeneratedTarget = Keys \cup {"enforce_new_defaults"}
  /\ \A k \in Keys : GeneratedTarget[k] = Mine[k]
  /\ GeneratedTarget["enforce_new_defaults"] = EnforceNew
<1>1. DOMAIN Mine = Keys
  BY DEF Mine, Owned, Keys
<1>2. GeneratedTarget = Updated(Mine, [enforce_new_defaults |-> EnforceNew])
  BY DEF GeneratedTarget, Mine
<1> QED
  BY <1>1, <1>2, KeysNamed DEF Updated

LEMMA OwnTarget ==
  /\ \A own \in OwnObjects :
       /\ DOMAIN TargetOf(own) = Keys \cup More \cup {"visibility", "enforce_new_defaults"}
       /\ \A k \in Keys \ {Limit} : TargetOf(own)[k] = Mine[k]
       /\ TargetOf(own)[Limit] = "P"
       /\ TargetOf(own)["enforce_new_defaults"] = EnforceNew
  /\ \A k \in SharedKeys : TargetOf(OwnShared)[k] = "True"
<1>1. DOMAIN Mine = Keys
  BY DEF Mine, Owned, Keys
<1>2. /\ DOMAIN Described("U", "P", "D") = Keys \cup More
      /\ \A k \in Keys \ {Limit} : Described("U", "P", "D")[k] = Mine[k]
      /\ Described("U", "P", "D")[Limit] = "P"
      /\ \A k \in SharedKeys : Described("U", "P", "D")[k] = "True"
  BY <1>1 DEF Described, Updated, Mine, Keys, More, OtherProjectKeys, SharedKeys, Limit,
     UserKeys, ProjectKeys, DomainKeys
<1>3. /\ SharedKeys \subseteq More
      /\ (SharedKeys \cup {"visibility"}) \cap Keys = {}
      /\ Limit \notin SharedKeys \cup {"visibility"}
      /\ "enforce_new_defaults" \notin SharedKeys
  BY DEF SharedKeys, More, Keys, Limit, UserKeys, ProjectKeys, DomainKeys
<1>4. /\ DOMAIN OwnShared = Keys \cup More \cup {"visibility"}
      /\ \A k \in Keys \ {Limit} : OwnShared[k] = Mine[k]
      /\ OwnShared[Limit] = "P"
      /\ \A k \in SharedKeys : OwnShared[k] = "True"
  BY <1>2, <1>3, KeysNamed DEF OwnShared, Updated
<1>5. /\ DOMAIN OwnPrivate = Keys \cup More \cup {"visibility"}
      /\ \A k \in Keys \ {Limit} : OwnPrivate[k] = Mine[k]
      /\ OwnPrivate[Limit] = "P"
  BY <1>2, <1>3, KeysNamed DEF OwnPrivate, Updated
<1>6. ASSUME NEW own \in OwnObjects
      PROVE  /\ DOMAIN own = Keys \cup More \cup {"visibility"}
             /\ \A k \in Keys \ {Limit} : own[k] = Mine[k]
             /\ own[Limit] = "P"
  BY <1>4, <1>5 DEF OwnObjects
<1>7. ASSUME NEW own \in OwnObjects
      PROVE  /\ DOMAIN TargetOf(own)
                  = Keys \cup More \cup {"visibility", "enforce_new_defaults"}
             /\ \A k \in Keys \ {Limit} : TargetOf(own)[k] = Mine[k]
             /\ TargetOf(own)[Limit] = "P"
             /\ TargetOf(own)["enforce_new_defaults"] = EnforceNew
  BY <1>6, KeysNamed, MadeUpTarget DEF TargetOf, Updated
<1>8. \A k \in SharedKeys : TargetOf(OwnShared)[k] = "True"
  BY <1>3, <1>4 DEF TargetOf, Updated
<1> QED
  BY <1>7, <1>8

(* The user beside the own object, told in full, is above the same beside the
   target that is made up for the listing: that has what this has, but for the
   limit's project, in whose place the domain stands. *)
LEMMA FullerTarget ==
  ASSUME NEW u, NEW own \in OwnObjects
  PROVE  /\ Meets("private", Asker(u, GeneratedTarget), Asker(u, TargetOf(own)))
         /\ own = OwnShared
              => Meets("shared", Asker(u, GeneratedTarget), Asker(u, TargetOf(own)))
<1>1. UserContext(u)["project_id"] = "P" /\ "project_id" \in DOMAIN UserContext(u)
  BY DEF UserContext
<1>2. Mine[Limit] = "D"
  BY DEF Mine, Owned, Limit, UserKeys, ProjectKeys, DomainKeys
<1> QED
  BY <1>1, <1>2, KeysNamed, MadeUpTarget, OwnTarget DEF Meets, Above, Asker

(* The other way about, only what is untold is missing. *)
LEMMA LesserTarget ==
  ASSUME NEW u, NEW own \in OwnObjects
  PROVE  Meets("beside", Asker(u, TargetOf(own)), Asker(u, GeneratedTarget))
<1>1. /\ UserContext(u)["project_id"] = "P" /\ "project_id" \in DOMAIN UserContext(u)
      /\ UserContext(u)["user_id"] = "U" /\ "user_id" \in DOMAIN UserContext(u)
      /\ UserContext(u)["tenant_id"] = "P" /\ "tenant_id" \in DOMAIN UserContext(u)
  BY DEF UserContext
<1>2. /\ Mine["project_id"] = "P" /\ Mine["target.secret.creator_id"] = "U"
      /\ Mine["tenant_id"] = "P"
  BY KeysNamed DEF Mine, Owned
<1>3. /\ Limit \in Untold
      /\ More \cup {"visibility"} \subseteq Untold
      /\ (Keys \cup {"enforce_new_defaults"}) \cap SharedKeys = {}
  BY DEF Untold, More, Limit, OtherProjectKeys, SharedKeys, Keys, UserKeys, ProjectKeys,
     DomainKeys
<1>4. {"project_id", "tenant_id", "target.secret.creator_id"} \subseteq Keys
  BY KeysNamed DEF Keys
<1> QED
  BY <1>1, <1>2, <1>3, <1>4, KeysNamed, MadeUpTarget, OwnTarget
     DEF Meets, Beside, Asker, OwnProject, Same

(* A stranger's object has nothing that a user of this project has. *)
LEMMA OthersTarget ==
  /\ DOMAIN TargetOf(OthersObject)
       = Keys \cup More \cup {"visibility", "enforce_new_defaults"}
  /\ \A k \in Keys \cup More : TargetOf(OthersObject)[k] \in {"V", "Q", "E", "True", "PRIMARY"}
  /\ TargetOf(OthersObject)["visibility"] = "private"
<1> DEFINE others == Described("V", "Q", "E")
           told == [k \in More |->
                      CASE k \in OtherProjectKeys -> "Q"
                        [] k \in SharedKeys -> "True"
                        [] k = "target.container.creator_id" -> "V"
                        [] k = "zone_type" -> "PRIMARY"]
<1>1. \A k \in Keys : Owned("V", "Q", "E")[k] \in {"V", "Q", "E"}
  BY DEF Owned, Keys
<1>2. DOMAIN Owned("V", "Q", "E") = Keys
  BY DEF Owned, Keys
<1>3. \A k \in More : told[k] \in {"V", "Q", "True", "PRIMARY"}
  BY DEF More
<1>4. others = Updated(Owned("V", "Q", "E"), told)
  BY DEF Described, More
<1>5. /\ DOMAIN others = Keys \cup More
      /\ \A k \in Keys \cup More : others[k] \in {"V", "Q", "E", "True", "PRIMARY"}
  <2> HIDE DEF told
  <2>1. DOMAIN told = More
    BY DEF told
  <2> HIDE DEF others
  <2> QED
    BY <1>1, <1>2, <1>3, <1>4, <2>1 DEF Updated
<1>6. /\ DOMAIN OthersObject = Keys \cup More \cup {"visibility"}
      /\ \A k \in Keys \cup More : OthersObject[k] \in {"V", "Q", "E", "True", "PRIMARY"}
      /\ OthersObject["visibility"] = "private"
  <2> HIDE DEF others
  <2>1. OthersObject = Updated(others, [visibility |-> "private"])
    BY DEF OthersObject, others
  <2> QED
    BY <1>5, <2>1, KeysNamed DEF Updated
<1> QED
  BY <1>6, KeysNamed, MadeUpTarget DEF TargetOf, Updated

(* Who is a reader or a member, elsewhere, meets a stranger's object as nobody does. *)
LEMMA NotTheirs ==
  ASSUME AdminRoles \cap {"reader", "member"} = {},
         NEW u, u.roles \subseteq {"reader", "member"}, ~u.system,
         NEW nobody, nobody.roles = {}, ~nobody.system
  PROVE  Meets("stranger", Asker(u, TargetOf(OthersObject)), Asker(nobody, TargetOf(OthersObject)))
<1> DEFINE x == UserContext(u)
           target == TargetOf(OthersObject)
<1>1. AdminRoles \cap u.roles = {} /\ AdminRoles \cap nobody.roles = {}
  OBVIOUS
<1>2. UserContext(nobody) = x
  BY <1>1 DEF UserContext
<1>3. x["system_scope"] = "" /\ x["is_admin"] = "False"
  BY <1>1 DEF UserContext
<1>4. /\ x["user_id"] = "U" /\ x["project_id"] = "P" /\ x["tenant_id"] = "P"
      /\ x["domain_id"] = "None" /\ x["user_domain_id"] = "D"
      /\ x["project_domain_id"] = "D" /\ x["project_name"] = "p"
  BY DEF UserContext
<1>5. DOMAIN x = {"user_id", "project_id", "tenant_id", "domain_id", "user_domain_id",
                  "project_domain_id", "project_name", "system_scope", "is_admin"}
  BY DEF UserContext
<1>6. \A a \in DOMAIN x : x[a] \in {"U", "P", "D", "None", "p", "", "False"}
  <2> HIDE DEF x
  <2> QED
    BY <1>3, <1>4, <1>5
<1>7. \A k \in DOMAIN target \ {"enforce_new_defaults"} :
         target[k] \in {"V", "Q", "E", "True", "PRIMARY", "private"}
  BY OthersTarget
<1>8. "all_tenants" \notin DOMAIN target /\ target["visibility"] = "private"
  BY OthersTarget, KeysNamed
<1>9. Asker(u, target) = [roles |-> u.roles, creds |-> x, target |-> target]
      /\ Asker(nobody, target) = [roles |-> nobody.roles, creds |-> x, target |-> target]
  BY <1>2 DEF Asker
<1> HIDE DEF x, target
<1>10. \A a \in DOMAIN x, k \in DOMAIN target \ {"enforce_new_defaults"} : x[a] # target[k]
  BY <1>6, <1>7
<1>11. Stranger(Asker(u, target), Asker(nobody, target))
  <2> DEFINE s == Asker(u, target)
             t == Asker(nobody, target)
  <2>1. /\ s.roles = u.roles /\ s.creds = x /\ s.target = target
        /\ t.roles = nobody.roles /\ t.creds = x /\ t.target = target
    BY <1>9
  <2> HIDE DEF s, t
  <2>2. Stranger(s, t)
    BY <1>3, <1>8, <1>10, <2>1 DEF Stranger
  <2> QED
    BY <2>2 DEF s, t
<1> QED
  BY <1>11 DEF Meets, target

(***************************************************************************)
(* What an answer says is what its user was granted, with the roles that   *)
(* Keystone said, and those have only become more.                         *)
(***************************************************************************)
Said ==
    answer # Nothing /\ answer.outcome = "ok" =>
        /\ answer.rules = AuthorizeAll(answer.services \cap Enforced, answer.user,
                                       TargetOf(answer.object))
        /\ answer.request = "check" => answer.services \subseteq Enforced
        /\ answer.request = "list" => answer.object = <<>>
        /\ answer.user.roles \subseteq user.roles
        /\ answer.user.system => user.system

Tables == user \in Users /\ Said

LEMMA Unnamed == TargetOf(<<>>) = GeneratedTarget
BY DEF TargetOf, Updated, GeneratedTarget

LEMMA InitTables ==
  ASSUME RequestInit
  PROVE  Tables
BY DEF RequestInit, Nothing, Tables, Said

LEMMA SeenLess ==
  ASSUME user \in Users, NEW seen \in Seen
  PROVE  seen.roles = user.roles /\ (seen.system => user.system)
BY UsersAssumption DEF Seen

LEMMA StepTables ==
  ASSUME Tables, [RequestNext]_requestVars
  PROVE  Tables'
<1>1. CASE ListPolicies
  <2>1. PICK seen \in Seen :
          answer' = [request |-> "list", user |-> seen, services |-> SupportedServices,
                     object |-> <<>>, outcome |-> "ok",
                     rules |-> AuthorizeAll(Enforced, seen, GeneratedTarget)]
    BY <1>1 DEF ListPolicies
  <2>2. SupportedServices \cap Enforced = Enforced
    BY DEF Enforced
  <2>3. user' = user
    BY <1>1 DEF ListPolicies
  <2> QED
    BY <2>1, <2>2, <2>3, SeenLess, Unnamed DEF Tables, Said
<1>2. ASSUME NEW services \in Asked, NEW object \in Objects, CheckPolicies(services, object)
      PROVE  Tables'
  <2>1. PICK seen \in Seen :
          answer' = IF services \subseteq Enforced
                    THEN [request |-> "check", user |-> seen, services |-> services,
                          object |-> object, outcome |-> "ok",
                          rules |-> AuthorizeAll(services, seen, TargetOf(object))]
                    ELSE [request |-> "check", user |-> seen, services |-> services,
                          object |-> object, outcome |-> "forbidden", rules |-> {}]
    BY <1>2 DEF CheckPolicies
  <2>2. user' = user
    BY <1>2 DEF CheckPolicies
  <2>3. CASE services \subseteq Enforced
    <3>1. services \cap Enforced = services
      BY <2>3
    <3> QED
      BY <2>1, <2>2, <2>3, <3>1, SeenLess DEF Tables, Said
  <2>4. CASE ~(services \subseteq Enforced)
    BY <2>1, <2>2, <2>4 DEF Tables, Said
  <2> QED
    BY <2>3, <2>4
<1>3. CASE Grant
  BY <1>3 DEF Grant, Tables, Said
<1>4. CASE UNCHANGED requestVars
  BY <1>4 DEF requestVars, Tables, Said
<1> QED
  BY <1>1, <1>2, <1>3, <1>4 DEF RequestNext

(* What is left out for who is granted more, or told in full. *)
LEMMA FewSpared ==
  ASSUME NEW r
  PROVE  /\ Spared("granted", r.service, r) => ForbidsRole(r)
         /\ Spared("private", r.service, r) => AsksShared(r)
         /\ ~Spared("shared", r.service, r)
BY DEF Spared, ForbidsRole, AsksShared

(* What an answer says to be allowed is allowed still, however many roles its user
   has been given since, or the scope of the system, and whatever the users, the
   roles of administrators and the objects asked about: deny_stack_user is the only
   rule of the seventeen tables that a role given can take from. *)
THEOREM RolesTakeNothing == RequestSpec => []RolesOnlyAdd
<1>1. Tables => RolesOnlyAdd
  <2> SUFFICES ASSUME Tables, answer # Nothing, answer.outcome = "ok",
                      NEW r \in answer.rules, r.allowed, ~ForbidsRole(r)
               PROVE  r \in AskedAgain
    BY DEF RolesOnlyAdd, Allowed
  <2> DEFINE now == [roles |-> user.roles, system |-> user.system]
             services == answer.services \cap Enforced
             target == TargetOf(answer.object)
  <2>1. Meets("granted", Asker(answer.user, target), Asker(now, target))
    BY MoreRoles DEF Tables, Said
  <2>2. services \in SUBSET Enforced
    OBVIOUS
  <2>3. r \in AuthorizeAll(services, answer.user, target)
    BY DEF Tables, Said
  <2>4. r \in AuthorizeAll(services, now, target)
    <3> HIDE DEF now, services, target
    <3> QED
      BY <2>1, <2>2, <2>3, AnswerWider, FewSpared
  <2> QED
    BY <2>4 DEF AskedAgain
<1> QED
  BY <1>1, InitTables, StepTables, PTL DEF RequestSpec

(* What an answer about the user's own object says, with the listing of the same. *)
LEMMA SaidOfOwn ==
  ASSUME Tables, Answered("check")
  PROVE  /\ answer.services \subseteq Enforced
         /\ answer.services \cap Enforced = answer.services
         /\ answer.rules = AuthorizeAll(answer.services, answer.user, TargetOf(answer.object))
<1>1. answer # Nothing /\ answer.outcome = "ok" /\ answer.request = "check"
  BY DEF Answered, Nothing
<1> QED
  BY <1>1 DEF Tables, Said

(* What the listing shows as allowed is granted on the user's own object, for every
   user and configuration: of the target that _generate_target makes up, the full
   one has all that a check asks for; and where the object is private, all but what
   Barbican's three checks of shared secrets and containers ask. *)
THEOREM NothingShownInVain == RequestSpec => []ShownIsGranted
<1>1. Tables => ShownIsGranted
  <2> SUFFICES ASSUME Tables, Answered("check"), answer.object \in OwnObjects,
                      NEW r \in Shown(answer.services, answer.user),
                      ~(AsksShared(r) /\ answer.object = OwnPrivate)
               PROVE  r \in Allowed(answer.rules)
    BY DEF ShownIsGranted
  <2> DEFINE full == TargetOf(answer.object)
  <2>1. r \in AuthorizeAll(answer.services, answer.user, GeneratedTarget) /\ r.allowed
    BY SaidOfOwn DEF Shown, Allowed
  <2>2. CASE answer.object = OwnShared
    <3>1. Meets("shared", Asker(answer.user, GeneratedTarget), Asker(answer.user, full))
      BY <2>2, FullerTarget
    <3>2. ~Spared("shared", r.service, r)
      BY FewSpared
    <3>3. r \in AuthorizeAll(answer.services, answer.user, full)
      BY <2>1, <3>1, <3>2, SaidOfOwn, AnswerWider
    <3> QED
      BY <2>1, <3>3, SaidOfOwn DEF Allowed
  <2>3. CASE answer.object = OwnPrivate
    <3>1. Meets("private", Asker(answer.user, GeneratedTarget), Asker(answer.user, full))
      BY FullerTarget
    <3>2. ~Spared("private", r.service, r)
      BY <2>3, FewSpared
    <3>3. r \in AuthorizeAll(answer.services, answer.user, full)
      BY <2>1, <3>1, <3>2, SaidOfOwn, AnswerWider
    <3> QED
      BY <2>1, <3>3, SaidOfOwn DEF Allowed
  <2> QED
    BY <2>2, <2>3 DEF OwnObjects
<1> QED
  BY <1>1, InitTables, StepTables, PTL DEF RequestSpec

(* What is granted on the user's own object is shown by the listing, for every user
   and configuration and every rule of the seventeen tables that is not among
   those of Hidden: no other rule looks at what _generate_target leaves
   out without also being content with what it has. *)
THEOREM NothingElseHidden == RequestSpec => []GrantedIsShown
<1>1. Tables => GrantedIsShown
  <2> SUFFICES ASSUME Tables, Answered("check"), answer.object \in OwnObjects,
                      NEW r \in Allowed(answer.rules), ~IsHidden(r)
               PROVE  r \in Shown(answer.services, answer.user)
    BY DEF GrantedIsShown
  <2>1. /\ r \in AuthorizeAll(answer.services, answer.user, TargetOf(answer.object))
        /\ r.allowed
    BY SaidOfOwn DEF Allowed
  <2>2. ~Spared("beside", r.service, r)
    BY DEF Spared, IsHidden
  <2>3. r \in AuthorizeAll(answer.services, answer.user, GeneratedTarget)
    BY <2>1, <2>2, SaidOfOwn, AnswerWider, LesserTarget
  <2> QED
    BY <2>1, <2>3, SaidOfOwn DEF Shown, Allowed
<1> QED
  BY <1>1, InitTables, StepTables, PTL DEF RequestSpec

(* No table forgets to compare the project: where the roles of readers and members
   are not among those of the administrators, as a reader or a member one may do
   with an object of another project what one may do without any role, and what
   the rules of RoleOnly grant. *)
THEOREM StrangersKeptOut ==
  ASSUME AdminRoles \cap {"reader", "member"} = {}
  PROVE  RequestSpec => []OthersAreClosed
<1>1. Tables => OthersAreClosed
  <2> DEFINE nobody == [roles |-> {}, system |-> FALSE]
  <2> SUFFICES ASSUME Tables, Answered("check"), answer.object = OthersObject,
                      answer.user.roles \subseteq {"reader", "member"},
                      ~answer.user.system,
                      NEW r \in Allowed(answer.rules), ~RoleOnly(r)
               PROVE  r \in AuthorizeAll(answer.services, nobody, TargetOf(OthersObject))
    BY DEF OthersAreClosed
  <2>1. r \in AuthorizeAll(answer.services, answer.user, TargetOf(OthersObject)) /\ r.allowed
    BY SaidOfOwn DEF Allowed
  <2>2. ~Spared("stranger", r.service, r)
    BY DEF Spared, RoleOnly
  <2>3. nobody.roles = {} /\ ~nobody.system
    OBVIOUS
  <2> HIDE DEF nobody
  <2>4. Meets("stranger", Asker(answer.user, TargetOf(OthersObject)),
                          Asker(nobody, TargetOf(OthersObject)))
    BY <2>3, NotTheirs
  <2> QED
    BY <2>1, <2>2, <2>4, SaidOfOwn, AnswerWider
<1> QED
  BY <1>1, InitTables, StepTables, PTL DEF RequestSpec

(***************************************************************************)
(* A reader who lists the rules, on the target that is made up: all that   *)
(* it says of users and of projects is the reader's own.                   *)
(***************************************************************************)
Lists(x) ==
    /\ Role(x, "reader")
    /\ {"user_id", "project_id", "tenant_id"} \subseteq DOMAIN x.creds
    /\ x.creds["tenant_id"] = x.creds["project_id"]
    /\ UserKeys \cup ProjectKeys \subseteq DOMAIN x.target
    /\ "trustee_domain_id" \notin DOMAIN x.target
    /\ \A k \in UserKeys : x.target[k] = x.creds["user_id"]
    /\ \A k \in ProjectKeys : x.target[k] = x.creds["project_id"]

(* A rule that reads, and the resources that a set of rules lets be read. *)
ReadRule(a, b, c) == [resource |-> a, action |-> b, access |-> "read", allowed |-> c]

Readable(T) == {r.resource : r \in {q \in T : q.access = "read" /\ q.allowed}}

(* What rules of S allow to be changed may be read by those of T, or there is no
   rule for that. *)
MayRead(S, T) ==
    \A w \in S : w.access = "write" /\ w.allowed =>
        \/ w.resource \in Readable(T)
        \/ \A r \in T : r.access = "read" => r.resource # w.resource

(* The same of a group of rules, when it is known what has no rule. *)
Accounted(S, Unread, T) ==
    \A r \in S :
        /\ r.access = "write" /\ r.allowed => r.resource \in Readable(T) \cup Unread
        /\ r.access = "read" => r.resource \notin Unread

LEMMA ReadShows ==
  ASSUME NEW T, NEW a, NEW b, NEW c, ReadRule(a, b, c) \in T, c
  PROVE  a \in Readable(T)
BY DEF ReadRule, Readable

(***************************************************************************)
(* One lemma for each table: which checks of those that may change a       *)
(* resource imply those of one that may read it; one rule for each such    *)
(* resource; so, these may be read, at once or with the check; and each    *)
(* group of rules accounted for.                                           *)
(***************************************************************************)
LEMMA BarbicanReadable ==
  ASSUME NEW x, Lists(x)
  PROVE  MayRead(Barbican!Rules(x), Barbican!Rules(x))
<1> DEFINE Unread == {"container_secret", "secretstore_preferred"}
<1>1. /\ (Barbican!NewDefaults(x) /\ Barbican!ManagesContainer(x))
            => (Barbican!NewDefaults(x) /\ (Barbican!ManagesContainer(x)
            \/ Barbican!ContainerAclRead(x)))
      /\ (Barbican!NewDefaults(x) /\ Barbican!SystemAdmin(x))
            => (Barbican!NewDefaults(x) /\ Barbican!SystemReader(x))
      /\ (Barbican!NewDefaults(x) /\ Barbican!ManagesSecret(x))
            => (Barbican!NewDefaults(x) /\ (Barbican!ManagesSecret(x)
            \/ Barbican!SecretAclRead(x)))
      /\ (Barbican!NewDefaults(x) /\ Barbican!SystemAdmin(x))
            => (Barbican!NewDefaults(x) /\ Barbican!ReaderRole(x))
  BY DEF Lists, UserKeys, ProjectKeys, Role, Barbican!Role, Barbican!Is, Barbican!Same,
      Barbican!Literal, Barbican!AdminRole, Barbican!ReaderRole, Barbican!MemberRole,
      Barbican!SystemAdmin, Barbican!SystemReader, Barbican!SecretProjectMatch,
      Barbican!SecretProjectAdmin, Barbican!SecretProjectMember, Barbican!SecretOwner,
      Barbican!SecretIsNotPrivate, Barbican!ContainerProjectMatch,
      Barbican!ContainerProjectAdmin, Barbican!ContainerProjectMember,
      Barbican!ContainerOwner, Barbican!ContainerIsNotPrivate,
      Barbican!ContainerAclRead, Barbican!SecretAclRead, Barbican!NewDefaults,
      Barbican!ManagesSecret, Barbican!ManagesContainer
<1>2. /\ ReadRule("secret_acls", "get", Barbican!NewDefaults(x)
            /\ Barbican!ManagesSecret(x)) \in Barbican!Rules(x)
      /\ ReadRule("container_acls", "get", Barbican!NewDefaults(x)
            /\ Barbican!ManagesContainer(x)) \in Barbican!Rules(x)
      /\ ReadRule("container_consumers", "get", Barbican!NewDefaults(x)
            /\ (Barbican!SystemAdmin(x) \/ Barbican!ManagesContainer(x)
            \/ Barbican!ContainerAclRead(x))) \in Barbican!Rules(x)
      /\ ReadRule("secret_consumers", "get", Barbican!NewDefaults(x)
            /\ (Barbican!SystemAdmin(x) \/ Barbican!ManagesSecret(x)
            \/ Barbican!SecretAclRead(x))) \in Barbican!Rules(x)
      /\ ReadRule("containers", "get", Barbican!NewDefaults(x)
            /\ Barbican!MemberRole(x)) \in Barbican!Rules(x)
      /\ ReadRule("container", "get", Barbican!NewDefaults(x)
            /\ (Barbican!ManagesContainer(x) \/ Barbican!ContainerAclRead(x)))
            \in Barbican!Rules(x)
  BY SMT DEF ReadRule, Barbican!Rules, Barbican!AclsConsumersContainers, Barbican!Reads,
      Barbican!Writes, Barbican!APIRules
<1>3. /\ \A a \in {"orders", "secrets"} : ReadRule(a, "get", Barbican!NewDefaults(x)
            /\ Barbican!MemberRole(x)) \in Barbican!Rules(x)
      /\ ReadRule("order", "get", Barbican!NewDefaults(x)
            /\ Barbican!OrderProjectMember(x)) \in Barbican!Rules(x)
      /\ ReadRule("project_quotas", "get", Barbican!NewDefaults(x)
            /\ Barbican!SystemReader(x)) \in Barbican!Rules(x)
      /\ ReadRule("secret_meta", "get", Barbican!NewDefaults(x)
            /\ (Barbican!ManagesSecret(x) \/ Barbican!SecretAclRead(x)))
            \in Barbican!Rules(x)
      /\ ReadRule("secret", "decrypt", Barbican!NewDefaults(x)
            /\ (Barbican!ManagesSecret(x) \/ Barbican!SecretAclRead(x)))
            \in Barbican!Rules(x)
  BY SMT DEF ReadRule, Barbican!Rules, Barbican!OrdersAndSecrets, Barbican!Reads,
      Barbican!Writes, Barbican!APIRules
<1>4. \A a \in {"transport_key", "transport_keys"} : ReadRule(a, "get",
         Barbican!NewDefaults(x) /\ Barbican!ReaderRole(x)) \in Barbican!Rules(x)
  BY SMT DEF ReadRule, Barbican!Rules, Barbican!StoresAndKeys, Barbican!Reads,
      Barbican!Writes, Barbican!APIRules
<1>5. /\ Barbican!NewDefaults(x) /\ Barbican!ManagesSecret(x) => "secret_acls"
            \in Readable(Barbican!Rules(x))
      /\ Barbican!NewDefaults(x) /\ Barbican!ManagesContainer(x) => "container_acls"
            \in Readable(Barbican!Rules(x))
      /\ Barbican!NewDefaults(x) /\ (Barbican!SystemAdmin(x)
            \/ Barbican!ManagesContainer(x) \/ Barbican!ContainerAclRead(x))
            => "container_consumers" \in Readable(Barbican!Rules(x))
      /\ Barbican!NewDefaults(x) /\ (Barbican!SystemAdmin(x)
            \/ Barbican!ManagesSecret(x) \/ Barbican!SecretAclRead(x))
            => "secret_consumers" \in Readable(Barbican!Rules(x))
      /\ Barbican!NewDefaults(x) /\ Barbican!MemberRole(x) => {"containers", "orders",
            "secrets"} \subseteq Readable(Barbican!Rules(x))
      /\ Barbican!NewDefaults(x) /\ (Barbican!ManagesContainer(x)
            \/ Barbican!ContainerAclRead(x)) => "container"
            \in Readable(Barbican!Rules(x))
      /\ Barbican!NewDefaults(x) /\ Barbican!OrderProjectMember(x) => "order"
            \in Readable(Barbican!Rules(x))
      /\ Barbican!NewDefaults(x) /\ Barbican!SystemReader(x) => "project_quotas"
            \in Readable(Barbican!Rules(x))
      /\ Barbican!NewDefaults(x) /\ (Barbican!ManagesSecret(x)
            \/ Barbican!SecretAclRead(x)) => {"secret_meta", "secret"}
            \subseteq Readable(Barbican!Rules(x))
      /\ Barbican!NewDefaults(x) /\ Barbican!ReaderRole(x) => {"transport_key",
            "transport_keys"} \subseteq Readable(Barbican!Rules(x))
  BY <1>2, <1>3, <1>4, ReadShows
<1>6. Accounted(Barbican!AclsConsumersContainers(x), Unread, Barbican!Rules(x))
  BY <1>1, <1>5, BarbicanBoolean, SMT DEF Accounted, Barbican!AclsConsumersContainers,
      Barbican!Reads, Barbican!Writes, Barbican!APIRules
<1>7. Accounted(Barbican!OrdersAndSecrets(x), Unread, Barbican!Rules(x))
  BY <1>1, <1>5, BarbicanBoolean, SMT DEF Accounted, Barbican!OrdersAndSecrets,
      Barbican!Reads, Barbican!Writes, Barbican!APIRules
<1>8. Accounted(Barbican!StoresAndKeys(x), Unread, Barbican!Rules(x))
  BY <1>1, <1>5, BarbicanBoolean, SMT DEF Accounted, Barbican!StoresAndKeys,
      Barbican!Reads, Barbican!Writes, Barbican!APIRules
<1>9. Accounted(Barbican!NamedMatches(x), Unread, Barbican!Rules(x))
  BY SMT DEF Accounted, Barbican!NamedMatches, Barbican!Checks, Barbican!APIRules
<1>10. Accounted(Barbican!NamedRoles(x), Unread, Barbican!Rules(x))
  BY SMT DEF Accounted, Barbican!NamedRoles, Barbican!Checks, Barbican!APIRules
<1> QED
  BY <1>6, <1>7, <1>8, <1>9, <1>10 DEF Accounted, MayRead, Barbican!Rules

LEMMA CinderReadable ==
  ASSUME NEW x, Lists(x)
  PROVE  MayRead(Cinder!Rules(x), Cinder!Rules(x))
<1> DEFINE Unread == {"workers", "snapshot_admin_actions", "backup_admin_actions",
      "snapshot_actions", "volume_admin_actions", "volume_actions"}
<1>1. /\ ReadRule("volume", "get_snapshot_metadata",
            Cinder!XenaSystemAdminOrProjectReader(x)) \in Cinder!Rules(x)
      /\ ReadRule("message", "get_all", Cinder!XenaSystemAdminOrProjectReader(x))
            \in Cinder!Rules(x)
      /\ ReadRule("clusters", "get_all", Cinder!AdminApi(x)) \in Cinder!Rules(x)
      /\ ReadRule("volume_extension", "extended_snapshot_attributes",
            Cinder!XenaSystemAdminOrProjectReader(x)) \in Cinder!Rules(x)
  BY SMT DEF ReadRule, Cinder!Rules, Cinder!AttachmentsAndSnapshots, Cinder!Reads,
      Cinder!Writes, Cinder!APIRules
<1>2. /\ ReadRule("snapshot_extension", "list_manageable", Cinder!AdminApi(x))
            \in Cinder!Rules(x)
      /\ ReadRule("backup", "get_all", Cinder!XenaSystemAdminOrProjectReader(x))
            \in Cinder!Rules(x)
  BY SMT DEF ReadRule, Cinder!Rules, Cinder!Backups, Cinder!Reads, Cinder!Writes,
      Cinder!APIRules
<1>3. ReadRule("group", "get_all", Cinder!XenaSystemAdminOrProjectReader(x))
         \in Cinder!Rules(x)
  BY SMT DEF ReadRule, Cinder!Rules, Cinder!Groups, Cinder!Reads, Cinder!Writes,
      Cinder!APIRules
<1>4. /\ ReadRule("qos_specs_manage", "get_all", Cinder!AdminApi(x)) \in Cinder!Rules(x)
      /\ ReadRule("quota_classes", "get", Cinder!AdminApi(x)) \in Cinder!Rules(x)
      /\ ReadRule("services", "index", Cinder!AdminApi(x)) \in Cinder!Rules(x)
      /\ ReadRule("quotas", "show", Cinder!XenaSystemAdminOrProjectReader(x))
            \in Cinder!Rules(x)
  BY SMT DEF ReadRule, Cinder!Rules, Cinder!QosQuotasServices, Cinder!Reads,
      Cinder!Writes, Cinder!APIRules
<1>5. ReadRule("volume_type_encryption", "get", Cinder!AdminApi(x)) \in Cinder!Rules(x)
  BY SMT DEF ReadRule, Cinder!Rules, Cinder!Types, Cinder!Reads, Cinder!Writes,
      Cinder!APIRules
<1>6. ReadRule("volume_type_access", "get_all_for_type", Cinder!AdminApi(x))
         \in Cinder!Rules(x)
  BY SMT DEF ReadRule, Cinder!Rules, Cinder!VolumeActions, Cinder!Reads, Cinder!Writes,
      Cinder!APIRules
<1>7. /\ ReadRule("volume_image_metadata", "show",
            Cinder!XenaSystemAdminOrProjectReader(x)) \in Cinder!Rules(x)
      /\ ReadRule("types_extra_specs", "index",
            Cinder!XenaSystemAdminOrProjectReader(x)) \in Cinder!Rules(x)
  BY SMT DEF ReadRule, Cinder!Rules, Cinder!Volumes, Cinder!Reads, Cinder!Writes,
      Cinder!APIRules
<1>8. /\ {"volume", "message", "volume_extension", "backup", "group", "quotas",
            "volume_image_metadata", "types_extra_specs"}
            \subseteq Readable(Cinder!Rules(x))
      /\ Cinder!AdminApi(x) => {"clusters", "snapshot_extension", "qos_specs_manage",
            "quota_classes", "services", "volume_type_encryption", "volume_type_access"}
            \subseteq Readable(Cinder!Rules(x))
  <2>1. Cinder!XenaSystemAdminOrProjectReader(x)
    BY DEF Lists, UserKeys, ProjectKeys, Role, Cinder!Role, Cinder!Same,
        Cinder!AdminRole, Cinder!ReaderRole, Cinder!OwnProject, Cinder!ProjectReader,
        Cinder!XenaSystemAdminOrProjectReader
  <2> QED
    BY <2>1, <1>1, <1>2, <1>3, <1>4, <1>5, <1>6, <1>7, ReadShows
<1>9. Accounted(Cinder!AttachmentsAndSnapshots(x), Unread, Cinder!Rules(x))
  BY <1>8, SMT DEF Accounted, Cinder!AttachmentsAndSnapshots, Cinder!Reads,
      Cinder!Writes, Cinder!APIRules
<1>10. Accounted(Cinder!Backups(x), Unread, Cinder!Rules(x))
  BY <1>8, SMT DEF Accounted, Cinder!Backups, Cinder!Reads, Cinder!Writes,
      Cinder!APIRules
<1>11. Accounted(Cinder!Groups(x), Unread, Cinder!Rules(x))
  BY <1>8, SMT DEF Accounted, Cinder!Groups, Cinder!Reads, Cinder!Writes,
      Cinder!APIRules
<1>12. Accounted(Cinder!QosQuotasServices(x), Unread, Cinder!Rules(x))
  BY <1>8, SMT DEF Accounted, Cinder!QosQuotasServices, Cinder!Reads, Cinder!Writes,
      Cinder!APIRules
<1>13. Accounted(Cinder!Types(x), Unread, Cinder!Rules(x))
  BY <1>8, SMT DEF Accounted, Cinder!Types, Cinder!Reads, Cinder!Writes, Cinder!APIRules
<1>14. Accounted(Cinder!VolumeActions(x), Unread, Cinder!Rules(x))
  BY <1>8, SMT DEF Accounted, Cinder!VolumeActions, Cinder!Reads, Cinder!Writes,
      Cinder!APIRules
<1>15. Accounted(Cinder!TransfersAndMetadata(x), Unread, Cinder!Rules(x))
  BY <1>8, SMT DEF Accounted, Cinder!TransfersAndMetadata, Cinder!Reads, Cinder!Writes,
      Cinder!APIRules
<1>16. Accounted(Cinder!Volumes(x), Unread, Cinder!Rules(x))
  BY <1>8, SMT DEF Accounted, Cinder!Volumes, Cinder!Reads, Cinder!Writes,
      Cinder!APIRules
<1>17. Accounted(Cinder!Defaults(x), Unread, Cinder!Rules(x))
  BY <1>8, SMT DEF Accounted, Cinder!Defaults, Cinder!Reads, Cinder!Writes,
      Cinder!APIRules
<1>18. Accounted(Cinder!NamedChecks(x), Unread, Cinder!Rules(x))
  BY SMT DEF Accounted, Cinder!NamedChecks, Cinder!Checks, Cinder!APIRules
<1> QED
  BY <1>9, <1>10, <1>11, <1>12, <1>13, <1>14, <1>15, <1>16, <1>17, <1>18 DEF Accounted,
      MayRead, Cinder!Rules

LEMMA DesignateReadable ==
  ASSUME NEW x, Lists(x)
  PROVE  MayRead(Designate!Rules(x), Designate!Rules(x))
<1> DEFINE Unread == {"use_blacklisted_zone", "zone_create_forced_pool", "xfr_zone",
      "abandon_zone"}
<1>1. /\ ReadRule("blacklist", "find", Designate!AdminRole(x)) \in Designate!Rules(x)
      /\ ReadRule("quota", "get", Designate!AdminOrReader(x)
            \/ (Designate!Literal(x, "True", "all_tenants") /\ Designate!ReaderRole(x)))
            \in Designate!Rules(x)
      /\ ReadRule("recordset", "get", Designate!AdminOrReader(x)
            \/ Designate!Literal(x, "True", "zone_shared")) \in Designate!Rules(x)
  BY SMT DEF ReadRule, Designate!Rules, Designate!Recordsets, Designate!Reads,
      Designate!Writes, Designate!APIRules
<1>2. /\ ReadRule("zone", "get", Designate!AdminOrReader(x)
            \/ Designate!Literal(x, "True", "zone_shared")) \in Designate!Rules(x)
      /\ \A a \in {"tld", "tsigkey"} : ReadRule(a, "find", Designate!AdminRole(x))
            \in Designate!Rules(x)
  BY SMT DEF ReadRule, Designate!Rules, Designate!ZonesAndKeys, Designate!Reads,
      Designate!Writes, Designate!APIRules
<1>3. /\ \A a \in {"zone_export", "zone_import"} : ReadRule(a, "find",
            Designate!AdminOrReader(x)) \in Designate!Rules(x)
      /\ ReadRule("zone_transfer_request", "find", Designate!Anyone(x))
            \in Designate!Rules(x)
      /\ ReadRule("zone_transfer_accept", "get", Designate!AdminOrReader(x))
            \in Designate!Rules(x)
  BY SMT DEF ReadRule, Designate!Rules, Designate!Transfers, Designate!Reads,
      Designate!Writes, Designate!APIRules
<1>4. /\ {"quota", "recordset", "zone", "zone_export", "zone_import",
            "zone_transfer_accept", "zone_transfer_request"}
            \subseteq Readable(Designate!Rules(x))
      /\ Designate!AdminRole(x) => {"blacklist", "tld", "tsigkey"}
            \subseteq Readable(Designate!Rules(x))
  <2>1. /\ Designate!AdminOrReader(x) \/ (Designate!Literal(x, "True", "all_tenants")
              /\ Designate!ReaderRole(x))
        /\ Designate!AdminOrReader(x) \/ Designate!Literal(x, "True", "zone_shared")
        /\ Designate!AdminOrReader(x)
        /\ Designate!Anyone(x)
    BY DEF Lists, UserKeys, ProjectKeys, Role, Designate!Role, Designate!Same,
        Designate!Literal, Designate!Anyone, Designate!AdminRole, Designate!ReaderRole,
        Designate!OwnProject, Designate!ProjectReader, Designate!AdminOrReader
  <2> QED
    BY <2>1, <1>1, <1>2, <1>3, ReadShows
<1>5. Accounted(Designate!Recordsets(x), Unread, Designate!Rules(x))
  BY <1>4, SMT DEF Accounted, Designate!Recordsets, Designate!Reads, Designate!Writes,
      Designate!APIRules
<1>6. Accounted(Designate!ZonesAndKeys(x), Unread, Designate!Rules(x))
  BY <1>4, SMT DEF Accounted, Designate!ZonesAndKeys, Designate!Reads, Designate!Writes,
      Designate!APIRules
<1>7. Accounted(Designate!Transfers(x), Unread, Designate!Rules(x))
  BY <1>4, SMT DEF Accounted, Designate!Transfers, Designate!Reads, Designate!Writes,
      Designate!APIRules
<1>8. Accounted(Designate!NamedChecks(x), Unread, Designate!Rules(x))
  BY SMT DEF Accounted, Designate!NamedChecks, Designate!Checks, Designate!APIRules
<1> QED
  BY <1>5, <1>6, <1>7, <1>8 DEF Accounted, MayRead, Designate!Rules

LEMMA GlanceReadable ==
  ASSUME NEW x, Lists(x)
  PROVE  MayRead(Glance!Rules(x), Glance!Rules(x))
<1> DEFINE Unread == {"deactivate", "reactivate", "tasks_api_access",
      "metadef_resource_type_association", "delete"}
<1>1. /\ ReadRule("image", "get", Glance!AdminRole(x) \/ (Glance!ReaderRole(x)
            /\ (Glance!OwnProject(x) \/ Glance!Same(x, "project_id", "member_id")
            \/ Glance!Literal(x, "community", "visibility")
            \/ Glance!Literal(x, "public", "visibility")
            \/ Glance!Literal(x, "shared", "visibility")))) \in Glance!Rules(x)
      /\ ReadRule("image_location", "get", Glance!AdminOrReader(x)) \in Glance!Rules(x)
      /\ ReadRule("member", "get", Glance!AdminRole(x) \/ (Glance!ReaderRole(x)
            /\ (Glance!OwnProject(x) \/ Glance!Same(x, "project_id", "member_id"))))
            \in Glance!Rules(x)
  BY SMT DEF ReadRule, Glance!Rules, Glance!Images, Glance!Reads, Glance!Writes,
      Glance!APIRules
<1>2. /\ ReadRule("task", "get", Glance!Default(x)) \in Glance!Rules(x)
      /\ \A a \in {"metadef_namespace", "metadef_object"} : ReadRule(a, "get",
            Glance!Visible(x)) \in Glance!Rules(x)
  BY SMT DEF ReadRule, Glance!Rules, Glance!Metadefs, Glance!Reads, Glance!Writes,
      Glance!APIRules
<1>3. \A a \in {"metadef_property", "metadef_tag"} : ReadRule(a, "get",
         Glance!Visible(x)) \in Glance!Rules(x)
  BY SMT DEF ReadRule, Glance!Rules, Glance!PropertiesTagsCache, Glance!Reads,
      Glance!Writes, Glance!APIRules
<1>4. {"image", "image_location", "member", "task", "metadef_namespace",
         "metadef_object", "metadef_property", "metadef_tag"}
         \subseteq Readable(Glance!Rules(x))
  <2>1. /\ Glance!AdminRole(x) \/ (Glance!ReaderRole(x) /\ (Glance!OwnProject(x)
              \/ Glance!Same(x, "project_id", "member_id")
              \/ Glance!Literal(x, "community", "visibility")
              \/ Glance!Literal(x, "public", "visibility")
              \/ Glance!Literal(x, "shared", "visibility")))
        /\ Glance!AdminOrReader(x)
        /\ Glance!AdminRole(x) \/ (Glance!ReaderRole(x) /\ (Glance!OwnProject(x)
              \/ Glance!Same(x, "project_id", "member_id")))
        /\ Glance!Default(x)
        /\ Glance!Visible(x)
    BY DEF Lists, UserKeys, ProjectKeys, Role, Glance!Role, Glance!Same, Glance!Literal,
        Glance!AdminRole, Glance!ReaderRole, Glance!OwnProject, Glance!ProjectReader,
        Glance!Default, Glance!AdminOrReader, Glance!Visible
  <2> QED
    BY <2>1, <1>1, <1>2, <1>3, ReadShows
<1>5. Accounted(Glance!Images(x), Unread, Glance!Rules(x))
  BY <1>4, SMT DEF Accounted, Glance!Images, Glance!Reads, Glance!Writes,
      Glance!APIRules
<1>6. Accounted(Glance!Metadefs(x), Unread, Glance!Rules(x))
  BY <1>4, SMT DEF Accounted, Glance!Metadefs, Glance!Reads, Glance!Writes,
      Glance!APIRules
<1>7. Accounted(Glance!PropertiesTagsCache(x), Unread, Glance!Rules(x))
  BY <1>4, SMT DEF Accounted, Glance!PropertiesTagsCache, Glance!Reads, Glance!Writes,
      Glance!APIRules
<1>8. Accounted(Glance!NamedChecks(x), Unread, Glance!Rules(x))
  BY SMT DEF Accounted, Glance!NamedChecks, Glance!Checks, Glance!APIRules
<1> QED
  BY <1>5, <1>6, <1>7, <1>8 DEF Accounted, MayRead, Glance!Rules

LEMMA HeatReadable ==
  ASSUME NEW x, Lists(x)
  PROVE  MayRead(Heat!Rules(x), Heat!Rules(x))
<1> DEFINE Unread == {"actions"}
<1>1. \A a \in {"resource", "software_configs"} : ReadRule(a, "index",
         Heat!StackReader(x)) \in Heat!Rules(x)
  BY SMT DEF ReadRule, Heat!Rules, Heat!ResourcesAndConfigs, Heat!Reads, Heat!Writes,
      Heat!APIRules
<1>2. ReadRule("software_deployments", "index", Heat!StackReader(x)) \in Heat!Rules(x)
  BY SMT DEF ReadRule, Heat!Rules, Heat!Deployments, Heat!Reads, Heat!Writes,
      Heat!APIRules
<1>3. ReadRule("stacks", "detail", Heat!StackReader(x)) \in Heat!Rules(x)
  BY SMT DEF ReadRule, Heat!Rules, Heat!Stacks, Heat!Reads, Heat!Writes, Heat!APIRules
<1>4. {"resource", "software_configs", "software_deployments", "stacks"}
         \subseteq Readable(Heat!Rules(x))
  <2>1. Heat!StackReader(x)
    BY DEF Lists, UserKeys, ProjectKeys, Role, Heat!Role, Heat!Is, Heat!Same,
        Heat!ReaderRole, Heat!OwnProject, Heat!ProjectReader, Heat!SystemReader,
        Heat!StackReader
  <2> QED
    BY <2>1, <1>1, <1>2, <1>3, ReadShows
<1>5. Accounted(Heat!ResourcesAndConfigs(x), Unread, Heat!Rules(x))
  BY <1>4, SMT DEF Accounted, Heat!ResourcesAndConfigs, Heat!Reads, Heat!Writes,
      Heat!APIRules
<1>6. Accounted(Heat!Deployments(x), Unread, Heat!Rules(x))
  BY <1>4, SMT DEF Accounted, Heat!Deployments, Heat!Reads, Heat!Writes, Heat!APIRules
<1>7. Accounted(Heat!Stacks(x), Unread, Heat!Rules(x))
  BY <1>4, SMT DEF Accounted, Heat!Stacks, Heat!Reads, Heat!Writes, Heat!APIRules
<1>8. Accounted(Heat!Snapshots(x), Unread, Heat!Rules(x))
  BY <1>4, SMT DEF Accounted, Heat!Snapshots, Heat!Reads, Heat!Writes, Heat!APIRules
<1>9. Accounted(Heat!NamedChecks(x), Unread, Heat!Rules(x))
  BY SMT DEF Accounted, Heat!NamedChecks, Heat!Checks, Heat!APIRules
<1> QED
  BY <1>5, <1>6, <1>7, <1>8, <1>9 DEF Accounted, MayRead, Heat!Rules

LEMMA IronicReadable ==
  ASSUME NEW x, Lists(x)
  PROVE  MayRead(Ironic!Rules(x), Ironic!Rules(x))
<1> DEFINE Unread == {"events"}
<1>1. /\ Ironic!SystemAdmin(x) => Ironic!SystemReader(x)
      /\ Ironic!SystemMember(x) => Ironic!SystemReader(x)
  BY DEF Lists, UserKeys, ProjectKeys, Role, Ironic!Role, Ironic!Is, Ironic!AdminRole,
      Ironic!ReaderRole, Ironic!MemberRole, Ironic!SystemAdmin, Ironic!SystemReader,
      Ironic!SystemMember
<1>2. ReadRule("node", "list", Ironic!ReaderRole(x)) \in Ironic!Rules(x)
  BY SMT DEF ReadRule, Ironic!Rules, Ironic!Nodes, Ironic!Reads, Ironic!Writes,
      Ironic!APIRules
<1>3. ReadRule("port", "get", Ironic!NodeReader(x)) \in Ironic!Rules(x)
  BY SMT DEF ReadRule, Ironic!Rules, Ironic!NodeParts, Ironic!Reads, Ironic!Writes,
      Ironic!APIRules
<1>4. /\ ReadRule("portgroup", "get", Ironic!NodeReader(x)) \in Ironic!Rules(x)
      /\ ReadRule("chassis", "get", Ironic!SystemReader(x)) \in Ironic!Rules(x)
      /\ ReadRule("driver", "ipa_lookup", Ironic!Anyone(x)) \in Ironic!Rules(x)
  BY SMT DEF ReadRule, Ironic!Rules, Ironic!PortgroupsAndDrivers, Ironic!Reads,
      Ironic!Writes, Ironic!APIRules
<1>5. /\ \A a \in {"volume", "allocation"} : ReadRule(a, "list", Ironic!ReaderRole(x))
            \in Ironic!Rules(x)
      /\ ReadRule("deploy_template", "get", Ironic!SystemReader(x)) \in Ironic!Rules(x)
  BY SMT DEF ReadRule, Ironic!Rules, Ironic!VolumesAndAllocations, Ironic!Reads,
      Ironic!Writes, Ironic!APIRules
<1>6. /\ {"node", "volume", "allocation", "port", "portgroup", "driver"}
            \subseteq Readable(Ironic!Rules(x))
      /\ Ironic!SystemReader(x) => {"chassis", "deploy_template"}
            \subseteq Readable(Ironic!Rules(x))
  <2>1. /\ Ironic!ReaderRole(x)
        /\ Ironic!NodeReader(x)
        /\ Ironic!Anyone(x)
    BY DEF Lists, UserKeys, ProjectKeys, Role, Ironic!Role, Ironic!Is, Ironic!Same,
        Ironic!Anyone, Ironic!ReaderRole, Ironic!SystemReader, Ironic!NodeReader
  <2> QED
    BY <2>1, <1>2, <1>3, <1>4, <1>5, ReadShows
<1>7. Accounted(Ironic!Nodes(x), Unread, Ironic!Rules(x))
  BY <1>1, <1>6, SMT DEF Accounted, Ironic!Nodes, Ironic!Reads, Ironic!Writes,
      Ironic!APIRules
<1>8. Accounted(Ironic!NodeStates(x), Unread, Ironic!Rules(x))
  BY <1>1, <1>6, SMT DEF Accounted, Ironic!NodeStates, Ironic!Reads, Ironic!Writes,
      Ironic!APIRules
<1>9. Accounted(Ironic!NodeParts(x), Unread, Ironic!Rules(x))
  BY <1>1, <1>6, SMT DEF Accounted, Ironic!NodeParts, Ironic!Reads, Ironic!Writes,
      Ironic!APIRules
<1>10. Accounted(Ironic!PortgroupsAndDrivers(x), Unread, Ironic!Rules(x))
  BY <1>1, <1>6, SMT DEF Accounted, Ironic!PortgroupsAndDrivers, Ironic!Reads,
      Ironic!Writes, Ironic!APIRules
<1>11. Accounted(Ironic!VolumesAndAllocations(x), Unread, Ironic!Rules(x))
  BY <1>1, <1>6, SMT DEF Accounted, Ironic!VolumesAndAllocations, Ironic!Reads,
      Ironic!Writes, Ironic!APIRules
<1>12. Accounted(Ironic!NamedChecks(x), Unread, Ironic!Rules(x))
  BY SMT DEF Accounted, Ironic!NamedChecks, Ironic!Checks, Ironic!APIRules
<1> QED
  BY <1>7, <1>8, <1>9, <1>10, <1>11, <1>12 DEF Accounted, MayRead, Ironic!Rules

LEMMA InspectorReadable ==
  ASSUME NEW x, Lists(x)
  PROVE  MayRead(Inspector!Rules(x), Inspector!Rules(x))
<1>1. Inspector!SystemAdmin(x) => Inspector!SystemReader(x)
  BY DEF Lists, UserKeys, ProjectKeys, Role, Inspector!Role, Inspector!Is,
      Inspector!AdminRole, Inspector!ReaderRole, Inspector!SystemAdmin,
      Inspector!SystemReader
<1>2. /\ ReadRule("introspection", "use", Inspector!PublicApi(x)) \in Inspector!Rules(x)
      /\ ReadRule("introspection", "status", Inspector!SystemReader(x))
            \in Inspector!Rules(x)
  BY SMT DEF ReadRule, Inspector!Rules, Inspector!Introspection, Inspector!Reads,
      Inspector!Writes, Inspector!APIRules
<1>3. /\ Inspector!PublicApi(x) => "introspection" \in Readable(Inspector!Rules(x))
      /\ Inspector!SystemReader(x) => "introspection" \in Readable(Inspector!Rules(x))
  BY <1>2, ReadShows
<1>4. Accounted(Inspector!Introspection(x), {}, Inspector!Rules(x))
  BY <1>1, <1>3, SMT DEF Accounted, Inspector!Introspection, Inspector!Reads,
      Inspector!Writes, Inspector!APIRules
<1>5. Accounted(Inspector!NamedChecks(x), {}, Inspector!Rules(x))
  BY SMT DEF Accounted, Inspector!NamedChecks, Inspector!Checks, Inspector!APIRules
<1> QED
  BY <1>4, <1>5 DEF Accounted, MayRead, Inspector!Rules

LEMMA KeystoneReadable ==
  ASSUME NEW x, Lists(x)
  PROVE  MayRead(Keystone!Rules(x), Keystone!Rules(x))
<1> DEFINE Unread == {"request_token", "endpoint_group_to_project",
      "endpoint_group_from_project", "user_from_group", "user_to_group",
      "endpoint_to_project", "endpoint_from_project"}
<1>1. /\ Keystone!SystemAdmin(x) => Keystone!SystemReader(x)
      /\ Keystone!SystemAdmin(x) => (Keystone!SystemReader(x)
            \/ Keystone!Same(x, "token.domain.id", "target.domain.id")
            \/ Keystone!Same(x, "token.project.domain.id", "target.domain.id"))
      /\ (Keystone!SystemAdmin(x) \/ (Keystone!AdminInDomains(x)
            /\ Keystone!RoleInDomain(x))) => (Keystone!SystemReader(x)
            \/ (Keystone!ReaderInDomains(x) /\ Keystone!RoleInDomain(x)))
      /\ (Keystone!SystemAdmin(x) \/ (Keystone!AdminRole(x)
            /\ Keystone!Same(x, "domain_id", "target.group.domain_id")))
            => (Keystone!SystemReader(x) \/ (Keystone!ReaderRole(x)
            /\ Keystone!Same(x, "domain_id", "target.group.domain_id")))
  BY DEF Lists, UserKeys, ProjectKeys, Role, Keystone!Role, Keystone!Is, Keystone!Same,
      Keystone!Literal, Keystone!AdminRole, Keystone!ReaderRole, Keystone!SystemAdmin,
      Keystone!SystemReader, Keystone!ReaderInDomains, Keystone!AdminInDomains,
      Keystone!RoleInDomain
<1>2. /\ ReadRule("access_rule", "get", Keystone!SystemReader(x)
            \/ Keystone!Same(x, "user_id", "target.user.id")) \in Keystone!Rules(x)
      /\ ReadRule("access_token", "get", Keystone!AdminRequired(x))
            \in Keystone!Rules(x)
      /\ ReadRule("application_credential", "get", Keystone!SystemReader(x)
            \/ Keystone!Owner(x)) \in Keystone!Rules(x)
  BY SMT DEF ReadRule, Keystone!Rules, Keystone!Credentials, Keystone!Reads,
      Keystone!Writes, Keystone!APIRules
<1>3. /\ \A a \in {"consumer", "domain_config"} : ReadRule(a, "get",
            Keystone!SystemReader(x)) \in Keystone!Rules(x)
      /\ ReadRule("domain", "get", Keystone!SystemReader(x)
            \/ Keystone!Same(x, "token.domain.id", "target.domain.id")
            \/ Keystone!Same(x, "token.project.domain.id", "target.domain.id"))
            \in Keystone!Rules(x)
      /\ ReadRule("credential", "get", Keystone!SystemReader(x)
            \/ Keystone!Same(x, "user_id", "target.credential.user_id"))
            \in Keystone!Rules(x)
  BY SMT DEF ReadRule, Keystone!Rules, Keystone!ConsumersAndDomains, Keystone!Reads,
      Keystone!Writes, Keystone!APIRules
<1>4. /\ ReadRule("endpoint", "get", Keystone!SystemReader(x)) \in Keystone!Rules(x)
      /\ ReadRule("endpoint_group", "list", Keystone!SystemReader(x))
            \in Keystone!Rules(x)
  BY SMT DEF ReadRule, Keystone!Rules, Keystone!Endpoints, Keystone!Reads,
      Keystone!Writes, Keystone!APIRules
<1>5. /\ ReadRule("grant", "check", Keystone!SystemReader(x)
            \/ (Keystone!ReaderInDomains(x) /\ Keystone!RoleInDomain(x)))
            \in Keystone!Rules(x)
      /\ \A a \in {"system_grant_for_user", "system_grant_for_group"} : ReadRule(a,
            "check", Keystone!SystemReader(x)) \in Keystone!Rules(x)
      /\ ReadRule("group", "get", Keystone!SystemReader(x) \/ (Keystone!ReaderRole(x)
            /\ Keystone!Same(x, "domain_id", "target.group.domain_id")))
            \in Keystone!Rules(x)
  BY SMT DEF ReadRule, Keystone!Rules, Keystone!GrantsAndGroups, Keystone!Reads,
      Keystone!Writes, Keystone!APIRules
<1>6. /\ ReadRule("identity_provider", "list", Keystone!SystemReader(x))
            \in Keystone!Rules(x)
      /\ ReadRule("limit", "list", Keystone!Anyone(x)) \in Keystone!Rules(x)
      /\ ReadRule("implied_role", "get", Keystone!SystemReader(x)) \in Keystone!Rules(x)
  BY SMT DEF ReadRule, Keystone!Rules, Keystone!ProvidersAndLimits, Keystone!Reads,
      Keystone!Writes, Keystone!APIRules
<1>7. /\ \A a \in {"mapping", "policy"} : ReadRule(a, "get", Keystone!SystemReader(x))
            \in Keystone!Rules(x)
      /\ \A a \in {"policy_association_for_endpoint", "policy_association_for_service",
            "policy_association_for_region_and_service"} : ReadRule(a, "check",
            Keystone!SystemReader(x)) \in Keystone!Rules(x)
  BY SMT DEF ReadRule, Keystone!Rules, Keystone!MappingsAndPolicies, Keystone!Reads,
      Keystone!Writes, Keystone!APIRules
<1>8. /\ ReadRule("project", "get", Keystone!ReadsProject(x)) \in Keystone!Rules(x)
      /\ ReadRule("project_tag", "list", Keystone!ReadsProject(x)) \in Keystone!Rules(x)
  BY SMT DEF ReadRule, Keystone!Rules, Keystone!Projects, Keystone!Reads,
      Keystone!Writes, Keystone!APIRules
<1>9. /\ \A a \in {"protocol", "role"} : ReadRule(a, "get", Keystone!SystemReader(x))
            \in Keystone!Rules(x)
      /\ \A a \in {"region", "registered_limit"} : ReadRule(a, "get",
            Keystone!Anyone(x)) \in Keystone!Rules(x)
  BY SMT DEF ReadRule, Keystone!Rules, Keystone!RegionsAndRoles, Keystone!Reads,
      Keystone!Writes, Keystone!APIRules
<1>10. /\ \A a \in {"domain_role", "service"} : ReadRule(a, "get",
             Keystone!SystemReader(x)) \in Keystone!Rules(x)
       /\ ReadRule("service_provider", "list", Keystone!SystemReader(x))
             \in Keystone!Rules(x)
       /\ ReadRule("token", "check", Keystone!SystemReader(x)
             \/ Keystone!TokenSubject(x)) \in Keystone!Rules(x)
  BY SMT DEF ReadRule, Keystone!Rules, Keystone!ServicesAndTokens, Keystone!Reads,
      Keystone!Writes, Keystone!APIRules
<1>11. /\ ReadRule("trust", "get", Keystone!SystemReader(x)
             \/ Keystone!Same(x, "user_id", "target.trust.trustor_user_id")
             \/ Keystone!Same(x, "user_id", "target.trust.trustee_user_id"))
             \in Keystone!Rules(x)
       /\ ReadRule("user", "get", Keystone!SystemReader(x) \/ (Keystone!ReaderRole(x)
             /\ Keystone!Same(x, "token.domain.id", "target.user.domain_id"))
             \/ Keystone!Same(x, "user_id", "target.user.id")) \in Keystone!Rules(x)
  BY SMT DEF ReadRule, Keystone!Rules, Keystone!TrustsAndUsers, Keystone!Reads,
      Keystone!Writes, Keystone!APIRules
<1>12. /\ {"access_rule", "application_credential", "credential", "limit", "region",
             "registered_limit", "project", "project_tag", "token", "trust", "user"}
             \subseteq Readable(Keystone!Rules(x))
       /\ Keystone!AdminRequired(x) => "access_token" \in Readable(Keystone!Rules(x))
       /\ Keystone!SystemReader(x) => {"consumer", "domain_config", "endpoint",
             "endpoint_group", "system_grant_for_user", "system_grant_for_group",
             "identity_provider", "implied_role", "mapping", "policy",
             "policy_association_for_endpoint", "policy_association_for_service",
             "policy_association_for_region_and_service", "protocol", "role",
             "domain_role", "service", "service_provider"}
             \subseteq Readable(Keystone!Rules(x))
       /\ Keystone!SystemReader(x)
             \/ Keystone!Same(x, "token.domain.id", "target.domain.id")
             \/ Keystone!Same(x, "token.project.domain.id", "target.domain.id")
             => "domain" \in Readable(Keystone!Rules(x))
       /\ Keystone!SystemReader(x) \/ (Keystone!ReaderInDomains(x)
             /\ Keystone!RoleInDomain(x)) => "grant" \in Readable(Keystone!Rules(x))
       /\ Keystone!SystemReader(x) \/ (Keystone!ReaderRole(x)
             /\ Keystone!Same(x, "domain_id", "target.group.domain_id")) => "group"
             \in Readable(Keystone!Rules(x))
  <2>1. /\ Keystone!SystemReader(x) \/ Keystone!Same(x, "user_id", "target.user.id")
        /\ Keystone!SystemReader(x) \/ Keystone!Owner(x)
        /\ Keystone!SystemReader(x)
              \/ Keystone!Same(x, "user_id", "target.credential.user_id")
        /\ Keystone!Anyone(x)
        /\ Keystone!ReadsProject(x)
        /\ Keystone!SystemReader(x) \/ Keystone!TokenSubject(x)
        /\ Keystone!SystemReader(x)
              \/ Keystone!Same(x, "user_id", "target.trust.trustor_user_id")
              \/ Keystone!Same(x, "user_id", "target.trust.trustee_user_id")
        /\ Keystone!SystemReader(x) \/ (Keystone!ReaderRole(x)
              /\ Keystone!Same(x, "token.domain.id", "target.user.domain_id"))
              \/ Keystone!Same(x, "user_id", "target.user.id")
    BY DEF Lists, UserKeys, ProjectKeys, Role, Keystone!Role, Keystone!Is,
        Keystone!Same, Keystone!Anyone, Keystone!ReaderRole, Keystone!SystemReader,
        Keystone!Owner, Keystone!TokenSubject, Keystone!ReadsProject
  <2> QED
    BY <2>1, <1>2, <1>3, <1>4, <1>5, <1>6, <1>7, <1>8, <1>9, <1>10, <1>11, ReadShows
<1>13. Accounted(Keystone!Credentials(x), Unread, Keystone!Rules(x))
  BY <1>1, <1>12, KeystoneBoolean, SMT DEF Accounted, Keystone!Credentials,
      Keystone!Reads, Keystone!Writes, Keystone!APIRules
<1>14. Accounted(Keystone!ConsumersAndDomains(x), Unread, Keystone!Rules(x))
  BY <1>1, <1>12, KeystoneBoolean, SMT DEF Accounted, Keystone!ConsumersAndDomains,
      Keystone!Reads, Keystone!Writes, Keystone!APIRules
<1>15. Accounted(Keystone!Endpoints(x), Unread, Keystone!Rules(x))
  BY <1>1, <1>12, KeystoneBoolean, SMT DEF Accounted, Keystone!Endpoints,
      Keystone!Reads, Keystone!Writes, Keystone!APIRules
<1>16. Accounted(Keystone!GrantsAndGroups(x), Unread, Keystone!Rules(x))
  BY <1>1, <1>12, KeystoneBoolean, SMT DEF Accounted, Keystone!GrantsAndGroups,
      Keystone!Reads, Keystone!Writes, Keystone!APIRules
<1>17. Accounted(Keystone!ProvidersAndLimits(x), Unread, Keystone!Rules(x))
  BY <1>1, <1>12, KeystoneBoolean, SMT DEF Accounted, Keystone!ProvidersAndLimits,
      Keystone!Reads, Keystone!Writes, Keystone!APIRules
<1>18. Accounted(Keystone!MappingsAndPolicies(x), Unread, Keystone!Rules(x))
  BY <1>1, <1>12, KeystoneBoolean, SMT DEF Accounted, Keystone!MappingsAndPolicies,
      Keystone!Reads, Keystone!Writes, Keystone!APIRules
<1>19. Accounted(Keystone!Projects(x), Unread, Keystone!Rules(x))
  BY <1>1, <1>12, KeystoneBoolean, SMT DEF Accounted, Keystone!Projects, Keystone!Reads,
      Keystone!Writes, Keystone!APIRules
<1>20. Accounted(Keystone!RegionsAndRoles(x), Unread, Keystone!Rules(x))
  BY <1>1, <1>12, KeystoneBoolean, SMT DEF Accounted, Keystone!RegionsAndRoles,
      Keystone!Reads, Keystone!Writes, Keystone!APIRules
<1>21. Accounted(Keystone!ServicesAndTokens(x), Unread, Keystone!Rules(x))
  BY <1>1, <1>12, KeystoneBoolean, SMT DEF Accounted, Keystone!ServicesAndTokens,
      Keystone!Reads, Keystone!Writes, Keystone!APIRules
<1>22. Accounted(Keystone!TrustsAndUsers(x), Unread, Keystone!Rules(x))
  BY <1>1, <1>12, KeystoneBoolean, SMT DEF Accounted, Keystone!TrustsAndUsers,
      Keystone!Reads, Keystone!Writes, Keystone!APIRules
<1>23. Accounted(Keystone!NamedChecks(x), Unread, Keystone!Rules(x))
  BY SMT DEF Accounted, Keystone!NamedChecks, Keystone!Checks, Keystone!APIRules
<1> QED
  BY <1>13, <1>14, <1>15, <1>16, <1>17, <1>18, <1>19, <1>20, <1>21, <1>22, <1>23 DEF Accounted,
      MayRead, Keystone!Rules

LEMMA MagnumReadable ==
  ASSUME NEW x, Lists(x)
  PROVE  MayRead(Magnum!Rules(x), Magnum!Rules(x))
<1>1. /\ \A a \in {"bay", "baymodel"} : ReadRule(a, "detail", Magnum!DenyClusterUser(x))
            \in Magnum!Rules(x)
      /\ ReadRule("certificate", "get", Magnum!AdminOrUser(x) \/ Magnum!ClusterUser(x))
            \in Magnum!Rules(x)
  BY SMT DEF ReadRule, Magnum!Rules, Magnum!BaysAndModels, Magnum!Reads, Magnum!Writes,
      Magnum!APIRules
<1>2. ReadRule("cluster", "detail", Magnum!DenyClusterUser(x)) \in Magnum!Rules(x)
  BY SMT DEF ReadRule, Magnum!Rules, Magnum!Clusters, Magnum!Reads, Magnum!Writes,
      Magnum!APIRules
<1>3. \A a \in {"clustertemplate", "federation"} : ReadRule(a, "detail",
         Magnum!DenyClusterUser(x)) \in Magnum!Rules(x)
  BY SMT DEF ReadRule, Magnum!Rules, Magnum!Templates, Magnum!Reads, Magnum!Writes,
      Magnum!APIRules
<1>4. \A a \in {"quota", "nodegroup"} : ReadRule(a, "get", Magnum!AdminOrOwner(x))
         \in Magnum!Rules(x)
  BY SMT DEF ReadRule, Magnum!Rules, Magnum!NodegroupsAndQuotas, Magnum!Reads,
      Magnum!Writes, Magnum!APIRules
<1>5. {"bay", "baymodel", "cluster", "clustertemplate", "federation", "certificate",
         "quota", "nodegroup"} \subseteq Readable(Magnum!Rules(x))
  <2>1. /\ Magnum!DenyClusterUser(x)
        /\ Magnum!AdminOrUser(x) \/ Magnum!ClusterUser(x)
        /\ Magnum!AdminOrOwner(x)
    BY DEF Lists, UserKeys, ProjectKeys, Role, Magnum!Is, Magnum!Same,
        Magnum!ContextAdmin, Magnum!OwnProject, Magnum!DenyClusterUser,
        Magnum!AdminOrUser, Magnum!ClusterUser, Magnum!AdminOrOwner
  <2> QED
    BY <2>1, <1>1, <1>2, <1>3, <1>4, ReadShows
<1>6. Accounted(Magnum!BaysAndModels(x), {}, Magnum!Rules(x))
  BY <1>5, SMT DEF Accounted, Magnum!BaysAndModels, Magnum!Reads, Magnum!Writes,
      Magnum!APIRules
<1>7. Accounted(Magnum!Clusters(x), {}, Magnum!Rules(x))
  BY <1>5, SMT DEF Accounted, Magnum!Clusters, Magnum!Reads, Magnum!Writes,
      Magnum!APIRules
<1>8. Accounted(Magnum!Templates(x), {}, Magnum!Rules(x))
  BY <1>5, SMT DEF Accounted, Magnum!Templates, Magnum!Reads, Magnum!Writes,
      Magnum!APIRules
<1>9. Accounted(Magnum!NodegroupsAndQuotas(x), {}, Magnum!Rules(x))
  BY <1>5, SMT DEF Accounted, Magnum!NodegroupsAndQuotas, Magnum!Reads, Magnum!Writes,
      Magnum!APIRules
<1>10. Accounted(Magnum!NamedChecks(x), {}, Magnum!Rules(x))
  BY SMT DEF Accounted, Magnum!NamedChecks, Magnum!Checks, Magnum!APIRules
<1> QED
  BY <1>6, <1>7, <1>8, <1>9, <1>10 DEF Accounted, MayRead, Magnum!Rules

LEMMA ManilaReadable ==
  ASSUME NEW x, Lists(x)
  PROVE  MayRead(Manila!Rules(x), Manila!Rules(x))
<1> DEFINE Unread == {"share_access_metadata"}
<1>1. ReadRule("share", "get", Manila!ContextIsAdmin(x) \/ Manila!ProjectReader(x))
         \in Manila!Rules(x)
  BY SMT DEF ReadRule, Manila!Rules, Manila!Shares, Manila!Reads, Manila!Writes,
      Manila!APIRules
<1>2. ReadRule("share_instance_export_location", "show", Manila!ContextIsAdmin(x))
         \in Manila!Rules(x)
  BY SMT DEF ReadRule, Manila!Rules, Manila!ShareMetadata, Manila!Reads, Manila!Writes,
      Manila!APIRules
<1>3. /\ ReadRule("share_type", "show", Manila!ContextIsAdmin(x)
            \/ Manila!ProjectReader(x)) \in Manila!Rules(x)
      /\ ReadRule("share_types_extra_spec", "show", Manila!ContextIsAdmin(x))
            \in Manila!Rules(x)
  BY SMT DEF ReadRule, Manila!Rules, Manila!ShareTypes, Manila!Reads, Manila!Writes,
      Manila!APIRules
<1>4. /\ ReadRule("share_snapshot", "get_snapshot", Manila!ContextIsAdmin(x)
            \/ Manila!ProjectReader(x)) \in Manila!Rules(x)
      /\ ReadRule("share_snapshot_instance", "show", Manila!ContextIsAdmin(x))
            \in Manila!Rules(x)
  BY SMT DEF ReadRule, Manila!Rules, Manila!ShareSnapshots, Manila!Reads, Manila!Writes,
      Manila!APIRules
<1>5. /\ \A a \in {"share_server", "service"} : ReadRule(a, "index",
            Manila!ContextIsAdmin(x)) \in Manila!Rules(x)
      /\ \A a \in {"quota_class_set", "quota_set"} : ReadRule(a, "show",
            Manila!ContextIsAdmin(x) \/ Manila!ProjectReader(x)) \in Manila!Rules(x)
  BY SMT DEF ReadRule, Manila!Rules, Manila!ShareServersAndQuotas, Manila!Reads,
      Manila!Writes, Manila!APIRules
<1>6. /\ ReadRule("share_group_types_spec", "index", Manila!ContextIsAdmin(x))
            \in Manila!Rules(x)
      /\ ReadRule("share_group_type", "index", Manila!ContextIsAdmin(x)
            \/ Manila!ProjectReader(x)) \in Manila!Rules(x)
      /\ ReadRule("share_group_snapshot", "get", Manila!ContextIsAdmin(x)
            \/ Manila!ProjectReader(x)) \in Manila!Rules(x)
  BY SMT DEF ReadRule, Manila!Rules, Manila!ShareGroupTypes, Manila!Reads,
      Manila!Writes, Manila!APIRules
<1>7. /\ ReadRule("share_group", "get", Manila!ContextIsAdmin(x)
            \/ Manila!ProjectReader(x)) \in Manila!Rules(x)
      /\ ReadRule("share_replica", "get_all", Manila!ContextIsAdmin(x)
            \/ Manila!ProjectReader(x)) \in Manila!Rules(x)
  BY SMT DEF ReadRule, Manila!Rules, Manila!GroupsAndReplicas, Manila!Reads,
      Manila!Writes, Manila!APIRules
<1>8. \A a \in {"share_network", "share_network_subnet"} : ReadRule(a, "show",
         Manila!ContextIsAdmin(x) \/ Manila!ProjectReader(x)) \in Manila!Rules(x)
  BY SMT DEF ReadRule, Manila!Rules, Manila!ShareNetworks, Manila!Reads, Manila!Writes,
      Manila!APIRules
<1>9. /\ ReadRule("security_service", "show", Manila!ContextIsAdmin(x)
            \/ Manila!ProjectReader(x)) \in Manila!Rules(x)
      /\ ReadRule("share_instance", "index", Manila!ContextIsAdmin(x))
            \in Manila!Rules(x)
      /\ ReadRule("message", "get", Manila!ContextIsAdmin(x) \/ Manila!ProjectReader(x))
            \in Manila!Rules(x)
  BY SMT DEF ReadRule, Manila!Rules, Manila!SecurityServicesAndInstances, Manila!Reads,
      Manila!Writes, Manila!APIRules
<1>10. /\ {"share", "share_type", "share_snapshot", "quota_class_set", "quota_set",
             "share_group_type", "share_group_snapshot", "share_group", "share_replica",
             "share_network", "share_network_subnet", "security_service", "message"}
             \subseteq Readable(Manila!Rules(x))
       /\ Manila!ContextIsAdmin(x) => {"share_instance_export_location",
             "share_types_extra_spec", "share_snapshot_instance", "share_server",
             "service", "share_group_types_spec", "share_instance"}
             \subseteq Readable(Manila!Rules(x))
  <2>1. Manila!ContextIsAdmin(x) \/ Manila!ProjectReader(x)
    BY DEF Lists, UserKeys, ProjectKeys, Role, Manila!Role, Manila!Same,
        Manila!AdminRole, Manila!ReaderRole, Manila!OwnProject, Manila!ProjectReader,
        Manila!ContextIsAdmin
  <2> QED
    BY <2>1, <1>1, <1>2, <1>3, <1>4, <1>5, <1>6, <1>7, <1>8, <1>9, ReadShows
<1>11. Accounted(Manila!Pools(x), Unread, Manila!Rules(x))
  BY <1>10, SMT DEF Accounted, Manila!Pools, Manila!Reads, Manila!APIRules
<1>12. Accounted(Manila!Shares(x), Unread, Manila!Rules(x))
  BY <1>10, SMT DEF Accounted, Manila!Shares, Manila!Reads, Manila!Writes,
      Manila!APIRules
<1>13. Accounted(Manila!ShareMetadata(x), Unread, Manila!Rules(x))
  BY <1>10, SMT DEF Accounted, Manila!ShareMetadata, Manila!Reads, Manila!Writes,
      Manila!APIRules
<1>14. Accounted(Manila!ShareTypes(x), Unread, Manila!Rules(x))
  BY <1>10, SMT DEF Accounted, Manila!ShareTypes, Manila!Reads, Manila!Writes,
      Manila!APIRules
<1>15. Accounted(Manila!ShareSnapshots(x), Unread, Manila!Rules(x))
  BY <1>10, SMT DEF Accounted, Manila!ShareSnapshots, Manila!Reads, Manila!Writes,
      Manila!APIRules
<1>16. Accounted(Manila!ShareServersAndQuotas(x), Unread, Manila!Rules(x))
  BY <1>10, SMT DEF Accounted, Manila!ShareServersAndQuotas, Manila!Reads,
      Manila!Writes, Manila!APIRules
<1>17. Accounted(Manila!ShareGroupTypes(x), Unread, Manila!Rules(x))
  BY <1>10, SMT DEF Accounted, Manila!ShareGroupTypes, Manila!Reads, Manila!Writes,
      Manila!APIRules
<1>18. Accounted(Manila!GroupsAndReplicas(x), Unread, Manila!Rules(x))
  BY <1>10, SMT DEF Accounted, Manila!GroupsAndReplicas, Manila!Reads, Manila!Writes,
      Manila!APIRules
<1>19. Accounted(Manila!ShareNetworks(x), Unread, Manila!Rules(x))
  BY <1>10, SMT DEF Accounted, Manila!ShareNetworks, Manila!Reads, Manila!Writes,
      Manila!APIRules
<1>20. Accounted(Manila!SecurityServicesAndInstances(x), Unread, Manila!Rules(x))
  BY <1>10, SMT DEF Accounted, Manila!SecurityServicesAndInstances, Manila!Reads,
      Manila!Writes, Manila!APIRules
<1>21. Accounted(Manila!NamedChecks(x), Unread, Manila!Rules(x))
  BY SMT DEF Accounted, Manila!NamedChecks, Manila!Checks, Manila!APIRules
<1> QED
  BY <1>11, <1>12, <1>13, <1>14, <1>15, <1>16, <1>17, <1>18, <1>19, <1>20, <1>21 DEF Accounted,
      MayRead, Manila!Rules

LEMMA MasakariReadable ==
  ASSUME NEW x, Lists(x)
  PROVE  MayRead(Masakari!Rules(x), Masakari!Rules(x))
<1>1. \A a \in {"os-hosts", "notifications", "segments"} : ReadRule(a, "index",
         Masakari!AdminApi(x)) \in Masakari!Rules(x)
  BY SMT DEF ReadRule, Masakari!Rules, Masakari!Segments, Masakari!Reads,
      Masakari!Writes, Masakari!APIRules
<1>2. Masakari!AdminApi(x) => {"os-hosts", "notifications", "segments"}
         \subseteq Readable(Masakari!Rules(x))
  BY <1>1, ReadShows
<1>3. Accounted(Masakari!Segments(x), {}, Masakari!Rules(x))
  BY <1>2, SMT DEF Accounted, Masakari!Segments, Masakari!Reads, Masakari!Writes,
      Masakari!APIRules
<1>4. Accounted(Masakari!NamedChecks(x), {}, Masakari!Rules(x))
  BY SMT DEF Accounted, Masakari!NamedChecks, Masakari!Checks, Masakari!APIRules
<1> QED
  BY <1>3, <1>4 DEF Accounted, MayRead, Masakari!Rules

LEMMA NeutronReadable ==
  ASSUME NEW x, Lists(x)
  PROVE  MayRead(Neutron!Rules(x), Neutron!Rules(x))
<1> DEFINE Unread == {"flavor_service_profile", "router_interface", "extraroute",
      "network_subnet", "prefixe"}
<1>1. /\ ReadRule("address_scope", "get", Neutron!AdminOrReader(x)
            \/ Neutron!SharedAddressScopes(x)) \in Neutron!Rules(x)
      /\ \A a \in {"agent", "dhcp-network", "l3-router"} : ReadRule(a, "get",
            Neutron!AdminOnly(x)) \in Neutron!Rules(x)
      /\ ReadRule("auto_allocated_topology", "get", Neutron!ProjectReader(x))
            \in Neutron!Rules(x)
  BY SMT DEF ReadRule, Neutron!Rules, Neutron!AddressesAndAgents, Neutron!Reads,
      Neutron!Writes, Neutron!APIRules
<1>2. /\ \A a \in {"flavor", "floatingip"} : ReadRule(a, "get",
            Neutron!AdminOrReader(x)) \in Neutron!Rules(x)
      /\ ReadRule("service_profile", "get", Neutron!AdminOnly(x)) \in Neutron!Rules(x)
      /\ ReadRule("floatingip_port_forwarding", "get", Neutron!ProjectReader(x)
            \/ Neutron!ExtParentOwner(x)) \in Neutron!Rules(x)
  BY SMT DEF ReadRule, Neutron!Rules, Neutron!FlavorsAndFloatingIps, Neutron!Reads,
      Neutron!Writes, Neutron!APIRules
<1>3. /\ \A a \in {"router_conntrack_helper", "local_ip_port_association"} : ReadRule(a,
            "get", Neutron!ProjectReader(x) \/ Neutron!ExtParentOwner(x))
            \in Neutron!Rules(x)
      /\ ReadRule("local_ip", "get", Neutron!ProjectReader(x)) \in Neutron!Rules(x)
      /\ ReadRule("log", "get", Neutron!AdminOnly(x)) \in Neutron!Rules(x)
      /\ ReadRule("metering_label", "get", Neutron!AdminOrReader(x))
            \in Neutron!Rules(x)
  BY SMT DEF ReadRule, Neutron!Rules, Neutron!LocalIpsAndLogs, Neutron!Reads,
      Neutron!Writes, Neutron!APIRules
<1>4. /\ ReadRule("metering_label_rule", "get", Neutron!AdminOrReader(x))
            \in Neutron!Rules(x)
      /\ ReadRule("ndp_proxy", "get", Neutron!ProjectReader(x)) \in Neutron!Rules(x)
  BY SMT DEF ReadRule, Neutron!Rules, Neutron!MeteringRules, Neutron!Reads,
      Neutron!Writes, Neutron!APIRules
<1>5. ReadRule("network", "get", Neutron!AdminOrReader(x) \/ Neutron!Shared(x)
         \/ Neutron!External(x) \/ Neutron!ContextIsAdvsvc(x)) \in Neutron!Rules(x)
  BY SMT DEF ReadRule, Neutron!Rules, Neutron!Networks, Neutron!Reads, Neutron!Writes,
      Neutron!APIRules
<1>6. ReadRule("network_segment_range", "get", Neutron!AdminOnly(x))
         \in Neutron!Rules(x)
  BY SMT DEF ReadRule, Neutron!Rules, Neutron!SegmentRanges, Neutron!Reads,
      Neutron!Writes, Neutron!APIRules
<1>7. ReadRule("port", "get", Neutron!AdminOrReader(x) \/ Neutron!ContextIsAdvsvc(x))
         \in Neutron!Rules(x)
  BY SMT DEF ReadRule, Neutron!Rules, Neutron!PortsCreated, Neutron!Reads,
      Neutron!Writes, Neutron!APIRules
<1>8. ReadRule("policy", "get", Neutron!AdminOrReader(x)) \in Neutron!Rules(x)
  BY SMT DEF ReadRule, Neutron!Rules, Neutron!PortsUpdated, Neutron!Reads,
      Neutron!Writes, Neutron!APIRules
<1>9. \A a \in {"policy_bandwidth_limit_rule", "policy_packet_rate_limit_rule",
         "policy_dscp_marking_rule", "policy_minimum_bandwidth_rule",
         "policy_minimum_packet_rate_rule"} : ReadRule(a, "get",
         Neutron!AdminOrReader(x)) \in Neutron!Rules(x)
  BY SMT DEF ReadRule, Neutron!Rules, Neutron!QosRules, Neutron!Reads, Neutron!Writes,
      Neutron!APIRules
<1>10. /\ \A a \in {"alias_bandwidth_limit_rule", "alias_dscp_marking_rule",
             "alias_minimum_bandwidth_rule", "alias_minimum_packet_rate_rule",
             "rbac_policy"} : ReadRule(a, "get", Neutron!AdminOrReader(x))
             \in Neutron!Rules(x)
       /\ ReadRule("quota", "get", Neutron!AdminOnly(x)) \in Neutron!Rules(x)
  BY SMT DEF ReadRule, Neutron!Rules, Neutron!AliasRulesAndQuotas, Neutron!Reads,
      Neutron!Writes, Neutron!APIRules
<1>11. ReadRule("router", "get", Neutron!AdminOrReader(x)) \in Neutron!Rules(x)
  BY SMT DEF ReadRule, Neutron!Rules, Neutron!Routers, Neutron!Reads, Neutron!Writes,
      Neutron!APIRules
<1>12. /\ ReadRule("security_group", "get", Neutron!ProjectReader(x))
             \in Neutron!Rules(x)
       /\ ReadRule("security_group_rule", "get", Neutron!ProjectReader(x)
             \/ Neutron!SgOwner(x)) \in Neutron!Rules(x)
       /\ ReadRule("segment", "get", Neutron!AdminOnly(x)) \in Neutron!Rules(x)
  BY SMT DEF ReadRule, Neutron!Rules, Neutron!SecurityGroups, Neutron!Reads,
      Neutron!Writes, Neutron!APIRules
<1>13. /\ ReadRule("subnet", "get", Neutron!AdminOrReader(x) \/ Neutron!Shared(x))
             \in Neutron!Rules(x)
       /\ ReadRule("subnetpool", "get", Neutron!AdminOrReader(x)
             \/ Neutron!SharedSubnetpools(x)) \in Neutron!Rules(x)
  BY SMT DEF ReadRule, Neutron!Rules, Neutron!Subnets, Neutron!Reads, Neutron!Writes,
      Neutron!APIRules
<1>14. /\ \A a \in {"trunk", "subport"} : ReadRule(a, "get", Neutron!ProjectReader(x))
             \in Neutron!Rules(x)
       /\ \A a \in {"endpoint_group", "ikepolicy", "ipsecpolicy"} : ReadRule(a, "get",
             Neutron!AdminOrOwner(x)) \in Neutron!Rules(x)
  BY SMT DEF ReadRule, Neutron!Rules, Neutron!TrunksAndVpnPolicies, Neutron!Reads,
      Neutron!Writes, Neutron!APIRules
<1>15. \A a \in {"ipsec_site_connection", "vpnservice"} : ReadRule(a, "get",
          Neutron!AdminOrOwner(x)) \in Neutron!Rules(x)
  BY SMT DEF ReadRule, Neutron!Rules, Neutron!VpnConnections, Neutron!Reads,
      Neutron!Writes, Neutron!APIRules
<1>16. /\ {"address_scope", "auto_allocated_topology", "local_ip", "ndp_proxy",
             "security_group", "trunk", "subport", "flavor", "floatingip",
             "metering_label", "metering_label_rule", "policy",
             "policy_bandwidth_limit_rule", "policy_packet_rate_limit_rule",
             "policy_dscp_marking_rule", "policy_minimum_bandwidth_rule",
             "policy_minimum_packet_rate_rule", "alias_bandwidth_limit_rule",
             "alias_dscp_marking_rule", "alias_minimum_bandwidth_rule",
             "alias_minimum_packet_rate_rule", "rbac_policy", "router",
             "floatingip_port_forwarding", "router_conntrack_helper",
             "local_ip_port_association", "network", "port", "security_group_rule",
             "subnet", "subnetpool", "endpoint_group", "ikepolicy", "ipsecpolicy",
             "ipsec_site_connection", "vpnservice"} \subseteq Readable(Neutron!Rules(x))
       /\ Neutron!AdminOnly(x) => {"agent", "dhcp-network", "l3-router",
             "service_profile", "log", "network_segment_range", "quota", "segment"}
             \subseteq Readable(Neutron!Rules(x))
  <2>1. /\ Neutron!AdminOrReader(x) \/ Neutron!SharedAddressScopes(x)
        /\ Neutron!ProjectReader(x)
        /\ Neutron!AdminOrReader(x)
        /\ Neutron!ProjectReader(x) \/ Neutron!ExtParentOwner(x)
        /\ Neutron!AdminOrReader(x) \/ Neutron!Shared(x) \/ Neutron!External(x)
              \/ Neutron!ContextIsAdvsvc(x)
        /\ Neutron!AdminOrReader(x) \/ Neutron!ContextIsAdvsvc(x)
        /\ Neutron!ProjectReader(x) \/ Neutron!SgOwner(x)
        /\ Neutron!AdminOrReader(x) \/ Neutron!Shared(x)
        /\ Neutron!AdminOrReader(x) \/ Neutron!SharedSubnetpools(x)
        /\ Neutron!AdminOrOwner(x)
    BY DEF Lists, UserKeys, ProjectKeys, Role, Neutron!Role, Neutron!Is, Neutron!Same,
        Neutron!AdminRole, Neutron!ReaderRole, Neutron!OwnProject,
        Neutron!ProjectReader, Neutron!ContextIsAdmin, Neutron!AdminOnly,
        Neutron!SharedAddressScopes, Neutron!ExtParentOwner, Neutron!Shared,
        Neutron!External, Neutron!ContextIsAdvsvc, Neutron!SgOwner,
        Neutron!SharedSubnetpools, Neutron!Owner, Neutron!AdminOrOwner,
        Neutron!AdminOrReader
  <2> QED
    BY <2>1, <1>1, <1>2, <1>3, <1>4, <1>5, <1>6, <1>7, <1>8, <1>9, <1>10, <1>11, <1>12,
        <1>13, <1>14, <1>15, ReadShows
<1>17. Accounted(Neutron!AddressesAndAgents(x), Unread, Neutron!Rules(x))
  BY <1>16, SMT DEF Accounted, Neutron!AddressesAndAgents, Neutron!Reads,
      Neutron!Writes, Neutron!APIRules
<1>18. Accounted(Neutron!FlavorsAndFloatingIps(x), Unread, Neutron!Rules(x))
  BY <1>16, SMT DEF Accounted, Neutron!FlavorsAndFloatingIps, Neutron!Reads,
      Neutron!Writes, Neutron!APIRules
<1>19. Accounted(Neutron!LocalIpsAndLogs(x), Unread, Neutron!Rules(x))
  BY <1>16, SMT DEF Accounted, Neutron!LocalIpsAndLogs, Neutron!Reads, Neutron!Writes,
      Neutron!APIRules
<1>20. Accounted(Neutron!MeteringRules(x), Unread, Neutron!Rules(x))
  BY <1>16, SMT DEF Accounted, Neutron!MeteringRules, Neutron!Reads, Neutron!Writes,
      Neutron!APIRules
<1>21. Accounted(Neutron!Networks(x), Unread, Neutron!Rules(x))
  BY <1>16, SMT DEF Accounted, Neutron!Networks, Neutron!Reads, Neutron!Writes,
      Neutron!APIRules
<1>22. Accounted(Neutron!SegmentRanges(x), Unread, Neutron!Rules(x))
  BY <1>16, SMT DEF Accounted, Neutron!SegmentRanges, Neutron!Reads, Neutron!Writes,
      Neutron!APIRules
<1>23. Accounted(Neutron!PortsCreated(x), Unread, Neutron!Rules(x))
  BY <1>16, SMT DEF Accounted, Neutron!PortsCreated, Neutron!Reads, Neutron!Writes,
      Neutron!APIRules
<1>24. Accounted(Neutron!PortsUpdated(x), Unread, Neutron!Rules(x))
  BY <1>16, SMT DEF Accounted, Neutron!PortsUpdated, Neutron!Reads, Neutron!Writes,
      Neutron!APIRules
<1>25. Accounted(Neutron!QosRules(x), Unread, Neutron!Rules(x))
  BY <1>16, SMT DEF Accounted, Neutron!QosRules, Neutron!Reads, Neutron!Writes,
      Neutron!APIRules
<1>26. Accounted(Neutron!AliasRulesAndQuotas(x), Unread, Neutron!Rules(x))
  BY <1>16, SMT DEF Accounted, Neutron!AliasRulesAndQuotas, Neutron!Reads,
      Neutron!Writes, Neutron!APIRules
<1>27. Accounted(Neutron!Routers(x), Unread, Neutron!Rules(x))
  BY <1>16, SMT DEF Accounted, Neutron!Routers, Neutron!Reads, Neutron!Writes,
      Neutron!APIRules
<1>28. Accounted(Neutron!SecurityGroups(x), Unread, Neutron!Rules(x))
  BY <1>16, SMT DEF Accounted, Neutron!SecurityGroups, Neutron!Reads, Neutron!Writes,
      Neutron!APIRules
<1>29. Accounted(Neutron!Subnets(x), Unread, Neutron!Rules(x))
  BY <1>16, SMT DEF Accounted, Neutron!Subnets, Neutron!Reads, Neutron!Writes,
      Neutron!APIRules
<1>30. Accounted(Neutron!TrunksAndVpnPolicies(x), Unread, Neutron!Rules(x))
  BY <1>16, SMT DEF Accounted, Neutron!TrunksAndVpnPolicies, Neutron!Reads,
      Neutron!Writes, Neutron!APIRules
<1>31. Accounted(Neutron!VpnConnections(x), Unread, Neutron!Rules(x))
  BY <1>16, SMT DEF Accounted, Neutron!VpnConnections, Neutron!Reads, Neutron!Writes,
      Neutron!APIRules
<1>34. Accounted(Neutron!NamedChecks(x), Unread, Neutron!Rules(x))
  BY SMT DEF Accounted, Neutron!NamedChecks, Neutron!Checks, Neutron!APIRules
<1>33. Accounted(Neutron!Rules(x), Unread, Neutron!Rules(x))
  <2> HIDE DEF Unread
  <2> QED
    BY <1>17, <1>18, <1>19, <1>20, <1>21, <1>22, <1>23, <1>24, <1>25, <1>26, <1>27,
        <1>28, <1>29, <1>30, <1>31, <1>34 DEF Accounted, Neutron!Rules
<1> QED
  BY <1>33 DEF Accounted, MayRead

LEMMA NovaReadable ==
  ASSUME NEW x, Lists(x)
  PROVE  MayRead(Nova!Rules(x), Nova!Rules(x))
<1> DEFINE Unread == {"os-admin-actions", "os-admin-password",
      "os-assisted-volume-snapshots", "os-console-output", "os-create-backup",
      "os-deferred-delete", "os-evacuate", "os-extended-server-attributes",
      "os-flavor-manage", "os-lock-server", "os-migrate-server", "os-multinic",
      "os-pause-server", "os-remote-consoles", "os-rescue", "os-unrescue",
      "os-server-external-events", "network", "os-shelve", "os-suspend-server"}
<1>1. /\ ReadRule("os-aggregates", "index", Nova!ContextIsAdmin(x)) \in Nova!Rules(x)
      /\ ReadRule("os-attach-interfaces", "list", Nova!ProjectReaderOrAdmin(x))
            \in Nova!Rules(x)
  BY SMT DEF ReadRule, Nova!Rules, Nova!AggregatesAndInterfaces, Nova!Reads,
      Nova!Writes, Nova!APIRules
<1>2. /\ ReadRule("os-flavor-access", "use", Nova!ContextIsAdmin(x)) \in Nova!Rules(x)
      /\ ReadRule("os-flavor-extra-specs", "show", Nova!ProjectReaderOrAdmin(x))
            \in Nova!Rules(x)
  BY SMT DEF ReadRule, Nova!Rules, Nova!FlavorsAndConsoles, Nova!Reads, Nova!Writes,
      Nova!APIRules
<1>3. /\ ReadRule("os-floating-ips", "list", Nova!ProjectReaderOrAdmin(x))
            \in Nova!Rules(x)
      /\ ReadRule("os-hosts", "list", Nova!ContextIsAdmin(x)) \in Nova!Rules(x)
  BY SMT DEF ReadRule, Nova!Rules, Nova!FloatingIpsAndHosts, Nova!Reads, Nova!Writes,
      Nova!APIRules
<1>4. ReadRule("os-keypairs", "index", Nova!ContextIsAdmin(x)
         \/ Nova!Same(x, "user_id", "user_id")) \in Nova!Rules(x)
  BY SMT DEF ReadRule, Nova!Rules, Nova!ActionsKeypairsLocks, Nova!Reads, Nova!Writes,
      Nova!APIRules
<1>5. /\ ReadRule("os-quota-class-sets", "show", Nova!ContextIsAdmin(x))
            \in Nova!Rules(x)
      /\ ReadRule("os-quota-sets", "defaults", Nova!Anyone(x)) \in Nova!Rules(x)
  BY SMT DEF ReadRule, Nova!Rules, Nova!QuotasAndConsoles, Nova!Reads, Nova!Writes,
      Nova!APIRules
<1>6. /\ ReadRule("os-security-groups", "get", Nova!ProjectReaderOrAdmin(x))
            \in Nova!Rules(x)
      /\ ReadRule("os-server-groups", "index", Nova!ProjectReaderOrAdmin(x))
            \in Nova!Rules(x)
  BY SMT DEF ReadRule, Nova!Rules, Nova!SecurityGroups, Nova!Reads, Nova!Writes,
      Nova!APIRules
<1>7. /\ \A a \in {"server-metadata", "os-server-tags"} : ReadRule(a, "index",
            Nova!ProjectReaderOrAdmin(x)) \in Nova!Rules(x)
      /\ ReadRule("os-server-password", "show", Nova!ProjectReaderOrAdmin(x))
            \in Nova!Rules(x)
  BY SMT DEF ReadRule, Nova!Rules, Nova!ServerDetails, Nova!Reads, Nova!Writes,
      Nova!APIRules
<1>8. ReadRule("servers", "index", Nova!ProjectReaderOrAdmin(x)) \in Nova!Rules(x)
  BY SMT DEF ReadRule, Nova!Rules, Nova!Servers, Nova!Reads, Nova!Writes, Nova!APIRules
<1>9. ReadRule("os-services", "list", Nova!ContextIsAdmin(x)) \in Nova!Rules(x)
  BY SMT DEF ReadRule, Nova!Rules, Nova!ServerActions, Nova!Reads, Nova!Writes,
      Nova!APIRules
<1>10. ReadRule("os-volumes", "list", Nova!ProjectReaderOrAdmin(x)) \in Nova!Rules(x)
  BY SMT DEF ReadRule, Nova!Rules, Nova!ShelvingAndVolumes, Nova!Reads, Nova!Writes,
      Nova!APIRules
<1>11. ReadRule("os-volumes-attachments", "index", Nova!ProjectReaderOrAdmin(x))
          \in Nova!Rules(x)
  BY SMT DEF ReadRule, Nova!Rules, Nova!Attachments, Nova!Reads, Nova!Writes,
      Nova!APIRules
<1>12. /\ {"os-attach-interfaces", "os-flavor-extra-specs", "os-floating-ips",
             "os-security-groups", "os-server-groups", "server-metadata",
             "os-server-tags", "os-server-password", "servers", "os-volumes",
             "os-volumes-attachments", "os-keypairs", "os-quota-sets"}
             \subseteq Readable(Nova!Rules(x))
       /\ Nova!ContextIsAdmin(x) => {"os-aggregates", "os-flavor-access", "os-hosts",
             "os-quota-class-sets", "os-services"} \subseteq Readable(Nova!Rules(x))
  <2>1. /\ Nova!ProjectReaderOrAdmin(x)
        /\ Nova!ContextIsAdmin(x) \/ Nova!Same(x, "user_id", "user_id")
        /\ Nova!Anyone(x)
    BY DEF Lists, UserKeys, ProjectKeys, Role, Nova!Role, Nova!Same, Nova!Anyone,
        Nova!AdminRole, Nova!ReaderRole, Nova!OwnProject, Nova!ProjectReader,
        Nova!ContextIsAdmin, Nova!ProjectReaderApi, Nova!ProjectReaderOrAdmin
  <2> QED
    BY <2>1, <1>1, <1>2, <1>3, <1>4, <1>5, <1>6, <1>7, <1>8, <1>9, <1>10, <1>11,
        ReadShows
<1>13. Accounted(Nova!AggregatesAndInterfaces(x), Unread, Nova!Rules(x))
  BY <1>12, SMT DEF Accounted, Nova!AggregatesAndInterfaces, Nova!Reads, Nova!Writes,
      Nova!APIRules
<1>14. Accounted(Nova!FlavorsAndConsoles(x), Unread, Nova!Rules(x))
  BY <1>12, SMT DEF Accounted, Nova!FlavorsAndConsoles, Nova!Reads, Nova!Writes,
      Nova!APIRules
<1>15. Accounted(Nova!FloatingIpsAndHosts(x), Unread, Nova!Rules(x))
  BY <1>12, SMT DEF Accounted, Nova!FloatingIpsAndHosts, Nova!Reads, Nova!Writes,
      Nova!APIRules
<1>16. Accounted(Nova!ActionsKeypairsLocks(x), Unread, Nova!Rules(x))
  BY <1>12, SMT DEF Accounted, Nova!ActionsKeypairsLocks, Nova!Reads, Nova!Writes,
      Nova!APIRules
<1>17. Accounted(Nova!QuotasAndConsoles(x), Unread, Nova!Rules(x))
  BY <1>12, SMT DEF Accounted, Nova!QuotasAndConsoles, Nova!Reads, Nova!Writes,
      Nova!APIRules
<1>18. Accounted(Nova!SecurityGroups(x), Unread, Nova!Rules(x))
  BY <1>12, SMT DEF Accounted, Nova!SecurityGroups, Nova!Reads, Nova!Writes,
      Nova!APIRules
<1>19. Accounted(Nova!ServerDetails(x), Unread, Nova!Rules(x))
  BY <1>12, SMT DEF Accounted, Nova!ServerDetails, Nova!Reads, Nova!Writes,
      Nova!APIRules
<1>20. Accounted(Nova!Servers(x), Unread, Nova!Rules(x))
  BY <1>12, SMT DEF Accounted, Nova!Servers, Nova!Reads, Nova!Writes, Nova!APIRules
<1>21. Accounted(Nova!ServerActions(x), Unread, Nova!Rules(x))
  BY <1>12, SMT DEF Accounted, Nova!ServerActions, Nova!Reads, Nova!Writes,
      Nova!APIRules
<1>22. Accounted(Nova!ShelvingAndVolumes(x), Unread, Nova!Rules(x))
  BY <1>12, SMT DEF Accounted, Nova!ShelvingAndVolumes, Nova!Reads, Nova!Writes,
      Nova!APIRules
<1>23. Accounted(Nova!Attachments(x), Unread, Nova!Rules(x))
  BY <1>12, SMT DEF Accounted, Nova!Attachments, Nova!Reads, Nova!Writes, Nova!APIRules
<1>26. Accounted(Nova!NamedChecks(x), Unread, Nova!Rules(x))
  BY SMT DEF Accounted, Nova!NamedChecks, Nova!Checks, Nova!APIRules
<1>25. Accounted(Nova!Rules(x), Unread, Nova!Rules(x))
  <2> HIDE DEF Unread
  <2> QED
    BY <1>13, <1>14, <1>15, <1>16, <1>17, <1>18, <1>19, <1>20, <1>21, <1>22, <1>23, <1>26 DEF
        Accounted, Nova!Rules
<1> QED
  BY <1>25 DEF Accounted, MayRead

LEMMA OctaviaReadable ==
  ASSUME NEW x, Lists(x)
  PROVE  MayRead(Octavia!Rules(x), Octavia!Rules(x))
<1>1. /\ Octavia!LoadBalancerAdmin(x) => Octavia!LoadBalancerRead(x)
      /\ Octavia!LoadBalancerWrite(x) => Octavia!LoadBalancerRead(x)
      /\ Octavia!LoadBalancerWriteQuota(x) => Octavia!LoadBalancerReadQuota(x)
  BY DEF Lists, UserKeys, ProjectKeys, Role, Octavia!Role, Octavia!Is, Octavia!Same,
      Octavia!AdminRole, Octavia!ReaderRole, Octavia!MemberRole, Octavia!ContextAdmin,
      Octavia!OwnProject, Octavia!ProjectMember, Octavia!ProjectReader,
      Octavia!SystemAdmin, Octavia!SystemReader, Octavia!LoadBalancerObserverAndOwner,
      Octavia!LoadBalancerGlobalObserver, Octavia!LoadBalancerMemberAndOwner,
      Octavia!LoadBalancerAdmin, Octavia!LoadBalancerRead, Octavia!LoadBalancerWrite,
      Octavia!LoadBalancerReadQuota, Octavia!LoadBalancerWriteQuota
<1>2. /\ \A a \in {"flavor", "availability-zone"} : ReadRule(a, "get_all",
            Octavia!LoadBalancerRead(x)) \in Octavia!Rules(x)
      /\ \A a \in {"flavor-profile", "availability-zone-profile"} : ReadRule(a,
            "get_all", Octavia!LoadBalancerAdmin(x)) \in Octavia!Rules(x)
  BY SMT DEF ReadRule, Octavia!Rules, Octavia!Flavors, Octavia!Reads, Octavia!Writes,
      Octavia!APIRules
<1>3. \A a \in {"healthmonitor", "l7policy", "l7rule"} : ReadRule(a, "get_all",
         Octavia!LoadBalancerRead(x)) \in Octavia!Rules(x)
  BY SMT DEF ReadRule, Octavia!Rules, Octavia!L7Policies, Octavia!Reads, Octavia!Writes,
      Octavia!APIRules
<1>4. \A a \in {"listener", "loadbalancer", "member"} : ReadRule(a, "get_all",
         Octavia!LoadBalancerRead(x)) \in Octavia!Rules(x)
  BY SMT DEF ReadRule, Octavia!Rules, Octavia!LoadBalancers, Octavia!Reads,
      Octavia!Writes, Octavia!APIRules
<1>5. /\ ReadRule("pool", "get_all", Octavia!LoadBalancerRead(x)) \in Octavia!Rules(x)
      /\ ReadRule("quota", "get_all", Octavia!LoadBalancerReadQuota(x))
            \in Octavia!Rules(x)
      /\ ReadRule("amphora", "get_all", Octavia!LoadBalancerAdmin(x))
            \in Octavia!Rules(x)
  BY SMT DEF ReadRule, Octavia!Rules, Octavia!PoolsAndQuotas, Octavia!Reads,
      Octavia!Writes, Octavia!APIRules
<1>6. /\ Octavia!LoadBalancerRead(x) => {"flavor", "availability-zone", "healthmonitor",
            "l7policy", "l7rule", "listener", "loadbalancer", "member", "pool"}
            \subseteq Readable(Octavia!Rules(x))
      /\ Octavia!LoadBalancerAdmin(x) => {"flavor-profile", "availability-zone-profile",
            "amphora"} \subseteq Readable(Octavia!Rules(x))
      /\ Octavia!LoadBalancerReadQuota(x) => "quota" \in Readable(Octavia!Rules(x))
  BY <1>2, <1>3, <1>4, <1>5, ReadShows
<1>7. Accounted(Octavia!Flavors(x), {}, Octavia!Rules(x))
  BY <1>1, <1>6, SMT DEF Accounted, Octavia!Flavors, Octavia!Reads, Octavia!Writes,
      Octavia!APIRules
<1>8. Accounted(Octavia!L7Policies(x), {}, Octavia!Rules(x))
  BY <1>1, <1>6, SMT DEF Accounted, Octavia!L7Policies, Octavia!Reads, Octavia!Writes,
      Octavia!APIRules
<1>9. Accounted(Octavia!LoadBalancers(x), {}, Octavia!Rules(x))
  BY <1>1, <1>6, SMT DEF Accounted, Octavia!LoadBalancers, Octavia!Reads,
      Octavia!Writes, Octavia!APIRules
<1>10. Accounted(Octavia!PoolsAndQuotas(x), {}, Octavia!Rules(x))
  BY <1>1, <1>6, SMT DEF Accounted, Octavia!PoolsAndQuotas, Octavia!Reads,
      Octavia!Writes, Octavia!APIRules
<1>11. Accounted(Octavia!NamedChecks(x), {}, Octavia!Rules(x))
  BY SMT DEF Accounted, Octavia!NamedChecks, Octavia!Checks, Octavia!APIRules
<1> QED
  BY <1>7, <1>8, <1>9, <1>10, <1>11 DEF Accounted, MayRead, Octavia!Rules

LEMMA PlacementReadable ==
  ASSUME NEW x, Lists(x)
  PROVE  MayRead(Placement!Rules(x), Placement!Rules(x))
<1> DEFINE Unread == {"reshaper"}
<1>1. Placement!SystemAdminApi(x) => Placement!SystemReaderApi(x)
  BY DEF Lists, UserKeys, ProjectKeys, Role, Placement!Role, Placement!Is,
      Placement!AdminRole, Placement!ReaderRole, Placement!SystemAdmin,
      Placement!SystemReader, Placement!SystemReaderApi, Placement!SystemAdminApi
<1>2. \A a \in {"resource_providers", "resource_classes",
         "resource_providers:inventories", "resource_providers:aggregates"} :
         ReadRule(a, "list", Placement!SystemReaderApi(x)) \in Placement!Rules(x)
  BY SMT DEF ReadRule, Placement!Rules, Placement!Providers, Placement!Reads,
      Placement!Writes, Placement!APIRules
<1>3. \A a \in {"traits", "resource_providers:traits", "allocations"} : ReadRule(a,
         "list", Placement!SystemReaderApi(x)) \in Placement!Rules(x)
  BY SMT DEF ReadRule, Placement!Rules, Placement!TraitsAndAllocations, Placement!Reads,
      Placement!Writes, Placement!APIRules
<1>4. Placement!SystemReaderApi(x) => {"resource_providers", "resource_classes",
         "resource_providers:inventories", "resource_providers:aggregates", "traits",
         "resource_providers:traits", "allocations"}
         \subseteq Readable(Placement!Rules(x))
  BY <1>2, <1>3, ReadShows
<1>5. Accounted(Placement!Providers(x), Unread, Placement!Rules(x))
  BY <1>1, <1>4, SMT DEF Accounted, Placement!Providers, Placement!Reads,
      Placement!Writes, Placement!APIRules
<1>6. Accounted(Placement!TraitsAndAllocations(x), Unread, Placement!Rules(x))
  BY <1>1, <1>4, SMT DEF Accounted, Placement!TraitsAndAllocations, Placement!Reads,
      Placement!Writes, Placement!APIRules
<1>7. Accounted(Placement!NamedChecks(x), Unread, Placement!Rules(x))
  BY SMT DEF Accounted, Placement!NamedChecks, Placement!Checks, Placement!APIRules
<1> QED
  BY <1>5, <1>6, <1>7 DEF Accounted, MayRead, Placement!Rules

LEMMA TroveReadable ==
  ASSUME NEW x, Lists(x)
  PROVE  MayRead(Trove!Rules(x), Trove!Rules(x))
<1>1. ReadRule("instance", "index", Trove!AdminOrOwner(x)) \in Trove!Rules(x)
  BY SMT DEF ReadRule, Trove!Rules, Trove!Instances, Trove!Reads, Trove!Writes,
      Trove!APIRules
<1>2. ReadRule("cluster", "extension:root:index", Trove!AdminOrOwner(x))
         \in Trove!Rules(x)
  BY SMT DEF ReadRule, Trove!Rules, Trove!UsersAndDatabases, Trove!Reads, Trove!Writes,
      Trove!APIRules
<1>3. \A a \in {"backup", "backup_strategy"} : ReadRule(a, "index",
         Trove!AdminOrOwner(x)) \in Trove!Rules(x)
  BY SMT DEF ReadRule, Trove!Rules, Trove!ClustersAndBackups, Trove!Reads, Trove!Writes,
      Trove!APIRules
<1>4. /\ ReadRule("configuration", "index", Trove!AdminOrOwner(x)) \in Trove!Rules(x)
      /\ ReadRule("datastore", "index", Trove!Anyone(x)) \in Trove!Rules(x)
  BY SMT DEF ReadRule, Trove!Rules, Trove!Configurations, Trove!Reads, Trove!Writes,
      Trove!APIRules
<1>5. ReadRule("module", "index", Trove!AdminOrOwner(x)) \in Trove!Rules(x)
  BY SMT DEF ReadRule, Trove!Rules, Trove!Modules, Trove!Reads, Trove!Writes,
      Trove!APIRules
<1>6. {"instance", "cluster", "backup", "backup_strategy", "configuration", "module",
         "datastore"} \subseteq Readable(Trove!Rules(x))
  <2>1. /\ Trove!AdminOrOwner(x)
        /\ Trove!Anyone(x)
    BY DEF Lists, UserKeys, ProjectKeys, Role, Trove!Role, Trove!Is, Trove!Same,
        Trove!Anyone, Trove!AdminRole, Trove!ContextAdmin, Trove!Admin,
        Trove!AdminOrOwner
  <2> QED
    BY <2>1, <1>1, <1>2, <1>3, <1>4, <1>5, ReadShows
<1>7. Accounted(Trove!Instances(x), {}, Trove!Rules(x))
  BY <1>6, SMT DEF Accounted, Trove!Instances, Trove!Reads, Trove!Writes, Trove!APIRules
<1>8. Accounted(Trove!UsersAndDatabases(x), {}, Trove!Rules(x))
  BY <1>6, SMT DEF Accounted, Trove!UsersAndDatabases, Trove!Reads, Trove!Writes,
      Trove!APIRules
<1>9. Accounted(Trove!ClustersAndBackups(x), {}, Trove!Rules(x))
  BY <1>6, SMT DEF Accounted, Trove!ClustersAndBackups, Trove!Reads, Trove!Writes,
      Trove!APIRules
<1>10. Accounted(Trove!Configurations(x), {}, Trove!Rules(x))
  BY <1>6, SMT DEF Accounted, Trove!Configurations, Trove!Reads, Trove!Writes,
      Trove!APIRules
<1>11. Accounted(Trove!Modules(x), {}, Trove!Rules(x))
  BY <1>6, SMT DEF Accounted, Trove!Modules, Trove!Reads, Trove!Writes, Trove!APIRules
<1>12. Accounted(Trove!NamedChecks(x), {}, Trove!Rules(x))
  BY SMT DEF Accounted, Trove!NamedChecks, Trove!Checks, Trove!APIRules
<1> QED
  BY <1>7, <1>8, <1>9, <1>10, <1>11, <1>12 DEF Accounted, MayRead, Trove!Rules

LEMMA ZunReadable ==
  ASSUME NEW x, Lists(x)
  PROVE  MayRead(Zun!Rules(x), Zun!Rules(x))
<1> DEFINE Unread == {"network"}
<1>1. ReadRule("container", "get_one", Zun!ContextAdmin(x) \/ Zun!OwnProject(x))
         \in Zun!Rules(x)
  BY SMT DEF ReadRule, Zun!Rules, Zun!Containers, Zun!Reads, Zun!Writes, Zun!APIRules
<1>2. /\ ReadRule("image", "search", Zun!ContextAdmin(x) \/ Zun!OwnProject(x))
            \in Zun!Rules(x)
      /\ ReadRule("zun-service", "get_all", Zun!ContextIsAdmin(x)) \in Zun!Rules(x)
      /\ ReadRule("capsule", "get", Zun!ContextAdmin(x) \/ Zun!OwnProject(x))
            \in Zun!Rules(x)
  BY SMT DEF ReadRule, Zun!Rules, Zun!ImagesAndCapsules, Zun!Reads, Zun!Writes,
      Zun!APIRules
<1>3. /\ ReadRule("quota", "get", Zun!ContextAdmin(x) \/ Zun!OwnProject(x))
            \in Zun!Rules(x)
      /\ ReadRule("quota_class", "get", Zun!ContextIsAdmin(x)) \in Zun!Rules(x)
      /\ ReadRule("registry", "get_one", Zun!ContextAdmin(x) \/ Zun!OwnProject(x))
            \in Zun!Rules(x)
  BY SMT DEF ReadRule, Zun!Rules, Zun!NetworksAndRegistries, Zun!Reads, Zun!Writes,
      Zun!APIRules
<1>4. /\ {"container", "image", "capsule", "quota", "registry"}
            \subseteq Readable(Zun!Rules(x))
      /\ Zun!ContextIsAdmin(x) => {"zun-service", "quota_class"}
            \subseteq Readable(Zun!Rules(x))
  <2>1. Zun!ContextAdmin(x) \/ Zun!OwnProject(x)
    BY DEF Lists, UserKeys, ProjectKeys, Role, Zun!Is, Zun!Same, Zun!ContextAdmin,
        Zun!OwnProject
  <2> QED
    BY <2>1, <1>1, <1>2, <1>3, ReadShows
<1>5. Accounted(Zun!Containers(x), Unread, Zun!Rules(x))
  BY <1>4, SMT DEF Accounted, Zun!Containers, Zun!Reads, Zun!Writes, Zun!APIRules
<1>6. Accounted(Zun!ContainerActions(x), Unread, Zun!Rules(x))
  BY <1>4, SMT DEF Accounted, Zun!ContainerActions, Zun!Reads, Zun!Writes, Zun!APIRules
<1>7. Accounted(Zun!ImagesAndCapsules(x), Unread, Zun!Rules(x))
  BY <1>4, SMT DEF Accounted, Zun!ImagesAndCapsules, Zun!Reads, Zun!Writes, Zun!APIRules
<1>8. Accounted(Zun!NetworksAndRegistries(x), Unread, Zun!Rules(x))
  BY <1>4, SMT DEF Accounted, Zun!NetworksAndRegistries, Zun!Reads, Zun!Writes,
      Zun!APIRules
<1>9. Accounted(Zun!NamedChecks(x), Unread, Zun!Rules(x))
  BY SMT DEF Accounted, Zun!NamedChecks, Zun!Checks, Zun!APIRules
<1> QED
  BY <1>5, <1>6, <1>7, <1>8, <1>9 DEF Accounted, MayRead, Zun!Rules

LEMMA ServiceReadable ==
  ASSUME NEW service \in Enforced, NEW x, Lists(x)
  PROVE  MayRead(ServiceRules(service, x), ServiceRules(service, x))
<1>1. CASE service = "barbican"
  BY <1>1, BarbicanReadable DEF ServiceRules
<1>2. CASE service = "cinder"
  BY <1>2, CinderReadable DEF ServiceRules
<1>3. CASE service = "designate"
  BY <1>3, DesignateReadable DEF ServiceRules
<1>4. CASE service = "glance"
  BY <1>4, GlanceReadable DEF ServiceRules
<1>5. CASE service = "heat"
  BY <1>5, HeatReadable DEF ServiceRules
<1>6. CASE service = "ironic"
  BY <1>6, IronicReadable DEF ServiceRules
<1>7. CASE service = "ironic_inspector"
  BY <1>7, InspectorReadable DEF ServiceRules
<1>8. CASE service = "keystone"
  BY <1>8, KeystoneReadable DEF ServiceRules
<1>9. CASE service = "magnum"
  BY <1>9, MagnumReadable DEF ServiceRules
<1>10. CASE service = "manila"
  BY <1>10, ManilaReadable DEF ServiceRules
<1>11. CASE service = "masakari"
  BY <1>11, MasakariReadable DEF ServiceRules
<1>12. CASE service = "neutron"
  BY <1>12, NeutronReadable DEF ServiceRules
<1>13. CASE service = "nova"
  BY <1>13, NovaReadable DEF ServiceRules
<1>14. CASE service = "octavia"
  BY <1>14, OctaviaReadable DEF ServiceRules
<1>15. CASE service = "placement"
  BY <1>15, PlacementReadable DEF ServiceRules
<1>16. CASE service = "trove"
  BY <1>16, TroveReadable DEF ServiceRules
<1>17. CASE service = "zun"
  BY <1>17, ZunReadable DEF ServiceRules
<1> QED
  BY <1>1, <1>2, <1>3, <1>4, <1>5, <1>6, <1>7, <1>8, <1>9, <1>10, <1>11, <1>12, <1>13,
     <1>14, <1>15, <1>16, <1>17 DEF Enforced, SupportedServices

LEMMA ReaderLists ==
  ASSUME NEW u, "reader" \in u.roles
  PROVE  Lists(Asker(u, GeneratedTarget))
<1> DEFINE creds == UserContext(u)
<1>1. /\ {"user_id", "project_id", "tenant_id"} \subseteq DOMAIN creds
      /\ creds["user_id"] = "U"
      /\ creds["project_id"] = "P"
      /\ creds["tenant_id"] = "P"
  BY DEF UserContext
<1>2. Asker(u, GeneratedTarget) = [roles |-> u.roles, creds |-> creds, target |-> GeneratedTarget]
  BY DEF Asker
<1>3. UserKeys \cup ProjectKeys \subseteq Keys
  BY DEF Keys
<1>4. UserKeys \cap ProjectKeys = {}
  BY DEF UserKeys, ProjectKeys
<1>5. /\ \A k \in UserKeys : Mine[k] = "U"
      /\ \A k \in ProjectKeys : Mine[k] = "P"
  BY <1>4 DEF Mine, Owned
<1> HIDE DEF creds
<1> QED
  BY <1>1, <1>2, <1>3, <1>5, MadeUpTarget, KeysNamed DEF Lists, Role

(* Whatever roles a reader has besides, and whatever the configuration: where the
   listing says that a resource may be changed, and there is a rule for reading it,
   it says that it may be read. Most of that is the reader's role on the own project,
   and where it is not, who passes the one check passes the other. *)
THEOREM ChangersMayRead == RequestSpec => []WriterMayRead
<1>1. Tables => WriterMayRead
  <2> SUFFICES ASSUME Tables, Answered("list"), "reader" \in answer.user.roles,
                      NEW w \in answer.rules, w.allowed, w.access = "write",
                      NEW q \in answer.rules, q.access = "read",
                      q.service = w.service, q.resource = w.resource
               PROVE  \E r \in answer.rules :
                         /\ r.allowed /\ r.access = "read"
                         /\ r.service = w.service /\ r.resource = w.resource
    BY DEF WriterMayRead, Resources, Allowed
  <2> DEFINE x == Asker(answer.user, GeneratedTarget)
             services == answer.services \cap Enforced
             Told(service, r) == [service |-> service, resource |-> r.resource,
                                  action |-> r.action, access |-> r.access,
                                  allowed |-> r.allowed]
  <2>1. answer.rules = AuthorizeAll(services, answer.user, GeneratedTarget)
    BY Unnamed DEF Tables, Said, Answered, Nothing
  <2>2. \A r : r \in answer.rules <=>
           \E service \in services : \E s \in ServiceRules(service, x) : r = Told(service, s)
    BY <2>1 DEF AuthorizeAll, Authorize, Asker
  <2>3. PICK service \in services : \E s \in ServiceRules(service, x) : w = Told(service, s)
    BY <2>2
  <2>4. PICK s \in ServiceRules(service, x) : w = Told(service, s)
    BY <2>3
  <2>5. PICK t \in ServiceRules(service, x) : q = Told(service, t)
    BY <2>2, <2>4
  <2>6. Lists(x)
    BY ReaderLists
  <2>7. s.resource \in Readable(ServiceRules(service, x))
    BY <2>4, <2>5, <2>6, ServiceReadable DEF MayRead
  <2>8. PICK r \in ServiceRules(service, x) :
           r.resource = s.resource /\ r.access = "read" /\ r.allowed
    BY <2>7 DEF Readable
  <2>9. Told(service, r) \in answer.rules
    BY <2>2, <2>8
  <2> QED
    BY <2>4, <2>8, <2>9
<1> QED
  BY <1>1, InitTables, StepTables, PTL DEF RequestSpec
===============================================================================
