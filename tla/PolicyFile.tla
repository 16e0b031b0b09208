------------------------------ MODULE PolicyFile ------------------------------
(***************************************************************************)
(* The file with which an operator overrides the rules of one service, and *)
(* how an Enforcer (policy/base.py) keeps up with it: load_rules, which    *)
(* every authorize of every thread begins with, and oslo.policy's          *)
(* read_cached_file, which reads the file again when its time is later     *)
(* than that of the copy it has.                                           *)
(*                                                                         *)
(* list_policies and check_policies are plain functions, which FastAPI     *)
(* runs in threads: the Enforcer's fields are shared without a lock, and   *)
(* each access to the file or to a field is a step.                        *)
(***************************************************************************)
EXTENDS Integers, FiniteSets

CONSTANTS
    Threads,   \* the threads of one worker that answer requests
    Good,      \* contents that policy.Rules.load accepts
    Bad,       \* contents that it does not
    None,      \* neither: no content, no rules
    MaxClock   \* bound: how far the file system's clock goes

ASSUME PolicyFileAssumption ==
    /\ Good \cap Bad = {}
    /\ None \notin Good \cup Bad
    /\ MaxClock \in Nat \ {0}
    /\ IsFiniteSet(Threads)

VARIABLES
    file,       \* the file: what it holds (None: there is none) and its time
    clock,      \* the file system's clock
    cache,      \* _file_cache: what was read, and the time noted with it
    file_rules, \* the rules in force from the file (None: the empty dict)
    thread,     \* where each thread is in load_rules, and its variables
    \* What happened, kept for the properties; no action reads it.
    history

fs == <<file, clock>>
vars == <<file, clock, cache, file_rules, thread, history>>

Contents == Good \cup Bad

Times == 0 .. MaxClock

Places == {"idle", "clear", "stat", "compare", "read", "store", "stamp", "take", "load"}

Thread == [at : Places, mtime : Times, data : Contents \cup {None}, reloaded : BOOLEAN]

Resting == [at |-> "idle", mtime |-> 0, data |-> None, reloaded |-> FALSE]

At(t, place) == thread[t].at = place

Goto(t, place) == thread' = [thread EXCEPT ![t].at = place]

(* load_rules is over, with or without an exception, which authorize drops. *)
Return(t) ==
    /\ thread' = [thread EXCEPT ![t] = Resting]
    /\ history' = [history EXCEPT !.asked = @ \/ t \in history.fresh]

Loading == {t \in Threads : ~At(t, "idle")}
-----------------------------------------------------------------------------
(* path.exists(). *)
Begin(t) ==
    /\ At(t, "idle")
    /\ Goto(t, IF file.data = None THEN "clear" ELSE "stat")
    /\ history' = [history EXCEPT !.overlap = @ \/ Loading # {},
                                  !.fresh = @ \cup {t},
                                  !.missed = @ \/ file.data = None]
    /\ UNCHANGED <<fs, cache, file_rules>>

Clear(t) ==
    /\ At(t, "clear")
    /\ file_rules' = None
    /\ Return(t)
    /\ UNCHANGED <<fs, cache>>

(* os.path.getmtime, which fails if the file has gone meanwhile. *)
Stat(t) ==
    /\ At(t, "stat")
    /\ IF file.data = None
       THEN Return(t)
       ELSE /\ thread' = [thread EXCEPT ![t].at = "compare", ![t].mtime = file.mtime]
            /\ UNCHANGED history
    /\ UNCHANGED <<fs, cache, file_rules>>

Compare(t) ==
    /\ At(t, "compare")
    /\ Goto(t, IF thread[t].mtime > cache.mtime THEN "read" ELSE "take")
    /\ UNCHANGED <<fs, cache, file_rules, history>>

Read(t) ==
    /\ At(t, "read")
    /\ IF file.data = None
       THEN Return(t)
       ELSE /\ thread' = [thread EXCEPT ![t].at = "store", ![t].data = file.data]
            /\ UNCHANGED history
    /\ UNCHANGED <<fs, cache, file_rules>>

Store(t) ==
    /\ At(t, "store")
    /\ cache' = [cache EXCEPT !.data = thread[t].data]
    /\ Goto(t, "stamp")
    /\ UNCHANGED <<fs, file_rules, history>>

(* Mutated: the time is that of the file now. *)
TimeNow(t) == file.mtime

(* The time noted is the one that was asked for before the file was read. *)
TimeNoted(t) == thread[t].mtime

Stamp(t) ==
    /\ At(t, "stamp")
    /\ cache' = [cache EXCEPT !.mtime = TimeNoted(t)]
    /\ thread' = [thread EXCEPT ![t].at = "take", ![t].reloaded = TRUE]
    /\ UNCHANGED <<fs, file_rules, history>>

(* Mutated: the file's rules are loaded once only. *)
ToBeLoadedOnce(t) == file_rules = None

ToBeLoaded(t) == thread[t].reloaded \/ file_rules = None

(* The result is the cache's data, whoever has stored it. *)
Take(t) ==
    /\ At(t, "take")
    /\ IF ToBeLoaded(t)
       THEN /\ thread' = [thread EXCEPT ![t].at = "load", ![t].data = cache.data]
            /\ UNCHANGED history
       ELSE Return(t)
    /\ UNCHANGED <<fs, cache, file_rules>>

(* Mutated: a file that cannot be read as rules counts as one without any. *)
LoadedOrNone(t) == IF thread[t].data \in Good THEN thread[t].data ELSE None

(* Rules.load raises on what it cannot parse: the rules stay as they are. *)
Loaded(t) == IF thread[t].data \in Good THEN thread[t].data ELSE file_rules

Load(t) ==
    /\ At(t, "load")
    /\ file_rules' = Loaded(t)
    /\ Return(t)
    /\ UNCHANGED <<fs, cache>>

Step(t) ==
    \/ Begin(t) \/ Clear(t) \/ Stat(t) \/ Compare(t) \/ Read(t)
    \/ Store(t) \/ Stamp(t) \/ Take(t) \/ Load(t)
-----------------------------------------------------------------------------
(* The operator: writes the file, copies a kept one over it with its time,  *)
(* or removes it. Two changes within a tick of the clock have the same time. *)
ChangeTo(data, mtime) ==
    /\ file' = [data |-> data, mtime |-> mtime]
    /\ history' = [overlap |-> Cardinality(Loading) > 1,
                   fresh |-> {}, asked |-> FALSE,
                   later |-> mtime > history.latest \/ data = None,
                   latest |-> IF mtime > history.latest THEN mtime ELSE history.latest,
                   missed |-> history.missed]
    /\ UNCHANGED <<clock, cache, file_rules, thread>>

Write == \E data \in Contents : ChangeTo(data, clock)

Restore == \E data \in Contents, mtime \in 1 .. clock - 1 : ChangeTo(data, mtime)

Remove == file.data # None /\ ChangeTo(None, 0)

Tick ==
    /\ clock < MaxClock
    /\ clock' = clock + 1
    /\ UNCHANGED <<file, cache, file_rules, thread, history>>

Operator == Write \/ Restore \/ Remove
-----------------------------------------------------------------------------
Init ==
    /\ file \in {[data |-> None, mtime |-> 0]} \cup [data : Contents, mtime : {1}]
    /\ clock = 1
    /\ cache = [data |-> None, mtime |-> 0]
    /\ file_rules = None
    /\ thread = [t \in Threads |-> Resting]
    /\ history = [overlap |-> FALSE, fresh |-> {}, asked |-> FALSE, later |-> TRUE,
                  latest |-> file.mtime, missed |-> FALSE]

Next == (\E t \in Threads : Step(t)) \/ Operator \/ Tick

Spec == Init /\ [][Next]_vars

(* Threads run, and requests go on coming. *)
FairSpec == Spec /\ \A t \in Threads : WF_vars(Step(t))
-----------------------------------------------------------------------------
TypeOK ==
    /\ file \in [data : Contents \cup {None}, mtime : Times]
    /\ clock \in Times
    /\ cache \in [data : Contents \cup {None}, mtime : Times]
    /\ file_rules \in Good \cup {None}
    /\ thread \in [Threads -> Thread]
    /\ history.fresh \subseteq Threads

(* Once a thread has begun and ended load_rules after the last change of the *)
(* file, the rules in force are the file's, unless two threads were at it at *)
(* the same time, the file's time did not go forward with the change, or the *)
(* file is none that can be loaded. Nothing else makes rules stale for good: *)
(* not a change in the middle of the reading, nor a removal and a return.    *)
StaleOnlyAfterOverlap ==
    Loading = {} /\ history.asked /\ history.later /\ ~history.overlap
    /\ file.data \notin Bad
        => file_rules = file.data

(* As long as no thread has found the file missing, the rules that were once *)
(* loaded from it are not lost to contents that cannot be loaded: whatever   *)
(* the threads do at the same time, the operator's rules never give way to   *)
(* those of the code.                                                        *)
LastGoodHolds ==
    [][file_rules # None /\ ~history.missed' => file_rules' # None]_vars

(* A file that is written with a later time comes into force, as long as     *)
(* requests come, unless it is changed again or threads overlap.             *)
TakesEffect ==
    \A data \in Good :
        file.data = data /\ history.later
            ~> file_rules = data \/ file.data # data \/ ~history.later \/ history.overlap
=============================================================================
