-------------------------------- MODULE Session --------------------------------
(***************************************************************************)
(* The browser's session: the session cookie and the time_expired cookie,  *)
(* as the validate_token middleware (main.py) and the handlers of login,   *)
(* switch_project and logout (api/v1/login.py) set them, with calls that   *)
(* overlap, are answered out of order, or never answered.                  *)
(***************************************************************************)
EXTENDS Integers, FiniteSets

CONSTANTS
    Calls,     \* calls that may be under way at the same time
    Projects,  \* the projects of the user
    Expire,    \* access_token_expire
    Renew,     \* access_token_renew
    Flight,    \* the longest a call is waited for
    MaxTime    \* bound: the clock stops there

ASSUME SessionAssumption ==
    /\ Projects # {}
    /\ Expire \in Nat /\ Renew \in Nat /\ Flight \in Nat /\ MaxTime \in Nat
    /\ 2 * Flight < Expire - Renew

VARIABLES
    now,      \* the server's clock
    cookie,   \* the session cookie in the jar, if there is one
    shown,    \* the time_expired cookie in the jar, if there is one
    call,     \* what each call carries, and what its answer will set
    \* What the client knows, kept for the properties; no handler reads it.
    current,  \* the project of the last login or switch answered
    kept      \* when the last call answered was let in, for its cookie

vars == <<now, cookie, shown, call, current, kept>>

Cookie == [project : Projects, exp : Nat]

Kind == {"login", "call", "switch", "logout"}

(* The urls the middleware lets pass unread. *)
Ignored == {"login", "logout"}

Stage == {"idle", "sent", "admitted", "answered", "expired"}

Call == [at : Stage, kind : Kind, target : Projects,
         jar : SUBSET Cookie,      \* the session cookie sent along
         seen : Int,               \* kept, when it was sent
         born : Nat, served : Nat, \* when it was sent and let in
         renewed : SUBSET Cookie,  \* the middleware's new cookie
         sets : SUBSET Cookie,     \* the cookie its answer leaves in the jar
         done : BOOLEAN]           \* did the handler succeed?

NoCall == [at |-> "idle", kind |-> "call", target |-> CHOOSE p \in Projects : TRUE,
           jar |-> {}, seen |-> -1, born |-> 0, served |-> 0,
           renewed |-> {}, sets |-> {}, done |-> FALSE]

UnderWay(q) == call[q].at \in {"sent", "admitted", "answered"}

Fresh(project) == [project |-> project, exp |-> now + Expire]

Valid(c) == c.exp >= now

-----------------------------------------------------------------------------
Send(q) ==
    /\ call[q].at = "idle"
    /\ \E k \in Kind, p \in Projects :
          call' = [call EXCEPT ![q] =
              [at |-> "sent", kind |-> k, target |-> p, jar |-> cookie,
               seen |-> kept, born |-> now, served |-> now,
               renewed |-> {}, sets |-> {}, done |-> FALSE]]
    /\ UNCHANGED <<now, cookie, shown, current, kept>>

(* Mutated: a token with exactly the renewal time left is not renewed. *)
DueBefore(c) == c.exp - now < Renew

Due(c) == c.exp - now <= Renew

(* The middleware: a valid cookie lets the call in, and is renewed when it is
   due, for the project and the Keystone token that it holds.  A call without
   a cookie goes on to the handler, which looks at its header. *)
Admit(q) ==
    /\ call[q].at = "sent"
    /\ call[q].kind \in Ignored \/ \A c \in call[q].jar : Valid(c)
    /\ call' = [call EXCEPT ![q] = [@ EXCEPT
          !.at = "admitted",
          !.served = now,
          !.renewed = IF call[q].kind \in Ignored THEN {}
                      ELSE {Fresh(c.project) : c \in {d \in call[q].jar : Due(d)}}]]
    /\ UNCHANGED <<now, cookie, shown, current, kept>>

(* An expired cookie is refused, whatever the header says. *)
Expired(q) ==
    /\ call[q].at = "sent"
    /\ call[q].kind \notin Ignored
    /\ \E c \in call[q].jar : ~Valid(c)
    /\ call' = [call EXCEPT ![q] = [@ EXCEPT !.at = "expired", !.served = now]]
    /\ UNCHANGED <<now, cookie, shown, current, kept>>

(* The cookie a handler that succeeds sets. *)
Given(q) ==
    IF call[q].kind \in {"login", "switch"} THEN {Fresh(call[q].target)} ELSE {}

(* The middleware sets its cookie on the handler's response, after the
   handler; the browser keeps the last cookie of a name. *)
LastSet(q, done) ==
    IF call[q].renewed # {} THEN call[q].renewed
    ELSE IF done THEN Given(q) ELSE {}

(* The handler succeeds, or fails: the credentials, Keystone, or the header
   of the call.  A failure is a response too, with the renewed cookie. *)
Answer(q) ==
    /\ call[q].at = "admitted"
    /\ \E done \in BOOLEAN :
          call' = [call EXCEPT ![q] = [@ EXCEPT !.at = "answered", !.done = done,
                                                !.sets = LastSet(q, done)]]
    /\ UNCHANGED <<now, cookie, shown, current, kept>>

(* Mutated: a renewal sets the session cookie only. *)
ShownOfHandler(q) == IF call[q].renewed = {} THEN call[q].sets ELSE {}

(* Both cookies are set together. *)
ShownOf(q) == call[q].sets

(* Was the call let in for the cookie it carried, or did it set one? *)
Counts(q) ==
    \/ call[q].kind \notin Ignored /\ call[q].jar # {}
    \/ call[q].sets # {}

Later(t, u) == IF t > u THEN t ELSE u

Deliver(q) ==
    /\ call[q].at = "answered"
    /\ cookie' = IF call[q].kind = "logout" THEN {}
                 ELSE IF call[q].sets # {} THEN call[q].sets ELSE cookie
    /\ shown' = IF ShownOf(q) # {} THEN {c.exp : c \in ShownOf(q)} ELSE shown
    /\ current' = IF call[q].done /\ call[q].kind \in {"login", "switch"}
                  THEN {call[q].target} ELSE current
    /\ kept' = IF Counts(q) THEN Later(kept, call[q].served) ELSE kept
    /\ call' = [call EXCEPT ![q] = NoCall]
    /\ UNCHANGED now

(* The client gives up, Keystone refuses the token, or the connection breaks:
   the jar stays as it is.  So it does when an expired call is answered. *)
Lost(q) ==
    /\ UnderWay(q) \/ call[q].at = "expired"
    /\ call' = [call EXCEPT ![q] = NoCall]
    /\ UNCHANGED <<now, cookie, shown, current, kept>>

Tick ==
    /\ now < MaxTime
    /\ \A q \in Calls : UnderWay(q) => now < call[q].born + Flight
    /\ now' = now + 1
    /\ UNCHANGED <<cookie, shown, call, current, kept>>

-----------------------------------------------------------------------------
Init ==
    /\ now = 0
    /\ cookie = {} /\ shown = {} /\ current = {}
    /\ kept = -1
    /\ call = [q \in Calls |-> NoCall]

Next ==
    \/ \E q \in Calls :
          Send(q) \/ Admit(q) \/ Expired(q) \/ Answer(q) \/ Deliver(q) \/ Lost(q)
    \/ Tick

Spec == Init /\ [][Next]_vars

-----------------------------------------------------------------------------
(* Properties. *)

TypeOK ==
    /\ now \in Nat /\ kept \in Int
    /\ cookie \subseteq Cookie /\ Cardinality(cookie) <= 1
    /\ shown \subseteq Nat /\ current \subseteq Projects
    /\ DOMAIN call = Calls
    /\ \A q \in Calls :
          /\ call[q].at \in Stage /\ call[q].kind \in Kind
          /\ call[q].target \in Projects
          /\ \A s \in {call[q].jar, call[q].renewed, call[q].sets} :
                s \subseteq Cookie /\ Cardinality(s) <= 1

(* The expiry the page shows and counts down (time_expired) is that of the
   session it has, also when answers overtake one another. *)
ShownIsReal == \A c \in cookie : shown = {c.exp}

(* A user who is active is not thrown out: a call finds its session expired
   only when the last call let in, of those answered as it was sent, is older
   than the renewal time and a second (the renewal and the expiry are both
   inclusive); however calls overlap and answers overtake one another, an older
   renewal never shortens a session below that. *)
KeptAlive ==
    \A q \in Calls : call[q].at = "expired" /\ call[q].seen >= 0 =>
        call[q].served - call[q].seen > Renew + 1

(* A switch of project takes: once nothing is under way, the session is one of
   the project that the last login or switch answered with. *)
SwitchTakes ==
    (\A q \in Calls : ~UnderWay(q)) =>
        \A c \in cookie : current = {c.project}

=============================================================================
