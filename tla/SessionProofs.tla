----------------------------- MODULE SessionProofs -----------------------------
(***************************************************************************)
(* Proofs about Session, for any calls, projects and times within the      *)
(* assumption on the settings: however calls overlap and answers overtake  *)
(* one another, the page counts down the session it has, and an active     *)
(* user keeps it. What an overtaking answer leaves in the jar was made no  *)
(* longer ago than a call may take, so it outlasts every call under way.   *)
(***************************************************************************)
EXTENDS Session, FiniteSetTheorems, TLAPS

AtMostOne(S) == \A x, y \in S : x = y

Whole ==
    /\ now \in Nat /\ kept \in Int
    /\ cookie \subseteq Cookie /\ AtMostOne(cookie)
    /\ shown \subseteq Nat /\ current \subseteq Projects
    /\ call \in [Calls -> Call]

Single ==
    \A q \in Calls :
        AtMostOne(call[q].jar) /\ AtMostOne(call[q].renewed) /\ AtMostOne(call[q].sets)

(* Nothing is older than the longest a call is waited for. *)
Timely(q) ==
    UnderWay(q) =>
        /\ call[q].born <= call[q].served
        /\ call[q].served <= now
        /\ now <= call[q].born + Flight

(* The cookies a call brings were made after it was sent. *)
Lasting(q) ==
    UnderWay(q) => \A c \in call[q].renewed \cup call[q].sets : c.exp >= call[q].born + Expire

(* A cookie that was not renewed was good for longer than the renewal time. *)
Checked(q) ==
    /\ call[q].at \in {"admitted", "answered"} /\ call[q].kind \notin Ignored
       /\ call[q].renewed = {} => \A c \in call[q].jar : c.exp > call[q].served + Renew
    /\ call[q].at = "answered" /\ call[q].sets = {} => call[q].renewed = {}

(* The session was good for longer than that when the call was sent. *)
SentAhead(q) == call[q].at # "idle" => \A c \in call[q].jar : c.exp > call[q].seen + Renew

(* A cookie that came into the jar since a call was sent outlasts it. *)
Replaced(q) ==
    UnderWay(q) =>
        \A c \in cookie : c \in call[q].jar \/ c.exp > call[q].born + Flight + Renew

Each(q) == Timely(q) /\ Lasting(q) /\ Checked(q) /\ SentAhead(q) /\ Replaced(q)

(* The session is good for longer than the renewal time after the last call that
   was let in. *)
Ahead == kept <= now /\ \A c \in cookie : c.exp > kept + Renew

IInv ==
    /\ Whole
    /\ Single
    /\ \A q \in Calls : Each(q)
    /\ Ahead
    /\ ShownIsReal
    /\ KeptAlive

-----------------------------------------------------------------------------
(* A set of which any two elements are the same has one at most. *)
LEMMA OneAtMost ==
  ASSUME NEW S, AtMostOne(S)
  PROVE  Cardinality(S) <= 1
<1>1. CASE S = {}
  BY <1>1, FS_EmptySet
<1>2. CASE S # {}
  <2>1. PICK x \in S : TRUE
    BY <1>2
  <2>2. S = {x}
    BY <2>1 DEF AtMostOne
  <2>3. Cardinality({x}) = 1
    BY FS_Singleton
  <2> QED
    BY <2>2, <2>3
<1> QED
  BY <1>1, <1>2

(* Only q's own record is another; what a step gives it keeps its type. *)
Turns(q, k) ==
    /\ call' \in [Calls -> Call]
    /\ call'[q] = k
    /\ \A u \in Calls \ {q} : call'[u] = call[u]

LEMMA Turned ==
  ASSUME Whole, NEW q \in Calls, NEW k \in Call, call' = [call EXCEPT ![q] = k]
  PROVE  Turns(q, k)
BY DEF Whole, Turns

LEMMA Fields ==
  ASSUME Whole, NEW q \in Calls
  PROVE  /\ call[q] \in Call
         /\ call[q].at \in Stage /\ call[q].kind \in Kind /\ call[q].target \in Projects
         /\ call[q].jar \subseteq Cookie /\ call[q].seen \in Int
         /\ call[q].born \in Nat /\ call[q].served \in Nat
         /\ call[q].renewed \subseteq Cookie /\ call[q].sets \subseteq Cookie
         /\ call[q].done \in BOOLEAN
BY DEF Whole, Call

(* What is made now is good for the session's full time. *)
LEMMA FreshMade ==
  ASSUME Whole, NEW p \in Projects
  PROVE  Fresh(p) \in Cookie /\ Fresh(p).exp = now + Expire
BY SessionAssumption DEF Whole, Fresh, Cookie

LEMMA NoCallTyped ==
  /\ NoCall \in Call
  /\ NoCall.at = "idle" /\ NoCall.jar = {} /\ NoCall.renewed = {} /\ NoCall.sets = {}
<1> DEFINE p0 == CHOOSE p \in Projects : TRUE
<1>1. p0 \in Projects
  BY SessionAssumption
<1> HIDE DEF p0
<1>2. NoCall = [at |-> "idle", kind |-> "call", target |-> p0,
                jar |-> {}, seen |-> -1, born |-> 0, served |-> 0,
                renewed |-> {}, sets |-> {}, done |-> FALSE]
  BY DEF NoCall, p0
<1> QED
  BY <1>1, <1>2 DEF Call, Stage, Kind

-----------------------------------------------------------------------------
(* What a step leaves of its call. *)
LEMMA SendMoves ==
  ASSUME Whole, NEW q \in Calls, Send(q)
  PROVE  LET k == call'[q]
         IN  /\ Turns(q, k)
             /\ k.at = "sent" /\ k.jar = cookie /\ k.seen = kept
             /\ k.born = now /\ k.served = now /\ k.renewed = {} /\ k.sets = {}
<1>1. PICK kind \in Kind, p \in Projects :
        call' = [call EXCEPT ![q] =
              [at |-> "sent", kind |-> kind, target |-> p, jar |-> cookie,
               seen |-> kept, born |-> now, served |-> now,
               renewed |-> {}, sets |-> {}, done |-> FALSE]]
  BY DEF Send
<1> DEFINE k == [at |-> "sent", kind |-> kind, target |-> p, jar |-> cookie,
                 seen |-> kept, born |-> now, served |-> now,
                 renewed |-> {}, sets |-> {}, done |-> FALSE]
<1>2. k \in Call
  BY DEF Whole, Call, Stage
<1>3. Turns(q, k)
  BY <1>1, <1>2, Turned
<1> QED
  BY <1>3 DEF Turns

LEMMA AdmitMoves ==
  ASSUME Whole, Single, NEW q \in Calls, Admit(q)
  PROVE  LET l == call[q]
             k == call'[q]
         IN  /\ Turns(q, k)
             /\ k.at = "admitted" /\ k.served = now /\ k.kind = l.kind /\ k.jar = l.jar
             /\ k.seen = l.seen /\ k.born = l.born /\ k.sets = l.sets
             /\ AtMostOne(k.renewed)
             /\ \A c \in k.renewed : c.exp = now + Expire
             /\ k.kind \notin Ignored /\ k.renewed = {} => \A c \in k.jar : ~Due(c)
<1> DEFINE l == call[q]
           renewed == IF l.kind \in Ignored THEN {}
                      ELSE {Fresh(c.project) : c \in {d \in l.jar : Due(d)}}
           k == [l EXCEPT !.at = "admitted", !.served = now, !.renewed = renewed]
<1>1. l \in Call /\ l.jar \subseteq Cookie
  BY Fields
<1>2. renewed \subseteq Cookie /\ \A c \in renewed : c.exp = now + Expire
  BY <1>1, FreshMade DEF Cookie
<1>3. AtMostOne(renewed)
  BY DEF Single, AtMostOne
<1>4. l.kind \notin Ignored /\ renewed = {} => \A c \in l.jar : ~Due(c)
  OBVIOUS
<1>5. call' = [call EXCEPT ![q] = k]
  BY DEF Admit
<1> HIDE DEF renewed
<1>6. k \in Call /\ k.at = "admitted" /\ k.served = now /\ k.renewed = renewed
      /\ k.kind = l.kind /\ k.jar = l.jar /\ k.seen = l.seen /\ k.born = l.born /\ k.sets = l.sets
  BY <1>1, <1>2 DEF Call, Stage, Whole
<1> HIDE DEF k
<1>7. Turns(q, k)
  BY <1>5, <1>6, Turned
<1> QED
  BY <1>2, <1>3, <1>4, <1>6, <1>7 DEF Turns

LEMMA ExpiredMoves ==
  ASSUME Whole, NEW q \in Calls, Expired(q)
  PROVE  LET l == call[q]
             k == call'[q]
         IN  /\ Turns(q, k)
             /\ k.at = "expired" /\ k.served = now /\ k.jar = l.jar /\ k.seen = l.seen
             /\ k.renewed = l.renewed /\ k.sets = l.sets
<1> DEFINE l == call[q]
           k == [l EXCEPT !.at = "expired", !.served = now]
<1>1. l \in Call
  BY Fields
<1>2. call' = [call EXCEPT ![q] = k]
  BY DEF Expired
<1>3. k \in Call /\ k.at = "expired" /\ k.served = now /\ k.jar = l.jar /\ k.seen = l.seen
      /\ k.renewed = l.renewed /\ k.sets = l.sets
  BY <1>1 DEF Call, Stage, Whole
<1> HIDE DEF k
<1>4. Turns(q, k)
  BY <1>2, <1>3, Turned
<1> QED
  BY <1>3, <1>4 DEF Turns

LEMMA AnswerMoves ==
  ASSUME Whole, Single, NEW q \in Calls, Answer(q)
  PROVE  LET l == call[q]
             k == call'[q]
         IN  /\ Turns(q, k)
             /\ k.at = "answered" /\ k.served = l.served /\ k.kind = l.kind /\ k.jar = l.jar
             /\ k.seen = l.seen /\ k.born = l.born /\ k.renewed = l.renewed
             /\ AtMostOne(k.sets)
             /\ \A c \in k.sets : c \in l.renewed \/ c.exp = now + Expire
             /\ k.sets = {} => k.renewed = {}
<1> DEFINE l == call[q]
<1>1. l \in Call /\ l.renewed \subseteq Cookie /\ l.target \in Projects
  BY Fields
<1>2. PICK done \in BOOLEAN :
        call' = [call EXCEPT ![q] = [l EXCEPT !.at = "answered", !.done = done,
                                              !.sets = LastSet(q, done)]]
  BY DEF Answer
<1> DEFINE sets == LastSet(q, done)
           k == [l EXCEPT !.at = "answered", !.done = done, !.sets = sets]
<1>3. /\ sets \subseteq Cookie /\ AtMostOne(sets)
      /\ \A c \in sets : c \in l.renewed \/ c.exp = now + Expire
      /\ sets = {} => l.renewed = {}
  <2>1. Fresh(l.target) \in Cookie /\ Fresh(l.target).exp = now + Expire
    BY <1>1, FreshMade
  <2>2. sets = l.renewed \/ sets = {Fresh(l.target)} \/ (sets = {} /\ l.renewed = {})
    BY DEF LastSet, Given
  <2> HIDE DEF sets
  <2> QED
    BY <1>1, <2>1, <2>2 DEF Single, AtMostOne
<1> HIDE DEF sets
<1>4. k \in Call /\ k.at = "answered" /\ k.served = l.served /\ k.sets = sets
      /\ k.kind = l.kind /\ k.jar = l.jar /\ k.seen = l.seen /\ k.born = l.born
      /\ k.renewed = l.renewed
  BY <1>1, <1>3 DEF Call, Stage
<1> HIDE DEF k
<1>5. Turns(q, k)
  <2>1. call' = [call EXCEPT ![q] = k]
    BY <1>2 DEF k, sets
  <2> QED
    BY <1>4, <2>1, Turned
<1> QED
  BY <1>3, <1>4, <1>5 DEF Turns

LEMMA DeliverMoves ==
  ASSUME Whole, NEW q \in Calls, Deliver(q) \/ Lost(q)
  PROVE  Turns(q, NoCall)
BY NoCallTyped, Turned DEF Deliver, Lost

(* The jar changes when an answer with a cookie is delivered, or at a logout. *)
LEMMA JarMoves ==
  ASSUME Whole, Single, NEW q \in Calls, Deliver(q)
  PROVE  /\ cookie' = {} \/ (cookie' = call[q].sets /\ cookie' # {})
                         \/ (call[q].sets = {} /\ cookie' = cookie)
         /\ AtMostOne(cookie') \/ cookie' = cookie
         /\ cookie' \subseteq Cookie
         /\ shown' = IF call[q].sets # {} THEN {c.exp : c \in call[q].sets} ELSE shown
         /\ shown' \subseteq Nat
         /\ current' \subseteq Projects
         /\ kept' = IF Counts(q) THEN Later(kept, call[q].served) ELSE kept
         /\ kept' \in Int
<1>1. call[q].sets \subseteq Cookie /\ call[q].target \in Projects /\ call[q].served \in Nat
  BY Fields
<1>2. shown' = IF call[q].sets # {} THEN {c.exp : c \in call[q].sets} ELSE shown
  BY DEF Deliver, ShownOf
<1>3. shown' \subseteq Nat
  BY <1>1, <1>2 DEF Whole, Cookie
<1>4. cookie' = {} \/ (cookie' = call[q].sets /\ cookie' # {})
        \/ (call[q].sets = {} /\ cookie' = cookie)
  BY DEF Deliver
<1>5. cookie' \subseteq Cookie /\ (AtMostOne(cookie') \/ cookie' = cookie)
  BY <1>1, <1>4 DEF Whole, Single, AtMostOne
<1>6. current' \subseteq Projects
  BY <1>1 DEF Deliver, Whole
<1>7. kept' = IF Counts(q) THEN Later(kept, call[q].served) ELSE kept
  BY DEF Deliver
<1>8. kept' \in Int
  BY <1>1, <1>7 DEF Later, Whole
<1> QED
  BY <1>2, <1>3, <1>4, <1>5, <1>6, <1>7, <1>8

(* The calls q may be gone on with; of the other calls, and of what they have
   been promised, it changes nothing but the jar. *)
Does(q) == Send(q) \/ Admit(q) \/ Expired(q) \/ Answer(q) \/ Deliver(q) \/ Lost(q)

LEMMA WholeStep ==
  ASSUME Whole, Single, NEW q \in Calls, Does(q)
  PROVE  Whole' /\ Single' /\ now' = now /\ \A u \in Calls \ {q} : call'[u] = call[u]
<1>1. Turns(q, call'[q])
  BY SendMoves, AdmitMoves, ExpiredMoves, AnswerMoves, DeliverMoves DEF Does, Turns
<1>2. now' = now
  BY DEF Does, Send, Admit, Expired, Answer, Deliver, Lost
<1>3. CASE Deliver(q)
  <2>1. AtMostOne(cookie') /\ cookie' \subseteq Cookie /\ shown' \subseteq Nat
        /\ current' \subseteq Projects /\ kept' \in Int
    BY <1>3, JarMoves DEF Whole
  <2>2. call'[q] = NoCall
    BY <1>3, DeliverMoves DEF Turns
  <2> QED
    BY <1>1, <1>2, <2>1, <2>2, NoCallTyped DEF Whole, Single, Turns, AtMostOne
<1>4. CASE ~Deliver(q)
  <2>1. UNCHANGED <<cookie, shown, current, kept>>
    BY <1>4 DEF Does, Send, Admit, Expired, Answer, Lost
  <2>2. Whole'
    BY <1>1, <1>2, <2>1 DEF Whole, Turns, AtMostOne
  <2>3. AtMostOne(call'[q].jar) /\ AtMostOne(call'[q].renewed) /\ AtMostOne(call'[q].sets)
    <3>1. CASE Send(q)
      <4>1. LET k == call'[q] IN k.jar = cookie /\ k.renewed = {} /\ k.sets = {}
        BY <3>1, SendMoves
      <4> QED
        BY <4>1 DEF Whole, AtMostOne
    <3>2. CASE Admit(q)
      BY <3>2, AdmitMoves DEF Single
    <3>3. CASE Expired(q)
      BY <3>3, ExpiredMoves DEF Single
    <3>4. CASE Answer(q)
      BY <3>4, AnswerMoves DEF Single
    <3>5. CASE Lost(q)
      BY <3>5, DeliverMoves, NoCallTyped DEF Turns, AtMostOne
    <3> QED
      BY <1>4, <3>1, <3>2, <3>3, <3>4, <3>5 DEF Does
  <2> QED
    BY <1>1, <1>2, <2>2, <2>3 DEF Single, Turns
<1> QED
  BY <1>3, <1>4

(* A cookie that an answer brings is good for longer than any call under way may
   take, and the renewal time after: it was made less than a call's time ago. *)
LEMMA BroughtLasts ==
  ASSUME IInv, NEW q \in Calls, call[q].at = "answered", NEW c \in call[q].sets,
         NEW u \in Calls, UnderWay(u)
  PROVE  c.exp > call[u].born + Flight + Renew /\ c.exp > now + Renew
<1>1. c.exp >= call[q].born + Expire /\ now <= call[q].born + Flight
  BY DEF IInv, Each, Lasting, Timely, UnderWay
<1>2. call[u].born <= now
  <2>1. call[u].born <= call[u].served /\ call[u].served <= now
    BY DEF IInv, Each, Timely
  <2> QED
    BY <2>1, Fields DEF IInv, Whole
<1>3. c.exp \in Nat /\ call[q].born \in Nat /\ call[u].born \in Nat /\ now \in Nat
  BY Fields DEF IInv, Whole, Cookie
<1> QED
  BY <1>1, <1>2, <1>3, SessionAssumption

LEMMA AheadStep ==
  ASSUME IInv, NEW q \in Calls, Does(q)
  PROVE  Ahead'
<1>1. CASE ~Deliver(q)
  BY <1>1 DEF IInv, Ahead, Does, Send, Admit, Expired, Answer, Lost
<1>2. CASE Deliver(q)
  <2> DEFINE l == call[q]
  <2>1. l.at = "answered" /\ now' = now
    BY <1>2 DEF Deliver
  <2>2. l.born \in Nat /\ l.served \in Nat /\ now \in Nat /\ kept \in Int
        /\ \A c \in cookie : c.exp \in Int
    BY Fields DEF IInv, Whole, Cookie
  <2>3. UnderWay(q)
    BY <2>1 DEF UnderWay
  <2>4. l.served <= now /\ l.served <= l.born + Flight /\ l.born <= l.served
    <3>1. l.born <= l.served /\ l.served <= now /\ now <= l.born + Flight
      BY <2>3 DEF IInv, Each, Timely
    <3> QED
      BY <2>2, <3>1, SessionAssumption
  <2>5. kept <= now /\ \A c \in cookie : c.exp > kept + Renew
    BY DEF IInv, Ahead
  <2>6. kept' = (IF Counts(q) THEN Later(kept, l.served) ELSE kept) /\ kept' <= now
    BY <1>2, <2>2, <2>4, <2>5, JarMoves DEF IInv, Later
  <2>7. CASE cookie' = {}
    BY <2>1, <2>6, <2>7 DEF Ahead
  <2>8. CASE cookie' = l.sets
    <3>1. ASSUME NEW c \in l.sets PROVE c.exp > kept' + Renew
      <4>1. c.exp > now + Renew
        BY <2>1, <2>3, BroughtLasts
      <4>2. c.exp \in Int /\ kept' \in Int
        BY <1>2, Fields, JarMoves DEF IInv, Cookie
      <4> QED
        BY <2>2, <2>6, <4>1, <4>2, SessionAssumption
    <3> QED
      BY <2>1, <2>6, <2>8, <3>1 DEF Ahead
  <2>9. CASE l.sets = {} /\ cookie' = cookie
    <3>1. ASSUME NEW c \in cookie, Counts(q) PROVE c.exp > l.served + Renew
      <4>1. l.kind \notin Ignored /\ l.renewed = {}
        BY <2>1, <2>9, <3>1 DEF Counts, IInv, Each, Checked
      <4>2. \A d \in l.jar : d.exp > l.served + Renew
        BY <2>1, <4>1 DEF IInv, Each, Checked
      <4>3. c \in l.jar \/ c.exp > l.born + Flight + Renew
        BY <2>3 DEF IInv, Each, Replaced
      <4> QED
        BY <2>2, <2>4, <4>2, <4>3, SessionAssumption
    <3>2. ASSUME NEW c \in cookie PROVE c.exp > kept' + Renew
      BY <2>5, <2>6, <3>1 DEF Later
    <3> QED
      BY <2>1, <2>6, <2>9, <3>2 DEF Ahead
  <2> QED
    BY <1>2, <2>7, <2>8, <2>9, JarMoves DEF IInv
<1> QED
  BY <1>1, <1>2

(* Of the other calls a step changes only what the jar holds besides their own
   cookie, and what it brings lasts. *)
LEMMA OthersStep ==
  ASSUME IInv, NEW q \in Calls, Does(q), NEW u \in Calls \ {q}
  PROVE  Each(u)'
<1>1. call'[u] = call[u] /\ now' = now
  BY WholeStep DEF IInv
<1>2. Each(u)
  BY DEF IInv
<1>3. Timely(u)' /\ Lasting(u)' /\ Checked(u)' /\ SentAhead(u)'
  BY <1>1, <1>2 DEF Each, Timely, Lasting, Checked, SentAhead, UnderWay
<1>4. Replaced(u)'
  <2> SUFFICES ASSUME UnderWay(u), NEW c \in cookie'
               PROVE  c \in call[u].jar \/ c.exp > call[u].born + Flight + Renew
    BY <1>1 DEF Replaced, UnderWay
  <2>1. CASE c \in cookie
    BY <1>2, <2>1 DEF Each, Replaced
  <2>2. CASE c \notin cookie
    <3>1. Deliver(q) /\ call[q].at = "answered"
      BY <2>2 DEF Does, Send, Admit, Expired, Answer, Deliver, Lost
    <3>2. c \in call[q].sets
      BY <2>2, <3>1, JarMoves DEF IInv
    <3> QED
      BY <3>1, <3>2, BroughtLasts
  <2> QED
    BY <2>1, <2>2
<1> QED
  BY <1>3, <1>4 DEF Each

LEMMA OwnStep ==
  ASSUME IInv, NEW q \in Calls, Does(q)
  PROVE  Each(q)'
<1> DEFINE l == call[q]
           k == call'[q]
<1>1. /\ l.born \in Nat /\ l.served \in Nat /\ now \in Nat /\ now' = now
      /\ Flight \in Nat /\ Expire \in Nat /\ Renew \in Nat
      /\ \A c \in l.jar \cup l.renewed \cup l.sets : c.exp \in Nat
  BY Fields, WholeStep, SessionAssumption DEF IInv, Whole, Cookie
<1>2. Each(q)
  BY DEF IInv
<1>3. CASE Send(q)
  <2>1. /\ k.at = "sent" /\ k.jar = cookie /\ k.seen = kept
        /\ k.born = now /\ k.served = now /\ k.renewed = {} /\ k.sets = {} /\ cookie' = cookie
    BY <1>3, SendMoves DEF IInv, Send
  <2>2. \A c \in cookie : c.exp > kept + Renew
    BY DEF IInv, Ahead
  <2> QED
    BY <1>1, <2>1, <2>2 DEF Each, Timely, Lasting, Checked, SentAhead, Replaced
<1>4. CASE Admit(q)
  <2>1. /\ k.at = "admitted" /\ k.served = now /\ k.kind = l.kind /\ k.jar = l.jar
        /\ k.seen = l.seen /\ k.born = l.born /\ k.sets = l.sets
        /\ \A c \in k.renewed : c.exp = now + Expire
        /\ k.kind \notin Ignored /\ k.renewed = {} => \A c \in k.jar : ~Due(c)
        /\ cookie' = cookie /\ l.at = "sent"
    BY <1>4, AdmitMoves DEF IInv, Admit
  <2>2. UnderWay(q)
    BY <2>1 DEF UnderWay
  <2>3. \A c \in k.jar : ~Due(c) => c.exp > now + Renew
    BY <1>1, <2>1 DEF Due
  <2>4. Timely(q)'
    BY <1>1, <1>2, <2>1, <2>2 DEF Each, Timely
  <2>5. Lasting(q)'
    <3>1. l.born <= now
      BY <1>1, <1>2, <2>2 DEF Each, Timely
    <3> QED
      BY <1>1, <1>2, <2>1, <2>2, <3>1 DEF Each, Lasting
  <2>6. Checked(q)' /\ SentAhead(q)'
    BY <1>2, <2>1, <2>3 DEF Each, Checked, SentAhead
  <2>7. Replaced(q)'
    BY <1>2, <2>1, <2>2 DEF Each, Replaced
  <2> QED
    BY <2>4, <2>5, <2>6, <2>7 DEF Each
<1>5. CASE Expired(q)
  <2>1. k.at = "expired" /\ k.jar = l.jar /\ k.seen = l.seen /\ l.at = "sent"
    BY <1>5, ExpiredMoves DEF IInv, Expired
  <2> QED
    BY <1>2, <2>1 DEF Each, Timely, Lasting, Checked, SentAhead, Replaced, UnderWay
<1>6. CASE Answer(q)
  <2>1. /\ k.at = "answered" /\ k.served = l.served /\ k.kind = l.kind /\ k.jar = l.jar
        /\ k.seen = l.seen /\ k.born = l.born /\ k.renewed = l.renewed
        /\ \A c \in k.sets : c \in l.renewed \/ c.exp = now + Expire
        /\ k.sets = {} => k.renewed = {}
        /\ cookie' = cookie /\ l.at = "admitted"
    BY <1>6, AnswerMoves DEF IInv, Answer
  <2>2. UnderWay(q)
    BY <2>1 DEF UnderWay
  <2>3. Timely(q)'
    BY <1>1, <1>2, <2>1, <2>2 DEF Each, Timely
  <2>4. Lasting(q)'
    <3>1. l.born <= now
      BY <1>1, <1>2, <2>2 DEF Each, Timely
    <3> QED
      BY <1>1, <1>2, <2>1, <2>2, <3>1 DEF Each, Lasting
  <2>5. Checked(q)' /\ SentAhead(q)'
    BY <1>2, <2>1 DEF Each, Checked, SentAhead
  <2>6. Replaced(q)'
    BY <1>2, <2>1, <2>2 DEF Each, Replaced
  <2> QED
    BY <2>3, <2>4, <2>5, <2>6 DEF Each
<1>7. CASE Deliver(q) \/ Lost(q)
  <2>1. k.at = "idle"
    BY <1>7, DeliverMoves, NoCallTyped DEF IInv, Turns
  <2> QED
    BY <2>1 DEF Each, Timely, Lasting, Checked, SentAhead, Replaced, UnderWay
<1> QED
  BY <1>3, <1>4, <1>5, <1>6, <1>7 DEF Does

LEMMA ShownStep ==
  ASSUME IInv, NEW q \in Calls, Does(q)
  PROVE  ShownIsReal'
<1>1. CASE ~Deliver(q)
  BY <1>1 DEF IInv, ShownIsReal, Does, Send, Admit, Expired, Answer, Lost
<1>2. CASE Deliver(q)
  <2> SUFFICES ASSUME NEW c \in cookie' PROVE shown' = {c.exp}
    BY DEF ShownIsReal
  <2>1. CASE cookie' = call[q].sets
    <3>1. call[q].sets = {c}
      BY <2>1 DEF IInv, Single, AtMostOne
    <3>2. shown' = {d.exp : d \in call[q].sets}
      BY <1>2, <3>1, JarMoves DEF IInv
    <3> QED
      BY <3>1, <3>2
  <2>2. CASE call[q].sets = {} /\ cookie' = cookie
    BY <1>2, <2>2, JarMoves DEF IInv, ShownIsReal
  <2> QED
    BY <1>2, <2>1, <2>2, JarMoves DEF IInv
<1> QED
  BY <1>1, <1>2

(* A call finds its session expired only after it was good, and then some. *)
LEMMA KeptAliveStep ==
  ASSUME IInv, NEW q \in Calls, Does(q)
  PROVE  KeptAlive'
<1> SUFFICES ASSUME NEW u \in Calls, call'[u].at = "expired", call'[u].seen >= 0
             PROVE  call'[u].served - call'[u].seen > Renew + 1
  BY DEF KeptAlive
<1>1. CASE u # q
  BY <1>1, WholeStep DEF IInv, KeptAlive
<1>2. CASE u = q
  <2>1. Expired(q)
    BY <1>2, SendMoves, AdmitMoves, AnswerMoves, DeliverMoves, NoCallTyped
       DEF IInv, Does, Turns
  <2>2. call'[q].served = now /\ call'[q].seen = call[q].seen /\ call[q].at = "sent"
    BY <2>1, ExpiredMoves DEF IInv, Expired
  <2>3. PICK c \in call[q].jar : c.exp < now
    <3>1. PICK c \in call[q].jar : ~Valid(c)
      BY <2>1 DEF Expired
    <3>2. c.exp \in Nat /\ now \in Nat
      BY Fields DEF IInv, Whole, Cookie
    <3> QED
      BY <3>1, <3>2 DEF Valid
  <2>4. c.exp > call[q].seen + Renew
    BY <2>2 DEF IInv, Each, SentAhead
  <2>5. c.exp \in Nat /\ now \in Nat /\ call[q].seen \in Int /\ Renew \in Nat
    BY Fields, SessionAssumption DEF IInv, Whole, Cookie
  <2> QED
    BY <1>2, <2>2, <2>3, <2>4, <2>5
<1> QED
  BY <1>1, <1>2

-----------------------------------------------------------------------------
(* The clock waits for no session, but for no call longer than its time. *)
LEMMA TickStep ==
  ASSUME IInv, Tick
  PROVE  IInv'
<1>1. UNCHANGED <<cookie, shown, call, current, kept>> /\ now' = now + 1
      /\ \A q \in Calls : UnderWay(q) => now < call[q].born + Flight
  BY DEF Tick
<1>2. Whole' /\ Single'
  BY <1>1 DEF IInv, Whole, Single
<1>3. ASSUME NEW q \in Calls PROVE Each(q)'
  <2>1. call[q].born \in Nat /\ call[q].served \in Nat /\ now \in Nat /\ Flight \in Nat
    BY Fields, SessionAssumption DEF IInv, Whole
  <2>2. Timely(q)'
    BY <1>1, <2>1 DEF IInv, Each, Timely, UnderWay
  <2>3. Lasting(q)' /\ Checked(q)' /\ SentAhead(q)' /\ Replaced(q)'
    BY <1>1 DEF IInv, Each, Lasting, Checked, SentAhead, Replaced, UnderWay
  <2> QED
    BY <2>2, <2>3 DEF Each
<1>4. Ahead'
  <2>1. kept <= now /\ kept \in Int /\ now \in Nat
    BY DEF IInv, Ahead, Whole
  <2> QED
    BY <1>1, <2>1 DEF IInv, Ahead
<1>5. ShownIsReal' /\ KeptAlive'
  BY <1>1 DEF IInv, ShownIsReal, KeptAlive
<1> QED
  BY <1>2, <1>3, <1>4, <1>5 DEF IInv

(* At first there is neither a session nor a call. *)
LEMMA InitIInv == Init => IInv
<1> SUFFICES ASSUME Init PROVE IInv
  OBVIOUS
<1>1. \A q \in Calls : call[q] = NoCall
  BY DEF Init
<1>2. Whole
  BY NoCallTyped DEF Init, Whole, AtMostOne
<1>3. Single
  BY <1>1, NoCallTyped DEF Single, AtMostOne
<1>4. \A q \in Calls : Each(q)
  BY <1>1, NoCallTyped DEF Each, Timely, Lasting, Checked, SentAhead, Replaced, UnderWay
<1>5. Ahead /\ ShownIsReal /\ KeptAlive
  BY <1>1, NoCallTyped DEF Init, Ahead, ShownIsReal, KeptAlive
<1> QED
  BY <1>2, <1>3, <1>4, <1>5 DEF IInv

(* Every step of a call and of the clock keeps all parts. *)
LEMMA StepIInv == IInv /\ [Next]_vars => IInv'
<1> SUFFICES ASSUME IInv, [Next]_vars PROVE IInv'
  OBVIOUS
<1>1. ASSUME NEW q \in Calls, Does(q) PROVE IInv'
  <2>1. Whole' /\ Single'
    BY <1>1, WholeStep DEF IInv
  <2>2. \A u \in Calls : Each(u)'
    BY <1>1, OwnStep, OthersStep
  <2> QED
    BY <1>1, <2>1, <2>2, AheadStep, ShownStep, KeptAliveStep DEF IInv
<1>2. CASE UNCHANGED vars
  BY <1>2 DEF vars, IInv, Whole, Single, Each, Timely, Lasting, Checked, SentAhead, Replaced,
              UnderWay, Ahead, ShownIsReal, KeptAlive
<1> QED
  BY <1>1, <1>2, TickStep DEF Next, Does

(* The invariant holds for good. *)
LEMMA Inductive == Spec => []IInv
  BY InitIInv, StepIInv, PTL DEF Spec

(* The jar and every answer hold one session cookie at most, of a project of the
   user, whatever overlaps. *)
THEOREM TypeCorrect == Spec => []TypeOK
<1>1. IInv => TypeOK
  <2> SUFFICES ASSUME IInv PROVE TypeOK
    OBVIOUS
  <2>1. Cardinality(cookie) <= 1
    BY OneAtMost DEF IInv, Whole
  <2>2. ASSUME NEW q \in Calls
        PROVE  \A s \in {call[q].jar, call[q].renewed, call[q].sets} :
                  s \subseteq Cookie /\ Cardinality(s) <= 1
    <3>1. Cardinality(call[q].jar) <= 1 /\ Cardinality(call[q].renewed) <= 1
          /\ Cardinality(call[q].sets) <= 1
      BY OneAtMost DEF IInv, Single
    <3> QED
      BY <3>1, Fields DEF IInv
  <2>3. \A q \in Calls : call[q].at \in Stage /\ call[q].kind \in Kind /\ call[q].target \in Projects
    BY Fields DEF IInv
  <2> QED
    BY <2>1, <2>2, <2>3 DEF IInv, Whole, TypeOK
<1> QED
  BY <1>1, Inductive, PTL

(* The time the page counts down is the end of the session it has. *)
THEOREM CountdownIsReal == Spec => []ShownIsReal
<1>1. IInv => ShownIsReal
  BY DEF IInv
<1> QED
  BY <1>1, Inductive, PTL

(* No call of an active user finds the session expired, for any settings in
   which a session lasts longer than its renewal time and two calls. *)
THEOREM ActiveStaysIn == Spec => []KeptAlive
<1>1. IInv => KeptAlive
  BY DEF IInv
<1> QED
  BY <1>1, Inductive, PTL

=============================================================================
