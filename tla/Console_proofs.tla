----------------------------- MODULE Console_proofs -----------------------------
(***************************************************************************)
(* What the rate limiter promises, and what the parts of the console keep: *)
(* for every value of the constants, any number of requests under way,     *)
(* sockets, jobs, tabs, series and submissions, any order of their steps.  *)
(***************************************************************************)
EXTENDS Console, SequenceTheorems, FiniteSetTheorems, WellFoundedInduction, TLAPS

-----------------------------------------------------------------------------
(* The rate limiter                                                        *)

\* The rate is a positive number: it keeps an order of times.
LEMMA Monotone ==
    ASSUME NEW r \in Nat, NEW a \in Int, NEW b \in Int, a <= b
    PROVE  r * a <= r * b
  OBVIOUS

\* Multiplication by the rate distributes.
LEMMA Distributes ==
    ASSUME NEW r \in Nat, NEW a \in Int, NEW b \in Int
    PROVE  r * (a + b) = r * a + r * b
  OBVIOUS

\* A key that expires was there long enough for a full bucket.
LEMMA LongEnough ==
    Lifetime \in Nat /\ Capacity <= Rate * Lifetime
<1> DEFINE q == CeilDiv(Capacity, Rate)
<1>1. q \in Nat /\ Capacity <= Rate * q
  BY RateAssumption DEF CeilDiv
<1>2. Rate * q <= Rate * (q + 1)
  BY <1>1, Monotone, RateAssumption
<1> QED
  BY <1>1, <1>2, RateAssumption DEF Lifetime

\* What the script finds is a number of tokens the bucket can hold.
LEMMA FoundType ==
    ASSUME TypeOK, NEW n \in Nat
    PROVE  Refilled(n) \in 0..Capacity
<1>1. CASE n > ts
  <2>1. 0 <= (n - ts) * Rate /\ (n - ts) * Rate \in Int
    BY <1>1, RateAssumption DEF TypeOK
  <2> QED
    BY <1>1, <2>1, RateAssumption DEF Refilled, Least, TypeOK
<1>2. CASE ~ (n > ts)
  BY <1>2, RateAssumption DEF Refilled, Least, TypeOK
<1> QED
  BY <1>1, <1>2

\* The type invariant: the bucket holds what it can hold, and no clock is
\* ahead of time.
THEOREM TypeCorrect == Spec => []TypeOK
<1>1. Init => TypeOK
  BY RateAssumption DEF Init, TypeOK, None
<1>2. TypeOK /\ [Next]_vars => TypeOK'
  <2> SUFFICES ASSUME TypeOK, [Next]_vars PROVE TypeOK'
    OBVIOUS
  <2>1. CASE Tick
    BY <2>1 DEF Tick, TypeOK, None, bucketVars, countVars
  <2>2. CASE RedisRestarts
    BY <2>2 DEF RedisRestarts, TypeOK, None, Counted
  <2>3. CASE Watch
    BY <2>3 DEF Watch, TypeOK, None, bucketVars
  <2>4. ASSUME NEW r \in Slots, Arrive(r) PROVE TypeOK'
    BY <2>4 DEF Arrive, TypeOK, None, bucketVars, countVars
  <2>5. ASSUME NEW r \in Slots, Consume(r) PROVE TypeOK'
    <3> DEFINE found == Refilled(clock[r])
    <3>1. clock[r] \in 0..time
      BY <2>5 DEF Consume, TypeOK
    <3>2. found \in 0..Capacity
      BY <3>1, FoundType DEF TypeOK
    <3>3. tokens' \in 0..Capacity
      BY <2>5, <3>2, RateAssumption DEF Consume
    <3>4. passed' \in Nat /\ late' \in Nat /\ (since = None => passed' = 0 /\ late' = 0)
      BY <2>5, <3>1 DEF Consume, Counted, TypeOK
    <3> HIDE DEF found
    <3> QED
      BY <2>5, <3>1, <3>3, <3>4 DEF Consume, TypeOK, None
  <2>6. ASSUME NEW r \in Slots, FailOpen(r) PROVE TypeOK'
    BY <2>6 DEF FailOpen, TypeOK, None, bucketVars, countVars
  <2>7. CASE UNCHANGED vars
    BY <2>7 DEF vars, TypeOK, bucketVars, countVars
  <2> QED
    BY <2>1, <2>2, <2>3, <2>4, <2>5, <2>6, <2>7 DEF Next
<1> QED
  BY <1>1, <1>2, PTL DEF Spec

-----------------------------------------------------------------------------
(* The budget is kept by every step; only the script spends it.            *)

\* The script: a bucket that is there gains what its own clock says, a clock
\* that is put back is made up for by late, and a bucket that is full again
\* because it expired has waited long enough to be full.
LEMMA ConsumeInBudget ==
    ASSUME TypeOK, InBudget, NEW r \in Slots, Consume(r)
    PROVE  InBudget'
<1> DEFINE n     == clock[r]
           found == Refilled(n)
           spare == ts - since + late
           after == n - since + late + (time - n)
           base  == Capacity * (1 + lost)
           gain  == Rate * after
<1>1. /\ n \in Nat /\ n <= time
      /\ found \in Nat /\ found <= Capacity /\ passed \in Nat
      /\ Capacity \in Nat /\ Rate \in Nat
      /\ tokens' \in Int /\ passed' \in Nat /\ tokens' + passed' <= found + passed
      /\ written' # None
  <2>1. n \in 0..time
    BY DEF Consume, TypeOK
  <2>2. found \in 0..Capacity
    BY <2>1, FoundType DEF TypeOK
  <2> QED
    BY <2>1, <2>2, RateAssumption DEF Consume, Counted, TypeOK, None
<1> SUFFICES ASSUME passed' > 0 PROVE tokens' + passed' <= Budget'
  BY <1>1 DEF InBudget
<1>2. since # None /\ since \in 0..time
  BY DEF Consume, Counted, TypeOK
<1>3. late' = late + time - n /\ ts' = n /\ since' = since /\ lost' = lost
  BY <1>2 DEF Consume, Counted
<1>4. /\ spare \in Int /\ after \in Int /\ after = time - since + late
      /\ spare <= after
      /\ base \in Nat /\ Capacity <= base
  BY <1>1, <1>2 DEF TypeOK
<1>5. Budget' = base + gain
  BY <1>1, <1>2, <1>3 DEF Budget, TypeOK
<1>6. gain \in Nat
  BY <1>1, <1>2, <1>4 DEF TypeOK
<1> HIDE DEF found, n, spare, after, base, gain
<1>7. ASSUME passed = 0 PROVE found + passed <= base + gain
  <2>1. found + passed <= Capacity
    BY <1>1, <1>7
  <2> QED
    BY <1>1, <1>4, <1>6, <2>1
<1>8. ASSUME passed > 0 PROVE found + passed <= base + gain
  <2>1. Budget = base + Rate * spare /\ Rate * spare \in Int
    BY <1>1, <1>2 DEF Budget, TypeOK, spare, base
  <2>2. Rate * spare <= gain
    BY <1>1, <1>4, Monotone DEF gain
  <2>3. CASE Present
    <3>1. CASE n > ts
      <4>1. found <= tokens + Rate * (n - ts) /\ Rate * (n - ts) \in Int
        BY <1>1, <2>3, <3>1 DEF found, Refilled, Least, TypeOK
      <4>2. Rate * spare + Rate * (n - ts) = Rate * (spare + (n - ts))
        BY <1>1, <1>4, Distributes DEF TypeOK
      <4>3. spare + (n - ts) <= after
        BY <1>1, <1>2 DEF TypeOK, spare, after, n
      <4>4. Rate * (spare + (n - ts)) <= gain
        BY <1>1, <1>4, <4>3, Monotone DEF TypeOK, gain
      <4> QED
        BY <1>1, <1>4, <1>6, <1>8, <2>1, <4>1, <4>2, <4>4 DEF InBudget, TypeOK
    <3>2. CASE ~ (n > ts)
      <4>1. found <= tokens
        BY <1>1, <2>3, <3>2 DEF found, Refilled, Least, TypeOK
      <4> QED
        BY <1>1, <1>4, <1>6, <1>8, <2>1, <2>2, <4>1 DEF InBudget, TypeOK
    <3> QED
      BY <3>1, <3>2
  <2>4. CASE ~ Present /\ written = None
    BY <1>1, <1>4, <1>6, <1>8, <2>1, <2>2, <2>4 DEF found, Refilled, InBudget, TypeOK
  <2>5. CASE ~ Present /\ written # None
    <3>1. Lifetime \in Nat /\ Capacity <= Rate * Lifetime
      BY LongEnough
    <3>2. spare + Lifetime <= after
      BY <1>1, <1>2, <2>5, <3>1 DEF Present, TypeOK, None, spare, after, n
    <3>3. Rate * spare + Rate * Lifetime = Rate * (spare + Lifetime)
      BY <1>1, <1>4, <3>1, Distributes
    <3>4. Rate * (spare + Lifetime) <= gain
      BY <1>1, <1>4, <3>1, <3>2, Monotone DEF gain
    <3> QED
      BY <1>1, <1>4, <1>6, <1>8, <2>1, <3>1, <3>3, <3>4 DEF InBudget, TypeOK
  <2> QED
    BY <2>3, <2>4, <2>5
<1>9. tokens' + passed' <= found + passed
  BY <1>1
<1>10. found + passed \in Int /\ tokens' + passed' \in Int
  BY <1>1
<1> QED
  BY <1>4, <1>5, <1>6, <1>7, <1>8, <1>9, <1>10 DEF TypeOK

\* What was let through, and what is left, stays within what was refilled.
THEOREM WithinBudget == Spec => []InBudget
<1>1. Init => InBudget
  BY DEF Init, InBudget
<1>2. TypeOK /\ InBudget /\ [Next]_vars => InBudget'
  <2> SUFFICES ASSUME TypeOK, InBudget, [Next]_vars PROVE InBudget'
    OBVIOUS
  <2>1. CASE Tick
    BY <2>1 DEF Tick, InBudget, Budget, bucketVars, countVars
  <2>2. CASE RedisRestarts
    <3>1. CASE since = None
      BY <2>2, <3>1 DEF RedisRestarts, Counted, InBudget, TypeOK
    <3>2. CASE since # None
      <4>1. Budget' = Budget + Capacity /\ Budget \in Int /\ Capacity \in Nat
        <5>1. Capacity * (1 + (lost + 1)) = Capacity * (1 + lost) + Capacity
          BY RateAssumption DEF TypeOK
        <5> QED
          BY <2>2, <3>2, <5>1, RateAssumption DEF RedisRestarts, Counted, Budget, TypeOK
      <4> QED
        BY <2>2, <4>1 DEF RedisRestarts, InBudget, TypeOK
    <3> QED
      BY <3>1, <3>2
  <2>3. CASE Watch
    BY <2>3 DEF Watch, InBudget, TypeOK
  <2>4. ASSUME NEW r \in Slots, Arrive(r) PROVE InBudget'
    BY <2>4 DEF Arrive, InBudget, Budget, bucketVars, countVars
  <2>5. ASSUME NEW r \in Slots, Consume(r) PROVE InBudget'
    BY <2>5, ConsumeInBudget
  <2>6. ASSUME NEW r \in Slots, FailOpen(r) PROVE InBudget'
    BY <2>6 DEF FailOpen, InBudget, Budget, bucketVars, countVars
  <2>7. CASE UNCHANGED vars
    BY <2>7 DEF vars, InBudget, Budget, bucketVars, countVars
  <2> QED
    BY <2>1, <2>2, <2>3, <2>4, <2>5, <2>6, <2>7 DEF Next
<1> QED
  BY <1>1, <1>2, TypeCorrect, PTL DEF Spec

\* In any interval no more pass than the capacity and what is refilled in it,
\* with what late scripts and lost buckets add.
THEOREM Bounded == Spec => []RateBound
<1>1. TypeOK /\ InBudget => RateBound
  <2> SUFFICES ASSUME TypeOK, InBudget, since # None PROVE
        passed <= Capacity * (1 + lost) + Rate * (time - since + late)
    BY DEF RateBound
  <2>1. /\ Capacity * (1 + lost) \in Nat
        /\ Rate * (time - since + late) \in Nat
        /\ Rate * (ts - since + late) \in Int
    BY RateAssumption DEF TypeOK
  <2>2. Rate * (ts - since + late) <= Rate * (time - since + late)
    BY Monotone, RateAssumption DEF TypeOK
  <2> QED
    BY <2>1, <2>2 DEF TypeOK, InBudget, Budget
<1> QED
  BY <1>1, TypeCorrect, WithinBudget, PTL

-----------------------------------------------------------------------------
(* A step of the console is a step of each part, or leaves it alone.       *)

LEMMA SessionStep == [ConsoleNext]_consoleVars => [Login!Next]_sessionVars
  BY DEF ConsoleNext, consoleVars

LEMMA FormStep == [ConsoleNext]_consoleVars => [Form!Next]_formVars
  BY DEF ConsoleNext, consoleVars

LEMMA MessageStep == [ConsoleNext]_consoleVars => [Messages!Next]_toastVars
  BY DEF ConsoleNext, consoleVars

-----------------------------------------------------------------------------
(* Session                                                                 *)

\* In the beginning nobody is signed in.
LEMMA SessionInit == ConsoleInit => Login!TypeOK /\ SameSession
  BY DEF ConsoleInit, Login!Init, Login!TypeOK, Login!None, SameSession, Login!SameSession

\* No party holds a token never issued.
LEMMA SessionType == Login!TypeOK /\ [Login!Next]_sessionVars => Login!TypeOK'
<1> SUFFICES ASSUME Login!TypeOK, [Login!Next]_sessionVars PROVE Login!TypeOK'
  OBVIOUS
<1> USE DEF Login!TypeOK, Login!None
<1>1. ASSUME NEW t \in Tabs, Login!SignIn(t) PROVE Login!TypeOK'
  BY <1>1 DEF Login!SignIn, Login!Navigate, Login!Reached
<1>2. ASSUME NEW t \in Tabs, Login!Unauthorized(t) PROVE Login!TypeOK'
  BY <1>2 DEF Login!Unauthorized, Login!Load, Login!Navigate, Login!Reached
<1>3. ASSUME NEW t \in Tabs, Login!Logout(t) PROVE Login!TypeOK'
  BY <1>3 DEF Login!Logout
<1>4. ASSUME NEW t \in Tabs,
             Login!CheckAuth(t) \/ Login!LeaveLogin(t) \/ Login!Follow(t) \/ Login!Turn(t)
      PROVE  Login!TypeOK'
  BY <1>4 DEF Login!CheckAuth, Login!LeaveLogin, Login!Follow, Login!Turn, Login!Navigate,
              Login!Reached
<1>5. ASSUME NEW t \in Tabs, Login!Visit(t) PROVE Login!TypeOK'
  BY <1>5 DEF Login!Visit, Login!Load, Login!Navigate, Login!Reached
<1>6. ASSUME NEW k \in 1..MaxLogins, Login!Expire(k) PROVE Login!TypeOK'
  BY <1>6 DEF Login!Expire
<1>7. CASE Login!CookieAges
  BY <1>7 DEF Login!CookieAges
<1>8. CASE UNCHANGED sessionVars
  BY <1>8 DEF sessionVars
<1> QED
  BY <1>1, <1>2, <1>3, <1>4, <1>5, <1>6, <1>7, <1>8
     DEF Login!Next, Login!WrongPassword, Login!Refused

\* Whatever sets or clears the token in the storage does the same to the cookie,
\* until the cookie is dropped for its age; and that is not forgotten.
LEMMA SessionSame == SameSession /\ [Login!Next]_sessionVars => SameSession'
<1> SUFFICES ASSUME SameSession, [Login!Next]_sessionVars PROVE SameSession'
  OBVIOUS
<1> USE DEF SameSession, Login!SameSession
<1>1. ASSUME NEW t \in Tabs, Login!SignIn(t) \/ Login!Unauthorized(t) \/ Login!Logout(t)
      PROVE  SameSession'
  BY <1>1 DEF Login!SignIn, Login!Unauthorized, Login!Logout
<1>2. ASSUME NEW t \in Tabs,
             \/ Login!CheckAuth(t) \/ Login!LeaveLogin(t) \/ Login!Visit(t)
             \/ Login!Follow(t) \/ Login!Turn(t)
      PROVE  SameSession'
  BY <1>2 DEF Login!CheckAuth, Login!LeaveLogin, Login!Visit, Login!Follow, Login!Turn
<1>3. ASSUME NEW k \in 1..MaxLogins, Login!Expire(k) PROVE SameSession'
  BY <1>3 DEF Login!Expire
<1>4. CASE Login!CookieAges
  BY <1>4 DEF Login!CookieAges
<1>5. CASE UNCHANGED sessionVars
  BY <1>5 DEF sessionVars
<1> QED
  BY <1>1, <1>2, <1>3, <1>4, <1>5 DEF Login!Next, Login!WrongPassword, Login!Refused

\* The middleware and the API client never disagree on who is signed in, unless
\* the browser has dropped the cookie for its age.
THEOREM SameSessionAlways == ConsoleSpec => []SameSession
  BY SessionInit, SessionStep, SessionSame, PTL DEF ConsoleSpec

-----------------------------------------------------------------------------
(* JobForm                                                                 *)

\* A text stands for the moment it was made from, unless for another one too.
LEMMA RoundTrip ==
    ASSUME change \in Changes, NEW t \in 0..MaxHours
    PROVE  Form!Parse(Form!format(t)) = t \/ Form!Repeated(t)
<1>1. change \in Int /\ t \in Nat /\ ChangeAt \in Nat /\ ChangeAt + change >= 0 /\ MaxHours \in Nat
  BY ConsoleAssumption DEF Form!FormAssumption
<1>2. CASE t < ChangeAt
  BY <1>1, <1>2 DEF Form!Parse, Form!format
<1>3. CASE t >= ChangeAt /\ ~(t + change < ChangeAt)
  BY <1>1, <1>3 DEF Form!Parse, Form!format
<1>4. CASE t >= ChangeAt /\ t + change < ChangeAt
  <2>1. t + change \in 0..MaxHours /\ t + change # t
    BY <1>1, <1>4
  <2>2. Form!format(t + change) = Form!format(t)
    BY <1>1, <1>4 DEF Form!format
  <2> QED
    BY <2>1, <2>2 DEF Form!Repeated
<1> QED
  BY <1>1, <1>2, <1>3, <1>4

\* While a quick range is in the fields, they hold its two ends as text.
FormInv ==
    /\ change \in Changes /\ hour \in 0..MaxHours
    /\ \A q \in quick : /\ q.from \in 0..MaxHours /\ q.to \in 0..MaxHours
                        /\ start_time = Form!format(q.from) /\ end_time = Form!format(q.to)

\* In the beginning the form is as it was mounted.
LEMMA FormInit == ConsoleInit => FormInv /\ QuickRangeExact
  BY ConsoleAssumption
     DEF ConsoleInit, Form!Init, FormInv, QuickRangeExact, Form!QuickRangeExact,
         Form!FormAssumption

\* Every step of the form keeps both.
LEMMA FormNext ==
    FormInv /\ QuickRangeExact /\ [Form!Next]_formVars => FormInv' /\ QuickRangeExact'
<1> SUFFICES ASSUME FormInv, QuickRangeExact, [Form!Next]_formVars
             PROVE  FormInv' /\ QuickRangeExact'
  OBVIOUS
<1> USE DEF FormInv, QuickRangeExact, Form!QuickRangeExact, Form!Repeated, Form!format, Form!fields
<1>1. CASE Form!Tick
  BY <1>1, ConsoleAssumption DEF Form!Tick, Form!FormAssumption
<1>2. CASE Form!EnterTimes \/ Form!Reset
  BY <1>2 DEF Form!EnterTimes, Form!Reset
<1>3. CASE Form!Submit
  <2> DEFINE new == [from |-> Form!Parse(start_time), to |-> Form!Parse(end_time),
                     speed |-> speed_factor, quick |-> quick]
  <2>1. /\ submissions' = submissions \cup {new}
        /\ UNCHANGED <<change, hour, start_time, end_time, quick>>
    BY <1>3 DEF Form!Submit
  <2>2. ASSUME NEW q \in quick
        PROVE  (new.from = q.from /\ new.to = q.to) \/ Form!Repeated(q.from) \/ Form!Repeated(q.to)
    <3>1. /\ Form!Parse(Form!format(q.from)) = q.from \/ Form!Repeated(q.from)
          /\ Form!Parse(Form!format(q.to)) = q.to \/ Form!Repeated(q.to)
      BY RoundTrip
    <3>2. start_time = Form!format(q.from) /\ end_time = Form!format(q.to)
      OBVIOUS
    <3> QED
      BY <3>1, <3>2
  <2> QED
    BY <2>1, <2>2
<1>4. CASE Form!Render
  BY <1>4 DEF Form!Render
<1>5. ASSUME NEW hours \in Ranges, Form!setTimeRange(hours) PROVE FormInv' /\ QuickRangeExact'
  BY <1>5, ConsoleAssumption DEF Form!setTimeRange, Form!FormAssumption
<1>6. ASSUME NEW speed \in Speeds, Form!EnterSpeed(speed) PROVE FormInv' /\ QuickRangeExact'
  BY <1>6 DEF Form!EnterSpeed
<1>7. ASSUME NEW r \in submissions, Form!Handle(r) \/ Form!Fails(r)
      PROVE  FormInv' /\ QuickRangeExact'
  BY <1>7 DEF Form!Handle, Form!Fails
<1>8. CASE UNCHANGED formVars
  BY <1>8 DEF formVars
<1> QED
  BY <1>1, <1>2, <1>3, <1>4, <1>5, <1>6, <1>7, <1>8 DEF Form!Next

\* A quick range asks for the hours it names, across a change of the clock too,
\* unless an end of it falls into an hour that is repeated.
THEOREM QuickRangeExactAlways == ConsoleSpec => []QuickRangeExact
  BY FormInit, FormStep, FormNext, PTL DEF ConsoleSpec

-----------------------------------------------------------------------------
(* Toasts                                                                  *)

\* Of the messages there are, exactly those dismissed have their removal timed, and
\* no timer is set for an id that is yet to be given.
MessagesInv ==
    /\ count \in Nat /\ toastTimeouts \subseteq 0..count
    /\ toasts \subseteq [id : 0..count, title : {"done", "failed"}, open : {"yes", "no"}]
    /\ \A t \in toasts : t.open = "no" <=> t.id \in toastTimeouts

\* In the beginning there are no messages.
LEMMA MessagesInit == ConsoleInit => MessagesInv
  BY DEF ConsoleInit, Messages!Init, MessagesInv

\* Every step of the messages keeps the invariant and does what TimersMatch says.
LEMMA MessagesNext ==
    MessagesInv /\ [Messages!Next]_toastVars =>
        /\ MessagesInv' /\ Messages!DismissedIsTimed'
        /\ count' = count => \A t \in toasts : t.open = "yes" => \E u \in toasts' : u.id = t.id
<1> SUFFICES ASSUME MessagesInv, [Messages!Next]_toastVars
             PROVE  /\ MessagesInv' /\ Messages!DismissedIsTimed'
                    /\ count' = count =>
                         \A t \in toasts : t.open = "yes" => \E u \in toasts' : u.id = t.id
  OBVIOUS
<1> USE DEF MessagesInv, Messages!DismissedIsTimed
<1>1. ASSUME NEW title \in {"done", "failed"}, Messages!Toast(title)
      PROVE  MessagesInv' /\ count' # count
  BY <1>1 DEF Messages!Toast, Messages!Newest
<1>2. ASSUME NEW id \in 1..MaxToasts, Messages!Dismiss(id)
      PROVE  MessagesInv' /\ \A t \in toasts : \E u \in toasts' : u.id = t.id
  <2> DEFINE shut(t) == IF t.id = id THEN [t EXCEPT !.open = "no"] ELSE t
  <2>1. /\ id \in 1..count /\ count' = count /\ toastTimeouts' = toastTimeouts \cup {id}
        /\ toasts' = {shut(t) : t \in toasts}
    BY <1>2 DEF Messages!Dismiss, Messages!Shut
  <2>2. ASSUME NEW t \in toasts
        PROVE  /\ shut(t) \in [id : 0..count, title : {"done", "failed"}, open : {"yes", "no"}]
               /\ shut(t).id = t.id
               /\ shut(t).open = "no" <=> shut(t).id \in toastTimeouts \cup {id}
    OBVIOUS
  <2> HIDE DEF shut
  <2>3. \A u \in toasts' :
           /\ u \in [id : 0..count, title : {"done", "failed"}, open : {"yes", "no"}]
           /\ u.open = "no" <=> u.id \in toastTimeouts'
    BY <2>1, <2>2
  <2>4. MessagesInv'
    BY <2>1, <2>3
  <2>5. \A t \in toasts : \E u \in toasts' : u.id = t.id
    BY <2>1, <2>2
  <2> QED
    BY <2>4, <2>5
<1>3. ASSUME NEW id \in 1..MaxToasts, Messages!Remove(id)
      PROVE  MessagesInv' /\ \A t \in toasts : t.open = "yes" => t \in toasts'
  BY <1>3 DEF Messages!Remove, Messages!Without
<1>4. CASE UNCHANGED toastVars
  BY <1>4 DEF toastVars
<1> QED
  BY <1>1, <1>2, <1>3, <1>4 DEF Messages!Next

\* A dismissed message goes, and a timer takes away no other.
THEOREM TimersAlwaysMatch == ConsoleSpec => TimersMatch
<1>1. ConsoleSpec => [][/\ Messages!DismissedIsTimed'
                        /\ count' = count =>
                             \A t \in toasts : t.open = "yes" => \E u \in toasts' : u.id = t.id]_toastVars
  BY MessagesInit, MessageStep, MessagesNext, PTL DEF ConsoleSpec
<1> QED
  BY <1>1 DEF TimersMatch, Messages!TimersMatch, Messages!vars, toastVars
-----------------------------------------------------------------------------
(* EventList                                                               *)

\* A step of the console is one of the list or leaves it alone.
LEMMA ListStep == [ConsoleNext]_consoleVars => [List!Next]_listVars
  BY DEF ConsoleNext, consoleVars

\* Putting an event in front and cutting what is too much keeps a list one.
LEMMA FrontOf ==
    ASSUME NEW S, NEW q \in Seq(S), NEW e \in S, NEW m \in Nat, Len(q) <= m
    PROVE  LET n == IF Len(q) < m THEN Len(q) + 1 ELSE m
               l == SubSeq(<<e>> \o q, 1, n)
           IN  l \in Seq(S) /\ Len(l) <= m
<1> DEFINE all == <<e>> \o q
           n   == IF Len(q) < m THEN Len(q) + 1 ELSE m
<1>1. all \in Seq(S) /\ Len(all) = Len(q) + 1 /\ Len(q) \in Nat
  OBVIOUS
<1>2. n \in 0..Len(all) /\ n <= m
  BY <1>1
<1> HIDE DEF all, n
<1>3. SubSeq(all, 1, n) \in Seq(S) /\ Len(SubSeq(all, 1, n)) = n
  BY <1>1, <1>2
<1> QED
  BY <1>2, <1>3 DEF all, n

\* The empty sequence is a list of anything and within any bound.
LEMMA EmptyList ==
    ASSUME NEW S, NEW m \in Nat
    PROVE  \A q : q = <<>> => q \in Seq(S) /\ Len(q) <= m
  OBVIOUS

\* The list begins empty.
LEMMA ListInit == ConsoleInit => List!TypeOK
<1>1. ConsoleInit => events = <<>> /\ events \in Seq(List!Events) /\ Len(events) <= MAX_EVENTS
  BY EmptyList, ConsoleAssumption DEF ConsoleInit, List!Init, List!ListAssumption
<1> QED
  BY <1>1 DEF ConsoleInit, List!Init, List!TypeOK, List!Texts

\* The list never outgrows its limit, and an event without a table or an operation
\* never becomes a filter.
LEMMA ListType == List!TypeOK /\ [List!Next]_listVars => List!TypeOK'
<1> SUFFICES ASSUME List!TypeOK, [List!Next]_listVars PROVE List!TypeOK'
  OBVIOUS
<1> USE DEF List!TypeOK, List!filterVars, List!searchVars, List!dialogVars, List!ListAssumption
<1>1. ASSUME NEW e \in List!Events, List!AddEvent(e) PROVE List!TypeOK'
  <2>1. events' \in Seq(List!Events) /\ Len(events') <= MAX_EVENTS
    BY <1>1, FrontOf, ConsoleAssumption DEF List!AddEvent
  <2> QED
    BY <1>1, <2>1 DEF List!AddEvent
<1>2. ASSUME NEW e \in List!Events, List!Click(e) PROVE List!TypeOK'
  BY <1>2 DEF List!Click
<1>3. ASSUME NEW t \in Tables, List!AddTable(t) \/ List!RemoveTable(t) PROVE List!TypeOK'
  BY <1>3 DEF List!AddTable, List!RemoveTable, List!FilterTables, List!uniqueTables
<1>4. ASSUME NEW o \in Operations, List!AddOperation(o) \/ List!RemoveOperation(o)
      PROVE  List!TypeOK'
  BY <1>4 DEF List!AddOperation, List!RemoveOperation, List!FilterOperations,
              List!uniqueOperations
<1>5. ASSUME NEW text \in List!Texts, List!Type(text) PROVE List!TypeOK'
  BY <1>5 DEF List!Type
<1>6. CASE List!ClearEvents \/ List!TogglePause \/ List!Reset
  <2>1. events' \in Seq(List!Events) /\ Len(events') <= MAX_EVENTS
    BY <1>6, EmptyList, ConsoleAssumption DEF List!ClearEvents, List!TogglePause, List!Reset
  <2> QED
    BY <1>6, <2>1 DEF List!ClearEvents, List!TogglePause, List!Reset, List!Texts
<1>7. CASE List!Effects \/ List!Debounce
  BY <1>7 DEF List!Effects, List!Debounce
<1>8. CASE List!Enter \/ List!Leave \/ List!CloseDialog
  BY <1>8 DEF List!Enter, List!Leave, List!CloseDialog, List!Texts
<1>9. CASE UNCHANGED listVars
  BY <1>9 DEF listVars
<1> QED
  BY <1>1, <1>2, <1>3, <1>4, <1>5, <1>6, <1>7, <1>8, <1>9 DEF List!Next

\* The query of the store is empty and so is the debounced text: the one timer that
\* could deliver another runs only while the box holds the same text, and before it
\* fires the effect that takes the query down has emptied the box.
Unsearched ==
    /\ searchQuery = "" /\ debounced = ""
    /\ searchTimer \in {List!NoText, localSearch}

\* The search begins empty.
LEMMA UnsearchedInit == ConsoleInit => Unsearched
  BY DEF ConsoleInit, List!Init, Unsearched

\* No step of the list brings a text up to the store.
LEMMA UnsearchedNext == Unsearched /\ [List!Next]_listVars => Unsearched'
<1> SUFFICES ASSUME Unsearched, [List!Next]_listVars PROVE Unsearched'
  OBVIOUS
<1> USE DEF Unsearched, List!filterVars, List!searchVars, List!dialogVars
<1>1. ASSUME NEW e \in List!Events, List!AddEvent(e) \/ List!Click(e) PROVE Unsearched'
  BY <1>1 DEF List!AddEvent, List!Click
<1>2. ASSUME NEW t \in Tables, List!AddTable(t) \/ List!RemoveTable(t) PROVE Unsearched'
  BY <1>2 DEF List!AddTable, List!RemoveTable, List!FilterTables
<1>3. ASSUME NEW o \in Operations, List!AddOperation(o) \/ List!RemoveOperation(o)
      PROVE  Unsearched'
  BY <1>3 DEF List!AddOperation, List!RemoveOperation, List!FilterOperations
<1>4. ASSUME NEW text \in List!Texts, List!Type(text) PROVE Unsearched'
  BY <1>4 DEF List!Type
<1>5. CASE List!ClearEvents \/ List!TogglePause \/ List!Reset
  BY <1>5 DEF List!ClearEvents, List!TogglePause, List!Reset
<1>6. CASE List!Effects
  BY <1>6 DEF List!Effects, List!EffectsDue
<1>7. CASE List!Debounce
  BY <1>7 DEF List!Debounce, List!Quiet, List!EffectsDue
<1>8. CASE List!Enter \/ List!Leave \/ List!CloseDialog
  BY <1>8 DEF List!Enter, List!Leave, List!CloseDialog
<1>9. CASE UNCHANGED listVars
  BY <1>9 DEF listVars
<1> QED
  BY <1>1, <1>2, <1>3, <1>4, <1>5, <1>6, <1>7, <1>8, <1>9 DEF List!Next

\* Why SearchApplies of MCEventList fails, for every text a user may type: no search ever
\* reaches the store.
THEOREM SearchNeverArrives == ConsoleSpec => [](searchQuery = "")
<1>1. Unsearched => searchQuery = ""
  BY DEF Unsearched
<1> QED
  BY <1>1, UnsearchedInit, ListStep, UnsearchedNext, PTL DEF ConsoleSpec

-----------------------------------------------------------------------------
(* JobConsole                                                              *)

\* A step of the console is one of the pages of the jobs or leaves them alone.
LEMMA JobStep == [ConsoleNext]_consoleVars => [JobPages!Next]_(JobPages!vars)
  BY DEF ConsoleNext, consoleVars, jobVars, JobPages!vars, JobPages!serverVars,
         JobPages!pageVars, JobPages!fetchVars

\* The requests a click can make.
Mutations == [id : Nat, op : JobPages!Buttons, job : Jobs, seen : JobPages!Statuses,
              outcome : {"sent", "ok", "refused"}, by : {"list", "detail", "left"}]

\* A request was offered for the status its page showed, and no two have one number.
RequestsOK ==
    /\ clicks \in Nat /\ view \in JobPages!Keys
    /\ requests \subseteq Mutations
    /\ \A r \in requests : r.id <= clicks /\ JobPages!Offered(r.op, r.seen)
    /\ \A r, q \in requests : r.id = q.id => r = q

\* What a button is offered for the server allows.
LEMMA OfferedAllowed ==
    ASSUME NEW op \in JobPages!Buttons, NEW offered, JobPages!Offered(op, offered)
    PROVE  offered \in JobPages!Allowed(op) /\ offered \in JobPages!Statuses
<1> USE DEF JobPages!Offered, JobPages!Allowed, JobPages!Buttons, JobPages!Terminal,
            JobPages!Statuses
<1> QED
  OBVIOUS

\* In the beginning nothing was clicked.
LEMMA JobsInit == ConsoleInit => RequestsOK
  BY DEF ConsoleInit, JobPages!Init, RequestsOK, JobPages!Keys

\* Leaving a detail page changes who a request is known by and nothing else.
LEMMA LeftOK ==
    ASSUME RequestsOK
    PROVE  /\ JobPages!Left \subseteq Mutations
           /\ \A q \in JobPages!Left : \E r \in requests :
                  /\ q.id = r.id /\ q.outcome = r.outcome /\ q.op = r.op /\ q.seen = r.seen
                  /\ \A p \in JobPages!Left : p.id = q.id => p = q
<1> DEFINE left(r) == IF r.by = "detail" THEN [r EXCEPT !.by = "left"] ELSE r
<1>1. JobPages!Left = {left(r) : r \in requests}
  BY DEF JobPages!Left
<1>2. ASSUME NEW r \in requests
      PROVE  /\ left(r) \in Mutations /\ left(r).id = r.id /\ left(r).outcome = r.outcome
             /\ left(r).op = r.op /\ left(r).seen = r.seen
  BY DEF RequestsOK, Mutations
<1> HIDE DEF left
<1> QED
  BY <1>1, <1>2 DEF RequestsOK

\* The requests of a step: those of before, but for what their page is and what the
\* server has answered one of them; and a new one, with a number of its own.
LEMMA RequestsNext ==
    ASSUME RequestsOK, [JobPages!Next]_(JobPages!vars)
    PROVE  /\ RequestsOK'
           /\ \A r \in requests : \A q \in requests' :
                 q.id = r.id /\ r.outcome = "sent" /\ q.outcome = "refused"
                     => server[r.job] # r.seen
<1> DEFINE Refusal == \A r \in requests : \A q \in requests' :
                         q.id = r.id /\ r.outcome = "sent" /\ q.outcome = "refused"
                             => server[r.job] # r.seen
<1> USE DEF JobPages!pageVars, JobPages!fetchVars, JobPages!serverVars
\* Steps that take requests away or leave them alone.
<1>1. ASSUME requests' \subseteq requests, clicks' = clicks, view' \in JobPages!Keys
      PROVE  RequestsOK' /\ Refusal
  BY <1>1 DEF RequestsOK, Mutations
\* Steps that lead away from a detail page.
<1>2. ASSUME requests' \subseteq JobPages!Left, clicks' = clicks, view' \in JobPages!Keys
      PROVE  RequestsOK' /\ Refusal
  <2>1. RequestsOK'
    BY <1>2, LeftOK DEF RequestsOK
  <2>2. Refusal
    BY <1>2, LeftOK DEF RequestsOK
  <2> QED
    BY <2>1, <2>2
<1>3. ASSUME NEW r \in requests, JobPages!Handle(r) PROVE RequestsOK' /\ Refusal
  <2> DEFINE outcome == IF server[r.job] \in JobPages!Allowed(r.op) THEN "ok" ELSE "refused"
             done    == [r EXCEPT !.outcome = outcome]
  <2>1. /\ r.outcome = "sent" /\ UNCHANGED <<server, clicks, view>>
        /\ requests' = (requests \ {r}) \cup {done}
    BY <1>3 DEF JobPages!Handle
  <2>2. /\ done \in Mutations /\ done.id = r.id /\ done.op = r.op /\ done.seen = r.seen
        /\ done.outcome = "refused" => server[r.job] \notin JobPages!Allowed(r.op)
    BY DEF RequestsOK, Mutations
  <2>3. r.seen \in JobPages!Allowed(r.op)
    BY OfferedAllowed DEF RequestsOK, Mutations
  <2> HIDE DEF done
  <2>4. RequestsOK'
    BY <2>1, <2>2 DEF RequestsOK
  <2>5. Refusal
    BY <2>1, <2>2, <2>3 DEF RequestsOK
  <2> QED
    BY <2>4, <2>5
<1>4. ASSUME NEW op \in JobPages!Buttons, NEW j \in Jobs, JobPages!Click(op, j)
      PROVE  RequestsOK' /\ Refusal
  <2> DEFINE new == [id |-> clicks + 1, op |-> op, job |-> j, seen |-> cache[view][j],
                     outcome |-> "sent", by |-> IF view = "list" THEN "list" ELSE "detail"]
  <2>1. /\ clicks' = clicks + 1 /\ view' = view /\ requests' = requests \cup {new}
        /\ JobPages!Offered(op, cache[view][j])
    BY <1>4 DEF JobPages!Click
  <2>2. new \in Mutations /\ new.outcome = "sent"
    BY <2>1, OfferedAllowed DEF RequestsOK, Mutations
  <2> QED
    BY <2>1, <2>2 DEF RequestsOK, Mutations
<1>5. ASSUME NEW k \in JobPages!Keys, JobPages!Open(k) PROVE RequestsOK' /\ Refusal
  BY <1>2, <1>5 DEF JobPages!Open, JobPages!Mounted
<1>6. ASSUME NEW k \in JobPages!Keys,
             JobPages!Read(k) \/ JobPages!Arrive(k) \/ JobPages!FetchFails(k)
      PROVE  RequestsOK' /\ Refusal
  BY <1>1, <1>6 DEF JobPages!Read, JobPages!Arrive, JobPages!FetchFails, RequestsOK
<1>7. ASSUME NEW j \in Jobs, JobPages!Commit(j) \/ JobPages!Move(j)
      PROVE  RequestsOK' /\ Refusal
  BY <1>1, <1>7 DEF JobPages!Commit, JobPages!Move, RequestsOK
<1>8. CASE JobPages!Poll
  BY <1>1, <1>8 DEF JobPages!Poll, RequestsOK
<1>9. ASSUME NEW r \in requests, JobPages!Answer(r) PROVE RequestsOK' /\ Refusal
  <2>1. CASE r.op = "delete" /\ r.by # "list" /\ view # "list"
    BY <1>2, <1>9, <2>1 DEF JobPages!Answer, JobPages!Keys
  <2>2. CASE ~(r.op = "delete" /\ r.by # "list" /\ view # "list")
    BY <1>1, <1>9, <2>2 DEF JobPages!Answer, RequestsOK
  <2> QED
    BY <2>1, <2>2
<1>10. ASSUME NEW r \in requests, JobPages!AnswerFails(r) PROVE RequestsOK' /\ Refusal
  BY <1>1, <1>10 DEF JobPages!AnswerFails, RequestsOK
<1>11. CASE UNCHANGED JobPages!vars
  BY <1>1, <1>11 DEF JobPages!vars, RequestsOK
<1> QED
  BY <1>3, <1>4, <1>5, <1>6, <1>7, <1>8, <1>9, <1>10, <1>11 DEF JobPages!Next

\* The server refuses a button only for a job that has changed since it was shown.
THEOREM RefusedOnlyStaleAlways == ConsoleSpec => RefusedOnlyStale
<1>1. RequestsOK /\ [JobPages!Next]_(JobPages!vars) =>
        /\ RequestsOK'
        /\ \A r \in requests : \A q \in requests' :
              q.id = r.id /\ r.outcome = "sent" /\ q.outcome = "refused"
                  => server[r.job] # r.seen
  BY RequestsNext
<1>2. ConsoleSpec => [][\A r \in requests : \A q \in requests' :
              q.id = r.id /\ r.outcome = "sent" /\ q.outcome = "refused"
                  => server[r.job] # r.seen]_(JobPages!vars)
  BY <1>1, JobsInit, JobStep, PTL DEF ConsoleSpec
<1> QED
  BY <1>2 DEF RefusedOnlyStale, JobPages!RefusedOnlyStale

\* What a page shows, and what is on its way to it, are statuses of its jobs.
LEMMA JobTypeInit == ConsoleInit => JobPages!TypeOK
<1> SUFFICES ASSUME ConsoleInit PROVE JobPages!TypeOK
  OBVIOUS
<1>1. /\ server \in [Jobs -> Initial] /\ pending = [j \in Jobs |-> "none"] /\ view = "list"
      /\ cache = [k \in JobPages!Keys |-> JobPages!Nothing]
      /\ answer = [k \in JobPages!Keys |-> JobPages!Nothing]
      /\ requests = {}
  BY DEF ConsoleInit, JobPages!Init
<1>2. Initial \subseteq JobPages!Statuses
  BY ConsoleAssumption DEF JobPages!JobsAssumption
<1> QED
  BY <1>1, <1>2 DEF JobPages!TypeOK, JobPages!Keys, JobPages!Scope

\* Every step of the pages of the jobs keeps their types.
LEMMA JobType ==
    RequestsOK /\ JobPages!TypeOK /\ [JobPages!Next]_(JobPages!vars) => JobPages!TypeOK'
<1> SUFFICES ASSUME RequestsOK, JobPages!TypeOK, [JobPages!Next]_(JobPages!vars)
             PROVE  JobPages!TypeOK'
  OBVIOUS
<1> DEFINE Shown(k) == [JobPages!Scope(k) -> JobPages!Statuses \cup {"absent"}]
           ServerOK == /\ server \in Shown("list")
                       /\ pending \in [Jobs -> {"none", "queued", "paused", "cancelled", "absent"}]
           CacheOK == /\ DOMAIN cache = JobPages!Keys
                      /\ \A k \in JobPages!Keys :
                            cache[k] = JobPages!Nothing \/ cache[k] \in Shown(k)
           AnswerOK == /\ DOMAIN answer = JobPages!Keys
                       /\ \A k \in JobPages!Keys :
                             /\ k \in asked => answer[k] = JobPages!Nothing
                             /\ answer[k] = JobPages!Nothing \/ answer[k] \in Shown(k)
           SeenOK == \A r \in requests : r.seen \in JobPages!Statuses /\ r.id <= clicks
<1>1. JobPages!TypeOK <=> ServerOK /\ view \in JobPages!Keys /\ CacheOK /\ AnswerOK /\ SeenOK
  BY DEF JobPages!TypeOK
<1>2. JobPages!TypeOK' <=> ServerOK' /\ (view \in JobPages!Keys)' /\ CacheOK' /\ AnswerOK' /\ SeenOK'
  BY DEF JobPages!TypeOK
<1>3. (view \in JobPages!Keys)' /\ SeenOK'
  BY RequestsNext DEF RequestsOK, Mutations
<1>4. SUFFICES ServerOK' /\ CacheOK' /\ AnswerOK'
  BY <1>2, <1>3
<1> USE DEF JobPages!pageVars, JobPages!fetchVars, JobPages!serverVars
<1>5. ServerOK'
  <2>1. ASSUME UNCHANGED <<server, pending>> PROVE ServerOK'
    BY <1>1, <2>1
  <2>2. ASSUME NEW r \in requests, JobPages!Handle(r) PROVE ServerOK'
    <3>1. r.job \in Jobs /\ r.op \in JobPages!Buttons
      BY DEF RequestsOK, Mutations
    <3>2. JobPages!Written(r.op) \in {"queued", "paused", "cancelled", "absent"}
      BY <3>1 DEF JobPages!Written, JobPages!Buttons
    <3> QED
      BY <1>1, <2>2, <3>1, <3>2 DEF JobPages!Handle
  <2>3. ASSUME NEW j \in Jobs, JobPages!Commit(j) PROVE ServerOK'
    BY <1>1, <2>3 DEF JobPages!Commit, JobPages!Scope, JobPages!Statuses
  <2>4. ASSUME NEW j \in Jobs, JobPages!Move(j) PROVE ServerOK'
    <3>1. \A op \in JobPages!Buttons :
             JobPages!Written(op) \in JobPages!Statuses \cup {"absent"}
      BY DEF JobPages!Written, JobPages!Buttons, JobPages!Statuses
    <3>2. \E s \in JobPages!Statuses \cup {"absent"} : server' = [server EXCEPT ![j] = s]
      BY <2>4, <3>1 DEF JobPages!Move, JobPages!Statuses
    <3> QED
      BY <1>1, <2>4, <3>2 DEF JobPages!Move, JobPages!Scope
  <2> QED
    BY <2>1, <2>2, <2>3, <2>4
       DEF JobPages!Next, JobPages!vars, JobPages!Click, JobPages!Open, JobPages!Read,
           JobPages!Arrive, JobPages!FetchFails, JobPages!Poll, JobPages!Answer,
           JobPages!AnswerFails
<1>6. CacheOK' /\ AnswerOK'
  <2>1. ASSUME UNCHANGED <<cache, asked, answer>> PROVE CacheOK' /\ AnswerOK'
    BY <1>1, <2>1
  <2>2. ASSUME NEW k \in JobPages!Keys, JobPages!Open(k) PROVE CacheOK' /\ AnswerOK'
    BY <1>1, <2>2 DEF JobPages!Open, JobPages!Mounted, JobPages!Idle
  <2>3. ASSUME NEW k \in JobPages!Keys, JobPages!Read(k) PROVE CacheOK' /\ AnswerOK'
    <3>1. [j \in JobPages!Scope(k) |-> server[j]] \in Shown(k)
      BY <1>1 DEF JobPages!Scope, JobPages!Keys
    <3> QED
      BY <1>1, <2>3, <3>1 DEF JobPages!Read
  <2>4. ASSUME NEW k \in JobPages!Keys, JobPages!Arrive(k) PROVE CacheOK' /\ AnswerOK'
    BY <1>1, <2>4 DEF JobPages!Arrive
  <2>5. ASSUME NEW k \in JobPages!Keys, JobPages!FetchFails(k) PROVE CacheOK' /\ AnswerOK'
    <3>1. k # "list" => [j \in {k} |-> "absent"] \in Shown(k)
      BY DEF JobPages!Scope
    <3> HIDE DEF Shown
    <3>2. CASE k = "list"
      BY <1>1, <2>5, <3>2 DEF JobPages!FetchFails
    <3>3. CASE k # "list"
      BY <1>1, <2>5, <3>1, <3>3 DEF JobPages!FetchFails
    <3> QED
      BY <3>2, <3>3
  <2>6. CASE JobPages!Poll
    BY <1>1, <2>6 DEF JobPages!Poll, JobPages!Idle
  <2>7. ASSUME NEW r \in requests, JobPages!Answer(r) PROVE CacheOK' /\ AnswerOK'
    <3>1. /\ cache' = cache /\ UNCHANGED server
          /\ answer' = [answer EXCEPT ![view] = JobPages!Nothing]
          /\ asked' \subseteq asked \cup {view} \cup {l \in {"list"} : answer[l] = JobPages!Nothing}
      BY <2>7 DEF JobPages!Answer, JobPages!Idle
    <3> HIDE DEF Shown
    <3>2. CacheOK'
      BY <1>1, <3>1
    <3>3. ASSUME NEW k \in JobPages!Keys
          PROVE  answer'[k] = IF k = view THEN JobPages!Nothing ELSE answer[k]
      BY <1>1, <3>1
    <3>4. DOMAIN answer' = JobPages!Keys
      BY <1>1, <3>1
    <3>5. ASSUME NEW k \in JobPages!Keys, k \in asked' PROVE answer'[k] = JobPages!Nothing
      <4>1. k = view \/ answer[k] = JobPages!Nothing
        BY <1>1, <3>1, <3>5
      <4> QED
        BY <3>3, <4>1
    <3> QED
      BY <1>1, <3>2, <3>3, <3>4, <3>5
  <2> QED
    BY <2>1, <2>2, <2>3, <2>4, <2>5, <2>6, <2>7
       DEF JobPages!Next, JobPages!vars, JobPages!Click, JobPages!Handle, JobPages!Commit,
           JobPages!Move, JobPages!AnswerFails
<1> QED
  BY <1>5, <1>6

-----------------------------------------------------------------------------
(* Metrics                                                                 *)

\* A step of the console is one of the numbers or leaves them alone.
LEMMA NumberStep == [ConsoleNext]_consoleVars => [Numbers!Next]_(Numbers!vars)
  BY DEF ConsoleNext, consoleVars, numberVars, Numbers!vars, Numbers!exportVars,
         Numbers!hookVars

\* A non-empty set of numbers has a least one.
LEMMA LeastOf ==
    ASSUME NEW S \in SUBSET Nat, S # {}
    PROVE  \E m \in S : \A k \in S : m <= k
<1> DEFINE R == OpToRel(<, Nat)
<1>1. IsWellFoundedOn(R, Nat)
  BY NatLessThanWellFounded
<1>2. \A x, y \in Nat : <<y, x>> \in R <=> y < x
  BY DEF OpToRel
<1> HIDE DEF R
<1>3. PICK m \in S : \A k \in S : ~ (<<k, m>> \in R)
  BY <1>1, WFMin
<1>4. ASSUME NEW k \in S PROVE m <= k
  <2>1. m \in Nat /\ k \in Nat /\ ~ (k < m)
    BY <1>2, <1>3
  <2> QED
    BY <2>1
<1> QED
  BY <1>4

\* The elements of a sequence.
LEMMA ElementIn == ASSUME NEW S, NEW q \in Seq(S) PROVE \A i \in 1..Len(q) : q[i] \in S
  OBVIOUS

\* The exporter has each series once, and no more in it than was ingested.
ExportedOK ==
    /\ exported \in Seq([labels : Series, value : Nat])
    /\ ingested \in Nat
    /\ \A i \in 1..Len(exported) : exported[i].value <= ingested
    /\ \A i, k \in DOMAIN exported : exported[i].labels = exported[k].labels => i = k

\* The series a scrape can read, and what the page makes of them.
Readable == {i \in 1..Len(exported) : exported[i].labels \notin Braced}
\* What a page that scrapes now shows of the counter.
Scraped == Numbers!getMetricValue(Numbers!parsePrometheusText(Numbers!Text))

\* Two lines in front of others.
LEMMA Behind ==
    ASSUME NEW S, NEW p \in Seq(S), NEW q \in Seq(S), Len(p) = 2
    PROVE  /\ DOMAIN (p \o q) = 1..(2 + Len(q))
           /\ (p \o q)[1] = p[1] /\ (p \o q)[2] = p[2]
           /\ \A i \in 1..Len(q) : (p \o q)[i + 2] = q[i]
<1>1. /\ p \o q \in Seq(S) /\ Len(p \o q) = Len(p) + Len(q)
      /\ \A i \in 1..(Len(p) + Len(q)) : (p \o q)[i] = IF i <= Len(p) THEN p[i] ELSE q[i - Len(p)]
  BY ConcatProperties
<1>2. Len(q) \in Nat
  OBVIOUS
<1> DEFINE all == p \o q
<1>3. all \in Seq(S) => DOMAIN all = 1..Len(all)
  OBVIOUS
<1> HIDE DEF all
<1>4. ASSUME NEW i \in 1..Len(q) PROVE all[i + 2] = q[i]
  <2>1. i + 2 \in 1..(2 + Len(q)) /\ ~(i + 2 <= 2) /\ (i + 2) - 2 = i
    BY <1>2
  <2> QED
    BY <1>1, <2>1 DEF all
<1> QED
  BY <1>1, <1>2, <1>3, <1>4 DEF all

\* The lines of the text are two of comment and one for each series.
LEMMA TextLines ==
    ASSUME ExportedOK
    PROVE  /\ Len(exported) \in Nat /\ DOMAIN Numbers!Text = 1..(Len(exported) + 2)
           /\ Numbers!Text[1].kind # "sample" /\ Numbers!Text[2].kind # "sample"
           /\ \A i \in 1..Len(exported) :
                 Numbers!Text[i + 2] = [kind |-> "sample", labels |-> exported[i].labels,
                                        value |-> exported[i].value]
<1> DEFINE heading(k) == [kind |-> k, labels |-> "none", value |-> 0]
           head == <<heading("HELP"), heading("TYPE")>>
           samples == [i \in DOMAIN exported |-> [kind |-> "sample", labels |-> exported[i].labels,
                                                  value |-> exported[i].value]]
<1>1. Numbers!Text = head \o samples
  BY DEF Numbers!Text
<1>2. Len(exported) \in Nat /\ DOMAIN exported = 1..Len(exported)
  BY DEF ExportedOK
<1>3. head \in Seq({heading("HELP"), heading("TYPE")}) /\ Len(head) = 2
      /\ head[1] = heading("HELP") /\ head[2] = heading("TYPE")
  OBVIOUS
<1>4. samples \in Seq({samples[i] : i \in 1..Len(exported)}) /\ Len(samples) = Len(exported)
  BY <1>2
<1> DEFINE S == {heading("HELP"), heading("TYPE")} \cup {samples[i] : i \in 1..Len(exported)}
<1>5. head \in Seq(S) /\ samples \in Seq(S)
  BY <1>3, <1>4
<1>6. \A i \in 1..Len(exported) :
         samples[i] = [kind |-> "sample", labels |-> exported[i].labels,
                       value |-> exported[i].value]
  BY <1>2
<1>7. heading("HELP").kind # "sample" /\ heading("TYPE").kind # "sample"
  OBVIOUS
<1> HIDE DEF head, samples, S, heading
<1>8. /\ DOMAIN (head \o samples) = 1..(2 + Len(exported))
      /\ (head \o samples)[1] = head[1] /\ (head \o samples)[2] = head[2]
      /\ \A i \in 1..Len(exported) : (head \o samples)[i + 2] = samples[i]
  <2>1. /\ DOMAIN (head \o samples) = 1..(2 + Len(samples))
        /\ (head \o samples)[1] = head[1] /\ (head \o samples)[2] = head[2]
        /\ \A i \in 1..Len(samples) : (head \o samples)[i + 2] = samples[i]
    BY <1>3, <1>5, Behind
  <2> QED
    BY <2>1, <1>4
<1>9. Len(exported) \in Nat /\ 2 + Len(exported) = Len(exported) + 2
  BY <1>2
<1>10. DOMAIN Numbers!Text = 1..(Len(exported) + 2)
  BY <1>1, <1>8, <1>9
<1>11. Numbers!Text[1].kind # "sample" /\ Numbers!Text[2].kind # "sample"
  BY <1>1, <1>3, <1>7, <1>8
<1>12. ASSUME NEW i \in 1..Len(exported)
       PROVE  Numbers!Text[i + 2] = [kind |-> "sample", labels |-> exported[i].labels,
                                     value |-> exported[i].value]
  BY <1>1, <1>6, <1>8
<1> QED
  BY <1>9, <1>10, <1>11, <1>12

\* A scrape reads the value of the first series whose line the parser matches.
LEMMA ScrapedIs ==
    ASSUME ExportedOK
    PROVE  \/ Readable = {} /\ Scraped = 0
           \/ \E m \in Readable : /\ \A k \in Readable : m <= k
                                  /\ Scraped = exported[m].value
<1> DEFINE lines == Numbers!Text
           parsed == Numbers!parsePrometheusText(lines)
           matched == {k \in DOMAIN lines : lines[k].kind = "sample" /\ lines[k].labels \notin Braced}
<1>1. DOMAIN parsed = matched /\ \A i \in matched : parsed[i].value = lines[i].value
  BY DEF Numbers!parsePrometheusText
<1>2. /\ \A i \in Readable : i + 2 \in matched /\ lines[i + 2].value = exported[i].value
      /\ \A k \in matched : k \in Nat /\ k - 2 \in Readable
  <2> HIDE DEF lines
  <2>1. /\ Len(exported) \in Nat /\ DOMAIN lines = 1..(Len(exported) + 2)
        /\ lines[1].kind # "sample" /\ lines[2].kind # "sample"
        /\ \A i \in 1..Len(exported) :
              lines[i + 2] = [kind |-> "sample", labels |-> exported[i].labels,
                              value |-> exported[i].value]
    BY TextLines DEF lines
  <2>2. ASSUME NEW i \in Readable
        PROVE  i + 2 \in matched /\ lines[i + 2].value = exported[i].value
    <3>1. i \in 1..Len(exported) /\ i + 2 \in 1..(Len(exported) + 2) /\ exported[i].labels \notin Braced
      BY <2>1 DEF Readable
    <3>2. lines[i + 2] = [kind |-> "sample", labels |-> exported[i].labels,
                          value |-> exported[i].value]
      BY <2>1, <3>1
    <3> QED
      BY <2>1, <3>1, <3>2
  <2>3. ASSUME NEW k \in matched PROVE k \in Nat /\ k - 2 \in Readable
    <3>1. k \in 1..(Len(exported) + 2) /\ k # 1 /\ k # 2 /\ lines[k].labels \notin Braced
      BY <2>1
    <3>2. k \in Nat /\ k - 2 \in 1..Len(exported) /\ (k - 2) + 2 = k
      BY <2>1, <3>1
    <3>3. PICK i \in 1..Len(exported) : k - 2 = i /\ k = i + 2
      BY <3>2
    <3>4. lines[i + 2] = [kind |-> "sample", labels |-> exported[i].labels,
                          value |-> exported[i].value]
      BY <2>1, Zenon
    <3> QED
      BY <3>1, <3>2, <3>3, <3>4 DEF Readable
  <2> QED
    BY <2>2, <2>3
<1> HIDE DEF lines, parsed, matched
<1>3. Scraped = IF matched = {} THEN 0 ELSE parsed[Numbers!First(parsed)].value
  BY <1>1 DEF Scraped, Numbers!getMetricValue, parsed, lines
<1>4. CASE matched = {}
  BY <1>2, <1>3, <1>4
<1>5. CASE matched # {}
  <2>1. PICK m \in matched : \A k \in matched : m <= k
    BY <1>2, <1>5, LeastOf
  <2> DEFINE f == Numbers!First(parsed)
  <2>2. f \in matched /\ \A k \in matched : f <= k
    BY <1>1, <2>1 DEF Numbers!First
  <2> HIDE DEF f
  <2>3. Scraped = lines[f].value
    BY <1>1, <1>3, <1>5, <2>2 DEF f
  <2>4. /\ f \in Nat /\ f - 2 \in Readable /\ f - 2 \in Nat /\ (f - 2) + 2 = f
    BY <1>2, <2>2, TextLines DEF Readable
  <2>5. Scraped = exported[f - 2].value
    BY <1>2, <2>3, <2>4
  <2>6. ASSUME NEW k \in Readable PROVE f - 2 <= k
    <3>1. k + 2 \in matched /\ k \in Nat
      BY <1>2, TextLines DEF Readable
    <3> QED
      BY <2>2, <2>4, <3>1
  <2> QED
    BY <2>4, <2>5, <2>6
<1> QED
  BY <1>4, <1>5

\* It is the first of the series that can be read, or nothing.
ScrapedFirst ==
    \/ Readable = {} /\ Scraped = 0
    \/ \E m \in Readable : (\A k \in Readable : m <= k) /\ Scraped = exported[m].value

\* That holds before a step,
LEMMA ScrapedNow == ExportedOK => ScrapedFirst
  BY ScrapedIs DEF ScrapedFirst

\* and after it.
LEMMA ScrapedThen == ExportedOK' => ScrapedFirst'
  BY ScrapedNow, PTL

\* What a page can scrape was ingested.
LEMMA ScrapedBound == ASSUME ExportedOK PROVE Scraped \in 0..ingested
<1>1. CASE Readable = {} /\ Scraped = 0
  BY <1>1 DEF ExportedOK
<1>2. ASSUME NEW m \in Readable, Scraped = exported[m].value PROVE Scraped \in 0..ingested
  <2>1. m \in 1..Len(exported)
    BY DEF Readable
  <2>2. exported[m] \in [labels : Series, value : Nat]
    BY <2>1, ElementIn DEF ExportedOK
  <2> QED
    BY <1>2, <2>1, <2>2 DEF ExportedOK
<1> QED
  BY <1>1, <1>2, ScrapedNow DEF ScrapedFirst

\* One event more makes what is scraped grow by one at most: the first series that can
\* be read stays the first, and only one of them counts the event.
LEMMA IngestScraped ==
    ASSUME ExportedOK, NEW s \in Series, NEW b \in Numbers!Buckets, Numbers!Ingest(s, b)
    PROVE  ExportedOK' /\ Scraped' <= Scraped + 1
<1> DEFINE n == Len(exported)
<1>1. /\ n \in Nat /\ DOMAIN exported = 1..n /\ ingested \in Nat /\ ingested' = ingested + 1
      /\ \A i \in 1..n : exported[i] \in [labels : Series, value : Nat]
      /\ \A i \in 1..n : exported[i].value <= ingested
      /\ \A i, k \in 1..n : exported[i].labels = exported[k].labels => i = k
  <2>1. \A i \in 1..n : exported[i] \in [labels : Series, value : Nat]
    BY ElementIn, Zenon DEF ExportedOK
  <2>2. n \in Nat /\ DOMAIN exported = 1..n
    BY DEF ExportedOK
  <2> QED
    BY <2>1, <2>2 DEF ExportedOK, Numbers!Ingest
<1>2. CASE \E i \in DOMAIN exported : exported[i].labels = s
  <2> DEFINE new(i) == IF exported[i].labels = s THEN [exported[i] EXCEPT !.value = @ + 1]
                       ELSE exported[i]
  <2>1. exported' = [i \in 1..n |-> new(i)]
    <3>1. DOMAIN exported = 1..n
      BY <1>1
    <3>2. exported' = [i \in DOMAIN exported |-> new(i)]
      BY <1>2 DEF Numbers!Ingest
    <3> QED
      BY <3>1, <3>2, Zenon
  <2>2. ASSUME NEW i \in 1..n
        PROVE  /\ new(i) \in [labels : Series, value : Nat] /\ new(i).labels = exported[i].labels
               /\ new(i).value <= exported[i].value + 1
    BY <1>1
  <2> HIDE DEF new
  <2>3. /\ exported' \in Seq([labels : Series, value : Nat]) /\ Len(exported') = n
        /\ DOMAIN exported' = 1..n /\ \A i \in 1..n : exported'[i] = new(i)
    BY <1>1, <2>1, <2>2
  <2>4. ASSUME NEW i \in 1..n PROVE exported'[i].value <= ingested'
    <3>1. exported[i].value \in Nat /\ exported[i].value <= ingested
      BY <1>1
    <3>2. exported'[i].value = new(i).value /\ new(i).value \in Nat
      BY <2>2, <2>3
    <3> QED
      BY <1>1, <2>2, <3>1, <3>2
  <2>5. ExportedOK'
    BY <1>1, <2>2, <2>3, <2>4 DEF ExportedOK
  <2>6. Readable' = Readable
    BY <2>2, <2>3 DEF Readable
  <2>7. CASE Readable = {}
    BY <2>5, <2>6, <2>7, ScrapedNow, ScrapedThen DEF ScrapedFirst
  <2>8. CASE Readable # {}
    <3>1. PICK m \in Readable : (\A k \in Readable : m <= k) /\ Scraped = exported[m].value
      BY <2>8, ScrapedNow DEF ScrapedFirst
    <3>2. PICK l \in Readable : (\A k \in Readable : l <= k) /\ Scraped' = exported'[l].value
      BY <2>5, <2>6, <2>8, ScrapedThen DEF ScrapedFirst
    <3>3. m \in 1..n /\ l \in 1..n
      BY DEF Readable
    <3>4. m = l
      BY <1>1, <3>1, <3>2, <3>3
    <3>5. Scraped' = new(m).value /\ new(m).value <= Scraped + 1
      BY <2>2, <2>3, <3>1, <3>2, <3>3, <3>4
    <3> QED
      BY <2>5, <3>5
  <2> QED
    BY <2>5, <2>7, <2>8, Zenon
<1>3. CASE ~ \E i \in DOMAIN exported : exported[i].labels = s
  <2> DEFINE one == [labels |-> s, value |-> 1]
  <2>1. exported' = Append(exported, one) /\ one \in [labels : Series, value : Nat]
    BY <1>3 DEF Numbers!Ingest
  <2>2. /\ exported' \in Seq([labels : Series, value : Nat]) /\ Len(exported') = n + 1
        /\ \A i \in 1..n : exported'[i] = exported[i]
        /\ exported'[n + 1] = one
    BY <2>1 DEF ExportedOK
  <2>3. one.labels = s /\ one.value = 1
    OBVIOUS
  <2> HIDE DEF one
  <2>4. \A i \in 1..(n + 1) : i \in 1..n \/ i = n + 1
    BY <1>1
  <2>5. ASSUME NEW i \in 1..(n + 1) PROVE exported'[i].value <= ingested'
    <3>1. CASE i \in 1..n
      <4>1. exported[i].value \in Nat /\ exported[i].value <= ingested
        BY <1>1, <3>1
      <4> QED
        BY <1>1, <2>2, <3>1, <4>1
    <3>2. CASE i = n + 1
      BY <1>1, <2>2, <2>3, <3>2
    <3> QED
      BY <2>4, <3>1, <3>2
  <2>6. ASSUME NEW i \in 1..(n + 1), NEW k \in 1..(n + 1), exported'[i].labels = exported'[k].labels
        PROVE  i = k
    BY <1>1, <1>3, <2>2, <2>3, <2>4, <2>6
  <2>7. ExportedOK'
    BY <1>1, <2>2, <2>5, <2>6 DEF ExportedOK
  <2>8. Readable \subseteq Readable' /\ Readable' \subseteq Readable \cup {n + 1}
    BY <1>1, <2>2, <2>4 DEF Readable
  <2>9. CASE Readable = {}
    <3>1. Scraped = 0 /\ (Scraped' = 0 \/ Scraped' = 1)
      BY <2>2, <2>3, <2>7, <2>8, <2>9, ScrapedNow, ScrapedThen DEF ScrapedFirst
    <3> QED
      BY <2>7, <3>1
  <2>10. CASE Readable # {}
    <3>1. PICK m \in Readable : (\A k \in Readable : m <= k) /\ Scraped = exported[m].value
      BY <2>10, ScrapedNow DEF ScrapedFirst
    <3>2. PICK l \in Readable' : (\A k \in Readable' : l <= k) /\ Scraped' = exported'[l].value
      BY <2>7, <2>8, <2>10, ScrapedThen DEF ScrapedFirst
    <3>3. m \in 1..n /\ m \in Readable'
      BY <2>8 DEF Readable
    <3>4. l \in Readable
      BY <1>1, <2>8, <3>2, <3>3
    <3>5. l = m
      <4>1. l \in 1..n
        BY <3>4 DEF Readable
      <4> QED
        BY <1>1, <3>1, <3>2, <3>3, <3>4, <4>1
    <3>6. Scraped' = Scraped /\ Scraped \in Nat
      BY <1>1, <2>2, <3>1, <3>2, <3>3, <3>5
    <3> QED
      BY <2>7, <3>6
  <2> QED
    BY <2>7, <2>9, <2>10, Zenon
<1> QED
  BY <1>2, <1>3

\* A value on display was ingested once.
Shows(value) == value \in 0..ingested
\* The histories of such values.
Points == Seq(0..MaxIngested)

\* An answer of the route, and what the hook keeps of one.
Statuses == {"none", "ok", "failed"}
AnswerOK(d) ==
    /\ Shows(Numbers!getMetricValue(d.series))
    /\ d.status \in Statuses /\ d.counted \in 0..ingested
Refs == [time : 0..now, eventsIngested : 0..ingested, status : Statuses, counted : 0..ingested]

\* A value read of the counter, or of what a page made of it, when so much was ingested.
Reading(s, value, counted) == [status |-> s, value |-> value, counted |-> counted]
Seen(d) == Reading(d.status, Numbers!getMetricValue(d.series), d.counted)
Kept == Reading(previousRef.status, previousRef.eventsIngested, previousRef.counted)
Current == Reading("ok", Scraped, ingested)

\* y was read after x, and grew by what was ingested since x at the most, unless x is
\* the zero of a failed scrape.
Follows(x, y) ==
    x.status # "none" =>
        /\ x.counted <= y.counted
        /\ x.status = "ok" => y.value <= x.value + (y.counted - x.counted)

\* The order of the readings: what the hook keeps and what the query keeps, then the
\* answer on its way, then what a scrape would read.
Ordered ==
    /\ Follows(Seen(data), Current) /\ Follows(Kept, Current)
    /\ metrics # Numbers!NoData =>
          /\ Follows(Seen(metrics), Current)
          /\ Follows(Seen(data), Seen(metrics)) /\ Follows(Kept, Seen(metrics))

\* The invariant of the numbers.
NumbersInv ==
    /\ ExportedOK /\ now \in Nat
    /\ ingested \in 0..MaxIngested /\ before \in 0..ingested
    /\ AnswerOK(data) /\ AnswerOK(metrics)
    /\ previousRef \in Refs
    /\ rate \in 0..MaxIngested
    /\ history \in Points /\ Len(history) <= MAX_HISTORY
    /\ Ordered

\* Without series the value is zero.
LEMMA NoSeries == Numbers!getMetricValue(<<>>) = 0
<1>1. DOMAIN <<>> = {}
  OBVIOUS
<1> QED
  BY <1>1 DEF Numbers!getMetricValue

\* No answer is no reading.
LEMMA NoDataOK ==
    ASSUME NEW y, ingested \in Nat
    PROVE  AnswerOK(Numbers!NoData) /\ Follows(Seen(Numbers!NoData), y)
<1>1. /\ Numbers!NoData.status = "none" /\ Numbers!NoData.counted = 0
      /\ Numbers!NoData.series = <<>>
  BY DEF Numbers!NoData
<1>2. Seen(Numbers!NoData).status = "none"
  BY <1>1 DEF Seen, Reading
<1> QED
  BY <1>1, <1>2, NoSeries DEF AnswerOK, Shows, Statuses, Follows

\* In the beginning nothing was ingested, scraped or shown.
LEMMA NumbersInit == ConsoleInit => NumbersInv
<1> SUFFICES ASSUME ConsoleInit PROVE NumbersInv
  OBVIOUS
<1>1. /\ exported = <<>> /\ data = Numbers!NoData /\ metrics = Numbers!NoData
      /\ previousRef = [time |-> 0, eventsIngested |-> 0, status |-> "none", counted |-> 0]
      /\ rate = 0 /\ history = <<>> /\ now = 0 /\ ingested = 0 /\ before = 0
  BY DEF ConsoleInit, Numbers!Init, Numbers!NoSnapshot
<1>2. MAX_HISTORY \in Nat /\ MaxIngested \in Nat
  BY ConsoleAssumption DEF Numbers!MetricsAssumption
<1>3. exported \in Seq([labels : Series, value : Nat]) /\ DOMAIN exported = {} /\ Len(exported) = 0
  BY <1>1
<1>4. history \in Points /\ Len(history) <= MAX_HISTORY
  BY <1>1, <1>2, EmptyList DEF Points
<1>5. ExportedOK
  BY <1>1, <1>3 DEF ExportedOK
<1>6. AnswerOK(data) /\ AnswerOK(metrics) /\ Follows(Seen(data), Current)
  BY <1>1, NoDataOK
<1>7. Kept.status = "none" /\ previousRef \in Refs
  BY <1>1 DEF Kept, Reading, Refs, Statuses
<1>8. Ordered
  BY <1>1, <1>6, <1>7 DEF Ordered, Follows
<1> QED
  BY <1>1, <1>2, <1>4, <1>5, <1>6, <1>7, <1>8 DEF NumbersInv

\* The points of the history: one more, and at its limit one less.
LEMMA OneMorePoint ==
    ASSUME NEW S, NEW q \in Seq(S), NEW v \in S, NEW m \in Nat \ {0}, Len(q) <= m
    PROVE  LET all == Append(q, v)
               l == SubSeq(all, IF Len(all) > m THEN 2 ELSE 1, Len(all))
           IN  l \in Seq(S) /\ Len(l) <= m
<1> DEFINE all == Append(q, v)
           f   == IF Len(all) > m THEN 2 ELSE 1
<1>1. all \in Seq(S) /\ Len(all) = Len(q) + 1 /\ Len(q) \in Nat
  OBVIOUS
<1>2. f \in 1..(Len(all) + 1) /\ Len(all) - f + 1 <= m /\ Len(all) - f + 1 \in Nat
  BY <1>1
<1> HIDE DEF all, f
<1>3. SubSeq(all, f, Len(all)) \in Seq(S) /\ Len(SubSeq(all, f, Len(all))) = Len(all) - f + 1
  BY <1>1, <1>2, SubSeqProperties
<1> QED
  BY <1>2, <1>3 DEF all, f

\* What the hook makes of an answer.
LEMMA SnapshotOf ==
    ASSUME NumbersInv, NEW d, AnswerOK(d),
           NEW previous \in Refs, NEW points \in Points, Len(points) <= MAX_HISTORY,
           Numbers!Snapshot(d, previous, points)
    PROVE  /\ rate' \in 0..Numbers!getMetricValue(d.series) /\ rate' \in 0..MaxIngested
           /\ rate' = 0 \/ rate' <= Numbers!getMetricValue(d.series) - previous.eventsIngested
           /\ history' \in Points /\ Len(history') <= MAX_HISTORY
           /\ previousRef' \in Refs
           /\ previousRef'.status = d.status /\ previousRef'.counted = d.counted
           /\ previousRef'.eventsIngested = Numbers!getMetricValue(d.series)
           /\ before' = ingested
<1> DEFINE value == Numbers!getMetricValue(d.series)
<1>1. /\ rate' = IF previous.status = "none" THEN 0
                 ELSE Numbers!computeRate(value, previous.eventsIngested, now - previous.time)
      /\ history' = LET all == Append(points, value)
                    IN  SubSeq(all, IF Len(all) > MAX_HISTORY THEN 2 ELSE 1, Len(all))
      /\ previousRef' = [time |-> now, eventsIngested |-> value, status |-> d.status,
                         counted |-> d.counted]
      /\ before' = ingested
  BY DEF Numbers!Snapshot
<1>2. value \in 0..MaxIngested /\ value \in 0..ingested /\ previous.eventsIngested \in Nat
      /\ MAX_HISTORY \in Nat \ {0} /\ MaxIngested \in Nat /\ now \in 0..now
  <2>1. /\ now \in Nat /\ ingested \in 0..MaxIngested /\ value \in 0..ingested
        /\ previous.eventsIngested \in 0..ingested
    BY DEF NumbersInv, AnswerOK, Refs, Shows
  <2>2. MAX_HISTORY \in Nat \ {0} /\ MaxIngested \in Nat
    BY ConsoleAssumption DEF Numbers!MetricsAssumption
  <2> HIDE DEF value
  <2> QED
    BY <2>1, <2>2
<1> HIDE DEF value
<1>3. history' \in Points /\ Len(history') <= MAX_HISTORY
  BY <1>1, <1>2, OneMorePoint DEF Points
<1>4. /\ rate' \in 0..value /\ rate' \in 0..MaxIngested
      /\ rate' = 0 \/ rate' <= value - previous.eventsIngested
  BY <1>1, <1>2 DEF Numbers!computeRate
<1>5. previousRef' \in Refs
  BY <1>1, <1>2 DEF Refs, AnswerOK
<1> QED
  BY <1>1, <1>3, <1>4, <1>5 DEF value

\* What RateIsHonest says of a step.
HonestStep ==
    dashboard = "open" /\ previousRef' # previousRef /\ previousRef.status = "ok" =>
        /\ rate' <= previousRef'.counted - previousRef.counted
        /\ previousRef.counted = before => rate' <= ingested - before

\* The exporter and the clock leave the hook alone.  Ingesting adds one to what is
\* scraped at the most, restarting takes all of it away.
LEMMA ExportNext ==
    ASSUME NumbersInv, UNCHANGED <<data, metrics, previousRef, rate, history, before>>,
           ExportedOK', now' \in Nat, now <= now',
           ingested' \in 0..MaxIngested, ingested <= ingested',
           Scraped' <= Scraped + (ingested' - ingested)
    PROVE  NumbersInv' /\ HonestStep
<1>0. ingested \in Int /\ ingested' \in Int /\ now \in Nat
  BY DEF NumbersInv
<1>1. Scraped \in Int /\ Scraped' \in Int
  <2>1. ExportedOK' => (Scraped \in 0..ingested)'
    BY ScrapedBound, PTL
  <2> QED
    BY <2>1, ScrapedBound DEF NumbersInv
<1>2. ASSUME NEW x, x.value \in Int, x.counted \in Int, Follows(x, Current)
      PROVE  Follows(x, Reading("ok", Scraped', ingested'))
  <2>1. SUFFICES ASSUME x.status # "none"
                 PROVE  /\ x.counted <= ingested'
                        /\ x.status = "ok" => Scraped' <= x.value + (ingested' - x.counted)
    BY DEF Follows, Reading
  <2>2. /\ x.counted <= ingested
        /\ x.status = "ok" => Scraped <= x.value + (ingested - x.counted)
    BY <1>2, <2>1 DEF Follows, Current, Reading
  <2>3. \A scraped, total \in Int :
           ingested <= total /\ scraped <= Scraped + (total - ingested) =>
               /\ x.counted <= total
               /\ x.status = "ok" => scraped <= x.value + (total - x.counted)
    BY <1>0, <1>1, <1>2, <2>2
  <2> QED
    BY <1>0, <1>1, <2>3, Zenon
<1>3. /\ Seen(data).value \in Int /\ Seen(data).counted \in Int
      /\ Seen(metrics).value \in Int /\ Seen(metrics).counted \in Int
      /\ Kept.value \in Int /\ Kept.counted \in Int
  BY <1>0 DEF Seen, Kept, Reading, NumbersInv, AnswerOK, Shows, Refs
<1>4. Ordered'
  <2>1. /\ Seen(data)' = Seen(data) /\ Seen(metrics)' = Seen(metrics) /\ Kept' = Kept
        /\ Current' = Reading("ok", Scraped', ingested')
    BY DEF Seen, Kept, Reading, Current
  <2>2. \A x, y : Follows(x, y)' <=> Follows(x, y)
    BY DEF Follows
  <2> QED
    BY <1>2, <1>3, <2>1, <2>2 DEF Ordered, NumbersInv, Follows
<1>5. previousRef' \in Refs' /\ AnswerOK(data)' /\ AnswerOK(metrics)' /\ before' \in 0..ingested'
  <2>1. \A x \in 0..ingested : x \in 0..ingested'
    BY <1>0 DEF NumbersInv
  <2>2. before' \in 0..ingested'
    BY <1>0, <2>1 DEF NumbersInv
  <2>3. AnswerOK(data)' /\ AnswerOK(metrics)'
    BY <1>0, <2>1 DEF NumbersInv, AnswerOK, Shows
  <2>4. previousRef' \in Refs'
    BY <1>0, <2>1 DEF NumbersInv, Refs
  <2> QED
    BY <2>2, <2>3, <2>4
<1> QED
  BY <1>4, <1>5 DEF NumbersInv, HonestStep

\* Every step keeps the invariant of the numbers, and shows an honest rate.
LEMMA NumbersNext ==
    ASSUME NumbersInv, [Numbers!Next]_(Numbers!vars)
    PROVE  NumbersInv' /\ HonestStep
<1> USE DEF Numbers!hookVars, Numbers!exportVars
<1>1. ASSUME NEW s \in Series, NEW b \in Numbers!Buckets, Numbers!Ingest(s, b)
      PROVE  NumbersInv' /\ HonestStep
  <2>1. ExportedOK' /\ Scraped' <= Scraped + 1
    BY <1>1, IngestScraped DEF NumbersInv
  <2>2. ingested' = ingested + 1 /\ ingested' \in 0..MaxIngested /\ ingested \in Nat
    BY <1>1, ConsoleAssumption DEF Numbers!Ingest, NumbersInv, Numbers!MetricsAssumption
  <2>3. Scraped \in Int /\ Scraped' \in Int
    <3>1. ExportedOK' => (Scraped \in 0..ingested)'
      BY ScrapedBound, PTL
    <3> QED
      BY <2>1, <3>1, ScrapedBound DEF NumbersInv
  <2>4. Scraped' <= Scraped + 1
    BY <2>1
  <2>5. ingested <= ingested' /\ Scraped' <= Scraped + (ingested' - ingested)
    BY <2>2, <2>3, <2>4
  <2>6. now' = now /\ now \in Nat
    BY <1>1 DEF Numbers!Ingest, NumbersInv
  <2> QED
    BY <1>1, <2>1, <2>2, <2>5, <2>6, ExportNext DEF Numbers!Ingest
<1>2. CASE Numbers!Restart
  <2>1. exported' = <<>> /\ ingested' = ingested /\ now' = now /\ now \in Nat
    BY <1>2 DEF Numbers!Restart, NumbersInv
  <2>2. exported' \in Seq([labels : Series, value : Nat]) /\ Len(exported') = 0
        /\ DOMAIN exported' = {}
    BY <2>1
  <2>3. ExportedOK'
    BY <2>1, <2>2 DEF ExportedOK, NumbersInv
  <2>4. Readable' = {}
    BY <2>2 DEF Readable
  <2>5. Scraped' = 0
    BY <2>3, <2>4, ScrapedThen DEF ScrapedFirst
  <2>6. Scraped \in Nat /\ ingested \in Nat /\ ingested' \in 0..MaxIngested
    BY <2>1, ScrapedBound DEF NumbersInv
  <2>7. ingested <= ingested' /\ Scraped' <= Scraped + (ingested' - ingested)
    BY <2>1, <2>5, <2>6
  <2> QED
    BY <1>2, <2>1, <2>3, <2>6, <2>7, ExportNext DEF Numbers!Restart
<1>3. ASSUME UNCHANGED <<exported, ingested>>
      PROVE  /\ ExportedOK' /\ Scraped' = Scraped /\ Current' = Current
             /\ ingested' \in 0..MaxIngested /\ ingested' = ingested
             /\ \A x, y : Follows(x, y)' <=> Follows(x, y)
  BY <1>3 DEF NumbersInv, ExportedOK, Scraped, Numbers!Text, Current, Reading, Follows
<1>4. Scraped \in 0..ingested /\ ingested \in Nat /\ now \in Nat /\ MaxIngested \in Nat
  BY ScrapedBound, ConsoleAssumption DEF NumbersInv, Numbers!MetricsAssumption
<1>5. CASE UNCHANGED <<exported, ingested, data, metrics, previousRef, rate, history, before>>
           /\ now' \in {now, now + 1}
  <2>1. Scraped' <= Scraped + (ingested' - ingested) /\ now' \in Nat /\ now <= now'
    BY <1>3, <1>4, <1>5
  <2> QED
    BY <1>3, <1>4, <1>5, <2>1, ExportNext
\* An answer has the present reading, or that of a failed scrape.
<1>6. CASE Numbers!Scrape
  <2>1. /\ UNCHANGED <<exported, ingested, now, data, previousRef, rate, history, before>>
        /\ \E s \in {"ok", "failed"} :
              metrics' = [status |-> s, counted |-> ingested,
                          series |-> IF s = "ok" THEN Numbers!parsePrometheusText(Numbers!Text)
                                     ELSE <<>>]
    BY <1>6 DEF Numbers!Scrape
  <2>2. /\ metrics'.status \in {"ok", "failed"} /\ metrics'.counted = ingested
        /\ metrics'.series \in {Numbers!parsePrometheusText(Numbers!Text), <<>>}
        /\ metrics'.status = "ok" => metrics'.series = Numbers!parsePrometheusText(Numbers!Text)
    BY <2>1
  <2> DEFINE value == Numbers!getMetricValue(metrics'.series)
  <2>3. value \in {0, Scraped} /\ (metrics'.status = "ok" => value = Scraped)
    BY <2>2, NoSeries DEF Scraped
  <2>4. Seen(metrics)' = Reading(metrics'.status, value, ingested)
    BY <2>1, <2>2 DEF Seen, Reading
  <2>5. AnswerOK(metrics)'
    BY <1>4, <2>1, <2>2, <2>3 DEF AnswerOK, Shows, Statuses
  <2> HIDE DEF value
  <2>6. Follows(Reading(metrics'.status, value, ingested), Current)
    BY <1>4, <2>2, <2>3 DEF Follows, Reading, Current
  <2>7. ASSUME NEW x, x.value \in Nat, x.counted \in 0..ingested, Follows(x, Current)
        PROVE  Follows(x, Reading(metrics'.status, value, ingested))
    BY <1>4, <2>3, <2>7 DEF Follows, Reading, Current
  <2>8. /\ Seen(data).value \in Nat /\ Seen(data).counted \in 0..ingested
        /\ Kept.value \in Nat /\ Kept.counted \in 0..ingested
    BY <1>4 DEF Seen, Kept, Reading, NumbersInv, AnswerOK, Shows, Refs
  <2>9. Ordered'
    <3>1. Seen(data)' = Seen(data) /\ Kept' = Kept /\ Current' = Current
      BY <1>3, <2>1 DEF Seen, Kept, Reading
    <3>2. /\ Follows(Seen(data), Current) /\ Follows(Kept, Current)
          /\ Follows(Seen(metrics)', Current)
          /\ Follows(Seen(data), Seen(metrics)') /\ Follows(Kept, Seen(metrics)')
      BY <2>4, <2>6, <2>7, <2>8 DEF NumbersInv, Ordered
    <3> QED
      BY <3>1, <3>2 DEF Ordered, Follows
  <2>10. previousRef' \in Refs' /\ AnswerOK(data)' /\ before' \in 0..ingested'
    BY <2>1 DEF NumbersInv, Refs, AnswerOK, Shows
  <2> QED
    BY <1>3, <2>1, <2>5, <2>9, <2>10 DEF NumbersInv, HonestStep
\* What a step that reads nothing new does with the readings there are.
<1>7. ASSUME UNCHANGED <<exported, ingested, now>>, metrics' \in {metrics, Numbers!NoData},
             data' \in {data, metrics, Numbers!NoData},
             data' = metrics => metrics' = Numbers!NoData \/ data' = data,
             Kept'.status = "none" \/ Kept' \in {Kept, Seen(data')},
             data' # data => Kept' = Kept \/ metrics' = Numbers!NoData,
             previousRef' \in Refs, rate' \in 0..MaxIngested,
             history' \in Points, Len(history') <= MAX_HISTORY, before' \in 0..ingested
      PROVE  NumbersInv'
  <2>1. /\ AnswerOK(data') /\ AnswerOK(metrics')
        /\ Follows(Seen(data'), Current)
    BY <1>4, <1>7, NoDataOK DEF NumbersInv, Ordered, Follows, Seen, Numbers!NoData, Reading
  <2>2. Follows(Kept', Current)
    BY <1>7, <2>1 DEF NumbersInv, Ordered, Follows
  <2>3. ASSUME metrics' # Numbers!NoData
        PROVE  /\ Follows(Seen(metrics'), Current)
               /\ Follows(Seen(data'), Seen(metrics')) /\ Follows(Kept', Seen(metrics'))
    <3>1. metrics' = metrics /\ data' \in {data, Numbers!NoData}
      BY <1>7, <2>3
    <3>2. Follows(Seen(data'), Seen(metrics))
      BY <1>4, <2>3, <3>1, NoDataOK DEF NumbersInv, Ordered
    <3> QED
      BY <1>7, <2>3, <3>1, <3>2 DEF NumbersInv, Ordered, Follows
  <2>4. Seen(data)' = Seen(data') /\ Seen(metrics)' = Seen(metrics')
        /\ AnswerOK(data)' /\ AnswerOK(metrics)' /\ Refs' = Refs
    BY <1>7, <2>1 DEF Seen, Reading, AnswerOK, Shows, Refs
  <2>5. Ordered'
    BY <1>3, <1>7, <2>1, <2>2, <2>3, <2>4 DEF Ordered, Follows
  <2> QED
    BY <1>3, <1>7, <2>4, <2>5 DEF NumbersInv
<1>8. ASSUME NEW d, AnswerOK(d), NEW previous \in Refs, NEW points \in Points,
             Len(points) <= MAX_HISTORY, Numbers!Snapshot(d, previous, points)
      PROVE  Kept' = Seen(d) /\ before' \in 0..ingested
  BY <1>4, <1>8, SnapshotOf DEF Kept, Seen, Reading
<1>9. CASE Numbers!Load /\ dashboard = "open"
  <2>1. /\ UNCHANGED <<exported, ingested, now>> /\ metrics # Numbers!NoData
        /\ metrics' = Numbers!NoData /\ data' = metrics
        /\ Numbers!Snapshot(metrics, previousRef, history)
    BY <1>9 DEF Numbers!Load
  <2>2. AnswerOK(metrics) /\ previousRef \in Refs /\ history \in Points /\ Len(history) <= MAX_HISTORY
    BY DEF NumbersInv
  <2>3. /\ rate' \in 0..Numbers!getMetricValue(metrics.series) /\ rate' \in 0..MaxIngested
        /\ rate' = 0 \/ rate' <= Numbers!getMetricValue(metrics.series) - previousRef.eventsIngested
        /\ history' \in Points /\ Len(history') <= MAX_HISTORY
        /\ previousRef' \in Refs /\ previousRef'.counted = metrics.counted
    BY <2>1, <2>2, SnapshotOf
  <2>4. Kept' = Seen(data') /\ before' \in 0..ingested
    BY <1>8, <2>1, <2>2
  <2>5. NumbersInv'
    BY <1>7, <2>1, <2>3, <2>4
  <2>6. HonestStep
    <3>1. SUFFICES ASSUME previousRef.status = "ok"
                   PROVE  /\ rate' <= metrics.counted - previousRef.counted
                          /\ previousRef.counted = before => rate' <= ingested - before
      BY <2>3 DEF HonestStep
    <3> DEFINE value == Numbers!getMetricValue(metrics.series)
    <3>2. /\ previousRef.counted <= metrics.counted
          /\ value <= previousRef.eventsIngested + (metrics.counted - previousRef.counted)
      BY <2>1, <3>1 DEF NumbersInv, Ordered, Follows, Kept, Seen, Reading
    <3>3. /\ value \in 0..ingested /\ metrics.counted \in 0..ingested
          /\ previousRef.counted \in 0..ingested /\ previousRef.eventsIngested \in 0..ingested
      BY <2>2 DEF AnswerOK, Shows, Refs
    <3>4. rate' \in 0..value /\ (rate' = 0 \/ rate' <= value - previousRef.eventsIngested)
      BY <2>3
    <3> HIDE DEF value
    <3> QED
      BY <1>4, <3>2, <3>3, <3>4
  <2> QED
    BY <2>5, <2>6
<1>10. CASE Numbers!Load /\ dashboard = "left"
  <2>1. /\ UNCHANGED <<exported, ingested, now, previousRef, rate, history, before>>
        /\ metrics' = Numbers!NoData /\ data' \in {metrics, Numbers!NoData} /\ dashboard = "left"
    BY <1>10 DEF Numbers!Load
  <2>2. Kept' = Kept
    BY <2>1 DEF Kept, Reading
  <2> QED
    BY <1>7, <2>1, <2>2 DEF NumbersInv, HonestStep
<1>11. CASE Numbers!Lose \/ Numbers!Leave
  <2>1. /\ UNCHANGED <<exported, ingested, now, previousRef, rate, history, before>>
        /\ metrics' \in {metrics, Numbers!NoData} /\ data' \in {data, Numbers!NoData}
        /\ data' = metrics => metrics' = Numbers!NoData \/ data' = data
    BY <1>11 DEF Numbers!Lose, Numbers!Leave
  <2>2. Kept' = Kept
    BY <2>1 DEF Kept, Reading
  <2> QED
    BY <1>7, <2>1, <2>2 DEF NumbersInv, HonestStep
<1>12. CASE Numbers!Enter
  <2>1. UNCHANGED <<exported, ingested, now, data, metrics>> /\ dashboard = "left"
    BY <1>12 DEF Numbers!Enter
  <2> DEFINE none == [time |-> 0, eventsIngested |-> 0, status |-> "none", counted |-> 0]
  <2>2. none \in Refs /\ <<>> \in Points /\ Len(<<>>) <= MAX_HISTORY
    BY <1>4, ConsoleAssumption, EmptyList DEF Refs, Statuses, Points, Numbers!MetricsAssumption
  <2>3. CASE data = Numbers!NoData
    <3>1. previousRef' = none /\ rate' = 0 /\ history' = <<>> /\ before' = ingested
      BY <1>12, <2>3 DEF Numbers!Enter, Numbers!NoSnapshot
    <3>2. Kept'.status = "none"
      BY <3>1 DEF Kept, Reading
    <3> HIDE DEF none
    <3> QED
      BY <1>4, <1>7, <2>1, <2>2, <3>1, <3>2 DEF HonestStep
  <2>4. CASE data # Numbers!NoData
    <3>1. Numbers!Snapshot(data, none, <<>>)
      BY <1>12, <2>4 DEF Numbers!Enter, Numbers!NoSnapshot
    <3> HIDE DEF none
    <3>2. AnswerOK(data)
      BY DEF NumbersInv
    <3>3. Kept' = Seen(data') /\ before' \in 0..ingested
      BY <1>8, <2>1, <2>2, <3>1, <3>2
    <3>4. /\ rate' \in 0..MaxIngested /\ previousRef' \in Refs
          /\ history' \in Points /\ Len(history') <= MAX_HISTORY
      BY <2>2, <3>1, <3>2, SnapshotOf
    <3> QED
      BY <1>7, <2>1, <3>3, <3>4 DEF HonestStep
  <2> QED
    BY <2>3, <2>4
<1>13. Numbers!Tick \/ UNCHANGED Numbers!vars
       => /\ UNCHANGED <<exported, ingested, data, metrics, previousRef, rate, history, before>>
          /\ now' \in {now, now + 1}
  BY DEF Numbers!Tick, Numbers!vars
<1>14. dashboard \in {"open", "left"} \/ ~ Numbers!Load
  BY DEF Numbers!Load
<1> QED
  BY <1>1, <1>2, <1>5, <1>6, <1>9, <1>10, <1>11, <1>12, <1>13, <1>14 DEF Numbers!Next

\* The growth behind a rate was ingested between the two scrapes it compares, unless
\* the first of them failed, and in the time it is divided by if nothing was between
\* that scrape and its rendering.
THEOREM RateIsAlwaysHonest == ConsoleSpec => RateIsHonest
<1>1. NumbersInv /\ [Numbers!Next]_(Numbers!vars) => NumbersInv' /\ HonestStep
  BY NumbersNext
<1>2. ConsoleSpec => [][HonestStep]_(Numbers!vars)
  BY <1>1, NumbersInit, NumberStep, PTL DEF ConsoleSpec
<1> QED
  BY <1>2 DEF RateIsHonest, Numbers!RateIsHonest, HonestStep

-----------------------------------------------------------------------------
(* The percentiles                                                         *)

\* The buckets hold cumulative counts.
LatencyOK ==
    /\ latency \in [Numbers!Buckets -> Nat]
    /\ \A x, y \in Numbers!Buckets : x <= y => latency[x] <= latency[y]

\* The last bucket is a bucket.
LEMMA OverflowIsLast ==
    /\ Numbers!Overflow \in Nat \ {0} /\ Numbers!Buckets = 1..Numbers!Overflow
    /\ Numbers!Overflow \in Numbers!Buckets
<1>1. IsFiniteSet(Bounds)
  BY ConsoleAssumption DEF Numbers!MetricsAssumption, Numbers!IsFiniteSet, IsFiniteSet
<1>2. Numbers!Cardinality(Bounds) = Cardinality(Bounds)
  BY DEF Numbers!Cardinality, Cardinality
<1>3. Cardinality(Bounds) \in Nat
  BY <1>1, FS_CardinalityType
<1> QED
  BY <1>2, <1>3 DEF Numbers!Overflow, Numbers!Buckets

\* The counts stay cumulative.
LEMMA LatencyNext == LatencyOK /\ [Numbers!Next]_(Numbers!vars) => LatencyOK'
<1> SUFFICES ASSUME LatencyOK, [Numbers!Next]_(Numbers!vars) PROVE LatencyOK'
  OBVIOUS
<1> DEFINE B == Numbers!Buckets
<1>1. ASSUME NEW s \in Series, NEW b \in B, Numbers!Ingest(s, b) PROVE LatencyOK'
  <2>1. latency' = [x \in B |-> IF x >= b THEN latency[x] + 1 ELSE latency[x]]
    BY <1>1 DEF Numbers!Ingest
  <2>2. \A x \in B : x \in Int
    BY OverflowIsLast
  <2>3. \A x \in B : latency[x] \in Nat
    BY DEF LatencyOK
  <2> HIDE DEF B
  <2>4. \A x \in B : latency'[x] \in Nat /\ latency'[x] = IF x >= b THEN latency[x] + 1 ELSE latency[x]
    BY <2>1, <2>3
  <2>5. latency' \in [B -> Nat]
    BY <2>1, <2>3
  <2>6. ASSUME NEW x \in B, NEW y \in B, x <= y PROVE latency'[x] <= latency'[y]
    <3>1. latency[x] <= latency[y] /\ latency[x] \in Nat /\ latency[y] \in Nat
      BY <2>3, <2>6 DEF LatencyOK, B
    <3>2. x >= b => y >= b
      BY <1>1, <2>2, <2>6
    <3> QED
      BY <2>4, <3>1, <3>2
  <2> QED
    BY <2>5, <2>6 DEF LatencyOK, B
<1>2. CASE Numbers!Restart
  <2>1. latency' = [b \in B |-> 0]
    BY <1>2 DEF Numbers!Restart
  <2> QED
    BY <2>1 DEF LatencyOK
<1>3. ASSUME UNCHANGED latency PROVE LatencyOK'
  BY <1>3 DEF LatencyOK
<1> QED
  BY <1>1, <1>2, <1>3 DEF Numbers!Next, Numbers!vars, Numbers!Tick, Numbers!Scrape, Numbers!Load,
                          Numbers!Lose, Numbers!Enter, Numbers!Leave, Numbers!exportVars

\* The rank among the observations of one that the share of target hundredths reaches.
IsRank(target, k) == 100 * k >= target /\ 100 * (k - 1) < target

\* Every percentile the page shows has such a rank.
LEMMA RankExists ==
    ASSUME NEW total \in Nat, total > 0, NEW p \in {50, 90, 99}
    PROVE  total * p \in Nat /\ \E k \in 1..total : IsRank(total * p, k)
<1> DEFINE r(q) == (total * q + 99) \div 100
<1>1. CASE p = 50
  <2>1. r(50) \in 1..total /\ IsRank(total * 50, r(50)) /\ total * 50 \in Nat
    BY DEF IsRank
  <2> QED
    BY <1>1, <2>1
<1>2. CASE p = 90
  <2>1. r(90) \in 1..total /\ IsRank(total * 90, r(90)) /\ total * 90 \in Nat
    BY DEF IsRank
  <2> QED
    BY <1>2, <2>1
<1>3. CASE p = 99
  <2>1. r(99) \in 1..total /\ IsRank(total * 99, r(99)) /\ total * 99 \in Nat
    BY DEF IsRank
  <2> QED
    BY <1>3, <2>1
<1> QED
  BY <1>1, <1>2, <1>3

\* The bucket of an observation by its rank.
Holds(rank, b) == rank <= latency[b] /\ Numbers!Below(latency, b) < rank

\* Every rank has a bucket: the least whose count reaches it.
LEMMA BucketExists ==
    ASSUME LatencyOK, NEW rank \in 1..latency[Numbers!Overflow]
    PROVE  \E b \in Numbers!Buckets : Holds(rank, b)
<1> DEFINE S == {b \in Numbers!Buckets : rank <= latency[b]}
<1>1. latency[Numbers!Overflow] \in Nat /\ rank \in Nat /\ rank > 0
  BY OverflowIsLast DEF LatencyOK
<1>2. Numbers!Overflow \in S
  BY <1>1, OverflowIsLast
<1>3. S \subseteq Nat
  BY OverflowIsLast
<1> HIDE DEF S
<1>4. PICK m \in S : \A k \in S : m <= k
  BY <1>2, <1>3, LeastOf
<1>5. m \in Numbers!Buckets /\ rank <= latency[m] /\ m \in Nat \ {0}
  BY OverflowIsLast DEF S
<1>6. Numbers!Below(latency, m) < rank
  <2>1. CASE m = 1
    BY <1>1, <2>1 DEF Numbers!Below
  <2>2. CASE m # 1
    <3>1. m - 1 \in Numbers!Buckets /\ m - 1 < m
      BY <1>5, <2>2, OverflowIsLast
    <3>2. m - 1 \notin S
      BY <1>4, <1>5, <3>1
    <3>3. latency[m - 1] \in Nat /\ ~(rank <= latency[m - 1])
      BY <3>1, <3>2 DEF S, LatencyOK
    <3> QED
      BY <1>1, <2>2, <3>3 DEF Numbers!Below
  <2> QED
    BY <2>1, <2>2
<1> QED
  BY <1>5, <1>6 DEF Holds

\* The bucket the code picks is the one of the rank.
IsFirst(target, b) ==
    100 * latency[b] >= target /\ \A y \in 1..(b - 1) : 100 * latency[y] < target

\* The bucket of the rank is the first to reach the target,
LEMMA FirstOfRank ==
    ASSUME LatencyOK, NEW target \in Nat, NEW rank \in Nat, IsRank(target, rank),
           NEW b \in Numbers!Buckets, Holds(rank, b)
    PROVE  IsFirst(target, b)
<1>1. b \in Nat \ {0} /\ latency[b] \in Nat
  BY OverflowIsLast DEF LatencyOK
<1>2. 100 * latency[b] >= target
  BY <1>1 DEF IsRank, Holds
<1>3. ASSUME NEW y \in 1..(b - 1) PROVE 100 * latency[y] < target
  <2>1. b - 1 \in Numbers!Buckets /\ y \in Numbers!Buckets /\ y <= b - 1 /\ b # 1
    BY <1>1, OverflowIsLast
  <2>2. latency[y] <= latency[b - 1] /\ latency[y] \in Nat /\ latency[b - 1] \in Nat
    BY <2>1 DEF LatencyOK
  <2>3. latency[b - 1] < rank
    BY <2>1 DEF Holds, Numbers!Below
  <2> QED
    BY <2>2, <2>3 DEF IsRank
<1> QED
  BY <1>2, <1>3 DEF IsFirst

\* and there is only one first.
LEMMA OneFirst ==
    ASSUME NEW target, NEW b \in Numbers!Buckets, NEW c \in Numbers!Buckets, LatencyOK,
           target \in Nat, IsFirst(target, b), IsFirst(target, c)
    PROVE  b = c
<1>1. b \in Nat \ {0} /\ c \in Nat \ {0} /\ latency[b] \in Nat /\ latency[c] \in Nat
  BY OverflowIsLast DEF LatencyOK
<1>2. ~ (b < c)
  BY <1>1 DEF IsFirst
<1>3. ~ (c < b)
  BY <1>1 DEF IsFirst
<1> QED
  BY <1>1, <1>2, <1>3

\* The width of a bucket added to its lower end is its upper end.
LEMMA NextMultiple ==
    ASSUME NEW b \in Nat, NEW den \in Nat
    PROVE  (b - 1) * den \in Int /\ b * den = (b - 1) * den + den
OBVIOUS

\* So the interpolated value lies in the bucket of the rank.
LEMMA InBucket == LatencyOK => Numbers!PercentileInBucket
<1> SUFFICES ASSUME LatencyOK, NEW p \in {50, 90, 99} PROVE Numbers!LiesInBucket(p)
  BY DEF Numbers!PercentileInBucket
<1> SUFFICES ASSUME latency[Numbers!Overflow] > 0 PROVE Numbers!LiesInBucket(p)
  BY DEF Numbers!LiesInBucket
<1> DEFINE total == latency[Numbers!Overflow]
           rank == Numbers!RankOf(total, p)
           bucket == Numbers!BucketOfRank(rank)
           target == total * p
           den == 100 * (latency[bucket] - Numbers!Below(latency, bucket))
           v == Numbers!extractPercentile(latency, p)
<1>1. total \in Nat /\ total > 0
  BY OverflowIsLast DEF LatencyOK
<1>2. target \in Nat /\ rank \in 1..total /\ IsRank(target, rank)
  <2>1. rank = CHOOSE k \in 1..total : IsRank(target, k)
    BY DEF Numbers!RankOf, IsRank
  <2>2. target \in Nat /\ \E k \in 1..total : IsRank(target, k)
    BY <1>1, RankExists
  <2> HIDE DEF rank, target
  <2> QED
    BY <2>1, <2>2
<1> HIDE DEF rank, target
<1>3. bucket \in Numbers!Buckets /\ Holds(rank, bucket)
  <2>1. bucket = CHOOSE b \in Numbers!Buckets : Holds(rank, b)
    BY DEF Numbers!BucketOfRank, Holds
  <2>2. \E b \in Numbers!Buckets : Holds(rank, b)
    BY <1>2, BucketExists
  <2> HIDE DEF bucket
  <2> QED
    BY <2>1, <2>2
<1> HIDE DEF bucket
<1>4. IsFirst(target, bucket)
  BY <1>1, <1>2, <1>3, FirstOfRank
<1>5. Numbers!BucketOf(latency, p) = bucket
  <2>1. Numbers!BucketOf(latency, p) = CHOOSE b \in Numbers!Buckets : IsFirst(target, b)
    BY DEF Numbers!BucketOf, IsFirst, target
  <2> QED
    BY <1>2, <1>3, <1>4, <2>1, OneFirst
<1>6. ASSUME bucket # Numbers!Overflow
      PROVE  (bucket - 1) * v.den < v.num /\ v.num <= bucket * v.den
  <2>1. v = [num |-> (bucket - 1) * den + (target - 100 * Numbers!Below(latency, bucket)),
             den |-> den]
    BY <1>1, <1>5, <1>6 DEF Numbers!extractPercentile, target
  <2>2. /\ bucket \in Nat \ {0} /\ latency[bucket] \in Nat /\ rank \in Nat
        /\ rank <= latency[bucket] /\ Numbers!Below(latency, bucket) < rank
    BY <1>1, <1>2, <1>3, OverflowIsLast DEF Holds, LatencyOK
  <2>3. Numbers!Below(latency, bucket) \in Nat
    <3>1. bucket = 1 \/ bucket - 1 \in Numbers!Buckets
      BY <1>3, <2>2, OverflowIsLast
    <3> QED
      BY <3>1 DEF Numbers!Below, LatencyOK
  <2>4. den \in Nat /\ 0 < target - 100 * Numbers!Below(latency, bucket)
        /\ target - 100 * Numbers!Below(latency, bucket) <= den
    BY <1>2, <2>2, <2>3 DEF IsRank
  <2> HIDE DEF den
  <2>5. (bucket - 1) * den \in Int /\ bucket * den = (bucket - 1) * den + den
    BY <2>2, <2>4, NextMultiple
  <2>6. v.den = den /\ v.num = (bucket - 1) * den + (target - 100 * Numbers!Below(latency, bucket))
    BY <2>1
  <2> HIDE DEF v
  <2> QED
    BY <1>2, <2>3, <2>4, <2>5, <2>6
<1> QED
  BY <1>6 DEF rank, bucket, Numbers!LiesInBucket

\* A percentile on the page lies in the bucket of the observation it stands for.
THEOREM PercentileIsInBucket == ConsoleSpec => []PercentileInBucket
<1>1. ConsoleInit => LatencyOK
  BY OverflowIsLast DEF ConsoleInit, Numbers!Init, LatencyOK
<1>2. ConsoleSpec => []LatencyOK
  BY <1>1, LatencyNext, NumberStep, PTL DEF ConsoleSpec
<1> QED
  BY <1>2, InBucket, PTL DEF PercentileInBucket

-----------------------------------------------------------------------------
(* The pages of the jobs                                                   *)

\* A step of the console is one of the pages or leaves them alone.
LEMMA PagingStep == [ConsoleNext]_consoleVars => [Paging!Next]_(Paging!vars)
BY DEF ConsoleNext, consoleVars, pagingVars, Paging!vars

\* The number of pages for t jobs.
LEMMA PagesIs ==
    ASSUME NEW t \in Nat
    PROVE  /\ PAGE_SIZE \in Nat \ {0} /\ Paging!Pages(t) \in Nat
           /\ PAGE_SIZE * Paging!Pages(t) <= t + PAGE_SIZE - 1
           /\ t + PAGE_SIZE - 1 < PAGE_SIZE * (Paging!Pages(t) + 1)
<1>1. PAGE_SIZE \in Nat \ {0}
  BY ConsoleAssumption DEF Paging!PagingAssumption
<1>2. t + PAGE_SIZE - 1 \in Nat
  BY <1>1
<1>3. \A x \in Nat : /\ x \div PAGE_SIZE \in Nat
                     /\ PAGE_SIZE * (x \div PAGE_SIZE) <= x
                     /\ x < PAGE_SIZE * ((x \div PAGE_SIZE) + 1)
  BY <1>1
<1> QED
  BY <1>1, <1>2, <1>3 DEF Paging!Pages

\* A page that is not the last is full.
LEMMA PageBefore ==
    ASSUME NEW t \in Nat, NEW n \in Nat, n < Paging!Pages(t)
    PROVE  n * PAGE_SIZE < t
<1> DEFINE q == Paging!Pages(t)
<1>1. PAGE_SIZE \in Nat \ {0} /\ q \in Nat /\ PAGE_SIZE * q <= t + PAGE_SIZE - 1
  BY PagesIs
<1> HIDE DEF q
<1>2. n + 1 <= q
  BY <1>1 DEF q
<1>3. PAGE_SIZE * (n + 1) <= PAGE_SIZE * q
  BY <1>1, <1>2, Monotone
<1>4. PAGE_SIZE * (n + 1) = n * PAGE_SIZE + PAGE_SIZE /\ n * PAGE_SIZE \in Nat /\ PAGE_SIZE * q \in Nat
  BY <1>1
<1> QED
  BY <1>1, <1>3, <1>4

\* More jobs have no fewer pages.
LEMMA MorePages ==
    ASSUME NEW t \in Nat, NEW u \in Nat, t <= u
    PROVE  Paging!Pages(t) <= Paging!Pages(u)
<1> DEFINE q == Paging!Pages(t)
           r == Paging!Pages(u)
<1>1. /\ PAGE_SIZE \in Nat \ {0} /\ q \in Nat /\ r \in Nat
      /\ PAGE_SIZE * q <= t + PAGE_SIZE - 1 /\ u + PAGE_SIZE - 1 < PAGE_SIZE * (r + 1)
  BY PagesIs
<1> HIDE DEF q, r
<1>2. SUFFICES ASSUME r + 1 <= q PROVE FALSE
  BY <1>1 DEF q, r
<1>3. PAGE_SIZE * (r + 1) <= PAGE_SIZE * q /\ PAGE_SIZE * q \in Nat /\ PAGE_SIZE * (r + 1) \in Nat
  BY <1>1, <1>2, Monotone
<1> QED
  BY <1>1, <1>3

\* How many jobs a filter matches.
Count(filter) == Cardinality(Paging!Matching(filter))

\* The cardinalities of the paging module, and the pages of a full server.
LEMMA CountIs ==
    /\ \A S : Paging!Cardinality(S) = Cardinality(S)
    /\ IsFiniteSet(Rows) /\ Cardinality(Rows) \in Nat
    /\ Paging!MaxPages = Paging!Pages(Cardinality(Rows)) /\ Paging!MaxPages \in Nat
<1>1. ASSUME NEW S PROVE Paging!Cardinality(S) = Cardinality(S)
  BY DEF Paging!Cardinality, Cardinality
<1>2. IsFiniteSet(Rows)
  BY ConsoleAssumption DEF Paging!PagingAssumption, Paging!IsFiniteSet, IsFiniteSet
<1>3. Cardinality(Rows) \in Nat
  BY <1>2, FS_CardinalityType
<1>4. Paging!MaxPages = Paging!Pages(Cardinality(Rows))
  BY <1>1 DEF Paging!MaxPages
<1> QED
  BY <1>1, <1>2, <1>3, <1>4, PagesIs

\* A filter matches no more jobs than there are places.
LEMMA CountType ==
    ASSUME NEW filter
    PROVE  IsFiniteSet(Paging!Matching(filter)) /\ Count(filter) \in 0..Cardinality(Rows)
<1>1. Paging!Matching(filter) \subseteq Rows
  BY DEF Paging!Matching
<1>2. IsFiniteSet(Paging!Matching(filter)) /\ Cardinality(Paging!Matching(filter)) <= Cardinality(Rows)
  BY <1>1, CountIs, FS_Subset
<1>3. Cardinality(Paging!Matching(filter)) \in Nat
  BY <1>2, FS_CardinalityType
<1> QED
  BY <1>2, <1>3, CountIs DEF Count

\* The answers a server can give.
Answers == [items : Nat, total : 0..Cardinality(Rows), pages : 0..Paging!MaxPages]

\* What a fresh answer d for the filter f and the page n says: as many jobs as there are
\* still, or fewer, and of those some beyond the pages before if it has items.
Sound(d, f, n) ==
    /\ d.pages = Paging!Pages(d.total) /\ d.total <= Count(f)
    /\ d.items # 0 => (n - 1) * PAGE_SIZE < d.total

\* What fresh answers, and the button followed, say of the jobs there are.
AreSound == \A k \in fresh : \A d \in answers[k] : Sound(d, k[1], k[2])
IsReached == reached = "next" => (pageNo - 1) * PAGE_SIZE < Count(statusFilter)

\* The invariant of the pages: what is kept of fresh answers and of the buttons followed
\* is still true of the server.
PagingInv ==
    /\ rows \in [Rows -> Kinds \cup {"none"}]
    /\ statusFilter \in Paging!Filters /\ pageNo \in 1..(Paging!MaxPages + 1)
    /\ answers \in [Paging!Keys -> SUBSET Answers]
    /\ fresh \subseteq Paging!Keys
    /\ AreSound /\ IsReached

\* In the beginning there are no jobs and no answers.
LEMMA PagingInit == ConsoleInit => PagingInv
<1> SUFFICES ASSUME ConsoleInit PROVE PagingInv
  OBVIOUS
<1>1. /\ rows = [i \in Rows |-> "none"] /\ statusFilter = "all" /\ pageNo = 1
      /\ answers = [k \in Paging!Keys |-> {}] /\ fresh = {} /\ reached = "other"
  BY DEF ConsoleInit, Paging!Init
<1>2. 1 \in 1..(Paging!MaxPages + 1) /\ "all" \in Paging!Filters
  BY CountIs DEF Paging!Filters
<1> QED
  BY <1>1, <1>2 DEF PagingInv, AreSound, IsReached

\* A job created takes none away from what a filter matches.
LEMMA MoreMatch ==
    ASSUME PagingInv, NEW i \in Rows, Paging!Create(i), NEW f \in Paging!Filters
    PROVE  Count(f) <= Count(f)'
<1>1. rows[i] = "none"
  BY DEF Paging!Create
<1>2. PICK kind \in Kinds : rows' = [rows EXCEPT ![i] = kind]
  BY DEF Paging!Create, Paging!Change
<1>3. f # "none" /\ "none" # "all"
  BY ConsoleAssumption DEF Paging!PagingAssumption, Paging!Filters
<1>4. Paging!Matching(f) \subseteq Paging!Matching(f)'
  BY <1>1, <1>2, <1>3 DEF Paging!Matching, PagingInv
<1>5. IsFiniteSet(Paging!Matching(f)')
  <2>1. Paging!Matching(f)' \subseteq Rows
    BY DEF Paging!Matching
  <2> QED
    BY <2>1, CountIs, FS_Subset
<1>6. Cardinality(Paging!Matching(f)) <= Cardinality(Paging!Matching(f)')
  BY <1>4, <1>5, FS_Subset
<1> QED
  BY <1>6 DEF Count

\* What the server answers now is sound, and has items if the page is not beyond the end.
LEMMA AnswerIs ==
    ASSUME PagingInv
    PROVE  LET d == Paging!list_jobs(statusFilter, pageNo)
           IN  /\ d \in Answers /\ Sound(d, statusFilter, pageNo) /\ d.total = Count(statusFilter)
               /\ (pageNo - 1) * PAGE_SIZE < Count(statusFilter) => d.items # 0
<1> DEFINE d == Paging!list_jobs(statusFilter, pageNo)
           total == Count(statusFilter)
           offset == (pageNo - 1) * PAGE_SIZE
           items == {k \in 1..total : offset < k /\ k <= offset + PAGE_SIZE}
<1>1. d = [items |-> Cardinality(items), total |-> total, pages |-> Paging!Pages(total)]
  BY CountIs DEF Paging!list_jobs, Count
<1>2. total \in 0..Cardinality(Rows) /\ total \in Nat /\ Cardinality(Rows) \in Nat
  BY CountType, CountIs
<1>3. PAGE_SIZE \in Nat \ {0} /\ Paging!Pages(total) \in Nat
  BY <1>2, PagesIs
<1>4. Paging!Pages(total) \in 0..Paging!MaxPages
  BY <1>2, <1>3, CountIs, MorePages
<1>5. offset \in Nat
  BY <1>3, CountIs DEF PagingInv
<1> HIDE DEF d, total, offset
<1>6. IsFiniteSet(1..total)
  BY <1>2, FS_Interval
<1>7. IsFiniteSet(items)
  BY <1>6, FS_Subset
<1>8. Cardinality(items) \in Nat /\ (Cardinality(items) = 0 <=> items = {})
  BY <1>7, FS_CardinalityType, FS_EmptySet
<1>9. items # {} => offset < total
  BY <1>2, <1>5
<1>10. offset < total => offset + 1 \in items
  BY <1>2, <1>3, <1>5
<1> HIDE DEF items
<1>11. d \in Answers
  BY <1>1, <1>2, <1>4, <1>8 DEF Answers
<1>12. d.items # 0 <=> offset < total
  BY <1>1, <1>8, <1>9, <1>10
<1>13. d.total = total /\ d.pages = Paging!Pages(d.total)
  BY <1>1
<1>14. d.total <= Count(statusFilter)
  BY <1>2, <1>13 DEF total
<1> QED
  BY <1>11, <1>12, <1>13, <1>14 DEF Sound, d, total, offset

\* What the step of a button does.
LEMMA Turned ==
    ASSUME PagingInv, NEW n \in Nat, n > 0, Paging!TurnTo(n),
           n = pageNo - 1 \/ (n = pageNo + 1 /\ pageNo < Paging!Data.pages)
    PROVE  PagingInv'
<1>1. /\ Paging!Loaded /\ Paging!Data.items > 0 /\ pageNo' = n
      /\ reached' = IF Paging!Key \in fresh THEN "next" ELSE "other"
      /\ UNCHANGED <<rows, changes, statusFilter, answers, fresh>>
  BY DEF Paging!TurnTo
<1>2. Paging!Data \in answers[Paging!Key] /\ Paging!Key \in Paging!Keys
      /\ Paging!Key = <<statusFilter, pageNo>>
  BY <1>1 DEF Paging!Loaded, Paging!Data, Paging!Key, Paging!Keys, PagingInv
<1> DEFINE d == Paging!Data
<1>3. d \in Answers
  BY <1>2 DEF PagingInv
<1>4. d.items # 0 /\ d.total \in Nat /\ d.pages \in 0..Paging!MaxPages
  BY <1>1, <1>3, CountIs DEF Answers
<1>5. pageNo \in 1..(Paging!MaxPages + 1) /\ pageNo \in Nat /\ Paging!MaxPages \in Nat
  BY CountIs DEF PagingInv
<1>6. n \in 1..(Paging!MaxPages + 1)
  BY <1>4, <1>5
<1>7. ASSUME Paging!Key \in fresh PROVE (n - 1) * PAGE_SIZE < Count(statusFilter)
  <2>1. Sound(d, statusFilter, pageNo)
    BY <1>2, <1>7 DEF PagingInv, AreSound, IsReached
  <2>2. d.total <= Count(statusFilter) /\ Count(statusFilter) \in Nat
        /\ d.pages = Paging!Pages(d.total)
    BY <2>1, CountType, CountIs DEF Sound
  <2> HIDE DEF d
  <2>3. PAGE_SIZE \in Nat
    BY <1>4, PagesIs
  <2>4. (n - 1) * PAGE_SIZE < d.total /\ (n - 1) * PAGE_SIZE \in Nat
    <3>1. CASE n = pageNo + 1 /\ pageNo < d.pages
      <4>1. pageNo * PAGE_SIZE < d.total
        BY <1>4, <1>5, <2>2, <3>1, PageBefore
      <4>2. n - 1 = pageNo
        BY <1>5, <3>1
      <4> QED
        BY <1>5, <2>3, <4>1, <4>2
    <3>2. CASE n = pageNo - 1
      <4>1. (pageNo - 1) * PAGE_SIZE < d.total
        BY <1>4, <2>1 DEF Sound
      <4>2. pageNo - 1 = n /\ n * PAGE_SIZE = (n - 1) * PAGE_SIZE + PAGE_SIZE
            /\ (n - 1) * PAGE_SIZE \in Nat
        BY <1>5, <2>3, <3>2
      <4> QED
        BY <1>4, <2>3, <4>1, <4>2
    <3> QED
      BY <3>1, <3>2 DEF d
  <2> QED
    BY <1>4, <2>2, <2>4
<1>8. AreSound'
  BY <1>1 DEF PagingInv, AreSound, Sound, Count, Paging!Matching, IsReached
<1>9. IsReached'
  BY <1>1, <1>7 DEF IsReached, Count, Paging!Matching
<1> QED
  BY <1>1, <1>6, <1>8, <1>9 DEF PagingInv

\* What ButtonsLeadSomewhere says of a step.
SomewhereStep == reached' = "next" /\ pageNo' = pageNo /\ answers' # answers => ~Paging!Stranded'

\* Every step keeps the invariant of the pages, and no load of a page reached by a button
\* strands the reader.
LEMMA PagingNext ==
    ASSUME PagingInv, [Paging!Next]_(Paging!vars)
    PROVE  PagingInv' /\ SomewhereStep
<1>1. ASSUME NEW i \in Rows, Paging!Create(i) PROVE PagingInv' /\ SomewhereStep
  <2>1. PICK kind \in Kinds : rows' = [rows EXCEPT ![i] = kind]
    BY <1>1 DEF Paging!Create, Paging!Change
  <2>2. UNCHANGED <<statusFilter, pageNo, answers, fresh, reached>>
    BY <1>1 DEF Paging!Create, Paging!Change
  <2>3. \A f \in Paging!Filters : Count(f) \in Nat /\ Count(f) <= Count(f)' /\ Count(f)' \in Nat
    <3>1. \A f \in Paging!Filters : Count(f) \in Nat
      BY CountType, CountIs
    <3>2. ASSUME NEW f \in Paging!Filters PROVE Count(f) \in Nat => Count(f)' \in Nat
      <4>1. Paging!Matching(f)' \subseteq Rows
        BY DEF Paging!Matching
      <4>2. Cardinality(Paging!Matching(f)') \in Nat
        BY <4>1, CountIs, FS_Subset, FS_CardinalityType
      <4> QED
        BY <4>2 DEF Count
    <3> QED
      BY <1>1, <3>1, <3>2, MoreMatch
  <2>4. AreSound'
    <3>1. SUFFICES ASSUME NEW k \in fresh, NEW d \in answers[k] PROVE Sound(d, k[1], k[2])'
      BY <2>2 DEF AreSound
    <3>2. Sound(d, k[1], k[2]) /\ k[1] \in Paging!Filters /\ d.total \in Nat
      <4>1. k \in Paging!Keys /\ d \in Answers
        BY DEF PagingInv
      <4>2. d.total \in Nat
        BY <4>1, CountIs DEF Answers
      <4> QED
        BY <4>1, <4>2 DEF PagingInv, Paging!Keys, AreSound, IsReached
    <3>3. d.total <= Count(k[1])'
      BY <2>3, <3>2 DEF Sound
    <3> QED
      BY <3>2, <3>3 DEF Sound
  <2>5. IsReached'
    <3>1. SUFFICES ASSUME reached = "next" PROVE (pageNo - 1) * PAGE_SIZE < Count(statusFilter)'
      BY <2>2 DEF IsReached, Count, Paging!Matching
    <3>2. (pageNo - 1) * PAGE_SIZE < Count(statusFilter) /\ statusFilter \in Paging!Filters
      BY <3>1 DEF PagingInv, AreSound, IsReached
    <3>3. (pageNo - 1) * PAGE_SIZE \in Nat
      <4>1. PAGE_SIZE \in Nat /\ pageNo \in Nat \ {0}
        BY ConsoleAssumption, CountIs DEF Paging!PagingAssumption, PagingInv
      <4> QED
        BY <4>1
    <3>4. Count(statusFilter) <= Count(statusFilter)' /\ Count(statusFilter)' \in Nat
          /\ Count(statusFilter) \in Nat
      <4>1. PICK f \in Paging!Filters : f = statusFilter
        BY <3>2
      <4>2. Count(f) <= Count(f)' /\ Count(f)' \in Nat /\ Count(f) \in Nat
        BY <2>3
      <4>3. Count(statusFilter)' = Count(f)' /\ Count(statusFilter) = Count(f)
        BY <2>2, <4>1 DEF Count, Paging!Matching
      <4> QED
        BY <4>2, <4>3
    <3>5. \A a, b, c \in Nat : a < b /\ b <= c => a < c
      OBVIOUS
    <3> QED
      BY <3>2, <3>3, <3>4, <3>5
  <2>6. rows' \in [Rows -> Kinds \cup {"none"}]
    BY <2>1 DEF PagingInv
  <2> QED
    BY <2>2, <2>4, <2>5, <2>6 DEF PagingInv, SomewhereStep
<1>2. ASSUME NEW i \in Rows, Paging!Delete(i) \/ Paging!Move(i)
      PROVE  PagingInv' /\ SomewhereStep
  <2>1. PICK kind \in Kinds \cup {"none"} : rows' = [rows EXCEPT ![i] = kind]
    BY <1>2 DEF Paging!Delete, Paging!Move, Paging!Change
  <2>2. fresh' = {} /\ reached' = "other" /\ UNCHANGED <<statusFilter, pageNo, answers>>
    BY <1>2 DEF Paging!Delete, Paging!Move, Paging!Change
  <2>3. rows' \in [Rows -> Kinds \cup {"none"}]
    BY <2>1 DEF PagingInv
  <2> QED
    BY <2>2, <2>3 DEF PagingInv, SomewhereStep, AreSound, IsReached
<1>3. CASE Paging!Load
  <2> DEFINE d == Paging!list_jobs(statusFilter, pageNo)
             key == <<statusFilter, pageNo>>
  <2>1. /\ answers' = [answers EXCEPT ![key] = {d}] /\ fresh' = fresh \cup {key}
        /\ UNCHANGED <<rows, statusFilter, pageNo, reached>>
    BY <1>3 DEF Paging!Load, Paging!Key
  <2>2. /\ d \in Answers /\ Sound(d, statusFilter, pageNo) /\ d.total = Count(statusFilter)
        /\ (pageNo - 1) * PAGE_SIZE < Count(statusFilter) => d.items # 0
    BY AnswerIs
  <2>3. key \in Paging!Keys
    BY DEF PagingInv, Paging!Keys
  <2> HIDE DEF d
  <2>4. answers' \in [Paging!Keys -> SUBSET Answers] /\ answers'[key] = {d}
    BY <2>1, <2>2, <2>3 DEF PagingInv
  <2>5. AreSound'
    <3>1. SUFFICES ASSUME NEW k \in fresh', NEW a \in answers'[k] PROVE Sound(a, k[1], k[2])
      BY <2>1 DEF AreSound, Sound, Count, Paging!Matching
    <3>2. CASE k = key
      BY <2>2, <2>4, <3>2
    <3>3. CASE k # key
      <4>1. k \in fresh /\ answers'[k] = answers[k]
        BY <2>1, <3>3 DEF PagingInv
      <4> QED
        BY <4>1 DEF PagingInv, AreSound, IsReached
    <3> QED
      BY <3>2, <3>3
  <2>6. IsReached'
    BY <2>1 DEF PagingInv, IsReached, Count, Paging!Matching, AreSound
  <2>7. SomewhereStep
    <3>1. SUFFICES ASSUME reached = "next" PROVE ~Paging!Stranded'
      BY <2>1 DEF SomewhereStep
    <3>2. d.items # 0
      BY <2>2, <3>1 DEF PagingInv, AreSound, IsReached
    <3>3. Paging!Data' = d
      BY <2>1, <2>4 DEF Paging!Data, Paging!Key
    <3> QED
      BY <3>2, <3>3 DEF Paging!Stranded
  <2> QED
    BY <2>1, <2>3, <2>4, <2>5, <2>6, <2>7 DEF PagingInv
<1>4. ASSUME NEW f \in Paging!Filters, Paging!SetFilter(f) PROVE PagingInv' /\ SomewhereStep
  <2>1. /\ statusFilter' = f /\ reached' = "other" /\ UNCHANGED <<rows, pageNo, answers, fresh>>
    BY <1>4 DEF Paging!SetFilter
  <2>2. AreSound'
    BY <2>1 DEF PagingInv, AreSound, Sound, Count, Paging!Matching, IsReached
  <2> QED
    BY <2>1, <2>2 DEF PagingInv, AreSound, SomewhereStep, IsReached
<1>5. CASE Paging!Previous
  <2>1. pageNo \in Nat /\ pageNo > 1 /\ Paging!TurnTo(pageNo - 1)
    BY <1>5, CountIs DEF Paging!Previous, PagingInv
  <2>2. pageNo - 1 \in Nat /\ pageNo - 1 > 0
    BY <2>1
  <2>3. answers' = answers
    BY <2>1 DEF Paging!TurnTo
  <2> QED
    BY <2>1, <2>2, <2>3, Turned DEF SomewhereStep
<1>6. CASE Paging!NextPage
  <2>1. pageNo \in Nat /\ pageNo < Paging!Data.pages /\ Paging!TurnTo(pageNo + 1)
    BY <1>6, CountIs DEF Paging!NextPage, PagingInv
  <2>2. pageNo + 1 \in Nat /\ pageNo + 1 > 0
    BY <2>1
  <2>3. answers' = answers
    BY <2>1 DEF Paging!TurnTo
  <2> QED
    BY <2>1, <2>2, <2>3, Turned DEF SomewhereStep
<1>7. CASE Paging!Reopen
  <2>1. statusFilter' = "all" /\ pageNo' = 1 /\ reached' = "other" /\ rows' = rows
    BY <1>7 DEF Paging!Reopen
  <2>2. "all" \in Paging!Filters /\ 1 \in 1..(Paging!MaxPages + 1)
    BY CountIs DEF Paging!Filters
  <2>3. CASE UNCHANGED <<answers, fresh>>
    <3>1. AreSound'
      BY <2>1, <2>3 DEF PagingInv, AreSound, Sound, Count, Paging!Matching, IsReached
    <3> QED
      BY <2>1, <2>2, <2>3, <3>1 DEF PagingInv, AreSound, SomewhereStep, IsReached
  <2>4. CASE answers' = [k \in Paging!Keys |-> {}] /\ fresh' = {}
    BY <2>1, <2>2, <2>4 DEF PagingInv, SomewhereStep, AreSound, IsReached
  <2> QED
    BY <1>7, <2>3, <2>4 DEF Paging!Reopen
<1>8. CASE UNCHANGED Paging!vars
  <2>1. UNCHANGED <<rows, statusFilter, pageNo, answers, fresh, reached>>
    BY <1>8 DEF Paging!vars
  <2>2. AreSound' /\ IsReached'
    BY <2>1 DEF PagingInv, AreSound, IsReached, Sound, Count, Paging!Matching
  <2> QED
    BY <2>1, <2>2 DEF PagingInv, SomewhereStep
<1> QED
  BY <1>1, <1>2, <1>3, <1>4, <1>5, <1>6, <1>7, <1>8 DEF Paging!Next

\* The buttons of a fresh answer lead to no page that comes out empty while there are jobs.
THEOREM ButtonsAlwaysLeadSomewhere == ConsoleSpec => ButtonsLeadSomewhere
<1>1. PagingInv /\ [Paging!Next]_(Paging!vars) => PagingInv' /\ SomewhereStep
  BY PagingNext
<1>2. ConsoleSpec => [][SomewhereStep]_(Paging!vars)
  BY <1>1, PagingInit, PagingStep, PTL DEF ConsoleSpec
<1> QED
  BY <1>2 DEF ButtonsLeadSomewhere, Paging!ButtonsLeadSomewhere, SomewhereStep

-----------------------------------------------------------------------------
(* The connection of the event page                                        *)

\* A step of the console is one of the connection or leaves it alone.
LEMMA SocketStep == [ConsoleNext]_consoleVars => [Socket!Next]_(Socket!vars)
BY DEF ConsoleNext, consoleVars, socketVars, Socket!vars

\* A page that was left owns no socket, and the one it holds is its own while it is there.
SocketInv ==
    /\ Socket!TypeOK
    /\ page = "left" => \A s \in Sockets : owner[s] = "stale"
    /\ current # Socket!None /\ sock[current] \in {"connecting", "open"} => owner[current] = "live"

\* The slots are positive numbers.
LEMMA SocketsAre ==
    Sockets \subseteq Nat \ {0} /\ Socket!None = 0 /\ MAX_ATTEMPTS \in Nat
BY ConsoleAssumption DEF Socket!SocketAssumption, Socket!None, Socket!Conn!None

\* In the beginning the page is left and has no socket.
LEMMA SocketInit == ConsoleInit => SocketInv
<1> SUFFICES ASSUME ConsoleInit PROVE SocketInv
  OBVIOUS
<1>1. /\ page = "left" /\ status = "disconnected" /\ shown = "disconnected"
      /\ sock = [s \in Sockets |-> "free"]
      /\ owner = [s \in Sockets |-> "stale"]
      /\ attempts = 0 /\ used = 0 /\ current = Socket!None /\ timerRef = Socket!None
      /\ att = [s \in Sockets |-> 0] /\ timer = [s \in Sockets |-> "off"]
  BY DEF ConsoleInit, Socket!Init, Socket!Conn!InitConnection
<1> QED
  BY <1>1 DEF SocketInv, Socket!TypeOK

\* What connect makes, of the sockets and timers it is called with.
LEMMA NewSocketIs ==
    ASSUME NEW a \in Nat, NEW socks, NEW timers, Socket!NewSocket(a, socks, timers)
    PROVE  \E s \in Sockets : /\ socks[s] = "free" /\ timers[s] = "off"
                              /\ sock' = [socks EXCEPT ![s] = "connecting"]
                              /\ att' = [att EXCEPT ![s] = a]
                              /\ owner' = [owner EXCEPT ![s] = "live"]
                              /\ current' = s /\ timer' = timers /\ status' = "connecting"
<1> DEFINE F == Socket!Free(socks, timers)
           s == CHOOSE x \in F : \A y \in F : x <= y
<1>1. F \subseteq Sockets /\ F # {} /\ F \in SUBSET Nat
  BY SocketsAre DEF Socket!NewSocket, Socket!Free
<1>2. \E x \in F : \A y \in F : x <= y
  <2> HIDE DEF F
  <2> QED
    BY <1>1, LeastOf
<1>3. s \in F
  BY <1>2
<1>4. /\ sock' = [socks EXCEPT ![s] = "connecting"] /\ att' = [att EXCEPT ![s] = a]
      /\ owner' = [owner EXCEPT ![s] = "live"] /\ current' = s
      /\ timer' = timers /\ status' = "connecting"
  BY DEF Socket!NewSocket
<1> HIDE DEF s
<1>5. s \in Sockets /\ socks[s] = "free" /\ timers[s] = "off"
  BY <1>3 DEF Socket!Free
<1> QED
  BY <1>4, <1>5

\* What a cleanup leaves of the sockets and of the timers.
LEMMA Cleared ==
    ASSUME SocketInv
    PROVE  /\ Socket!CloseCurrent \in [Sockets -> {"free", "connecting", "open", "closing"}]
           /\ \A s \in Sockets : /\ Socket!CloseCurrent[s] = "free" <=> sock[s] = "free"
                                 /\ Socket!CloseCurrent[s] \in {sock[s], "closing"}
           /\ current # Socket!None => Socket!CloseCurrent[current] \in {"free", "closing"}
           /\ Socket!ClearReconnectTimeout \in [Sockets -> {"off", "armed"}]
           /\ \A s \in Sockets : Socket!ClearReconnectTimeout[s] \in {timer[s], "off"}
BY DEF SocketInv, Socket!TypeOK, Socket!CloseCurrent, Socket!ClearReconnectTimeout

\* Closing the socket that is held is closing one the abstract connection may close.
LEMMA ClosesOne ==
    ASSUME SocketInv
    PROVE  \E C \in SUBSET Socket!Conn!Closable : Socket!CloseCurrent = Socket!Conn!Closing(C)
<1>1. CASE current # Socket!None /\ sock[current] \in {"connecting", "open"}
  <2>1. current \in Sockets /\ sock \in [Sockets -> {"free", "connecting", "open", "closing"}]
    BY <1>1 DEF SocketInv, Socket!TypeOK
  <2>2. owner[current] = "live" /\ sock[current] # "free"
    BY <1>1 DEF SocketInv
  <2>3. {current} \in SUBSET Socket!Conn!Closable
    BY <1>1, <2>1, <2>2 DEF Socket!Conn!Closable
  <2>4. Socket!CloseCurrent = Socket!Conn!Closing({current})
    BY <1>1, <2>1 DEF Socket!CloseCurrent, Socket!Conn!Closing
  <2> QED
    BY <2>3, <2>4
<1>2. CASE ~(current # Socket!None /\ sock[current] \in {"connecting", "open"})
  <2>1. sock \in [Sockets -> {"free", "connecting", "open", "closing"}]
    BY DEF SocketInv, Socket!TypeOK
  <2>2. Socket!CloseCurrent = Socket!Conn!Closing({})
    BY <1>2, <2>1 DEF Socket!CloseCurrent, Socket!Conn!Closing
  <2> QED
    BY <2>2
<1> QED
  BY <1>1, <1>2

\* Whose a socket is as the abstract connection sees it.
Whose == [s \in Sockets |-> IF sock[s] = "free" THEN "stale" ELSE owner[s]]

\* A call of connect is a step of the abstract connection.
LEMMA Connects ==
    ASSUME SocketInv, page = "open", page' = "open", shown' \in {shown, status},
           NEW C \in SUBSET Socket!Conn!Closable, NEW a \in Nat, NEW timers,
           Socket!NewSocket(a, Socket!Conn!Closing(C), timers)
    PROVE  Socket!Conn!NextConnection
<1> DEFINE socks == Socket!Conn!Closing(C)
<1>1. PICK s \in Sockets : /\ socks[s] = "free" /\ sock' = [socks EXCEPT ![s] = "connecting"]
                           /\ owner' = [owner EXCEPT ![s] = "live"] /\ status' = "connecting"
  <2> HIDE DEF socks
  <2> QED
    BY NewSocketIs DEF socks
<1>2. /\ sock \in [Sockets -> {"free", "connecting", "open", "closing"}]
      /\ owner \in [Sockets -> {"live", "stale"}]
  BY DEF SocketInv, Socket!TypeOK
<1>3. sock[s] = "free" /\ \A x \in Sockets : socks[x] = "free" <=> sock[x] = "free"
  BY <1>1, <1>2 DEF Socket!Conn!Closing, Socket!Conn!Closable
<1>4. socks \in [Sockets -> {"free", "connecting", "open", "closing"}]
  BY <1>2 DEF Socket!Conn!Closing
<1> HIDE DEF socks
<1>5. \A x \in Sockets : sock'[x] = IF x = s THEN "connecting" ELSE socks[x]
  BY <1>1, <1>4
<1>6. \A x \in Sockets : owner'[x] = IF x = s THEN "live" ELSE owner[x]
  BY <1>1, <1>2
<1>7. Whose' = [Whose EXCEPT ![s] = "live"]
  BY <1>3, <1>5, <1>6 DEF Whose
<1>8. Socket!Conn!Connect(s)
  BY <1>1, <1>3, <1>7 DEF Socket!Conn!Connect, Whose, socks
<1> QED
  BY <1>8 DEF Socket!Conn!NextConnection

\* Each step of the hook keeps the invariant.
LEMMA SocketNext ==
    ASSUME SocketInv, [Socket!Next]_(Socket!vars)
    PROVE  SocketInv'
<1> USE SocketsAre
<1>1. CASE Socket!Mount
  <2>1. Socket!NewSocket(0, sock, timer) /\ page = "left" /\ page' = "open"
        /\ UNCHANGED <<shown, attempts, used, timerRef>>
    BY <1>1 DEF Socket!Mount
  <2>2. PICK s \in Sockets : /\ sock[s] = "free" /\ timer[s] = "off"
                             /\ sock' = [sock EXCEPT ![s] = "connecting"]
                             /\ att' = [att EXCEPT ![s] = 0]
                             /\ owner' = [owner EXCEPT ![s] = "live"]
                             /\ current' = s /\ timer' = timer /\ status' = "connecting"
    BY <2>1, NewSocketIs
  <2> QED
    BY <2>1, <2>2 DEF SocketInv, Socket!TypeOK
<1>2. CASE Socket!Unmount
  BY <1>2, Cleared DEF Socket!Unmount, SocketInv, Socket!TypeOK
<1>3. CASE Socket!CommitStatus
  BY <1>3 DEF Socket!CommitStatus, SocketInv, Socket!TypeOK
<1>4. CASE Socket!CommitReconnect
  <2>1. Socket!NewSocket(attempts, Socket!CloseCurrent, Socket!ClearReconnectTimeout)
        /\ page = "open" /\ page' = "open" /\ shown' = status /\ used' = attempts
        /\ timerRef' = Socket!None /\ attempts' = attempts
    BY <1>4 DEF Socket!CommitReconnect
  <2> DEFINE socks == Socket!CloseCurrent
             timers == Socket!ClearReconnectTimeout
  <2>2. PICK s \in Sockets : /\ socks[s] = "free" /\ timers[s] = "off"
                             /\ sock' = [socks EXCEPT ![s] = "connecting"]
                             /\ att' = [att EXCEPT ![s] = attempts]
                             /\ owner' = [owner EXCEPT ![s] = "live"]
                             /\ current' = s /\ timer' = timers /\ status' = "connecting"
    BY <2>1, NewSocketIs DEF SocketInv, Socket!TypeOK
  <2>3. /\ socks \in [Sockets -> {"free", "connecting", "open", "closing"}]
        /\ timers \in [Sockets -> {"off", "armed"}]
        /\ \A x \in Sockets : (socks[x] = "free" <=> sock[x] = "free") /\ timers[x] \in {timer[x], "off"}
    BY Cleared
  <2> HIDE DEF socks, timers
  <2> QED
    BY <2>1, <2>2, <2>3 DEF SocketInv, Socket!TypeOK
<1>5. CASE Socket!ClickReconnect
  <2>1. Socket!NewSocket(used, sock, timer) /\ page = "open"
        /\ UNCHANGED <<page, shown, attempts, used, timerRef>>
    BY <1>5 DEF Socket!ClickReconnect
  <2>2. PICK s \in Sockets : /\ sock[s] = "free" /\ timer[s] = "off"
                             /\ sock' = [sock EXCEPT ![s] = "connecting"]
                             /\ att' = [att EXCEPT ![s] = used]
                             /\ owner' = [owner EXCEPT ![s] = "live"]
                             /\ current' = s /\ timer' = timer /\ status' = "connecting"
    BY <2>1, NewSocketIs DEF SocketInv, Socket!TypeOK
  <2> QED
    BY <2>1, <2>2 DEF SocketInv, Socket!TypeOK
<1>6. ASSUME NEW t \in Sockets, Socket!Fire(t) PROVE SocketInv'
  <2> DEFINE idle == [timer EXCEPT ![t] = "off"]
  <2>1. timer[t] = "armed" /\ UNCHANGED <<page, shown, used>> /\ timerRef' \in {timerRef, Socket!None}
    BY <1>6 DEF Socket!Fire
  <2>2. idle \in [Sockets -> {"off", "armed"}] /\ \A x \in Sockets : idle[x] \in {timer[x], "off"}
    BY DEF SocketInv, Socket!TypeOK
  <2>3. CASE /\ owner[t] = "live" /\ attempts' = attempts + 1
             /\ Socket!NewSocket(att[t], sock, idle)
    <3>1. att[t] \in Nat /\ page = "open"
      BY <2>3 DEF SocketInv, Socket!TypeOK
    <3> HIDE DEF idle
    <3>2. PICK s \in Sockets : /\ sock[s] = "free" /\ idle[s] = "off"
                               /\ sock' = [sock EXCEPT ![s] = "connecting"]
                               /\ att' = [att EXCEPT ![s] = att[t]]
                               /\ owner' = [owner EXCEPT ![s] = "live"]
                               /\ current' = s /\ timer' = idle /\ status' = "connecting"
      BY <2>3, <3>1, NewSocketIs
    <3> QED
      BY <2>1, <2>2, <2>3, <3>1, <3>2 DEF SocketInv, Socket!TypeOK
  <2>4. CASE /\ attempts' \in {attempts, attempts + 1} /\ timer' = idle
             /\ UNCHANGED <<status, sock, owner, current, att>>
    <3> HIDE DEF idle
    <3> QED
      BY <2>1, <2>2, <2>4 DEF SocketInv, Socket!TypeOK
  <2> QED
    BY <1>6, <2>3, <2>4 DEF Socket!Fire
<1>7. ASSUME NEW s \in Sockets, Socket!Opened(s) PROVE SocketInv'
  BY <1>7 DEF Socket!Opened, SocketInv, Socket!TypeOK
<1>8. ASSUME NEW s \in Sockets, Socket!Closed(s) PROVE SocketInv'
  <2>1. sock[s] = "closing" /\ sock' = [sock EXCEPT ![s] = "free"]
        /\ status' \in {status, "disconnected"}
        /\ UNCHANGED <<page, shown, attempts, used, current>>
    BY <1>8 DEF Socket!Closed
  <2>2. CASE /\ att[s] < MAX_ATTEMPTS
             /\ timer' = [timer EXCEPT ![s] = "armed"] /\ timerRef' = s /\ UNCHANGED <<att, owner>>
    BY <2>1, <2>2 DEF SocketInv, Socket!TypeOK
  <2>3. CASE /\ att' = [att EXCEPT ![s] = 0] /\ owner' = [owner EXCEPT ![s] = "stale"]
             /\ UNCHANGED <<timer, timerRef>>
    BY <2>1, <2>3 DEF SocketInv, Socket!TypeOK
  <2> QED
    BY <1>8, <2>2, <2>3 DEF Socket!Closed
<1>9. ASSUME NEW s \in Sockets, Socket!Lost(s) PROVE SocketInv'
  BY <1>9 DEF Socket!Lost, SocketInv, Socket!TypeOK
<1>10. CASE UNCHANGED Socket!vars
  BY <1>10 DEF Socket!vars, SocketInv, Socket!TypeOK
<1> QED
  BY <1>1, <1>2, <1>3, <1>4, <1>5, <1>6, <1>7, <1>8, <1>9, <1>10 DEF Socket!Next

\* Each step of the hook is one of the abstract connection, or none.
LEMMA SocketRefines ==
    ASSUME SocketInv, [Socket!Next]_(Socket!vars)
    PROVE  Socket!Conn!NextConnection \/ UNCHANGED Socket!Conn!connVars
<1> USE SocketsAre
<1>0. /\ sock \in [Sockets -> {"free", "connecting", "open", "closing"}]
      /\ owner \in [Sockets -> {"live", "stale"}] /\ attempts \in Nat /\ used \in Nat
      /\ att \in [Sockets -> Nat]
  BY DEF SocketInv, Socket!TypeOK
<1>1. {} \in SUBSET Socket!Conn!Closable /\ Socket!Conn!Closing({}) = sock
  BY <1>0 DEF Socket!Conn!Closing
<1>2. CASE Socket!Mount
  <2>1. Socket!NewSocket(0, sock, timer) /\ page = "left" /\ page' = "open" /\ shown' = shown
    BY <1>2 DEF Socket!Mount
  <2>2. PICK s \in Sockets : /\ sock[s] = "free" /\ sock' = [sock EXCEPT ![s] = "connecting"]
                             /\ owner' = [owner EXCEPT ![s] = "live"] /\ status' = "connecting"
    BY <2>1, NewSocketIs
  <2>3. Whose' = [Whose EXCEPT ![s] = "live"]
    BY <1>0, <2>2 DEF Whose
  <2>4. Socket!Conn!Mount(s)
    BY <2>1, <2>2, <2>3 DEF Socket!Conn!Mount, Whose
  <2> QED
    BY <2>4 DEF Socket!Conn!NextConnection
<1>3. CASE Socket!Unmount
  <2>1. PICK C \in SUBSET Socket!Conn!Closable : Socket!CloseCurrent = Socket!Conn!Closing(C)
    BY ClosesOne
  <2>2. /\ page = "open" /\ page' = "left" /\ sock' = Socket!Conn!Closing(C)
        /\ owner' = [s \in Sockets |-> "stale"]
        /\ status' = "disconnected" /\ shown' = "disconnected"
    BY <1>3, <2>1 DEF Socket!Unmount
  <2>3. Whose' = [s \in Sockets |-> "stale"]
    BY <2>2 DEF Whose
  <2>4. Socket!Conn!Unmount
    BY <2>2, <2>3 DEF Socket!Conn!Unmount, Whose
  <2> QED
    BY <2>4 DEF Socket!Conn!NextConnection
<1>4. CASE Socket!CommitStatus
  <2>1. Socket!Conn!Commit
    BY <1>4 DEF Socket!CommitStatus, Socket!Conn!Commit
  <2> QED
    BY <2>1 DEF Socket!Conn!NextConnection
<1>5. CASE Socket!CommitReconnect
  <2>1. PICK C \in SUBSET Socket!Conn!Closable : Socket!CloseCurrent = Socket!Conn!Closing(C)
    BY ClosesOne
  <2>2. /\ page = "open" /\ page' = "open" /\ shown' = status
        /\ Socket!NewSocket(attempts, Socket!Conn!Closing(C), Socket!ClearReconnectTimeout)
    BY <1>5, <2>1 DEF Socket!CommitReconnect
  <2> QED
    BY <1>0, <2>2, Connects
<1>6. CASE Socket!ClickReconnect
  <2>1. /\ page = "open" /\ page' = "open" /\ shown' = shown
        /\ Socket!NewSocket(used, Socket!Conn!Closing({}), timer)
    BY <1>1, <1>6 DEF Socket!ClickReconnect
  <2> QED
    BY <1>0, <1>1, <2>1, Connects
<1>7. ASSUME NEW t \in Sockets, Socket!Fire(t)
      PROVE  Socket!Conn!NextConnection \/ UNCHANGED Socket!Conn!connVars
  <2> DEFINE idle == [timer EXCEPT ![t] = "off"]
  <2>1. UNCHANGED <<page, shown>>
    BY <1>7 DEF Socket!Fire
  <2>2. CASE owner[t] = "live" /\ Socket!NewSocket(att[t], sock, idle)
    <3>1. page = "open" /\ page' = "open"
      BY <2>1, <2>2 DEF SocketInv, Socket!TypeOK
    <3>2. Socket!NewSocket(att[t], Socket!Conn!Closing({}), idle)
      BY <1>1, <2>2
    <3> HIDE DEF idle
    <3> QED
      BY <1>0, <1>1, <2>1, <3>1, <3>2, Connects
  <2>3. CASE UNCHANGED <<status, sock, owner>>
    BY <2>1, <2>3 DEF Socket!Conn!connVars
  <2> QED
    BY <1>7, <2>2, <2>3 DEF Socket!Fire
<1>8. ASSUME NEW s \in Sockets, Socket!Opened(s) PROVE Socket!Conn!NextConnection
  <2>1. /\ sock[s] = "connecting" /\ sock' = [sock EXCEPT ![s] = "open"]
        /\ status' = IF owner[s] = "live" THEN "connected" ELSE status
        /\ UNCHANGED <<page, shown, owner>>
    BY <1>8 DEF Socket!Opened
  <2>2. Whose' = Whose /\ Whose[s] = owner[s]
    BY <1>0, <2>1 DEF Whose
  <2>3. Socket!Conn!Opened(s)
    BY <2>1, <2>2 DEF Socket!Conn!Opened, Whose
  <2> QED
    BY <2>3 DEF Socket!Conn!NextConnection
<1>9. ASSUME NEW s \in Sockets, Socket!Closed(s) PROVE Socket!Conn!NextConnection
  <2>1. /\ sock[s] = "closing" /\ sock' = [sock EXCEPT ![s] = "free"]
        /\ status' = IF owner[s] = "live" THEN "disconnected" ELSE status
        /\ owner' = owner \/ owner' = [owner EXCEPT ![s] = "stale"]
        /\ UNCHANGED <<page, shown>>
    BY <1>9 DEF Socket!Closed
  <2>2. Whose' = [Whose EXCEPT ![s] = "stale"] /\ Whose[s] = owner[s]
    BY <1>0, <2>1 DEF Whose
  <2>3. Socket!Conn!Closed(s)
    BY <2>1, <2>2 DEF Socket!Conn!Closed, Whose
  <2> QED
    BY <2>3 DEF Socket!Conn!NextConnection
<1>10. ASSUME NEW s \in Sockets, Socket!Lost(s) PROVE Socket!Conn!NextConnection
  <2>1. /\ sock[s] \in {"connecting", "open"} /\ sock' = [sock EXCEPT ![s] = "closing"]
        /\ UNCHANGED <<page, status, shown, owner>>
    BY <1>10 DEF Socket!Lost
  <2>2. Whose' = Whose
    BY <1>0, <2>1 DEF Whose
  <2>3. Socket!Conn!Lost(s)
    BY <2>1, <2>2 DEF Socket!Conn!Lost, Whose
  <2> QED
    BY <2>3 DEF Socket!Conn!NextConnection
<1>11. CASE UNCHANGED Socket!vars
  BY <1>11 DEF Socket!vars, Socket!Conn!connVars
<1> QED
  BY <1>2, <1>3, <1>4, <1>5, <1>6, <1>7, <1>8, <1>9, <1>10, <1>11 DEF Socket!Next

\* The hook begins as the abstract connection does.
LEMMA SocketStarts == ConsoleInit => Socket!Conn!InitConnection
BY DEF ConsoleInit, Socket!Init

\* The hook with its attempts, timers and stale connects is a policy of the abstract
\* connection: whatever it does, that allows.
THEOREM ConnectionImplemented == ConsoleSpec => ImplementsConnection
<1>1. SocketInv /\ [Socket!Next]_(Socket!vars) =>
        SocketInv' /\ [Socket!Conn!NextConnection]_(Socket!Conn!connVars)
  BY SocketNext, SocketRefines
<1>2. ConsoleSpec => [][Socket!Conn!NextConnection]_(Socket!Conn!connVars)
  BY <1>1, SocketInit, SocketStep, PTL DEF ConsoleSpec
<1>3. ConsoleSpec => Socket!Conn!InitConnection
  BY SocketStarts DEF ConsoleSpec
<1> QED
  BY <1>2, <1>3 DEF ImplementsConnection, Socket!ImplementsConnection, Socket!Conn!ConnectionSpec

\* The theorems about the abstract connection, for the one behind the hook.
Abstract == INSTANCE Connection_proofs WITH owner <- Whose

\* The connection that is refined is the one the theorems are about.
LEMMA SameActions ==
    /\ Socket!Conn!InitConnection => Abstract!InitConnection
    /\ Socket!Conn!connVars = Abstract!connVars
    /\ Socket!Conn!NextConnection => Abstract!NextConnection
    /\ Abstract!ShownConnected => Socket!Conn!ShownConnected
<1> USE DEF Whose
<1>1. Socket!Conn!InitConnection => Abstract!InitConnection
  BY DEF Socket!Conn!InitConnection, Abstract!InitConnection
<1>2. Socket!Conn!connVars = Abstract!connVars
  BY DEF Socket!Conn!connVars, Abstract!connVars
<1>3. Socket!Conn!NextConnection => Abstract!NextConnection
  <2>1. Socket!Conn!Closable = Abstract!Closable
    BY DEF Socket!Conn!Closable, Abstract!Closable
  <2>2. \A C : Socket!Conn!Closing(C) = Abstract!Closing(C)
    BY DEF Socket!Conn!Closing, Abstract!Closing
  <2> QED
    BY <2>1, <2>2, Zenon
       DEF Socket!Conn!NextConnection, Socket!Conn!Mount, Socket!Conn!Unmount, Socket!Conn!Commit,
           Socket!Conn!Connect, Socket!Conn!Opened, Socket!Conn!Lost, Socket!Conn!Closed,
           Abstract!NextConnection, Abstract!Mount, Abstract!Unmount, Abstract!Commit,
           Abstract!Connect, Abstract!Opened, Abstract!Lost, Abstract!Closed
<1>4. Abstract!ShownConnected => Socket!Conn!ShownConnected
  BY DEF Abstract!ShownConnected, Socket!Conn!ShownConnected
<1> QED
  BY <1>1, <1>2, <1>3, <1>4

\* The behaviours of the console are behaviours of that connection.
LEMMA HookIsAbstract == ConsoleSpec => Abstract!ConnectionSpec
<1>1. ConsoleSpec =>
        Socket!Conn!InitConnection /\ [][Socket!Conn!NextConnection]_(Socket!Conn!connVars)
  BY ConnectionImplemented
     DEF ImplementsConnection, Socket!ImplementsConnection, Socket!Conn!ConnectionSpec
<1>2. [Socket!Conn!NextConnection]_(Socket!Conn!connVars) =>
        [Abstract!NextConnection]_(Abstract!connVars)
  BY SameActions DEF Socket!Conn!connVars, Abstract!connVars, Whose
<1> QED
  BY <1>1, <1>2, SameActions, PTL DEF Abstract!ConnectionSpec

\* What the theorems assume of the sockets.
LEMMA SocketsSuffice == Sockets \subseteq Nat \ {Abstract!None} /\ Abstract!IsFiniteSet(Sockets)
  BY ConsoleAssumption
     DEF Socket!SocketAssumption, Socket!IsFiniteSet, Abstract!IsFiniteSet, Abstract!None

\* So the page of the hook, too, shows no connection that it has lost.
THEOREM HookShowsConnection == ConsoleSpec => []Socket!Conn!ShownConnected
<1>1. Abstract!ConnectionSpec => []Abstract!ShownConnected
  BY SocketsSuffice, Abstract!ConnectionIsShown, PTL
<1>2. Abstract!ShownConnected => Socket!Conn!ShownConnected
  BY SameActions
<1> QED
  BY <1>1, <1>2, HookIsAbstract, PTL

\* Nor does a page that was left open a socket, whatever timers it leaves behind.
THEOREM HookLeftQuiet == ConsoleSpec => Socket!Conn!LeftQuiet
<1> DEFINE Quiet == page = "left" /\ page' = "left" =>
                      \A s \in Sockets : sock'[s] = "connecting" => sock[s] = "connecting"
<1>1. Abstract!ConnectionSpec => Abstract!LeftQuiet
  BY SocketsSuffice, Abstract!LeftIsQuiet, PTL
<1>2. Abstract!LeftQuiet => [][Quiet]_(Abstract!connVars)
  BY DEF Abstract!LeftQuiet
<1>3. [Quiet]_(Abstract!connVars) => [Quiet]_(Socket!Conn!connVars)
  BY DEF Socket!Conn!connVars, Abstract!connVars, Whose
<1>4. ConsoleSpec => [][Quiet]_(Socket!Conn!connVars)
  BY <1>1, <1>2, <1>3, HookIsAbstract, PTL
<1> QED
  BY <1>4 DEF Socket!Conn!LeftQuiet

-----------------------------------------------------------------------------
(* The rate limiter and the types                                          *)

\* A step of the console is one of the limiter or leaves it alone.
LEMMA LimitStep == [ConsoleNext]_consoleVars => [Next]_vars
BY DEF ConsoleNext, consoleVars

\* The limiter begins as it does on its own.
LEMMA LimitInit == ConsoleInit => Init
BY DEF ConsoleInit

\* The limiter keeps its bound in front of the console too.
THEOREM BoundedAlways == ConsoleSpec => []RateBound
<1>1. ConsoleSpec => Spec
  BY LimitInit, LimitStep, PTL DEF ConsoleSpec, Spec
<1> QED
  BY <1>1, Bounded, PTL

\* The type invariant of the numbers follows from theirs.
LEMMA NumbersType == NumbersInv => Numbers!TypeOK
BY DEF NumbersInv, Numbers!TypeOK, ExportedOK, Points, Refs

\* The type invariants of all parts.
THEOREM TypesAlwaysOK == ConsoleSpec => []TypesOK
<1>1. ConsoleSpec => Spec
  BY LimitInit, LimitStep, PTL DEF ConsoleSpec, Spec
<1>2. ConsoleSpec => []TypeOK
  BY <1>1, TypeCorrect, PTL
<1>3. ConsoleSpec => []SocketInv
  BY SocketInit, SocketStep, SocketNext, PTL DEF ConsoleSpec
<1>4. ConsoleSpec => []List!TypeOK
  BY ListInit, ListStep, ListType, PTL DEF ConsoleSpec
<1>5. ConsoleSpec => [](RequestsOK /\ JobPages!TypeOK)
  <2>1. RequestsOK /\ [JobPages!Next]_(JobPages!vars) => RequestsOK'
    BY RequestsNext
  <2> QED
    BY <2>1, JobsInit, JobTypeInit, JobStep, JobType, PTL DEF ConsoleSpec
<1>6. ConsoleSpec => []Login!TypeOK
  BY SessionInit, SessionStep, SessionType, PTL DEF ConsoleSpec
<1>7. ConsoleSpec => []NumbersInv
  <2>1. NumbersInv /\ [Numbers!Next]_(Numbers!vars) => NumbersInv'
    BY NumbersNext
  <2> QED
    BY <2>1, NumbersInit, NumberStep, PTL DEF ConsoleSpec
<1>8. TypeOK /\ SocketInv /\ List!TypeOK /\ JobPages!TypeOK /\ Login!TypeOK /\ NumbersInv => TypesOK
  BY NumbersType DEF TypesOK, SocketInv
<1> QED
  BY <1>2, <1>3, <1>4, <1>5, <1>6, <1>7, <1>8, PTL
=============================================================================
