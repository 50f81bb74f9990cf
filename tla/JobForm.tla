-------------------------------- MODULE JobForm --------------------------------
(***************************************************************************)
(* The form that creates a replay job: its fields, its quick ranges, its   *)
(* schema and the request, and what the server makes of that.              *)
(*                                                                         *)
(* A field holds a local time without its offset.  The local clock changes *)
(* once, at ChangeAt, by change: -1 repeats an hour, 1 leaves one out.     *)
(* Speeds are counted in tenths.                                           *)
(***************************************************************************)
EXTENDS Integers, FiniteSets

CONSTANTS ChangeAt, Changes,
          Ranges,         \* hours of the quick ranges (1, 6, 24, 168)
          Speeds,         \* speeds the user picks or types, in tenths
          MaxHours, MaxSent       \* bounds: the clock, submissions

FormAssumption ==
    /\ {ChangeAt, MaxHours} \subseteq Nat /\ Ranges \subseteq Nat
    /\ Changes \subseteq Int /\ \A c \in Changes : ChangeAt + c >= 0

NoTime == -1

VARIABLES
    hour,           \* the clock, in UTC
    change,         \* what becomes of the local clock
    start_time, end_time, speed_factor,     \* the values of the form
    button,         \* "enabled", or "disabled" once isPending is rendered
    requests,       \* requests under way
    sent,           \* submissions so far
    \* history
    quick           \* start and end of the quick range in the fields, as a set of one

vars == <<hour, change, start_time, end_time, speed_factor, button, requests, sent, quick>>
fields == <<start_time, end_time, speed_factor, quick>>

\* date-fns' format of a moment, and new Date() of a text without offset: the
\* first of the two moments an hour that is repeated stands for, and what the
\* clock shows with the old offset for one that is left out.
format(t) == IF t < ChangeAt THEN t ELSE t + change
Parse(l) == IF l < ChangeAt \/ l < ChangeAt + change THEN l ELSE l - change

Texts == 0..(MaxHours + 1)

Init ==
    /\ hour = 0 /\ change \in Changes
    /\ start_time = NoTime /\ end_time = NoTime /\ speed_factor = 10
    /\ button = "enabled" /\ requests = {} /\ sent = 0 /\ quick = {}

Tick ==
    /\ hour < MaxHours
    /\ hour' = hour + 1
    /\ UNCHANGED <<change, fields, button, requests, sent>>

\* Mutant: the hours are taken from the local time.
setLocalRange(hours) ==
    /\ start_time' = format(hour) - hours /\ end_time' = format(hour)
    /\ start_time' >= 0
    /\ quick' = {[from |-> hour - hours, to |-> hour]}
    /\ UNCHANGED <<hour, change, speed_factor, button, requests, sent>>

setTimeRange(hours) ==
    /\ hour >= hours
    /\ start_time' = format(hour - hours) /\ end_time' = format(hour)
    /\ quick' = {[from |-> hour - hours, to |-> hour]}
    /\ UNCHANGED <<hour, change, speed_factor, button, requests, sent>>

EnterTimes ==
    /\ \/ start_time' \in Texts /\ UNCHANGED end_time
       \/ end_time' \in Texts /\ UNCHANGED start_time
    /\ quick' = {}
    /\ UNCHANGED <<hour, change, speed_factor, button, requests, sent>>

\* A preset, or a number typed: one that does not parse, or is zero, becomes 1.
EnterSpeed(speed) ==
    /\ speed_factor' = IF speed = 0 THEN 10 ELSE speed
    /\ UNCHANGED <<hour, change, start_time, end_time, quick, button, requests, sent>>

Reset ==
    /\ start_time' = NoTime /\ end_time' = NoTime /\ speed_factor' = 10 /\ quick' = {}
    /\ UNCHANGED <<hour, change, button, requests, sent>>

jobCreateSchema ==
    /\ start_time # NoTime /\ end_time # NoTime
    /\ Parse(end_time) > Parse(start_time)
    /\ 1 <= speed_factor /\ speed_factor <= 1000

\* A second submission fits in before the pending one is rendered.
Submit ==
    /\ button = "enabled" /\ jobCreateSchema /\ sent < MaxSent
    /\ sent' = sent + 1
    /\ requests' = requests \cup
           {[from |-> Parse(start_time), to |-> Parse(end_time), speed |-> speed_factor,
             quick |-> quick]}
    /\ UNCHANGED <<hour, change, fields, button>>

Render ==
    /\ button' = IF requests = {} THEN "enabled" ELSE "disabled"
    /\ UNCHANGED <<hour, change, fields, requests, sent>>

\* ReplayJobCreate
Valid(r) == r.to > r.from /\ 1 <= r.speed /\ r.speed <= 1000

\* The answer leads to the page of the job and leaves the form, or to a message;
\* it may be lost.
Handle(r) ==
    /\ Valid(r)
    /\ requests' = {} /\ button' = "enabled"
    /\ start_time' = NoTime /\ end_time' = NoTime /\ speed_factor' = 10 /\ quick' = {}
    /\ UNCHANGED <<hour, change, sent>>
Fails(r) ==
    /\ requests' = requests \ {r}
    /\ UNCHANGED <<hour, change, fields, button, sent>>

Next ==
    \/ Tick \/ EnterTimes \/ Reset \/ Submit \/ Render
    \/ \E hours \in Ranges : setTimeRange(hours)
    \/ \E speed \in Speeds : EnterSpeed(speed)
    \/ \E r \in requests : Handle(r) \/ Fails(r)

Spec == Init /\ [][Next]_vars

-----------------------------------------------------------------------------
(* A quick range asks for the hours it names, across a change of the clock *)
(* too, unless it begins or ends in an hour that is repeated, whose text   *)
(* stands for two moments: then the range is off by that hour, or refused. *)
Repeated(t) == \E x \in 0..MaxHours : x # t /\ format(x) = format(t)
QuickRangeExact ==
    \A r \in requests : \A q \in r.quick :
        \/ r.from = q.from /\ r.to = q.to
        \/ Repeated(q.from) \/ Repeated(q.to)
=============================================================================
