------------------------------ MODULE ShowLog -------------------------------
(***************************************************************************)
(* /showad of the SSP: counts the slots loaded, the shows and the blanks   *)
(* of the day.  Every answer of the SSP carries the id of an impression,   *)
(* whose Redis key lives for 30 seconds; a request is counted when it      *)
(* finds the key, which it deletes.  The browser may send a GET request    *)
(* again when the connection breaks; a lost request is one that is never   *)
(* worked on.  All views are of one user and one page and so use the same  *)
(* key impfreq_<user>_<page>.                                              *)
(***************************************************************************)
EXTENDS Naturals, FiniteSets

CONSTANTS
  Views,        \* page views: one impression each
  OneAtATime,   \* TRUE: no two requests of a view are worked on at a time
  Copies        \* bound: a request is sent this many times at most

VARIABLES
  impKeys,    \* the views whose impression key is in Redis
  impfreq,    \* the key of the user and the page is in Redis
  requests,   \* the requests of the browsers
  counts      \* history: the views counted, by showType, for each request

logVars == <<impKeys, impfreq, requests, counts>>

(* A request: its view, its showType, which sending it is, and how far the *)
(* server is with it.                                                      *)
Request(v, type) == [view |-> v, type |-> type, copy |-> 1, pc |-> "sent"]

(* The user may have seen the page in the last minute.                     *)
Init ==
  /\ impKeys = Views /\ impfreq \in BOOLEAN
  /\ requests = {} /\ counts = {}

Move(q, pc) == requests' = (requests \ {q}) \cup {[q EXCEPT !.pc = pc]}

(* The SSP starts to work on q.                                            *)
Alone(q) == OneAtATime =>
  \A r \in requests : r.view = q.view => r.pc \in {"sent", "over"}

(* isNeedExecStatCode: EXISTS,                                             *)
Find(q) ==
  /\ q.pc = "sent" /\ Alone(q)
  /\ Move(q, IF q.view \in impKeys THEN "found" ELSE "over")
  /\ UNCHANGED <<impKeys, impfreq, counts>>

(* Mutant: the key stays.                                                  *)
TakeNothing(q) ==
  /\ q.pc = "found"
  /\ Move(q, IF impfreq THEN "again" ELSE "first")
  /\ UNCHANGED <<impKeys, impfreq, counts>>

(* DEL, and EXISTS of the key of the user and the page.                    *)
Take(q) ==
  /\ q.pc = "found"
  /\ impKeys' = impKeys \ {q.view}
  /\ Move(q, IF impfreq THEN "again" ELSE "first")
  /\ UNCHANGED <<impfreq, counts>>

(* GET, SET and EXPIRE, whose outcome does not matter: realImp is computed *)
(* and not used.  But when the key has expired since EXISTS, GET is null   *)
(* and the request ends with an exception.  Then adshowRecord, one         *)
(* pipeline.                                                               *)
Count(q) ==
  /\ q.pc \in {"first", "again"}
  /\ IF q.pc = "again" /\ ~impfreq
     THEN UNCHANGED <<impfreq, counts>>
     ELSE /\ impfreq' = TRUE
          /\ counts' = counts \cup {[view |-> q.view, type |-> q.type,
                                     copy |-> q.copy]}
  /\ Move(q, "over")
  /\ UNCHANGED impKeys

(* The browser sends q again, not knowing whether it arrived.              *)
Resend(q) ==
  /\ q.copy < Copies
  /\ \A r \in requests : r.view = q.view => r.copy <= q.copy
  /\ requests' = requests \cup {[q EXCEPT !.copy = @ + 1, !.pc = "sent"]}
  /\ UNCHANGED <<impKeys, impfreq, counts>>

Serve(q) == Find(q) \/ Take(q) \/ Count(q)

(* Redis: the keys expire.                                                 *)
ImpExpires(v) ==
  /\ v \in impKeys
  /\ impKeys' = impKeys \ {v}
  /\ UNCHANGED <<impfreq, requests, counts>>

FreqExpires ==
  /\ impfreq
  /\ impfreq' = FALSE
  /\ UNCHANGED <<impKeys, requests, counts>>

-----------------------------------------------------------------------------
(* An impression is counted once, however often its request is sent.       *)
CountedOnce ==
  \A c, d \in counts : c.view = d.view => c = d
=============================================================================
