----------------------------- MODULE WatchQueue -----------------------------
(***************************************************************************)
(* How a browser node's revocations reach KeyWay's watchtower              *)
(* (watchtower-bridge.ts, watchtower-store.ts, watchtower-remote.ts and    *)
(* the requests of server/watchtower.ts).                                  *)
(*                                                                         *)
(* The node hands its watchtower events to the page, which stores each and *)
(* queues what the server may see.  One flush at a time walks the queued   *)
(* channels and sends watch, revoke and unwatch in this order; a failed    *)
(* update waits for a retry.  The page is single-threaded: while a flush   *)
(* moves on (Busy) nothing else of the page runs.  A revocation is its     *)
(* commitment number, 0 for none.                                          *)
(***************************************************************************)
EXTENDS Naturals, FiniteSets

CONSTANTS
    Channels,
    Tokens,       \* channels with a token, which the server does not watch
    MaxWatched,   \* MAX_WATCHED_CHANNELS
    MaxNumber,    \* the revocations of each channel (a bound)
    MaxPages,     \* pages opened, one after the other (a bound)
    Forgettable,  \* channels whose record the server drops, once each (a bound)
    None

Kinds == {"watch", "revoke", "unwatch"}
Updates == [watch : BOOLEAN, revoke : Nat, unwatch : BOOLEAN, reregistered : BOOLEAN]
Requests == [channel : Channels, kind : Kinds, number : Nat]
Results == {"sent", "ok", "refused", "unknown", "lost", "lookup"}
Flights == [channel : Channels, kind : Kinds, number : Nat, replaced : BOOLEAN, result : Results]
Rows == [number : Nat, unwatch : BOOLEAN]

ASSUME QueueAssumption ==
    /\ Tokens \subseteq Channels /\ Forgettable \subseteq Channels
    /\ MaxWatched \in Nat /\ MaxNumber \in [Channels -> Nat] /\ MaxPages \in Nat
    /\ None \notin Channels \cup Nat \cup Updates \cup Flights \cup Rows

VARIABLES
    stored,    \* the in-page store: the newest revocation of each channel
    queue,     \* queues: the updates each channel waits with
    rejected,  \* rejectedChannels
    flushing,  \* whether a flush is under way
    todo,      \* the channels its pass has still to visit
    at,        \* where it is: a channel and the next kind of update
    failed,    \* whether an update of this pass failed
    flight,    \* the request or store lookup it waits for
    retry,     \* whether a retry is scheduled
    wanted,    \* whether flush() waits to run after it
    page,      \* "none", "loading" (the stored channels are being read), "open" or "leaving"
    pages,     \* pages opened so far
    late,      \* requests of pages that are gone, still on their way
    row,       \* the server's records
    over,      \* history: the page in which the node removed the channel, 0 before
    forgotten, \* history: channels whose record the server has dropped
    revived    \* history: channels whose record a request of a page that is gone has made

pageVars == <<queue, rejected, flushing, todo, at, failed, flight, retry, wanted>>
vars == <<stored, pageVars, page, pages, late, row, over, forgotten, revived>>

NoUpdate == [watch |-> FALSE, revoke |-> 0, unwatch |-> FALSE, reregistered |-> FALSE]
HasUpdate(q) == q # None /\ (q.watch \/ q.revoke # 0 \/ q.unwatch)
Pending == {c \in Channels : HasUpdate(queue[c])}
Queued == {c \in Channels : queue[c] # None}
Start == [channel |-> None, kind |-> "watch"]

\* The flush moves on without an await until a request or lookup is under way.
Busy == flushing /\ flight = None

NoPage ==
    /\ queue = [c \in Channels |-> None]
    /\ rejected = {} /\ flushing = FALSE /\ todo = {} /\ at = Start /\ failed = FALSE
    /\ flight = None /\ retry = FALSE /\ wanted = FALSE

Init ==
    /\ stored = [c \in Channels |-> None]
    /\ NoPage
    /\ page = "none" /\ pages = 0 /\ late = {}
    /\ row = [c \in Channels |-> None]
    /\ over = [c \in Channels |-> 0] /\ forgotten = {} /\ revived = {}

-----------------------------------------------------------------------------
(* The queue.                                                              *)

\* Only the newest revocation is kept; another registration replaces one that is being sent.
Merge(q, watch, number, unwatch) ==
    LET old == IF q = None THEN NoUpdate ELSE q
    IN  [old EXCEPT
            !.watch = old.watch \/ watch,
            !.revoke = IF number > old.revoke THEN number ELSE old.revoke,
            !.unwatch = old.unwatch \/ unwatch]

Replaces(kind, watch, unwatch) == (kind = "watch" /\ watch) \/ (kind = "unwatch" /\ unwatch)

\* enqueue: drops updates of a channel the server will not watch; starts a flush unless a retry waits.
Enqueue(news) ==
    /\ queue' = [c \in Channels |->
                    IF c \in DOMAIN news /\ c \notin rejected
                    THEN Merge(queue[c], news[c].watch, news[c].number, news[c].unwatch) ELSE queue[c]]
    /\ flight' = IF /\ flight # None /\ flight.channel \in DOMAIN news
                    /\ Replaces(flight.kind, news[flight.channel].watch, news[flight.channel].unwatch)
                 THEN [flight EXCEPT !.replaced = TRUE] ELSE flight
    /\ IF flushing \/ retry \/ \A c \in Channels : ~HasUpdate(queue'[c])
       THEN UNCHANGED <<flushing, todo, at, failed>>
       ELSE /\ flushing' = TRUE /\ at' = Start /\ failed' = FALSE
            /\ todo' = {c \in Channels : queue'[c] # None}
    /\ UNCHANGED <<rejected, retry, wanted>>

One(c, watch, number, unwatch) == [x \in {c} |-> [watch |-> watch, number |-> number, unwatch |-> unwatch]]

\* create_watch_channel
NodeOpens(c) ==
    /\ page \in {"loading", "open"} /\ ~Busy
    /\ stored[c] = None /\ over[c] = 0
    /\ stored' = [stored EXCEPT ![c] = 0]
    /\ Enqueue(One(c, TRUE, 0, FALSE))
    /\ UNCHANGED <<page, pages, late, row, over, forgotten, revived>>

\* update_revocation
NodeRevokes(c) ==
    /\ page \in {"loading", "open"} /\ ~Busy
    /\ stored[c] # None /\ stored[c] < MaxNumber[c]
    /\ stored' = [stored EXCEPT ![c] = @ + 1]
    /\ Enqueue(One(c, FALSE, stored[c] + 1, FALSE))
    /\ UNCHANGED <<page, pages, late, row, over, forgotten, revived>>

\* remove_watch_channel
NodeRemoves(c) ==
    /\ page \in {"loading", "open"} /\ ~Busy
    /\ stored[c] # None
    /\ stored' = [stored EXCEPT ![c] = None]
    /\ over' = [over EXCEPT ![c] = pages]
    /\ Enqueue(One(c, FALSE, 0, TRUE))
    /\ UNCHANGED <<page, pages, late, row, forgotten, revived>>

-----------------------------------------------------------------------------
(* The flush.                                                              *)

Rank(kind) == CASE kind = "watch" -> 1 [] kind = "revoke" -> 2 [] kind = "unwatch" -> 3 [] kind = "end" -> 4
After(kind) == CASE kind = "watch" -> "revoke" [] kind = "revoke" -> "unwatch" [] kind = "unwatch" -> "end"
Waits(c, kind) ==
    CASE kind = "watch" -> queue[c].watch [] kind = "revoke" -> queue[c].revoke # 0
      [] kind = "unwatch" -> queue[c].unwatch
\* The kinds still to send, in order: the server needs the channel before its revocations, and the close comes last.
Rest == {k \in Kinds : Rank(k) >= Rank(at.kind) /\ Waits(at.channel, k)}

\* The next channel of the pass.
Visit ==
    /\ Busy /\ at.channel = None
    /\ \E c \in todo :
         /\ todo' = todo \ {c}
         /\ at' = [channel |-> c, kind |-> "watch"]
    /\ UNCHANGED <<stored, queue, rejected, flushing, failed, flight, retry, wanted, page, pages, late, row, over, forgotten, revived>>

\* The next update of the channel is sent.
SendUpdate ==
    /\ Busy /\ at.channel # None
    /\ \E k \in Rest :
         /\ \A other \in Rest : Rank(k) <= Rank(other)
         /\ at' = [at EXCEPT !.kind = k]
         /\ flight' = [channel |-> at.channel, kind |-> k, number |-> queue[at.channel].revoke, replaced |-> FALSE, result |-> "sent"]
    /\ UNCHANGED <<stored, queue, rejected, flushing, todo, failed, retry, wanted, page, pages, late, row, over, forgotten, revived>>

\* Mutant: a revocation sent is taken off the queue although a newer one replaced it.
WithoutAnyway(q, f) ==
    [q EXCEPT !.watch = q.watch /\ ~(f.kind = "watch"), !.unwatch = q.unwatch /\ ~(f.kind = "unwatch"),
              !.revoke = IF f.kind = "revoke" THEN 0 ELSE q.revoke]

\* A newer update may have replaced the one that was sent.
Without(q, f) ==
    [q EXCEPT !.watch = q.watch /\ ~(f.kind = "watch" /\ ~f.replaced),
              !.unwatch = q.unwatch /\ ~(f.kind = "unwatch" /\ ~f.replaced),
              !.revoke = IF f.kind = "revoke" /\ f.number = q.revoke THEN 0 ELSE q.revoke]

\* The server has it.
Sent ==
    /\ flight # None /\ flight.result = "ok"
    /\ queue' = [queue EXCEPT ![flight.channel] = Without(@, flight)]
    /\ at' = [at EXCEPT !.kind = After(@)]
    /\ flight' = None
    /\ UNCHANGED <<stored, rejected, flushing, todo, failed, retry, wanted, page, pages, late, row, over, forgotten, revived>>

\* The server does not know the channel, and nothing was tried about it yet: look for its registration.
LookUp(c) == flight.kind = "revoke" /\ flight.result = "unknown" /\ ~queue[c].watch /\ ~queue[c].reregistered

\* Mutant: an update that was lost is given up as well.
HopelessIfLost(c) ==
    \/ flight.result \in {"refused", "lost"}
    \/ flight.result = "unknown" /\ flight.kind = "revoke" /\ queue[c].reregistered /\ ~queue[c].watch

\* Another try will not help: the server refuses it, or does not know the channel and there is no registration.
Hopeless(c) ==
    \/ flight.result = "refused"
    \/ flight.result = "unknown" /\ flight.kind = "revoke" /\ queue[c].reregistered /\ ~queue[c].watch

\* The request failed.
NotSent ==
    /\ flight # None /\ flight.result \in {"refused", "unknown", "lost"}
    /\ LET c == flight.channel IN
       \/ /\ LookUp(c)
          /\ flight' = [flight EXCEPT !.result = "lookup"]
          /\ UNCHANGED <<queue, rejected, at, failed>>
       \/ /\ ~LookUp(c) /\ Hopeless(c)
          /\ queue' = [queue EXCEPT ![c] = Without(@, flight)]
          /\ IF flight.kind = "watch"
             THEN rejected' = rejected \cup {c} /\ at' = [at EXCEPT !.kind = "end"]
             ELSE at' = [at EXCEPT !.kind = After(@)] /\ UNCHANGED rejected
          /\ flight' = None
          /\ UNCHANGED failed
       \/ /\ ~LookUp(c) /\ ~Hopeless(c)
          /\ failed' = TRUE
          /\ at' = [at EXCEPT !.kind = "end"]
          /\ flight' = None
          /\ UNCHANGED <<queue, rejected>>
    /\ UNCHANGED <<stored, flushing, todo, retry, wanted, page, pages, late, row, over, forgotten, revived>>

Registered(q, known) == [q EXCEPT !.reregistered = TRUE, !.watch = q.watch \/ known]

\* The registration is found in the store, or is not there, or the store cannot be read; the update waits for the retry.
LookedUp ==
    /\ flight # None /\ flight.result = "lookup"
    /\ LET c == flight.channel IN
       \/ queue' = [queue EXCEPT ![c] = Registered(queue[c], stored[c] # None)]
       \/ UNCHANGED queue
    /\ failed' = TRUE
    /\ at' = [at EXCEPT !.kind = "end"]
    /\ flight' = None
    /\ UNCHANGED <<stored, rejected, flushing, todo, retry, wanted, page, pages, late, row, over, forgotten, revived>>

\* No more is sent for the channel now; with nothing left, or rejected, it leaves the queue.
Leave ==
    /\ Busy /\ at.channel # None /\ Rest = {}
    /\ queue' = [queue EXCEPT ![at.channel] = IF at.channel \in rejected \/ ~HasUpdate(@) THEN None ELSE @]
    /\ at' = Start
    /\ UNCHANGED <<stored, rejected, flushing, todo, failed, flight, retry, wanted, page, pages, late, row, over, forgotten, revived>>

\* The pass is over: after a failure a retry is scheduled, which a waiting flush() cancels to run at once; else what was
\* queued meanwhile is sent.
EndPass ==
    /\ Busy /\ at.channel = None /\ todo = {}
    /\ retry' = (failed /\ ~wanted)
    /\ IF Pending # {} /\ (~failed \/ wanted)
       THEN todo' = Queued /\ wanted' = (wanted /\ ~failed) /\ UNCHANGED flushing
       ELSE todo' = {} /\ flushing' = FALSE /\ wanted' = FALSE
    /\ failed' = FALSE
    /\ UNCHANGED <<stored, queue, rejected, at, flight, page, pages, late, row, over, forgotten, revived>>

\* The retry is due.
Retry ==
    /\ retry /\ ~flushing
    /\ retry' = FALSE
    /\ IF Pending = {} THEN UNCHANGED <<flushing, todo>> ELSE flushing' = TRUE /\ todo' = Queued
    /\ UNCHANGED <<stored, queue, rejected, at, failed, flight, wanted, page, pages, late, row, over, forgotten, revived>>

-----------------------------------------------------------------------------
(* Pages.                                                                  *)

\* The node starts: the bridge opens, and the stored channels are read.
Open ==
    /\ page = "none" /\ pages < MaxPages
    /\ page' = "loading"
    /\ pages' = pages + 1
    /\ UNCHANGED <<stored, pageVars, late, row, over, forgotten, revived>>

\* Every stored channel is registered again, with its newest revocation.
Load ==
    /\ page = "loading" /\ ~Busy
    /\ page' = "open"
    /\ Enqueue([c \in {d \in Channels : stored[d] # None} |-> [watch |-> TRUE, number |-> stored[c], unwatch |-> FALSE]])
    /\ UNCHANGED <<stored, pages, late, row, over, forgotten, revived>>

\* A logout: the node has stopped and the bridge has drained; what is queued gets a last try, retry or not.
Flush ==
    /\ page = "open" /\ ~Busy
    /\ page' = "leaving"
    /\ IF flushing THEN wanted' = TRUE /\ UNCHANGED <<retry, todo, flushing>>
       ELSE /\ retry' = FALSE
            /\ IF Pending = {} THEN UNCHANGED <<todo, flushing>> ELSE flushing' = TRUE /\ todo' = Queued
            /\ UNCHANGED wanted
    /\ UNCHANGED <<stored, queue, rejected, at, failed, flight, pages, late, row, over, forgotten, revived>>

\* The logout's flush is over or its ten seconds are, or the tab is closed, whatever is under way: no more is sent, but a
\* request already sent may still arrive.
Close ==
    /\ page # "none" /\ ~Busy
    /\ page' = "none"
    /\ late' = IF flight # None /\ flight.result = "sent"
               THEN late \cup {[channel |-> flight.channel, kind |-> flight.kind, number |-> flight.number]} ELSE late
    /\ queue' = [c \in Channels |-> None]
    /\ rejected' = {} /\ flushing' = FALSE /\ todo' = {} /\ at' = Start /\ failed' = FALSE
    /\ flight' = None /\ retry' = FALSE /\ wanted' = FALSE
    /\ UNCHANGED <<stored, pages, row, over, forgotten, revived>>

-----------------------------------------------------------------------------
(* The server.                                                             *)

Watched == {c \in Channels : row[c] # None}

\* What watchtowerRequest answers to a request.
AnswerTo(r) ==
    CASE r.kind = "watch" /\ r.channel \in Tokens -> "refused"
      [] r.kind = "watch" /\ r.channel \notin Tokens ->
            IF row[r.channel] = None /\ Cardinality(Watched) >= MaxWatched THEN "refused" ELSE "ok"
      [] r.kind = "revoke" -> IF row[r.channel] = None THEN "unknown" ELSE "ok"
      [] r.kind = "unwatch" -> "ok"

\* What it stores: an older revocation never replaces a newer one.
Record(r) ==
    LET old == row[r.channel]
        new == CASE r.kind = "watch" -> IF old = None THEN [number |-> 0, unwatch |-> FALSE] ELSE old
                 [] r.kind = "revoke" -> [old EXCEPT !.number = IF r.number > old.number THEN r.number ELSE old.number]
                 [] r.kind = "unwatch" -> IF old = None THEN None ELSE [old EXCEPT !.unwatch = TRUE]
    IN  [row EXCEPT ![r.channel] = new]

Request == [channel |-> flight.channel, kind |-> flight.kind, number |-> flight.number]

\* The request arrives and its answer comes back.
Arrive ==
    /\ flight # None /\ flight.result = "sent"
    /\ row' = IF AnswerTo(Request) = "ok" THEN Record(Request) ELSE row
    /\ flight' = [flight EXCEPT !.result = AnswerTo(Request)]
    /\ UNCHANGED <<stored, queue, rejected, flushing, todo, at, failed, retry, wanted, page, pages, late, over, forgotten, revived>>

\* The request or its answer is lost, or the server is too busy for it.
Lose ==
    /\ flight # None /\ flight.result = "sent"
    /\ row' = row \/ row' = IF AnswerTo(Request) = "ok" THEN Record(Request) ELSE row
    /\ flight' = [flight EXCEPT !.result = "lost"]
    /\ UNCHANGED <<stored, queue, rejected, flushing, todo, at, failed, retry, wanted, page, pages, late, over, forgotten, revived>>

\* A request of a page that is gone arrives, or never does.
ArriveLate(r) ==
    /\ r \in late
    /\ late' = late \ {r}
    /\ row' = row \/ row' = IF AnswerTo(r) = "ok" THEN Record(r) ELSE row
    /\ revived' = revived \cup {c \in Channels : row[c] = None /\ row'[c] # None}
    /\ UNCHANGED <<stored, pageVars, page, pages, over, forgotten>>

\* A pass drops the record of a channel that is over, or that was never funded.
ForgetRecord(c) ==
    /\ row[c] # None
    /\ c \in Forgettable \ forgotten
    /\ row' = [row EXCEPT ![c] = None]
    /\ forgotten' = forgotten \cup {c}
    /\ UNCHANGED <<stored, pageVars, page, pages, late, over, revived>>

Step == Visit \/ SendUpdate \/ Sent \/ NotSent \/ LookedUp \/ Leave \/ EndPass

Next ==
    \/ \E c \in Channels : NodeOpens(c) \/ NodeRevokes(c) \/ NodeRemoves(c) \/ ForgetRecord(c)
    \/ Step \/ Retry
    \/ Open \/ Load \/ Flush \/ Close
    \/ Arrive \/ Lose
    \/ \E r \in late : ArriveLate(r)

Spec == Init /\ [][Next]_vars

\* The event loop runs, timers fire, a request ends within its timeout, and a channel's repeated for ever arrive for once.
Fairness == WF_vars(Step) /\ WF_vars(Retry) /\ WF_vars(Load) /\ WF_vars(Arrive \/ Lose) 
            /\ \A c \in Channels : SF_vars(Arrive /\ flight.channel = c)
FairSpec == Spec /\ Fairness

-----------------------------------------------------------------------------
(* Properties.                                                             *)

TypeOK ==
    /\ stored \in [Channels -> Nat \cup {None}]
    /\ queue \in [Channels -> Updates \cup {None}]
    /\ rejected \subseteq Channels /\ todo \subseteq Channels
    /\ over \in [Channels -> Nat] /\ forgotten \subseteq Channels /\ revived \subseteq Channels
    /\ flushing \in BOOLEAN /\ failed \in BOOLEAN /\ retry \in BOOLEAN /\ wanted \in BOOLEAN
    /\ at \in [channel : Channels \cup {None}, kind : Kinds \cup {"end"}]
    /\ flight \in Flights \cup {None}
    /\ page \in {"none", "loading", "open", "leaving"} /\ pages \in Nat /\ (page = "none" \/ pages > 0)
    /\ late \subseteq Requests
    /\ row \in [Channels -> Rows \cup {None}]

\* warnBeforeUnload asks only while something is pending: when nothing is, the server has every channel's newest
\* revocation and knows of every channel that is over, except where it refused the channel or dropped its record.
QuietMeansKnown ==
    page \in {"open", "leaving"} /\ Pending = {} =>
        \A c \in Channels \ (rejected \cup forgotten) :
            /\ stored[c] # None => row[c] # None /\ row[c].number >= stored[c]
            /\ over[c] = pages /\ row[c] # None /\ c \notin revived => row[c].unwatch

\* While the page stays open, every channel and revocation reaches the server in the end (watchtower-remote.ts, "retried
\* until KeyWay has them"), except as above.
Behind(c) == stored[c] # None /\ c \notin rejected \cup forgotten /\ (IF row[c] = None THEN TRUE ELSE row[c].number < stored[c])
EveryRevocationArrives == \A c \in Channels : (page = "open" /\ Behind(c)) ~> (page # "open" \/ ~Behind(c))
-----------------------------------------------------------------------------
(* The inductive invariant of WatchQueueProofs.                            *)

WatchQueued(c) == queue[c] # None /\ queue[c].watch
RevokeQueued(c) == IF queue[c] = None THEN 0 ELSE queue[c].revoke
UnwatchQueued(c) == queue[c] # None /\ queue[c].unwatch
Excused == rejected \cup forgotten

\* Without a page nothing is queued or under way.
PageInv == page = "none" => NoPage

\* The flush only visits queued channels, and what it sends is still queued.
FlushInv ==
    /\ todo \subseteq Queued
    /\ at.channel = None => flight = None
    /\ at.channel # None => queue[at.channel] # None /\ at.channel \notin todo /\ flushing
    /\ flight # None =>
          /\ flight.channel = at.channel /\ flight.kind = at.kind
          /\ flight.kind = "watch" => WatchQueued(flight.channel)
          /\ flight.kind = "revoke" => flight.number > 0
          /\ flight.kind = "unwatch" => UnwatchQueued(flight.channel)
          /\ flight.result \in {"unknown", "lookup"} => flight.kind = "revoke"
          /\ flight.result = "refused" => flight.kind = "watch"

\* A channel that was removed stays removed, and only those of this page wait to be unwatched.
RemovedInv ==
    \A c \in Channels :
        /\ over[c] <= pages
        /\ over[c] # 0 => stored[c] = None
        /\ UnwatchQueued(c) => over[c] = pages
        /\ stored[c] = None /\ over[c] = 0 => queue[c] = None

\* What the server has answered, it has recorded.
AnswerInv ==
    flight # None /\ flight.channel \notin forgotten =>
        LET c == flight.channel IN
        /\ flight.result = "ok" /\ flight.kind = "watch" => row[c] # None
        /\ flight.result = "ok" /\ flight.kind = "revoke" => row[c] # None /\ row[c].number >= flight.number
        /\ flight.result = "ok" /\ flight.kind = "unwatch" /\ row[c] # None => row[c].unwatch \/ c \in revived
        /\ flight.result = "unknown" /\ page \in {"open", "leaving"} /\ c \notin rejected /\ stored[c] # None => WatchQueued(c)

\* What the server does not have of a channel is queued.
KnownInv ==
    page \in {"open", "leaving"} =>
        \A c \in Channels \ Excused :
            stored[c] # None =>
                /\ WatchQueued(c) \/ row[c] # None
                /\ \/ stored[c] = 0
                   \/ RevokeQueued(c) >= stored[c]
                   \/ row[c] # None /\ row[c].number >= stored[c]

\* A removal the server does not know of is queued, and no registration overtakes it.
UnwatchInv ==
    page # "none" =>
        /\ \A c \in Channels \ Excused :
              over[c] = pages /\ c \notin revived =>
                  /\ row[c] # None => row[c].unwatch \/ UnwatchQueued(c)
                  /\ WatchQueued(c) => row[c] # None \/ UnwatchQueued(c)
        /\ at.channel # None /\ at.channel \notin Excused /\ at.kind \in {"revoke", "unwatch"} /\ WatchQueued(at.channel) =>
              row[at.channel] # None \/ (flight # None /\ flight.kind = "revoke" /\ flight.result # "ok")

IInv == TypeOK /\ PageInv /\ FlushInv /\ RemovedInv /\ AnswerInv /\ KnownInv /\ UnwatchInv
=============================================================================
