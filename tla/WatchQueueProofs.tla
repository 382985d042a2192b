-------------------------- MODULE WatchQueueProofs --------------------------
(***************************************************************************)
(* Theorems about WatchQueue, for any number of channels, revocations and  *)
(* pages: while nothing is queued, the server has what the page knows.     *)
(* What the queue holds of a channel and what the server has recorded of   *)
(* it are complementary (KnownInv, UnwatchInv); an update leaves the queue *)
(* only with an answer that says it was recorded (AnswerInv).              *)
(***************************************************************************)
EXTENDS WatchQueue, TLAPS

(* Nothing is stored, queued or recorded at the start. *)
LEMMA InitIInv == Init => IInv
<1> SUFFICES ASSUME Init PROVE IInv
  OBVIOUS
<1> USE QueueAssumption DEF Init, NoPage
<1>1. TypeOK
  BY DEF TypeOK, Start, Kinds
<1>2. FlushInv /\ AnswerInv
  BY DEF FlushInv, AnswerInv, Start
<1>3. RemovedInv
  BY DEF RemovedInv, UnwatchQueued
<1>4. KnownInv /\ UnwatchInv
  BY DEF KnownInv, UnwatchInv
<1>5. QED
  BY <1>1, <1>2, <1>3, <1>4 DEF IInv, PageInv

-----------------------------------------------------------------------------
(* The queue.                                                              *)

(* What a channel's updates are after another one is queued. *)
LEMMA MergeEffect ==
  ASSUME NEW q \in Updates \cup {None}, NEW watch \in BOOLEAN, NEW number \in Nat, NEW unwatch \in BOOLEAN
  PROVE  LET m == Merge(q, watch, number, unwatch)
         IN  /\ m \in Updates /\ m # None
             /\ m.watch <=> (q # None /\ q.watch) \/ watch
             /\ m.unwatch <=> (q # None /\ q.unwatch) \/ unwatch
             /\ m.revoke >= number
             /\ q # None => m.revoke >= q.revoke
<1> DEFINE old == IF q = None THEN NoUpdate ELSE q
<1>1. old \in Updates /\ (q # None => old = q) /\ (q = None => ~old.watch /\ ~old.unwatch)
  BY DEF Updates, NoUpdate
<1>2. Merge(q, watch, number, unwatch) =
        [old EXCEPT !.watch = old.watch \/ watch,
                    !.revoke = IF number > old.revoke THEN number ELSE old.revoke,
                    !.unwatch = old.unwatch \/ unwatch]
  BY DEF Merge
<1> HIDE DEF old
<1> DEFINE m == Merge(q, watch, number, unwatch)
<1>3. /\ m.watch = (old.watch \/ watch) /\ m.unwatch = (old.unwatch \/ unwatch)
      /\ m.revoke = IF number > old.revoke THEN number ELSE old.revoke
      /\ m \in Updates
  BY <1>1, <1>2 DEF Updates
<1> HIDE DEF m
<1>4. m # None /\ old.revoke \in Nat /\ old.watch \in BOOLEAN /\ old.unwatch \in BOOLEAN
  BY <1>1, <1>3, QueueAssumption DEF Updates
<1>5. m.watch <=> (q # None /\ q.watch) \/ watch
  BY <1>1, <1>3
<1>6. m.unwatch <=> (q # None /\ q.unwatch) \/ unwatch
  BY <1>1, <1>3
<1>7. m.revoke >= number /\ (q # None => m.revoke >= q.revoke)
  BY <1>1, <1>3, <1>4
<1>8. QED
  BY <1>3, <1>4, <1>5, <1>6, <1>7 DEF m

(* What is left of a channel's updates once one of them is settled. *)
LEMMA WithoutEffect ==
  ASSUME NEW q \in Updates, NEW f \in Flights
  PROVE  LET w == Without(q, f)
         IN  /\ w \in Updates /\ w # None
             /\ w.watch <=> q.watch /\ ~(f.kind = "watch" /\ ~f.replaced)
             /\ w.unwatch <=> q.unwatch /\ ~(f.kind = "unwatch" /\ ~f.replaced)
             /\ w.revoke = q.revoke \/ (w.revoke = 0 /\ f.kind = "revoke" /\ f.number = q.revoke)
<1> DEFINE w == Without(q, f)
<1>1. /\ w.watch = (q.watch /\ ~(f.kind = "watch" /\ ~f.replaced))
      /\ w.unwatch = (q.unwatch /\ ~(f.kind = "unwatch" /\ ~f.replaced))
      /\ w.revoke = IF f.kind = "revoke" /\ f.number = q.revoke THEN 0 ELSE q.revoke
      /\ w \in Updates
  BY DEF Without, Updates, Flights
<1> HIDE DEF w
<1>2. w # None
  BY <1>1, QueueAssumption
<1>3. QED
  BY <1>1, <1>2 DEF w

(* A registration that is looked up. *)
LEMMA RegisteredEffect ==
  ASSUME NEW q \in Updates, NEW known \in BOOLEAN
  PROVE  LET w == Registered(q, known)
         IN  /\ w \in Updates /\ w # None /\ w.revoke = q.revoke /\ w.unwatch = q.unwatch
             /\ w.watch <=> q.watch \/ known
BY QueueAssumption DEF Registered, Updates

\* What the page may queue of some channels.
News(news) ==
    /\ DOMAIN news \subseteq Channels
    /\ \A c \in DOMAIN news : news[c].watch \in BOOLEAN /\ news[c].number \in Nat /\ news[c].unwatch \in BOOLEAN

\* The queue only grows, by the news.
QueueGrows(news) ==
    \A c \in Channels :
        LET taken == c \in DOMAIN news \ rejected IN
        /\ ~taken => queue'[c] = queue[c]
        /\ taken => queue'[c] # None /\ RevokeQueued(c)' >= news[c].number
        /\ queue[c] # None => queue'[c] # None
        /\ RevokeQueued(c)' >= RevokeQueued(c)
        /\ WatchQueued(c)' <=> WatchQueued(c) \/ (taken /\ news[c].watch)
        /\ UnwatchQueued(c)' <=> UnwatchQueued(c) \/ (taken /\ news[c].unwatch)

\* The request under way stays the same, but for being replaced.
FlightStays ==
    IF flight = None THEN flight' = None
    ELSE /\ flight' # None /\ flight'.channel = flight.channel /\ flight'.kind = flight.kind
         /\ flight'.number = flight.number /\ flight'.result = flight.result

\* The types of what the bridge keeps.
BridgeTypes ==
    /\ queue \in [Channels -> Updates \cup {None}]
    /\ rejected \subseteq Channels /\ todo \subseteq Channels
    /\ flushing \in BOOLEAN /\ failed \in BOOLEAN /\ retry \in BOOLEAN /\ wanted \in BOOLEAN
    /\ at \in [channel : Channels \cup {None}, kind : Kinds \cup {"end"}]
    /\ flight \in Flights \cup {None}

(* The start of a pass is at no channel. *)
LEMMA StartTypes ==
  Start \in [channel : Channels \cup {None}, kind : Kinds \cup {"end"}] /\ Start.channel = None
BY DEF Start, Kinds

(* Whatever is queued comes on top of what is queued or under way. *)
LEMMA EnqueueEffect ==
  ASSUME TypeOK, FlushInv, NEW news, News(news), Enqueue(news)
  PROVE  BridgeTypes' /\ FlushInv' /\ QueueGrows(news) /\ FlightStays /\ UNCHANGED rejected
         /\ (UNCHANGED at \/ at'.channel = None)
<1> USE QueueAssumption
<1>1. queue' \in [Channels -> Updates \cup {None}] /\ QueueGrows(news)
  <2>1. queue' = [c \in Channels |->
                    IF c \in DOMAIN news /\ c \notin rejected
                    THEN Merge(queue[c], news[c].watch, news[c].number, news[c].unwatch) ELSE queue[c]]
    BY DEF Enqueue
  <2>2. ASSUME NEW c \in Channels, c \in DOMAIN news \ rejected
        PROVE  LET m == Merge(queue[c], news[c].watch, news[c].number, news[c].unwatch)
               IN  /\ m \in Updates /\ m # None
                   /\ m.watch <=> (queue[c] # None /\ queue[c].watch) \/ news[c].watch
                   /\ m.unwatch <=> (queue[c] # None /\ queue[c].unwatch) \/ news[c].unwatch
                   /\ m.revoke >= news[c].number
                   /\ queue[c] # None => m.revoke >= queue[c].revoke
    <3>1. queue[c] \in Updates \cup {None}
      BY DEF TypeOK
    <3>2. QED
      BY <2>2, <3>1, MergeEffect DEF News
  <2>3. ASSUME NEW c \in Channels, c \in DOMAIN news \ rejected
        PROVE  /\ queue'[c] \in Updates /\ queue'[c] # None /\ RevokeQueued(c)' >= news[c].number
               /\ RevokeQueued(c)' >= RevokeQueued(c)
               /\ WatchQueued(c)' <=> WatchQueued(c) \/ news[c].watch
               /\ UnwatchQueued(c)' <=> UnwatchQueued(c) \/ news[c].unwatch
    <3>1. queue'[c] = Merge(queue[c], news[c].watch, news[c].number, news[c].unwatch)
      BY <2>1, <2>3
    <3>2. news[c].number \in Nat
      BY <2>3 DEF News
    <3> DEFINE m == Merge(queue[c], news[c].watch, news[c].number, news[c].unwatch)
    <3>3. /\ m \in Updates /\ m # None
          /\ m.watch <=> (queue[c] # None /\ queue[c].watch) \/ news[c].watch
          /\ m.unwatch <=> (queue[c] # None /\ queue[c].unwatch) \/ news[c].unwatch
          /\ m.revoke >= news[c].number
          /\ queue[c] # None => m.revoke >= queue[c].revoke
      BY <2>2, <2>3
    <3>4. queue'[c] = m
      BY <3>1
    <3> HIDE DEF m
    <3>5. m.revoke >= 0
      BY <3>3 DEF Updates
    <3>6. RevokeQueued(c)' >= news[c].number /\ RevokeQueued(c)' >= RevokeQueued(c)
      BY <3>3, <3>4, <3>5 DEF RevokeQueued
    <3>7. WatchQueued(c)' <=> WatchQueued(c) \/ news[c].watch
      BY <3>3, <3>4 DEF WatchQueued
    <3>8. UnwatchQueued(c)' <=> UnwatchQueued(c) \/ news[c].unwatch
      BY <3>3, <3>4 DEF UnwatchQueued
    <3>9. QED
      BY <3>3, <3>4, <3>6, <3>7, <3>8
  <2>4. ASSUME NEW c \in Channels, c \notin DOMAIN news \ rejected
        PROVE  queue'[c] = queue[c] /\ RevokeQueued(c)' >= RevokeQueued(c)
    BY <2>1, <2>4 DEF RevokeQueued, TypeOK, Updates
  <2>5. queue' \in [Channels -> Updates \cup {None}]
    BY <2>1, <2>3, <2>4 DEF TypeOK
  <2>6. QED
    BY <2>3, <2>4, <2>5 DEF QueueGrows, WatchQueued, UnwatchQueued
<1>2. flight' \in Flights \cup {None} /\ FlightStays
  BY DEF Enqueue, FlightStays, TypeOK, Flights
<1>3. UNCHANGED rejected /\ BridgeTypes'
  BY <1>1, <1>2, StartTypes DEF Enqueue, BridgeTypes, TypeOK
<1>4. CASE UNCHANGED <<flushing, todo, at, failed>>
  <2>1. todo' \subseteq Queued'
    BY <1>1, <1>4 DEF FlushInv, Queued, QueueGrows, TypeOK
  <2>2. at'.channel # None => queue'[at'.channel] # None /\ at'.channel \notin todo' /\ flushing'
    BY <1>1, <1>4 DEF FlushInv, QueueGrows, TypeOK
  <2>3. flight' # None =>
          /\ flight # None /\ flight.channel \in Channels /\ flight'.channel = flight.channel /\ flight'.kind = flight.kind
          /\ flight'.number = flight.number /\ flight'.result = flight.result
    BY <1>2 DEF FlightStays, TypeOK, Flights
  <2>4. \A c \in Channels : (WatchQueued(c) => WatchQueued(c)') /\ (UnwatchQueued(c) => UnwatchQueued(c)')
    BY <1>1 DEF QueueGrows
  <2>5. FlushInv'
    BY <1>4, <2>1, <2>2, <2>3, <2>4 DEF FlushInv, WatchQueued, UnwatchQueued
  <2>6. QED
    BY <1>1, <1>2, <1>3, <1>4, <2>5
<1>5. CASE ~flushing /\ flushing' = TRUE /\ at' = Start /\ todo' = {c \in Channels : queue'[c] # None}
  <2>1. flight' = None /\ at'.channel = None
    BY <1>2, <1>5, StartTypes DEF FlushInv, FlightStays
  <2>2. todo' \subseteq Queued'
    BY <1>5 DEF Queued
  <2>3. FlushInv'
    BY <2>1, <2>2 DEF FlushInv
  <2>4. QED
    BY <1>1, <1>2, <1>3, <2>1, <2>3
<1>6. QED
  BY <1>1, <1>2, <1>3, <1>4, <1>5 DEF Enqueue, FlushInv

-----------------------------------------------------------------------------
(* The node's events.                                                      *)

(* What is under way keeps its answer when something is queued. *)
LEMMA EnqueueKeepsAnswer ==
  ASSUME IInv, NEW news, News(news), Enqueue(news), UNCHANGED <<row, forgotten, revived>>,
         \A c \in Channels : stored'[c] # None /\ c \notin rejected =>
            \/ stored[c] # None /\ page \in {"open", "leaving"}
            \/ page' \notin {"open", "leaving"}
            \/ c \in DOMAIN news /\ news[c].watch
  PROVE  AnswerInv'
<1>1. FlightStays /\ QueueGrows(news) /\ UNCHANGED rejected
  BY EnqueueEffect DEF IInv
<1>2. CASE flight = None
  BY <1>1, <1>2 DEF FlightStays, AnswerInv
<1>3. CASE flight # None
  <2> DEFINE c == flight.channel
  <2>1. c \in Channels /\ flight'.channel = c /\ flight'.kind = flight.kind /\ flight'.number = flight.number
        /\ flight'.result = flight.result
    BY <1>1, <1>3 DEF FlightStays, IInv, TypeOK, Flights
  <2>2. ASSUME c \notin forgotten, flight.result = "unknown", page' \in {"open", "leaving"}, c \notin rejected,
               stored'[c] # None
        PROVE  WatchQueued(c)'
    <3>1. WatchQueued(c)' <=> WatchQueued(c) \/ (c \in DOMAIN news \ rejected /\ news[c].watch)
      BY <1>1, <2>1 DEF QueueGrows
    <3>2. QED
      BY <1>3, <2>1, <2>2, <3>1 DEF IInv, AnswerInv
  <2>3. QED
    BY <1>1, <1>3, <2>1, <2>2 DEF IInv, AnswerInv
<1>4. QED
  BY <1>2, <1>3

(* The node opens a channel. *)
LEMMA StepNodeOpens == ASSUME IInv, NEW c \in Channels, NodeOpens(c) PROVE IInv'
<1> USE QueueAssumption
<1> DEFINE news == One(c, TRUE, 0, FALSE)
<1>0. news = One(c, TRUE, 0, FALSE)
  OBVIOUS
<1>2. /\ page \in {"loading", "open"} /\ stored[c] = None /\ over[c] = 0
      /\ stored' = [stored EXCEPT ![c] = 0] /\ Enqueue(news)
      /\ UNCHANGED <<page, pages, late, row, over, forgotten, revived>>
  BY DEF NodeOpens
<1> HIDE DEF news
<1>1. News(news) /\ DOMAIN news = {c} /\ news[c].watch /\ news[c].number = 0 /\ ~news[c].unwatch
  BY <1>0 DEF One, News
<1>3. BridgeTypes' /\ FlushInv' /\ QueueGrows(news) /\ FlightStays /\ UNCHANGED rejected
      /\ (UNCHANGED at \/ at'.channel = None)
  BY <1>1, <1>2, EnqueueEffect DEF IInv
<1>4. TypeOK'
  BY <1>2, <1>3 DEF TypeOK, BridgeTypes, IInv
<1>5. stored'[c] = 0 /\ \A d \in Channels : d # c => stored'[d] = stored[d]
  BY <1>2 DEF IInv, TypeOK
<1>6. /\ \A d \in Channels : WatchQueued(d)' <=> WatchQueued(d) \/ (d = c /\ c \notin rejected)
      /\ \A d \in Channels : UnwatchQueued(d)' <=> UnwatchQueued(d)
      /\ \A d \in Channels : RevokeQueued(d)' >= RevokeQueued(d)
      /\ \A d \in Channels : d # c => queue'[d] = queue[d]
  BY <1>1, <1>3 DEF QueueGrows
<1>7. RemovedInv'
  BY <1>2, <1>5, <1>6 DEF IInv, RemovedInv
<1>8. AnswerInv'
  BY <1>1, <1>2, <1>5, EnqueueKeepsAnswer, <1>3 DEF IInv
<1>9. KnownInv'
  <2>1. SUFFICES ASSUME page \in {"open", "leaving"}, NEW d \in Channels, d \notin rejected \cup forgotten, stored'[d] # None
                 PROVE  /\ WatchQueued(d)' \/ row[d] # None
                        /\ \/ stored'[d] = 0
                           \/ RevokeQueued(d)' >= stored'[d]
                           \/ row[d] # None /\ row[d].number >= stored'[d]
    BY <1>2, <1>3 DEF KnownInv, Excused
  <2>2. CASE d = c
    BY <1>5, <1>6, <2>1, <2>2
  <2>3. CASE d # c
    BY <1>5, <1>6, <2>1, <2>3 DEF IInv, KnownInv, Excused, WatchQueued, RevokeQueued
  <2>4. QED
    BY <2>2, <2>3
<1>10. UnwatchInv'
  <2>1. queue[c] = None /\ pages # 0 /\ page # "none"
    BY <1>2 DEF IInv, RemovedInv, TypeOK
  <2>2. at.channel # None => at.channel \in Channels /\ queue[at.channel] # None
    BY DEF IInv, FlushInv, TypeOK
  <2>3. UNCHANGED at /\ at.channel # None => (WatchQueued(at.channel)' <=> WatchQueued(at.channel))
    BY <1>6, <2>1, <2>2
  <2>4. ASSUME at'.channel # None, at'.channel \notin Excused, at'.kind \in {"revoke", "unwatch"}, WatchQueued(at.channel)'
        PROVE  row'[at'.channel] # None \/ (flight' # None /\ flight'.kind = "revoke" /\ flight'.result # "ok")
    BY <1>2, <1>3, <2>1, <2>3, <2>4 DEF IInv, UnwatchInv, FlightStays
  <2>5. QED
    BY <1>2, <1>3, <1>6, <2>1, <2>4 DEF IInv, UnwatchInv, Excused
<1>11. QED
  BY <1>2, <1>3, <1>4, <1>7, <1>8, <1>9, <1>10 DEF IInv, PageInv

(* The node revokes a commitment. *)
LEMMA StepNodeRevokes == ASSUME IInv, NEW c \in Channels, NodeRevokes(c) PROVE IInv'
<1> USE QueueAssumption
<1> DEFINE news == One(c, FALSE, stored[c] + 1, FALSE)
<1>1. /\ page \in {"loading", "open"} /\ stored[c] # None
      /\ stored' = [stored EXCEPT ![c] = @ + 1] /\ Enqueue(news)
      /\ UNCHANGED <<page, pages, late, row, over, forgotten, revived>>
  BY DEF NodeRevokes
<1>2. stored[c] \in Nat
  BY <1>1 DEF IInv, TypeOK
<1>a. news = One(c, FALSE, stored[c] + 1, FALSE)
  OBVIOUS
<1> HIDE DEF news
<1>3. News(news) /\ DOMAIN news = {c} /\ ~news[c].watch /\ news[c].number = stored[c] + 1 /\ ~news[c].unwatch
  <2>1. DOMAIN news = {c} /\ ~news[c].watch /\ news[c].number = stored[c] + 1 /\ ~news[c].unwatch
        /\ news[c].watch \in BOOLEAN /\ news[c].unwatch \in BOOLEAN
    BY <1>a DEF One
  <2>2. QED
    BY <1>2, <2>1 DEF News
<1>4. BridgeTypes' /\ FlushInv' /\ QueueGrows(news) /\ FlightStays /\ UNCHANGED rejected
      /\ (UNCHANGED at \/ at'.channel = None)
  BY <1>1, <1>3, EnqueueEffect DEF IInv
<1>5. stored'[c] = stored[c] + 1 /\ stored'[c] # None /\ \A d \in Channels : d # c => stored'[d] = stored[d]
  BY <1>1, <1>2 DEF IInv, TypeOK
<1>6. TypeOK'
  <2>1. stored' \in [Channels -> Nat \cup {None}]
    BY <1>1, <1>2 DEF TypeOK, IInv
  <2>2. QED
    BY <1>1, <1>4, <2>1 DEF TypeOK, BridgeTypes, IInv
<1>7. /\ \A d \in Channels : WatchQueued(d)' <=> WatchQueued(d)
      /\ \A d \in Channels : UnwatchQueued(d)' <=> UnwatchQueued(d)
      /\ \A d \in Channels : RevokeQueued(d)' >= RevokeQueued(d)
      /\ \A d \in Channels : d # c => queue'[d] = queue[d]
      /\ c \notin rejected => RevokeQueued(c)' >= stored'[c]
  BY <1>3, <1>4, <1>5 DEF QueueGrows
<1>8. RemovedInv'
  BY <1>1, <1>5, <1>7 DEF IInv, RemovedInv
<1>9. AnswerInv'
  BY <1>1, <1>3, <1>5, EnqueueKeepsAnswer, <1>4 DEF IInv
<1>10. KnownInv'
  <2>1. SUFFICES ASSUME page \in {"open", "leaving"}, NEW d \in Channels, d \notin rejected \cup forgotten, stored'[d] # None
                 PROVE  /\ WatchQueued(d)' \/ row[d] # None
                        /\ \/ stored'[d] = 0
                           \/ RevokeQueued(d)' >= stored'[d]
                           \/ row[d] # None /\ row[d].number >= stored'[d]
    BY <1>1, <1>4 DEF KnownInv, Excused
  <2>2. CASE d = c
    BY <1>1, <1>7, <2>1, <2>2 DEF IInv, KnownInv, Excused
  <2>3. CASE d # c
    BY <1>5, <1>7, <2>1, <2>3 DEF IInv, KnownInv, Excused, WatchQueued, RevokeQueued
  <2>4. QED
    BY <2>2, <2>3
<1>11. UnwatchInv'
  <2>1. at.channel # None => at.channel \in Channels
    BY DEF IInv, TypeOK
  <2>2. QED
    BY <1>1, <1>4, <1>7, <2>1 DEF IInv, UnwatchInv, Excused, FlightStays
<1>12. QED
  BY <1>1, <1>4, <1>6, <1>8, <1>9, <1>10, <1>11 DEF IInv, PageInv

(* The node removes a channel. *)
LEMMA StepNodeRemoves == ASSUME IInv, NEW c \in Channels, NodeRemoves(c) PROVE IInv'
<1> USE QueueAssumption
<1> DEFINE news == One(c, FALSE, 0, TRUE)
<1>0. news = One(c, FALSE, 0, TRUE)
  OBVIOUS
<1>1. /\ page \in {"loading", "open"} /\ stored[c] # None /\ stored' = [stored EXCEPT ![c] = None]
      /\ over' = [over EXCEPT ![c] = pages] /\ Enqueue(news)
      /\ UNCHANGED <<page, pages, late, row, forgotten, revived>>
  BY DEF NodeRemoves
<1> HIDE DEF news
<1>2. News(news) /\ DOMAIN news = {c} /\ ~news[c].watch /\ news[c].number = 0 /\ news[c].unwatch
  BY <1>0 DEF One, News
<1>3. BridgeTypes' /\ FlushInv' /\ QueueGrows(news) /\ FlightStays /\ UNCHANGED rejected
      /\ (UNCHANGED at \/ at'.channel = None)
  BY <1>1, <1>2, EnqueueEffect DEF IInv
<1>4. TypeOK'
  <2>1. over' \in [Channels -> Nat] /\ stored' \in [Channels -> Nat \cup {None}]
    BY <1>1 DEF IInv, TypeOK
  <2>2. QED
    BY <1>1, <1>3, <2>1 DEF TypeOK, BridgeTypes, IInv
<1>5. stored'[c] = None /\ over'[c] = pages /\ \A d \in Channels : d # c => stored'[d] = stored[d] /\ over'[d] = over[d]
  BY <1>1 DEF IInv, TypeOK
<1>6. /\ \A d \in Channels : WatchQueued(d)' <=> WatchQueued(d)
      /\ \A d \in Channels : UnwatchQueued(d)' <=> UnwatchQueued(d) \/ (d = c /\ c \notin rejected)
      /\ \A d \in Channels : RevokeQueued(d)' >= RevokeQueued(d)
      /\ \A d \in Channels : d # c => queue'[d] = queue[d]
  BY <1>2, <1>3 DEF QueueGrows
<1>7. RemovedInv'
  <2>1. pages \in Nat /\ pages # 0
    BY <1>1 DEF IInv, TypeOK
  <2>2. ASSUME NEW d \in Channels
        PROVE  /\ over'[d] <= pages /\ (over'[d] # 0 => stored'[d] = None)
               /\ UnwatchQueued(d)' => over'[d] = pages
               /\ stored'[d] = None /\ over'[d] = 0 => queue'[d] = None
    BY <1>5, <1>6, <2>1 DEF IInv, RemovedInv
  <2>3. QED
    BY <1>1, <2>2 DEF RemovedInv
<1>8. AnswerInv'
  BY <1>1, <1>2, <1>3, <1>5, EnqueueKeepsAnswer DEF IInv, AnswerInv
<1>9. KnownInv'
  <2>1. \A d \in Channels : stored'[d] # None => stored'[d] = stored[d] /\ (WatchQueued(d) => WatchQueued(d)')
    BY <1>5, <1>6
  <2>2. \A d \in Channels : RevokeQueued(d)' >= RevokeQueued(d) /\ RevokeQueued(d) \in Nat /\ RevokeQueued(d)' \in Nat
    BY <1>4, <1>6 DEF RevokeQueued, IInv, TypeOK, Updates
  <2>3. \A d \in Channels : stored[d] # None => stored[d] \in Nat
    BY DEF IInv, TypeOK
  <2> SUFFICES ASSUME page \in {"open", "leaving"}, NEW d \in Channels, d \notin rejected \cup forgotten, stored'[d] # None
               PROVE  /\ WatchQueued(d)' \/ row[d] # None
                      /\ \/ stored'[d] = 0
                         \/ RevokeQueued(d)' >= stored'[d]
                         \/ row[d] # None /\ row[d].number >= stored'[d]
    BY <1>1, <1>3 DEF KnownInv, Excused
  <2>4. stored'[d] = stored[d] /\ stored[d] # None /\ (WatchQueued(d) => WatchQueued(d)')
    BY <2>1
  <2>5. /\ WatchQueued(d) \/ row[d] # None
        /\ stored[d] = 0 \/ RevokeQueued(d) >= stored[d] \/ (row[d] # None /\ row[d].number >= stored[d])
    BY <2>4 DEF IInv, KnownInv, Excused
  <2>6. QED
    BY <2>2, <2>3, <2>4, <2>5
<1>10. UnwatchInv'
  <2>1. at.channel # None => at.channel \in Channels
    BY DEF IInv, TypeOK
  <2>2. QED
    BY <1>1, <1>3, <1>5, <1>6, <2>1 DEF IInv, UnwatchInv, Excused, FlightStays
<1>11. QED
  BY <1>1, <1>3, <1>4, <1>7, <1>8, <1>9, <1>10 DEF IInv, PageInv

(* The stored channels are registered again. *)
LEMMA StepLoad == ASSUME IInv, Load PROVE IInv'
<1> USE QueueAssumption
<1> DEFINE news == [c \in {d \in Channels : stored[d] # None} |-> [watch |-> TRUE, number |-> stored[c], unwatch |-> FALSE]]
<1>1. page = "loading" /\ page' = "open" /\ Enqueue(news) /\ UNCHANGED <<stored, pages, late, row, over, forgotten, revived>>
  BY DEF Load
<1>2. /\ News(news)
      /\ \A d \in Channels : d \in DOMAIN news <=> stored[d] # None
      /\ \A d \in Channels : stored[d] # None => news[d].watch /\ news[d].number = stored[d] /\ ~news[d].unwatch
  BY DEF News, IInv, TypeOK
<1> HIDE DEF news
<1>3. BridgeTypes' /\ FlushInv' /\ QueueGrows(news) /\ FlightStays /\ UNCHANGED rejected
      /\ (UNCHANGED at \/ at'.channel = None)
  BY <1>1, <1>2, EnqueueEffect DEF IInv
<1>4. TypeOK'
  BY <1>1, <1>3 DEF TypeOK, BridgeTypes, IInv
<1>5. /\ \A d \in Channels : WatchQueued(d)' <=> WatchQueued(d) \/ (stored[d] # None /\ d \notin rejected)
      /\ \A d \in Channels : UnwatchQueued(d)' <=> UnwatchQueued(d)
      /\ \A d \in Channels : stored[d] # None /\ d \notin rejected => RevokeQueued(d)' >= stored[d]
      /\ \A d \in Channels : stored[d] = None => queue'[d] = queue[d]
  BY <1>2, <1>3 DEF QueueGrows
<1>6. RemovedInv'
  BY <1>1, <1>5 DEF IInv, RemovedInv
<1>7. AnswerInv'
  BY <1>1, <1>2, <1>3, EnqueueKeepsAnswer DEF IInv
<1>8. KnownInv'
  BY <1>1, <1>3, <1>5 DEF KnownInv, Excused
<1>9. UnwatchInv'
  <2>1. ASSUME NEW d \in Channels, over[d] = pages PROVE stored[d] = None
    BY <1>1, <2>1 DEF IInv, RemovedInv, TypeOK
  <2>2. ASSUME NEW d \in Channels \ (rejected \cup forgotten), over[d] = pages, d \notin revived
        PROVE  /\ row[d] # None => row[d].unwatch \/ UnwatchQueued(d)'
               /\ WatchQueued(d)' => row[d] # None \/ UnwatchQueued(d)'
    BY <1>1, <1>5, <2>1, <2>2 DEF IInv, UnwatchInv, Excused
  <2>3. ASSUME at.channel # None, at.channel \notin rejected \cup forgotten, at.kind \in {"revoke", "unwatch"},
               WatchQueued(at.channel)', UNCHANGED at
        PROVE  row[at.channel] # None \/ (flight' # None /\ flight'.kind = "revoke" /\ flight'.result # "ok")
    <3>1. at.channel \in Channels
      BY <2>3 DEF IInv, TypeOK
    <3>2. CASE WatchQueued(at.channel)
      BY <1>1, <1>3, <2>3, <3>2 DEF IInv, UnwatchInv, Excused, FlightStays
    <3>3. CASE ~WatchQueued(at.channel)
      <4>1. stored[at.channel] # None
        BY <1>5, <2>3, <3>1, <3>3
      <4>2. flight # None
        BY <1>1, <2>3 DEF Load, Busy, IInv, FlushInv
      <4>3. flight.kind = at.kind /\ flight.channel = at.channel
        BY <4>2 DEF IInv, FlushInv
      <4>4. flight.kind # "unwatch"
        BY <1>1, <3>1, <4>1, <4>2, <4>3 DEF IInv, FlushInv, RemovedInv, TypeOK
      <4>5. at.channel \notin forgotten /\ flight.result = "ok" => row[at.channel] # None
        BY <2>3, <4>2, <4>3, <4>4 DEF IInv, AnswerInv
      <4>6. QED
        BY <1>3, <2>3, <4>2, <4>3, <4>4, <4>5 DEF FlightStays
    <3>4. QED
      BY <3>2, <3>3
  <2>4. QED
    BY <1>1, <1>3, <2>2, <2>3 DEF UnwatchInv, Excused
<1>10. QED
  BY <1>1, <1>3, <1>4, <1>6, <1>7, <1>8, <1>9 DEF IInv, PageInv

-----------------------------------------------------------------------------
(* Pages and passes.                                                       *)

(* The start of a page. *)
LEMMA StepOpen == ASSUME IInv, Open PROVE IInv'
<1>1. page' = "loading" /\ pages' = pages + 1 /\ page = "none" /\ NoPage
      /\ UNCHANGED <<stored, queue, rejected, flushing, todo, at, failed, flight, retry, wanted, late, row, over, forgotten, revived>>
  BY DEF Open, pageVars, IInv, PageInv
<1>2. queue = [c \in Channels |-> None] /\ at.channel = None /\ flight = None
  BY <1>1, StartTypes DEF NoPage
<1>3. TypeOK'
  BY <1>1 DEF IInv, TypeOK
<1>4. FlushInv'
  BY <1>1, <1>2 DEF IInv, FlushInv, Queued
<1>5. \A c \in Channels : over[c] \in Nat /\ over[c] <= pages /\ pages \in Nat /\ queue[c] = None
  BY <1>2 DEF IInv, RemovedInv, TypeOK
<1>6. RemovedInv'
  BY <1>1, <1>5 DEF IInv, RemovedInv, UnwatchQueued
<1>7. AnswerInv' /\ KnownInv'
  BY <1>1, <1>2 DEF AnswerInv, KnownInv
<1>8. UnwatchInv'
  <2>1. \A c \in Channels : over'[c] # pages'
    BY <1>1, <1>5
  <2>2. at'.channel = None
    BY <1>1, <1>2
  <2>3. QED
    BY <2>1, <2>2 DEF UnwatchInv
<1>9. QED
  BY <1>1, <1>3, <1>4, <1>6, <1>7, <1>8 DEF IInv, PageInv

(* The end of a page: what it knew is gone. *)
LEMMA StepClose == ASSUME IInv, Close PROVE IInv'
<1> USE QueueAssumption
<1>1. page' = "none" /\ UNCHANGED <<stored, pages, row, over, forgotten, revived>>
      /\ queue' = [c \in Channels |-> None] /\ rejected' = {} /\ flushing' = FALSE /\ todo' = {} /\ at' = Start
      /\ failed' = FALSE /\ flight' = None /\ retry' = FALSE /\ wanted' = FALSE
  BY DEF Close
<1>2. late' \subseteq Requests
  BY DEF Close, IInv, TypeOK, Flights, Requests
<1>3. TypeOK' /\ PageInv'
  BY <1>1, <1>2, StartTypes DEF IInv, TypeOK, PageInv, NoPage
<1>4. FlushInv' /\ AnswerInv'
  BY <1>1, StartTypes DEF FlushInv, AnswerInv
<1>5. RemovedInv'
  BY <1>1 DEF IInv, RemovedInv, UnwatchQueued
<1>6. KnownInv' /\ UnwatchInv'
  BY <1>1 DEF KnownInv, UnwatchInv
<1>7. QED
  BY <1>3, <1>4, <1>5, <1>6 DEF IInv

\* What the invariant says of the queue and the server, but for the flush.
Facts == <<stored, queue, rejected, page, pages, late, row, over, forgotten, revived>>

(* Where the flush is matters little. *)
LEMMA MoveOn ==
  ASSUME IInv, page # "none", UNCHANGED Facts, TypeOK', FlushInv',
         flight' = None \/ (flight' # None /\ flight'.result = "sent") \/ (flight' # None /\ flight'.result = "lookup"),
         at'.channel # None /\ at'.channel \notin Excused /\ at'.kind \in {"revoke", "unwatch"} /\ WatchQueued(at'.channel) =>
            row[at'.channel] # None \/ (flight' # None /\ flight'.kind = "revoke" /\ flight'.result # "ok")
  PROVE  IInv'
<1>1. PageInv' /\ RemovedInv' /\ KnownInv'
  BY DEF IInv, PageInv, RemovedInv, KnownInv, Facts, WatchQueued, UnwatchQueued, RevokeQueued, Excused
<1>2. AnswerInv'
  BY DEF AnswerInv
<1>3. UnwatchInv'
  BY DEF IInv, UnwatchInv, Facts, WatchQueued, UnwatchQueued, Excused
<1>4. QED
  BY <1>1, <1>2, <1>3 DEF IInv

(* The next channel, the next update and the end of a pass. *)
LEMMA StepPass == ASSUME IInv, Visit \/ SendUpdate \/ EndPass \/ Retry PROVE IInv'
<1> USE QueueAssumption
<1>1. flight = None /\ page # "none" /\ UNCHANGED Facts
  BY StartTypes DEF Visit, SendUpdate, EndPass, Retry, Busy, IInv, FlushInv, PageInv, NoPage, Facts
<1>2. CASE Visit
  <2>1. PICK c \in todo : todo' = todo \ {c} /\ at' = [channel |-> c, kind |-> "watch"]
    BY <1>2 DEF Visit
  <2>2. UNCHANGED <<flushing, failed, flight, retry, wanted>> /\ flushing
    BY <1>2 DEF Visit, Busy
  <2>3. c \in Channels /\ queue[c] # None
    BY <2>1 DEF IInv, FlushInv, Queued
  <2>4. TypeOK'
    BY <1>1, <2>1, <2>2, <2>3 DEF IInv, TypeOK, Facts, Kinds
  <2>5. FlushInv'
    BY <1>1, <2>1, <2>2, <2>3 DEF IInv, FlushInv, Facts, Queued
  <2>6. QED
    BY <1>1, <2>1, <2>2, <2>4, <2>5, MoveOn
<1>3. CASE SendUpdate
  <2> DEFINE c == at.channel
  <2>1. PICK k \in Rest :
          /\ \A other \in Rest : Rank(k) <= Rank(other)
          /\ at' = [at EXCEPT !.kind = k]
          /\ flight' = [channel |-> c, kind |-> k, number |-> queue[c].revoke, replaced |-> FALSE, result |-> "sent"]
    BY <1>3 DEF SendUpdate
  <2>2. c # None /\ c \in Channels /\ queue[c] # None /\ queue[c] \in Updates /\ flushing
        /\ UNCHANGED <<todo, flushing, failed, retry, wanted>> /\ c \notin todo
    BY <1>3 DEF SendUpdate, Busy, IInv, FlushInv, TypeOK
  <2>3. k \in Kinds /\ Rank(k) >= Rank(at.kind) /\ Waits(c, k)
    BY <2>1 DEF Rest
  <2>4. at'.channel = c /\ at'.kind = k /\ at' \in [channel : Channels \cup {None}, kind : Kinds \cup {"end"}]
    BY <2>1, <2>3 DEF IInv, TypeOK
  <2>5. flight' \in Flights /\ flight' # None /\ flight'.channel = c /\ flight'.kind = k /\ flight'.result = "sent"
        /\ flight'.number = queue[c].revoke
    <3>1. queue[c].revoke \in Nat
      BY <2>2 DEF Updates
    <3>2. flight' \in Flights
      BY <2>1, <2>2, <2>3, <3>1 DEF Flights, Results
    <3>3. QED
      BY <2>1, <3>2
  <2>6. TypeOK'
    BY <1>1, <2>2, <2>4, <2>5 DEF IInv, TypeOK, Facts
  <2>7. /\ k = "watch" => WatchQueued(c)
        /\ k = "revoke" => queue[c].revoke > 0
        /\ k = "unwatch" => UnwatchQueued(c)
    <3>1. queue[c].revoke \in Nat
      BY <2>2 DEF Updates
    <3>2. CASE k = "watch"
      BY <2>2, <2>3, <3>2 DEF Waits, WatchQueued
    <3>3. CASE k = "revoke"
      BY <2>2, <2>3, <3>1, <3>3 DEF Waits
    <3>4. CASE k = "unwatch"
      BY <2>2, <2>3, <3>4 DEF Waits, UnwatchQueued
    <3>5. QED
      BY <2>3, <3>2, <3>3, <3>4 DEF Kinds
  <2>8. FlushInv'
    BY <1>1, <2>2, <2>4, <2>5, <2>7 DEF IInv, FlushInv, Facts, Queued, WatchQueued, UnwatchQueued
  <2>9. ASSUME k = "unwatch", WatchQueued(c), c \notin Excused PROVE row[c] # None
    <3>1. "watch" \notin Rest
      BY <2>1, <2>9 DEF Rank
    <3>2. at.kind \in {"revoke", "unwatch"}
      BY <2>3, <2>9, <3>1 DEF Rest, Rank, Waits, WatchQueued, Kinds, IInv, TypeOK
    <3>3. QED
      BY <1>1, <2>2, <2>9, <3>2 DEF IInv, UnwatchInv
  <2>10. QED
    BY <1>1, <2>2, <2>4, <2>5, <2>6, <2>8, <2>9, MoveOn DEF Kinds
<1>4. CASE EndPass \/ Retry
  <2>1. at.channel = None /\ UNCHANGED <<at, flight>> /\ todo' \in {Queued, {}, todo} /\ flushing' \in BOOLEAN
        /\ retry' \in BOOLEAN /\ failed' \in BOOLEAN /\ wanted' \in BOOLEAN
    BY <1>4 DEF EndPass, Retry, Busy, IInv, TypeOK, FlushInv
  <2>2. todo' \subseteq Queued /\ Queued' = Queued /\ Queued \subseteq Channels
    BY <1>1, <2>1 DEF IInv, FlushInv, Queued, Facts
  <2>3. TypeOK'
    BY <1>1, <2>1, <2>2 DEF IInv, TypeOK, Facts
  <2>4. FlushInv'
    BY <1>1, <2>1, <2>2 DEF FlushInv
  <2>5. QED
    BY <1>1, <2>1, <2>3, <2>4, MoveOn
<1>5. QED
  BY <1>2, <1>3, <1>4

(* A logout asks for a last flush. *)
LEMMA StepFlush == ASSUME IInv, Flush PROVE IInv'
<1>1. page = "open" /\ page' = "leaving"
      /\ UNCHANGED <<stored, queue, rejected, at, failed, flight, pages, late, row, over, forgotten, revived>>
  BY DEF Flush
<1>2. (UNCHANGED <<todo, flushing>> \/ (~flushing /\ todo' = Queued /\ flushing' = TRUE))
      /\ retry' \in BOOLEAN /\ wanted' \in BOOLEAN
  BY DEF Flush, IInv, TypeOK
<1>3. todo' \subseteq Queued /\ Queued' = Queued /\ Queued \subseteq Channels
  BY <1>1, <1>2 DEF IInv, FlushInv, Queued
<1>4. TypeOK'
  BY <1>1, <1>2, <1>3 DEF IInv, TypeOK
<1>5. FlushInv'
  BY <1>1, <1>2, <1>3 DEF IInv, FlushInv, WatchQueued, UnwatchQueued
<1>6. PageInv' /\ RemovedInv' /\ AnswerInv'
  BY <1>1 DEF IInv, PageInv, RemovedInv, AnswerInv, WatchQueued, UnwatchQueued
<1>7. KnownInv'
  BY <1>1 DEF IInv, KnownInv, WatchQueued, RevokeQueued, Excused
<1>8. UnwatchInv'
  BY <1>1 DEF IInv, UnwatchInv, WatchQueued, UnwatchQueued, Excused
<1>9. QED
  BY <1>4, <1>5, <1>6, <1>7, <1>8 DEF IInv

-----------------------------------------------------------------------------
(* Answers.                                                                *)

\* The queue of one channel may have changed; the registration and the removal it had may be settled.
QueueSettles(c) ==
    /\ queue' \in [Channels -> Updates \cup {None}] /\ queue'[c] # None
    /\ \A d \in Channels : d # c => queue'[d] = queue[d]
    /\ WatchQueued(c)' => WatchQueued(c)
    /\ UnwatchQueued(c)' => UnwatchQueued(c)
    /\ WatchQueued(c) => WatchQueued(c)' \/ flight.kind = "watch"
    /\ UnwatchQueued(c) => UnwatchQueued(c)' \/ flight.kind = "unwatch"
    /\ \/ RevokeQueued(c)' = RevokeQueued(c)
       \/ RevokeQueued(c)' = 0 /\ flight.kind = "revoke" /\ flight.number = RevokeQueued(c)

(* What is under way is for a queued channel. *)
LEMMA FlightFacts ==
  ASSUME IInv, flight # None
  PROVE  /\ flight \in Flights /\ flight.channel \in Channels /\ flight.channel = at.channel /\ flight.kind = at.kind
         /\ flight.kind \in Kinds /\ flight.number \in Nat /\ queue[flight.channel] \in Updates
         /\ flight.channel \notin todo /\ flushing /\ page # "none"
BY QueueAssumption DEF IInv, TypeOK, FlushInv, Flights, PageInv, NoPage

(* The update that was sent leaves the queue. *)
LEMMA SettleEffect ==
  ASSUME IInv, flight # None, NEW c \in Channels, c = flight.channel,
         queue' = [queue EXCEPT ![c] = Without(queue[c], flight)]
  PROVE  QueueSettles(c)
<1> DEFINE w == Without(queue[c], flight)
<1>1. flight \in Flights /\ c \in Channels /\ queue[c] \in Updates /\ queue[c] # None
  BY FlightFacts, QueueAssumption
<1>2. /\ w \in Updates /\ w # None
      /\ w.watch <=> queue[c].watch /\ ~(flight.kind = "watch" /\ ~flight.replaced)
      /\ w.unwatch <=> queue[c].unwatch /\ ~(flight.kind = "unwatch" /\ ~flight.replaced)
      /\ w.revoke = queue[c].revoke \/ (w.revoke = 0 /\ flight.kind = "revoke" /\ flight.number = queue[c].revoke)
  BY <1>1, WithoutEffect
<1>3. queue' = [queue EXCEPT ![c] = w]
  OBVIOUS
<1> HIDE DEF w
<1>4. queue'[c] = w /\ queue' \in [Channels -> Updates \cup {None}] /\ \A d \in Channels : d # c => queue'[d] = queue[d]
  BY <1>1, <1>2, <1>3 DEF IInv, TypeOK
<1>5. /\ WatchQueued(c)' <=> w.watch
      /\ UnwatchQueued(c)' <=> w.unwatch
      /\ RevokeQueued(c)' = w.revoke
      /\ WatchQueued(c) <=> queue[c].watch
      /\ UnwatchQueued(c) <=> queue[c].unwatch
      /\ RevokeQueued(c) = queue[c].revoke
  BY <1>1, <1>2, <1>4 DEF WatchQueued, UnwatchQueued, RevokeQueued
<1>6. QED
  BY <1>2, <1>4, <1>5 DEF QueueSettles

(* What is queued elsewhere and the types stay. *)
LEMMA SettleKeeps ==
  ASSUME IInv, flight # None, NEW c \in Channels, c = flight.channel, QueueSettles(c), flight' = None, NEW kind \in Kinds \cup {"end"},
         at' = [at EXCEPT !.kind = kind], rejected' \subseteq Channels, failed' \in BOOLEAN,
         UNCHANGED <<stored, flushing, todo, retry, wanted, page, pages, late, row, over, forgotten, revived>>
  PROVE  TypeOK' /\ PageInv' /\ FlushInv' /\ RemovedInv' /\ AnswerInv' /\ at'.channel = at.channel /\ at'.kind = kind
<1>1. at'.channel = at.channel /\ at'.kind = kind /\ at' \in [channel : Channels \cup {None}, kind : Kinds \cup {"end"}]
  BY DEF IInv, TypeOK
<1>2. TypeOK'
  BY <1>1 DEF IInv, TypeOK, QueueSettles
<1>3. /\ \A d \in Channels : queue[d] # None => queue'[d] # None
      /\ \A d \in Channels : UnwatchQueued(d)' => UnwatchQueued(d)
      /\ \A d \in Channels : queue[d] = None => queue'[d] = None
  BY FlightFacts, QueueAssumption DEF QueueSettles, UnwatchQueued
<1>4. FlushInv'
  BY <1>1, <1>3, FlightFacts DEF IInv, FlushInv, Queued, TypeOK
<1>5. RemovedInv'
  BY <1>3 DEF IInv, RemovedInv
<1>6. PageInv' /\ AnswerInv'
  BY FlightFacts DEF PageInv, AnswerInv
<1>7. QED
  BY <1>1, <1>2, <1>4, <1>5, <1>6

(* The server has the update: it leaves the queue. *)
LEMMA StepSent == ASSUME IInv, Sent PROVE IInv'
<1> USE QueueAssumption
<1> SUFFICES ASSUME NEW c \in Channels, c = flight.channel PROVE IInv'
  BY FlightFacts DEF Sent
<1>1. flight # None /\ flight.result = "ok" /\ flight' = None /\ at' = [at EXCEPT !.kind = After(at.kind)]
      /\ UNCHANGED <<stored, rejected, flushing, todo, failed, retry, wanted, page, pages, late, row, over, forgotten, revived>>
  BY DEF Sent
<1>2. QueueSettles(c)
  BY <1>1, SettleEffect DEF Sent
<1>3. c \in Channels /\ c = at.channel /\ flight.kind = at.kind /\ flight.kind \in Kinds /\ page # "none"
  BY <1>1, FlightFacts
<1>4. After(at.kind) \in Kinds \cup {"end"}
  BY <1>3 DEF After, Kinds
<1>5. TypeOK' /\ PageInv' /\ FlushInv' /\ RemovedInv' /\ AnswerInv' /\ at'.channel = c /\ at'.kind = After(at.kind)
  BY <1>1, <1>2, <1>3, <1>4, SettleKeeps DEF IInv, TypeOK
<1>6. c \notin forgotten =>
        /\ flight.kind = "watch" => row[c] # None
        /\ flight.kind = "revoke" => row[c] # None /\ row[c].number >= flight.number
        /\ flight.kind = "unwatch" /\ row[c] # None => row[c].unwatch \/ c \in revived
  BY <1>1 DEF IInv, AnswerInv
<1>7. KnownInv'
  <2> SUFFICES ASSUME page \in {"open", "leaving"}, NEW d \in Channels, d \notin Excused, stored[d] # None
               PROVE  /\ WatchQueued(d)' \/ row[d] # None
                      /\ stored[d] = 0 \/ RevokeQueued(d)' >= stored[d] \/ (row[d] # None /\ row[d].number >= stored[d])
    BY <1>1 DEF KnownInv, Excused
  <2>1. /\ WatchQueued(d) \/ row[d] # None
        /\ stored[d] = 0 \/ RevokeQueued(d) >= stored[d] \/ (row[d] # None /\ row[d].number >= stored[d])
    BY DEF IInv, KnownInv
  <2>2. CASE d # c
    BY <1>2, <2>1, <2>2 DEF QueueSettles, WatchQueued, RevokeQueued
  <2>3. CASE d = c
    <3>1. stored[d] \in Nat /\ flight.number \in Nat /\ (row[d] # None => row[d].number \in Nat)
      BY <1>1, FlightFacts DEF IInv, TypeOK, Rows
    <3>2. WatchQueued(d)' \/ row[d] # None
      BY <1>2, <1>6, <2>1, <2>3 DEF QueueSettles, Excused
    <3>3. stored[d] = 0 \/ RevokeQueued(d)' >= stored[d] \/ (row[d] # None /\ row[d].number >= stored[d])
      BY <1>2, <1>6, <2>1, <2>3, <3>1 DEF QueueSettles, Excused
    <3>4. QED
      BY <3>2, <3>3
  <2>4. QED
    BY <2>2, <2>3
<1>8. UnwatchInv'
  <2>1. ASSUME NEW d \in Channels, d \notin Excused, over[d] = pages, d \notin revived
        PROVE  /\ row[d] # None => row[d].unwatch \/ UnwatchQueued(d)'
               /\ WatchQueued(d)' => row[d] # None \/ UnwatchQueued(d)'
    <3>1. /\ row[d] # None => row[d].unwatch \/ UnwatchQueued(d)
          /\ WatchQueued(d) => row[d] # None \/ UnwatchQueued(d)
      BY <1>3, <2>1 DEF IInv, UnwatchInv
    <3>2. CASE d # c
      BY <1>2, <3>1, <3>2 DEF QueueSettles, WatchQueued, UnwatchQueued
    <3>3. CASE d = c
      <4>1. WatchQueued(c) /\ flight.kind = "unwatch" => row[c] # None
        BY <1>3, <2>1, <3>3 DEF IInv, UnwatchInv
      <4>2. QED
        BY <1>2, <1>6, <2>1, <3>1, <3>3, <4>1 DEF QueueSettles, Excused
    <3>4. QED
      BY <3>2, <3>3
  <2>2. ASSUME c \notin Excused, After(at.kind) \in {"revoke", "unwatch"} PROVE row[c] # None
    BY <1>3, <1>6, <2>2 DEF After, Kinds, Excused
  <2>3. QED
    BY <1>1, <1>5, <2>1, <2>2 DEF UnwatchInv, Excused
<1>9. QED
  BY <1>5, <1>7, <1>8 DEF IInv

(* The update failed: it is looked up, given up or left for the retry. *)
LEMMA StepNotSent == ASSUME IInv, NotSent PROVE IInv'
<1> USE QueueAssumption
<1> SUFFICES ASSUME NEW c \in Channels, c = flight.channel PROVE IInv'
  BY FlightFacts DEF NotSent
<1>1. flight # None /\ flight.result \in {"refused", "unknown", "lost"}
      /\ UNCHANGED <<stored, flushing, todo, retry, wanted, page, pages, late, row, over, forgotten, revived>>
  BY DEF NotSent
<1>2. c = at.channel /\ flight.kind = at.kind /\ flight.kind \in Kinds /\ page # "none" /\ flight \in Flights
  BY <1>1, FlightFacts
<1>3. ASSUME flight' = [flight EXCEPT !.result = "lookup"], LookUp(c), UNCHANGED <<queue, rejected, at, failed>>
      PROVE  IInv'
  <2>1. flight' \in Flights /\ flight' # None /\ flight'.result = "lookup" /\ flight'.channel = c
        /\ flight'.kind = flight.kind /\ flight'.number = flight.number /\ flight.kind = "revoke"
    BY <1>2, <1>3 DEF Flights, Results, LookUp
  <2>2. TypeOK'
    BY <1>1, <1>3, <2>1 DEF IInv, TypeOK
  <2>3. FlushInv'
    BY <1>1, <1>2, <1>3, <2>1 DEF IInv, FlushInv, Queued, WatchQueued, UnwatchQueued
  <2>4. QED
    BY <1>1, <1>2, <1>3, <2>1, <2>2, <2>3, MoveOn DEF Facts
<1>4. ASSUME flight' = None, failed' = TRUE, at' = [at EXCEPT !.kind = "end"], UNCHANGED <<queue, rejected>>
      PROVE  IInv'
  <2>1. at'.channel = at.channel /\ at'.kind = "end" /\ at' \in [channel : Channels \cup {None}, kind : Kinds \cup {"end"}]
    BY <1>4 DEF IInv, TypeOK
  <2>2. TypeOK'
    BY <1>1, <1>4, <2>1 DEF IInv, TypeOK
  <2>3. FlushInv'
    BY <1>1, <1>2, <1>4, <2>1 DEF IInv, FlushInv, Queued
  <2>4. QED
    BY <1>1, <1>2, <1>4, <2>1, <2>2, <2>3, MoveOn DEF Facts
<1>5. ASSUME Hopeless(c), ~LookUp(c), flight' = None, UNCHANGED failed, QueueSettles(c),
             \/ flight.kind = "watch" /\ rejected' = rejected \cup {c} /\ at' = [at EXCEPT !.kind = "end"]
             \/ flight.kind # "watch" /\ rejected' = rejected /\ at' = [at EXCEPT !.kind = After(at.kind)]
      PROVE  IInv'
  <2>1. rejected' \subseteq Channels /\ failed' \in BOOLEAN
    BY <1>5 DEF IInv, TypeOK
  <2>2. PICK kind \in Kinds \cup {"end"} :
          at' = [at EXCEPT !.kind = kind] /\ (kind = "end" \/ (kind = "unwatch" /\ flight.kind = "revoke"))
    BY <1>2, <1>5 DEF After, Kinds
  <2>3. TypeOK' /\ PageInv' /\ FlushInv' /\ RemovedInv' /\ AnswerInv' /\ at'.channel = c /\ at'.kind = kind
    BY <1>1, <1>2, <1>5, <2>1, <2>2, SettleKeeps
  <2>4. rejected \subseteq rejected' /\ Excused \subseteq Excused' /\ (flight.kind = "watch" => c \in Excused')
    BY <1>1, <1>5 DEF Excused
  <2>5. flight.kind # "watch" =>
          flight.kind = "revoke" /\ flight.result = "unknown" /\ ~WatchQueued(c)
    BY <1>1, <1>5 DEF Hopeless, WatchQueued, IInv, FlushInv
  <2>6. KnownInv'
    <3> SUFFICES ASSUME page \in {"open", "leaving"}, NEW d \in Channels, d \notin Excused', stored[d] # None
                 PROVE  /\ WatchQueued(d)' \/ row[d] # None
                        /\ stored[d] = 0 \/ RevokeQueued(d)' >= stored[d] \/ (row[d] # None /\ row[d].number >= stored[d])
      BY <1>1 DEF KnownInv
    <3>1. d \notin Excused
      BY <2>4
    <3>2. d # c
      BY <1>1, <2>4, <2>5, <3>1 DEF IInv, AnswerInv, Excused
    <3>3. /\ WatchQueued(d) \/ row[d] # None
          /\ stored[d] = 0 \/ RevokeQueued(d) >= stored[d] \/ (row[d] # None /\ row[d].number >= stored[d])
      BY <3>1 DEF IInv, KnownInv
    <3>4. QED
      BY <1>5, <3>2, <3>3 DEF QueueSettles, WatchQueued, RevokeQueued
  <2>7. UnwatchInv'
    <3>1. ASSUME NEW d \in Channels, d \notin Excused', over[d] = pages, d \notin revived
          PROVE  /\ row[d] # None => row[d].unwatch \/ UnwatchQueued(d)'
                 /\ WatchQueued(d)' => row[d] # None \/ UnwatchQueued(d)'
      <4>1. d \notin Excused
        BY <2>4, <3>1
      <4>2. /\ row[d] # None => row[d].unwatch \/ UnwatchQueued(d)
            /\ WatchQueued(d) => row[d] # None \/ UnwatchQueued(d)
        BY <1>2, <3>1, <4>1 DEF IInv, UnwatchInv
      <4>3. CASE d # c
        BY <1>5, <4>2, <4>3 DEF QueueSettles, WatchQueued, UnwatchQueued
      <4>4. CASE d = c
        BY <1>5, <2>4, <2>5, <3>1, <4>2, <4>4 DEF QueueSettles
      <4>5. QED
        BY <4>3, <4>4
    <3>2. kind \in {"revoke", "unwatch"} => ~WatchQueued(c)'
      BY <1>5, <2>2, <2>5 DEF QueueSettles
    <3>3. QED
      BY <1>1, <2>3, <3>1, <3>2 DEF UnwatchInv, WatchQueued
  <2>8. QED
    BY <2>3, <2>6, <2>7 DEF IInv
<1>6. CASE ~LookUp(c) /\ Hopeless(c)
  <2>1. queue' = [queue EXCEPT ![c] = Without(queue[c], flight)] /\ flight' = None /\ UNCHANGED failed
        /\ IF flight.kind = "watch"
           THEN rejected' = rejected \cup {c} /\ at' = [at EXCEPT !.kind = "end"]
           ELSE at' = [at EXCEPT !.kind = After(at.kind)] /\ UNCHANGED rejected
    BY <1>6 DEF NotSent
  <2>2. QueueSettles(c)
    BY <1>1, <2>1, SettleEffect
  <2>3. QED
    BY <1>5, <1>6, <2>1, <2>2
<1>7. CASE LookUp(c)
  BY <1>3, <1>7 DEF NotSent
<1>8. CASE ~LookUp(c) /\ ~Hopeless(c)
  BY <1>4, <1>8 DEF NotSent
<1>9. QED
  BY <1>6, <1>7, <1>8

(* A registration that was looked up is queued again. *)
LEMMA StepLookedUp == ASSUME IInv, LookedUp PROVE IInv'
<1> USE QueueAssumption
<1> SUFFICES ASSUME NEW c \in Channels, c = flight.channel PROVE IInv'
  BY FlightFacts DEF LookedUp
<1>1. /\ flight # None /\ flight' = None /\ failed' = TRUE /\ at' = [at EXCEPT !.kind = "end"]
      /\ queue' = [queue EXCEPT ![c] = Registered(queue[c], stored[c] # None)] \/ UNCHANGED queue
      /\ UNCHANGED <<stored, rejected, flushing, todo, retry, wanted, page, pages, late, row, over, forgotten, revived>>
  BY DEF LookedUp
<1>2. c = at.channel /\ page # "none" /\ queue[c] \in Updates /\ queue[c] # None
  BY <1>1, FlightFacts
<1>3. at'.channel = c /\ at'.kind = "end" /\ at' \in [channel : Channels \cup {None}, kind : Kinds \cup {"end"}]
  BY <1>1, <1>2 DEF IInv, TypeOK
<1>4. /\ queue' \in [Channels -> Updates \cup {None}] /\ queue'[c] # None
      /\ \A d \in Channels : d # c => queue'[d] = queue[d]
      /\ RevokeQueued(c)' = RevokeQueued(c) /\ (UnwatchQueued(c)' <=> UnwatchQueued(c))
      /\ WatchQueued(c) => WatchQueued(c)'
      /\ WatchQueued(c)' => WatchQueued(c) \/ stored[c] # None
  <2>1. CASE UNCHANGED queue
    BY <1>2, <2>1 DEF IInv, TypeOK, RevokeQueued, UnwatchQueued, WatchQueued
  <2>2. CASE queue' = [queue EXCEPT ![c] = Registered(queue[c], stored[c] # None)]
    <3> DEFINE known == stored[c] # None
               w == Registered(queue[c], known)
    <3>1. known \in BOOLEAN
      OBVIOUS
    <3> HIDE DEF known
    <3>2. w \in Updates /\ w # None /\ w.revoke = queue[c].revoke /\ w.unwatch = queue[c].unwatch
          /\ (w.watch <=> queue[c].watch \/ known)
      BY <1>2, <3>1, RegisteredEffect
    <3>3. queue' = [queue EXCEPT ![c] = w]
      BY <2>2 DEF known
    <3> HIDE DEF w
    <3>4. queue'[c] = w /\ queue' \in [Channels -> Updates \cup {None}] /\ \A d \in Channels : d # c => queue'[d] = queue[d]
      BY <3>2, <3>3 DEF IInv, TypeOK
    <3>5. RevokeQueued(c)' = w.revoke /\ RevokeQueued(c) = queue[c].revoke
      BY <1>2, <3>2, <3>4 DEF RevokeQueued
    <3>6. (UnwatchQueued(c)' <=> w.unwatch) /\ (UnwatchQueued(c) <=> queue[c].unwatch)
          /\ (WatchQueued(c)' <=> w.watch) /\ (WatchQueued(c) <=> queue[c].watch)
      BY <1>2, <3>2, <3>4 DEF UnwatchQueued, WatchQueued
    <3>7. QED
      BY <3>2, <3>4, <3>5, <3>6 DEF known
  <2>3. QED
    BY <1>1, <2>1, <2>2
<1>5. TypeOK' /\ PageInv' /\ AnswerInv'
  BY <1>1, <1>2, <1>3, <1>4 DEF IInv, TypeOK, PageInv, AnswerInv
<1>6. FlushInv'
  BY <1>1, <1>2, <1>3, <1>4 DEF IInv, FlushInv, Queued
<1>7. RemovedInv'
  BY <1>1, <1>2, <1>4 DEF IInv, RemovedInv, UnwatchQueued
<1>8. KnownInv'
  BY <1>1, <1>4 DEF IInv, KnownInv, Excused, WatchQueued, RevokeQueued
<1>9. UnwatchInv'
  <2>1. pages \in Nat /\ pages # 0 /\ (stored[c] # None => over[c] # pages)
    BY <1>2 DEF IInv, RemovedInv, TypeOK
  <2>2. QED
    BY <1>1, <1>2, <1>3, <1>4, <2>1 DEF IInv, UnwatchInv, Excused, WatchQueued, UnwatchQueued
<1>10. QED
  BY <1>5, <1>6, <1>7, <1>8, <1>9 DEF IInv

(* A channel that has nothing more to send, or that the server will not watch, leaves the queue. *)
LEMMA StepLeave == ASSUME IInv, Leave PROVE IInv'
<1> USE QueueAssumption
<1> SUFFICES ASSUME NEW c \in Channels, c = at.channel PROVE IInv'
  BY DEF Leave, IInv, TypeOK
<1>1. /\ flight = None /\ flushing /\ at' = Start /\ page # "none"
      /\ queue' = [queue EXCEPT ![c] = IF c \in rejected \/ ~HasUpdate(queue[c]) THEN None ELSE queue[c]]
      /\ UNCHANGED <<stored, rejected, flushing, todo, failed, flight, retry, wanted, page, pages, late, row, over, forgotten,
                     revived>>
  BY DEF Leave, Busy, IInv, PageInv, NoPage
<1>2. c \notin todo /\ queue[c] # None /\ queue[c] \in Updates
  BY DEF IInv, FlushInv, TypeOK
<1>3. /\ queue' \in [Channels -> Updates \cup {None}]
      /\ \A d \in Channels : d # c => queue'[d] = queue[d]
      /\ queue'[c] = queue[c] \/ (queue'[c] = None /\ (c \in rejected \/ ~HasUpdate(queue[c])))
  BY <1>1, <1>2 DEF IInv, TypeOK
<1>4. /\ \A d \in Channels : UnwatchQueued(d)' => UnwatchQueued(d)
      /\ \A d \in Channels : WatchQueued(d)' => WatchQueued(d)
      /\ \A d \in Channels : queue[d] = None => queue'[d] = None
      /\ \A d \in Channels \ rejected :
            (UnwatchQueued(d) => UnwatchQueued(d)') /\ (WatchQueued(d) => WatchQueued(d)') /\ RevokeQueued(d)' = RevokeQueued(d)
  BY <1>2, <1>3 DEF UnwatchQueued, WatchQueued, RevokeQueued, HasUpdate, Updates
<1>5. TypeOK' /\ PageInv'
  BY <1>1, <1>3, StartTypes DEF IInv, TypeOK, PageInv
<1>6. FlushInv' /\ AnswerInv'
  BY <1>1, <1>2, <1>3, StartTypes DEF IInv, FlushInv, AnswerInv, Queued
<1>7. RemovedInv'
  BY <1>1, <1>4 DEF IInv, RemovedInv
<1>8. KnownInv'
  BY <1>1, <1>4 DEF IInv, KnownInv, Excused
<1>9. UnwatchInv'
  BY <1>1, <1>4, StartTypes DEF IInv, UnwatchInv, Excused
<1>10. QED
  BY <1>5, <1>6, <1>7, <1>8, <1>9 DEF IInv

-----------------------------------------------------------------------------
(* The server.                                                             *)

(* What the server records of a request it accepts. *)
LEMMA RecordEffect ==
  ASSUME row \in [Channels -> Rows \cup {None}], NEW r \in Requests, AnswerTo(r) = "ok", row' = Record(r),
         NEW c \in Channels, c = r.channel
  PROVE  /\ row' \in [Channels -> Rows \cup {None}]
         /\ \A d \in Channels : d # c => row'[d] = row[d]
         /\ row[c] # None => row'[c] # None /\ row'[c].number >= row[c].number /\ (row[c].unwatch => row'[c].unwatch)
         /\ r.kind = "watch" => row'[c] # None
         /\ r.kind = "revoke" => row'[c] # None /\ row'[c].number >= r.number
         /\ r.kind = "unwatch" /\ row'[c] # None => row'[c].unwatch
         /\ row[c] = None /\ row'[c] # None => r.kind = "watch"
<1> USE QueueAssumption
<1>1. r.kind \in Kinds /\ r.number \in Nat /\ row[c] \in Rows \cup {None}
  BY DEF Requests
<1>2. CASE r.kind = "watch"
  <2>1. row' = [row EXCEPT ![c] = IF row[c] = None THEN [number |-> 0, unwatch |-> FALSE] ELSE row[c]]
    BY <1>2 DEF Record
  <2>2. [number |-> 0, unwatch |-> FALSE] \in Rows /\ (row[c] # None => row[c].number \in Nat)
    BY <1>1 DEF Rows
  <2>3. CASE row[c] = None
    <3> DEFINE new == [number |-> 0, unwatch |-> FALSE]
    <3>1. row' = [row EXCEPT ![c] = new] /\ new \in Rows
      BY <2>1, <2>2, <2>3
    <3> HIDE DEF new
    <3>2. QED
      BY <1>2, <2>3, <3>1
  <2>4. CASE row[c] # None
    <3>1. row' = row
      BY <2>1, <2>4
    <3>2. QED
      BY <1>2, <2>2, <2>4, <3>1
  <2>5. QED
    BY <2>3, <2>4
<1>3. CASE r.kind = "revoke"
  <2>1. row[c] # None
    BY <1>3 DEF AnswerTo
  <2>2. row' = [row EXCEPT ![c] = [row[c] EXCEPT !.number = IF r.number > row[c].number THEN r.number ELSE row[c].number]]
    BY <1>3 DEF Record
  <2>3. QED
    BY <1>1, <1>3, <2>1, <2>2 DEF Rows
<1>4. CASE r.kind = "unwatch"
  <2>1. row' = [row EXCEPT ![c] = IF row[c] = None THEN None ELSE [row[c] EXCEPT !.unwatch = TRUE]]
    BY <1>4 DEF Record
  <2>2. CASE row[c] = None
    BY <1>1, <1>4, <2>1, <2>2
  <2>3. CASE row[c] # None
    <3> DEFINE new == [row[c] EXCEPT !.unwatch = TRUE]
    <3>1. new \in Rows /\ new.unwatch /\ new.number = row[c].number /\ new.number \in Nat
      BY <1>1, <2>3 DEF Rows
    <3>2. row' = [row EXCEPT ![c] = new]
      BY <2>1, <2>3
    <3> HIDE DEF new
    <3>3. QED
      BY <1>1, <1>4, <2>3, <3>1, <3>2
  <2>4. QED
    BY <2>2, <2>3
<1>5. QED
  BY <1>1, <1>2, <1>3, <1>4 DEF Kinds

\* The server's records only grow.
RowsGrow ==
    /\ row' \in [Channels -> Rows \cup {None}]
    /\ \A d \in Channels : row[d] # None =>
          row'[d] # None /\ row'[d].number >= row[d].number /\ (row[d].unwatch => row'[d].unwatch)

(* A record stays, whatever arrives. *)
LEMMA RecordGrows ==
  ASSUME row \in [Channels -> Rows \cup {None}], NEW r \in Requests,
         UNCHANGED row \/ (AnswerTo(r) = "ok" /\ row' = Record(r))
  PROVE  RowsGrow
<1>1. \A d \in Channels : row[d] # None => row[d].number \in Nat
  BY DEF Rows
<1>2. CASE UNCHANGED row
  BY <1>1, <1>2 DEF RowsGrow
<1>3. CASE AnswerTo(r) = "ok" /\ row' = Record(r)
  <2>1. r.channel \in Channels
    BY DEF Requests
  <2>2. QED
    BY <1>1, <1>3, <2>1, RecordEffect DEF RowsGrow
<1>4. QED
  BY <1>2, <1>3

(* What grows keeps what the invariant says the server has. *)
LEMMA RowsKeep ==
  ASSUME IInv, RowsGrow, UNCHANGED <<stored, pageVars, page, pages, over>>, late' \subseteq Requests,
         forgotten \subseteq forgotten', forgotten' \subseteq Channels, revived \subseteq revived', revived' \subseteq Channels,
         \A d \in Channels : row[d] = None /\ row'[d] # None => d \in revived'
  PROVE  IInv'
<1> USE DEF pageVars
<1>1. TypeOK' /\ PageInv'
  BY DEF IInv, TypeOK, RowsGrow, PageInv, NoPage
<1>2. FlushInv' /\ RemovedInv'
  BY DEF IInv, FlushInv, RemovedInv, Queued, WatchQueued, UnwatchQueued
<1>3. AnswerInv'
  <2>1. CASE flight = None
    BY <2>1 DEF AnswerInv
  <2>2. ASSUME flight # None, NEW c \in Channels, c = flight.channel PROVE AnswerInv'
    <3>1. flight.number \in Nat /\ (row[c] # None => row[c].number \in Nat) /\ (row'[c] # None => row'[c].number \in Nat)
      BY <2>2, FlightFacts DEF RowsGrow, IInv, TypeOK, Rows
    <3>2. QED
      BY <2>2, <3>1 DEF IInv, AnswerInv, RowsGrow, WatchQueued
  <2>3. QED
    BY <2>1, <2>2, FlightFacts
<1>4. KnownInv'
  <2> SUFFICES ASSUME page \in {"open", "leaving"}, NEW d \in Channels, d \notin Excused', stored[d] # None
               PROVE  /\ WatchQueued(d) \/ row'[d] # None
                      /\ stored[d] = 0 \/ RevokeQueued(d) >= stored[d] \/ (row'[d] # None /\ row'[d].number >= stored[d])
    BY DEF KnownInv, WatchQueued, RevokeQueued
  <2>1. /\ WatchQueued(d) \/ row[d] # None
        /\ stored[d] = 0 \/ RevokeQueued(d) >= stored[d] \/ (row[d] # None /\ row[d].number >= stored[d])
    BY DEF IInv, KnownInv, Excused
  <2>2. stored[d] \in Nat /\ (row[d] # None => row[d].number \in Nat) /\ (row'[d] # None => row'[d].number \in Nat)
    BY DEF RowsGrow, IInv, TypeOK, Rows
  <2>3. QED
    BY <2>1, <2>2 DEF RowsGrow
<1>5. UnwatchInv'
  <2>1. at.channel # None => at.channel \in Channels
    BY DEF IInv, TypeOK
  <2>2. QED
    BY <2>1 DEF IInv, UnwatchInv, RowsGrow, Excused, WatchQueued, UnwatchQueued
<1>6. QED
  BY <1>1, <1>2, <1>3, <1>4, <1>5 DEF IInv

(* The server takes a request, or it is lost. *)
LEMMA StepArrive == ASSUME IInv, Arrive \/ Lose PROVE IInv'
<1> USE QueueAssumption
<1> SUFFICES ASSUME NEW c \in Channels, c = flight.channel PROVE IInv'
  BY FlightFacts DEF Arrive, Lose
<1> DEFINE r == Request
<1>1. /\ flight # None
      /\ UNCHANGED <<stored, queue, rejected, flushing, todo, at, failed, retry, wanted, page, pages, late, over, forgotten,
                     revived>>
      /\ UNCHANGED row \/ (AnswerTo(r) = "ok" /\ row' = Record(r))
  BY DEF Arrive, Lose
<1>2. PICK result \in {AnswerTo(r), "lost"} :
        flight' = [flight EXCEPT !.result = result] /\ (result = "ok" => AnswerTo(r) = "ok" /\ row' = Record(r))
  BY DEF Arrive, Lose
<1>3. c = at.channel /\ flight.kind = at.kind /\ flight.kind \in Kinds /\ page # "none" /\ flight \in Flights
      /\ flight.number \in Nat
  BY <1>1, FlightFacts
<1>4. r \in Requests /\ r.channel = c /\ r.kind = flight.kind /\ r.number = flight.number
  BY <1>3 DEF Request, Requests
<1> HIDE DEF r
<1>5. /\ result \in {"ok", "refused", "unknown", "lost"}
      /\ result = "refused" => flight.kind = "watch"
      /\ result = "unknown" => flight.kind = "revoke" /\ row[c] = None
  BY <1>3, <1>4 DEF AnswerTo, Kinds
<1>6. flight' \in Flights /\ flight' # None /\ flight'.channel = c /\ flight'.kind = flight.kind
      /\ flight'.number = flight.number /\ flight'.result = result
  BY <1>2, <1>3, <1>5 DEF Flights, Results
<1>7. row \in [Channels -> Rows \cup {None}] /\ RowsGrow
  BY <1>1, <1>4, RecordGrows DEF IInv, TypeOK
<1>8. /\ \A d \in Channels : d # c => row'[d] = row[d]
      /\ row[c] = None /\ row'[c] # None => flight.kind = "watch"
      /\ result = "ok" =>
            /\ flight.kind = "watch" => row'[c] # None
            /\ flight.kind = "revoke" => row'[c] # None /\ row'[c].number >= flight.number
            /\ flight.kind = "unwatch" /\ row'[c] # None => row'[c].unwatch
  BY <1>1, <1>2, <1>4, <1>7, RecordEffect
<1>9. TypeOK' /\ PageInv' /\ RemovedInv'
  BY <1>1, <1>3, <1>6, <1>7 DEF IInv, TypeOK, RowsGrow, PageInv, RemovedInv, UnwatchQueued
<1>10. FlushInv'
  BY <1>1, <1>3, <1>5, <1>6 DEF IInv, FlushInv, Queued, WatchQueued, UnwatchQueued
<1>11. AnswerInv'
  <2>1. ASSUME c \notin forgotten, result = "unknown", page \in {"open", "leaving"}, c \notin rejected, stored[c] # None
        PROVE  WatchQueued(c)
    BY <1>5, <2>1 DEF IInv, KnownInv, Excused
  <2>2. QED
    BY <1>1, <1>6, <1>8, <2>1 DEF AnswerInv, WatchQueued
<1>12. KnownInv'
  <2> SUFFICES ASSUME page \in {"open", "leaving"}, NEW d \in Channels, d \notin Excused, stored[d] # None
               PROVE  /\ WatchQueued(d) \/ row'[d] # None
                      /\ stored[d] = 0 \/ RevokeQueued(d) >= stored[d] \/ (row'[d] # None /\ row'[d].number >= stored[d])
    BY <1>1 DEF KnownInv, WatchQueued, RevokeQueued, Excused
  <2>1. /\ WatchQueued(d) \/ row[d] # None
        /\ stored[d] = 0 \/ RevokeQueued(d) >= stored[d] \/ (row[d] # None /\ row[d].number >= stored[d])
    BY DEF IInv, KnownInv
  <2>2. stored[d] \in Nat /\ (row[d] # None => row[d].number \in Nat) /\ (row'[d] # None => row'[d].number \in Nat)
    BY <1>7 DEF RowsGrow, IInv, TypeOK, Rows
  <2>3. QED
    BY <1>7, <2>1, <2>2 DEF RowsGrow
<1>13. UnwatchInv'
  <2>1. ASSUME NEW d \in Channels, d \notin Excused, over[d] = pages, d \notin revived
        PROVE  /\ row'[d] # None => row'[d].unwatch \/ UnwatchQueued(d)
               /\ WatchQueued(d) => row'[d] # None \/ UnwatchQueued(d)
    <3>1. /\ row[d] # None => row[d].unwatch \/ UnwatchQueued(d)
          /\ WatchQueued(d) => row[d] # None \/ UnwatchQueued(d)
      BY <1>3, <2>1 DEF IInv, UnwatchInv
    <3>2. row[d] = None /\ row'[d] # None => WatchQueued(d)
      BY <1>1, <1>8 DEF IInv, FlushInv
    <3>3. QED
      BY <1>7, <3>1, <3>2 DEF RowsGrow
  <2>2. ASSUME at.channel \notin Excused, at.kind \in {"revoke", "unwatch"}, WatchQueued(at.channel)
        PROVE  row'[at.channel] # None \/ (flight'.kind = "revoke" /\ flight'.result # "ok")
    <3>1. row[c] # None \/ flight.kind = "revoke"
      BY <1>3, <2>2 DEF IInv, UnwatchInv
    <3>2. QED
      BY <1>3, <1>6, <1>7, <1>8, <3>1 DEF RowsGrow
  <2>3. QED
    BY <1>1, <1>3, <1>6, <2>1, <2>2 DEF UnwatchInv, Excused, WatchQueued, UnwatchQueued
<1>14. QED
  BY <1>9, <1>10, <1>11, <1>12, <1>13 DEF IInv

(* A request of a page that is gone. *)
LEMMA StepArriveLate == ASSUME IInv, NEW r \in late, ArriveLate(r) PROVE IInv'
<1>1. r \in Requests /\ row \in [Channels -> Rows \cup {None}]
  BY DEF IInv, TypeOK
<1>2. UNCHANGED row \/ (AnswerTo(r) = "ok" /\ row' = Record(r))
  BY DEF ArriveLate
<1>3. RowsGrow
  BY <1>1, <1>2, RecordGrows
<1>4. QED
  BY <1>3, RowsKeep DEF ArriveLate, IInv, TypeOK

(* The server drops a record. *)
LEMMA StepForgetRecord == ASSUME IInv, NEW c \in Channels, ForgetRecord(c) PROVE IInv'
<1> USE DEF pageVars
<1>1. /\ row' = [row EXCEPT ![c] = None] /\ forgotten' = forgotten \cup {c}
      /\ UNCHANGED <<stored, pageVars, page, pages, late, over, revived>>
  BY DEF ForgetRecord
<1>2. row' \in [Channels -> Rows \cup {None}] /\ \A d \in Channels : d # c => row'[d] = row[d]
  BY <1>1 DEF IInv, TypeOK
<1>3. TypeOK' /\ PageInv' /\ FlushInv' /\ RemovedInv'
  BY <1>1, <1>2 DEF IInv, TypeOK, PageInv, NoPage, FlushInv, RemovedInv, Queued, WatchQueued, UnwatchQueued
<1>4. AnswerInv'
  <2>1. flight # None => flight.channel \in Channels
    BY FlightFacts
  <2>2. QED
    BY <1>1, <1>2, <2>1 DEF IInv, AnswerInv, WatchQueued
<1>5. KnownInv'
  BY <1>1, <1>2 DEF IInv, KnownInv, Excused, WatchQueued, RevokeQueued
<1>6. UnwatchInv'
  <2>1. at.channel # None => at.channel \in Channels
    BY DEF IInv, TypeOK
  <2>2. QED
    BY <1>1, <1>2, <2>1 DEF IInv, UnwatchInv, Excused, WatchQueued, UnwatchQueued
<1>7. QED
  BY <1>3, <1>4, <1>5, <1>6 DEF IInv

(* Nothing happens. *)
LEMMA StepStutter == ASSUME IInv, UNCHANGED vars PROVE IInv'
<1>1. TypeOK' /\ PageInv' /\ FlushInv' /\ RemovedInv' /\ AnswerInv'
  BY DEF IInv, vars, pageVars, TypeOK, PageInv, NoPage, FlushInv, RemovedInv, AnswerInv, Queued, WatchQueued,
     UnwatchQueued
<1>2. KnownInv' /\ UnwatchInv'
  BY DEF IInv, vars, pageVars, KnownInv, UnwatchInv, Excused, WatchQueued, RevokeQueued, UnwatchQueued
<1>3. QED
  BY <1>1, <1>2 DEF IInv

-----------------------------------------------------------------------------
(* Theorems.                                                               *)

(* The inductive invariant. *)
LEMMA QueueInvariant == Spec => []IInv
<1>1. IInv /\ [Next]_vars => IInv'
  <2> SUFFICES ASSUME IInv, [Next]_vars PROVE IInv'
    OBVIOUS
  <2>1. ASSUME NEW c \in Channels, NodeOpens(c) \/ NodeRevokes(c) \/ NodeRemoves(c) \/ ForgetRecord(c) PROVE IInv'
    BY <2>1, StepNodeOpens, StepNodeRevokes, StepNodeRemoves, StepForgetRecord
  <2>2. CASE Step \/ Retry
    BY <2>2, StepPass, StepSent, StepNotSent, StepLookedUp, StepLeave DEF Step
  <2>3. CASE Open \/ Load \/ Flush \/ Close
    BY <2>3, StepOpen, StepLoad, StepFlush, StepClose
  <2>4. CASE Arrive \/ Lose
    BY <2>4, StepArrive
  <2>5. ASSUME NEW r \in late, ArriveLate(r) PROVE IInv'
    BY <2>5, StepArriveLate
  <2>6. CASE UNCHANGED vars
    BY <2>6, StepStutter
  <2>7. QED
    BY <2>1, <2>2, <2>3, <2>4, <2>5, <2>6 DEF Next
<1>2. Spec => Init /\ [][Next]_vars
  BY DEF Spec
<1>3. QED
  BY <1>1, <1>2, InitIInv, PTL

(* The queue, the request under way and the server's records keep their types, and a page that is gone has neither. *)
THEOREM QueueTypes == Spec => []TypeOK
<1>1. IInv => TypeOK
  BY DEF IInv
<1>2. QED
  BY <1>1, QueueInvariant, PTL

(* While nothing is queued, the server has every channel's newest revocation and every removal of this page, for any
   number of channels and revocations and whatever requests get lost, refused or late. *)
THEOREM QuietPageIsSafe == Spec => []QuietMeansKnown
<1>1. IInv => QuietMeansKnown
  <2> SUFFICES ASSUME IInv, page \in {"open", "leaving"}, Pending = {}, NEW c \in Channels \ (rejected \cup forgotten)
               PROVE  /\ stored[c] # None => row[c] # None /\ row[c].number >= stored[c]
                      /\ over[c] = pages /\ row[c] # None /\ c \notin revived => row[c].unwatch
    BY DEF QuietMeansKnown
  <2>1. ~WatchQueued(c) /\ ~UnwatchQueued(c) /\ RevokeQueued(c) = 0
    BY DEF Pending, HasUpdate, WatchQueued, UnwatchQueued, RevokeQueued
  <2>2. /\ stored[c] # None =>
              /\ WatchQueued(c) \/ row[c] # None
              /\ stored[c] = 0 \/ RevokeQueued(c) >= stored[c] \/ (row[c] # None /\ row[c].number >= stored[c])
        /\ over[c] = pages /\ c \notin revived /\ row[c] # None => row[c].unwatch \/ UnwatchQueued(c)
    BY DEF IInv, KnownInv, UnwatchInv, Excused
  <2>3. (stored[c] # None => stored[c] \in Nat) /\ (row[c] # None => row[c].number \in Nat)
    BY DEF IInv, TypeOK, Rows
  <2>4. QED
    BY <2>1, <2>2, <2>3
<1>2. QED
  BY <1>1, QueueInvariant, PTL
=============================================================================
