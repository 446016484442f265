-------------------------- MODULE WorkspaceProofs --------------------------
(* Proofs about the page, for every set of personas and any number of         *)
(* commands, messages, events and failures.                                   *)
EXTENDS Workspace, SequenceTheorems, WellFoundedInduction, TLAPS

-----------------------------------------------------------------------------
(* Types                                                                      *)

Durable == [kind : {"old", "user", "reply", "event"}, n : Nat]
Shown == [kind : {"old", "user", "reply", "event", "temp", "failed"}, n : Nat]
Unanswered == {"asked", "thinking"}
Failures == {"failed", "denied", "unavailable"}
Statuses == Unanswered \cup Failures \cup {"answered"}
Someone == Personas \cup {None}
Somewhere == Conversations \cup {None}

HistoryCalls == [kind : {"history", "news"}, conv : Conversations, revision : Nat, n : Nat,
                 status : Statuses, messages : SUBSET Durable]
LoadCalls == [kind : {"load"}, gen : Nat, key : Someone, status : Statuses,
              list : SUBSET Conversations]
AuthCalls == [kind : {"auth"}, gen : Nat, status : Statuses, persona : Someone]
CreateCalls == [kind : {"create"}, gen : Nat, key : Someone, status : Statuses, conv : Somewhere]
ChatCalls == [kind : {"chat"}, gen : Nat, conv : Conversations, n : Nat, status : Statuses]
DeleteCalls == [kind : {"delete"}, conv : Conversations, message : Durable, status : Statuses]
Calls == HistoryCalls \cup LoadCalls \cup AuthCalls \cup CreateCalls \cup ChatCalls
         \cup DeleteCalls

Commands == [name : {"list", "start", "session", "switch", "save"}, to : Someone,
             seen : Someone, mark : Nat, done : {"no", "ok", "failed"}, listed : Someone]

Histories == [Conversations -> [messages : SUBSET Shown, revision : Nat]]
Pages == [gen : Nat, attempt : Nat, backend : {"checking", "connected", "error"},
          auth : {"checking", "authenticated", "unauthenticated"},
          persona : Someone, listed : Someone, main : Somewhere, history : Histories,
          pending : [Conversations -> Nat], section : {"chat", "data"}, unavailable : BOOLEAN,
          guessed : BOOLEAN, received : SUBSET Nat, cursor : Nat \cup {None}, toast : Somewhere]

\* The world outside the page.
WorldInv ==
  /\ native \in [active : Personas, running : BOOLEAN, queue : Seq(Commands)]
  /\ open \subseteq Conversations
  /\ store \in [Conversations -> SUBSET Durable]
  /\ spent \in [commands : Nat, sends : Nat, deletes : Nat, events : Nat, views : Nat,
                troubles : Nat]

\* Events are in conversations that exist.
EventsInv ==
  /\ DOMAIN news = Personas /\ \A p \in Personas : news[p] \in Seq(Of(p))
  /\ ui.toast # None => ui.toast \in open
  /\ poll \in [phase : {"idle", "answered", "announcing"}, live : BOOLEAN, of : Someone,
               rest : SUBSET Nat, latest : Nat]
  /\ poll.phase # "idle" => poll.of \in Personas /\ poll.rest \subseteq DOMAIN news[poll.of]
  /\ poll.phase = "announcing" => poll.rest # {}

-----------------------------------------------------------------------------
(* What holds of a page u with the calls cs and the commands q open, when st  *)
(* is stored and n messages were sent.                                        *)

\* A reply is stored once, in the conversation it was asked in, before it is
\* answered; and received after that.
ChatsOK(u, cs, st, n) ==
  /\ \A x \in cs : x.kind = "chat" =>
       /\ x.n \in 1..n /\ x.n \notin u.received
       /\ \A c \in Conversations : Message("reply", x.n) \in st[c] =>
            c = x.conv /\ x.status \notin Unanswered
  /\ \A x, y \in cs : x.kind = "chat" /\ y.kind = "chat" /\ x.n = y.n => x = y
  /\ \A c \in Conversations : \A m \in st[c] : m.kind = "reply" => m.n <= n
  /\ \A k \in u.received : k <= n

\* A load that may still replace the cache has every reply this session received.
SnapshotsOK(u, cs, st) ==
  \A x \in cs : x.kind \in {"history", "news"} =>
    /\ x.conv = u.main /\ x.revision <= u.history[x.conv].revision
    /\ x.status = "answered" /\ x.revision = u.history[x.conv].revision =>
         \A k \in u.received :
           Message("reply", k) \in st[x.conv] => Message("reply", k) \in x.messages

\* A reply that was deleted does not come back.
DeletesOK(cs, st, n) ==
  \A x \in cs : x.kind = "delete" /\ x.message.kind = "reply" =>
    /\ x.message.n <= n
    /\ x.status = "answered" => x.message \notin st[x.conv]
    /\ \A y \in cs : y.kind = "chat" /\ y.n = x.message.n => y.status \notin Unanswered

RepliesOK(u, cs, st, n) == ChatsOK(u, cs, st, n) /\ SnapshotsOK(u, cs, st) /\ DeletesOK(cs, st, n)

\* What says it is being sent is.
SentBy(u, cs, c, k) ==
  \E x \in cs : x.kind = "chat" /\ x.conv = c /\ x.n = k /\ x.gen = u.gen
PendingOK(u, cs) ==
  \A c \in Conversations :
    /\ u.pending[c] # 0 => SentBy(u, cs, c, u.pending[c])
    /\ \A m \in u.history[c].messages : m.kind = "temp" => SentBy(u, cs, c, m.n)

\* Nothing is asked for a session to come.
MarksOK(u, cs, q) ==
  /\ \A x \in cs : x.kind \in {"auth", "load", "create", "chat"} => x.gen <= u.gen
  /\ \A i \in DOMAIN q : q[i].name = "session" => q[i].mark <= u.gen

\* Only the head is executed, and the page sees it before the next one is.
QueueOK(q, active) ==
  \A i \in DOMAIN q :
    /\ i > 1 => q[i].done = "no"
    /\ q[i].done # "no" => q[i].listed = active
    /\ q[i].name = "switch" => q[i].to \in Personas

\* Until a switch is answered the page has no session, and none on its way.
SwitchOK(u, cs, q) ==
  \A i \in DOMAIN q : q[i].name = "switch" =>
    /\ \A j \in DOMAIN q : j < i => ~(q[j].name = "session" /\ q[j].mark = u.gen)
    /\ \A x \in cs : x.kind \in {"auth", "load", "create"} => x.gen # u.gen
    /\ u.auth # "authenticated" /\ u.main = None

PersonaOK(u, cs, active) ==
  /\ u.auth = "authenticated" /\ ~u.unavailable => u.persona = active
  /\ u.auth = "authenticated" /\ u.unavailable => u.guessed
  /\ \A x \in cs : x.kind = "auth" /\ x.gen = u.gen /\ x.status = "answered"
                     => x.persona = active

\* `mine` are the conversations of the active persona.
MainOK(u, cs, mine) ==
  /\ ~u.guessed /\ u.main # None => u.main \in mine
  /\ \A x \in cs : x.kind = "load" /\ x.gen = u.gen /\ x.status = "answered" => x.list \subseteq mine
  /\ \A x \in cs : x.kind = "create" /\ x.gen = u.gen /\ x.status = "answered" => x.conv \in mine

SessionOK(u, cs, q, active, mine) ==
  /\ MarksOK(u, cs, q) /\ QueueOK(q, active) /\ SwitchOK(u, cs, q)
  /\ PersonaOK(u, cs, active) /\ MainOK(u, cs, mine)

PageOK(u, cs, q, n) ==
  /\ u \in Pages /\ cs \subseteq Calls /\ q \in Seq(Commands)
  /\ RepliesOK(u, cs, store, n) /\ PendingOK(u, cs)
  /\ SessionOK(u, cs, q, native.active, Of(native.active))

WorkspaceInv ==
  /\ WorldInv /\ EventsInv
  /\ PageOK(ui, calls, native.queue, spent.sends)

-----------------------------------------------------------------------------
(* A commit of the page                                                       *)

\* What the invariant looks at in a page: its messages, and its session.
SameCache(u, v) ==
  /\ v.gen = u.gen /\ v.main = u.main /\ v.history = u.history
  /\ v.pending = u.pending /\ v.received = u.received
SameSession(u, v) ==
  /\ v.gen = u.gen /\ v.main = u.main /\ v.auth = u.auth /\ v.persona = u.persona
  /\ v.unavailable = u.unavailable /\ v.guessed = u.guessed
Same(u, v) == SameCache(u, v) /\ SameSession(u, v)

\* The queue r is q with commands added, none of them a switch.
Longer(q, r, gen) ==
  /\ r \in Seq(Commands) /\ Len(q) <= Len(r) /\ \A i \in DOMAIN q : r[i] = q[i]
  /\ \A i \in DOMAIN r : i > Len(q) =>
       /\ r[i].name # "switch" /\ r[i].done = "no"
       /\ r[i].name = "session" => r[i].mark = gen

\* The calls ds are those of cs, but for loads of the cache that were
\* cancelled, and calls made by the effects of the page u.
Effects(u, cs, ds) ==
  /\ \A x \in ds : \/ x \in cs
                   \/ /\ x.kind = "load" /\ x.gen = u.gen /\ x.status = "asked"
                      /\ u.auth = "authenticated"
                   \/ /\ x.kind \in {"history", "news"} /\ x.conv = u.main /\ x.status = "asked"
                      /\ u.main # None /\ x.revision = u.history[u.main].revision
  /\ \A x \in cs : x.kind = "chat" => x \in ds

LEMMA DrawnReplies ==
  ASSUME NEW u \in Pages, NEW v, SameCache(u, v), NEW cs, NEW ds, NEW st, NEW n,
         RepliesOK(u, cs, st, n), Effects(u, cs, ds)
  PROVE  RepliesOK(v, ds, st, n)
<1>1. ChatsOK(v, ds, st, n)
  <2>1. \A x \in ds : x.kind = "chat" => x \in cs  BY DEF Effects
  <2> QED  BY <2>1 DEF RepliesOK, ChatsOK, SameCache
<1>2. SnapshotsOK(v, ds, st)
  <2> SUFFICES ASSUME NEW x \in ds, x.kind \in {"history", "news"}
               PROVE  /\ x.conv = v.main /\ x.revision <= v.history[x.conv].revision
                      /\ x.status = "answered" /\ x.revision = v.history[x.conv].revision =>
                           \A k \in v.received :
                             Message("reply", k) \in st[x.conv] => Message("reply", k) \in x.messages
    BY DEF SnapshotsOK
  <2>1. CASE x \in cs  BY <2>1 DEF RepliesOK, SnapshotsOK, SameCache
  <2>2. CASE x \notin cs
    <3>1. /\ x.conv = u.main /\ x.status = "asked" /\ u.main # None
          /\ x.revision = u.history[u.main].revision
      BY <2>2 DEF Effects
    <3>2. u.main \in Conversations  BY <3>1 DEF Pages, Somewhere
    <3>3. u.history[u.main].revision \in Nat  BY <3>2 DEF Pages, Histories
    <3> QED  BY <3>1, <3>3 DEF SameCache
  <2> QED  BY <2>1, <2>2
<1>3. DeletesOK(ds, st, n)
  <2>1. \A x \in ds : x.kind \in {"chat", "delete"} => x \in cs  BY DEF Effects
  <2> QED  BY <2>1 DEF RepliesOK, DeletesOK
<1> QED  BY <1>1, <1>2, <1>3 DEF RepliesOK

LEMMA DrawnPending ==
  ASSUME NEW u, NEW v, SameCache(u, v), NEW cs, NEW ds, PendingOK(u, cs), Effects(u, cs, ds)
  PROVE  PendingOK(v, ds)
<1>1. ASSUME NEW c, NEW k, SentBy(u, cs, c, k)  PROVE SentBy(v, ds, c, k)
  BY <1>1 DEF SentBy, SameCache, Effects
<1> QED  BY <1>1 DEF PendingOK, SameCache

LEMMA DrawnSession ==
  ASSUME NEW u \in Pages, NEW v, SameSession(u, v), NEW cs, NEW ds, NEW q \in Seq(Commands), NEW r,
         NEW active, NEW mine, SessionOK(u, cs, q, active, mine), Effects(u, cs, ds),
         Longer(q, r, u.gen)
  PROVE  SessionOK(v, ds, r, active, mine)
<1>0. /\ DOMAIN q = 1..Len(q) /\ DOMAIN r = 1..Len(r) /\ Len(q) \in Nat /\ Len(r) \in Nat
      /\ u.gen \in Nat
  BY LenProperties DEF Longer, Pages
<1>a. \A i \in DOMAIN r : \/ i \in DOMAIN q /\ r[i] = q[i]
                          \/ /\ i > Len(q) /\ r[i].name # "switch" /\ r[i].done = "no"
                             /\ r[i].name = "session" => r[i].mark = u.gen
  BY <1>0 DEF Longer
<1>1. MarksOK(v, ds, r)
  <2>1. \A x \in ds : x.kind \in {"auth", "load", "create", "chat"} => x.gen <= v.gen
    BY <1>0 DEF SessionOK, MarksOK, Effects, SameSession
  <2>2. \A i \in DOMAIN r : r[i].name = "session" => r[i].mark <= v.gen
    BY <1>0, <1>a DEF SessionOK, MarksOK, SameSession
  <2> QED  BY <2>1, <2>2 DEF MarksOK
<1>2. QueueOK(r, active)
  BY <1>a DEF SessionOK, QueueOK
<1>3. SwitchOK(v, ds, r)
  <2> SUFFICES ASSUME NEW i \in DOMAIN r, r[i].name = "switch"
               PROVE  /\ \A j \in DOMAIN r : j < i => ~(r[j].name = "session" /\ r[j].mark = v.gen)
                      /\ \A x \in ds : x.kind \in {"auth", "load", "create"} => x.gen # v.gen
                      /\ v.auth # "authenticated" /\ v.main = None
    BY DEF SwitchOK
  <2>1. i \in DOMAIN q /\ q[i].name = "switch"  BY <1>a
  <2>2. /\ \A j \in DOMAIN q : j < i => ~(q[j].name = "session" /\ q[j].mark = u.gen)
        /\ \A x \in cs : x.kind \in {"auth", "load", "create"} => x.gen # u.gen
        /\ u.auth # "authenticated" /\ u.main = None
    BY <2>1 DEF SessionOK, SwitchOK
  <2>3. \A j \in DOMAIN r : j < i => j \in DOMAIN q /\ r[j] = q[j]
    BY <1>0, <1>a, <2>1
  <2> QED  BY <2>2, <2>3 DEF Effects, SameSession
<1>4. PersonaOK(v, ds, active)
  BY DEF SessionOK, PersonaOK, Effects, SameSession
<1>5. MainOK(v, ds, mine)
  BY DEF SessionOK, MainOK, Effects, SameSession
<1> QED  BY <1>1, <1>2, <1>3, <1>4, <1>5 DEF SessionOK

\* The loads of the cache of the conversation shown survive a change of it.
Shared(next, kept) ==
  {x \in kept : x.kind \in {"history", "news"} => next.main = ui.main}

LEMMA LoadCallIsCall ==
  ASSUME NEW u \in Pages
  PROVE  /\ LoadCall(u) \in Calls
         /\ LoadCall(u).kind = "load" /\ LoadCall(u).gen = u.gen /\ LoadCall(u).status = "asked"
BY DEF LoadCall, Pages, Calls, LoadCalls, Statuses, Unanswered

LEMMA HistoryCallIsCall ==
  ASSUME NEW c \in Conversations, NEW k \in Nat
  PROVE  /\ HistoryCall(c, k) \in HistoryCalls
         /\ HistoryCall(c, k).kind = "history" /\ HistoryCall(c, k).conv = c
         /\ HistoryCall(c, k).revision = k /\ HistoryCall(c, k).status = "asked"
BY DEF HistoryCall, HistoryCalls, Statuses, Unanswered

LEMMA LongerByTwo ==
  ASSUME NEW queue \in Seq(Commands), NEW asks \in Seq(Commands), NEW starts \in Seq(Commands),
         NEW gen,
         \A i \in 1..Len(asks) :
           asks[i].name = "session" /\ asks[i].done = "no" /\ asks[i].mark = gen,
         \A i \in 1..Len(starts) : starts[i].name = "start" /\ starts[i].done = "no"
  PROVE  Longer(queue, (queue \o asks) \o starts, gen)
<1>1. PICK first : first = queue \o asks  OBVIOUS
<1>2. /\ first \in Seq(Commands) /\ Len(first) = Len(queue) + Len(asks)
      /\ \A i \in 1..Len(queue) + Len(asks) :
           first[i] = IF i <= Len(queue) THEN queue[i] ELSE asks[i - Len(queue)]
  BY <1>1, ConcatProperties
<1>3. PICK all : all = first \o starts  OBVIOUS
<1>a. first \in Seq(Commands)  BY <1>2
<1>4. /\ all \in Seq(Commands) /\ Len(all) = Len(first) + Len(starts)
      /\ \A i \in 1..Len(first) + Len(starts) :
           all[i] = IF i <= Len(first) THEN first[i] ELSE starts[i - Len(first)]
  BY <1>a, <1>3, ConcatProperties
<1>5. /\ Len(queue) \in Nat /\ Len(asks) \in Nat /\ Len(starts) \in Nat
      /\ DOMAIN queue = 1..Len(queue) /\ DOMAIN all = 1..Len(all)
  BY <1>4, LenProperties
<1>6. Len(queue) <= Len(all) /\ \A i \in DOMAIN queue : all[i] = queue[i]
  BY <1>2, <1>4, <1>5
<1>7. ASSUME NEW i \in DOMAIN all, i > Len(queue)
      PROVE  /\ all[i].name # "switch" /\ all[i].done = "no"
             /\ all[i].name = "session" => all[i].mark = gen
  <2>1. CASE i <= Len(first)
    <3>1. all[i] = asks[i - Len(queue)] /\ i - Len(queue) \in 1..Len(asks)
      BY <1>2, <1>4, <1>5, <1>7, <2>1
    <3> QED  BY <3>1
  <2>2. CASE i > Len(first)
    <3>1. all[i] = starts[i - Len(first)] /\ i - Len(first) \in 1..Len(starts)
      BY <1>2, <1>4, <1>5, <1>7, <2>2
    <3> QED  BY <3>1
  <2> QED  BY <2>1, <2>2, <1>2, <1>5
<1> QED  BY <1>1, <1>3, <1>4, <1>6, <1>7 DEF Longer

LEMMA Rendered ==
  ASSUME NEW next \in Pages, NEW kept \in SUBSET Calls, NEW queue \in Seq(Commands),
         ui \in Pages, native \in [active : Personas, running : BOOLEAN, queue : Seq(Commands)],
         Render(next, kept, queue)
  PROVE  /\ ui' \in Pages /\ Same(next, ui') /\ ui'.toast = next.toast
         /\ native' \in [active : Personas, running : BOOLEAN, queue : Seq(Commands)]
         /\ native'.active = native.active /\ Longer(queue, native'.queue, next.gen)
         /\ calls' \subseteq Calls /\ Effects(next, Shared(next, kept), calls')
         /\ poll' = poll \/ poll' = [poll EXCEPT !.live = FALSE]
<1> DEFINE restarted == next.attempt # ui.attempt
           shown == IF restarted THEN [next EXCEPT !.backend = "checking"] ELSE next
           polled == <<shown.persona, shown.section, shown.auth, shown.backend, shown.main>>
                     # <<ui.persona, ui.section, ui.auth, ui.backend, ui.main>>
           remounted == <<ChatMounted(shown), shown.main>> # <<ChatMounted(ui), ui.main>>
           cancelled == {c \in kept : \/ remounted /\ c.kind = "history"
                                      \/ polled /\ c.kind = "news"}
           authenticate == /\ next.backend = "connected"
                           /\ restarted \/ ui.backend # "connected"
           load == /\ shown.auth = "authenticated"
                   /\ <<shown.auth, shown.persona>> # <<ui.auth, ui.persona>>
           asks == IF authenticate THEN <<Command("session", None, None, next.gen)>> ELSE <<>>
           starts == IF restarted THEN <<Command("start", None, None, next.attempt)>> ELSE <<>>
<1>1. /\ ui' = IF polled /\ (~Shell(shown) \/ shown.persona # ui.persona)
               THEN [shown EXCEPT !.cursor = None] ELSE shown
      /\ calls' = (kept \ cancelled)
                  \cup (IF load THEN {LoadCall(shown)} ELSE {})
                  \cup (IF remounted /\ ChatMounted(shown)
                        THEN {HistoryCall(shown.main, shown.history[shown.main].revision)} ELSE {})
      /\ native' = [native EXCEPT !.queue = queue \o asks \o starts]
      /\ poll' = IF polled THEN [poll EXCEPT !.live = FALSE] ELSE poll
  BY DEF Render
<1>2. shown \in Pages /\ Same(next, shown) /\ shown.toast = next.toast
  BY DEF Pages, Same, SameCache, SameSession
<1> HIDE DEF shown
<1>3. ui' \in Pages /\ Same(next, ui') /\ ui'.toast = next.toast
  <2>1. [shown EXCEPT !.cursor = None] \in Pages /\ Same(shown, [shown EXCEPT !.cursor = None])
        /\ [shown EXCEPT !.cursor = None].toast = shown.toast
    BY <1>2 DEF Pages, Same, SameCache, SameSession
  <2> QED  BY <1>1, <1>2, <2>1 DEF Same, SameCache, SameSession
<1>4. /\ asks \in Seq(Commands) /\ starts \in Seq(Commands)
      /\ \A i \in 1..Len(asks) : asks[i].name = "session" /\ asks[i].done = "no" /\ asks[i].mark = next.gen
      /\ \A i \in 1..Len(starts) : starts[i].name = "start" /\ starts[i].done = "no"
  <2>1. next.gen \in Nat /\ next.attempt \in Nat  BY DEF Pages
  <2>2. Command("session", None, None, next.gen) \in Commands
        /\ Command("start", None, None, next.attempt) \in Commands
    BY <2>1 DEF Command, Commands, Someone
  <2>3. /\ Command("session", None, None, next.gen).name = "session"
        /\ Command("session", None, None, next.gen).done = "no"
        /\ Command("session", None, None, next.gen).mark = next.gen
        /\ Command("start", None, None, next.attempt).name = "start"
        /\ Command("start", None, None, next.attempt).done = "no"
    BY DEF Command
  <2> HIDE DEF restarted, authenticate
  <2> QED  BY <2>2, <2>3
<1> HIDE DEF asks, starts
<1>5. /\ native' \in [active : Personas, running : BOOLEAN, queue : Seq(Commands)]
      /\ native'.active = native.active /\ native'.queue = (queue \o asks) \o starts
  <2>1. queue \o asks \in Seq(Commands) /\ (queue \o asks) \o starts \in Seq(Commands)
    BY <1>4, ConcatProperties
  <2> QED  BY <1>1, <2>1
<1>6. Longer(queue, native'.queue, next.gen)
  BY <1>4, <1>5, LongerByTwo
<1>7. calls' \subseteq Calls /\ Effects(next, Shared(next, kept), calls')
  <2>1. /\ LoadCall(shown) \in Calls
        /\ LoadCall(shown).kind = "load" /\ LoadCall(shown).gen = next.gen
        /\ LoadCall(shown).status = "asked"
        /\ load => next.auth = "authenticated"
    BY <1>2, LoadCallIsCall DEF Same, SameCache, SameSession
  <2> DEFINE asked == HistoryCall(shown.main, shown.history[shown.main].revision)
  <2>2. ASSUME ChatMounted(shown)
        PROVE  /\ asked \in Calls /\ asked.kind = "history" /\ asked.conv = next.main
               /\ asked.status = "asked" /\ next.main # None
               /\ asked.revision = next.history[next.main].revision
    <3>1. shown.main # None /\ shown.main = next.main /\ shown.history = next.history
      BY <1>2, <2>2 DEF ChatMounted, Same, SameCache, SameSession
    <3>2. next.main \in Conversations  BY <3>1 DEF Pages, Somewhere
    <3>3. next.history[next.main].revision \in Nat  BY <3>2 DEF Pages, Histories
    <3> QED  BY <3>1, <3>2, <3>3, HistoryCallIsCall DEF Calls
  <2> HIDE DEF asked
  <2>3. \A x \in calls' : \/ x \in kept \ cancelled
                          \/ x = LoadCall(shown) /\ load
                          \/ x = asked /\ ChatMounted(shown)
    BY <1>1 DEF asked
  <2>4. \A x \in kept \ cancelled : x \in Shared(next, kept)
    <3>1. next.main # ui.main => polled /\ remounted
      BY <1>2 DEF Same, SameCache, SameSession
    <3> HIDE DEF polled, remounted
    <3> QED  BY <3>1 DEF Shared
  <2>5. \A x \in kept : x.kind = "chat" => x \in calls'
    BY <1>1
  <2> HIDE DEF load, cancelled
  <2>6. calls' \subseteq Calls  BY <2>1, <2>2, <2>3
  <2>7. \A x \in Shared(next, kept) : x.kind = "chat" => x \in calls'  BY <2>5 DEF Shared
  <2>8. \A x \in calls' : \/ x \in Shared(next, kept)
                          \/ /\ x.kind = "load" /\ x.gen = next.gen /\ x.status = "asked"
                             /\ next.auth = "authenticated"
                          \/ /\ x.kind \in {"history", "news"} /\ x.conv = next.main
                             /\ x.status = "asked" /\ next.main # None
                             /\ x.revision = next.history[next.main].revision
    BY <2>1, <2>2, <2>3, <2>4
  <2> QED  BY <2>6, <2>7, <2>8 DEF Effects
<1> QED  BY <1>1, <1>3, <1>5, <1>6, <1>7

\* What a handler must leave for the commit to keep the invariant.
Handled(next, kept, queue, n) ==
  /\ next \in Pages /\ kept \in SUBSET Calls /\ queue \in Seq(Commands)
  /\ next.toast # None => next.toast \in open
  /\ RepliesOK(next, Shared(next, kept), store, n)
  /\ PendingOK(next, Shared(next, kept))
  /\ SessionOK(next, Shared(next, kept), queue, native.active, Of(native.active))

LEMMA Committed ==
  ASSUME NEW next, NEW kept, NEW queue, NEW n,
         WorkspaceInv, Handled(next, kept, queue, n), Render(next, kept, queue),
         spent' \in [commands : Nat, sends : Nat, deletes : Nat, events : Nat, views : Nat,
                     troubles : Nat],
         spent'.sends = n, UNCHANGED <<open, store, news>>
  PROVE  WorkspaceInv'
<1>1. /\ next \in Pages /\ kept \in SUBSET Calls /\ queue \in Seq(Commands)
      /\ next.toast # None => next.toast \in open
      /\ RepliesOK(next, Shared(next, kept), store, n)
      /\ PendingOK(next, Shared(next, kept))
      /\ SessionOK(next, Shared(next, kept), queue, native.active, Of(native.active))
  BY DEF Handled
<1>2. /\ ui \in Pages
      /\ native \in [active : Personas, running : BOOLEAN, queue : Seq(Commands)]
  BY DEF WorkspaceInv, WorldInv, PageOK
<1>3. /\ ui' \in Pages /\ Same(next, ui') /\ ui'.toast = next.toast
      /\ native' \in [active : Personas, running : BOOLEAN, queue : Seq(Commands)]
      /\ native'.active = native.active /\ Longer(queue, native'.queue, next.gen)
      /\ calls' \subseteq Calls /\ Effects(next, Shared(next, kept), calls')
      /\ poll' = poll \/ poll' = [poll EXCEPT !.live = FALSE]
  BY <1>1, <1>2, Rendered
<1>4. WorldInv'
  BY <1>3 DEF WorkspaceInv, WorldInv
<1>5. EventsInv'
  <2>1. (\A p \in Personas : Of(p)' = Of(p))  BY DEF Of
  <2>2. poll' \in [phase : {"idle", "answered", "announcing"}, live : BOOLEAN, of : Someone,
                   rest : SUBSET Nat, latest : Nat]
        /\ poll'.phase = poll.phase /\ poll'.of = poll.of /\ poll'.rest = poll.rest
    BY <1>3 DEF WorkspaceInv, EventsInv
  <2> QED  BY <1>1, <1>3, <2>1, <2>2 DEF WorkspaceInv, EventsInv
<1>6. PageOK(ui, calls, native.queue, spent.sends)'
  <2>1. PICK v : v = ui'  OBVIOUS
  <2>2. PICK ds : ds = calls'  OBVIOUS
  <2>3. PICK r : r = native'.queue  OBVIOUS
  <2>4. PICK cs : cs = Shared(next, kept)  OBVIOUS
  <2>5. PICK st : st = store  OBVIOUS
  <2>6. PICK active : active = native.active  OBVIOUS
  <2>7. PICK mine : mine = Of(native.active)  OBVIOUS
  <2>8. RepliesOK(v, ds, st, n)
    BY <1>1, <1>3, <2>1, <2>2, <2>4, <2>5, DrawnReplies DEF Same
  <2>9. PendingOK(v, ds)
    BY <1>1, <1>3, <2>1, <2>2, <2>4, DrawnPending DEF Same
  <2>10. SessionOK(v, ds, r, active, mine)
    BY <1>1, <1>3, <2>1, <2>2, <2>3, <2>4, <2>6, <2>7, DrawnSession DEF Same
  <2>11. r \in Seq(Commands)  BY <1>3, <2>3 DEF Longer
  <2>12. st = store' /\ active = native'.active /\ mine = Of(native.active)' /\ n = spent'.sends
    BY <1>3, <2>5, <2>6, <2>7 DEF Of
  <2>13. ui' \in Pages /\ calls' \subseteq Calls /\ native'.queue \in Seq(Commands)
    BY <1>3, <2>3, <2>11
  <2>14. RepliesOK(ui', calls', store', spent'.sends)  BY <2>1, <2>2, <2>8, <2>12
  <2>15. PendingOK(ui', calls')  BY <2>1, <2>2, <2>9
  <2>16. SessionOK(ui', calls', native'.queue, native'.active, Of(native.active)')
    BY <2>1, <2>2, <2>3, <2>10, <2>12
  <2> QED  BY <2>13, <2>14, <2>15, <2>16 DEF PageOK
<1> QED  BY <1>4, <1>5, <1>6 DEF WorkspaceInv

\* The command that was answered leaves the queue; none of the rest was executed.
LEMMA TailSession ==
  ASSUME NEW u, NEW cs, NEW q \in Seq(Commands), q # <<>>, NEW active, NEW mine,
         SessionOK(u, cs, q, active, mine)
  PROVE  /\ SessionOK(u, cs, Tail(q), active, mine)
         /\ Tail(q) \in Seq(Commands) /\ Head(q) \in Commands /\ Head(q) = q[1] /\ 1 \in DOMAIN q
<1>1. PICK r : r = Tail(q)  OBVIOUS
<1>2. /\ r \in Seq(Commands) /\ Head(q) \in Commands /\ Len(r) = Len(q) - 1
      /\ \A i \in 1..Len(r) : r[i] = q[i + 1]
  BY <1>1, HeadTailProperties
<1>3. /\ Len(q) \in Nat /\ Len(r) \in Nat /\ DOMAIN q = 1..Len(q) /\ DOMAIN r = 1..Len(r)
      /\ Head(q) = q[1] /\ 1 \in DOMAIN q
  BY <1>2, LenProperties
<1>4. \A i \in DOMAIN r : i + 1 \in DOMAIN q /\ r[i] = q[i + 1] /\ i + 1 > 1 /\ i \in Nat
  BY <1>2, <1>3
<1>5. QueueOK(r, active)
  BY <1>4 DEF SessionOK, QueueOK
<1>6. MarksOK(u, cs, r)  BY <1>4 DEF SessionOK, MarksOK
<1>7. SwitchOK(u, cs, r)
  <2> SUFFICES ASSUME NEW i \in DOMAIN r, r[i].name = "switch"
               PROVE  /\ \A j \in DOMAIN r : j < i => ~(r[j].name = "session" /\ r[j].mark = u.gen)
                      /\ \A x \in cs : x.kind \in {"auth", "load", "create"} => x.gen # u.gen
                      /\ u.auth # "authenticated" /\ u.main = None
    BY DEF SwitchOK
  <2>1. i + 1 \in DOMAIN q /\ q[i + 1].name = "switch"  BY <1>4
  <2>2. /\ \A j \in DOMAIN q : j < i + 1 => ~(q[j].name = "session" /\ q[j].mark = u.gen)
        /\ \A x \in cs : x.kind \in {"auth", "load", "create"} => x.gen # u.gen
        /\ u.auth # "authenticated" /\ u.main = None
    BY <2>1 DEF SessionOK, SwitchOK
  <2>3. ASSUME NEW j \in DOMAIN r, j < i
        PROVE  ~(r[j].name = "session" /\ r[j].mark = u.gen)
    <3>1. j + 1 \in DOMAIN q /\ j + 1 < i + 1 /\ r[j] = q[j + 1]  BY <1>3, <1>4, <2>3
    <3> QED  BY <3>1, <2>2
  <2> QED  BY <2>2, <2>3
<1> QED  BY <1>1, <1>2, <1>3, <1>5, <1>6, <1>7 DEF SessionOK

\* A command that asks for no switch is called.
LEMMA AppendLonger ==
  ASSUME NEW q \in Seq(Commands), NEW x \in Commands, NEW gen,
         x.done = "no", x.name \notin {"switch", "session"}
  PROVE  Longer(q, Append(q, x), gen)
<1>1. PICK r : r = Append(q, x)  OBVIOUS
<1>2. r \in Seq(Commands) /\ \A i \in 1..Len(q) : r[i] = q[i]
  BY <1>1, AppendProperties
<1>a. Len(r) = Len(q) + 1 /\ r[Len(q) + 1] = x  BY <1>1, AppendProperties
<1>3. Len(q) \in Nat /\ DOMAIN q = 1..Len(q) /\ DOMAIN r = 1..Len(r)  BY <1>2, LenProperties
<1>4. \A i \in DOMAIN r : i > Len(q) => r[i] = x
  <2>1. \A i \in DOMAIN r : i > Len(q) => i = Len(q) + 1  BY <1>a, <1>3
  <2> QED  BY <2>1, <1>a
<1>5. Len(q) <= Len(r) /\ \A i \in DOMAIN q : r[i] = q[i]  BY <1>2, <1>a, <1>3
<1> QED  BY <1>1, <1>2, <1>4, <1>5 DEF Longer

\* A switch is called: the session ends with it.
LEMMA AppendQueue ==
  ASSUME NEW q \in Seq(Commands), NEW x \in Commands, NEW active, NEW gen,
         x.done = "no", x.name # "session", x.name = "switch" => x.to \in Personas,
         QueueOK(q, active), \A i \in DOMAIN q : q[i].name = "session" => q[i].mark <= gen
  PROVE  /\ Append(q, x) \in Seq(Commands) /\ QueueOK(Append(q, x), active)
         /\ \A i \in DOMAIN Append(q, x) :
              Append(q, x)[i].name = "session" => Append(q, x)[i].mark <= gen
<1>1. PICK r : r = Append(q, x)  OBVIOUS
<1>2. r \in Seq(Commands) /\ \A i \in 1..Len(q) : r[i] = q[i]
  BY <1>1, AppendProperties
<1>a. Len(r) = Len(q) + 1 /\ r[Len(q) + 1] = x  BY <1>1, AppendProperties
<1>3. Len(q) \in Nat /\ DOMAIN q = 1..Len(q) /\ DOMAIN r = 1..Len(r)  BY <1>2, LenProperties
<1>4. \A i \in DOMAIN r : (i \in DOMAIN q /\ r[i] = q[i]) \/ r[i] = x
  <2>1. \A i \in DOMAIN r : i \in 1..Len(q) \/ i = Len(q) + 1  BY <1>a, <1>3
  <2> QED  BY <2>1, <1>2, <1>a, <1>3
<1>5. QueueOK(r, active)  BY <1>4 DEF QueueOK
<1> QED  BY <1>1, <1>2, <1>4, <1>5

-----------------------------------------------------------------------------
(* What handlers leave                                                        *)

LEMMA Facts ==
  ASSUME WorkspaceInv
  PROVE  /\ ui \in Pages /\ calls \in SUBSET Calls /\ native.queue \in Seq(Commands)
         /\ native \in [active : Personas, running : BOOLEAN, queue : Seq(Commands)]
         /\ ui.toast # None => ui.toast \in open
         /\ RepliesOK(ui, calls, store, spent.sends) /\ PendingOK(ui, calls)
         /\ SessionOK(ui, calls, native.queue, native.active, Of(native.active))
         /\ spent \in [commands : Nat, sends : Nat, deletes : Nat, events : Nat, views : Nat,
                       troubles : Nat]
BY DEF WorkspaceInv, WorldInv, EventsInv, PageOK

\* A call of the session that was not answered.
LEMMA CallAdded ==
  ASSUME NEW u, NEW cs, NEW q, NEW active, NEW mine, NEW st, NEW n, NEW x,
         RepliesOK(u, cs, st, n), PendingOK(u, cs), SessionOK(u, cs, q, active, mine),
         x.kind \in {"auth", "create"}, x.status = "asked", x.gen <= u.gen,
         \A i \in DOMAIN q : q[i].name = "switch" => x.gen # u.gen
  PROVE  /\ RepliesOK(u, cs \cup {x}, st, n) /\ PendingOK(u, cs \cup {x})
         /\ SessionOK(u, cs \cup {x}, q, active, mine)
<1>1. \A y \in cs \cup {x} : y.kind \in {"chat", "delete", "history", "news", "load"} => y \in cs
  OBVIOUS
<1>2. \A y \in cs \cup {x} : y.status = "answered" => y \in cs
  OBVIOUS
<1>3. RepliesOK(u, cs \cup {x}, st, n)
  BY <1>1 DEF RepliesOK, ChatsOK, SnapshotsOK, DeletesOK
<1>4. PendingOK(u, cs \cup {x})  BY DEF PendingOK, SentBy
<1>5. SessionOK(u, cs \cup {x}, q, active, mine)
  BY <1>1, <1>2 DEF SessionOK, MarksOK, QueueOK, SwitchOK, PersonaOK, MainOK
<1> QED  BY <1>3, <1>4, <1>5

\* Calls other than sends are taken away.
LEMMA CallsDropped ==
  ASSUME NEW u, NEW cs, NEW ds, ds \subseteq cs, \A x \in cs : x.kind = "chat" => x \in ds
  PROVE  Effects(u, cs, ds)
BY DEF Effects

LEMMA HandledSame ==
  ASSUME NEW next \in Pages, NEW kept, NEW cs \in SUBSET Calls, NEW queue \in Seq(Commands), NEW n,
         ui \in Pages, Same(ui, next), next.toast # None => next.toast \in open,
         kept \subseteq cs, \A x \in cs : x.kind = "chat" => x \in kept,
         RepliesOK(ui, cs, store, n), PendingOK(ui, cs),
         SessionOK(ui, cs, queue, native.active, Of(native.active))
  PROVE  Handled(next, kept, queue, n)
<1>1. Shared(next, kept) = kept  BY DEF Shared, Same, SameCache
<1>2. Effects(ui, cs, kept)  BY CallsDropped
<1>3. PICK u : u = ui  OBVIOUS
<1>4. PICK st : st = store  OBVIOUS
<1>5. PICK active : active = native.active  OBVIOUS
<1>6. PICK mine : mine = Of(native.active)  OBVIOUS
<1>7. RepliesOK(next, kept, st, n)  BY <1>2, <1>3, <1>4, DrawnReplies DEF Same
<1>8. PendingOK(next, kept)  BY <1>2, <1>3, DrawnPending DEF Same
<1>9. Longer(queue, queue, u.gen)
  <2>1. DOMAIN queue = 1..Len(queue) /\ Len(queue) \in Nat  BY LenProperties
  <2> QED  BY <2>1 DEF Longer
<1>10. SessionOK(next, kept, queue, active, mine)
  BY <1>2, <1>3, <1>5, <1>6, <1>9, DrawnSession DEF Same
<1> QED  BY <1>1, <1>4, <1>5, <1>6, <1>7, <1>8, <1>10 DEF Handled

\* The page v is u without the session it had.
Blank(u, v) ==
  /\ v \in Pages /\ v.gen = u.gen + 1 /\ v.main = None /\ v.history = EmptyHistory
  /\ v.pending = [c \in Conversations |-> 0] /\ v.received = {} /\ v.guessed = FALSE
  /\ v.toast = u.toast

LEMMA ForgetBlank ==
  ASSUME NEW u \in Pages
  PROVE  Blank(u, Forget(u))
<1>1. PICK gen \in Nat : gen = u.gen + 1  BY DEF Pages
<1>2. PICK history \in Histories : history = EmptyHistory  BY DEF Histories, EmptyHistory
<1>3. PICK pending \in [Conversations -> Nat] : pending = [c \in Conversations |-> 0]
  OBVIOUS
<1>4. PICK v : v = [u EXCEPT !.gen = gen, !.main = None, !.history = history,
                             !.pending = pending, !.received = {}, !.guessed = FALSE]
  OBVIOUS
<1>5. Forget(u) = v  BY <1>1, <1>2, <1>3, <1>4 DEF Forget
<1>6. v \in Pages  BY <1>4 DEF Pages, Somewhere
<1>7. /\ v.gen = gen /\ v.main = None /\ v.history = history /\ v.pending = pending
      /\ v.received = {} /\ v.guessed = FALSE /\ v.toast = u.toast
  BY <1>4 DEF Pages
<1> QED  BY <1>1, <1>2, <1>3, <1>5, <1>6, <1>7 DEF Blank

LEMMA LeavingBlank ==
  ASSUME NEW u \in Pages
  PROVE  Blank(u, Leaving(u)) /\ Leaving(u).auth # "authenticated"
<1>1. PICK v : v = Forget(u)  OBVIOUS
<1>2. Blank(u, v)  BY <1>1, ForgetBlank
<1>3. Leaving(u) = [v EXCEPT !.backend = "checking", !.auth = "checking", !.section = "chat"]
  BY <1>1 DEF Leaving
<1>4. Leaving(u) \in Pages  BY <1>2, <1>3 DEF Blank, Pages
<1> QED  BY <1>2, <1>3, <1>4 DEF Blank, Pages

\* A session ends: what is left of it is of an earlier generation.
LEMMA HandledForgotten ==
  ASSUME NEW next, NEW kept, NEW queue \in Seq(Commands), NEW n,
         ui \in Pages, calls \in SUBSET Calls, native.queue \in Seq(Commands),
         RepliesOK(ui, calls, store, n),
         SessionOK(ui, calls, native.queue, native.active, Of(native.active)),
         NEW u, u.gen = ui.gen, Blank(u, next), next.auth # "authenticated",
         next.toast # None => next.toast \in open,
         kept \subseteq calls, QueueOK(queue, native.active),
         \A i \in DOMAIN queue : queue[i].name = "session" => queue[i].mark <= ui.gen
  PROVE  Handled(next, kept, queue, n)
<1>0. /\ next \in Pages /\ next.gen = ui.gen + 1 /\ next.main = None
      /\ next.history = EmptyHistory /\ next.pending = [c \in Conversations |-> 0]
      /\ next.received = {} /\ next.guessed = FALSE
  BY DEF Blank
<1> DEFINE ds == Shared(next, kept)
<1>1. ds \subseteq calls /\ \A x \in ds : x.kind \notin {"history", "news"}
  <2>1. ds \subseteq kept  BY DEF Shared
  <2>2. ASSUME NEW x \in ds, x.kind \in {"history", "news"}  PROVE FALSE
    <3>1. x \in calls /\ ui.main = None  BY <1>0, <2>2, <2>1 DEF Shared
    <3>2. x.conv = None  BY <2>2, <3>1 DEF RepliesOK, SnapshotsOK
    <3>3. x.conv \in Conversations
      BY <2>2, <3>1 DEF Calls, HistoryCalls, LoadCalls, AuthCalls, CreateCalls, ChatCalls, DeleteCalls
    <3> QED  BY <3>2, <3>3, FirstAssumption
  <2> QED  BY <2>1, <2>2
<1> HIDE DEF ds
<1>2. ui.gen \in Nat  BY DEF Pages
<1>3. \A x \in calls : x.kind \in {"auth", "load", "create", "chat"} => x.gen \in Nat /\ x.gen <= ui.gen
  <2>1. \A x \in calls : x.kind \in {"auth", "load", "create", "chat"} => x.gen \in Nat
    BY DEF Calls, HistoryCalls, LoadCalls, AuthCalls, CreateCalls, ChatCalls, DeleteCalls
  <2> QED  BY <2>1 DEF SessionOK, MarksOK
<1>4. \A x \in ds : x.kind \in {"auth", "load", "create", "chat"} => x.gen <= next.gen /\ x.gen # next.gen
  BY <1>0, <1>1, <1>2, <1>3
<1>5. \A i \in DOMAIN queue : queue[i].name = "session" =>
        queue[i].mark <= next.gen /\ queue[i].mark # next.gen
  <2>1. \A i \in DOMAIN queue : queue[i] \in Commands  BY LenProperties
  <2>2. \A i \in DOMAIN queue : queue[i].mark \in Nat  BY <2>1 DEF Commands
  <2> QED  BY <1>0, <1>2, <2>2
<1>6. RepliesOK(next, ds, store, n)
  <2>1. ChatsOK(next, ds, store, n)  BY <1>0, <1>1 DEF RepliesOK, ChatsOK
  <2>2. SnapshotsOK(next, ds, store)  BY <1>1 DEF SnapshotsOK
  <2>3. DeletesOK(ds, store, n)  BY <1>1 DEF RepliesOK, DeletesOK
  <2> QED  BY <2>1, <2>2, <2>3 DEF RepliesOK
<1>7. PendingOK(next, ds)  BY <1>0 DEF PendingOK, EmptyHistory
<1>8. SessionOK(next, ds, queue, native.active, Of(native.active))
  <2>1. MarksOK(next, ds, queue)  BY <1>4, <1>5 DEF MarksOK
  <2>2. SwitchOK(next, ds, queue)  BY <1>0, <1>4, <1>5 DEF SwitchOK
  <2>3. PersonaOK(next, ds, native.active)  BY <1>0, <1>4 DEF PersonaOK
  <2>4. MainOK(next, ds, Of(native.active))  BY <1>0, <1>4 DEF MainOK
  <2> QED  BY <2>1, <2>2, <2>3, <2>4 DEF SessionOK
<1>9. kept \in SUBSET Calls  OBVIOUS
<1> QED  BY <1>0, <1>6, <1>7, <1>8, <1>9 DEF Handled, ds

\* A conversation of the active persona is opened.
LEMMA HandledMain ==
  ASSUME NEW next \in Pages, NEW kept, NEW n,
         ui \in Pages, calls \in SUBSET Calls, native.queue \in Seq(Commands),
         RepliesOK(ui, calls, store, n), PendingOK(ui, calls),
         SessionOK(ui, calls, native.queue, native.active, Of(native.active)),
         \A i \in DOMAIN native.queue : native.queue[i].name # "switch",
         next.gen = ui.gen, next.auth = ui.auth, next.persona = ui.persona,
         next.unavailable = ui.unavailable, next.guessed = ui.guessed,
         next.history = ui.history, next.pending = ui.pending, next.received = ui.received,
         next.toast # None => next.toast \in open,
         ~next.guessed => next.main \in Of(native.active),
         kept \subseteq calls, \A x \in calls : x.kind = "chat" => x \in kept
  PROVE  Handled(next, kept, native.queue, n)
<1> DEFINE ds == Shared(next, kept)
<1>1. /\ ds \subseteq calls /\ \A x \in calls : x.kind = "chat" => x \in ds
      /\ \A x \in ds : x.kind \in {"history", "news"} => next.main = ui.main
  BY DEF Shared
<1> HIDE DEF ds
<1>2. RepliesOK(next, ds, store, n)
  <2>1. ChatsOK(next, ds, store, n)  BY <1>1 DEF RepliesOK, ChatsOK
  <2>2. SnapshotsOK(next, ds, store)  BY <1>1 DEF RepliesOK, SnapshotsOK
  <2>3. DeletesOK(ds, store, n)  BY <1>1 DEF RepliesOK, DeletesOK
  <2> QED  BY <2>1, <2>2, <2>3 DEF RepliesOK
<1>3. PendingOK(next, ds)
  <2>1. ASSUME NEW c, NEW k, SentBy(ui, calls, c, k)  PROVE SentBy(next, ds, c, k)
    BY <1>1, <2>1 DEF SentBy
  <2> QED  BY <2>1 DEF PendingOK
<1>4. SessionOK(next, ds, native.queue, native.active, Of(native.active))
  <2>1. MarksOK(next, ds, native.queue)  BY <1>1 DEF SessionOK, MarksOK
  <2>2. SwitchOK(next, ds, native.queue)  BY DEF SwitchOK
  <2>3. PersonaOK(next, ds, native.active)  BY <1>1 DEF SessionOK, PersonaOK
  <2>4. MainOK(next, ds, Of(native.active))  BY <1>1 DEF SessionOK, MainOK
  <2> QED  BY <2>1, <2>2, <2>3, <2>4 DEF SessionOK
<1>5. kept \in SUBSET Calls  OBVIOUS
<1> QED  BY <1>2, <1>3, <1>4, <1>5 DEF Handled, ds

\* The messages shown stay; the session is looked at apart.
LEMMA HandledCache ==
  ASSUME NEW next \in Pages, NEW kept, NEW queue \in Seq(Commands),
         WorkspaceInv, SameCache(ui, next), next.toast = ui.toast,
         kept \subseteq calls, \A x \in calls : x.kind = "chat" => x \in kept,
         SessionOK(next, kept, queue, native.active, Of(native.active))
  PROVE  Handled(next, kept, queue, spent.sends)
<1>1. Shared(next, kept) = kept  BY DEF Shared, SameCache
<1>2. RepliesOK(next, kept, store, spent.sends) /\ PendingOK(next, kept)
  <2>1. Effects(ui, calls, kept)  BY CallsDropped
  <2>2. PICK u : u = ui  OBVIOUS
  <2>3. PICK cs : cs = calls  OBVIOUS
  <2>4. PICK st : st = store  OBVIOUS
  <2>5. PICK n : n = spent.sends  OBVIOUS
  <2>6. RepliesOK(next, kept, st, n) /\ PendingOK(next, kept)
    BY <2>1, <2>2, <2>3, <2>4, <2>5, Facts, DrawnReplies, DrawnPending
  <2> QED  BY <2>4, <2>5, <2>6
<1>3. kept \in SUBSET Calls  BY Facts
<1> QED  BY <1>1, <1>2, <1>3, Facts DEF Handled

\* The session stays; the messages shown are looked at apart.
LEMMA HandledSession ==
  ASSUME NEW next \in Pages, NEW kept, NEW n,
         WorkspaceInv, SameSession(ui, next), next.toast = ui.toast,
         kept \subseteq calls, RepliesOK(next, kept, store, n), PendingOK(next, kept)
  PROVE  Handled(next, kept, native.queue, n)
<1>1. Shared(next, kept) = kept  BY DEF Shared, SameSession
<1>2. SessionOK(next, kept, native.queue, native.active, Of(native.active))
  BY Facts DEF SessionOK, MarksOK, SwitchOK, PersonaOK, MainOK, SameSession
<1>3. kept \in SUBSET Calls  BY Facts
<1> QED  BY <1>1, <1>2, <1>3, Facts DEF Handled

\* While a call of the session is open no switch waits.
LEMMA NoSwitch ==
  ASSUME WorkspaceInv, NEW c \in calls, c.kind \in {"auth", "load", "create"}, c.gen = ui.gen
  PROVE  \A i \in DOMAIN native.queue : native.queue[i].name # "switch"
BY Facts DEF SessionOK, SwitchOK

\* The persona shown changes to the active one, or there is no session to show it.
LEMMA HandledPersona ==
  ASSUME NEW next \in Pages, NEW queue \in Seq(Commands),
         WorkspaceInv, SameCache(ui, next), next.toast = ui.toast,
         next.auth = ui.auth \/ next.auth # "authenticated",
         next.unavailable = ui.unavailable, next.guessed = ui.guessed,
         next.persona = native.active \/ next.auth # "authenticated",
         SessionOK(ui, calls, queue, native.active, Of(native.active))
  PROVE  Handled(next, calls, queue, spent.sends)
<1>1. SessionOK(next, calls, queue, native.active, Of(native.active))
  BY DEF SessionOK, MarksOK, SwitchOK, PersonaOK, MainOK, SameCache
<1> QED  BY <1>1, HandledCache

-----------------------------------------------------------------------------
(* The handlers of the commands                                               *)

LEMMA StartAnsweredKeeps == ASSUME WorkspaceInv, StartAnswered  PROVE WorkspaceInv'
<1> DEFINE q == native.queue
<1>1. PICK next : next = IF Head(q).mark = ui.attempt
                         THEN [ui EXCEPT !.backend = IF Head(q).done = "ok" THEN "connected" ELSE "error"]
                         ELSE ui
  OBVIOUS
<1>2. Render(next, calls, Tail(q)) /\ q # <<>>  BY <1>1 DEF StartAnswered, Done, Rest
<1>3. next \in Pages /\ Same(ui, next) /\ next.toast = ui.toast
  BY <1>1, Facts DEF Pages, Same, SameCache, SameSession
<1>4. /\ SessionOK(ui, calls, Tail(q), native.active, Of(native.active))
      /\ Tail(q) \in Seq(Commands)
  BY <1>2, Facts, TailSession
<1>5. Handled(next, calls, Tail(q), spent.sends)
  BY <1>3, <1>4, Facts, HandledSame
<1> QED  BY <1>2, <1>5, Facts, Committed DEF StartAnswered, Kept

LEMMA SwitchAnsweredKeeps == ASSUME WorkspaceInv, SwitchAnswered  PROVE WorkspaceInv'
<1> DEFINE q == native.queue
<1>1. PICK persona : persona = IF Head(q).done = "ok" THEN Head(q).listed ELSE ui.persona
  OBVIOUS
<1>2. PICK next : next = [ui EXCEPT !.persona = persona, !.attempt = @ + 1]  OBVIOUS
<1>3. Render(next, calls, Tail(q)) /\ q # <<>> /\ Head(q).name = "switch"
  BY <1>1, <1>2 DEF SwitchAnswered, Done, Rest
<1>4. /\ SessionOK(ui, calls, Tail(q), native.active, Of(native.active))
      /\ Tail(q) \in Seq(Commands) /\ Head(q) \in Commands /\ Head(q) = q[1] /\ 1 \in DOMAIN q
  BY <1>3, Facts, TailSession
<1>5. ui.auth # "authenticated" /\ ui.main = None
  BY <1>3, <1>4, Facts DEF SessionOK, SwitchOK
<1>6. persona \in Someone  BY <1>1, <1>4, Facts DEF Commands, Pages
<1>7. /\ next \in Pages /\ SameCache(ui, next) /\ next.toast = ui.toast
      /\ next.auth = ui.auth /\ next.guessed = ui.guessed
  <2>1. PICK u : u = ui  OBVIOUS
  <2>2. u \in Pages  BY <2>1, Facts
  <2>3. PICK attempt \in Nat : attempt = u.attempt + 1  BY <2>2 DEF Pages
  <2>4. next = [u EXCEPT !.persona = persona, !.attempt = attempt]  BY <1>2, <2>1, <2>3
  <2>5. next \in Pages  BY <1>6, <2>2, <2>4 DEF Pages
  <2>6. SameCache(u, next) /\ next.toast = u.toast /\ next.auth = u.auth /\ next.guessed = u.guessed
    BY <2>2, <2>4 DEF Pages, SameCache
  <2> QED  BY <2>1, <2>5, <2>6
<1>8. next.unavailable = ui.unavailable
  BY <1>2, Facts DEF Pages
<1>9. Handled(next, calls, Tail(q), spent.sends)
  BY <1>4, <1>5, <1>7, <1>8, HandledPersona
<1> QED  BY <1>3, <1>9, Facts, Committed DEF SwitchAnswered, Kept

LEMMA SaveAnsweredKeeps == ASSUME WorkspaceInv, SaveAnswered  PROVE WorkspaceInv'
<1> DEFINE q == native.queue
           again == Command("list", Head(q).to, Head(q).seen, 0)
<1>1. q # <<>>  BY DEF SaveAnswered, Done
<1>2. PICK rest : rest = Tail(q)  OBVIOUS
<1>3. PICK queue : Render(ui, calls, queue) /\ (queue = Append(rest, again) \/ queue = rest)
  BY <1>2 DEF SaveAnswered, Rest
<1>4. /\ SessionOK(ui, calls, rest, native.active, Of(native.active))
      /\ rest \in Seq(Commands) /\ Head(q) \in Commands
  BY <1>1, <1>2, Facts, TailSession
<1>5. again \in Commands /\ again.name = "list" /\ again.done = "no"
  BY <1>4 DEF Command, Commands, Someone
<1>6. Longer(rest, queue, ui.gen)
  <2>1. Longer(rest, rest, ui.gen)
    <3>1. DOMAIN rest = 1..Len(rest) /\ Len(rest) \in Nat  BY <1>4, LenProperties
    <3> QED  BY <1>4, <3>1 DEF Longer
  <2>2. Longer(rest, Append(rest, again), ui.gen)
    BY <1>4, <1>5, AppendLonger
  <2> QED  BY <1>3, <2>1, <2>2
<1>7. SessionOK(ui, calls, queue, native.active, Of(native.active))
  <2>1. SameSession(ui, ui) /\ Effects(ui, calls, calls)  BY CallsDropped DEF SameSession
  <2>2. PICK u : u = ui  OBVIOUS
  <2>3. PICK cs : cs = calls  OBVIOUS
  <2>4. PICK active : active = native.active  OBVIOUS
  <2>5. PICK mine : mine = Of(native.active)  OBVIOUS
  <2>6. SessionOK(u, cs, queue, active, mine)
    BY <1>4, <1>6, <2>1, <2>2, <2>3, <2>4, <2>5, Facts, DrawnSession
  <2> QED  BY <2>2, <2>3, <2>4, <2>5, <2>6
<1>8. PICK next : next = ui  OBVIOUS
<1>9. Handled(next, calls, queue, spent.sends)
  <2>1. queue \in Seq(Commands)  BY <1>6 DEF Longer
  <2>2. next \in Pages /\ Same(ui, next) /\ next.toast = ui.toast
    BY <1>8, Facts DEF Same, SameCache, SameSession
  <2> QED  BY <1>7, <2>1, <2>2, Facts, HandledSame
<1> QED  BY <1>3, <1>8, <1>9, Facts, Committed DEF SaveAnswered, Kept

LEMMA ListAnsweredKeeps == ASSUME WorkspaceInv, ListAnswered  PROVE WorkspaceInv'
<1> DEFINE q == native.queue
<1>1. PICK command : command = Head(q)  OBVIOUS
<1>2. PICK rest : rest = Tail(q)  OBVIOUS
<1>3. PICK loaded : loaded = [ui EXCEPT !.persona = command.listed, !.listed = command.listed]
  OBVIOUS
<1>4. PICK again : again = Command("switch", command.to, None, 0)  OBVIOUS
<1>5. q # <<>> /\ command.done # "no" /\ UNCHANGED Kept
  BY <1>1 DEF ListAnswered, Done
<1>6. /\ SessionOK(ui, calls, rest, native.active, Of(native.active))
      /\ rest \in Seq(Commands) /\ command \in Commands /\ command = q[1] /\ 1 \in DOMAIN q
  BY <1>1, <1>2, <1>5, Facts, TailSession
<1>7. command.listed = native.active  BY <1>5, <1>6, Facts DEF SessionOK, QueueOK
<1>8. command.listed \in Someone /\ command.to \in Someone  BY <1>6 DEF Commands
<1>9. /\ loaded \in Pages /\ SameCache(ui, loaded) /\ loaded.toast = ui.toast
      /\ loaded.auth = ui.auth /\ loaded.unavailable = ui.unavailable
      /\ loaded.guessed = ui.guessed /\ loaded.persona = native.active
  <2>1. PICK u : u = ui  OBVIOUS
  <2>2. u \in Pages /\ loaded = [u EXCEPT !.persona = command.listed, !.listed = command.listed]
    BY <1>3, <2>1, Facts
  <2>3. loaded \in Pages /\ loaded.persona = command.listed  BY <1>8, <2>2 DEF Pages
  <2>4. /\ SameCache(u, loaded) /\ loaded.toast = u.toast
        /\ loaded.auth = u.auth /\ loaded.unavailable = u.unavailable /\ loaded.guessed = u.guessed
    BY <2>2 DEF Pages, SameCache
  <2> QED  BY <1>7, <2>1, <2>3, <2>4
<1>10. QueueOK(rest, native.active)
       /\ \A i \in DOMAIN rest : rest[i].name = "session" => rest[i].mark <= ui.gen
  BY <1>6 DEF SessionOK, MarksOK
<1>11. CASE Render(loaded, calls, rest)
  <2>1. Handled(loaded, calls, rest, spent.sends)  BY <1>6, <1>9, HandledPersona
  <2> QED  BY <1>5, <1>11, <2>1, Facts, Committed DEF Kept
<1>12. CASE command.to # None /\ Render(Leaving(loaded), calls, Append(rest, again))
  <2>1. PICK next : next = Leaving(loaded)  OBVIOUS
  <2>2. PICK queue : queue = Append(rest, again)  OBVIOUS
  <2>3. Blank(loaded, next) /\ next.auth # "authenticated"  BY <1>9, <2>1, LeavingBlank
  <2>4. again \in Commands /\ again.done = "no" /\ again.name = "switch" /\ again.to \in Personas
    BY <1>4, <1>8, <1>12 DEF Command, Commands, Someone
  <2>5. PICK active : active = native.active  OBVIOUS
  <2>6. PICK gen : gen = ui.gen  OBVIOUS
  <2>7. /\ queue \in Seq(Commands) /\ QueueOK(queue, active)
        /\ \A i \in DOMAIN queue : queue[i].name = "session" => queue[i].mark <= gen
    BY <1>6, <1>10, <2>2, <2>4, <2>5, <2>6, AppendQueue
  <2>8. next.toast # None => next.toast \in open  BY <1>9, <2>3, Facts DEF Blank
  <2>9. loaded.gen = ui.gen  BY <1>9 DEF SameCache
  <2>10. Handled(next, calls, queue, spent.sends)
    BY <2>3, <2>5, <2>6, <2>7, <2>8, <2>9, Facts, HandledForgotten
  <2> QED  BY <1>5, <1>12, <2>1, <2>2, <2>10, Facts, Committed DEF Kept
<1>13. CASE Render([Forget(loaded) EXCEPT !.backend = "checking", !.auth = "checking",
                                          !.attempt = @ + 1], calls, rest)
  <2>1. PICK blank : blank = Forget(loaded)  OBVIOUS
  <2>2. Blank(loaded, blank)  BY <1>9, <2>1, ForgetBlank
  <2>3. PICK attempt \in Nat : attempt = blank.attempt + 1  BY <2>2 DEF Blank, Pages
  <2>4. PICK next : next = [blank EXCEPT !.backend = "checking", !.auth = "checking",
                                         !.attempt = attempt]
    OBVIOUS
  <2>5. next \in Pages  BY <2>2, <2>4 DEF Blank, Pages
  <2>6. Blank(loaded, next) /\ next.auth # "authenticated"
    BY <2>2, <2>4, <2>5 DEF Blank, Pages
  <2>7. next.toast # None => next.toast \in open  BY <1>9, <2>6, Facts DEF Blank
  <2>8. loaded.gen = ui.gen  BY <1>9 DEF SameCache
  <2>9. Handled(next, calls, rest, spent.sends)
    BY <1>6, <1>10, <2>6, <2>7, <2>8, Facts, HandledForgotten
  <2> QED  BY <1>5, <1>13, <2>1, <2>3, <2>4, <2>9, Facts, Committed DEF Kept
<1> QED  BY <1>1, <1>2, <1>3, <1>4, <1>11, <1>12, <1>13 DEF ListAnswered, Rest

LEMMA SessionAnsweredKeeps == ASSUME WorkspaceInv, SessionAnswered  PROVE WorkspaceInv'
<1> DEFINE q == native.queue
<1>1. PICK command : command = Head(q)  OBVIOUS
<1>2. PICK rest : rest = Tail(q)  OBVIOUS
<1>3. q # <<>> /\ command.name = "session" /\ UNCHANGED Kept
  BY <1>1 DEF SessionAnswered, Done
<1>4. /\ SessionOK(ui, calls, rest, native.active, Of(native.active))
      /\ rest \in Seq(Commands) /\ command \in Commands /\ command = q[1] /\ 1 \in DOMAIN q
  BY <1>1, <1>2, <1>3, Facts, TailSession
<1>5. CASE Render(ui, calls \cup {AuthCall(command.mark)}, rest)
  <2>1. PICK x : x = AuthCall(command.mark)  OBVIOUS
  <2>2. /\ x \in Calls /\ x.kind = "auth" /\ x.status = "asked" /\ x.gen = command.mark
    BY <1>4, <2>1 DEF AuthCall, Calls, AuthCalls, Commands, Statuses, Unanswered, Someone
  <2>3. x.gen <= ui.gen  BY <1>3, <1>4, <2>2, Facts DEF SessionOK, MarksOK
  <2>4. ASSUME NEW i \in DOMAIN rest, rest[i].name = "switch"  PROVE x.gen # ui.gen
    <3>1. i + 1 \in DOMAIN q /\ q[i + 1].name = "switch" /\ 1 < i + 1
      <4>1. Len(rest) = Len(q) - 1 /\ \A k \in 1..Len(rest) : rest[k] = q[k + 1]
        BY <1>2, <1>3, Facts, HeadTailProperties
      <4>2. DOMAIN q = 1..Len(q) /\ DOMAIN rest = 1..Len(rest) /\ Len(q) \in Nat
        BY <1>4, Facts, LenProperties
      <4> QED  BY <2>4, <4>1, <4>2
    <3> QED  BY <1>3, <1>4, <2>2, <3>1, Facts DEF SessionOK, SwitchOK
  <2>5. PICK cs : cs = calls \cup {x}  OBVIOUS
  <2>6. /\ RepliesOK(ui, cs, store, spent.sends) /\ PendingOK(ui, cs)
        /\ SessionOK(ui, cs, rest, native.active, Of(native.active))
    <3>1. PICK u : u = ui  OBVIOUS
    <3>2. PICK ds : ds = calls  OBVIOUS
    <3>3. PICK active : active = native.active  OBVIOUS
    <3>4. PICK mine : mine = Of(native.active)  OBVIOUS
    <3>5. PICK st : st = store  OBVIOUS
    <3>6. PICK n : n = spent.sends  OBVIOUS
    <3>7. RepliesOK(u, ds, st, n) /\ PendingOK(u, ds) /\ SessionOK(u, ds, rest, active, mine)
      BY <1>4, <3>1, <3>2, <3>3, <3>4, <3>5, <3>6, Facts
    <3>8. /\ RepliesOK(u, ds \cup {x}, st, n) /\ PendingOK(u, ds \cup {x})
          /\ SessionOK(u, ds \cup {x}, rest, active, mine)
      BY <2>2, <2>3, <2>4, <3>1, <3>7, CallAdded
    <3> QED  BY <2>5, <3>1, <3>2, <3>3, <3>4, <3>5, <3>6, <3>8
  <2>7. PICK next : next = ui  OBVIOUS
  <2>8. Handled(next, cs, rest, spent.sends)
    <3>1. next \in Pages /\ Same(ui, next) /\ next.toast = ui.toast /\ cs \in SUBSET Calls
      BY <2>2, <2>5, <2>7, Facts DEF Same, SameCache, SameSession
    <3> QED  BY <1>4, <2>6, <3>1, Facts, HandledSame
  <2> QED  BY <1>3, <1>5, <2>1, <2>5, <2>7, <2>8, Facts, Committed DEF Kept
<1>6. CASE Render(IF command.mark = ui.gen THEN [ui EXCEPT !.auth = "unauthenticated"] ELSE ui,
                  calls, rest)
  <2>1. PICK next : next = IF command.mark = ui.gen THEN [ui EXCEPT !.auth = "unauthenticated"]
                           ELSE ui
    OBVIOUS
  <2>2. /\ next \in Pages /\ SameCache(ui, next) /\ next.toast = ui.toast
        /\ next.unavailable = ui.unavailable /\ next.guessed = ui.guessed
        /\ next.auth = "unauthenticated" \/ next = ui
    BY <2>1, Facts DEF Pages, SameCache
  <2>3. Handled(next, calls, rest, spent.sends)
    <3>1. CASE next = ui
      <4>1. Same(ui, next)  BY <3>1 DEF Same, SameCache, SameSession
      <4> QED  BY <1>4, <2>2, <4>1, Facts, HandledSame
    <3>2. CASE next # ui
      BY <1>4, <2>2, <3>2, HandledPersona
    <3> QED  BY <3>1, <3>2
  <2> QED  BY <1>3, <1>6, <2>1, <2>3, Facts, Committed DEF Kept
<1> QED  BY <1>1, <1>2, <1>5, <1>6 DEF SessionAnswered, Rest

-----------------------------------------------------------------------------
(* The handlers of the calls                                                  *)

LEMMA AuthAnsweredKeeps ==
  ASSUME WorkspaceInv, NEW c \in calls, AuthAnswered(c)  PROVE WorkspaceInv'
<1> DEFINE kept == calls \ {c}
<1>1. PICK next :
        next = IF ~Current(c) THEN ui
               ELSE CASE c.status = "answered" ->
                           [ui EXCEPT !.persona = c.persona, !.unavailable = FALSE,
                                      !.auth = "authenticated"]
                      [] c.status = "unavailable" ->
                           [ui EXCEPT !.persona = ui.listed, !.unavailable = TRUE,
                                      !.guessed = TRUE, !.auth = "authenticated"]
                      [] OTHER -> [ui EXCEPT !.auth = "unauthenticated"]
  OBVIOUS
<1>2. Render(next, kept, native.queue) /\ c.kind = "auth" /\ UNCHANGED Kept
  BY <1>1 DEF AuthAnswered
<1>3. \A x \in calls : x.kind = "chat" => x \in kept  BY <1>2
<1>4. CASE next = ui
  <2>1. Same(ui, next)  BY <1>4 DEF Same, SameCache, SameSession
  <2>2. Handled(next, kept, native.queue, spent.sends)
    BY <1>3, <1>4, <2>1, Facts, HandledSame
  <2> QED  BY <1>2, <2>2, Facts, Committed DEF Kept
<1>5. CASE Current(c)
  <2>1. PICK u : u = ui  OBVIOUS
  <2>2. u \in Pages  BY <2>1, Facts
  <2>3. c \in AuthCalls
    BY <1>2, Facts DEF Calls, HistoryCalls, LoadCalls, AuthCalls, CreateCalls, ChatCalls, DeleteCalls
  <2>4. \/ /\ c.status = "answered"
           /\ next = [u EXCEPT !.persona = c.persona, !.unavailable = FALSE,
                               !.auth = "authenticated"]
        \/ next = [u EXCEPT !.persona = u.listed, !.unavailable = TRUE,
                            !.guessed = TRUE, !.auth = "authenticated"]
        \/ next = [u EXCEPT !.auth = "unauthenticated"]
    BY <1>1, <1>5, <2>1
  <2>5. next \in Pages
    <3>1. c.persona \in Someone  BY <2>3 DEF AuthCalls
    <3>2. u.listed \in Someone  BY <2>2 DEF Pages
    <3>3. [u EXCEPT !.persona = c.persona, !.unavailable = FALSE,
                    !.auth = "authenticated"] \in Pages
      BY <2>2, <3>1 DEF Pages
    <3>4. [u EXCEPT !.persona = u.listed, !.unavailable = TRUE,
                    !.guessed = TRUE, !.auth = "authenticated"] \in Pages
      BY <2>2, <3>2 DEF Pages
    <3>5. [u EXCEPT !.auth = "unauthenticated"] \in Pages  BY <2>2 DEF Pages
    <3> QED  BY <2>4, <3>3, <3>4, <3>5
  <2>6. SameCache(u, next) /\ next.toast = u.toast  BY <2>2, <2>4 DEF Pages, SameCache
  <2>7. \/ /\ c.status = "answered" /\ next.persona = c.persona /\ next.unavailable = FALSE
           /\ next.guessed = u.guessed
        \/ next.unavailable = TRUE /\ next.guessed = TRUE
        \/ /\ next.auth = "unauthenticated" /\ next.guessed = u.guessed
    BY <2>2, <2>4 DEF Pages
  <2>8. c.status = "answered" => c.persona = native.active
    BY <1>2, <1>5, Facts DEF SessionOK, PersonaOK, Current
  <2>9. SessionOK(next, kept, native.queue, native.active, Of(native.active))
    <3>1. MarksOK(next, kept, native.queue)
      BY <2>1, <2>6, Facts DEF SessionOK, MarksOK, SameCache
    <3>2. SwitchOK(next, kept, native.queue)
      BY <1>2, <1>5, NoSwitch DEF SwitchOK, Current
    <3>3. PersonaOK(next, kept, native.active)
      BY <2>1, <2>6, <2>7, <2>8, Facts DEF SessionOK, PersonaOK, SameCache
    <3>4. MainOK(next, kept, Of(native.active))
      BY <2>1, <2>6, <2>7, Facts DEF SessionOK, PersonaOK, MainOK, SameCache
    <3> QED  BY <3>1, <3>2, <3>3, <3>4, Facts DEF SessionOK
  <2>10. Handled(next, kept, native.queue, spent.sends)
    BY <1>3, <2>1, <2>5, <2>6, <2>9, Facts, HandledCache
  <2> QED  BY <1>2, <2>10, Facts, Committed DEF Kept
<1> QED  BY <1>1, <1>4, <1>5

LEMMA LoadAnsweredKeeps ==
  ASSUME WorkspaceInv, NEW c \in calls, LoadAnswered(c)  PROVE WorkspaceInv'
<1> DEFINE kept == calls \ {c}
<1>1. c.kind = "load" /\ UNCHANGED <<open, store, news, spent>>  BY DEF LoadAnswered
<1>2. \A x \in calls : x.kind = "chat" => x \in kept  BY <1>1
<1>3. c \in LoadCalls
  BY <1>1, Facts DEF Calls, HistoryCalls, LoadCalls, AuthCalls, CreateCalls, ChatCalls, DeleteCalls
<1>4. CASE Render(ui, kept, native.queue)
  <2>1. PICK next : next = ui  OBVIOUS
  <2>2. Same(ui, next)  BY <2>1 DEF Same, SameCache, SameSession
  <2>3. Handled(next, kept, native.queue, spent.sends)
    BY <1>2, <2>1, <2>2, Facts, HandledSame
  <2> QED  BY <1>1, <1>4, <2>1, <2>3, Facts, Committed
<1>5. ASSUME NEW conv \in c.list, Current(c), c.status = "answered",
             Render([ui EXCEPT !.main = conv], kept, native.queue)
      PROVE  WorkspaceInv'
  <2>1. PICK next : next = [ui EXCEPT !.main = conv]  OBVIOUS
  <2>2. conv \in Conversations /\ conv \in Of(native.active)
    BY <1>1, <1>3, <1>5, Facts DEF LoadCalls, SessionOK, MainOK, Current
  <2>3. next \in Pages  BY <2>1, <2>2, Facts DEF Pages, Somewhere
  <2>4. /\ next.gen = ui.gen /\ next.auth = ui.auth /\ next.persona = ui.persona
        /\ next.unavailable = ui.unavailable /\ next.guessed = ui.guessed
        /\ next.history = ui.history /\ next.pending = ui.pending
        /\ next.received = ui.received /\ next.toast = ui.toast /\ next.main = conv
    BY <2>1, Facts DEF Pages
  <2>5. Handled(next, kept, native.queue, spent.sends)
    BY <1>1, <1>2, <1>5, <2>2, <2>3, <2>4, Facts, NoSwitch, HandledMain DEF Current
  <2> QED  BY <1>1, <1>5, <2>1, <2>5, Facts, Committed
<1>6. ASSUME NEW x, x = [kind |-> "create", gen |-> c.gen, key |-> c.key,
                         status |-> "asked", conv |-> None],
             Current(c), Render(ui, kept \cup {x}, native.queue)
      PROVE  WorkspaceInv'
  <2>1. x \in Calls /\ x.kind = "create" /\ x.status = "asked" /\ x.gen = c.gen
    BY <1>3, <1>6 DEF Calls, LoadCalls, CreateCalls, Statuses, Unanswered, Somewhere
  <2>2. c.gen = ui.gen /\ c.gen \in Nat  BY <1>3, <1>6 DEF Current, LoadCalls
  <2>3. PICK next : next = ui  OBVIOUS
  <2>4. /\ RepliesOK(next, calls \cup {x}, store, spent.sends)
        /\ PendingOK(next, calls \cup {x})
        /\ SessionOK(next, calls \cup {x}, native.queue, native.active, Of(native.active))
    <3>1. PICK ds : ds = calls  OBVIOUS
    <3>2. PICK q : q = native.queue  OBVIOUS
    <3>3. PICK active : active = native.active  OBVIOUS
    <3>4. PICK mine : mine = Of(native.active)  OBVIOUS
    <3>5. PICK st : st = store  OBVIOUS
    <3>6. PICK n : n = spent.sends  OBVIOUS
    <3>7. RepliesOK(next, ds, st, n) /\ PendingOK(next, ds) /\ SessionOK(next, ds, q, active, mine)
      BY <2>3, <3>1, <3>2, <3>3, <3>4, <3>5, <3>6, Facts
    <3>8. x.gen <= next.gen /\ \A i \in DOMAIN q : q[i].name # "switch"
      BY <1>1, <2>1, <2>2, <2>3, <3>2, NoSwitch
    <3>9. /\ RepliesOK(next, ds \cup {x}, st, n) /\ PendingOK(next, ds \cup {x})
          /\ SessionOK(next, ds \cup {x}, q, active, mine)
      BY <2>1, <3>7, <3>8, CallAdded
    <3> QED  BY <3>1, <3>2, <3>3, <3>4, <3>5, <3>6, <3>9
  <2>5. PICK cs : cs = calls \cup {x}  OBVIOUS
  <2>6. PICK ds : ds = kept \cup {x}  OBVIOUS
  <2>7. ds \subseteq cs /\ (\A y \in cs : y.kind = "chat" => y \in ds) /\ cs \in SUBSET Calls
    BY <1>2, <2>1, <2>5, <2>6, Facts
  <2>8. Handled(next, ds, native.queue, spent.sends)
    <3>1. Same(ui, next) /\ next \in Pages  BY <2>3, Facts DEF Same, SameCache, SameSession
    <3>2. /\ RepliesOK(ui, cs, store, spent.sends) /\ PendingOK(ui, cs)
          /\ SessionOK(ui, cs, native.queue, native.active, Of(native.active))
      BY <2>3, <2>4, <2>5
    <3> QED  BY <2>3, <2>7, <3>1, <3>2, Facts, HandledSame
  <2> QED  BY <1>1, <1>6, <2>3, <2>6, <2>8, Facts, Committed
<1> QED  BY <1>4, <1>5, <1>6 DEF LoadAnswered

LEMMA CreateAnsweredKeeps ==
  ASSUME WorkspaceInv, NEW c \in calls, CreateAnswered(c)  PROVE WorkspaceInv'
<1> DEFINE kept == calls \ {c}
<1>1. c.kind = "create" /\ UNCHANGED <<open, store, news, spent>>  BY DEF CreateAnswered
<1>2. \A x \in calls : x.kind = "chat" => x \in kept  BY <1>1
<1>3. CASE Render(ui, kept, native.queue)
  <2>1. PICK next : next = ui  OBVIOUS
  <2>2. Same(ui, next)  BY <2>1 DEF Same, SameCache, SameSession
  <2>3. Handled(next, kept, native.queue, spent.sends)
    BY <1>2, <2>1, <2>2, Facts, HandledSame
  <2> QED  BY <1>1, <1>3, <2>1, <2>3, Facts, Committed
<1>4. ASSUME Current(c), c.status = "answered",
             Render([ui EXCEPT !.main = c.conv], kept, native.queue)
      PROVE  WorkspaceInv'
  <2>1. PICK next : next = [ui EXCEPT !.main = c.conv]  OBVIOUS
  <2>2. c.conv \in Of(native.active)
    BY <1>1, <1>4, Facts DEF SessionOK, MainOK, Current
  <2>3. c.conv \in Conversations  BY <2>2 DEF Of, WorkspaceInv, WorldInv
  <2>4. next \in Pages  BY <2>1, <2>3, Facts DEF Pages, Somewhere
  <2>5. /\ next.gen = ui.gen /\ next.auth = ui.auth /\ next.persona = ui.persona
        /\ next.unavailable = ui.unavailable /\ next.guessed = ui.guessed
        /\ next.history = ui.history /\ next.pending = ui.pending
        /\ next.received = ui.received /\ next.toast = ui.toast /\ next.main = c.conv
    BY <2>1, Facts DEF Pages
  <2>6. Handled(next, kept, native.queue, spent.sends)
    BY <1>1, <1>2, <1>4, <2>2, <2>4, <2>5, Facts, NoSwitch, HandledMain DEF Current
  <2> QED  BY <1>1, <1>4, <2>1, <2>6, Facts, Committed
<1> QED  BY <1>3, <1>4 DEF CreateAnswered

\* A handler that changes the messages of one conversation and what waits for
\* them, in the session it is of.
LEMMA HandledHistory ==
  ASSUME NEW next, NEW history \in Histories, NEW pending \in [Conversations -> Nat],
         NEW received \in SUBSET Nat, NEW kept, NEW n,
         WorkspaceInv, kept \subseteq calls,
         next = [ui EXCEPT !.history = history, !.pending = pending, !.received = received],
         RepliesOK(next, kept, store, n), PendingOK(next, kept)
  PROVE  Handled(next, kept, native.queue, n)
<1>1. PICK u : u = ui  OBVIOUS
<1>2. u \in Pages /\ next = [u EXCEPT !.history = history, !.pending = pending,
                                      !.received = received]
  BY <1>1, Facts
<1>3. next \in Pages  BY <1>2 DEF Pages
<1>4. SameSession(u, next) /\ next.toast = u.toast  BY <1>2 DEF Pages, SameSession
<1> QED  BY <1>1, <1>3, <1>4, HandledSession

LEMMA HistoryAnsweredKeeps ==
  ASSUME WorkspaceInv, NEW c \in calls, HistoryAnswered(c)  PROVE WorkspaceInv'
<1> DEFINE kept == calls \ {c}
<1>1. c.kind \in {"history", "news"} /\ UNCHANGED Kept  BY DEF HistoryAnswered
<1>2. \A x \in calls : x.kind = "chat" => x \in kept  BY <1>1
<1>3. c \in HistoryCalls
  BY <1>1, Facts DEF Calls, HistoryCalls, LoadCalls, AuthCalls, CreateCalls, ChatCalls, DeleteCalls
<1>4. CASE Render(ui, kept, native.queue)
  <2>1. PICK next : next = ui  OBVIOUS
  <2>2. Same(ui, next)  BY <2>1 DEF Same, SameCache, SameSession
  <2>3. Handled(next, kept, native.queue, spent.sends)
    BY <1>2, <2>1, <2>2, Facts, HandledSame
  <2> QED  BY <1>1, <1>4, <2>1, <2>3, Facts, Committed DEF Kept
<1>5. CASE Render([ui EXCEPT !.history =
                     replaceDurableChatHistory(@, c.conv, c.messages, c.revision)],
                  kept, native.queue)
  <2>1. PICK u : u = ui  OBVIOUS
  <2>2. u \in Pages  BY <2>1, Facts
  <2>3. PICK history : history = replaceDurableChatHistory(u.history, c.conv, c.messages, c.revision)
    OBVIOUS
  <2>4. /\ history \in Histories
        /\ \A d \in Conversations : /\ history[d].revision = u.history[d].revision
                                    /\ \/ history[d].messages = u.history[d].messages
                                       \/ history[d].messages \subseteq Durable
    <3>1. c.conv \in Conversations /\ c.messages \subseteq Durable  BY <1>3 DEF HistoryCalls
    <3>2. Durable \subseteq Shown  BY DEF Durable, Shown
    <3>3. u.history \in Histories  BY <2>2 DEF Pages
    <3>4. CASE history = u.history  BY <3>3, <3>4 DEF Histories
    <3>5. CASE history = [u.history EXCEPT ![c.conv].messages = c.messages]
      BY <3>1, <3>2, <3>3, <3>5 DEF Histories
    <3> QED  BY <2>3, <3>4, <3>5 DEF replaceDurableChatHistory
  <2>5. PICK next : next = [u EXCEPT !.history = history]  OBVIOUS
  <2>6. next = [u EXCEPT !.history = history, !.pending = u.pending, !.received = u.received]
        /\ next.history = history /\ next.pending = u.pending /\ next.received = u.received
        /\ next.gen = u.gen /\ next.main = u.main
    BY <2>2, <2>5 DEF Pages
  <2>7. RepliesOK(next, kept, store, spent.sends)
    <3>1. ChatsOK(next, kept, store, spent.sends)
      BY <2>1, <2>6, Facts DEF RepliesOK, ChatsOK
    <3>2. SnapshotsOK(next, kept, store)
      <4>1. \A x \in kept : x.kind \in {"history", "news"} => x.conv \in Conversations
        BY Facts DEF Calls, HistoryCalls, LoadCalls, AuthCalls, CreateCalls, ChatCalls, DeleteCalls
      <4> QED  BY <2>1, <2>4, <2>6, <4>1, Facts DEF RepliesOK, SnapshotsOK
    <3>3. DeletesOK(kept, store, spent.sends)  BY Facts DEF RepliesOK, DeletesOK
    <3> QED  BY <3>1, <3>2, <3>3 DEF RepliesOK
  <2>8. PendingOK(next, kept)
    <3>1. ASSUME NEW d, NEW k, SentBy(ui, calls, d, k)  PROVE SentBy(next, kept, d, k)
      BY <1>2, <2>1, <2>6, <3>1 DEF SentBy
    <3>2. \A m \in Durable : m.kind # "temp"  BY DEF Durable
    <3>3. \A d \in Conversations : \A m \in next.history[d].messages :
            m.kind = "temp" => m \in ui.history[d].messages
      BY <2>1, <2>4, <2>6, <3>2
    <3> QED  BY <2>1, <2>6, <3>1, <3>3, Facts DEF PendingOK
  <2>9. Handled(next, kept, native.queue, spent.sends)
    <3>1. u.pending \in [Conversations -> Nat] /\ u.received \in SUBSET Nat
      BY <2>2 DEF Pages
    <3> QED  BY <2>1, <2>4, <2>6, <2>7, <2>8, <3>1, Facts, HandledHistory
  <2> QED  BY <1>1, <1>5, <2>1, <2>3, <2>5, <2>9, Facts, Committed DEF Kept
<1> QED  BY <1>4, <1>5 DEF HistoryAnswered

LEMMA DeleteAnsweredKeeps ==
  ASSUME WorkspaceInv, NEW c \in calls, DeleteAnswered(c)  PROVE WorkspaceInv'
<1> DEFINE kept == calls \ {c}
<1>1. c.kind = "delete" /\ UNCHANGED Kept  BY DEF DeleteAnswered
<1>2. \A x \in calls : x.kind = "chat" => x \in kept  BY <1>1
<1>3. c \in DeleteCalls
  BY <1>1, Facts DEF Calls, HistoryCalls, LoadCalls, AuthCalls, CreateCalls, ChatCalls, DeleteCalls
<1>4. CASE Render(ui, kept, native.queue)
  <2>1. PICK next : next = ui  OBVIOUS
  <2>2. Same(ui, next)  BY <2>1 DEF Same, SameCache, SameSession
  <2>3. Handled(next, kept, native.queue, spent.sends)
    BY <1>2, <2>1, <2>2, Facts, HandledSame
  <2> QED  BY <1>1, <1>4, <2>1, <2>3, Facts, Committed DEF Kept
<1>5. CASE Render([ui EXCEPT !.history = updateChatHistory(@, c.conv,
                                           @[c.conv].messages \ {c.message})],
                  kept, native.queue)
  <2>1. PICK u : u = ui  OBVIOUS
  <2>2. u \in Pages  BY <2>1, Facts
  <2>3. PICK history : history = updateChatHistory(u.history, c.conv,
                                   u.history[c.conv].messages \ {c.message})
    OBVIOUS
  <2>4. /\ history \in Histories
        /\ \A d \in Conversations :
             /\ history[d].messages \subseteq u.history[d].messages
             /\ history[d].revision = u.history[d].revision
                \/ history[d].revision = u.history[d].revision + 1
             /\ u.history[d].revision \in Nat
             /\ history[d].messages = u.history[d].messages
                \/ history[d].revision # u.history[d].revision
    <3>1. c.conv \in Conversations  BY <1>3 DEF DeleteCalls
    <3>2. u.history \in Histories  BY <2>2 DEF Pages
    <3> QED  BY <2>3, <3>1, <3>2 DEF updateChatHistory, Histories
  <2>5. PICK next : next = [u EXCEPT !.history = history]  OBVIOUS
  <2>6. next = [u EXCEPT !.history = history, !.pending = u.pending, !.received = u.received]
        /\ next.history = history /\ next.pending = u.pending /\ next.received = u.received
        /\ next.gen = u.gen /\ next.main = u.main
    BY <2>2, <2>5 DEF Pages
  <2>7. RepliesOK(next, kept, store, spent.sends)
    <3>1. ChatsOK(next, kept, store, spent.sends)
      BY <2>1, <2>6, Facts DEF RepliesOK, ChatsOK
    <3>2. SnapshotsOK(next, kept, store)
      <4> SUFFICES ASSUME NEW x \in kept, x.kind \in {"history", "news"}
                   PROVE  /\ x.conv = next.main /\ x.revision <= next.history[x.conv].revision
                          /\ x.status = "answered" /\ x.revision = next.history[x.conv].revision =>
                               \A k \in next.received :
                                 Message("reply", k) \in store[x.conv]
                                   => Message("reply", k) \in x.messages
        BY DEF SnapshotsOK
      <4>1. x.conv \in Conversations /\ x.revision \in Nat
        BY Facts DEF Calls, HistoryCalls, LoadCalls, AuthCalls, CreateCalls, ChatCalls, DeleteCalls
      <4>2. /\ x.conv = u.main /\ x.revision <= u.history[x.conv].revision
            /\ x.status = "answered" /\ x.revision = u.history[x.conv].revision =>
                 \A k \in u.received :
                   Message("reply", k) \in store[x.conv] => Message("reply", k) \in x.messages
        BY <2>1, Facts DEF RepliesOK, SnapshotsOK
      <4> QED  BY <2>4, <2>6, <4>1, <4>2
    <3>3. DeletesOK(kept, store, spent.sends)  BY Facts DEF RepliesOK, DeletesOK
    <3> QED  BY <3>1, <3>2, <3>3 DEF RepliesOK
  <2>8. PendingOK(next, kept)
    <3>1. ASSUME NEW d, NEW k, SentBy(ui, calls, d, k)  PROVE SentBy(next, kept, d, k)
      BY <1>2, <2>1, <2>6, <3>1 DEF SentBy
    <3> QED  BY <2>1, <2>4, <2>6, <3>1, Facts DEF PendingOK
  <2>9. Handled(next, kept, native.queue, spent.sends)
    <3>1. u.pending \in [Conversations -> Nat] /\ u.received \in SUBSET Nat
      BY <2>2 DEF Pages
    <3> QED  BY <2>1, <2>4, <2>6, <2>7, <2>8, <3>1, Facts, HandledHistory
  <2> QED  BY <1>1, <1>5, <2>1, <2>3, <2>5, <2>9, Facts, Committed DEF Kept
<1> QED  BY <1>4, <1>5 DEF DeleteAnswered

LEMMA DeniedKeeps ==
  ASSUME WorkspaceInv, NEW c \in calls, Denied(c)  PROVE WorkspaceInv'
<1> DEFINE kept == calls \ {c}
<1>1. PICK u : u = ui  OBVIOUS
<1>2. PICK blank : blank = Forget(u)  OBVIOUS
<1>3. PICK next : next = [blank EXCEPT !.auth = "unauthenticated", !.persona = None]  OBVIOUS
<1>4. Render(next, kept, native.queue) /\ UNCHANGED Kept  BY <1>1, <1>2, <1>3 DEF Denied
<1>5. Blank(u, blank)  BY <1>1, <1>2, Facts, ForgetBlank
<1>6. next \in Pages  BY <1>3, <1>5 DEF Blank, Pages, Someone
<1>7. Blank(u, next) /\ next.auth # "authenticated"  BY <1>3, <1>5, <1>6 DEF Blank, Pages
<1>8. QueueOK(native.queue, native.active)
      /\ \A i \in DOMAIN native.queue : native.queue[i].name = "session" =>
           native.queue[i].mark <= ui.gen
  BY Facts DEF SessionOK, MarksOK
<1>9. Handled(next, kept, native.queue, spent.sends)
  <2>1. next.toast # None => next.toast \in open  BY <1>1, <1>7, Facts DEF Blank
  <2>2. u.gen = ui.gen  BY <1>1
  <2> QED  BY <1>7, <1>8, <2>1, <2>2, Facts, HandledForgotten
<1> QED  BY <1>4, <1>9, Facts, Committed DEF Kept

\* The messages of the conversation after the answer of the send n.
LEMMA MessagesOf ==
  ASSUME NEW n \in Nat
  PROVE  /\ \A kind \in {"user", "reply", "failed", "temp"} :
              Message(kind, n) \in Shown /\ Message(kind, n).kind = kind
         /\ \A m \in Shown : m.kind = "temp" /\ m.n = n => m = Message("temp", n)
BY DEF Message, Shown

LEMMA MergedMessages ==
  ASSUME NEW n \in Nat, NEW shown \in SUBSET Shown, NEW messages,
         messages = reconcileChatResponse(shown, n)
  PROVE  /\ messages \subseteq Shown
         /\ \A m \in messages : m.kind = "temp" => m \in shown /\ m.n # n
<1>1. \A m \in messages : \/ m \in shown /\ m # Message("temp", n)
                          \/ m = Message("user", n) \/ m = Message("reply", n)
  BY DEF reconcileChatResponse
<1> QED  BY <1>1, MessagesOf

LEMMA FailedMessages ==
  ASSUME NEW n \in Nat, NEW shown \in SUBSET Shown, NEW messages,
         messages = {IF m = Message("temp", n) THEN Message("failed", n) ELSE m : m \in shown}
  PROVE  /\ messages \subseteq Shown
         /\ \A m \in messages : m.kind = "temp" => m \in shown /\ m.n # n
<1>1. \A m \in messages : \/ m \in shown /\ m # Message("temp", n)
                          \/ m = Message("failed", n)
  OBVIOUS
<1> QED  BY <1>1, MessagesOf

LEMMA ChatAnsweredKeeps ==
  ASSUME WorkspaceInv, NEW c \in calls, ChatAnswered(c)  PROVE WorkspaceInv'
<1> DEFINE kept == calls \ {c}
<1>1. c.kind = "chat" /\ UNCHANGED Kept  BY DEF ChatAnswered
<1>2. c \in ChatCalls
  BY <1>1, Facts DEF Calls, HistoryCalls, LoadCalls, AuthCalls, CreateCalls, ChatCalls, DeleteCalls
<1>3. DeletesOK(kept, store, spent.sends)  BY Facts DEF RepliesOK, DeletesOK
<1>4. \A x \in kept : x.kind \in {"history", "news"} =>
        x.conv \in Conversations /\ x.revision \in Nat
  BY Facts DEF Calls, HistoryCalls, LoadCalls, AuthCalls, CreateCalls, ChatCalls, DeleteCalls
<1>5. CASE ~Current(c)
  <2>1. PICK next : next = ui  OBVIOUS
  <2>2. Render(next, kept, native.queue)  BY <1>5, <2>1 DEF ChatAnswered
  <2>3. RepliesOK(next, kept, store, spent.sends)
    BY <1>3, <2>1, Facts DEF RepliesOK, ChatsOK, SnapshotsOK
  <2>4. PendingOK(next, kept)
    <3>1. ASSUME NEW d, NEW k, SentBy(ui, calls, d, k)  PROVE SentBy(next, kept, d, k)
      BY <1>5, <2>1, <3>1 DEF SentBy, Current
    <3> QED  BY <2>1, <3>1, Facts DEF PendingOK
  <2>5. Handled(next, kept, native.queue, spent.sends)
    <3>1. next \in Pages /\ SameSession(ui, next) /\ next.toast = ui.toast
      BY <2>1, Facts DEF SameSession
    <3> QED  BY <2>3, <2>4, <3>1, HandledSession
  <2> QED  BY <1>1, <2>2, <2>5, Facts, Committed DEF Kept
<1>6. CASE Current(c)
  <2>1. PICK u : u = ui  OBVIOUS
  <2>2. u \in Pages /\ c.gen = u.gen  BY <1>6, <2>1, Facts DEF Current
  <2>3. PICK shown : shown = u.history[c.conv].messages  OBVIOUS
  <2>4. PICK messages :
          messages = IF c.status = "answered" THEN reconcileChatResponse(shown, c.n)
                     ELSE {IF m = Message("temp", c.n) THEN Message("failed", c.n) ELSE m : m \in shown}
    OBVIOUS
  <2>5. PICK history : history = updateChatHistory(u.history, c.conv, messages)  OBVIOUS
  <2>6. PICK received : received = u.received \cup {n \in {c.n} : c.status = "answered"}  OBVIOUS
  <2>7. PICK pending : pending = IF u.pending[c.conv] = c.n
                                 THEN [u.pending EXCEPT ![c.conv] = 0] ELSE u.pending
    OBVIOUS
  <2>8. PICK next : next = [u EXCEPT !.history = history, !.pending = pending,
                                     !.received = received]
    OBVIOUS
  <2>9. /\ c.conv \in Conversations /\ c.n \in Nat /\ u.history \in Histories
        /\ u.pending \in [Conversations -> Nat] /\ u.received \in SUBSET Nat
    BY <1>2, <2>2 DEF ChatCalls, Pages
  <2>10. shown \in SUBSET Shown  BY <2>3, <2>9 DEF Histories
  <2>11. /\ messages \subseteq Shown
         /\ \A m \in messages : m.kind = "temp" => m \in shown /\ m.n # c.n
    <3>1. PICK n : n = c.n  OBVIOUS
    <3>2. n \in Nat  BY <2>9, <3>1
    <3>3. CASE messages = reconcileChatResponse(shown, n)
      <4>1. /\ messages \subseteq Shown
            /\ \A m \in messages : m.kind = "temp" => m \in shown /\ m.n # n
        BY <2>10, <3>2, <3>3, MergedMessages
      <4> QED  BY <3>1, <4>1
    <3>4. CASE messages = {IF m = Message("temp", n) THEN Message("failed", n) ELSE m : m \in shown}
      <4>1. /\ messages \subseteq Shown
            /\ \A m \in messages : m.kind = "temp" => m \in shown /\ m.n # n
        BY <2>10, <3>2, <3>4, FailedMessages
      <4> QED  BY <3>1, <4>1
    <3> QED  BY <2>4, <3>1, <3>3, <3>4
  <2>12. /\ history \in Histories /\ history[c.conv].messages = messages
         /\ history[c.conv].revision = u.history[c.conv].revision + 1
         /\ u.history[c.conv].revision \in Nat
         /\ \A d \in Conversations : d # c.conv => history[d] = u.history[d]
    <3>1. u.history[c.conv].revision \in Nat  BY <2>9 DEF Histories
    <3> QED  BY <2>5, <2>9, <2>11, <3>1 DEF updateChatHistory, Histories
  <2>13. /\ pending \in [Conversations -> Nat] /\ (pending[c.conv] # c.n \/ pending[c.conv] = 0)
         /\ \A d \in Conversations : pending[d] = u.pending[d] \/ pending[d] = 0
    BY <2>7, <2>9
  <2>14. received \in SUBSET Nat /\ received \subseteq u.received \cup {c.n}
    BY <2>6, <2>9
  <2>15. Render(next, kept, native.queue)
    <3>1. PICK merged : merged = [u EXCEPT !.history = updateChatHistory(@, c.conv, messages),
                                           !.received = @ \cup {n \in {c.n} : c.status = "answered"}]
      OBVIOUS
    <3>2. merged = [u EXCEPT !.history = history, !.received = received]
      BY <2>5, <2>6, <3>1
    <3>3. Settled(merged, c) = next
      <4>1. merged.pending = u.pending  BY <2>2, <3>2 DEF Pages
      <4>2. CASE u.pending[c.conv] = c.n
        <5>1. Settled(merged, c) = [merged EXCEPT !.pending = pending]
          BY <2>7, <4>1, <4>2 DEF Settled
        <5> QED  BY <2>2, <2>8, <3>2, <5>1 DEF Pages
      <4>3. CASE u.pending[c.conv] # c.n
        <5>1. Settled(merged, c) = merged  BY <4>1, <4>3 DEF Settled
        <5> QED  BY <2>2, <2>7, <2>8, <3>2, <4>3, <5>1 DEF Pages
      <4> QED  BY <4>2, <4>3
    <3> QED  BY <1>6, <2>1, <2>3, <2>4, <3>1, <3>3 DEF ChatAnswered
  <2>16. /\ next.history = history /\ next.pending = pending /\ next.received = received
         /\ next.gen = u.gen /\ next.main = u.main
    BY <2>2, <2>8 DEF Pages
  <2>17. RepliesOK(next, kept, store, spent.sends)
    <3>1. ChatsOK(next, kept, store, spent.sends)
      <4>1. /\ \A x \in calls : x.kind = "chat" =>
                 /\ x.n \in 1..spent.sends /\ x.n \notin u.received
                 /\ \A d \in Conversations : Message("reply", x.n) \in store[d] =>
                      d = x.conv /\ x.status \notin Unanswered
            /\ \A x, y \in calls : x.kind = "chat" /\ y.kind = "chat" /\ x.n = y.n => x = y
            /\ \A d \in Conversations : \A m \in store[d] : m.kind = "reply" => m.n <= spent.sends
            /\ \A k \in u.received : k <= spent.sends
        BY <2>1, Facts DEF RepliesOK, ChatsOK
      <4>2. c.n <= spent.sends /\ \A x \in kept : x.kind = "chat" => x.n # c.n
        BY <1>1, <4>1, Facts
      <4> QED  BY <2>14, <2>16, <4>1, <4>2 DEF ChatsOK
    <3>2. SnapshotsOK(next, kept, store)
      <4> SUFFICES ASSUME NEW x \in kept, x.kind \in {"history", "news"}
                   PROVE  /\ x.conv = next.main /\ x.revision <= next.history[x.conv].revision
                          /\ x.status = "answered" /\ x.revision = next.history[x.conv].revision =>
                               \A k \in next.received :
                                 Message("reply", k) \in store[x.conv]
                                   => Message("reply", k) \in x.messages
        BY DEF SnapshotsOK
      <4>1. /\ x.conv = u.main /\ x.revision <= u.history[x.conv].revision
            /\ x.status = "answered" /\ x.revision = u.history[x.conv].revision =>
                 \A k \in u.received :
                   Message("reply", k) \in store[x.conv] => Message("reply", k) \in x.messages
        BY <2>1, Facts DEF RepliesOK, SnapshotsOK
      <4>2. CASE x.conv = c.conv
        BY <1>4, <2>12, <2>16, <4>1, <4>2
      <4>3. CASE x.conv # c.conv
        <5>1. Message("reply", c.n) \notin store[x.conv]
          BY <1>1, <1>4, <4>3, Facts DEF RepliesOK, ChatsOK
        <5> QED  BY <1>4, <2>12, <2>14, <2>16, <4>1, <4>3, <5>1
      <4> QED  BY <4>2, <4>3
    <3> QED  BY <1>3, <3>1, <3>2 DEF RepliesOK
  <2>18. PendingOK(next, kept)
    <3>1. ASSUME NEW d, NEW k, SentBy(ui, calls, d, k), d # c.conv \/ k # c.n
          PROVE  SentBy(next, kept, d, k)
      BY <2>1, <2>16, <3>1 DEF SentBy
    <3>2. ASSUME NEW d \in Conversations, pending[d] # 0
          PROVE  SentBy(next, kept, d, pending[d])
      <4>1. pending[d] = ui.pending[d] /\ (d # c.conv \/ pending[d] # c.n)
        BY <2>1, <2>13, <3>2
      <4>2. SentBy(ui, calls, d, pending[d])  BY <3>2, <4>1, Facts DEF PendingOK
      <4> QED  BY <3>1, <4>1, <4>2
    <3>3. ASSUME NEW d \in Conversations, NEW m \in history[d].messages, m.kind = "temp"
          PROVE  SentBy(next, kept, d, m.n)
      <4>1. m \in ui.history[d].messages /\ (d # c.conv \/ m.n # c.n)
        BY <2>1, <2>3, <2>11, <2>12, <3>3
      <4>2. SentBy(ui, calls, d, m.n)  BY <3>3, <4>1, Facts DEF PendingOK
      <4> QED  BY <3>1, <4>1, <4>2
    <3> QED  BY <2>16, <3>2, <3>3 DEF PendingOK
  <2>19. Handled(next, kept, native.queue, spent.sends)
    <3>1. next = [ui EXCEPT !.history = history, !.pending = pending, !.received = received]
      BY <2>1, <2>8
    <3>2. history \in Histories /\ pending \in [Conversations -> Nat] /\ received \in SUBSET Nat
      BY <2>12, <2>13, <2>14
    <3>3. kept \subseteq calls  OBVIOUS
    <3> HIDE DEF kept
    <3> QED  BY <2>17, <2>18, <3>1, <3>2, <3>3, HandledHistory
  <2> QED  BY <1>1, <2>15, <2>19, Facts, Committed DEF Kept
<1> QED  BY <1>5, <1>6

-----------------------------------------------------------------------------
(* The user                                                                   *)

LEMMA Spent ==
  ASSUME NEW what \in {"commands", "sends", "deletes", "events", "views", "troubles"},
         WorkspaceInv, Spend(what)
  PROVE  /\ spent' \in [commands : Nat, sends : Nat, deletes : Nat, events : Nat, views : Nat,
                        troubles : Nat]
         /\ spent'.sends = IF what = "sends" THEN spent.sends + 1 ELSE spent.sends
BY Facts DEF Spend

LEMMA SendKeeps == ASSUME WorkspaceInv, Send  PROVE WorkspaceInv'
<1>1. PICK u : u = ui  OBVIOUS
<1>2. PICK n \in Nat : n = spent.sends + 1  BY Facts
<1>3. PICK x : x = [kind |-> "chat", gen |-> u.gen, conv |-> u.main, n |-> n, status |-> "asked"]
  OBVIOUS
<1>4. PICK messages : messages = u.history[u.main].messages \cup {Message("temp", n)}  OBVIOUS
<1>5. PICK history : history = updateChatHistory(u.history, u.main, messages)  OBVIOUS
<1>6. PICK pending : pending = [u.pending EXCEPT ![u.main] = n]  OBVIOUS
<1>7. PICK next : next = [u EXCEPT !.pending = pending, !.history = history]  OBVIOUS
<1>8. PICK kept : kept = calls \cup {x}  OBVIOUS
<1>9. /\ u \in Pages /\ u.main \in Conversations /\ u.history \in Histories
      /\ u.pending \in [Conversations -> Nat] /\ u.gen \in Nat /\ u.received \subseteq Nat
  BY <1>1, Facts DEF Send, ChatMounted, Pages, Somewhere
<1>10. Render(next, kept, native.queue) /\ Spend("sends") /\ UNCHANGED <<open, store, news>>
  BY <1>1, <1>2, <1>3, <1>4, <1>5, <1>6, <1>7, <1>8 DEF Send
<1>11. Message("temp", n) \in Shown /\ Message("temp", n).n = n  BY <1>2 DEF Message, Shown
<1>12. /\ history \in Histories /\ history[u.main].messages = messages
       /\ u.history[u.main].revision \in Nat
       /\ history[u.main].revision = u.history[u.main].revision + 1
       /\ \A d \in Conversations : d # u.main => history[d] = u.history[d]
  <2>1. messages \subseteq Shown  BY <1>4, <1>9, <1>11 DEF Histories
  <2>2. u.history[u.main].revision \in Nat  BY <1>9 DEF Histories
  <2> QED  BY <1>5, <1>9, <2>1, <2>2 DEF updateChatHistory, Histories
<1>13. /\ pending \in [Conversations -> Nat] /\ pending[u.main] = n
       /\ \A d \in Conversations : d # u.main => pending[d] = u.pending[d]
  BY <1>2, <1>6, <1>9
<1>14. next \in Pages  BY <1>7, <1>9, <1>12, <1>13 DEF Pages
<1>15. /\ next.history = history /\ next.pending = pending /\ next.received = u.received
       /\ SameSession(u, next) /\ next.toast = u.toast
  BY <1>7, <1>9 DEF Pages, SameSession
<1>16. x \in Calls  BY <1>2, <1>3, <1>9 DEF Calls, ChatCalls, Statuses, Unanswered
<1>17. x.kind = "chat" /\ x.gen = u.gen /\ x.conv = u.main /\ x.n = n /\ x.status = "asked"
  BY <1>3
<1>18. /\ \A y \in kept : y \in calls \/ y = x
       /\ \A y \in calls : y \in kept
       /\ \A y \in kept : y.kind \in {"history", "news", "delete", "auth", "load", "create"} => y \in calls
  BY <1>8, <1>17
<1>19. RepliesOK(next, kept, store, n)
  <2>1. spent.sends \in Nat /\ n = spent.sends + 1  BY <1>2, Facts
  <2>2. ChatsOK(next, kept, store, n)
    <3>1. /\ \A y \in calls : y.kind = "chat" =>
               /\ y.n \in 1..spent.sends /\ y.n \notin u.received
               /\ \A d \in Conversations : Message("reply", y.n) \in store[d] =>
                    d = y.conv /\ y.status \notin Unanswered
          /\ \A y, z \in calls : y.kind = "chat" /\ z.kind = "chat" /\ y.n = z.n => y = z
          /\ \A d \in Conversations : \A m \in store[d] : m.kind = "reply" => m.n <= spent.sends
          /\ \A k \in u.received : k <= spent.sends
      BY <1>1, Facts DEF RepliesOK, ChatsOK
    <3>2. \A y \in calls : y.kind = "chat" => y.n # n /\ y.n \in 1..n  BY <2>1, <3>1
    <3>3. n \notin u.received /\ \A k \in u.received : k <= n  BY <1>9, <2>1, <3>1
    <3>4. \A d \in Conversations : \A m \in store[d] : m.kind = "reply" => m.n <= n /\ m.n # n
      <4>1. \A d \in Conversations : \A m \in store[d] : m.n \in Nat
        BY DEF WorkspaceInv, WorldInv, Durable
      <4> QED  BY <2>1, <3>1, <4>1
    <3>5. \A d \in Conversations : Message("reply", n) \notin store[d]
      BY <3>4 DEF Message
    <3>6. n \in 1..n  BY <2>1
    <3> QED  BY <1>15, <1>17, <1>18, <3>1, <3>2, <3>3, <3>4, <3>5, <3>6 DEF ChatsOK
  <2>3. SnapshotsOK(next, kept, store)
    <3> SUFFICES ASSUME NEW y \in kept, y.kind \in {"history", "news"}
                 PROVE  /\ y.conv = next.main /\ y.revision <= next.history[y.conv].revision
                        /\ y.revision # next.history[y.conv].revision
      BY DEF SnapshotsOK
    <3>1. y \in calls  BY <1>18
    <3>2. y.conv = u.main /\ y.revision <= u.history[y.conv].revision
      BY <1>1, <3>1, Facts DEF RepliesOK, SnapshotsOK
    <3>3. y.revision \in Nat
      BY <3>1, Facts DEF Calls, HistoryCalls, LoadCalls, AuthCalls, CreateCalls, ChatCalls, DeleteCalls
    <3> QED  BY <1>12, <1>15, <3>2, <3>3 DEF SameSession
  <2>4. DeletesOK(kept, store, n)
    <3>1. /\ \A y \in calls : y.kind = "delete" /\ y.message.kind = "reply" =>
               /\ y.message.n <= spent.sends
               /\ y.status = "answered" => y.message \notin store[y.conv]
               /\ \A z \in calls : z.kind = "chat" /\ z.n = y.message.n => z.status \notin Unanswered
      BY Facts DEF RepliesOK, DeletesOK
    <3>2. \A y \in calls : y.kind = "delete" => y.message.n \in Nat
      BY Facts DEF Calls, HistoryCalls, LoadCalls, AuthCalls, CreateCalls, ChatCalls, DeleteCalls, Durable
    <3>3. \A y \in calls : y.kind = "delete" /\ y.message.kind = "reply" =>
            y.message.n <= n /\ y.message.n # n
      BY <2>1, <3>1, <3>2
    <3> QED  BY <1>17, <1>18, <3>1, <3>3 DEF DeletesOK
  <2> QED  BY <2>2, <2>3, <2>4 DEF RepliesOK
<1>20. PendingOK(next, kept)
  <2>1. ASSUME NEW d, NEW k, SentBy(ui, calls, d, k)  PROVE SentBy(next, kept, d, k)
    BY <1>1, <1>15, <1>18, <2>1 DEF SentBy, SameSession
  <2>2. SentBy(next, kept, u.main, n)
    BY <1>8, <1>15, <1>17 DEF SentBy, SameSession
  <2>3. ASSUME NEW d \in Conversations, pending[d] # 0  PROVE SentBy(next, kept, d, pending[d])
    <3>1. CASE d = u.main  BY <1>13, <2>2, <3>1
    <3>2. CASE d # u.main
      <4>1. pending[d] = ui.pending[d]  BY <1>1, <1>13, <3>2
      <4> QED  BY <2>1, <2>3, <4>1, Facts DEF PendingOK
    <3> QED  BY <3>1, <3>2
  <2>4. ASSUME NEW d \in Conversations, NEW m \in history[d].messages, m.kind = "temp"
        PROVE  SentBy(next, kept, d, m.n)
    <3>1. CASE m \in ui.history[d].messages
      BY <2>1, <2>4, <3>1, Facts DEF PendingOK
    <3>2. CASE m \notin ui.history[d].messages
      <4>1. d = u.main /\ m.n = n  BY <1>1, <1>4, <1>11, <1>12, <3>2
      <4> QED  BY <2>2, <4>1
    <3> QED  BY <3>1, <3>2
  <2> QED  BY <1>15, <2>3, <2>4 DEF PendingOK
<1>21. SessionOK(next, kept, native.queue, native.active, Of(native.active))
  <2>1. MarksOK(next, kept, native.queue)
    BY <1>1, <1>9, <1>15, <1>17, <1>18, Facts DEF SessionOK, MarksOK, SameSession
  <2>2. SwitchOK(next, kept, native.queue)
    BY <1>1, <1>15, <1>18, Facts DEF SessionOK, SwitchOK, SameSession
  <2>3. PersonaOK(next, kept, native.active)
    BY <1>1, <1>15, <1>18, Facts DEF SessionOK, PersonaOK, SameSession
  <2>4. MainOK(next, kept, Of(native.active))
    BY <1>1, <1>15, <1>18, Facts DEF SessionOK, MainOK, SameSession
  <2> QED  BY <2>1, <2>2, <2>3, <2>4, Facts DEF SessionOK
<1>22. Handled(next, kept, native.queue, n)
  <2>1. Shared(next, kept) = kept  BY <1>1, <1>15 DEF Shared, SameSession
  <2>2. kept \in SUBSET Calls  BY <1>8, <1>16, Facts
  <2> QED  BY <1>1, <1>14, <1>15, <1>19, <1>20, <1>21, <2>1, <2>2, Facts DEF Handled
<1>23. spent' \in [commands : Nat, sends : Nat, deletes : Nat, events : Nat, views : Nat,
                   troubles : Nat] /\ spent'.sends = n
  BY <1>2, <1>10, Spent
<1> QED  BY <1>10, <1>22, <1>23, Committed

LEMMA ViewKeeps == ASSUME WorkspaceInv, View  PROVE WorkspaceInv'
<1>1. PICK section \in {"chat", "data"} :
        Render([ui EXCEPT !.section = section], calls, native.queue)
  BY DEF View
<1>2. PICK next : next = [ui EXCEPT !.section = section]  OBVIOUS
<1>3. next \in Pages /\ Same(ui, next) /\ next.toast = ui.toast
  BY <1>2, Facts DEF Pages, Same, SameCache, SameSession
<1>4. Handled(next, calls, native.queue, spent.sends)  BY <1>3, Facts, HandledSame
<1>5. spent' \in [commands : Nat, sends : Nat, deletes : Nat, events : Nat, views : Nat,
                  troubles : Nat] /\ spent'.sends = spent.sends
  BY Spent DEF View
<1> QED  BY <1>1, <1>2, <1>4, <1>5, Committed DEF View

LEMMA RetryKeeps == ASSUME WorkspaceInv, Retry  PROVE WorkspaceInv'
<1>1. PICK u : u = ui  OBVIOUS
<1>2. u \in Pages  BY <1>1, Facts
<1>3. PICK attempt \in Nat : attempt = u.attempt + 1  BY <1>2 DEF Pages
<1>4. PICK next : next = [u EXCEPT !.backend = "checking", !.auth = "checking",
                                   !.attempt = attempt]
  OBVIOUS
<1>5. Render(next, calls, native.queue) /\ UNCHANGED Kept  BY <1>1, <1>3, <1>4 DEF Retry
<1>6. next \in Pages  BY <1>2, <1>4 DEF Pages
<1>7. /\ SameCache(u, next) /\ next.toast = u.toast /\ next.auth = "checking"
      /\ next.unavailable = u.unavailable /\ next.guessed = u.guessed
  BY <1>2, <1>4 DEF Pages, SameCache
<1>8. Handled(next, calls, native.queue, spent.sends)
  BY <1>1, <1>6, <1>7, Facts, HandledPersona
<1> QED  BY <1>5, <1>8, Facts, Committed DEF Kept

\* The page leaves for the persona p.
LEMMA SwitchKeeps ==
  ASSUME WorkspaceInv, NEW p \in Personas, NEW u \in Pages, u.gen = ui.gen,
         u.toast # None => u.toast \in open,
         Render(Leaving(u), calls, Append(native.queue, Command("switch", p, None, 0))),
         UNCHANGED <<open, store, news>>,
         spent' \in [commands : Nat, sends : Nat, deletes : Nat, events : Nat, views : Nat,
                     troubles : Nat], spent'.sends = spent.sends
  PROVE  WorkspaceInv'
<1>1. PICK next : next = Leaving(u)  OBVIOUS
<1>2. PICK x : x = Command("switch", p, None, 0)  OBVIOUS
<1>3. PICK q : q = native.queue  OBVIOUS
<1>4. PICK queue : queue = Append(q, x)  OBVIOUS
<1>5. Blank(u, next) /\ next.auth # "authenticated"  BY <1>1, LeavingBlank
<1>6. x \in Commands /\ x.done = "no" /\ x.name = "switch" /\ x.to \in Personas
  BY <1>2 DEF Command, Commands, Someone
<1>7. PICK active : active = native.active  OBVIOUS
<1>8. q \in Seq(Commands) /\ QueueOK(q, active)
      /\ \A i \in DOMAIN q : q[i].name = "session" => q[i].mark <= u.gen
  BY <1>3, <1>7, Facts DEF SessionOK, MarksOK
<1>9. /\ queue \in Seq(Commands) /\ QueueOK(queue, active)
      /\ \A i \in DOMAIN queue : queue[i].name = "session" => queue[i].mark <= u.gen
  BY <1>4, <1>6, <1>8, AppendQueue
<1>10. Handled(next, calls, queue, spent.sends)
  <2>1. next.toast # None => next.toast \in open  BY <1>5 DEF Blank
  <2> QED  BY <1>5, <1>7, <1>9, <2>1, Facts, HandledForgotten
<1> QED  BY <1>1, <1>2, <1>3, <1>4, <1>10, Committed

LEMMA OpenEventKeeps == ASSUME WorkspaceInv, OpenEvent  PROVE WorkspaceInv'
<1>1. PICK u : u = ui  OBVIOUS
<1>2. PICK opened : opened = [u EXCEPT !.toast = None]  OBVIOUS
<1>3. u \in Pages /\ u.toast \in open /\ u.toast \in Conversations /\ u.toast[1] \in Personas
  BY <1>1, Facts DEF OpenEvent, WorkspaceInv, WorldInv, Conversations
<1>4. UNCHANGED <<open, store, news>>  BY DEF OpenEvent
<1>5. opened \in Pages /\ opened.gen = u.gen /\ opened.toast = None
  BY <1>2, <1>3 DEF Pages, Somewhere
<1>6. CASE u.toast[1] # u.persona
  <2>1. Render(Leaving(opened), calls, Append(native.queue, Command("switch", u.toast[1], None, 0)))
        /\ Spend("commands")
    BY <1>1, <1>2, <1>6 DEF OpenEvent
  <2>2. PICK p \in Personas : p = u.toast[1]  BY <1>3
  <2>3. spent' \in [commands : Nat, sends : Nat, deletes : Nat, events : Nat, views : Nat,
                    troubles : Nat] /\ spent'.sends = spent.sends
    BY <2>1, Spent
  <2> QED  BY <1>1, <1>4, <1>5, <2>1, <2>2, <2>3, SwitchKeeps
<1>7. CASE u.toast[1] = u.persona
  <2>1. PICK conv : conv = u.toast  OBVIOUS
  <2>2. PICK next : next = [u EXCEPT !.toast = None, !.main = conv, !.section = "chat"]  OBVIOUS
  <2>3. Render(next, calls, native.queue) /\ UNCHANGED spent
    <3>1. [opened EXCEPT !.main = conv, !.section = "chat"] = next
      BY <1>2, <1>3, <2>2 DEF Pages
    <3> QED  BY <1>1, <1>2, <1>7, <2>1, <3>1 DEF OpenEvent
  <2>4. next \in Pages  BY <1>3, <2>1, <2>2 DEF Pages, Somewhere
  <2>5. /\ next.gen = u.gen /\ next.auth = u.auth /\ next.persona = u.persona
        /\ next.unavailable = u.unavailable /\ next.guessed = u.guessed
        /\ next.history = u.history /\ next.pending = u.pending
        /\ next.received = u.received /\ next.toast = None /\ next.main = conv
    BY <1>3, <2>2 DEF Pages
  <2>6. u.auth = "authenticated"  BY <1>1 DEF OpenEvent, Shell
  <2>7. \A i \in DOMAIN native.queue : native.queue[i].name # "switch"
    BY <1>1, <2>6, Facts DEF SessionOK, SwitchOK
  <2>8. ~u.guessed => conv \in Of(native.active)
    BY <1>1, <1>3, <1>7, <2>1, <2>6, Facts DEF SessionOK, PersonaOK, Of
  <2>9. Handled(next, calls, native.queue, spent.sends)
    BY <1>1, <2>4, <2>5, <2>7, <2>8, Facts, HandledMain
  <2> QED  BY <1>4, <2>3, <2>9, Facts, Committed
<1> QED  BY <1>6, <1>7

\* A command that asks for no switch and does not touch the page.
LEMMA EnqueueKeeps ==
  ASSUME WorkspaceInv, NEW x \in Commands, x.done = "no", x.name \notin {"switch", "session"},
         Enqueue(x), Spend("commands"), UNCHANGED <<open, store, news, ui, calls, poll>>
  PROVE  WorkspaceInv'
<1>1. PICK q : q = native.queue  OBVIOUS
<1>2. PICK r : r = Append(q, x)  OBVIOUS
<1>3. q \in Seq(Commands)  BY <1>1, Facts
<1>4. Longer(q, r, ui.gen)
  <2>1. PICK gen : gen = ui.gen  OBVIOUS
  <2> QED  BY <1>2, <1>3, <2>1, AppendLonger
<1>5. /\ native' \in [active : Personas, running : BOOLEAN, queue : Seq(Commands)]
      /\ native'.active = native.active /\ native'.queue = r
  <2>1. r \in Seq(Commands)  BY <1>4 DEF Longer
  <2> QED  BY <1>1, <1>2, <2>1, Facts DEF Enqueue
<1>6. spent' \in [commands : Nat, sends : Nat, deletes : Nat, events : Nat, views : Nat,
                  troubles : Nat] /\ spent'.sends = spent.sends
  BY Spent
<1>7. WorldInv'  BY <1>5, <1>6 DEF WorkspaceInv, WorldInv
<1>8. \A p \in Personas : Of(p)' = Of(p)  BY DEF Of
<1>9. EventsInv'  BY <1>8 DEF WorkspaceInv, EventsInv
<1>10. SessionOK(ui, calls, r, native.active, Of(native.active))
  <2>1. PICK u : u = ui  OBVIOUS
  <2>2. PICK cs : cs = calls  OBVIOUS
  <2>3. PICK active : active = native.active  OBVIOUS
  <2>4. PICK mine : mine = Of(native.active)  OBVIOUS
  <2>5. SameSession(u, u) /\ Effects(u, cs, cs)  BY CallsDropped DEF SameSession
  <2>6. SessionOK(u, cs, r, active, mine)
    BY <1>1, <1>3, <1>4, <2>1, <2>2, <2>3, <2>4, <2>5, Facts, DrawnSession
  <2> QED  BY <2>1, <2>2, <2>3, <2>4, <2>6
<1>11. PageOK(ui, calls, native.queue, spent.sends)'
  <2>1. Of(native.active)' = Of(native.active)  BY <1>5 DEF Of
  <2>2. r \in Seq(Commands)  BY <1>4 DEF Longer
  <2>3. SessionOK(ui', calls', r, native'.active, Of(native.active)')
    BY <1>5, <1>10, <2>1
  <2>4. RepliesOK(ui', calls', store', spent'.sends) /\ PendingOK(ui', calls')
    BY <1>6, Facts
  <2>5. ui' \in Pages /\ calls' \subseteq Calls  BY Facts
  <2> QED  BY <1>5, <2>2, <2>3, <2>4, <2>5 DEF PageOK
<1> QED  BY <1>7, <1>9, <1>11 DEF WorkspaceInv

LEMMA SaveKeeps == ASSUME WorkspaceInv, Save  PROVE WorkspaceInv'
<1>1. PICK x : x = Command("save", ui.persona, ui.persona, ui.attempt)  OBVIOUS
<1>2. ui.persona \in Someone /\ ui.attempt \in Nat  BY Facts DEF Pages
<1>3. x \in Commands /\ x.done = "no" /\ x.name = "save"
  BY <1>1, <1>2 DEF Command, Commands, Someone
<1> QED  BY <1>1, <1>3, EnqueueKeeps DEF Save

LEMMA ManageKeeps ==
  ASSUME WorkspaceInv, NEW to \in Someone, Manage(to)  PROVE WorkspaceInv'
<1>1. PICK x : x = Command("list", to, ui.persona, 0)  OBVIOUS
<1>2. ui.persona \in Someone  BY Facts DEF Pages
<1>3. x \in Commands /\ x.done = "no" /\ x.name = "list"
  BY <1>1, <1>2 DEF Command, Commands, Someone
<1> QED  BY <1>1, <1>3, EnqueueKeeps DEF Manage

-----------------------------------------------------------------------------
(* The backend                                                                *)

\* The call y is x with a result.
Kin(x, y) ==
  /\ y.kind = x.kind
  /\ x.kind \in {"auth", "load", "create", "chat"} => y.gen = x.gen
  /\ x.kind \in {"history", "news", "chat", "delete"} => y.conv = x.conv
  /\ x.kind \in {"history", "news"} => y.revision = x.revision
  /\ x.kind = "chat" => y.n = x.n
  /\ x.kind = "delete" => y.message = x.message

\* What the active persona's backend may answer to a call that changes no message.
Answered(y, st, active, mine) ==
  /\ y.status \in Failures \/ (y.status = "answered" /\ y.kind \notin {"chat", "delete"})
  /\ y.status = "answered" =>
       /\ y.kind = "auth" => y.persona = active
       /\ y.kind = "load" => y.list \subseteq mine
       /\ y.kind = "create" => y.conv \in mine
       /\ y.kind \in {"history", "news"} => y.messages = st[y.conv]

\* Calls get their results: the calls ds are the f[x].
Results(cs, f, ds, st, active, mine) ==
  /\ ds = {f[x] : x \in cs}
  /\ \A x \in cs : f[x] = x \/ (Kin(x, f[x]) /\ Answered(f[x], st, active, mine))

LEMMA Replaced ==
  ASSUME NEW u, NEW cs, NEW f, NEW ds, NEW st, NEW n, NEW q, NEW active, NEW mine,
         Results(cs, f, ds, st, active, mine),
         RepliesOK(u, cs, st, n), PendingOK(u, cs), SessionOK(u, cs, q, active, mine)
  PROVE  RepliesOK(u, ds, st, n) /\ PendingOK(u, ds) /\ SessionOK(u, ds, q, active, mine)
<1>1. \A y \in ds : \E x \in cs : /\ y = f[x]
                                  /\ y = x \/ (Kin(x, y) /\ Answered(y, st, active, mine))
  BY DEF Results
<1>2. \A y \in ds : y.status \in Unanswered => y \in cs
  BY <1>1 DEF Answered, Unanswered, Failures
<1>3. \A y \in ds : y.kind \in {"chat", "delete"} /\ y.status = "answered" => y \in cs
  BY <1>1 DEF Answered, Failures
<1>4. ChatsOK(u, ds, st, n)
  <2>1. /\ \A x \in cs : x.kind = "chat" =>
             /\ x.n \in 1..n /\ x.n \notin u.received
             /\ \A c \in Conversations : Message("reply", x.n) \in st[c] =>
                  c = x.conv /\ x.status \notin Unanswered
        /\ \A x, y \in cs : x.kind = "chat" /\ y.kind = "chat" /\ x.n = y.n => x = y
    BY DEF RepliesOK, ChatsOK
  <2>2. ASSUME NEW y \in ds, y.kind = "chat"
        PROVE  /\ y.n \in 1..n /\ y.n \notin u.received
               /\ \A c \in Conversations : Message("reply", y.n) \in st[c] =>
                    c = y.conv /\ y.status \notin Unanswered
    <3>1. PICK x \in cs : y = x \/ Kin(x, y)  BY <1>1
    <3>2. x.kind = "chat" /\ x.n = y.n /\ x.conv = y.conv  BY <2>2, <3>1 DEF Kin
    <3>3. CASE y.status \in Unanswered  BY <1>2, <2>1, <2>2, <3>3
    <3>4. CASE y.status \notin Unanswered  BY <2>1, <3>2, <3>4
    <3> QED  BY <3>3, <3>4
  <2>3. ASSUME NEW y \in ds, NEW z \in ds, y.kind = "chat", z.kind = "chat", y.n = z.n
        PROVE  y = z
    <3>1. PICK x \in cs : y = f[x] /\ (y = x \/ Kin(x, y))  BY <1>1
    <3>2. PICK w \in cs : z = f[w] /\ (z = w \/ Kin(w, z))  BY <1>1
    <3>3. x.kind = "chat" /\ x.n = y.n /\ w.kind = "chat" /\ w.n = z.n
      BY <2>3, <3>1, <3>2 DEF Kin
    <3>4. x = w  BY <2>1, <2>3, <3>3
    <3> QED  BY <3>1, <3>2, <3>4
  <2> QED  BY <2>2, <2>3 DEF RepliesOK, ChatsOK
<1>5. SnapshotsOK(u, ds, st)
  <2> SUFFICES ASSUME NEW y \in ds, y.kind \in {"history", "news"}
               PROVE  /\ y.conv = u.main /\ y.revision <= u.history[y.conv].revision
                      /\ y.status = "answered" /\ y.revision = u.history[y.conv].revision =>
                           \A k \in u.received :
                             Message("reply", k) \in st[y.conv] => Message("reply", k) \in y.messages
    BY DEF SnapshotsOK
  <2>1. PICK x \in cs : y = x \/ (Kin(x, y) /\ Answered(y, st, active, mine))  BY <1>1
  <2>2. CASE y = x  BY <2>2 DEF RepliesOK, SnapshotsOK
  <2>3. CASE Kin(x, y) /\ Answered(y, st, active, mine)
    <3>1. x.kind \in {"history", "news"} /\ x.conv = y.conv /\ x.revision = y.revision
      BY <2>3 DEF Kin
    <3>2. y.status = "answered" => y.messages = st[y.conv]  BY <2>3 DEF Answered
    <3> QED  BY <3>1, <3>2 DEF RepliesOK, SnapshotsOK
  <2> QED  BY <2>1, <2>2, <2>3
<1>6. DeletesOK(ds, st, n)
  <2> SUFFICES ASSUME NEW y \in ds, y.kind = "delete", y.message.kind = "reply"
               PROVE  /\ y.message.n <= n
                      /\ y.status = "answered" => y.message \notin st[y.conv]
                      /\ \A z \in ds : z.kind = "chat" /\ z.n = y.message.n => z.status \notin Unanswered
    BY DEF DeletesOK
  <2>1. PICK x \in cs : y = x \/ Kin(x, y)  BY <1>1
  <2>2. x.kind = "delete" /\ x.message = y.message  BY <2>1 DEF Kin
  <2>3. y.message.n <= n  BY <2>2 DEF RepliesOK, DeletesOK
  <2>4. y.status = "answered" => y.message \notin st[y.conv]
    BY <1>3 DEF RepliesOK, DeletesOK
  <2>5. ASSUME NEW z \in ds, z.kind = "chat", z.n = y.message.n  PROVE z.status \notin Unanswered
    BY <1>2, <2>2, <2>5 DEF RepliesOK, DeletesOK
  <2> QED  BY <2>3, <2>4, <2>5
<1>7. PendingOK(u, ds)
  <2>1. ASSUME NEW c, NEW k, SentBy(u, cs, c, k)  PROVE SentBy(u, ds, c, k)
    <3>1. PICK x \in cs : x.kind = "chat" /\ x.conv = c /\ x.n = k /\ x.gen = u.gen
      BY <2>1 DEF SentBy
    <3>2. f[x] \in ds /\ (f[x] = x \/ Kin(x, f[x]))  BY DEF Results
    <3>3. f[x].kind = "chat" /\ f[x].conv = c /\ f[x].n = k /\ f[x].gen = u.gen
      BY <3>1, <3>2 DEF Kin
    <3> QED  BY <3>2, <3>3 DEF SentBy
  <2> QED  BY <2>1 DEF PendingOK
<1>8. SessionOK(u, ds, q, active, mine)
  <2>1. \A y \in ds : y.kind \in {"auth", "load", "create", "chat"} =>
          \E x \in cs : x.kind = y.kind /\ x.gen = y.gen
    BY <1>1 DEF Kin
  <2>2. MarksOK(u, ds, q)  BY <2>1 DEF SessionOK, MarksOK
  <2>3. SwitchOK(u, ds, q)  BY <2>1 DEF SessionOK, SwitchOK
  <2>4. PersonaOK(u, ds, active)  BY <1>1 DEF SessionOK, PersonaOK, Answered
  <2>5. MainOK(u, ds, mine)  BY <1>1 DEF SessionOK, MainOK, Answered
  <2> QED  BY <2>2, <2>3, <2>4, <2>5 DEF SessionOK
<1> QED  BY <1>4, <1>5, <1>6, <1>7, <1>8 DEF RepliesOK

LEMMA StatusSet ==
  ASSUME NEW x \in Calls, NEW s \in Statuses, NEW y, y = [x EXCEPT !.status = s]
  PROVE  y \in Calls /\ Kin(x, y) /\ y.status = s
<1>1. CASE x \in HistoryCalls  BY <1>1 DEF Calls, HistoryCalls, Kin
<1>2. CASE x \in LoadCalls  BY <1>2 DEF Calls, LoadCalls, Kin
<1>3. CASE x \in AuthCalls  BY <1>3 DEF Calls, AuthCalls, Kin
<1>4. CASE x \in CreateCalls  BY <1>4 DEF Calls, CreateCalls, Kin
<1>5. CASE x \in ChatCalls  BY <1>5 DEF Calls, ChatCalls, Kin
<1>6. CASE x \in DeleteCalls  BY <1>6 DEF Calls, DeleteCalls, Kin
<1> QED  BY <1>1, <1>2, <1>3, <1>4, <1>5, <1>6 DEF Calls

\* One call is served; nothing else that the invariant looks at changes but
\* that conversations may be created.
LEMMA ServedKeeps ==
  ASSUME WorkspaceInv, NEW c \in calls, NEW y \in Calls, Served(c, y), Kin(c, y),
         Answered(y, store, native.active, Of(native.active)'),
         open \subseteq open', open' \subseteq Conversations,
         UNCHANGED <<native, store, news, ui, poll>>,
         spent' \in [commands : Nat, sends : Nat, deletes : Nat, events : Nat, views : Nat,
                     troubles : Nat], spent'.sends = spent.sends
  PROVE  WorkspaceInv'
<1>1. PICK u : u = ui  OBVIOUS
<1>2. PICK cs : cs = calls  OBVIOUS
<1>3. PICK f : f = [x \in cs |-> IF x = c THEN y ELSE x]  OBVIOUS
<1>4. PICK ds : ds = {f[x] : x \in cs}  OBVIOUS
<1>5. ds = calls'  BY <1>2, <1>3, <1>4 DEF Served
<1>6. PICK active : active = native.active  OBVIOUS
<1>7. PICK mine : mine = Of(native.active)'  OBVIOUS
<1>8. PICK st : st = store  OBVIOUS
<1>9. PICK n : n = spent.sends  OBVIOUS
<1>10. PICK q : q = native.queue  OBVIOUS
<1>11. Of(native.active) \subseteq mine  BY <1>7 DEF Of
<1>12. SessionOK(u, cs, q, active, mine)
  <2>1. SessionOK(u, cs, q, active, Of(native.active))
    BY <1>1, <1>2, <1>6, <1>10, Facts
  <2>2. MainOK(u, cs, mine)  BY <1>11, <2>1 DEF SessionOK, MainOK
  <2> QED  BY <2>1, <2>2 DEF SessionOK
<1>13. RepliesOK(u, ds, st, n) /\ PendingOK(u, ds) /\ SessionOK(u, ds, q, active, mine)
  <2>1. Results(cs, f, ds, st, active, mine)
    BY <1>3, <1>4, <1>6, <1>7, <1>8 DEF Results
  <2>2. RepliesOK(u, cs, st, n) /\ PendingOK(u, cs)
    BY <1>1, <1>2, <1>8, <1>9, Facts
  <2> QED  BY <1>12, <2>1, <2>2, Replaced
<1>14. WorldInv'  BY DEF WorkspaceInv, WorldInv
<1>15. EventsInv'
  <2>1. \A p \in Personas : news[p] \in Seq(Of(p)')
    <3>1. \A p \in Personas : news[p] \in Seq(Of(p)) /\ Of(p) \subseteq Of(p)'
      BY DEF WorkspaceInv, EventsInv, Of
    <3> QED  BY <3>1, SeqMonotonic
  <2> QED  BY <2>1 DEF WorkspaceInv, EventsInv
<1>16. PageOK(ui, calls, native.queue, spent.sends)'
  <2>1. calls' \subseteq Calls  BY Facts DEF Served
  <2>2. RepliesOK(ui', calls', store', spent'.sends) /\ PendingOK(ui', calls')
    BY <1>1, <1>5, <1>8, <1>9, <1>13
  <2>3. SessionOK(ui', calls', native'.queue, native'.active, Of(native.active)')
    BY <1>1, <1>5, <1>6, <1>7, <1>10, <1>13
  <2>4. ui' \in Pages /\ native'.queue \in Seq(Commands)  BY Facts
  <2> QED  BY <2>1, <2>2, <2>3, <2>4 DEF PageOK
<1> QED  BY <1>14, <1>15, <1>16 DEF WorkspaceInv

LEMMA ServeReadKeeps ==
  ASSUME WorkspaceInv, NEW c \in calls, ServeRead(c)  PROVE WorkspaceInv'
<1>1. UNCHANGED <<native, open, store, news, ui, poll, spent>>  BY DEF ServeRead
<1>2. c \in Calls  BY Facts
<1>3. Of(native.active)' = Of(native.active) /\ Of(native.active) \subseteq Conversations
  BY <1>1 DEF Of, WorkspaceInv, WorldInv
<1>4. "answered" \in Statuses  BY DEF Statuses
<1>5. CASE /\ c.kind = "auth"
           /\ Served(c, [c EXCEPT !.status = "answered", !.persona = native.active])
  <2>1. c \in AuthCalls
    BY <1>2, <1>5 DEF Calls, HistoryCalls, LoadCalls, AuthCalls, CreateCalls, ChatCalls, DeleteCalls
  <2>2. PICK active : active = native.active  OBVIOUS
  <2>3. PICK y : y = [c EXCEPT !.status = "answered", !.persona = active]  OBVIOUS
  <2>4. active \in Someone  BY <2>2, Facts DEF Someone
  <2>5. /\ y \in AuthCalls /\ y.kind = "auth" /\ y.gen = c.gen /\ y.status = "answered"
        /\ y.persona = active
    BY <1>4, <2>1, <2>3, <2>4 DEF AuthCalls
  <2>6. y \in Calls /\ Kin(c, y)  BY <1>5, <2>5 DEF Calls, Kin
  <2>7. Answered(y, store, native.active, Of(native.active)')
    BY <2>2, <2>5 DEF Answered
  <2> QED  BY <1>1, <1>5, <2>2, <2>3, <2>6, <2>7, Facts, ServedKeeps DEF WorkspaceInv, WorldInv
<1>6. CASE /\ c.kind = "load"
           /\ Served(c, [c EXCEPT !.status = "answered", !.list = Of(native.active)])
  <2>1. c \in LoadCalls
    BY <1>2, <1>6 DEF Calls, HistoryCalls, LoadCalls, AuthCalls, CreateCalls, ChatCalls, DeleteCalls
  <2>2. PICK mine : mine = Of(native.active)  OBVIOUS
  <2>3. PICK y : y = [c EXCEPT !.status = "answered", !.list = mine]  OBVIOUS
  <2>4. /\ y \in LoadCalls /\ y.kind = "load" /\ y.gen = c.gen /\ y.status = "answered"
        /\ y.list = mine
    BY <1>3, <1>4, <2>1, <2>2, <2>3 DEF LoadCalls
  <2>5. y \in Calls /\ Kin(c, y)  BY <1>6, <2>4 DEF Calls, Kin
  <2>6. Answered(y, store, native.active, Of(native.active)')
    BY <1>3, <2>2, <2>4 DEF Answered
  <2> QED  BY <1>1, <1>6, <2>2, <2>3, <2>5, <2>6, Facts, ServedKeeps DEF WorkspaceInv, WorldInv
<1>7. CASE /\ c.kind \in {"history", "news"} /\ c.conv \in Of(native.active)
           /\ Served(c, [c EXCEPT !.status = "answered", !.messages = store[c.conv]])
  <2>1. c \in HistoryCalls
    BY <1>2, <1>7 DEF Calls, HistoryCalls, LoadCalls, AuthCalls, CreateCalls, ChatCalls, DeleteCalls
  <2>2. PICK messages : messages = store[c.conv]  OBVIOUS
  <2>3. messages \subseteq Durable
    BY <2>1, <2>2 DEF WorkspaceInv, WorldInv, HistoryCalls
  <2>4. PICK y : y = [c EXCEPT !.status = "answered", !.messages = messages]  OBVIOUS
  <2>5. /\ y \in HistoryCalls /\ y.kind = c.kind /\ y.conv = c.conv /\ y.revision = c.revision
        /\ y.status = "answered" /\ y.messages = messages
    BY <1>4, <2>1, <2>3, <2>4 DEF HistoryCalls
  <2>6. y \in Calls /\ Kin(c, y)  BY <1>7, <2>5 DEF Calls, Kin
  <2>7. Answered(y, store, native.active, Of(native.active)')
    BY <1>7, <2>2, <2>5 DEF Answered
  <2> QED  BY <1>1, <1>7, <2>2, <2>4, <2>6, <2>7, Facts, ServedKeeps DEF WorkspaceInv, WorldInv
<1> QED  BY <1>5, <1>6, <1>7 DEF ServeRead

LEMMA ServeCreateKeeps ==
  ASSUME WorkspaceInv, NEW c \in calls, ServeCreate(c)  PROVE WorkspaceInv'
<1>1. PICK conv \in Conversations \ open :
        /\ conv[1] = native.active /\ open' = open \cup {conv}
        /\ Served(c, [c EXCEPT !.status = "answered", !.conv = conv])
  BY DEF ServeCreate
<1>2. c.kind = "create" /\ UNCHANGED <<native, store, news, ui, poll, spent>>
  BY DEF ServeCreate
<1>3. c \in CreateCalls
  BY <1>2, Facts DEF Calls, HistoryCalls, LoadCalls, AuthCalls, CreateCalls, ChatCalls, DeleteCalls
<1>4. PICK y : y = [c EXCEPT !.status = "answered", !.conv = conv]  OBVIOUS
<1>5. /\ y \in CreateCalls /\ y.kind = "create" /\ y.gen = c.gen /\ y.status = "answered"
      /\ y.conv = conv
  BY <1>3, <1>4 DEF CreateCalls, Statuses, Somewhere
<1>6. y \in Calls /\ Kin(c, y)  BY <1>2, <1>5 DEF Calls, Kin
<1>7. conv \in Of(native.active)'  BY <1>1, <1>2 DEF Of
<1>8. Answered(y, store, native.active, Of(native.active)')  BY <1>5, <1>7 DEF Answered
<1>9. open \subseteq open' /\ open' \subseteq Conversations
  BY <1>1 DEF WorkspaceInv, WorldInv
<1> QED  BY <1>1, <1>2, <1>4, <1>6, <1>8, <1>9, Facts, ServedKeeps

\* A call fails, in whatever way.
LEMMA FailureKeeps ==
  ASSUME WorkspaceInv, NEW c \in calls, NEW s \in Failures, Served(c, [c EXCEPT !.status = s]),
         UNCHANGED <<native, open, store, news, ui, poll>>,
         spent' \in [commands : Nat, sends : Nat, deletes : Nat, events : Nat, views : Nat,
                     troubles : Nat], spent'.sends = spent.sends
  PROVE  WorkspaceInv'
<1>1. PICK y : y = [c EXCEPT !.status = s]  OBVIOUS
<1>2. c \in Calls /\ s \in Statuses  BY Facts DEF Statuses
<1>3. y \in Calls /\ Kin(c, y) /\ y.status = s  BY <1>1, <1>2, StatusSet
<1>4. Answered(y, store, native.active, Of(native.active)')
  BY <1>3 DEF Answered, Failures
<1> QED  BY <1>1, <1>3, <1>4, ServedKeeps DEF WorkspaceInv, WorldInv

LEMMA UnknownKeeps ==
  ASSUME WorkspaceInv, NEW c \in calls, Unknown(c)  PROVE WorkspaceInv'
BY Facts, FailureKeeps DEF Unknown, Failures

LEMMA CallFailsKeeps ==
  ASSUME WorkspaceInv, NEW c \in calls, CallFails(c)  PROVE WorkspaceInv'
<1>1. spent' \in [commands : Nat, sends : Nat, deletes : Nat, events : Nat, views : Nat,
                  troubles : Nat] /\ spent'.sends = spent.sends
  BY Spent DEF CallFails
<1>2. \E s \in Failures : Served(c, [c EXCEPT !.status = s])
  BY DEF CallFails, Failures
<1> QED  BY <1>1, <1>2, FailureKeeps DEF CallFails

\* A call that is part of no session is served, or a send goes on: the store
\* changes with it.
LEMMA StoredKeeps ==
  ASSUME WorkspaceInv, NEW c \in calls, NEW y \in Calls, Served(c, y), Kin(c, y),
         c.kind \in {"chat", "delete"}, store' \in [Conversations -> SUBSET Durable],
         UNCHANGED <<native, open, news, ui, poll, spent>>,
         RepliesOK(ui, calls', store', spent.sends)
  PROVE  WorkspaceInv'
<1>1. (\A x \in calls' : x \in calls \/ x = y) /\ y \in calls' /\ \A x \in calls : x \in calls' \/ x = c
  BY DEF Served
<1>2. y.kind = c.kind /\ (c.kind = "chat" => y.gen = c.gen /\ y.conv = c.conv /\ y.n = c.n)
  BY DEF Kin
<1>3. PendingOK(ui, calls')
  <2>1. ASSUME NEW d, NEW k, SentBy(ui, calls, d, k)  PROVE SentBy(ui, calls', d, k)
    BY <1>1, <1>2, <2>1 DEF SentBy
  <2> QED  BY <2>1, Facts DEF PendingOK
<1>4. SessionOK(ui, calls', native.queue, native.active, Of(native.active))
  <2>1. MarksOK(ui, calls', native.queue)  BY <1>1, <1>2, Facts DEF SessionOK, MarksOK
  <2>2. SwitchOK(ui, calls', native.queue)  BY <1>1, <1>2, Facts DEF SessionOK, SwitchOK
  <2>3. PersonaOK(ui, calls', native.active)  BY <1>1, <1>2, Facts DEF SessionOK, PersonaOK
  <2>4. MainOK(ui, calls', Of(native.active))  BY <1>1, <1>2, Facts DEF SessionOK, MainOK
  <2> QED  BY <2>1, <2>2, <2>3, <2>4, Facts DEF SessionOK
<1>5. WorldInv'  BY DEF WorkspaceInv, WorldInv
<1>6. \A p \in Personas : Of(p)' = Of(p)  BY DEF Of
<1>7. EventsInv'  BY <1>6 DEF WorkspaceInv, EventsInv
<1>8. PageOK(ui, calls, native.queue, spent.sends)'
  <2>1. calls' \subseteq Calls  BY <1>1, Facts
  <2>2. Of(native.active)' = Of(native.active)  BY DEF Of
  <2>3. SessionOK(ui', calls', native'.queue, native'.active, Of(native.active)')
    BY <1>4, <2>2
  <2> QED  BY <1>3, <2>1, <2>3, Facts DEF PageOK
<1> QED  BY <1>5, <1>7, <1>8 DEF WorkspaceInv

LEMMA ServeChatKeeps ==
  ASSUME WorkspaceInv, NEW c \in calls, ServeChat(c)  PROVE WorkspaceInv'
<1>1. PICK st : st = store'  OBVIOUS
<1>2. PICK s \in {"thinking", "answered"}, kind \in {"user", "reply"} :
        /\ \/ c.status = "asked" /\ s = "thinking" /\ kind = "user"
           \/ c.status = "thinking" /\ s = "answered" /\ kind = "reply"
        /\ Served(c, [c EXCEPT !.status = s])
        /\ st = [store EXCEPT ![c.conv] = @ \cup {Message(kind, c.n)}]
  BY <1>1 DEF ServeChat
<1>3. c.kind = "chat" /\ UNCHANGED <<native, open, news, ui, poll, spent>>
  BY DEF ServeChat
<1>4. c \in ChatCalls /\ c \in Calls
  BY <1>3, Facts DEF Calls, HistoryCalls, LoadCalls, AuthCalls, CreateCalls, ChatCalls, DeleteCalls
<1>5. PICK y : y = [c EXCEPT !.status = s]  OBVIOUS
<1>6. y \in Calls /\ Kin(c, y) /\ y.status = s
  BY <1>4, <1>5, StatusSet DEF Statuses, Unanswered
<1>7. y.kind = "chat" /\ y.conv = c.conv /\ y.n = c.n /\ y.gen = c.gen
  BY <1>3, <1>6 DEF Kin
<1>8. /\ c.conv \in Conversations /\ c.n \in Nat /\ c.status \in Unanswered
      /\ store \in [Conversations -> SUBSET Durable]
  BY <1>2, <1>4 DEF ChatCalls, Unanswered, WorkspaceInv, WorldInv
<1>9. PICK m : m = Message(kind, c.n)  OBVIOUS
<1>10. m \in Durable /\ m.kind = kind /\ m.n = c.n  BY <1>2, <1>8, <1>9 DEF Message, Durable
<1>11. st \in [Conversations -> SUBSET Durable]
  BY <1>2, <1>8, <1>9, <1>10
<1>12. /\ \A d \in Conversations : \A k : k \in st[d] => k \in store[d] \/ (k = m /\ d = c.conv)
       /\ \A d \in Conversations : store[d] \subseteq st[d]
  BY <1>2, <1>8, <1>9
<1>13. (\A x \in calls' : (x \in calls /\ x # c) \/ x = y)
  BY <1>2, <1>5 DEF Served
<1>14. /\ \A x \in calls : x.kind = "chat" =>
            /\ x.n \in 1..spent.sends /\ x.n \notin ui.received
            /\ \A d \in Conversations : Message("reply", x.n) \in store[d] =>
                 d = x.conv /\ x.status \notin Unanswered
       /\ \A x, z \in calls : x.kind = "chat" /\ z.kind = "chat" /\ x.n = z.n => x = z
       /\ \A d \in Conversations : \A k \in store[d] : k.kind = "reply" => k.n <= spent.sends
       /\ \A k \in ui.received : k <= spent.sends
  BY Facts DEF RepliesOK, ChatsOK
<1>15. c.n <= spent.sends /\ c.n \notin ui.received
  BY <1>3, <1>14, Facts
<1>16. \A k : Message("reply", k) = m => k = c.n /\ kind = "reply" /\ s = "answered"
  BY <1>2, <1>10 DEF Message
<1>17. ChatsOK(ui, calls', st, spent.sends)
  <2>1. ASSUME NEW x \in calls', x.kind = "chat"
        PROVE  /\ x.n \in 1..spent.sends /\ x.n \notin ui.received
               /\ \A d \in Conversations : Message("reply", x.n) \in st[d] =>
                    d = x.conv /\ x.status \notin Unanswered
    <3>1. CASE x \in calls /\ x # c
      <4>1. x.n # c.n  BY <1>3, <1>14, <2>1, <3>1
      <4>2. Message("reply", x.n) # m  BY <1>16, <4>1
      <4> QED  BY <1>12, <1>14, <2>1, <3>1, <4>2
    <3>2. CASE x = y
      <4>1. ASSUME NEW d \in Conversations, Message("reply", c.n) \in st[d]
            PROVE  d = c.conv /\ s = "answered"
        <5>1. Message("reply", c.n) \notin store[d]  BY <1>3, <1>8, <1>14
        <5> QED  BY <1>12, <1>16, <4>1, <5>1
      <4>2. c.n \in 1..spent.sends  BY <1>3, <1>14
      <4> QED  BY <1>6, <1>7, <1>15, <3>2, <4>1, <4>2 DEF Unanswered
    <3> QED  BY <1>13, <3>1, <3>2
  <2>2. ASSUME NEW x \in calls', NEW z \in calls', x.kind = "chat", z.kind = "chat", x.n = z.n
        PROVE  x = z
    BY <1>3, <1>7, <1>13, <1>14, <2>2
  <2>3. \A d \in Conversations : \A k \in st[d] : k.kind = "reply" => k.n <= spent.sends
    BY <1>10, <1>12, <1>14, <1>15
  <2> QED  BY <1>14, <2>1, <2>2, <2>3 DEF ChatsOK
<1>18. SnapshotsOK(ui, calls', st)
  <2>1. \A x \in calls' : x.kind \in {"history", "news"} => x \in calls /\ x.conv \in Conversations
    BY <1>7, <1>13, Facts DEF Calls, HistoryCalls, LoadCalls, AuthCalls, CreateCalls, ChatCalls, DeleteCalls
  <2>2. \A k \in ui.received : \A d \in Conversations :
          Message("reply", k) \in st[d] => Message("reply", k) \in store[d]
    BY <1>12, <1>15, <1>16
  <2> QED  BY <2>1, <2>2, Facts DEF RepliesOK, SnapshotsOK
<1>19. DeletesOK(calls', st, spent.sends)
  <2> SUFFICES ASSUME NEW x \in calls', x.kind = "delete", x.message.kind = "reply"
               PROVE  /\ x.message.n <= spent.sends
                      /\ x.status = "answered" => x.message \notin st[x.conv]
                      /\ \A z \in calls' : z.kind = "chat" /\ z.n = x.message.n => z.status \notin Unanswered
    BY DEF DeletesOK
  <2>1. x \in calls  BY <1>7, <1>13
  <2>2. /\ x.message.n <= spent.sends
        /\ x.status = "answered" => x.message \notin store[x.conv]
        /\ \A z \in calls : z.kind = "chat" /\ z.n = x.message.n => z.status \notin Unanswered
    BY <2>1, Facts DEF RepliesOK, DeletesOK
  <2>3. x.message.n # c.n  BY <1>3, <1>8, <2>2
  <2>4. x.message # m  BY <1>10, <2>3
  <2>5. x.conv \in Conversations
    BY <2>1, Facts DEF Calls, HistoryCalls, LoadCalls, AuthCalls, CreateCalls, ChatCalls, DeleteCalls
  <2> QED  BY <1>7, <1>12, <1>13, <2>2, <2>3, <2>4, <2>5
<1>20. RepliesOK(ui, calls', store', spent.sends)  BY <1>1, <1>17, <1>18, <1>19 DEF RepliesOK
<1> QED  BY <1>1, <1>2, <1>3, <1>5, <1>6, <1>11, <1>20, StoredKeeps

LEMMA ServeDeleteKeeps ==
  ASSUME WorkspaceInv, NEW c \in calls, ServeDelete(c)  PROVE WorkspaceInv'
<1>1. PICK st : st = store'  OBVIOUS
<1>2. /\ Served(c, [c EXCEPT !.status = "answered"])
      /\ st = [store EXCEPT ![c.conv] = @ \ {c.message}]
      /\ c.kind = "delete" /\ c.status = "asked"
      /\ UNCHANGED <<native, open, news, ui, poll, spent>>
  BY <1>1 DEF ServeDelete
<1>3. c \in DeleteCalls /\ c \in Calls
  BY <1>2, Facts DEF Calls, HistoryCalls, LoadCalls, AuthCalls, CreateCalls, ChatCalls, DeleteCalls
<1>4. PICK y : y = [c EXCEPT !.status = "answered"]  OBVIOUS
<1>5. y \in Calls /\ Kin(c, y) /\ y.status = "answered"
  BY <1>3, <1>4, StatusSet DEF Statuses
<1>6. y.kind = "delete" /\ y.conv = c.conv /\ y.message = c.message  BY <1>2, <1>5 DEF Kin
<1>7. c.conv \in Conversations /\ store \in [Conversations -> SUBSET Durable]
  BY <1>3 DEF DeleteCalls, WorkspaceInv, WorldInv
<1>8. /\ st \in [Conversations -> SUBSET Durable] /\ c.message \notin st[c.conv]
      /\ \A d \in Conversations : st[d] \subseteq store[d]
  BY <1>2, <1>7
<1>9. \A x \in calls' : x \in calls \/ x = y  BY <1>2, <1>4 DEF Served
<1>10. \A x \in calls' : x.kind # "delete" => x \in calls  BY <1>6, <1>9
<1>11. \A x \in calls : x.kind \in {"history", "news", "chat", "delete"} => x.conv \in Conversations
  BY Facts DEF Calls, HistoryCalls, LoadCalls, AuthCalls, CreateCalls, ChatCalls, DeleteCalls
<1>12. ChatsOK(ui, calls', st, spent.sends)
  BY <1>8, <1>10, Facts DEF RepliesOK, ChatsOK
<1>13. SnapshotsOK(ui, calls', st)
  BY <1>8, <1>10, <1>11, Facts DEF RepliesOK, SnapshotsOK
<1>14. DeletesOK(calls', st, spent.sends)
  <2> SUFFICES ASSUME NEW x \in calls', x.kind = "delete", x.message.kind = "reply"
               PROVE  /\ x.message.n <= spent.sends
                      /\ x.status = "answered" => x.message \notin st[x.conv]
                      /\ \A z \in calls' : z.kind = "chat" /\ z.n = x.message.n => z.status \notin Unanswered
    BY DEF DeletesOK
  <2>1. CASE x = y
    BY <1>2, <1>6, <1>8, <1>10, <2>1, Facts DEF RepliesOK, DeletesOK
  <2>2. CASE x \in calls
    BY <1>8, <1>10, <1>11, <2>2, Facts DEF RepliesOK, DeletesOK
  <2> QED  BY <1>9, <2>1, <2>2
<1>15. RepliesOK(ui, calls', store', spent.sends)  BY <1>1, <1>12, <1>13, <1>14 DEF RepliesOK
<1> QED  BY <1>1, <1>2, <1>4, <1>5, <1>8, <1>15, StoredKeeps

-----------------------------------------------------------------------------
(* The native side                                                            *)

\* The head of the queue is done, and was not before.
Executed(q, outcome, active) ==
  <<[Head(q) EXCEPT !.done = outcome, !.listed = active]>> \o Tail(q)

LEMMA Finished ==
  ASSUME NEW q \in Seq(Commands), q # <<>>, NEW outcome \in {"ok", "failed"},
         NEW active \in Personas, NEW was, QueueOK(q, was), NEW r,
         r = Executed(q, outcome, active)
  PROVE  /\ r \in Seq(Commands) /\ DOMAIN r = DOMAIN q /\ 1 \in DOMAIN q /\ Head(q) = q[1]
         /\ \A i \in DOMAIN q : r[i].name = q[i].name /\ r[i].mark = q[i].mark
         /\ QueueOK(r, active)
<1>1. PICK rest : rest = Tail(q)  OBVIOUS
<1>2. PICK head : head = [Head(q) EXCEPT !.done = outcome, !.listed = active]  OBVIOUS
<1>3. /\ rest \in Seq(Commands) /\ Head(q) \in Commands /\ Len(rest) = Len(q) - 1
      /\ \A i \in 1..Len(rest) : rest[i] = q[i + 1]
  BY <1>1, HeadTailProperties
<1>4. /\ Len(q) \in Nat /\ Len(q) >= 1 /\ DOMAIN q = 1..Len(q) /\ Head(q) = q[1]
  BY LenProperties
<1>5. /\ head \in Commands /\ head.name = q[1].name /\ head.mark = q[1].mark /\ head.to = q[1].to
      /\ head.listed = active
  BY <1>2, <1>3, <1>4 DEF Commands, Someone
<1>6. PICK one : one = <<head>>  OBVIOUS
<1>7. one \in Seq(Commands) /\ Len(one) = 1 /\ one[1] = head  BY <1>5, <1>6
<1>8. r = one \o rest  BY <1>1, <1>2, <1>6 DEF Executed
<1>9. /\ r \in Seq(Commands) /\ Len(r) = 1 + Len(rest)
      /\ \A i \in 1..1 + Len(rest) : r[i] = IF i <= 1 THEN one[i] ELSE rest[i - 1]
  <2>1. one \in Seq(Commands) /\ rest \in Seq(Commands) /\ Len(one) = 1  BY <1>3, <1>7
  <2>2. /\ one \o rest \in Seq(Commands) /\ Len(one \o rest) = Len(one) + Len(rest)
        /\ \A i \in 1..Len(one) + Len(rest) :
             (one \o rest)[i] = IF i <= Len(one) THEN one[i] ELSE rest[i - Len(one)]
    BY <2>1, ConcatProperties
  <2> QED  BY <1>8, <2>1, <2>2
<1>10. DOMAIN r = DOMAIN q /\ 1 \in DOMAIN q
  <2>1. DOMAIN r = 1..Len(r)  BY <1>9, LenProperties
  <2>2. Len(r) = Len(q)  BY <1>3, <1>4, <1>9
  <2> QED  BY <1>4, <2>1, <2>2
<1>11. r[1] = head /\ \A i \in DOMAIN q : i # 1 => r[i] = q[i] /\ i > 1
  <2>1. r[1] = head  BY <1>3, <1>4, <1>7, <1>9
  <2>2. ASSUME NEW i \in DOMAIN q, i # 1  PROVE r[i] = q[i] /\ i > 1
    <3>1. i \in 2..Len(q) /\ i - 1 \in 1..Len(rest)  BY <1>3, <1>4, <2>2
    <3>2. r[i] = rest[i - 1]  BY <1>3, <1>4, <1>9, <3>1
    <3>3. rest[i - 1] = q[(i - 1) + 1]  BY <1>3, <3>1
    <3> QED  BY <3>1, <3>2, <3>3
  <2> QED  BY <2>1, <2>2
<1>12. QueueOK(r, active)
  BY <1>4, <1>5, <1>10, <1>11 DEF QueueOK
<1> QED  BY <1>4, <1>5, <1>9, <1>10, <1>11, <1>12

\* Only a switch changes the active persona, and while it waits there is no
\* session that could show another one.
LEMMA FinishedSession ==
  ASSUME NEW u, NEW cs, NEW q \in Seq(Commands), q # <<>>, NEW was, NEW owned, NEW mine,
         SessionOK(u, cs, q, was, owned), NEW outcome \in {"ok", "failed"},
         NEW active \in Personas, NEW r,
         r = Executed(q, outcome, active),
         Head(q).name = "switch" \/ (active = was /\ mine = owned)
  PROVE  SessionOK(u, cs, r, active, mine)
<1>1. QueueOK(q, was)  BY DEF SessionOK
<1>2. /\ r \in Seq(Commands) /\ DOMAIN r = DOMAIN q /\ 1 \in DOMAIN q /\ Head(q) = q[1]
      /\ \A i \in DOMAIN q : r[i].name = q[i].name /\ r[i].mark = q[i].mark
      /\ QueueOK(r, active)
  BY <1>1, Finished
<1>3. MarksOK(u, cs, r)  BY <1>2 DEF SessionOK, MarksOK
<1>4. SwitchOK(u, cs, r)  BY <1>2 DEF SessionOK, SwitchOK
<1>5. PersonaOK(u, cs, active) /\ MainOK(u, cs, mine)
  <2>1. CASE Head(q).name = "switch"
    BY <1>2, <2>1 DEF SessionOK, SwitchOK, PersonaOK, MainOK
  <2>2. CASE active = was /\ mine = owned  BY <2>2 DEF SessionOK
  <2> QED  BY <2>1, <2>2
<1> QED  BY <1>2, <1>3, <1>4, <1>5 DEF SessionOK

LEMMA ExecuteKeeps ==
  ASSUME WorkspaceInv, Waiting, NEW outcome \in {"ok", "failed"}, NEW active \in Personas,
         NEW running \in BOOLEAN, Finish(outcome, active, running),
         Head(native.queue).name = "switch" \/ active = native.active,
         calls' = calls \/ calls' = Broken(calls),
         UNCHANGED <<open, store, news, ui, poll>>,
         spent' \in [commands : Nat, sends : Nat, deletes : Nat, events : Nat, views : Nat,
                     troubles : Nat], spent'.sends = spent.sends
  PROVE  WorkspaceInv'
<1>1. PICK u : u = ui  OBVIOUS
<1>2. PICK cs : cs = calls  OBVIOUS
<1>3. PICK q : q = native.queue  OBVIOUS
<1>4. PICK was : was = native.active  OBVIOUS
<1>5. PICK owned : owned = Of(native.active)  OBVIOUS
<1>6. PICK mine : mine = Of(active)  OBVIOUS
<1>7. PICK st : st = store  OBVIOUS
<1>8. PICK n : n = spent.sends  OBVIOUS
<1>9. PICK r : r = Executed(q, outcome, active)  OBVIOUS
<1>10. native' = [active |-> active, running |-> running, queue |-> r]
  BY <1>3, <1>9 DEF Finish, Executed
<1>11. SessionOK(u, cs, r, active, mine) /\ r \in Seq(Commands)
  <2>1. q \in Seq(Commands)  BY <1>3, Facts
  <2>2. q # <<>>  BY <1>3 DEF Waiting
  <2>3. SessionOK(u, cs, q, was, owned)  BY <1>1, <1>2, <1>3, <1>4, <1>5, Facts
  <2>4. Head(q).name = "switch" \/ (active = was /\ mine = owned)
    BY <1>3, <1>4, <1>5, <1>6
  <2>5. SessionOK(u, cs, r, active, mine)
    BY ONLY <2>1, <2>2, <2>3, <2>4, <1>9, FinishedSession, active \in Personas,
            outcome \in {"ok", "failed"}
  <2>6. QueueOK(q, was)  BY <2>3 DEF SessionOK
  <2>7. r \in Seq(Commands)
    BY ONLY <2>1, <2>2, <2>6, <1>9, Finished, active \in Personas, outcome \in {"ok", "failed"}
  <2> QED  BY <2>5, <2>7
<1>12. PICK f : f = [x \in cs |-> IF calls' = calls \/ x.status \notin Unanswered THEN x
                                   ELSE [x EXCEPT !.status = "failed"]]
  OBVIOUS
<1>13. PICK ds : ds = {f[x] : x \in cs}  OBVIOUS
<1>14. ds = calls'
  <2>1. CASE calls' = calls  BY <1>2, <1>12, <1>13, <2>1
  <2>2. CASE calls' = Broken(calls) /\ calls' # calls
    <3>1. \A x \in cs : f[x] = IF x.status \in {"asked", "thinking"}
                               THEN [x EXCEPT !.status = "failed"] ELSE x
      BY <1>12, <2>2 DEF Unanswered
    <3>2. ASSUME NEW z \in Broken(calls)  PROVE z \in ds
      <4>1. PICK x \in cs : z = IF x.status \in {"asked", "thinking"}
                                THEN [x EXCEPT !.status = "failed"] ELSE x
        BY <1>2 DEF Broken
      <4>2. z = f[x]  BY ONLY <3>1, <4>1, x \in cs
      <4> QED  BY ONLY <1>13, <4>2, x \in cs
    <3>3. ASSUME NEW z \in ds  PROVE z \in Broken(calls)
      <4>1. PICK x \in cs : z = f[x]  BY ONLY <1>13, <3>3
      <4>2. z = IF x.status \in {"asked", "thinking"} THEN [x EXCEPT !.status = "failed"] ELSE x
        BY ONLY <3>1, <4>1, x \in cs
      <4> QED  BY ONLY <1>2, <4>2, x \in cs DEF Broken
    <3>4. Broken(calls) = ds  BY ONLY <3>2, <3>3
    <3> QED  BY <2>2, <3>4
  <2> QED  BY <2>1, <2>2
<1>15. \A x \in cs : f[x] \in Calls /\ (f[x] = x \/ (Kin(x, f[x]) /\ Answered(f[x], st, active, mine)))
  <2> SUFFICES ASSUME NEW x \in cs
               PROVE  f[x] \in Calls /\ (f[x] = x \/ (Kin(x, f[x]) /\ Answered(f[x], st, active, mine)))
    OBVIOUS
  <2>1. x \in Calls  BY <1>2, Facts
  <2>2. CASE f[x] = x  BY <2>1, <2>2
  <2>3. CASE f[x] # x
    <3>1. PICK y : y = [x EXCEPT !.status = "failed"]  OBVIOUS
    <3>2. f[x] = y  BY <1>12, <2>3, <3>1
    <3>3. y \in Calls /\ Kin(x, y) /\ y.status = "failed"
      BY <2>1, <3>1, StatusSet DEF Statuses, Failures
    <3>4. Answered(y, st, active, mine)  BY <3>3 DEF Answered, Failures
    <3> QED  BY <3>2, <3>3, <3>4
  <2> QED  BY <2>2, <2>3
<1>16. RepliesOK(u, ds, st, n) /\ PendingOK(u, ds) /\ SessionOK(u, ds, r, active, mine)
  <2>1. RepliesOK(u, cs, st, n) /\ PendingOK(u, cs)
    BY <1>1, <1>2, <1>7, <1>8, Facts
  <2>2. Results(cs, f, ds, st, active, mine)  BY <1>13, <1>15 DEF Results
  <2>3. SessionOK(u, cs, r, active, mine)  BY <1>11
  <2> QED  BY ONLY <2>1, <2>2, <2>3, Replaced
<1>17. native' \in [active : Personas, running : BOOLEAN, queue : Seq(Commands)]
  BY <1>10, <1>11
<1>18. WorldInv'  BY <1>17 DEF WorkspaceInv, WorldInv
<1>19. \A p \in Personas : Of(p)' = Of(p)  BY DEF Of
<1>20. EventsInv'  BY <1>19 DEF WorkspaceInv, EventsInv
<1>21. PageOK(ui, calls, native.queue, spent.sends)'
  <2>1. calls' \subseteq Calls  BY <1>13, <1>14, <1>15
  <2>2. native'.active = active /\ native'.queue = r  BY <1>10
  <2>3. Of(native.active)' = mine  BY <1>6, <2>2 DEF Of
  <2>4. RepliesOK(ui', calls', store', spent'.sends) /\ PendingOK(ui', calls')
    BY <1>1, <1>7, <1>8, <1>14, <1>16
  <2>5. SessionOK(ui', calls', native'.queue, native'.active, Of(native.active)')
    BY <1>1, <1>14, <1>16, <2>2, <2>3
  <2>6. ui' \in Pages /\ native'.queue \in Seq(Commands)  BY <1>11, <2>2, Facts
  <2> QED  BY <2>1, <2>4, <2>5, <2>6 DEF PageOK
<1> QED  BY <1>18, <1>20, <1>21 DEF WorkspaceInv

LEMMA ExecutePlainlyKeeps == ASSUME WorkspaceInv, ExecutePlainly  PROVE WorkspaceInv'
<1>1. PICK outcome \in {"ok", "failed"} : Finish(outcome, native.active, native.running)
  BY DEF ExecutePlainly
<1>2. PICK active \in Personas : active = native.active  BY Facts
<1>3. PICK running \in BOOLEAN : running = native.running  BY Facts
<1> QED  BY <1>1, <1>2, <1>3, Facts, ExecuteKeeps DEF ExecutePlainly

LEMMA ExecuteRestartKeeps == ASSUME WorkspaceInv, ExecuteRestart  PROVE WorkspaceInv'
<1>1. PICK active \in Personas :
        /\ Finish("ok", active, TRUE)
        /\ Head(native.queue).name = "switch" \/ active = native.active
  <2>1. CASE Finish("ok", native.active, TRUE)  BY <2>1, Facts
  <2>2. CASE /\ Head(native.queue).name = "switch"
             /\ Finish("ok", Head(native.queue).to, TRUE)
    <3>1. Head(native.queue).to \in Personas
      BY <2>2, Facts, TailSession DEF ExecuteRestart, Waiting, SessionOK, QueueOK
    <3> QED  BY <2>2, <3>1
  <2> QED  BY <2>1, <2>2 DEF ExecuteRestart
<1> QED  BY <1>1, Facts, ExecuteKeeps DEF ExecuteRestart, Restarts

LEMMA ExecuteFailsKeeps == ASSUME WorkspaceInv, ExecuteFails  PROVE WorkspaceInv'
<1>1. PICK running \in BOOLEAN : Finish("failed", native.active, running)
  BY DEF ExecuteFails
<1>2. PICK active \in Personas : active = native.active  BY Facts
<1>3. spent' \in [commands : Nat, sends : Nat, deletes : Nat, events : Nat, views : Nat,
                  troubles : Nat] /\ spent'.sends = spent.sends
  BY Spent DEF ExecuteFails
<1> QED  BY <1>1, <1>2, <1>3, ExecuteKeeps DEF ExecuteFails, Restarts

-----------------------------------------------------------------------------
(* Events, and the rest of what the user does                                 *)

\* Neither the session nor the messages of the page change.
LEMMA QuietlyKeeps ==
  ASSUME WorkspaceInv, ui' \in Pages, Same(ui, ui'), calls' \subseteq Calls,
         Effects(ui, calls, calls'), EventsInv', UNCHANGED <<native, open, store, spent>>
  PROVE  WorkspaceInv'
<1>1. PICK u : u = ui  OBVIOUS
<1>2. PICK v : v = ui'  OBVIOUS
<1>3. PICK cs : cs = calls  OBVIOUS
<1>4. PICK ds : ds = calls'  OBVIOUS
<1>5. PICK q : q = native.queue  OBVIOUS
<1>6. PICK st : st = store  OBVIOUS
<1>7. PICK active : active = native.active  OBVIOUS
<1>8. PICK mine : mine = Of(native.active)  OBVIOUS
<1>9. PICK n : n = spent.sends  OBVIOUS
<1>10. u \in Pages /\ SameCache(u, v) /\ SameSession(u, v) /\ Effects(u, cs, ds)
  BY <1>1, <1>2, <1>3, <1>4, Facts DEF Same
<1>11. RepliesOK(v, ds, st, n)
  BY <1>1, <1>3, <1>6, <1>9, <1>10, Facts, DrawnReplies
<1>12. PendingOK(v, ds)  BY <1>1, <1>3, <1>10, Facts, DrawnPending
<1>13. SessionOK(v, ds, q, active, mine)
  <2>1. q \in Seq(Commands) /\ SessionOK(u, cs, q, active, mine)
    BY <1>1, <1>3, <1>5, <1>7, <1>8, Facts
  <2>2. Longer(q, q, u.gen)
    <3>1. DOMAIN q = 1..Len(q) /\ Len(q) \in Nat  BY <2>1, LenProperties
    <3> QED  BY <2>1, <3>1 DEF Longer
  <2> QED  BY <1>10, <2>1, <2>2, DrawnSession
<1>14. WorldInv'  BY DEF WorkspaceInv, WorldInv
<1>15. PageOK(ui, calls, native.queue, spent.sends)'
  <2>1. Of(native.active)' = mine  BY <1>8 DEF Of
  <2>2. RepliesOK(ui', calls', store', spent'.sends) /\ PendingOK(ui', calls')
    BY <1>2, <1>4, <1>6, <1>9, <1>11, <1>12
  <2>3. SessionOK(ui', calls', native'.queue, native'.active, Of(native.active)')
    BY <1>2, <1>4, <1>5, <1>7, <1>13, <2>1
  <2> QED  BY <2>2, <2>3, Facts DEF PageOK
<1> QED  BY <1>14, <1>15 DEF WorkspaceInv

LEMMA ToastExpiresKeeps == ASSUME WorkspaceInv, ToastExpires  PROVE WorkspaceInv'
<1>1. ui' = [ui EXCEPT !.toast = None] /\ UNCHANGED <<native, open, store, news, calls, poll, spent>>
  BY DEF ToastExpires
<1>2. ui' \in Pages /\ Same(ui, ui') /\ ui'.toast = None
  BY <1>1, Facts DEF Pages, Somewhere, Same, SameCache, SameSession
<1>3. Effects(ui, calls, calls')  BY <1>1, CallsDropped
<1>4. EventsInv'
  <2>1. \A p \in Personas : Of(p)' = Of(p)  BY <1>1 DEF Of
  <2> QED  BY <1>1, <1>2, <2>1 DEF WorkspaceInv, EventsInv
<1> QED  BY <1>1, <1>2, <1>3, <1>4, Facts, QuietlyKeeps

LEMMA PollKeeps == ASSUME WorkspaceInv, Poll  PROVE WorkspaceInv'
<1>1. UNCHANGED <<native, open, store, news, ui, calls, spent>>  BY DEF Poll
<1>2. Same(ui, ui') /\ Effects(ui, calls, calls')
  BY <1>1, CallsDropped DEF Same, SameCache, SameSession
<1>3. PICK active \in Personas : active = native.active  BY Facts
<1>4. PICK heard : heard = news[active]  OBVIOUS
<1>5. PICK rest : rest = {n \in 1..Len(heard) : ui.cursor # None /\ n > ui.cursor}  OBVIOUS
<1>6. heard \in Seq(Of(active))  BY <1>4 DEF WorkspaceInv, EventsInv
<1>7. Len(heard) \in Nat /\ DOMAIN heard = 1..Len(heard)  BY <1>6, LenProperties
<1>8. rest \subseteq DOMAIN heard /\ rest \subseteq Nat  BY <1>5, <1>7
<1>9. poll' = [phase |-> "answered", live |-> TRUE, of |-> active, latest |-> Len(heard),
               rest |-> rest]
  BY <1>3, <1>4, <1>5 DEF Poll
<1>10. EventsInv'
  <2>1. \A p \in Personas : Of(p)' = Of(p)  BY <1>1 DEF Of
  <2>2. poll' \in [phase : {"idle", "answered", "announcing"}, live : BOOLEAN, of : Someone,
                   rest : SUBSET Nat, latest : Nat]
        /\ poll'.phase = "answered" /\ poll'.of = active /\ poll'.rest = rest
    BY <1>7, <1>8, <1>9 DEF Someone
  <2> QED  BY <1>1, <1>4, <1>8, <2>1, <2>2 DEF WorkspaceInv, EventsInv
<1> QED  BY <1>1, <1>2, <1>10, Facts, QuietlyKeeps

LEMMA PollIdleOK ==
  /\ PollIdle \in [phase : {"idle", "answered", "announcing"}, live : BOOLEAN, of : Someone,
                   rest : SUBSET Nat, latest : Nat]
  /\ PollIdle.phase = "idle"
BY DEF PollIdle, Someone

LEMMA PollAnsweredKeeps == ASSUME WorkspaceInv, PollAnswered  PROVE WorkspaceInv'
<1>1. UNCHANGED <<native, open, store, news, calls, spent>> /\ poll.phase = "answered"
  BY DEF PollAnswered
<1>2. poll \in [phase : {"idle", "answered", "announcing"}, live : BOOLEAN, of : Someone,
                rest : SUBSET Nat, latest : Nat]
      /\ poll.of \in Personas /\ poll.rest \subseteq DOMAIN news[poll.of]
  BY <1>1 DEF WorkspaceInv, EventsInv
<1>3. ui' = ui \/ ui' = [ui EXCEPT !.cursor = poll.latest]  BY DEF PollAnswered
<1>4. ui' \in Pages /\ Same(ui, ui') /\ ui'.toast = ui.toast
  BY <1>2, <1>3, Facts DEF Pages, Same, SameCache, SameSession
<1>5. Effects(ui, calls, calls')  BY <1>1, CallsDropped
<1>6. EventsInv'
  <2>1. \A p \in Personas : Of(p)' = Of(p)  BY <1>1 DEF Of
  <2>2. \/ poll' = PollIdle
        \/ poll' = [poll EXCEPT !.phase = "announcing"] /\ poll.rest # {}
    BY DEF PollAnswered
  <2>3. CASE poll' = PollIdle
    BY <1>1, <1>4, <2>1, <2>3, PollIdleOK DEF WorkspaceInv, EventsInv
  <2>4. CASE poll' = [poll EXCEPT !.phase = "announcing"] /\ poll.rest # {}
    <3>1. poll' \in [phase : {"idle", "answered", "announcing"}, live : BOOLEAN, of : Someone,
                     rest : SUBSET Nat, latest : Nat]
          /\ poll'.of = poll.of /\ poll'.rest = poll.rest
      BY <1>2, <2>4
    <3> QED  BY <1>1, <1>2, <1>4, <2>1, <2>4, <3>1 DEF WorkspaceInv, EventsInv
  <2> QED  BY <2>2, <2>3, <2>4
<1> QED  BY <1>1, <1>4, <1>5, <1>6, Facts, QuietlyKeeps

\* The first of a batch is one of it.
LEMMA FirstOfBatch ==
  ASSUME NEW T, T \subseteq Nat, T # {}
  PROVE  (CHOOSE n \in T : \A m \in T : n <= m) \in T
<1> DEFINE R == OpToRel(<, Nat)
<1>1. \A x, y \in Nat : y < x => <<y, x>> \in R  BY DEF OpToRel
<1>2. IsWellFoundedOn(R, Nat)  BY NatLessThanWellFounded
<1> HIDE DEF R
<1>3. PICK x \in T : \A y \in T : ~(<<y, x>> \in R)  BY <1>2, WFMin, Zenon
<1>4. \A y \in T : ~(y < x)  BY <1>1, <1>3, Zenon
<1>5. \A y \in T : x <= y  BY <1>4
<1>6. \E n \in T : \A m \in T : n <= m  BY <1>5
<1> QED  BY <1>6, Zenon

LEMMA AnnounceKeeps == ASSUME WorkspaceInv, Announce  PROVE WorkspaceInv'
<1>1. UNCHANGED <<native, open, store, news, spent>> /\ poll.phase = "announcing"
  BY Zenon DEF Announce
<1>2. /\ poll \in [phase : {"idle", "answered", "announcing"}, live : BOOLEAN, of : Someone,
                   rest : SUBSET Nat, latest : Nat]
      /\ poll.of \in Personas /\ poll.rest \subseteq DOMAIN news[poll.of] /\ poll.rest # {}
      /\ news[poll.of] \in Seq(Of(poll.of))
  BY <1>1 DEF WorkspaceInv, EventsInv
<1>3. PICK n : n = CHOOSE k \in poll.rest : \A m \in poll.rest : k <= m  OBVIOUS
<1>4. n \in poll.rest /\ n \in Nat  BY <1>2, <1>3, FirstOfBatch
<1>5. PICK conv : conv = news[poll.of][n]  OBVIOUS
<1>6. conv \in open /\ conv \in Conversations
  <2>1. conv \in Of(poll.of)  BY <1>2, <1>4, <1>5, LenProperties, ElementOfSeq
  <2> QED  BY <2>1 DEF Of, WorkspaceInv, WorldInv
<1>7. \A p \in Personas : Of(p)' = Of(p)  BY <1>1 DEF Of
<1>8. CASE ~poll.live
  <2>1. poll' = PollIdle /\ UNCHANGED <<ui, calls>>  BY <1>8 DEF Announce
  <2>2. Same(ui, ui') /\ Effects(ui, calls, calls')
    BY <2>1, CallsDropped DEF Same, SameCache, SameSession
  <2>3. EventsInv'  BY <1>1, <1>7, <2>1, PollIdleOK DEF WorkspaceInv, EventsInv
  <2> QED  BY <1>1, <2>1, <2>2, <2>3, Facts, QuietlyKeeps
<1>9. CASE poll.live
  <2>1. PICK x : x = [HistoryCall(conv, ui.history[conv].revision) EXCEPT !.kind = "news", !.n = n]
    BY Zenon
  <2>2. /\ ui' = [ui EXCEPT !.toast = conv]
        /\ calls' = calls \cup (IF conv # ui.main THEN {} ELSE {x})
        /\ poll' = PollIdle \/ (poll.rest # {n} /\ poll' = [poll EXCEPT !.rest = @ \ {n}])
    BY <1>3, <1>5, <1>9, <2>1, Zenon DEF Announce
  <2>3. ui' \in Pages /\ Same(ui, ui') /\ ui'.toast = conv
    BY <1>6, <2>2, Facts DEF Pages, Somewhere, Same, SameCache, SameSession
  <2>4. /\ x \in Calls /\ x.kind = "news" /\ x.conv = conv /\ x.status = "asked"
        /\ x.revision = ui.history[conv].revision
    <3>1. PICK k \in Nat : k = ui.history[conv].revision
      BY <1>6, Facts DEF Pages, Histories
    <3>2. x = [HistoryCall(conv, k) EXCEPT !.kind = "news", !.n = n]  BY <2>1, <3>1
    <3> QED  BY <1>4, <1>6, <3>1, <3>2
             DEF HistoryCall, Calls, HistoryCalls, Statuses, Unanswered
  <2>5. calls' \subseteq Calls /\ Effects(ui, calls, calls')
    <3>1. \A y \in calls' : y \in calls \/ (y = x /\ conv = ui.main)  BY <2>2
    <3>2. conv # None  BY <1>6, FirstAssumption
    <3>3. \A y \in calls : y \in calls'  BY <2>2
    <3> QED  BY <2>4, <3>1, <3>2, <3>3, Facts DEF Effects
  <2>6. EventsInv'
    <3>1. CASE poll' = PollIdle
      BY <1>1, <1>6, <1>7, <2>3, <3>1, PollIdleOK DEF WorkspaceInv, EventsInv
    <3>2. CASE poll.rest # {n} /\ poll' = [poll EXCEPT !.rest = @ \ {n}]
      <4>1. /\ poll' \in [phase : {"idle", "answered", "announcing"}, live : BOOLEAN, of : Someone,
                          rest : SUBSET Nat, latest : Nat]
            /\ poll'.of = poll.of /\ poll'.rest = poll.rest \ {n}
        BY <1>2, <3>2
      <4>2. poll'.rest # {}  BY <1>4, <3>2, <4>1
      <4> QED  BY <1>1, <1>2, <1>6, <1>7, <2>3, <4>1, <4>2 DEF WorkspaceInv, EventsInv
    <3> QED  BY <2>2, <3>1, <3>2
  <2> QED  BY <1>1, <2>3, <2>5, <2>6, Facts, QuietlyKeeps
<1> QED  BY <1>8, <1>9

\* A persona speaks: an event is stored where she speaks.
LEMMA SpeaksKeeps ==
  ASSUME WorkspaceInv, NEW p \in Personas, Speaks(p)  PROVE WorkspaceInv'
<1>1. PICK conv \in Of(p) :
        /\ news' = [news EXCEPT ![p] = Append(@, conv)]
        /\ store' = [store EXCEPT ![conv] = @ \cup {Message("event", Len(news[p]) + 1)}]
  BY DEF Speaks
<1>2. UNCHANGED <<native, open, ui, calls, poll>> /\ Spend("events")  BY DEF Speaks
<1>3. spent' \in [commands : Nat, sends : Nat, deletes : Nat, events : Nat, views : Nat,
                  troubles : Nat] /\ spent'.sends = spent.sends
  BY <1>2, Spent
<1>4. /\ DOMAIN news = Personas /\ \A r \in Personas : news[r] \in Seq(Of(r))
      /\ store \in [Conversations -> SUBSET Durable] /\ conv \in Conversations
  BY <1>1 DEF WorkspaceInv, WorldInv, EventsInv, Of
<1>5. PICK heard : heard = news[p]  OBVIOUS
<1>6. heard \in Seq(Of(p)) /\ Len(heard) \in Nat /\ DOMAIN heard = 1..Len(heard)
  BY <1>4, <1>5, LenProperties
<1>7. PICK m : m = Message("event", Len(heard) + 1)  OBVIOUS
<1>8. m \in Durable /\ m.kind = "event"  BY <1>6, <1>7 DEF Message, Durable
<1>9. PICK st : st = store'  OBVIOUS
<1>10. /\ st \in [Conversations -> SUBSET Durable]
       /\ \A c \in Conversations : store[c] \subseteq st[c]
       /\ \A c \in Conversations : \A k \in st[c] : k \in store[c] \/ k.kind = "event"
  <2>1. st = [store EXCEPT ![conv] = @ \cup {m}]  BY <1>1, <1>5, <1>7, <1>9
  <2> QED  BY <1>4, <1>8, <2>1
<1>11. PICK more : more = Append(heard, conv)  OBVIOUS
<1>12. more \in Seq(Of(p)) /\ DOMAIN heard \subseteq DOMAIN more
  <2>1. more \in Seq(Of(p)) /\ Len(more) = Len(heard) + 1  BY <1>1, <1>6, <1>11, AppendProperties
  <2>2. DOMAIN more = 1..Len(more)  BY <2>1, LenProperties
  <2> QED  BY <1>6, <2>1, <2>2
<1>13. /\ DOMAIN news' = Personas /\ news'[p] = more
       /\ \A r \in Personas : r # p => news'[r] = news[r]
  BY <1>1, <1>4, <1>5, <1>11
<1>14. \A r \in Personas : Of(r)' = Of(r)  BY <1>2 DEF Of
<1>15. \A r \in Personas : news'[r] \in Seq(Of(r)) /\ DOMAIN news[r] \subseteq DOMAIN news'[r]
  BY <1>4, <1>5, <1>12, <1>13
<1>16. EventsInv'  BY <1>2, <1>13, <1>14, <1>15 DEF WorkspaceInv, EventsInv
<1>17. WorldInv'  BY <1>2, <1>3, <1>9, <1>10 DEF WorkspaceInv, WorldInv
<1>18. \A k : \A c \in Conversations : Message("reply", k) \in st[c] => Message("reply", k) \in store[c]
  BY <1>10 DEF Message
<1>19. RepliesOK(ui, calls, st, spent.sends)
  <2>1. ChatsOK(ui, calls, st, spent.sends)
    BY <1>10, <1>18, Facts DEF RepliesOK, ChatsOK
  <2>2. \A x \in calls : x.kind \in {"history", "news", "delete"} => x.conv \in Conversations
    BY Facts DEF Calls, HistoryCalls, LoadCalls, AuthCalls, CreateCalls, ChatCalls, DeleteCalls
  <2>3. SnapshotsOK(ui, calls, st)
    BY <1>18, <2>2, Facts DEF RepliesOK, SnapshotsOK
  <2>4. DeletesOK(calls, st, spent.sends)
    BY <1>10, <2>2, Facts DEF RepliesOK, DeletesOK
  <2> QED  BY <2>1, <2>3, <2>4 DEF RepliesOK
<1>20. PageOK(ui, calls, native.queue, spent.sends)'
  <2>1. Of(native.active)' = Of(native.active)  BY <1>2 DEF Of
  <2>2. RepliesOK(ui', calls', store', spent'.sends) /\ PendingOK(ui', calls')
    BY <1>2, <1>3, <1>9, <1>19, Facts
  <2>3. SessionOK(ui', calls', native'.queue, native'.active, Of(native.active)')
    BY <1>2, <2>1, Facts
  <2> QED  BY <1>2, <2>2, <2>3, Facts DEF PageOK
<1> QED  BY <1>16, <1>17, <1>20 DEF WorkspaceInv

LEMMA DeleteKeeps == ASSUME WorkspaceInv, Delete  PROVE WorkspaceInv'
<1>0. PICK conv \in Of(native.active) : \E m \in store[conv] :
        calls' = calls \cup {[kind |-> "delete", conv |-> conv, message |-> m, status |-> "asked"]}
  BY DEF Delete
<1>1. PICK m \in store[conv] :
        calls' = calls \cup {[kind |-> "delete", conv |-> conv, message |-> m, status |-> "asked"]}
  BY <1>0
<1>2. UNCHANGED <<native, open, store, news, ui, poll>> /\ Spend("deletes")  BY DEF Delete
<1>3. spent' \in [commands : Nat, sends : Nat, deletes : Nat, events : Nat, views : Nat,
                  troubles : Nat] /\ spent'.sends = spent.sends
  BY <1>2, Spent
<1>4. PICK x : x = [kind |-> "delete", conv |-> conv, message |-> m, status |-> "asked"]  OBVIOUS
<1>5. conv \in Conversations /\ m \in Durable
  BY <1>1 DEF WorkspaceInv, WorldInv, Of
<1>6. /\ x \in Calls /\ x.kind = "delete" /\ x.status = "asked" /\ x.message = m
      /\ \A y \in calls' : y \in calls \/ y = x
      /\ \A y \in calls' : y.kind # "delete" => y \in calls
      /\ \A y \in calls : y \in calls'
  BY <1>1, <1>4, <1>5 DEF Calls, DeleteCalls, Statuses, Unanswered
<1>7. RepliesOK(ui, calls', store, spent.sends)
  <2>1. ChatsOK(ui, calls', store, spent.sends)
    BY <1>6, Facts DEF RepliesOK, ChatsOK
  <2>2. SnapshotsOK(ui, calls', store)  BY <1>6, Facts DEF RepliesOK, SnapshotsOK
  <2>3. ASSUME m.kind = "reply"
        PROVE  /\ m.n <= spent.sends
               /\ \A y \in calls : y.kind = "chat" /\ y.n = m.n => y.status \notin Unanswered
    <3>1. m = Message("reply", m.n)  BY <1>5, <2>3 DEF Message, Durable
    <3>2. /\ \A k \in store[conv] : k.kind = "reply" => k.n <= spent.sends
          /\ \A y \in calls : y.kind = "chat" =>
               (Message("reply", y.n) \in store[conv] => y.status \notin Unanswered)
      BY <1>5, Facts DEF RepliesOK, ChatsOK
    <3> QED  BY <1>1, <2>3, <3>1, <3>2
  <2>4. DeletesOK(calls', store, spent.sends)
    <3> SUFFICES ASSUME NEW y \in calls', y.kind = "delete", y.message.kind = "reply"
                 PROVE  /\ y.message.n <= spent.sends
                        /\ y.status = "answered" => y.message \notin store[y.conv]
                        /\ \A z \in calls' : z.kind = "chat" /\ z.n = y.message.n => z.status \notin Unanswered
      BY DEF DeletesOK
    <3>1. CASE y \in calls  BY <1>6, <3>1, Facts DEF RepliesOK, DeletesOK
    <3>2. CASE y = x  BY <1>6, <2>3, <3>2
    <3> QED  BY <1>6, <3>1, <3>2
  <2> QED  BY <2>1, <2>2, <2>4 DEF RepliesOK
<1>8. PendingOK(ui, calls')  BY <1>6, Facts DEF PendingOK, SentBy
<1>9. SessionOK(ui, calls', native.queue, native.active, Of(native.active))
  BY <1>6, Facts DEF SessionOK, MarksOK, SwitchOK, PersonaOK, MainOK
<1>10. WorldInv'  BY <1>2, <1>3 DEF WorkspaceInv, WorldInv
<1>11. \A p \in Personas : Of(p)' = Of(p)  BY <1>2 DEF Of
<1>12. EventsInv'  BY <1>2, <1>11 DEF WorkspaceInv, EventsInv
<1>13. PageOK(ui, calls, native.queue, spent.sends)'
  <2>1. Of(native.active)' = Of(native.active)  BY <1>2 DEF Of
  <2>2. RepliesOK(ui', calls', store', spent'.sends) /\ PendingOK(ui', calls')
    BY <1>2, <1>3, <1>7, <1>8
  <2>3. SessionOK(ui', calls', native'.queue, native'.active, Of(native.active)')
    BY <1>2, <1>9, <2>1
  <2>4. calls' \subseteq Calls  BY <1>6, Facts
  <2> QED  BY <1>2, <2>2, <2>3, <2>4, Facts DEF PageOK
<1> QED  BY <1>10, <1>12, <1>13 DEF WorkspaceInv

LEMMA SwitchOfUserKeeps ==
  ASSUME WorkspaceInv, NEW p \in Personas, Switch(p)  PROVE WorkspaceInv'
<1>1. /\ Render(Leaving(ui), calls, Append(native.queue, Command("switch", p, None, 0)))
      /\ UNCHANGED <<open, store, news>> /\ Spend("commands")
  BY DEF Switch, switchPersona
<1>2. spent' \in [commands : Nat, sends : Nat, deletes : Nat, events : Nat, views : Nat,
                  troubles : Nat] /\ spent'.sends = spent.sends
  BY <1>1, Spent
<1>3. PICK u \in Pages : u = ui  BY Facts
<1> QED  BY <1>1, <1>2, <1>3, Facts, SwitchKeeps

-----------------------------------------------------------------------------
(* The invariant                                                              *)

LEMMA InitKeeps == ASSUME Init  PROVE WorkspaceInv
<1>1. First \in Personas /\ <<First, 1>> \in Conversations
  BY FirstAssumption DEF Conversations
<1>2. PICK ask : ask = Command("list", None, None, 0)  OBVIOUS
<1>3. PICK start : start = Command("start", None, None, 0)  OBVIOUS
<1>4. /\ ask \in Commands /\ ask.name = "list" /\ ask.done = "no"
      /\ start \in Commands /\ start.name = "start" /\ start.done = "no"
  BY <1>2, <1>3 DEF Command, Commands, Someone
<1>5. PICK q : q = <<ask, start>>  OBVIOUS
<1>6. q \in Seq(Commands) /\ \A i \in DOMAIN q : q[i].name \in {"list", "start"} /\ q[i].done = "no"
  <2>1. q \in Seq(Commands) /\ DOMAIN q = 1..2 /\ q[1] = ask /\ q[2] = start  BY <1>4, <1>5
  <2>2. \A i \in 1..2 : i = 1 \/ i = 2  OBVIOUS
  <2> QED  BY <1>4, <2>1, <2>2
<1>7. native = [active |-> First, running |-> FALSE, queue |-> q]
  BY <1>2, <1>3, <1>5 DEF Init
<1>8. WorldInv
  <2>1. /\ open = {<<First, 1>>} /\ spent = [commands |-> 0, sends |-> 0, events |-> 0,
                                            deletes |-> 0, views |-> 0, troubles |-> 0]
        /\ store = [c \in Conversations |-> IF c \in open THEN {Message("old", 0)} ELSE {}]
    BY DEF Init
  <2>2. Message("old", 0) \in Durable  BY DEF Message, Durable
  <2>3. store \in [Conversations -> SUBSET Durable]  BY <2>1, <2>2
  <2>4. native \in [active : Personas, running : BOOLEAN, queue : Seq(Commands)]
    BY <1>1, <1>6, <1>7
  <2> QED  BY <1>1, <2>1, <2>3, <2>4 DEF WorldInv
<1>9. PICK history \in Histories :
        history = EmptyHistory /\ \A c \in Conversations : history[c].messages = {}
  <2>1. EmptyHistory \in Histories  BY DEF Histories, EmptyHistory
  <2>2. \A c \in Conversations : EmptyHistory[c].messages = {}  BY DEF EmptyHistory
  <2> QED  BY <2>1, <2>2
<1>10. PICK pending \in [Conversations -> Nat] : pending = [c \in Conversations |-> 0]
  OBVIOUS
<1>11. ui = [gen |-> 0, attempt |-> 0, backend |-> "checking", auth |-> "checking",
             persona |-> None, listed |-> None, main |-> None, history |-> history,
             pending |-> pending, section |-> "chat", unavailable |-> FALSE,
             guessed |-> FALSE, received |-> {}, cursor |-> None, toast |-> None]
  BY <1>9, <1>10 DEF Init
<1>12. ui \in Pages  BY <1>11 DEF Pages, Someone, Somewhere
<1>13. /\ ui.main = None /\ ui.auth = "checking" /\ ui.history = history /\ ui.pending = pending
       /\ ui.received = {} /\ ui.toast = None
  BY <1>11
<1>14. calls = {} /\ news = [p \in Personas |-> <<>>] /\ poll = PollIdle  BY DEF Init
<1>15. EventsInv
  <2>1. \A p \in Personas : news[p] \in Seq(Of(p))  BY <1>14
  <2>2. DOMAIN news = Personas  BY <1>14
  <2>3. poll.phase = "idle"  BY <1>14, PollIdleOK
  <2>4. poll \in [phase : {"idle", "answered", "announcing"}, live : BOOLEAN, of : Someone,
                  rest : SUBSET Nat, latest : Nat]
    BY <1>14, PollIdleOK
  <2>5. ui.toast = None  BY <1>13
  <2> QED  BY <2>1, <2>2, <2>3, <2>4, <2>5 DEF EventsInv
<1>16. RepliesOK(ui, calls, store, spent.sends)
  <2>1. \A c \in Conversations : \A m \in store[c] : m.kind = "old"
    BY DEF Init, Message
  <2>2. \A k : \A c \in Conversations : Message("reply", k) \notin store[c]
    BY <2>1 DEF Message
  <2> QED  BY <1>13, <1>14, <2>1, <2>2 DEF RepliesOK, ChatsOK, SnapshotsOK, DeletesOK
<1>17. PendingOK(ui, calls)  BY <1>9, <1>10, <1>13 DEF PendingOK
<1>18. SessionOK(ui, calls, q, First, Of(First))
  BY <1>6, <1>13, <1>14 DEF SessionOK, MarksOK, QueueOK, SwitchOK, PersonaOK, MainOK
<1>19. PageOK(ui, calls, native.queue, spent.sends)
  <2>1. native.active = First /\ native.queue = q  BY <1>7
  <2> QED  BY <1>6, <1>12, <1>14, <1>16, <1>17, <1>18, <2>1 DEF PageOK
<1> QED  BY <1>8, <1>15, <1>19 DEF WorkspaceInv

LEMMA StepKeeps == ASSUME WorkspaceInv, [Next]_vars  PROVE WorkspaceInv'
<1>1. CASE Native
  <2>1. CASE ExecutePlainly  BY <2>1, ExecutePlainlyKeeps
  <2>2. CASE ExecuteRestart  BY <2>2, ExecuteRestartKeeps
  <2>3. CASE ExecuteFails  BY <2>3, ExecuteFailsKeeps
  <2>4. CASE StartAnswered  BY <2>4, StartAnsweredKeeps
  <2>5. CASE SessionAnswered  BY <2>5, SessionAnsweredKeeps
  <2>6. CASE SwitchAnswered  BY <2>6, SwitchAnsweredKeeps
  <2>7. CASE SaveAnswered  BY <2>7, SaveAnsweredKeeps
  <2>8. CASE ListAnswered  BY <2>8, ListAnsweredKeeps
  <2> QED  BY <1>1, <2>1, <2>2, <2>3, <2>4, <2>5, <2>6, <2>7, <2>8 DEF Native
<1>2. CASE Backend
  <2>1. PICK c \in calls : \/ ServeRead(c) \/ ServeCreate(c) \/ ServeChat(c) \/ ServeDelete(c)
                           \/ Unknown(c) \/ CallFails(c)
    BY <1>2 DEF Backend
  <2>2. CASE ServeRead(c)  BY <2>2, ServeReadKeeps
  <2>3. CASE ServeCreate(c)  BY <2>3, ServeCreateKeeps
  <2>4. CASE ServeChat(c)  BY <2>4, ServeChatKeeps
  <2>5. CASE ServeDelete(c)  BY <2>5, ServeDeleteKeeps
  <2>6. CASE Unknown(c)  BY <2>6, UnknownKeeps
  <2>7. CASE CallFails(c)  BY <2>7, CallFailsKeeps
  <2> QED  BY <2>1, <2>2, <2>3, <2>4, <2>5, <2>6, <2>7
<1>3. CASE Answers
  <2>1. PICK c \in calls : \/ AuthAnswered(c) \/ LoadAnswered(c) \/ CreateAnswered(c)
                           \/ HistoryAnswered(c) \/ ChatAnswered(c) \/ DeleteAnswered(c)
                           \/ Denied(c)
    BY <1>3 DEF Answers
  <2>2. CASE AuthAnswered(c)  BY <2>2, AuthAnsweredKeeps
  <2>3. CASE LoadAnswered(c)  BY <2>3, LoadAnsweredKeeps
  <2>4. CASE CreateAnswered(c)  BY <2>4, CreateAnsweredKeeps
  <2>5. CASE HistoryAnswered(c)  BY <2>5, HistoryAnsweredKeeps
  <2>6. CASE ChatAnswered(c)  BY <2>6, ChatAnsweredKeeps
  <2>7. CASE DeleteAnswered(c)  BY <2>7, DeleteAnsweredKeeps
  <2>8. CASE Denied(c)  BY <2>8, DeniedKeeps
  <2> QED  BY <2>1, <2>2, <2>3, <2>4, <2>5, <2>6, <2>7, <2>8
<1>4. CASE Events
  <2>1. CASE Poll  BY <2>1, PollKeeps
  <2>2. CASE PollAnswered  BY <2>2, PollAnsweredKeeps
  <2>3. CASE Announce  BY <2>3, AnnounceKeeps
  <2>4. CASE \E p \in Personas : Speaks(p)  BY <2>4, SpeaksKeeps
  <2> QED  BY <1>4, <2>1, <2>2, <2>3, <2>4 DEF Events
<1>5. CASE User
  <2>1. CASE Send  BY <2>1, SendKeeps
  <2>2. CASE View  BY <2>2, ViewKeeps
  <2>3. CASE Delete  BY <2>3, DeleteKeeps
  <2>4. CASE Save  BY <2>4, SaveKeeps
  <2>5. CASE OpenEvent  BY <2>5, OpenEventKeeps
  <2>6. CASE ToastExpires  BY <2>6, ToastExpiresKeeps
  <2>7. CASE Retry  BY <2>7, RetryKeeps
  <2>8. CASE \E p \in Personas : Switch(p)  BY <2>8, SwitchOfUserKeeps
  <2>9. CASE \E to \in Personas \cup {None} : Manage(to)  BY <2>9, ManageKeeps DEF Someone
  <2> QED  BY <1>5, <2>1, <2>2, <2>3, <2>4, <2>5, <2>6, <2>7, <2>8, <2>9 DEF User
<1>6. CASE UNCHANGED vars
  BY <1>6 DEF vars, WorkspaceInv, WorldInv, EventsInv, PageOK, Of
<1> QED  BY <1>1, <1>2, <1>3, <1>4, <1>5, <1>6 DEF Next

\* What the page knows, and every answer on its way to it, fits the world it
\* came from: the inductive invariant of MindCoreWorkspace and its handlers.
THEOREM WorkspaceInvariant == Spec => []WorkspaceInv
<1>1. Init => WorkspaceInv  BY InitKeeps
<1>2. WorkspaceInv /\ [Next]_vars => WorkspaceInv'  BY StepKeeps
<1> QED  BY <1>1, <1>2, PTL DEF Spec

\* With no command and no call open, the page shows the active persona, one of
\* her conversations, and nothing that still says it is being sent: whatever
\* order the answers that switchPersona, checkHealth, loadMainConversation and
\* the chat requests wait for come in.
THEOREM QuietPageRight == Spec => []QuietIsRight
<1>1. WorkspaceInv => QuietIsRight
  <2> SUFFICES ASSUME WorkspaceInv, calls = {}, Shell(ui)
               PROVE  /\ ~ui.unavailable => ui.persona = native.active
                      /\ ~ui.guessed /\ ui.main # None => ui.main \in Of(native.active)
                      /\ \A c \in Conversations :
                           /\ ui.pending[c] = 0
                           /\ \A m \in ui.history[c].messages : m.kind # "temp"
    BY DEF QuietIsRight
  <2>1. ~ui.unavailable => ui.persona = native.active
    BY Facts DEF Shell, SessionOK, PersonaOK
  <2>2. ~ui.guessed /\ ui.main # None => ui.main \in Of(native.active)
    BY Facts DEF SessionOK, MainOK
  <2>3. \A c, k : ~SentBy(ui, calls, c, k)  BY DEF SentBy
  <2>4. \A c \in Conversations : /\ ui.pending[c] = 0
                                 /\ \A m \in ui.history[c].messages : m.kind # "temp"
    BY <2>3, Facts DEF PendingOK
  <2> QED  BY <2>1, <2>2, <2>4
<1> QED  BY <1>1, WorkspaceInvariant, PTL

-----------------------------------------------------------------------------
(* Replies stay                                                               *)

\* The page v, if it goes on with the session of ui, has the replies received.
Stay(v) ==
  v.gen = ui.gen =>
    \A c \in Conversations : \A m \in ui.history[c].messages :
      m.kind = "reply" /\ m.n \in ui.received /\ m \in store[c] => m \in v.history[c].messages

\* A handler that leaves the messages alone, and one that ends the session.
Untouched(v) == DOMAIN v = DOMAIN ui /\ v.history = ui.history
Ended(v) == v \in Pages /\ v.gen = ui.gen + 1

\* A commit changes neither the generation nor the messages.
LEMMA CommitStays ==
  ASSUME WorkspaceInv, NEW next, NEW kept, NEW queue, Render(next, kept, queue),
         DOMAIN next = DOMAIN ui, Stay(next)
  PROVE  Stay(ui')
<1>1. {"gen", "history", "backend", "cursor"} \subseteq DOMAIN next
  BY Facts DEF Pages
<1>2. PICK shown : shown = IF next.attempt # ui.attempt
                           THEN [next EXCEPT !.backend = "checking"] ELSE next
  OBVIOUS
<1>3. ui' = shown \/ ui' = [shown EXCEPT !.cursor = None]
  BY <1>2 DEF Render
<1>4. shown.gen = next.gen /\ shown.history = next.history /\ DOMAIN shown = DOMAIN next
  BY <1>1, <1>2
<1>5. ui'.gen = next.gen /\ ui'.history = next.history
  BY <1>1, <1>3, <1>4
<1> QED  BY <1>5 DEF Stay

LEMMA UntouchedStays ==
  ASSUME WorkspaceInv, NEW next, NEW kept, NEW queue, Render(next, kept, queue), Untouched(next)
  PROVE  Stay(ui')
<1>1. Stay(next)  BY DEF Untouched, Stay
<1> QED  BY <1>1, CommitStays DEF Untouched

LEMMA EndedStays ==
  ASSUME WorkspaceInv, NEW next, NEW kept, NEW queue, Render(next, kept, queue), Ended(next)
  PROVE  Stay(ui')
<1>1. ui.gen \in Nat  BY Facts DEF Pages
<1>2. Stay(next)  BY <1>1 DEF Ended, Stay
<1>3. DOMAIN next = DOMAIN ui  BY Facts DEF Ended, Pages
<1> QED  BY <1>2, <1>3, CommitStays

\* The page itself is not changed, or not in its messages.
LEMMA StillStays ==
  ASSUME WorkspaceInv, Untouched(ui')  PROVE Stay(ui')
BY DEF Untouched, Stay

LEMMA NativeStays == ASSUME WorkspaceInv, Native  PROVE Stay(ui')
<1>1. CASE ExecutePlainly \/ ExecuteRestart \/ ExecuteFails
  BY <1>1, StillStays DEF ExecutePlainly, ExecuteRestart, ExecuteFails, Untouched
<1>2. CASE StartAnswered
  <2>1. PICK next, backend :
          Render(next, calls, Rest) /\ (next = ui \/ next = [ui EXCEPT !.backend = backend])
    BY <1>2 DEF StartAnswered
  <2>2. Untouched(next)  BY <2>1, Facts DEF Untouched, Pages
  <2> QED  BY <2>1, <2>2, UntouchedStays
<1>3. CASE SessionAnswered
  <2>1. PICK next, kept :
          Render(next, kept, Rest) /\ (next = ui \/ next = [ui EXCEPT !.auth = "unauthenticated"])
    BY <1>3 DEF SessionAnswered
  <2>2. Untouched(next)  BY <2>1, Facts DEF Untouched, Pages
  <2> QED  BY <2>1, <2>2, UntouchedStays
<1>4. CASE SwitchAnswered
  <2>0. PICK attempt : attempt = ui.attempt + 1  OBVIOUS
  <2>1. PICK next, persona :
          Render(next, calls, Rest) /\ next = [ui EXCEPT !.persona = persona, !.attempt = attempt]
    BY <1>4, <2>0, Zenon DEF SwitchAnswered
  <2>2. Untouched(next)  BY <2>1, Facts DEF Untouched, Pages
  <2> QED  BY <2>1, <2>2, UntouchedStays
<1>5. CASE SaveAnswered
  <2>1. PICK queue : Render(ui, calls, queue)  BY <1>5 DEF SaveAnswered
  <2>2. Untouched(ui)  BY DEF Untouched
  <2> QED  BY <2>1, <2>2, UntouchedStays
<1>6. CASE ListAnswered
  <2>1. PICK command : command = Head(native.queue)  OBVIOUS
  <2>2. PICK loaded : loaded = [ui EXCEPT !.persona = command.listed, !.listed = command.listed]
    OBVIOUS
  <2>3. Untouched(loaded) /\ loaded.gen = ui.gen  BY <2>2, Facts DEF Untouched, Pages
  <2>4. loaded \in Pages
    <3>1. command \in Commands
      BY <1>6, <2>1, Facts, TailSession DEF ListAnswered, Done
    <3> QED  BY <2>2, <3>1, Facts DEF Pages, Commands
  <2>5. \/ Render(loaded, calls, Rest)
        \/ \E queue : Render(Leaving(loaded), calls, queue)
        \/ Render([Forget(loaded) EXCEPT !.backend = "checking", !.auth = "checking",
                                         !.attempt = @ + 1], calls, Rest)
    BY <1>6, <2>1, <2>2 DEF ListAnswered
  <2>6. CASE Render(loaded, calls, Rest)  BY <2>3, <2>6, UntouchedStays
  <2>7. CASE \E queue : Render(Leaving(loaded), calls, queue)
    <3>1. Ended(Leaving(loaded))  BY <2>3, <2>4, LeavingBlank DEF Ended, Blank
    <3> QED  BY <2>7, <3>1, EndedStays
  <2>8. CASE Render([Forget(loaded) EXCEPT !.backend = "checking", !.auth = "checking",
                                           !.attempt = @ + 1], calls, Rest)
    <3>1. PICK blank : blank = Forget(loaded)  OBVIOUS
    <3>2. blank \in Pages /\ blank.gen = loaded.gen + 1  BY <2>4, <3>1, ForgetBlank DEF Blank
    <3>3. PICK attempt \in Nat : attempt = blank.attempt + 1  BY <3>2 DEF Pages
    <3>4. PICK next : next = [blank EXCEPT !.backend = "checking", !.auth = "checking",
                                           !.attempt = attempt]
      OBVIOUS
    <3>5. Ended(next)  BY <2>3, <3>2, <3>3, <3>4 DEF Ended, Pages
    <3> QED  BY <2>8, <3>1, <3>3, <3>4, <3>5, EndedStays
  <2> QED  BY <2>5, <2>6, <2>7, <2>8
<1> QED  BY <1>1, <1>2, <1>3, <1>4, <1>5, <1>6 DEF Native

LEMMA BackendStays == ASSUME WorkspaceInv, Backend  PROVE Stay(ui')
<1>1. PICK c \in calls : \/ ServeRead(c) \/ ServeCreate(c) \/ ServeChat(c) \/ ServeDelete(c)
                         \/ Unknown(c) \/ CallFails(c)
  BY DEF Backend
<1>2. CASE ServeRead(c)  BY <1>2, StillStays DEF ServeRead, Untouched
<1>3. CASE ServeCreate(c)  BY <1>3, StillStays DEF ServeCreate, Untouched
<1>4. CASE ServeChat(c)  BY <1>4, StillStays DEF ServeChat, Untouched
<1>5. CASE ServeDelete(c)  BY <1>5, StillStays DEF ServeDelete, Untouched
<1>6. CASE Unknown(c)  BY <1>6, StillStays DEF Unknown, Untouched
<1>7. CASE CallFails(c)  BY <1>7, StillStays DEF CallFails, Untouched
<1> QED  BY <1>1, <1>2, <1>3, <1>4, <1>5, <1>6, <1>7

LEMMA EventsStay == ASSUME WorkspaceInv, Events  PROVE Stay(ui')
<1>1. PICK cursor, toast :
        ui' = ui \/ ui' = [ui EXCEPT !.cursor = cursor] \/ ui' = [ui EXCEPT !.toast = toast]
  BY Zenon DEF Events, Poll, PollAnswered, Announce, Speaks
<1> QED  BY <1>1, StillStays, Facts DEF Untouched, Pages

LEMMA HistoryStays == ASSUME WorkspaceInv, NEW c \in calls, HistoryAnswered(c)  PROVE Stay(ui')
<1>1. c.kind \in {"history", "news"} /\ c.status \in {"answered", "failed"}
  BY DEF HistoryAnswered
<1>2. c \in HistoryCalls
  BY <1>1, Facts DEF Calls, HistoryCalls, LoadCalls, AuthCalls, CreateCalls, ChatCalls, DeleteCalls
<1>3. PICK history : history = replaceDurableChatHistory(ui.history, c.conv, c.messages, c.revision)
  OBVIOUS
<1>4. PICK next, kept :
        /\ Render(next, kept, native.queue)
        /\ next = ui \/ (c.status = "answered" /\ next = [ui EXCEPT !.history = history])
  BY <1>1, <1>3 DEF HistoryAnswered
<1>5. CASE next = ui  BY <1>4, <1>5, UntouchedStays DEF Untouched
<1>6. CASE c.status = "answered" /\ next = [ui EXCEPT !.history = history]
  <2>1. DOMAIN next = DOMAIN ui /\ next.history = history  BY <1>6, Facts DEF Pages
  <2>2. ASSUME NEW d \in Conversations, NEW m \in ui.history[d].messages,
               m.kind = "reply", m.n \in ui.received, m \in store[d]
        PROVE  m \in history[d].messages
    <3>1. c.conv \in Conversations /\ ui.history \in Histories  BY <1>2, Facts DEF HistoryCalls, Pages
    <3>2. CASE history = ui.history  BY <2>2, <3>2
    <3>3. CASE /\ history = [ui.history EXCEPT ![c.conv].messages = c.messages]
               /\ ui.history[c.conv].revision = c.revision
      <4>1. CASE d # c.conv
        BY <2>2, <3>1, <3>3, <4>1 DEF Histories
      <4>2. CASE d = c.conv
        <5>1. m = Message("reply", m.n)
          <6>1. m \in Durable  BY <2>2 DEF WorkspaceInv, WorldInv
          <6> QED  BY <2>2, <6>1 DEF Message, Durable
        <5>2. \A k \in ui.received : Message("reply", k) \in store[c.conv]
                                       => Message("reply", k) \in c.messages
          BY <1>1, <1>6, <3>3, Facts DEF RepliesOK, SnapshotsOK
        <5>3. m \in c.messages  BY <2>2, <4>2, <5>1, <5>2
        <5>4. history[d].messages = c.messages  BY <3>1, <3>3, <4>2 DEF Histories
        <5> QED  BY <5>3, <5>4
      <4> QED  BY <4>1, <4>2
    <3> QED  BY <1>3, <3>2, <3>3 DEF replaceDurableChatHistory
  <2>3. Stay(next)  BY <2>1, <2>2 DEF Stay
  <2> QED  BY <1>4, <2>1, <2>3, CommitStays
<1> QED  BY <1>4, <1>5, <1>6

LEMMA ChatStays == ASSUME WorkspaceInv, NEW c \in calls, ChatAnswered(c)  PROVE Stay(ui')
<1>1. c.kind = "chat"  BY DEF ChatAnswered
<1>2. c \in ChatCalls
  BY <1>1, Facts DEF Calls, HistoryCalls, LoadCalls, AuthCalls, CreateCalls, ChatCalls, DeleteCalls
<1>3. PICK shown : shown = ui.history[c.conv].messages  OBVIOUS
<1>4. PICK messages :
        messages = IF c.status = "answered" THEN reconcileChatResponse(shown, c.n)
                   ELSE {IF m = Message("temp", c.n) THEN Message("failed", c.n) ELSE m : m \in shown}
  OBVIOUS
<1>5. PICK history : history = updateChatHistory(ui.history, c.conv, messages)  OBVIOUS
<1>6. PICK received : received = ui.received \cup {n \in {c.n} : c.status = "answered"}  OBVIOUS
<1>7. PICK merged : merged = [ui EXCEPT !.history = history, !.received = received]  OBVIOUS
<1>8. PICK kept, next :
        Render(next, kept, native.queue) /\ (next = ui \/ next = Settled(merged, c))
  <2>1. [ui EXCEPT !.history = updateChatHistory(@, c.conv, messages),
                   !.received = @ \cup {n \in {c.n} : c.status = "answered"}] = merged
    BY <1>5, <1>6, <1>7
  <2> QED  BY <1>3, <1>4, <2>1 DEF ChatAnswered
<1>9. CASE next = ui  BY <1>8, <1>9, UntouchedStays DEF Untouched
<1>10. CASE next = Settled(merged, c)
  <2>1. merged.history = history /\ DOMAIN merged = DOMAIN ui
    BY <1>7, Facts DEF Pages
  <2>2. DOMAIN next = DOMAIN ui /\ next.history = history
    <3>1. PICK pending : next = merged \/ next = [merged EXCEPT !.pending = pending]
      BY <1>10 DEF Settled
    <3> QED  BY <2>1, <3>1, Facts DEF Pages
  <2>3. \A m \in shown : m.kind = "reply" => m \in messages
    <3>1. ASSUME NEW m \in shown, m.kind = "reply"  PROVE m \in messages
      <4>1. m # Message("temp", c.n)  BY <3>1 DEF Message
      <4> QED  BY <1>4, <3>1, <4>1 DEF reconcileChatResponse
    <3> QED  BY <3>1
  <2>4. c.conv \in Conversations /\ ui.history \in Histories
    BY <1>2, Facts DEF ChatCalls, Pages
  <2>5. \A d \in Conversations : history[d].messages = IF d = c.conv THEN messages
                                                       ELSE ui.history[d].messages
    BY <1>5, <2>4 DEF updateChatHistory, Histories
  <2>6. Stay(next)  BY <1>3, <2>2, <2>3, <2>5 DEF Stay
  <2> QED  BY <1>8, <2>2, <2>6, CommitStays
<1> QED  BY <1>8, <1>9, <1>10

LEMMA DeleteStays == ASSUME WorkspaceInv, NEW c \in calls, DeleteAnswered(c)  PROVE Stay(ui')
<1>1. c.kind = "delete" /\ c.status \in {"answered", "failed"}  BY DEF DeleteAnswered
<1>2. c \in DeleteCalls
  BY <1>1, Facts DEF Calls, HistoryCalls, LoadCalls, AuthCalls, CreateCalls, ChatCalls, DeleteCalls
<1>3. PICK history : history = updateChatHistory(ui.history, c.conv,
                                  ui.history[c.conv].messages \ {c.message})
  OBVIOUS
<1>4. PICK next, kept :
        /\ Render(next, kept, native.queue)
        /\ next = ui \/ (c.status = "answered" /\ next = [ui EXCEPT !.history = history])
  BY <1>1, <1>3 DEF DeleteAnswered
<1>5. CASE next = ui  BY <1>4, <1>5, UntouchedStays DEF Untouched
<1>6. CASE c.status = "answered" /\ next = [ui EXCEPT !.history = history]
  <2>1. DOMAIN next = DOMAIN ui /\ next.history = history  BY <1>6, Facts DEF Pages
  <2>2. c.conv \in Conversations /\ ui.history \in Histories
    BY <1>2, Facts DEF DeleteCalls, Pages
  <2>3. \A d \in Conversations : \A m \in ui.history[d].messages :
          m \in history[d].messages \/ (d = c.conv /\ m = c.message)
    BY <1>3, <2>2 DEF updateChatHistory, Histories
  <2>4. c.message.kind = "reply" => c.message \notin store[c.conv]
    BY <1>1, <1>6, Facts DEF RepliesOK, DeletesOK
  <2>5. Stay(next)  BY <2>1, <2>3, <2>4 DEF Stay
  <2> QED  BY <1>4, <2>1, <2>5, CommitStays
<1> QED  BY <1>4, <1>5, <1>6

LEMMA AnswersStay == ASSUME WorkspaceInv, Answers  PROVE Stay(ui')
<1>1. PICK c \in calls : \/ AuthAnswered(c) \/ LoadAnswered(c) \/ CreateAnswered(c)
                         \/ HistoryAnswered(c) \/ ChatAnswered(c) \/ DeleteAnswered(c)
                         \/ Denied(c)
  BY DEF Answers
<1>2. CASE AuthAnswered(c)
  <2>1. PICK next : /\ Render(next, calls \ {c}, native.queue)
                    /\ next = IF ~Current(c) THEN ui
                              ELSE CASE c.status = "answered" ->
                                          [ui EXCEPT !.persona = c.persona, !.unavailable = FALSE,
                                                     !.auth = "authenticated"]
                                     [] c.status = "unavailable" ->
                                          [ui EXCEPT !.persona = ui.listed, !.unavailable = TRUE,
                                                     !.guessed = TRUE, !.auth = "authenticated"]
                                     [] OTHER -> [ui EXCEPT !.auth = "unauthenticated"]
    BY <1>2 DEF AuthAnswered
  <2>2. Untouched(next)  BY <2>1, Facts DEF Untouched, Pages
  <2> QED  BY <2>1, <2>2, UntouchedStays
<1>3. CASE LoadAnswered(c)
  <2>1. PICK next, kept, conv :
          Render(next, kept, native.queue) /\ (next = ui \/ next = [ui EXCEPT !.main = conv])
    BY <1>3 DEF LoadAnswered
  <2>2. Untouched(next)  BY <2>1, Facts DEF Untouched, Pages
  <2> QED  BY <2>1, <2>2, UntouchedStays
<1>4. CASE CreateAnswered(c)
  <2>1. PICK next, kept, conv :
          Render(next, kept, native.queue) /\ (next = ui \/ next = [ui EXCEPT !.main = conv])
    BY <1>4 DEF CreateAnswered
  <2>2. Untouched(next)  BY <2>1, Facts DEF Untouched, Pages
  <2> QED  BY <2>1, <2>2, UntouchedStays
<1>5. CASE HistoryAnswered(c)  BY <1>5, HistoryStays
<1>6. CASE ChatAnswered(c)  BY <1>6, ChatStays
<1>7. CASE DeleteAnswered(c)  BY <1>7, DeleteStays
<1>8. CASE Denied(c)
  <2>1. PICK blank : blank = Forget(ui)  OBVIOUS
  <2>2. blank \in Pages /\ blank.gen = ui.gen + 1  BY <2>1, Facts, ForgetBlank DEF Blank
  <2>3. PICK next : next = [blank EXCEPT !.auth = "unauthenticated", !.persona = None]  OBVIOUS
  <2>4. Ended(next)  BY <2>2, <2>3 DEF Ended, Pages, Someone
  <2>5. Render(next, calls \ {c}, native.queue)  BY <1>8, <2>1, <2>3 DEF Denied
  <2> QED  BY <2>4, <2>5, EndedStays
<1> QED  BY <1>1, <1>2, <1>3, <1>4, <1>5, <1>6, <1>7, <1>8

LEMMA SendStays == ASSUME WorkspaceInv, Send  PROVE Stay(ui')
<1>1. PICK messages : messages = ui.history[ui.main].messages \cup {Message("temp", spent.sends + 1)}
  OBVIOUS
<1>2. PICK history : history = updateChatHistory(ui.history, ui.main, messages)  OBVIOUS
<1>3. PICK next, kept, pending : /\ Render(next, kept, native.queue)
                                 /\ next = [ui EXCEPT !.pending = pending, !.history = history]
  BY <1>1, <1>2 DEF Send
<1>4. DOMAIN next = DOMAIN ui /\ next.history = history  BY <1>3, Facts DEF Pages
<1>5. ui.history \in Histories  BY Facts DEF Pages
<1>6. \A d \in Conversations : ui.history[d].messages \subseteq history[d].messages
  BY <1>1, <1>2, <1>5 DEF updateChatHistory, Histories
<1>7. Stay(next)  BY <1>4, <1>6 DEF Stay
<1> QED  BY <1>3, <1>4, <1>7, CommitStays

LEMMA UserStays == ASSUME WorkspaceInv, User  PROVE Stay(ui')
<1>1. CASE Send  BY <1>1, SendStays
<1>2. CASE View
  <2>1. PICK next, section :
          Render(next, calls, native.queue) /\ next = [ui EXCEPT !.section = section]
    BY <1>2 DEF View
  <2>2. Untouched(next)  BY <2>1, Facts DEF Untouched, Pages
  <2> QED  BY <2>1, <2>2, UntouchedStays
<1>3. CASE Delete \/ Save \/ \E to \in Personas \cup {None} : Manage(to)
  <2>1. UNCHANGED ui  BY <1>3 DEF Delete, Save, Manage
  <2> QED  BY <2>1, StillStays DEF Untouched
<1>4. CASE ToastExpires
  <2>1. Untouched(ui')  BY <1>4, Facts DEF ToastExpires, Untouched, Pages
  <2> QED  BY <2>1, StillStays
<1>5. CASE Retry
  <2>1. PICK next, attempt : /\ Render(next, calls, native.queue)
                             /\ next = [ui EXCEPT !.backend = "checking", !.auth = "checking",
                                                  !.attempt = attempt]
    BY <1>5 DEF Retry
  <2>2. Untouched(next)  BY <2>1, Facts DEF Untouched, Pages
  <2> QED  BY <2>1, <2>2, UntouchedStays
<1>6. CASE \E p \in Personas : Switch(p)
  <2>1. PICK queue : Render(Leaving(ui), calls, queue)  BY <1>6 DEF Switch, switchPersona
  <2>2. Ended(Leaving(ui))  BY Facts, LeavingBlank DEF Ended, Blank
  <2> QED  BY <2>1, <2>2, EndedStays
<1>7. CASE OpenEvent
  <2>1. PICK opened : opened = [ui EXCEPT !.toast = None]  OBVIOUS
  <2>2. opened \in Pages /\ Untouched(opened) /\ opened.gen = ui.gen
    BY <2>1, Facts DEF Untouched, Pages, Somewhere
  <2>3. \/ \E queue : Render(Leaving(opened), calls, queue)
        \/ Render([opened EXCEPT !.main = ui.toast, !.section = "chat"], calls, native.queue)
    BY <1>7, <2>1 DEF OpenEvent
  <2>4. CASE \E queue : Render(Leaving(opened), calls, queue)
    <3>1. Ended(Leaving(opened))  BY <2>2, LeavingBlank DEF Ended, Blank
    <3> QED  BY <2>4, <3>1, EndedStays
  <2>5. CASE Render([opened EXCEPT !.main = ui.toast, !.section = "chat"], calls, native.queue)
    <3>1. PICK next : next = [opened EXCEPT !.main = ui.toast, !.section = "chat"]  OBVIOUS
    <3>2. Untouched(next)  BY <2>2, <3>1 DEF Untouched, Pages
    <3> QED  BY <2>5, <3>1, <3>2, UntouchedStays
  <2> QED  BY <2>3, <2>4, <2>5
<1> QED  BY <1>1, <1>2, <1>3, <1>4, <1>5, <1>6, <1>7 DEF User

\* A reply the page received stays on it until the session ends or the reply is
\* deleted: neither replaceDurableChatHistory nor the answer of another call
\* takes it away.
THEOREM RepliesKept == Spec => RepliesStay
<1>1. WorkspaceInv /\ [Next]_vars =>
        [\A c \in Conversations : \A m \in ui.history[c].messages :
           m.kind = "reply" /\ m.n \in ui.received /\ m \in store[c] /\ ui'.gen = ui.gen
             => m \in ui'.history[c].messages]_vars
  <2> SUFFICES ASSUME WorkspaceInv, Next
               PROVE  \A c \in Conversations : \A m \in ui.history[c].messages :
                        m.kind = "reply" /\ m.n \in ui.received /\ m \in store[c]
                          /\ ui'.gen = ui.gen => m \in ui'.history[c].messages
    OBVIOUS
  <2>1. Stay(ui')
    BY NativeStays, BackendStays, AnswersStay, EventsStay, UserStays DEF Next
  <2> QED  BY <2>1 DEF Stay
<1> QED  BY <1>1, WorkspaceInvariant, PTL DEF Spec, RepliesStay

=============================================================================
